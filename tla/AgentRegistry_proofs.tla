------------------------ MODULE AgentRegistry_proofs ------------------------
(***************************************************************************)
(* Proofs about AgentRegistry: for any number of machines, names, starts   *)
(* and upsets, and any finite set of old documents.                        *)
(*                                                                         *)
(* No property is inductive.  A code is for ever because what is drawn     *)
(* from the sequence and not yet written is nobody else's (Drawn).  That a *)
(* name has one document rests on Creating: who is about to insert has     *)
(* found nothing, and no namesake is about to.  That a key keeps opening   *)
(* its document rests on Held: a registration holds the key of the one     *)
(* document of its name from its lookup to its answer.                     *)
(***************************************************************************)
EXTENDS AgentRegistry, FiniteSetTheorems, SequenceTheorems, TLAPS

\* What a registration and a listing hold exists.
Grounded ==
  /\ \A m \in Machines :
       /\ reg[m].at \in {"update", "guard"} => reg[m].doc \in DOMAIN docs
       /\ reg[m].at = "seq" => reg[m].doc \in DOMAIN docs \cup {0}
       /\ reg[m].at \in {"find", "put"} => reg[m].doc = 0
       /\ reg[m].at \in {"find", "seq"} => reg[m].code = 0
       /\ reg[m].key <= keys /\ reg[m].code <= codes
  /\ lister.code <= codes
  /\ lister.at # "idle" => lister.doc \in DOMAIN docs

TInv == TypeOK /\ Grounded

\* A code drawn from the sequence that no document has yet.
Unused(code) == code <= codes /\ (code # 0 => \A d \in DOMAIN docs : docs[d].code # code)

Holding(m) == reg[m].at \in {"put", "guard"}

\* Codes are of one document, and a drawn one of one request.
Drawn ==
  /\ \A d, e \in DOMAIN docs : d # e /\ docs[d].code # 0 => docs[d].code # docs[e].code
  /\ \A m \in Machines : Holding(m) => Unused(reg[m].code)
  /\ \A m, n \in Machines :
       m # n /\ Holding(m) /\ Holding(n) /\ reg[m].code # 0 => reg[m].code # reg[n].code
  /\ lister.at = "guard" =>
       /\ Unused(lister.code)
       /\ \A m \in Machines : Holding(m) /\ lister.code # 0 => reg[m].code # lister.code

\* About to insert a document.
Creating(m) == reg[m].at = "put" \/ (reg[m].at = "seq" /\ reg[m].doc = 0)

\* Who is about to insert has found nothing, and no namesake has looked without
\* having written.
Alone ==
  \A m \in Machines : NameOf[m] \notin raced =>
    /\ Creating(m) => \A d \in DOMAIN docs : docs[d].name # NameOf[m]
    /\ Deciding(m) => \A n \in Machines : n # m /\ NameOf[n] = NameOf[m] => ~Deciding(n)

\* A document that is hidden without an administrator is about to be shown.
Shown ==
  \A d \in DOMAIN docs : docs[d].deleted /\ d \notin removed =>
    \E m \in Machines : reg[m].at = "update" /\ reg[m].doc = d /\ reg[m].hidden

\* Ids are of the machine that made them up, and so are documents of that id and
\* those a machine is about to take over.
Named ==
  /\ \A m \in Machines : machine[m].id \in {<<m, 0>>, <<m, 1>>}
  /\ \A d \in DOMAIN docs : \A m \in Machines, k \in {0, 1} :
       docs[d].id = <<m, k>> => docs[d].name = NameOf[m]
  /\ \A m \in Machines : reg[m].at = "update" => docs[reg[m].doc].name = NameOf[m]

\* The document a machine has under a key; it bears the machine's id until
\* another takes it over.
Has(m, key) ==
  \E d \in DOMAIN docs :
    /\ docs[d].name = NameOf[m] /\ docs[d].key = key
    /\ m \notin evicted => docs[d].id = machine[m].id

\* A registration past its write.
Written(m) ==
  reg[m].at \in {"reply", "guard"} \/ (reg[m].at = "seq" /\ reg[m].doc # 0)

\* What a machine and its registration hold is the key of its document.
HeldFor(m) ==
  NameOf[m] \notin raced =>
    /\ machine[m].key # 0 => Has(m, machine[m].key)
    /\ Written(m) => reg[m].key # 0 /\ Has(m, reg[m].key)
    /\ reg[m].at = "update" => docs[reg[m].doc].key = reg[m].key

Held == \A m \in Machines : HeldFor(m)

-----------------------------------------------------------------------------
(* Types *)

\* A document overwritten in place, or appended, leaves a collection.
LEMMA Overwrite ==
  ASSUME docs \in Seq(Doc), NEW d \in DOMAIN docs, NEW x \in Doc
  PROVE  /\ [docs EXCEPT ![d] = x] \in Seq(Doc)
         /\ DOMAIN [docs EXCEPT ![d] = x] = DOMAIN docs
  BY ExceptSeq

LEMMA Insert ==
  ASSUME docs \in Seq(Doc), NEW x \in Doc
  PROVE  /\ Append(docs, x) \in Seq(Doc)
         /\ DOMAIN Append(docs, x) = DOMAIN docs \cup {Len(docs) + 1}
         /\ Len(docs) + 1 \notin DOMAIN docs
         /\ 0 \notin DOMAIN docs
         /\ \A d \in DOMAIN docs : Append(docs, x)[d] = docs[d]
         /\ Append(docs, x)[Len(docs) + 1] = x
  BY AppendProperties

LEMMA Fields ==
  ASSUME TypeOK, NEW d \in DOMAIN docs
  PROVE  docs[d] \in Doc
  BY DEF TypeOK

LEMMA InitTInv == Init => TInv
<1> SUFFICES ASSUME Init PROVE TInv
  OBVIOUS
<1>1. PICK old \in SUBSET Legacy : \E name \in [1..Cardinality(old) -> old] :
        docs = [d \in DOMAIN name |->
             [name |-> name[d], id |-> NoId, code |-> 0, key |-> 0,
              stale |-> TRUE, deleted |-> FALSE, retired |-> FALSE]]
  BY DEF Init
<1>2. PICK name \in [1..Cardinality(old) -> old] :
        docs = [d \in DOMAIN name |->
             [name |-> name[d], id |-> NoId, code |-> 0, key |-> 0,
              stale |-> TRUE, deleted |-> FALSE, retired |-> FALSE]]
  BY <1>1
<1>3. \A d \in 1..Cardinality(old) : docs[d] \in Doc /\ docs[d].code = 0 /\ docs[d].key = 0
  BY <1>2 DEF Doc
<1>4. docs \in Seq(Doc) /\ DOMAIN docs = 1..Cardinality(old)
  <2>1. Cardinality(old) \in Nat
    BY LegacyAssumption, FS_Subset, FS_CardinalityType
  <2> QED
    BY <1>2, <1>3, <2>1
<1>5. machine \in [Machines -> Machine]
  BY DEF Init, Machine, Ids
<1>6. reg \in [Machines -> Reg]
  BY DEF Init, Reg, NoReg, Request
<1> QED
  BY <1>3, <1>4, <1>5, <1>6
  DEF Init, TInv, TypeOK, Grounded, NoReg, Request, NoListing, Listing

\* A document overwritten by another of the same type.
LEMMA Rewritten ==
  ASSUME TypeOK, NEW d \in DOMAIN docs, NEW x \in Doc, docs' = [docs EXCEPT ![d] = x]
  PROVE  /\ docs' \in Seq(Doc) /\ DOMAIN docs' = DOMAIN docs
         /\ docs'[d] = x
         /\ \A e \in DOMAIN docs : e # d => docs'[e] = docs[e]
  BY Overwrite DEF TypeOK

\* Documents whose flags alone have changed.
Marks ==
  /\ docs' \in Seq(Doc) /\ DOMAIN docs' = DOMAIN docs
  /\ \A d \in DOMAIN docs :
       /\ docs'[d].name = docs[d].name /\ docs'[d].id = docs[d].id
       /\ docs'[d].code = docs[d].code /\ docs'[d].key = docs[d].key

LEMMA FlagMarks ==
  ASSUME TypeOK, NEW d \in DOMAIN docs, NEW b \in BOOLEAN,
         \/ docs' = [docs EXCEPT ![d].stale = b]
         \/ docs' = [docs EXCEPT ![d].deleted = b]
         \/ docs' = [docs EXCEPT ![d].retired = b]
  PROVE  Marks
<1>1. PICK x \in Doc :
        /\ docs' = [docs EXCEPT ![d] = x]
        /\ x.name = docs[d].name /\ x.id = docs[d].id /\ x.code = docs[d].code /\ x.key = docs[d].key
  <2>1. /\ [docs[d] EXCEPT !.stale = b] \in Doc /\ [docs[d] EXCEPT !.deleted = b] \in Doc
        /\ [docs[d] EXCEPT !.retired = b] \in Doc
    BY Fields DEF Doc
  <2> QED
    BY <2>1, Fields DEF Doc
<1> QED
  BY <1>1, Rewritten DEF Marks

\* What the machines, the administrators and the passing of time write.
Flagging ==
  \/ \E m \in Machines : Heartbeat(m) \/ StopAgent(m)
  \/ DeleteAgent \/ Decommission \/ CleanupRemove \/ Silence

LEMMA SameMarks ==
  ASSUME TypeOK, docs' = docs
  PROVE  Marks
  BY DEF TypeOK, Marks

LEMMA CleanupMarks ==
  ASSUME TypeOK, CleanupRemove
  PROVE  Marks
<1>1. docs \in Seq(Doc) /\ Len(docs) \in Nat /\ DOMAIN docs = 1..Len(docs)
  BY DEF TypeOK
<1>2. \A d \in DOMAIN docs : [docs[d] EXCEPT !.deleted = @ \/ d \in Stale] \in Doc
  <2>1. \A d \in DOMAIN docs : (docs[d].deleted \/ d \in Stale) \in BOOLEAN
    OBVIOUS
  <2> QED
    BY <2>1, Fields DEF Doc
<1>3. docs' \in Seq(Doc) /\ DOMAIN docs' = DOMAIN docs
  BY <1>1, <1>2 DEF CleanupRemove
<1> QED
  BY <1>3, Fields DEF CleanupRemove, Marks, Doc

LEMMA FlaggingMarks ==
  ASSUME TypeOK, Flagging
  PROVE  Marks
<1>1. ASSUME NEW m \in Machines, Heartbeat(m) PROVE Marks
  BY <1>1, FlagMarks, SameMarks DEF Heartbeat, HeartbeatOk, HeartbeatFails
<1>2. ASSUME NEW m \in Machines, StopAgent(m) PROVE Marks
  BY <1>2, FlagMarks, SameMarks DEF StopAgent
<1>3. ASSUME DeleteAgent PROVE Marks
  BY <1>3, FlagMarks DEF DeleteAgent
<1>4. ASSUME Decommission PROVE Marks
  BY <1>4, FlagMarks DEF Decommission
<1>5. ASSUME Silence PROVE Marks
  BY <1>5, FlagMarks DEF Silence
<1> QED
  BY <1>1, <1>2, <1>3, <1>4, <1>5, CleanupMarks DEF Flagging

\* What RegisterFind reads.
LEMMA FindReads ==
  ASSUME TInv, NEW m \in Machines, RegisterFind(m)
  PROVE  /\ UNCHANGED <<up, docs, codes, keys, machine, lister, admin, evicted>>
         /\ \A n \in Machines : n # m => reg'[n] = reg[n]
         /\ \/ Knows(m) = {} /\ reg'[m].at = "seq" /\ reg'[m].doc = 0 /\ removed' = removed
            \/ \E d \in Knows(m) :
                 /\ reg'[m].at = "update" /\ reg'[m].doc = d /\ reg'[m].key = docs[d].key
                 /\ reg'[m].hidden = (docs[d].deleted \/ docs[d].retired)
                 /\ removed' = removed \ {d}
<1>a. reg \in [Machines -> Reg] /\ reg[m] \in Reg /\ reg[m].doc = 0
  BY DEF TInv, TypeOK, Grounded, RegisterFind
<1>1. /\ UNCHANGED <<up, docs, codes, keys, machine, lister, admin, evicted>>
      /\ \A n \in Machines : n # m => reg'[n] = reg[n]
  BY <1>a DEF RegisterFind
<1>2. CASE Knows(m) = {} /\ reg' = [reg EXCEPT ![m].at = "seq"] /\ removed' = removed
  <2>1. reg'[m].at = "seq" /\ reg'[m].doc = 0
    BY <1>a, <1>2 DEF Reg
  <2> QED
    BY <1>1, <1>2, <2>1
<1>3. ASSUME NEW d \in Knows(m),
             reg' = [reg EXCEPT ![m] = [reg[m] EXCEPT !.at = "update", !.doc = d,
                !.key = docs[d].key, !.code = docs[d].code,
                !.hidden = docs[d].deleted \/ docs[d].retired]]
      PROVE  /\ reg'[m].at = "update" /\ reg'[m].doc = d /\ reg'[m].key = docs[d].key
             /\ reg'[m].hidden = (docs[d].deleted \/ docs[d].retired)
  BY <1>a, <1>3 DEF Reg
<1>4. \/ Knows(m) = {} /\ reg' = [reg EXCEPT ![m].at = "seq"] /\ removed' = removed
      \/ \E d \in Knows(m) :
           /\ reg' = [reg EXCEPT ![m] = [reg[m] EXCEPT !.at = "update", !.doc = d,
                !.key = docs[d].key, !.code = docs[d].code,
                !.hidden = docs[d].deleted \/ docs[d].retired]]
           /\ removed' = removed \ {d}
  BY DEF RegisterFind
<1> QED
  BY <1>1, <1>2, <1>3, <1>4

\* What RegisterUpdate writes: the document is the machine's, under its old key
\* or, where it had none, under a new one.
LEMMA UpdateWrites ==
  ASSUME TInv, NEW m \in Machines, RegisterUpdate(m)
  PROVE  LET d == reg[m].doc
             key == IF reg[m].key # 0 THEN reg[m].key ELSE keys + 1
         IN /\ d \in DOMAIN docs
            /\ keys' \in Nat /\ keys <= keys' /\ key \in Nat /\ key <= keys'
            /\ docs' \in Seq(Doc) /\ DOMAIN docs' = DOMAIN docs
            /\ docs'[d].name = docs[d].name /\ docs'[d].code = docs[d].code
            /\ docs'[d].id = machine[m].id /\ docs'[d].key = key
            /\ docs'[d].deleted = (docs[d].deleted /\ ~reg[m].hidden)
            /\ \A e \in DOMAIN docs : e # d => docs'[e] = docs[e]
            /\ reg' = [reg EXCEPT ![m].key = key,
                                   ![m].at = IF reg[m].code = 0 THEN "seq" ELSE "reply"]
<1> DEFINE d == reg[m].doc
           key == IF reg[m].key # 0 THEN reg[m].key ELSE keys + 1
           x == [docs[d] EXCEPT !.id = machine[m].id, !.key = key, !.stale = FALSE,
                   !.deleted = @ /\ ~reg[m].hidden, !.retired = @ /\ ~reg[m].hidden]
<1>1. d \in DOMAIN docs /\ docs[d] \in Doc
  BY Fields DEF TInv, Grounded, RegisterUpdate
<1>2. key \in Nat /\ keys' \in Nat /\ keys <= keys' /\ key <= keys'
  BY DEF TInv, TypeOK, Grounded, Reg, RegisterUpdate
<1>3. machine[m].id \in Ids
  BY DEF TInv, TypeOK, Machine
<1>4. (docs[d].deleted /\ ~reg[m].hidden) \in BOOLEAN /\ (docs[d].retired /\ ~reg[m].hidden) \in BOOLEAN
  OBVIOUS
<1>5. x \in Doc
  BY <1>1, <1>2, <1>3, <1>4 DEF Doc
<1>6. docs' = [docs EXCEPT ![d] = x]
  BY DEF RegisterUpdate
<1>7. /\ docs' \in Seq(Doc) /\ DOMAIN docs' = DOMAIN docs /\ docs'[d] = x
      /\ \A e \in DOMAIN docs : e # d => docs'[e] = docs[e]
  BY <1>1, <1>5, <1>6, Rewritten DEF TInv
<1>8. /\ x.name = docs[d].name /\ x.code = docs[d].code /\ x.id = machine[m].id /\ x.key = key
      /\ x.deleted = (docs[d].deleted /\ ~reg[m].hidden)
  BY <1>1 DEF Doc
<1>9. reg' = [reg EXCEPT ![m].key = key, ![m].at = IF reg[m].code = 0 THEN "seq" ELSE "reply"]
  BY DEF RegisterUpdate
<1> HIDE DEF x
<1> QED
  BY <1>1, <1>2, <1>7, <1>8, <1>9

\* What RegisterPut inserts.
LEMMA PutWrites ==
  ASSUME TInv, NEW m \in Machines, RegisterPut(m)
  PROVE  LET new == Len(docs) + 1
         IN /\ new \notin DOMAIN docs /\ DOMAIN docs' = DOMAIN docs \cup {new}
            /\ docs' \in Seq(Doc)
            /\ docs'[new].name = NameOf[m] /\ docs'[new].id = machine[m].id
            /\ docs'[new].code = reg[m].code /\ docs'[new].key = keys + 1
            /\ docs'[new].deleted = FALSE
            /\ \A d \in DOMAIN docs : docs'[d] = docs[d]
<1> DEFINE x == [name |-> NameOf[m], id |-> machine[m].id, code |-> reg[m].code,
                 key |-> keys + 1, stale |-> FALSE, deleted |-> FALSE, retired |-> FALSE]
<1>1. x \in Doc
  BY DEF TInv, TypeOK, Doc, Machine, Reg
<1>2. docs' = Append(docs, x) /\ docs \in Seq(Doc)
  BY DEF RegisterPut, TInv, TypeOK
<1>3. /\ x.name = NameOf[m] /\ x.id = machine[m].id /\ x.code = reg[m].code
      /\ x.key = keys + 1 /\ x.deleted = FALSE
  OBVIOUS
<1> HIDE DEF x
<1> QED
  BY <1>1, <1>2, <1>3, Insert

\* What a backfill writes: the code alone, and only where there was none.
LEMMA BackfillWrites ==
  ASSUME TInv, NEW d \in DOMAIN docs, NEW code \in Nat, Backfill(d, code)
  PROVE  /\ docs' \in Seq(Doc) /\ DOMAIN docs' = DOMAIN docs
         /\ docs'[d].code = IF docs[d].code = 0 THEN code ELSE docs[d].code
         /\ docs'[d].name = docs[d].name /\ docs'[d].id = docs[d].id
         /\ docs'[d].key = docs[d].key /\ docs'[d].deleted = docs[d].deleted
         /\ \A e \in DOMAIN docs : e # d => docs'[e] = docs[e]
<1> DEFINE x == [docs[d] EXCEPT !.code = IF @ = 0 THEN code ELSE @]
<1>1. docs[d] \in Doc
  BY Fields DEF TInv
<1>2. x \in Doc
  BY <1>1 DEF Doc
<1>3. docs' = [docs EXCEPT ![d] = x]
  BY DEF Backfill
<1>4. /\ x.code = IF docs[d].code = 0 THEN code ELSE docs[d].code
      /\ x.name = docs[d].name /\ x.id = docs[d].id /\ x.key = docs[d].key
      /\ x.deleted = docs[d].deleted
  BY <1>1 DEF Doc
<1> HIDE DEF x
<1> QED
  BY <1>2, <1>3, <1>4, Rewritten DEF TInv

\* Steps that leave the documents alone, but for flags, and the registrations.
Aside ==
  \/ \E m \in Machines : Heartbeat(m) \/ StopAgent(m) \/ Reinstall(m)
  \/ DeleteAgent \/ Decommission \/ CleanupPreview \/ CleanupRemove
  \/ Silence \/ Outage \/ OutageEnds \/ UNCHANGED vars

LEMMA AsideFrame ==
  ASSUME TypeOK, Aside
  PROVE  Marks /\ UNCHANGED <<codes, keys, reg, lister>>
<1>1. CASE Flagging
  <2>1. UNCHANGED <<codes, keys, reg, lister>>
    BY <1>1 DEF Flagging, Heartbeat, HeartbeatOk, HeartbeatFails, StopAgent, DeleteAgent,
                Decommission, CleanupRemove, Silence
  <2> QED
    BY <1>1, <2>1, FlaggingMarks
<1>2. ASSUME NEW m \in Machines, Reinstall(m) PROVE UNCHANGED <<docs, codes, keys, reg, lister>>
  BY <1>2 DEF Reinstall
<1>3. CleanupPreview \/ Outage \/ OutageEnds \/ UNCHANGED vars
        => UNCHANGED <<docs, codes, keys, reg, lister>>
  BY DEF CleanupPreview, Outage, OutageEnds, vars
<1> QED
  BY <1>1, <1>2, <1>3, SameMarks DEF Aside, Flagging

LEMMA StepCases ==
  ASSUME [Next]_vars
  PROVE  \/ Aside \/ ListStart \/ ListSeq \/ ListGuard
         \/ \E m \in Machines : StartAgent(m) \/ Register(m)
  BY DEF Next, Dashboard, Aside

LEMMA GroundedAside ==
  ASSUME TInv, Marks, UNCHANGED <<codes, keys, reg, lister>>
  PROVE  /\ Grounded' /\ docs' \in Seq(Doc) /\ reg' \in [Machines -> Reg] /\ lister' \in Listing
         /\ \A d \in DOMAIN docs' : docs'[d].code <= codes' /\ docs'[d].key <= keys'
  BY DEF TInv, TypeOK, Grounded, Marks

LEMMA AsideTypes ==
  ASSUME TInv, Aside
  PROVE  TInv'
<1>1. Marks /\ UNCHANGED <<codes, keys, reg, lister>>
  BY AsideFrame DEF TInv
<1>2. /\ Grounded' /\ docs' \in Seq(Doc) /\ reg' \in [Machines -> Reg] /\ lister' \in Listing
      /\ \A d \in DOMAIN docs' : docs'[d].code <= codes' /\ docs'[d].key <= keys'
  BY <1>1, GroundedAside
<1>3. ASSUME NEW m \in Machines,
             HeartbeatOk(m) \/ HeartbeatFails(m) \/ StopAgent(m) \/ Reinstall(m)
      PROVE  /\ machine' \in [Machines -> Machine]
             /\ UNCHANGED <<up, admin, raced, evicted, removed>>
  <2>1. machine[m] \in Machine /\ machine \in [Machines -> Machine]
    BY DEF TInv, TypeOK
  <2>2. CASE HeartbeatOk(m)
    BY <2>1, <2>2 DEF HeartbeatOk, Machine
  <2>3. CASE HeartbeatFails(m)
    <3>1. [machine[m] EXCEPT !.fails = 0, !.hbKey = 0] \in Machine
      BY <2>1 DEF Machine
    <3>2. ASSUME machine[m].fails # 2 PROVE [machine[m] EXCEPT !.fails = machine[m].fails + 1] \in Machine
      BY <2>1, <3>2 DEF Machine
    <3> QED
      BY <2>1, <2>3, <3>1, <3>2 DEF HeartbeatFails, Missed
  <2>4. CASE StopAgent(m)
    BY <2>1, <2>4 DEF StopAgent, Machine
  <2>5. CASE Reinstall(m)
    BY <2>1, <2>5 DEF Reinstall, Machine, Ids
  <2> QED
    BY <1>3, <2>2, <2>3, <2>4, <2>5
<1>4. ASSUME \/ DeleteAgent \/ Decommission \/ CleanupPreview \/ CleanupRemove
             \/ Silence \/ Outage \/ OutageEnds \/ UNCHANGED vars
      PROVE  /\ machine' \in [Machines -> Machine] /\ up' \in BOOLEAN
             /\ admin' \in {"idle", "remove"}
             /\ UNCHANGED <<raced, evicted>> /\ removed' \subseteq DOMAIN docs
  BY <1>4 DEF DeleteAgent, Decommission, CleanupPreview, CleanupRemove, Silence, Outage,
              OutageEnds, vars, TInv, TypeOK, Stale
<1>5. /\ machine' \in [Machines -> Machine] /\ up' \in BOOLEAN /\ admin' \in {"idle", "remove"}
      /\ UNCHANGED <<raced, evicted>> /\ removed' \subseteq DOMAIN docs
  BY <1>3, <1>4 DEF Aside, Heartbeat, TInv, TypeOK
<1> QED
  BY <1>1, <1>2, <1>5 DEF TInv, TypeOK, Marks

LEMMA ListerTypes ==
  ASSUME TInv, ListStart \/ ListSeq \/ ListGuard
  PROVE  TInv'
<1>1. CASE ListStart
  <2>1. PICK d \in DOMAIN docs : lister' = [at |-> "seq", doc |-> d, code |-> 0]
    BY <1>1 DEF ListStart
  <2>2. /\ lister' \in Listing
        /\ lister'.at # "idle" => lister'.doc \in DOMAIN docs
    BY <2>1 DEF Listing, TInv, TypeOK
  <2> QED
    BY <1>1, <2>1, <2>2 DEF ListStart, TInv, TypeOK, Grounded, Listing
<1>2. CASE ListSeq
  <2>a. lister.doc \in DOMAIN docs /\ lister \in Listing /\ codes \in Nat
    BY <1>2 DEF ListSeq, TInv, TypeOK, Grounded
  <2>1. /\ lister' \in Listing /\ codes' \in Nat /\ codes <= codes' /\ lister'.code <= codes'
        /\ lister'.at # "idle" => lister'.doc \in DOMAIN docs
    <3>1. CASE lister' = NoListing /\ codes' = codes
      BY <2>a, <3>1 DEF NoListing, Listing
    <3>2. CASE lister' = [at |-> "guard", doc |-> lister.doc, code |-> codes + 1] /\ codes' = codes + 1
      BY <2>a, <3>2 DEF Listing
    <3> QED
      BY <1>2, <3>1, <3>2 DEF ListSeq
  <2>3. docs' = docs /\ docs \in Seq(Doc) /\ UNCHANGED <<keys, reg, up, machine, admin, raced, evicted, removed>>
    BY <1>2 DEF ListSeq, TInv, TypeOK
  <2>4. \A d \in DOMAIN docs : docs[d].code <= codes'
    BY <2>1, Fields DEF TInv, TypeOK, Doc
  <2>5. \A m \in Machines : reg[m].code <= codes'
    BY <2>1 DEF TInv, TypeOK, Grounded, Reg
  <2> QED
    BY <2>1, <2>3, <2>4, <2>5 DEF TInv, TypeOK, Grounded
<1>3. CASE ListGuard
  <2>1. /\ lister.doc \in DOMAIN docs /\ lister.code \in Nat /\ Backfill(lister.doc, lister.code)
        /\ lister' = NoListing
        /\ UNCHANGED <<codes, keys, reg, up, machine, admin, raced, evicted, removed>>
    BY <1>3 DEF ListGuard, TInv, TypeOK, Grounded, Listing
  <2> QED
    BY <2>1, BackfillWrites DEF TInv, TypeOK, Grounded, NoListing, Listing
<1> QED
  BY <1>1, <1>2, <1>3

\* A registration that goes on: what the others hold is what they held.
Rests(r) ==
  /\ r \in Reg
  /\ r.at \in {"update", "guard"} => r.doc \in DOMAIN docs
  /\ r.at = "seq" => r.doc \in DOMAIN docs \cup {0}
  /\ r.at \in {"find", "put"} => r.doc = 0
  /\ r.at \in {"find", "seq"} => r.code = 0
  /\ r.key <= keys /\ r.code <= codes

Only(m) ==
  /\ reg' \in [Machines -> Reg]
  /\ \A n \in Machines : n # m => reg'[n] = reg[n]

Grow ==
  /\ docs' \in Seq(Doc) /\ DOMAIN docs \subseteq DOMAIN docs'
  /\ codes' \in Nat /\ codes <= codes' /\ keys' \in Nat /\ keys <= keys'
  /\ \A d \in DOMAIN docs' : docs'[d].code <= codes' /\ docs'[d].key <= keys'
  /\ machine' \in [Machines -> Machine]
  /\ raced' \subseteq {NameOf[n] : n \in Machines} /\ evicted' \subseteq Machines
  /\ removed' \subseteq DOMAIN docs' /\ UNCHANGED <<up, lister, admin>>

LEMMA OneRegistration ==
  ASSUME TInv, NEW m \in Machines, Only(m), Rests(reg[m])', Grow
  PROVE  TInv'
<1>1. \A n \in Machines : reg[n] \in Reg /\ reg[n].key <= keys' /\ reg[n].code <= codes'
  BY DEF TInv, TypeOK, Grounded, Reg, Grow
<1>2. lister.code <= codes'
  BY DEF TInv, TypeOK, Grounded, Listing, Grow
<1>3. ASSUME NEW n \in Machines PROVE Rests(reg[n])'
  <2>1. CASE n = m
    BY <2>1
  <2>2. CASE n # m
    <3>1. reg'[n] = reg[n] /\ DOMAIN docs \subseteq DOMAIN docs'
      BY <2>2 DEF Only, Grow
    <3> QED
      BY <1>1, <3>1 DEF Rests, TInv, Grounded
  <2> QED
    BY <2>1, <2>2
<1>4. Grounded'
  BY <1>2, <1>3 DEF Grounded, Rests, Grow, TInv
<1> QED
  BY <1>4 DEF TInv, TypeOK, Only, Grow

LEMMA RegisterTypes ==
  ASSUME TInv, NEW m \in Machines, StartAgent(m) \/ Register(m)
  PROVE  TInv'
<1>a. /\ docs \in Seq(Doc) /\ reg \in [Machines -> Reg] /\ reg[m] \in Reg
      /\ machine \in [Machines -> Machine] /\ machine[m] \in Machine
      /\ codes \in Nat /\ keys \in Nat
      /\ \A d \in DOMAIN docs : docs[d].code <= codes /\ docs[d].key <= keys
      /\ raced \subseteq {NameOf[n] : n \in Machines} /\ evicted \subseteq Machines
      /\ removed \subseteq DOMAIN docs
  BY DEF TInv, TypeOK
<1>1. CASE StartAgent(m)
  <2>1. PICK at \in {"idle", "find"} :
          reg' = [reg EXCEPT ![m] = Request(at)]
    BY <1>1 DEF StartAgent, NoReg
  <2>2. machine' \in [Machines -> Machine]
    <3>1. \A k \in Nat : [on |-> TRUE, id |-> machine[m].id, key |-> machine[m].key, hbKey |-> k, fails |-> 0] \in Machine
      BY <1>a DEF Machine
    <3> QED
      BY <1>1, <1>a, <3>1 DEF StartAgent, Machine
  <2>3. Request(at) \in Reg
    BY DEF Request, Reg
  <2>5. Only(m) /\ reg'[m] = Request(at)
    BY <1>a, <2>1, <2>3 DEF Only
  <2>4. Grow
    BY <1>1, <1>a, <2>2 DEF Grow, StartAgent
  <2>6. Rests(reg[m])'
    BY <2>3, <2>4, <2>5 DEF Rests, Request, Grow
  <2> QED
    BY <2>4, <2>5, <2>6, OneRegistration
<1>2. CASE RegisterReply(m)
  <2>1. machine' \in [Machines -> Machine]
    BY <1>2, <1>a DEF RegisterReply, Machine, Reg
  <2>2. NoReg \in Reg
    BY DEF NoReg, Request, Reg
  <2>3. Only(m) /\ reg'[m] = NoReg
    BY <1>2, <1>a, <2>2 DEF Only, RegisterReply
  <2>4. Grow
    BY <1>2, <1>a, <2>1 DEF Grow, RegisterReply
  <2>5. Rests(reg[m])'
    BY <2>2, <2>3, <2>4 DEF Rests, NoReg, Request, Grow
  <2> QED
    BY <2>3, <2>4, <2>5, OneRegistration
<1>3. CASE RegisterFind(m)
  <2>1. UNCHANGED <<up, docs, codes, keys, machine, lister, admin, evicted>>
    BY <1>3 DEF RegisterFind
  <2>2. Grow
    <3>1. raced' \subseteq {NameOf[n] : n \in Machines} /\ removed' \subseteq DOMAIN docs
      BY <1>3, <1>a DEF RegisterFind
    <3> QED
      BY <1>a, <2>1, <3>1 DEF Grow
  <2>3. reg[m].doc = 0 /\ reg[m].code = 0 /\ reg[m].key <= keys
    BY <1>3 DEF RegisterFind, TInv, Grounded
  <2>4. CASE reg' = [reg EXCEPT ![m].at = "seq"]
    <3> DEFINE r == [reg[m] EXCEPT !.at = "seq"]
    <3>1. r \in Reg /\ r.at = "seq" /\ r.doc = reg[m].doc /\ r.key = reg[m].key /\ r.code = reg[m].code
      BY <1>a DEF Reg
    <3>2. Only(m) /\ reg'[m] = r
      BY <1>a, <2>4, <3>1 DEF Only
    <3>3. Rests(reg[m])'
      BY <1>a, <2>1, <2>3, <3>1, <3>2 DEF Rests
    <3> QED
      BY <2>2, <3>2, <3>3, OneRegistration
  <2>5. ASSUME NEW d \in Knows(m),
               reg' = [reg EXCEPT ![m] = [reg[m] EXCEPT !.at = "update", !.doc = d,
                  !.key = docs[d].key, !.code = docs[d].code,
                  !.hidden = docs[d].deleted \/ docs[d].retired]]
        PROVE  TInv'
    <3> DEFINE r == [reg[m] EXCEPT !.at = "update", !.doc = d,
                  !.key = docs[d].key, !.code = docs[d].code,
                  !.hidden = docs[d].deleted \/ docs[d].retired]
    <3>1. d \in DOMAIN docs /\ docs[d] \in Doc /\ d \in Nat
      BY <1>a, Fields DEF Knows, TInv
    <3>2. (docs[d].deleted \/ docs[d].retired) \in BOOLEAN
      OBVIOUS
    <3>3. r \in Reg
      BY <1>a, <3>1, <3>2 DEF Reg, Doc
    <3>4. r.at = "update" /\ r.doc = d /\ r.key = docs[d].key /\ r.code = docs[d].code
      BY <1>a DEF Reg
    <3>5. Only(m) /\ reg'[m] = r
      BY <1>a, <2>5, <3>3 DEF Only
    <3>6. Rests(reg[m])'
      BY <1>a, <2>1, <3>1, <3>3, <3>4, <3>5 DEF Rests
    <3> QED
      BY <2>2, <3>5, <3>6, OneRegistration
  <2> QED
    BY <1>3, <2>4, <2>5 DEF RegisterFind
<1>4. CASE RegisterUpdate(m)
  <2> DEFINE key == IF reg[m].key # 0 THEN reg[m].key ELSE keys + 1
             at == IF reg[m].code = 0 THEN "seq" ELSE "reply"
             r == [reg[m] EXCEPT !.key = key, !.at = at]
  <2>1. /\ reg[m].doc \in DOMAIN docs /\ docs' \in Seq(Doc) /\ DOMAIN docs' = DOMAIN docs
        /\ docs'[reg[m].doc].key = key /\ docs'[reg[m].doc].code = docs[reg[m].doc].code
        /\ \A d \in DOMAIN docs : d # reg[m].doc => docs'[d] = docs[d]
        /\ keys' \in Nat /\ keys <= keys' /\ key \in Nat /\ key <= keys'
        /\ reg' = [reg EXCEPT ![m] = r]
    BY <1>4, UpdateWrites
  <2>2. UNCHANGED <<up, codes, machine, lister, admin, raced, removed>> /\ evicted' \subseteq Machines
    BY <1>4, <1>a DEF RegisterUpdate
  <2>3. r \in Reg /\ r.key = key /\ r.at = at /\ r.doc = reg[m].doc /\ r.code = reg[m].code
    BY <1>a, <2>1 DEF Reg
  <2>4. Only(m) /\ reg'[m] = r
    BY <1>a, <2>1, <2>3 DEF Only
  <2>5. \A d \in DOMAIN docs : docs[d].key \in Nat /\ docs[d].code \in Nat
    BY Fields DEF TInv, Doc
  <2> HIDE DEF r, key
  <2>8. \A d \in DOMAIN docs : docs'[d].code <= codes' /\ docs'[d].key <= keys'
    <3>1. docs'[reg[m].doc].code <= codes' /\ docs'[reg[m].doc].key <= keys'
      BY <1>a, <2>1, <2>2
    <3>2. ASSUME NEW d \in DOMAIN docs, d # reg[m].doc
          PROVE  docs'[d].code <= codes' /\ docs'[d].key <= keys'
      <4>1. docs'[d] = docs[d] /\ docs[d].code <= codes /\ docs[d].key <= keys
        BY <1>a, <2>1, <3>2
      <4> QED
        BY <1>a, <2>1, <2>2, <2>5, <4>1
    <3> QED
      BY <3>1, <3>2
  <2>6. Grow
    BY <1>a, <2>1, <2>2, <2>8 DEF Grow
  <2>7. Rests(reg[m])'
    <3>1. reg[m].code <= codes'
      BY <2>2 DEF TInv, Grounded
    <3> QED
      BY <2>1, <2>3, <2>4, <3>1 DEF Rests
  <2> QED
    BY <2>4, <2>6, <2>7, OneRegistration
<1>5. CASE RegisterSeq(m)
  <2>1. UNCHANGED <<up, docs, keys, machine, lister, admin, raced, evicted, removed>>
    BY <1>5 DEF RegisterSeq
  <2>2. codes' \in Nat /\ codes <= codes'
    BY <1>5, <1>a DEF RegisterSeq
  <2>3. \A d \in DOMAIN docs : docs[d].code \in Nat
    BY Fields DEF TInv, Doc
  <2>4. Grow
    BY <1>a, <2>1, <2>2, <2>3 DEF Grow
  <2>5. reg[m].doc \in DOMAIN docs \cup {0} /\ reg[m].key <= keys' /\ reg[m].code = 0
    BY <1>5, <2>1 DEF RegisterSeq, TInv, Grounded
  <2>6. CASE /\ codes' = codes + 1
             /\ reg' = [reg EXCEPT ![m].code = codes + 1,
                                   ![m].at = IF reg[m].doc = 0 THEN "put" ELSE "guard"]
    <3> DEFINE at == IF reg[m].doc = 0 THEN "put" ELSE "guard"
    <3>a. PICK c \in Nat : c = codes + 1
      BY <1>a
    <3> DEFINE r == [reg[m] EXCEPT !.code = c, !.at = at]
    <3>1. r \in Reg /\ r.key = reg[m].key /\ r.at = at /\ r.doc = reg[m].doc /\ r.code = c
      BY <1>a DEF Reg
    <3>2. Only(m) /\ reg'[m] = r
      BY <1>a, <2>6, <3>a, <3>1 DEF Only
    <3> HIDE DEF r
    <3>3. Rests(reg[m])'
      BY <1>a, <2>1, <2>5, <2>6, <3>a, <3>1, <3>2 DEF Rests
    <3> QED
      BY <2>4, <3>2, <3>3, OneRegistration
  <2>7. CASE /\ codes' = codes
             /\ reg' = [reg EXCEPT ![m].at = IF reg[m].doc = 0 THEN "put" ELSE "reply"]
    <3> DEFINE at == IF reg[m].doc = 0 THEN "put" ELSE "reply"
               r == [reg[m] EXCEPT !.at = at]
    <3>1. r \in Reg /\ r.key = reg[m].key /\ r.at = at /\ r.doc = reg[m].doc /\ r.code = 0
      BY <1>a, <2>5 DEF Reg
    <3>2. Only(m) /\ reg'[m] = r
      BY <1>a, <2>7, <3>1 DEF Only
    <3> HIDE DEF r
    <3>3. Rests(reg[m])'
      BY <1>a, <2>1, <2>5, <2>7, <3>1, <3>2 DEF Rests
    <3> QED
      BY <2>4, <3>2, <3>3, OneRegistration
  <2> QED
    BY <1>5, <2>6, <2>7 DEF RegisterSeq
<1>6. CASE RegisterPut(m)
  <2>1. UNCHANGED <<up, codes, machine, lister, admin, raced, removed>> /\ keys' = keys + 1
        /\ evicted' \subseteq Machines
    BY <1>6, <1>a DEF RegisterPut
  <2>2. /\ docs' \in Seq(Doc) /\ DOMAIN docs' = DOMAIN docs \cup {Len(docs) + 1}
        /\ docs'[Len(docs) + 1].code = reg[m].code /\ docs'[Len(docs) + 1].key = keys + 1
        /\ \A d \in DOMAIN docs : docs'[d] = docs[d]
    BY <1>6, PutWrites
  <2>3. \A d \in DOMAIN docs : docs[d].key \in Nat
    BY Fields DEF TInv, Doc
  <2>4. reg[m].code <= codes /\ reg[m].doc = 0
    BY <1>6 DEF RegisterPut, TInv, Grounded
  <2>5. \A d \in DOMAIN docs' : docs'[d].code <= codes' /\ docs'[d].key <= keys'
    BY <1>a, <2>1, <2>2, <2>3, <2>4
  <2>6. Grow
    BY <1>a, <2>1, <2>2, <2>5 DEF Grow
  <2>a. PICK k \in Nat : k = keys + 1
    BY <1>a
  <2> DEFINE r == [reg[m] EXCEPT !.key = k, !.at = "reply"]
  <2>7. r \in Reg /\ r.key = k /\ r.at = "reply" /\ r.code = reg[m].code
    BY <1>a DEF Reg
  <2>8. Only(m) /\ reg'[m] = r
    BY <1>6, <1>a, <2>a, <2>7 DEF RegisterPut, Only
  <2> HIDE DEF r
  <2>9. Rests(reg[m])'
    BY <1>a, <2>1, <2>a, <2>4, <2>7, <2>8 DEF Rests
  <2> QED
    BY <2>6, <2>8, <2>9, OneRegistration
<1>7. CASE RegisterGuard(m)
  <2>1. /\ UNCHANGED <<up, codes, keys, machine, lister, admin, raced, evicted, removed>>
        /\ Backfill(reg[m].doc, reg[m].code) /\ reg[m].doc \in DOMAIN docs
        /\ reg[m].code \in Nat /\ reg[m].code <= codes /\ reg[m].key <= keys
    BY <1>7, <1>a DEF RegisterGuard, TInv, Grounded, Reg
  <2>2. /\ docs' \in Seq(Doc) /\ DOMAIN docs' = DOMAIN docs
        /\ \A d \in DOMAIN docs : docs'[d].code <= codes /\ docs'[d].key <= keys
    BY <1>a, <2>1, BackfillWrites
  <2>3. Grow
    BY <1>a, <2>1, <2>2 DEF Grow
  <2> DEFINE r == [reg[m] EXCEPT !.at = "reply"]
  <2>4. r \in Reg /\ r.key = reg[m].key /\ r.at = "reply" /\ r.code = reg[m].code
    BY <1>a DEF Reg
  <2>5. Only(m) /\ reg'[m] = r
    BY <1>7, <1>a, <2>4 DEF RegisterGuard, Only
  <2> HIDE DEF r
  <2>6. Rests(reg[m])'
    BY <1>a, <2>1, <2>4, <2>5 DEF Rests
  <2> QED
    BY <2>3, <2>5, <2>6, OneRegistration
<1> QED
  BY <1>1, <1>2, <1>3, <1>4, <1>5, <1>6, <1>7 DEF Register

LEMMA NextTInv ==
  TInv /\ [Next]_vars => TInv'
  BY StepCases, AsideTypes, ListerTypes, RegisterTypes

-----------------------------------------------------------------------------
(* Codes *)

\* Codes stay where they are, and nobody comes to hold one.
LEMMA SameCodes ==
  ASSUME TInv, TInv', Drawn, DOMAIN docs' = DOMAIN docs, codes' = codes,
         \A d \in DOMAIN docs : docs'[d].code = docs[d].code,
         \A m \in Machines : Holding(m)' => Holding(m) /\ reg'[m].code = reg[m].code,
         lister'.at = "guard" => lister' = lister
  PROVE  Drawn'
  BY DEF Drawn, Unused

\* What anybody holds is at most the counter, and the next code is above it.
LEMMA NextCodeIsNew ==
  ASSUME TInv
  PROVE  /\ codes \in Nat /\ codes + 1 # 0
         /\ \A d \in DOMAIN docs : docs[d].code \in Nat /\ docs[d].code # codes + 1
         /\ \A m \in Machines : reg[m].code \in Nat /\ reg[m].code # codes + 1
         /\ lister.code \in Nat /\ lister.code # codes + 1
<1>1. \A d \in DOMAIN docs : docs[d].code \in Nat /\ docs[d].code <= codes
  BY Fields DEF TInv, TypeOK, Doc
<1>2. \A m \in Machines : reg[m].code \in Nat /\ reg[m].code <= codes
  BY DEF TInv, TypeOK, Grounded, Reg
<1>3. lister.code \in Nat /\ lister.code <= codes /\ codes \in Nat
  BY DEF TInv, TypeOK, Grounded, Listing
<1> QED
  BY <1>1, <1>2, <1>3

LEMMA RegisterSeqDrawn ==
  ASSUME TInv, TInv', Drawn, NEW m \in Machines, RegisterSeq(m)
  PROVE  Drawn'
<1>1. UNCHANGED <<docs, lister>> /\ codes' \in Nat /\ codes <= codes' /\ codes \in Nat
  BY DEF RegisterSeq, TInv, TypeOK
<1>2. \A n \in Machines : n # m => reg'[n] = reg[n]
  BY DEF RegisterSeq, TInv, TypeOK
<1>3. reg'[m].code = 0 \/ (reg'[m].code = codes + 1 /\ codes' = codes + 1)
  <2>1. reg[m].code = 0 /\ reg[m] \in Reg /\ reg \in [Machines -> Reg]
    BY DEF RegisterSeq, TInv, TypeOK, Grounded
  <2> QED
    BY <2>1 DEF RegisterSeq, Reg
<1>4. \A c \in Nat : Unused(c) => Unused(c)'
  BY <1>1 DEF Unused
<1>5. Unused(reg[m].code)'
  BY <1>1, <1>3, NextCodeIsNew DEF Unused
<1>6. \A n \in Machines : n # m /\ reg'[m].code # 0 => reg'[n].code # reg'[m].code
  BY <1>2, <1>3, NextCodeIsNew
<1>7. reg'[m].code # 0 => lister'.code # reg'[m].code
  BY <1>1, <1>3, NextCodeIsNew
<1>8. \A n \in Machines : n # m => (Holding(n)' <=> Holding(n))
  BY <1>2 DEF Holding
<1>9. \A n \in Machines : Holding(n)' => Unused(reg[n].code)'
  BY <1>2, <1>4, <1>5, <1>8, NextCodeIsNew DEF Drawn
<1>10. lister'.at = "guard" =>
         /\ Unused(lister.code)'
         /\ \A n \in Machines : Holding(n)' /\ lister'.code # 0 => reg'[n].code # lister'.code
  BY <1>1, <1>2, <1>4, <1>7, <1>8, NextCodeIsNew DEF Drawn
<1>11. \A i, j \in Machines :
         i # j /\ Holding(i)' /\ Holding(j)' /\ reg'[i].code # 0 => reg'[i].code # reg'[j].code
  BY <1>2, <1>6, <1>8 DEF Drawn
<1> QED
  BY <1>1, <1>9, <1>10, <1>11 DEF Drawn

LEMMA ListSeqDrawn ==
  ASSUME TInv, TInv', Drawn, ListSeq
  PROVE  Drawn'
<1>1. UNCHANGED <<docs, reg>> /\ codes' \in Nat /\ codes <= codes' /\ codes \in Nat
  BY DEF ListSeq, TInv, TypeOK
<1>2. lister'.at = "guard" => lister'.code = codes + 1 /\ codes' = codes + 1
  BY DEF ListSeq, NoListing
<1>3. \A c \in Nat : Unused(c) => Unused(c)'
  BY <1>1 DEF Unused
<1>4. lister'.at = "guard" =>
        /\ Unused(lister.code)'
        /\ \A m \in Machines : reg'[m].code # lister'.code
  BY <1>1, <1>2, NextCodeIsNew DEF Unused
<1>5. \A m \in Machines : Holding(m)' => Unused(reg[m].code)'
  BY <1>1, <1>3, NextCodeIsNew DEF Drawn, Holding
<1> QED
  BY <1>1, <1>4, <1>5 DEF Drawn, Holding

\* A drawn code comes into one document, and its holder lets it go.
LEMMA CodeComes ==
  ASSUME TInv, TInv', Drawn, NEW new, NEW code \in Nat, Unused(code), codes' = codes,
         DOMAIN docs' = DOMAIN docs \cup {new},
         \A d \in DOMAIN docs : d # new => docs'[d].code = docs[d].code,
         docs'[new].code = code \/ (new \in DOMAIN docs /\ docs'[new].code = docs[new].code),
         \A m \in Machines : Holding(m)' =>
           Holding(m) /\ reg'[m].code = reg[m].code /\ (code # 0 => reg[m].code # code),
         lister'.at = "guard" => lister' = lister /\ (code # 0 => lister.code # code)
  PROVE  Drawn'
<1>1. \A c \in Nat : Unused(c) /\ (code # 0 => c # code) => Unused(c)'
  BY DEF Unused
<1>2. \A d, e \in DOMAIN docs' : d # e /\ docs'[d].code # 0 => docs'[d].code # docs'[e].code
  BY DEF Drawn, Unused
<1>3. \A m \in Machines : Holding(m)' => Unused(reg[m].code)'
  BY <1>1, NextCodeIsNew DEF Drawn
<1>4. lister'.at = "guard" => Unused(lister.code)'
  BY <1>1, NextCodeIsNew DEF Drawn
<1> QED
  BY <1>2, <1>3, <1>4 DEF Drawn

LEMMA RegisterDrawn ==
  ASSUME TInv, TInv', Drawn, NEW m \in Machines, StartAgent(m) \/ Register(m)
  PROVE  Drawn'
<1>a. reg \in [Machines -> Reg] /\ reg[m].code \in Nat
  BY NextCodeIsNew DEF TInv, TypeOK
<1>1. CASE StartAgent(m)
  <2>1. UNCHANGED <<docs, codes, lister>> /\ ~Holding(m)'
    BY <1>1, <1>a DEF StartAgent, Holding, NoReg, Request
  <2>2. \A n \in Machines : n # m => reg'[n] = reg[n]
    BY <1>1, <1>a DEF StartAgent
  <2>3. \A n \in Machines : Holding(n)' => Holding(n) /\ reg'[n].code = reg[n].code
    BY <2>1, <2>2 DEF Holding
  <2> QED
    BY <2>1, <2>3, SameCodes
<1>2. CASE RegisterFind(m) \/ RegisterReply(m)
  <2>1. UNCHANGED <<docs, codes, lister>>
    BY <1>2 DEF RegisterFind, RegisterReply
  <2>4. ~Holding(m)'
    <3>1. CASE RegisterFind(m)
      BY <3>1, FindReads DEF Holding
    <3>2. CASE RegisterReply(m)
      BY <3>2, <1>a DEF RegisterReply, Holding, NoReg, Request
    <3> QED
      BY <1>2, <3>1, <3>2
  <2>2. \A n \in Machines : n # m => reg'[n] = reg[n]
    BY <1>2, <1>a DEF RegisterFind, RegisterReply
  <2>3. \A n \in Machines : Holding(n)' => Holding(n) /\ reg'[n].code = reg[n].code
    BY <2>2, <2>4 DEF Holding
  <2> QED
    BY <2>1, <2>3, SameCodes
<1>3. CASE RegisterUpdate(m)
  <2>1. /\ DOMAIN docs' = DOMAIN docs /\ \A d \in DOMAIN docs : docs'[d].code = docs[d].code
    BY <1>3, UpdateWrites
  <2>2. UNCHANGED <<codes, lister>>
    BY <1>3 DEF RegisterUpdate
  <2>3. ~Holding(m)' /\ \A n \in Machines : n # m => reg'[n] = reg[n]
    <3>1. reg'[m].at \in {"seq", "reply"} /\ \A n \in Machines : n # m => reg'[n] = reg[n]
      BY <1>3, <1>a DEF RegisterUpdate, Reg
    <3> QED
      BY <3>1 DEF Holding
  <2>4. \A n \in Machines : Holding(n)' => Holding(n) /\ reg'[n].code = reg[n].code
    BY <2>3 DEF Holding
  <2> QED
    BY <2>1, <2>2, <2>4, SameCodes
<1>4. CASE RegisterPut(m) \/ RegisterGuard(m)
  <2> DEFINE c == reg[m].code
  <2>1. Holding(m) /\ Unused(c) /\ UNCHANGED <<codes, lister>>
    BY <1>4 DEF RegisterPut, RegisterGuard, Drawn, Holding
  <2>2. ~Holding(m)' /\ \A n \in Machines : n # m => reg'[n] = reg[n]
    BY <1>4, <1>a DEF RegisterPut, RegisterGuard, Holding, Reg
  <2>3. \A n \in Machines : Holding(n)' =>
          Holding(n) /\ reg'[n].code = reg[n].code /\ (c # 0 => reg[n].code # c)
    <3>1. ASSUME NEW n \in Machines, Holding(n)' PROVE n # m /\ Holding(n) /\ reg'[n] = reg[n]
      BY <2>2, <3>1 DEF Holding
    <3> QED
      BY <2>1, <3>1 DEF Drawn
  <2>4. lister'.at = "guard" => lister' = lister /\ (c # 0 => lister.code # c)
    BY <2>1 DEF Drawn
  <2>5. CASE RegisterPut(m)
    <3>1. /\ DOMAIN docs' = DOMAIN docs \cup {Len(docs) + 1} /\ docs'[Len(docs) + 1].code = c
          /\ \A d \in DOMAIN docs : d # Len(docs) + 1 => docs'[d].code = docs[d].code
      BY <2>5, PutWrites
    <3> QED
      BY <1>a, <2>1, <2>3, <2>4, <3>1, CodeComes
  <2>6. CASE RegisterGuard(m)
    <3>1. reg[m].doc \in DOMAIN docs /\ Backfill(reg[m].doc, c)
      BY <2>6 DEF RegisterGuard, TInv, Grounded
    <3>2. /\ DOMAIN docs' = DOMAIN docs \cup {reg[m].doc}
          /\ docs'[reg[m].doc].code = c \/ (reg[m].doc \in DOMAIN docs /\ docs'[reg[m].doc].code = docs[reg[m].doc].code)
          /\ \A d \in DOMAIN docs : d # reg[m].doc => docs'[d].code = docs[d].code
      BY <1>a, <3>1, BackfillWrites
    <3> QED
      BY <1>a, <2>1, <2>3, <2>4, <3>2, CodeComes
  <2> QED
    BY <1>4, <2>5, <2>6
<1> QED
  BY <1>1, <1>2, <1>3, <1>4, RegisterSeqDrawn DEF Register

LEMMA NextDrawn ==
  ASSUME TInv, TInv', Drawn, [Next]_vars
  PROVE  Drawn'
<1>1. CASE Aside
  <2>1. Marks /\ UNCHANGED <<codes, reg, lister>>
    BY <1>1, AsideFrame DEF TInv
  <2> QED
    BY <2>1, SameCodes DEF Marks, Holding
<1>2. CASE ListStart
  <2>1. UNCHANGED <<docs, codes, reg>> /\ lister'.at # "guard"
    BY <1>2 DEF ListStart
  <2> QED
    BY <2>1, SameCodes DEF Holding
<1>3. CASE ListGuard
  <2>1. /\ lister.doc \in DOMAIN docs /\ lister.code \in Nat /\ Backfill(lister.doc, lister.code)
        /\ Unused(lister.code) /\ UNCHANGED <<codes, reg>> /\ lister'.at # "guard"
    BY <1>3, NextCodeIsNew DEF ListGuard, NoListing, TInv, Grounded, Drawn
  <2>2. /\ DOMAIN docs' = DOMAIN docs \cup {lister.doc}
        /\ docs'[lister.doc].code = lister.code
           \/ (lister.doc \in DOMAIN docs /\ docs'[lister.doc].code = docs[lister.doc].code)
        /\ \A d \in DOMAIN docs : d # lister.doc => docs'[d].code = docs[d].code
    BY <2>1, BackfillWrites
  <2>3. \A n \in Machines : Holding(n)' =>
          Holding(n) /\ reg'[n].code = reg[n].code /\ (lister.code # 0 => reg[n].code # lister.code)
    BY <1>3, <2>1 DEF Drawn, Holding, ListGuard
  <2> QED
    BY <2>1, <2>2, <2>3, CodeComes
<1> QED
  BY <1>1, <1>2, <1>3, StepCases, RegisterDrawn, ListSeqDrawn

LEMMA InitDrawn ==
  Init => Drawn
<1> SUFFICES ASSUME Init PROVE Drawn
  OBVIOUS
<1>1. \A d \in DOMAIN docs : docs[d].code = 0
  BY DEF Init
<1>2. \A m \in Machines : ~Holding(m)
  BY DEF Init, Holding, NoReg, Request
<1> QED
  BY <1>1, <1>2 DEF Init, NoListing, Drawn

\* The documents a step leaves keep the codes they have.
LEMMA CodesStay ==
  ASSUME TInv, [Next]_vars
  PROVE  /\ DOMAIN docs \subseteq DOMAIN docs'
         /\ \A d \in DOMAIN docs : docs[d].code # 0 => docs'[d].code = docs[d].code
<1>1. CASE Aside
  BY <1>1, AsideFrame DEF TInv, Marks
<1>2. CASE ListStart \/ ListSeq
  BY <1>2 DEF ListStart, ListSeq
<1>3. CASE ListGuard
  <2>1. lister.doc \in DOMAIN docs /\ lister.code \in Nat /\ Backfill(lister.doc, lister.code)
    BY <1>3, NextCodeIsNew DEF ListGuard, TInv, Grounded
  <2> QED
    BY <2>1, BackfillWrites
<1>4. ASSUME NEW m \in Machines, StartAgent(m) \/ RegisterFind(m) \/ RegisterSeq(m) \/ RegisterReply(m)
      PROVE  docs' = docs
  BY <1>4 DEF StartAgent, RegisterFind, RegisterSeq, RegisterReply
<1>5. ASSUME NEW m \in Machines, RegisterUpdate(m)
      PROVE  DOMAIN docs' = DOMAIN docs /\ \A d \in DOMAIN docs : docs'[d].code = docs[d].code
  BY <1>5, UpdateWrites
<1>6. ASSUME NEW m \in Machines, RegisterPut(m)
      PROVE  DOMAIN docs \subseteq DOMAIN docs' /\ \A d \in DOMAIN docs : docs'[d] = docs[d]
  BY <1>6, PutWrites
<1>7. ASSUME NEW m \in Machines, RegisterGuard(m)
      PROVE  /\ DOMAIN docs' = DOMAIN docs
             /\ \A d \in DOMAIN docs : docs[d].code # 0 => docs'[d].code = docs[d].code
  <2>1. reg[m].doc \in DOMAIN docs /\ reg[m].code \in Nat /\ Backfill(reg[m].doc, reg[m].code)
    BY <1>7, NextCodeIsNew DEF RegisterGuard, TInv, Grounded
  <2> QED
    BY <2>1, BackfillWrites
<1> QED
  BY <1>1, <1>2, <1>3, <1>4, <1>5, <1>6, <1>7, StepCases DEF Register

-----------------------------------------------------------------------------
(* What a registration does, action by action. *)

LEMMA StartReads ==
  ASSUME TInv, NEW m \in Machines, StartAgent(m)
  PROVE  /\ UNCHANGED <<docs, raced, evicted, removed>> /\ reg[m].at = "idle"
         /\ \A n \in Machines : n # m => reg'[n] = reg[n] /\ machine'[n] = machine[n]
         /\ reg'[m].at \in {"idle", "find"}
         /\ machine'[m].id = machine[m].id /\ machine'[m].key = machine[m].key
<1>1. reg \in [Machines -> Reg] /\ machine \in [Machines -> Machine]
  BY DEF TInv, TypeOK
<1>2. reg'[m].at \in {"idle", "find"}
  BY <1>1 DEF StartAgent, NoReg, Request
<1> QED
  BY <1>1, <1>2 DEF StartAgent, Machine

LEMMA UpdateMoves ==
  ASSUME TInv, NEW m \in Machines, RegisterUpdate(m)
  PROVE  /\ UNCHANGED <<machine, raced, removed>> /\ reg[m].at = "update"
         /\ \A n \in Machines : n # m => reg'[n] = reg[n]
         /\ reg'[m].at \in {"seq", "reply"} /\ reg'[m].doc = reg[m].doc /\ reg'[m].doc # 0
         /\ reg'[m].key = IF reg[m].key # 0 THEN reg[m].key ELSE keys + 1
         /\ evicted' = (evicted \ {m}) \cup {n \in Machines \ {m} : docs[reg[m].doc].id = machine[n].id}
<1>1. reg \in [Machines -> Reg] /\ reg[m].doc \in DOMAIN docs /\ 0 \notin DOMAIN docs
  BY DEF TInv, TypeOK, Grounded, RegisterUpdate
<1>2. reg'[m].at \in {"seq", "reply"} /\ reg'[m].doc = reg[m].doc
  BY <1>1 DEF RegisterUpdate, Reg
<1>3. reg'[m].key = IF reg[m].key # 0 THEN reg[m].key ELSE keys + 1
  BY <1>1 DEF RegisterUpdate, Reg
<1>4. \A n \in Machines : n # m => reg'[n] = reg[n]
  BY <1>1 DEF RegisterUpdate
<1> QED
  BY <1>1, <1>2, <1>3, <1>4 DEF RegisterUpdate

LEMMA SeqMoves ==
  ASSUME TInv, NEW m \in Machines, RegisterSeq(m)
  PROVE  /\ UNCHANGED <<docs, machine, raced, evicted, removed>> /\ reg[m].at = "seq"
         /\ \A n \in Machines : n # m => reg'[n] = reg[n]
         /\ reg'[m].at \in (IF reg[m].doc = 0 THEN {"put"} ELSE {"guard", "reply"})
         /\ reg'[m].doc = reg[m].doc /\ reg'[m].key = reg[m].key
<1>1. reg \in [Machines -> Reg]
  BY DEF TInv, TypeOK
<1>2. reg'[m].doc = reg[m].doc /\ reg'[m].key = reg[m].key
  BY <1>1 DEF RegisterSeq, Reg
<1>3. reg'[m].at \in (IF reg[m].doc = 0 THEN {"put"} ELSE {"guard", "reply"})
  BY <1>1 DEF RegisterSeq, Reg
<1> QED
  BY <1>1, <1>2, <1>3 DEF RegisterSeq

LEMMA PutMoves ==
  ASSUME TInv, NEW m \in Machines, RegisterPut(m)
  PROVE  /\ UNCHANGED <<machine, raced, removed>> /\ reg[m].at = "put"
         /\ \A n \in Machines : n # m => reg'[n] = reg[n]
         /\ reg'[m].at = "reply" /\ reg'[m].key = keys + 1
         /\ evicted' = evicted \ {m}
<1>1. reg \in [Machines -> Reg]
  BY DEF TInv, TypeOK
<1>2. reg'[m].at = "reply" /\ reg'[m].key = keys + 1
  BY <1>1 DEF RegisterPut, Reg
<1> QED
  BY <1>1, <1>2 DEF RegisterPut

LEMMA GuardMoves ==
  ASSUME TInv, NEW m \in Machines, RegisterGuard(m)
  PROVE  /\ UNCHANGED <<machine, raced, evicted, removed>> /\ reg[m].at = "guard"
         /\ \A n \in Machines : n # m => reg'[n] = reg[n]
         /\ reg'[m].at = "reply" /\ reg'[m].key = reg[m].key
         /\ DOMAIN docs' = DOMAIN docs
         /\ \A d \in DOMAIN docs :
              /\ docs'[d].name = docs[d].name /\ docs'[d].id = docs[d].id
              /\ docs'[d].key = docs[d].key /\ docs'[d].deleted = docs[d].deleted
<1>1. reg \in [Machines -> Reg] /\ reg[m].doc \in DOMAIN docs /\ reg[m].code \in Nat
  BY NextCodeIsNew DEF TInv, TypeOK, Grounded, RegisterGuard
<1>2. reg'[m].at = "reply" /\ reg'[m].key = reg[m].key
  BY <1>1 DEF RegisterGuard, Reg
<1>3. Backfill(reg[m].doc, reg[m].code)
  BY DEF RegisterGuard
<1> QED
  BY <1>1, <1>2, <1>3, BackfillWrites DEF RegisterGuard

LEMMA ReplyMoves ==
  ASSUME TInv, NEW m \in Machines, RegisterReply(m)
  PROVE  /\ UNCHANGED <<docs, raced, evicted, removed>> /\ reg[m].at = "reply"
         /\ \A n \in Machines : n # m => reg'[n] = reg[n] /\ machine'[n] = machine[n]
         /\ reg'[m].at = "idle"
         /\ machine'[m].id = machine[m].id /\ machine'[m].key \in {machine[m].key, reg[m].key}
<1>1. reg \in [Machines -> Reg] /\ machine \in [Machines -> Machine]
  BY DEF TInv, TypeOK
<1>2. reg'[m].at = "idle"
  BY <1>1 DEF RegisterReply, NoReg, Request
<1>3. machine'[m].id = machine[m].id /\ machine'[m].key \in {machine[m].key, reg[m].key}
  BY <1>1 DEF RegisterReply, Machine
<1> QED
  BY <1>1, <1>2, <1>3 DEF RegisterReply

\* What the other steps do to names, ids and keys: nothing.
LEMMA AsideMoves ==
  ASSUME TInv, Aside \/ ListStart \/ ListSeq \/ ListGuard
  PROVE  /\ DOMAIN docs' = DOMAIN docs /\ UNCHANGED <<reg, raced, evicted>>
         /\ \A d \in DOMAIN docs :
              /\ docs'[d].name = docs[d].name /\ docs'[d].id = docs[d].id
              /\ docs'[d].key = docs[d].key
         /\ \A m \in Machines :
              \/ machine'[m].id = machine[m].id /\ machine'[m].key = machine[m].key
              \/ /\ machine'[m].id \in {<<m, 0>>, <<m, 1>>} /\ machine'[m].key = 0
                 /\ reg[m].at = "idle"
<1>1. CASE Aside
  <2>1. Marks /\ UNCHANGED reg
    BY <1>1, AsideFrame DEF TInv
  <2>2. UNCHANGED <<raced, evicted>>
    BY <1>1 DEF Aside, Heartbeat, HeartbeatOk, HeartbeatFails, StopAgent, Reinstall, DeleteAgent,
                Decommission, CleanupPreview, CleanupRemove, Silence, Outage, OutageEnds, vars
  <2>3. machine \in [Machines -> Machine]
    BY DEF TInv, TypeOK
  <2>4. ASSUME NEW n \in Machines, Heartbeat(n) \/ StopAgent(n)
        PROVE  \A m \in Machines : machine'[m].id = machine[m].id /\ machine'[m].key = machine[m].key
    <3>1. machine[n] \in Machine /\ \A m \in Machines : m # n => machine'[m] = machine[m]
      BY <2>3, <2>4 DEF Heartbeat, HeartbeatOk, HeartbeatFails, Missed, StopAgent
    <3>2. CASE HeartbeatOk(n)
      BY <2>3, <3>1, <3>2 DEF HeartbeatOk, Machine
    <3>3. CASE HeartbeatFails(n)
      <4>1. \/ machine' = [machine EXCEPT ![n] = [machine[n] EXCEPT !.fails = 0, !.hbKey = 0]]
            \/ machine' = [machine EXCEPT ![n] = [machine[n] EXCEPT !.fails = machine[n].fails + 1]]
        BY <3>3 DEF HeartbeatFails, Missed
      <4>2. \/ machine'[n] = [machine[n] EXCEPT !.fails = 0, !.hbKey = 0]
            \/ machine'[n] = [machine[n] EXCEPT !.fails = machine[n].fails + 1]
        BY <2>3, <4>1
      <4>3. machine'[n].id = machine[n].id /\ machine'[n].key = machine[n].key
        BY <3>1, <4>2 DEF Machine
      <4> QED
        BY <3>1, <4>3
    <3>4. CASE StopAgent(n)
      BY <2>3, <3>1, <3>4 DEF StopAgent, Machine
    <3> QED
      BY <2>4, <3>2, <3>3, <3>4 DEF Heartbeat
  <2>5. ASSUME NEW n \in Machines, Reinstall(n)
        PROVE  /\ \A m \in Machines : m # n => machine'[m] = machine[m]
               /\ machine'[n].id = <<n, 1>> /\ machine'[n].key = 0 /\ reg[n].at = "idle"
    BY <2>3, <2>5 DEF Reinstall, Machine
  <2>6. ASSUME ~\E n \in Machines : Heartbeat(n) \/ StopAgent(n) \/ Reinstall(n)
        PROVE  machine' = machine
    BY <1>1, <2>6 DEF Aside, DeleteAgent, Decommission, CleanupPreview, CleanupRemove, Silence,
                      Outage, OutageEnds, vars
  <2> QED
    BY <2>1, <2>2, <2>4, <2>5, <2>6 DEF Marks
<1>2. CASE ListStart \/ ListSeq
  BY <1>2 DEF ListStart, ListSeq
<1>3. CASE ListGuard
  <2>1. /\ lister.doc \in DOMAIN docs /\ lister.code \in Nat /\ Backfill(lister.doc, lister.code)
        /\ UNCHANGED <<reg, raced, evicted, machine>>
    BY <1>3, NextCodeIsNew DEF ListGuard, TInv, Grounded
  <2> QED
    BY <2>1, BackfillWrites
<1> QED
  BY <1>1, <1>2, <1>3

-----------------------------------------------------------------------------
(* One document per name *)

LEMMA AloneFrame ==
  ASSUME OneDocumentPerName, Alone, raced \subseteq raced', DOMAIN docs' = DOMAIN docs,
         \A d \in DOMAIN docs : docs'[d].name = docs[d].name,
         \A m \in Machines : Creating(m)' => Creating(m),
         \A m \in Machines : Deciding(m)' => Deciding(m)
  PROVE  OneDocumentPerName' /\ Alone'
  BY DEF OneDocumentPerName, Alone

LEMMA NextAlone ==
  ASSUME TInv, OneDocumentPerName, Alone, [Next]_vars
  PROVE  OneDocumentPerName' /\ Alone'
<1>1. CASE Aside \/ ListStart \/ ListSeq \/ ListGuard
  <2>1. DOMAIN docs' = DOMAIN docs /\ UNCHANGED <<reg, raced>>
    BY <1>1, AsideMoves
  <2>2. \A d \in DOMAIN docs : docs'[d].name = docs[d].name
    BY <1>1, AsideMoves
  <2> QED
    BY <2>1, <2>2, AloneFrame DEF Creating, Deciding
<1>2. ASSUME NEW m \in Machines,
             StartAgent(m) \/ RegisterUpdate(m) \/ RegisterGuard(m) \/ RegisterReply(m)
      PROVE  OneDocumentPerName' /\ Alone'
  <2>1. \A n \in Machines : n # m => reg'[n] = reg[n]
    BY <1>2, StartReads, UpdateMoves, GuardMoves, ReplyMoves
  <2>2. ~Creating(m)' /\ ~Deciding(m)' /\ UNCHANGED raced
    BY <1>2, StartReads, UpdateMoves, GuardMoves, ReplyMoves DEF Creating, Deciding
  <2>3. DOMAIN docs' = DOMAIN docs /\ \A d \in DOMAIN docs : docs'[d].name = docs[d].name
    BY <1>2, StartReads, UpdateWrites, GuardMoves, ReplyMoves
  <2>4. \A n \in Machines : (Creating(n)' => Creating(n)) /\ (Deciding(n)' => Deciding(n))
    BY <2>1, <2>2 DEF Creating, Deciding
  <2> QED
    BY <2>2, <2>3, <2>4, AloneFrame
<1>3. ASSUME NEW m \in Machines, RegisterSeq(m)
      PROVE  OneDocumentPerName' /\ Alone'
  <2>1. Creating(m)' => Creating(m)
    BY <1>3, SeqMoves DEF Creating
  <2>2. Deciding(m)' => Deciding(m)
    BY <1>3, SeqMoves DEF Deciding
  <2>3. \A n \in Machines : (Creating(n)' => Creating(n)) /\ (Deciding(n)' => Deciding(n))
    BY <1>3, <2>1, <2>2, SeqMoves DEF Creating, Deciding
  <2> QED
    BY <1>3, <2>3, SeqMoves, AloneFrame
<1>4. ASSUME NEW m \in Machines, RegisterFind(m)
      PROVE  OneDocumentPerName' /\ Alone'
  <2>1. /\ docs' = docs /\ raced \subseteq raced'
        /\ \A n \in Machines : n # m => reg'[n] = reg[n]
    BY <1>4, FindReads DEF RegisterFind
  <2>2. \A n \in Machines : n # m /\ NameOf[n] = NameOf[m] /\ Deciding(n) => NameOf[m] \in raced'
    BY <1>4 DEF RegisterFind
  <2>3. Creating(m)' => \A d \in DOMAIN docs : docs[d].name # NameOf[m]
    BY <1>4, FindReads DEF Creating, Knows
  <2>4. \A n \in Machines : n # m => (Deciding(n)' <=> Deciding(n)) /\ (Creating(n)' <=> Creating(n))
    BY <2>1 DEF Deciding, Creating
  <2>5. ASSUME NEW i \in Machines, NameOf[i] \notin raced'
        PROVE  /\ Creating(i)' => \A d \in DOMAIN docs : docs[d].name # NameOf[i]
               /\ Deciding(i)' => \A n \in Machines : n # i /\ NameOf[n] = NameOf[i] => ~Deciding(n)'
    BY <2>1, <2>2, <2>3, <2>4, <2>5 DEF Alone
  <2> QED
    BY <2>1, <2>5 DEF Alone, OneDocumentPerName
<1>5. ASSUME NEW m \in Machines, RegisterPut(m)
      PROVE  OneDocumentPerName' /\ Alone'
  <2>1. /\ UNCHANGED raced /\ Creating(m) /\ Deciding(m) /\ ~Creating(m)' /\ ~Deciding(m)'
        /\ \A n \in Machines : n # m => (Deciding(n)' <=> Deciding(n)) /\ (Creating(n)' <=> Creating(n))
    BY <1>5, PutMoves DEF Deciding, Creating
  <2>2. /\ DOMAIN docs' = DOMAIN docs \cup {Len(docs) + 1} /\ Len(docs) + 1 \notin DOMAIN docs
        /\ docs'[Len(docs) + 1].name = NameOf[m]
        /\ \A d \in DOMAIN docs : docs'[d] = docs[d]
    BY <1>5, PutWrites
  <2>3. OneDocumentPerName'
    BY <2>1, <2>2 DEF OneDocumentPerName, Alone
  <2>4. ASSUME NEW i \in Machines, NameOf[i] \notin raced'
        PROVE  /\ Creating(i)' => \A d \in DOMAIN docs' : docs'[d].name # NameOf[i]
               /\ Deciding(i)' => \A n \in Machines : n # i /\ NameOf[n] = NameOf[i] => ~Deciding(n)'
    <3>1. Creating(i)' => i # m /\ Creating(i) /\ Deciding(i) /\ NameOf[i] # NameOf[m]
      BY <2>1, <2>4 DEF Alone, Creating, Deciding
    <3> QED
      BY <2>1, <2>2, <2>4, <3>1 DEF Alone
  <2> QED
    BY <2>3, <2>4 DEF Alone
<1> QED
  BY <1>1, <1>2, <1>3, <1>4, <1>5, StepCases DEF Register

-----------------------------------------------------------------------------
(* Nobody is hidden but by an administrator *)

LEMMA ShownFrame ==
  ASSUME Shown, NEW m, reg[m].at # "update",
         \A n \in Machines : n # m => reg'[n] = reg[n],
         \A d \in DOMAIN docs' : docs'[d].deleted /\ d \notin removed' =>
           d \in DOMAIN docs /\ docs[d].deleted /\ d \notin removed
  PROVE  Shown'
  BY DEF Shown

LEMMA AsideShown ==
  ASSUME TInv, Shown, Aside \/ ListStart \/ ListSeq \/ ListGuard
  PROVE  Shown'
<1>1. UNCHANGED reg /\ DOMAIN docs' = DOMAIN docs
  BY AsideMoves
<1>2. ASSUME NEW d \in DOMAIN docs, docs'[d].deleted, d \notin removed'
      PROVE  docs[d].deleted /\ d \notin removed
  <2>a. docs \in Seq(Doc) /\ docs[d] \in Doc
    BY Fields DEF TInv, TypeOK
  <2>1. CASE Flagging \/ ListGuard
    <3>1. ASSUME NEW n \in Machines, Heartbeat(n) \/ StopAgent(n)
          PROVE  removed' = removed /\ docs'[d].deleted = docs[d].deleted
      BY <2>a, <3>1 DEF Heartbeat, HeartbeatOk, HeartbeatFails, StopAgent, Doc
    <3>2. CASE Decommission \/ Silence
      BY <1>2, <2>a, <3>2 DEF Decommission, Silence, Doc
    <3>3. CASE DeleteAgent
      BY <1>2, <2>a, <3>3 DEF DeleteAgent, Doc
    <3>4. CASE CleanupRemove
      BY <1>2, <2>a, <3>4 DEF CleanupRemove, Doc
    <3>5. CASE ListGuard
      <4>1. /\ lister.doc \in DOMAIN docs /\ lister.code \in Nat /\ Backfill(lister.doc, lister.code)
            /\ UNCHANGED removed
        BY <3>5, NextCodeIsNew DEF ListGuard, TInv, Grounded
      <4> QED
        BY <1>2, <4>1, BackfillWrites
    <3> QED
      BY <1>2, <2>1, <3>1, <3>2, <3>3, <3>4, <3>5 DEF Flagging
  <2>2. CASE ~Flagging /\ ~ListGuard
    <3>1. UNCHANGED <<docs, removed>>
      BY <2>2 DEF Aside, Flagging, Reinstall, CleanupPreview, Outage, OutageEnds, ListStart, ListSeq, vars
    <3> QED
      BY <1>2, <3>1
  <2> QED
    BY <2>1, <2>2
<1> QED
  BY <1>1, <1>2 DEF Shown

LEMMA NextShown ==
  ASSUME TInv, Shown, [Next]_vars
  PROVE  Shown'
<1>1. ASSUME NEW m \in Machines, StartAgent(m) \/ RegisterSeq(m) \/ RegisterReply(m)
      PROVE  Shown'
  <2>1. /\ UNCHANGED <<docs, removed>> /\ reg[m].at # "update"
        /\ \A n \in Machines : n # m => reg'[n] = reg[n]
    BY <1>1, StartReads, SeqMoves, ReplyMoves
  <2> QED
    BY <2>1, ShownFrame
<1>2. ASSUME NEW m \in Machines, RegisterGuard(m)
      PROVE  Shown'
  <2>1. /\ UNCHANGED removed /\ reg[m].at # "update" /\ DOMAIN docs' = DOMAIN docs
        /\ \A n \in Machines : n # m => reg'[n] = reg[n]
        /\ \A d \in DOMAIN docs : docs'[d].deleted = docs[d].deleted
    BY <1>2, GuardMoves
  <2> QED
    BY <2>1, ShownFrame
<1>3. ASSUME NEW m \in Machines, RegisterPut(m)
      PROVE  Shown'
  <2>1. /\ UNCHANGED removed /\ reg[m].at # "update"
        /\ \A n \in Machines : n # m => reg'[n] = reg[n]
    BY <1>3, PutMoves
  <2>2. /\ DOMAIN docs' = DOMAIN docs \cup {Len(docs) + 1} /\ docs'[Len(docs) + 1].deleted = FALSE
        /\ \A d \in DOMAIN docs : docs'[d] = docs[d]
    BY <1>3, PutWrites
  <2>3. \A d \in DOMAIN docs' : docs'[d].deleted /\ d \notin removed' =>
          d \in DOMAIN docs /\ docs[d].deleted /\ d \notin removed
    BY <2>1, <2>2
  <2> QED
    BY <2>1, <2>3, ShownFrame
<1>4. ASSUME NEW m \in Machines, RegisterFind(m)
      PROVE  Shown'
  <2>1. docs' = docs /\ reg[m].at # "update" /\ \A n \in Machines : n # m => reg'[n] = reg[n]
    BY <1>4, FindReads DEF RegisterFind
  <2>2. CASE removed' = removed
    BY <2>1, <2>2, ShownFrame
  <2>3. ASSUME NEW d \in Knows(m), reg'[m].at = "update", reg'[m].doc = d,
               reg'[m].hidden = (docs[d].deleted \/ docs[d].retired), removed' = removed \ {d}
        PROVE  Shown'
    <3>1. docs[d].deleted => reg'[m].hidden
      BY <2>3
    <3>2. ASSUME NEW e \in DOMAIN docs, docs[e].deleted, e \notin removed'
          PROVE  \E n \in Machines : reg'[n].at = "update" /\ reg'[n].doc = e /\ reg'[n].hidden
      <4>1. CASE e = d
        BY <2>3, <3>1, <3>2, <4>1
      <4>2. CASE e # d
        BY <2>1, <2>3, <3>2, <4>2 DEF Shown
      <4> QED
        BY <4>1, <4>2
    <3> QED
      BY <2>1, <3>2 DEF Shown
  <2> QED
    BY <1>4, <2>2, <2>3, FindReads
<1>5. ASSUME NEW m \in Machines, RegisterUpdate(m)
      PROVE  Shown'
  <2>1. /\ UNCHANGED removed /\ \A n \in Machines : n # m => reg'[n] = reg[n]
    BY <1>5, UpdateMoves
  <2>2. /\ DOMAIN docs' = DOMAIN docs
        /\ docs'[reg[m].doc].deleted = (docs[reg[m].doc].deleted /\ ~reg[m].hidden)
        /\ \A e \in DOMAIN docs : e # reg[m].doc => docs'[e] = docs[e]
    BY <1>5, UpdateWrites
  <2>3. ASSUME NEW e \in DOMAIN docs, docs'[e].deleted, e \notin removed
        PROVE  \E n \in Machines : n # m /\ reg[n].at = "update" /\ reg[n].doc = e /\ reg[n].hidden
    <3>1. CASE e = reg[m].doc
      BY <2>2, <2>3, <3>1 DEF Shown
    <3>2. CASE e # reg[m].doc
      BY <2>2, <2>3, <3>2 DEF Shown
    <3> QED
      BY <3>1, <3>2
  <2> QED
    BY <2>1, <2>2, <2>3 DEF Shown
<1> QED
  BY <1>1, <1>2, <1>3, <1>4, <1>5, StepCases, AsideShown DEF Register

-----------------------------------------------------------------------------
(* The key opens the document *)

\* A document that bears a machine's id bears its name.
LEMMA OwnName ==
  ASSUME Named, NEW m \in Machines, NEW d \in DOMAIN docs, docs[d].id = machine[m].id
  PROVE  docs[d].name = NameOf[m]
  BY DEF Named

LEMMA OneOwner ==
  ASSUME Named, NEW m \in Machines, NEW n, NEW k, machine[m].id = <<n, k>>
  PROVE  n = m
<1>1. PICK j \in {0, 1} : machine[m].id = <<m, j>>
  BY DEF Named
<1>2. <<m, j>>[1] = m /\ <<n, k>>[1] = n
  OBVIOUS
<1> QED
  BY <1>1, <1>2

LEMMA KnownName ==
  ASSUME Named, NEW m \in Machines, NEW d \in Knows(m)
  PROVE  docs[d].name = NameOf[m]
  BY OwnName DEF Knows

LEMMA NextNamed ==
  ASSUME TInv, Named, [Next]_vars
  PROVE  Named'
<1>1. CASE Aside \/ ListStart \/ ListSeq \/ ListGuard
  <2>1. /\ DOMAIN docs' = DOMAIN docs /\ UNCHANGED reg
        /\ \A d \in DOMAIN docs : docs'[d].name = docs[d].name /\ docs'[d].id = docs[d].id
        /\ \A m \in Machines : machine'[m].id = machine[m].id \/ machine'[m].id \in {<<m, 0>>, <<m, 1>>}
    BY <1>1, AsideMoves
  <2>2. \A m \in Machines : reg[m].at = "update" => reg[m].doc \in DOMAIN docs
    BY DEF TInv, Grounded
  <2> QED
    BY <2>1, <2>2 DEF Named
<1>2. ASSUME NEW m \in Machines,
             StartAgent(m) \/ RegisterSeq(m) \/ RegisterReply(m) \/ RegisterGuard(m)
      PROVE  Named'
  <2>1. /\ \A n \in Machines : n # m => reg'[n] = reg[n]
        /\ reg'[m].at # "update" /\ \A n \in Machines : machine'[n].id = machine[n].id
    BY <1>2, StartReads, SeqMoves, ReplyMoves, GuardMoves
  <2>2. DOMAIN docs' = DOMAIN docs
        /\ \A d \in DOMAIN docs : docs'[d].name = docs[d].name /\ docs'[d].id = docs[d].id
    BY <1>2, StartReads, SeqMoves, ReplyMoves, GuardMoves
  <2>3. \A n \in Machines : reg[n].at = "update" => reg[n].doc \in DOMAIN docs
    BY DEF TInv, Grounded
  <2> QED
    BY <2>1, <2>2, <2>3 DEF Named
<1>3. ASSUME NEW m \in Machines, RegisterFind(m)
      PROVE  Named'
  <2>1. UNCHANGED <<docs, machine>> /\ \A n \in Machines : n # m => reg'[n] = reg[n]
    BY <1>3, FindReads
  <2>2. reg'[m].at = "update" => docs[reg'[m].doc].name = NameOf[m]
    BY <1>3, FindReads, KnownName
  <2> QED
    BY <2>1, <2>2 DEF Named
<1>4. ASSUME NEW m \in Machines, RegisterUpdate(m)
      PROVE  Named'
  <2>1. /\ \A n \in Machines : n # m => reg'[n] = reg[n]
        /\ reg'[m].at # "update" /\ reg[m].at = "update" /\ UNCHANGED machine
    BY <1>4, UpdateMoves
  <2>2. /\ reg[m].doc \in DOMAIN docs /\ DOMAIN docs' = DOMAIN docs
        /\ docs'[reg[m].doc].name = docs[reg[m].doc].name
        /\ docs'[reg[m].doc].id = machine[m].id
        /\ \A e \in DOMAIN docs : e # reg[m].doc => docs'[e] = docs[e]
    BY <1>4, UpdateWrites
  <2>3. \A n \in Machines : reg[n].at = "update" => reg[n].doc \in DOMAIN docs
    BY DEF TInv, Grounded
  <2>4. \A n \in Machines, k \in {0, 1} :
          docs'[reg[m].doc].id = <<n, k>> => docs'[reg[m].doc].name = NameOf[n]
    <3> SUFFICES ASSUME NEW n \in Machines, NEW k \in {0, 1}, docs'[reg[m].doc].id = <<n, k>>
                 PROVE  docs'[reg[m].doc].name = NameOf[n]
      OBVIOUS
    <3>1. machine[m].id = <<n, k>>
      BY <2>2
    <3>2. n = m
      BY <3>1, OneOwner
    <3> QED
      BY <2>1, <2>2, <3>2 DEF Named
  <2> QED
    BY <2>1, <2>2, <2>3, <2>4 DEF Named
<1>5. ASSUME NEW m \in Machines, RegisterPut(m)
      PROVE  Named'
  <2>1. /\ \A n \in Machines : n # m => reg'[n] = reg[n]
        /\ reg'[m].at # "update" /\ UNCHANGED machine
    BY <1>5, PutMoves
  <2>2. /\ DOMAIN docs' = DOMAIN docs \cup {Len(docs) + 1}
        /\ docs'[Len(docs) + 1].name = NameOf[m] /\ docs'[Len(docs) + 1].id = machine[m].id
        /\ \A d \in DOMAIN docs : docs'[d] = docs[d]
    BY <1>5, PutWrites
  <2>3. \A n \in Machines : reg[n].at = "update" => reg[n].doc \in DOMAIN docs
    BY DEF TInv, Grounded
  <2>4. \A n \in Machines, k \in {0, 1} :
          docs'[Len(docs) + 1].id = <<n, k>> => docs'[Len(docs) + 1].name = NameOf[n]
    <3> SUFFICES ASSUME NEW n \in Machines, NEW k \in {0, 1}, docs'[Len(docs) + 1].id = <<n, k>>
                 PROVE  docs'[Len(docs) + 1].name = NameOf[n]
      OBVIOUS
    <3>1. machine[m].id = <<n, k>>
      BY <2>2
    <3>2. n = m
      BY <3>1, OneOwner
    <3> QED
      BY <2>2, <3>2
  <2> QED
    BY <2>1, <2>2, <2>3, <2>4 DEF Named
<1> QED
  BY <1>1, <1>2, <1>3, <1>4, <1>5, StepCases DEF Register

\* What a step does not touch keeps its key.
LEMMA HasStays ==
  ASSUME NEW m \in Machines, NEW key, Has(m, key), DOMAIN docs \subseteq DOMAIN docs',
         \A d \in DOMAIN docs :
           docs'[d].name = docs[d].name /\ docs'[d].id = docs[d].id /\ docs'[d].key = docs[d].key,
         machine'[m].id = machine[m].id, m \in evicted => m \in evicted'
  PROVE  Has(m, key)'
  BY DEF Has

LEMMA HeldStays ==
  ASSUME TInv, NEW m \in Machines, HeldFor(m), DOMAIN docs \subseteq DOMAIN docs',
         \A d \in DOMAIN docs :
           docs'[d].name = docs[d].name /\ docs'[d].id = docs[d].id /\ docs'[d].key = docs[d].key,
         raced \subseteq raced', m \in evicted => m \in evicted', reg'[m] = reg[m],
         machine'[m].id = machine[m].id, machine'[m].key = machine[m].key
  PROVE  HeldFor(m)'
<1>1. reg[m].at = "update" => reg[m].doc \in DOMAIN docs
  BY DEF TInv, Grounded
<1>2. Written(m)' <=> Written(m)
  BY DEF Written
<1>3. machine[m].key # 0 /\ NameOf[m] \notin raced => Has(m, machine[m].key)'
  BY HasStays DEF HeldFor
<1>4. Written(m) /\ NameOf[m] \notin raced => reg[m].key # 0 /\ Has(m, reg[m].key)'
  BY HasStays DEF HeldFor
<1> QED
  BY <1>1, <1>2, <1>3, <1>4 DEF HeldFor, Has

\* The same, of all machines but the one that registers.
LEMMA HeldOthers ==
  ASSUME TInv, Held, NEW m \in Machines, DOMAIN docs \subseteq DOMAIN docs',
         \A d \in DOMAIN docs :
           docs'[d].name = docs[d].name /\ docs'[d].id = docs[d].id /\ docs'[d].key = docs[d].key,
         raced \subseteq raced', evicted \ {m} \subseteq evicted',
         \A n \in Machines : n # m => reg'[n] = reg[n],
         \A n \in Machines : n # m => machine'[n].id = machine[n].id /\ machine'[n].key = machine[n].key,
         HeldFor(m)'
  PROVE  Held'
<1>1. ASSUME NEW n \in Machines, n # m PROVE HeldFor(n)'
  BY <1>1, HeldStays DEF Held
<1> QED
  BY <1>1 DEF Held

LEMMA AsideHeld ==
  ASSUME TInv, Held, Aside \/ ListStart \/ ListSeq \/ ListGuard
  PROVE  Held'
<1>1. /\ DOMAIN docs' = DOMAIN docs /\ UNCHANGED <<reg, raced, evicted>>
      /\ \A d \in DOMAIN docs :
           docs'[d].name = docs[d].name /\ docs'[d].id = docs[d].id /\ docs'[d].key = docs[d].key
  BY AsideMoves
<1>2. ASSUME NEW m \in Machines PROVE HeldFor(m)'
  <2>1. CASE machine'[m].id = machine[m].id /\ machine'[m].key = machine[m].key
    BY <1>1, <2>1, HeldStays DEF Held
  <2>2. CASE machine'[m].key = 0 /\ reg[m].at = "idle"
    BY <1>1, <2>2 DEF HeldFor, Written
  <2> QED
    BY <2>1, <2>2, AsideMoves
<1> QED
  BY <1>2 DEF Held

LEMMA UpdateHeld ==
  ASSUME TInv, OneDocumentPerName, Alone, Named, Held, NEW m \in Machines, RegisterUpdate(m)
  PROVE  Held'
<1> DEFINE d == reg[m].doc
<1>1. /\ UNCHANGED <<machine, raced>> /\ reg[m].at = "update"
      /\ \A n \in Machines : n # m => reg'[n] = reg[n]
      /\ reg'[m].at \in {"seq", "reply"}
      /\ evicted' = (evicted \ {m}) \cup {n \in Machines \ {m} : docs[d].id = machine[n].id}
  BY UpdateMoves
<1>2. /\ d \in DOMAIN docs /\ DOMAIN docs' = DOMAIN docs /\ docs'[d].name = docs[d].name
      /\ docs'[d].id = machine[m].id
      /\ \A e \in DOMAIN docs : e # d => docs'[e] = docs[e]
  BY UpdateWrites
<1>3. docs'[d].key = reg'[m].key /\ reg'[m].key # 0 /\ (reg[m].key # 0 => reg'[m].key = reg[m].key)
  <2>1. keys + 1 # 0
    BY DEF TInv, TypeOK
  <2>2. docs'[d].key = IF reg[m].key # 0 THEN reg[m].key ELSE keys + 1
    BY UpdateWrites
  <2>3. reg'[m].key = IF reg[m].key # 0 THEN reg[m].key ELSE keys + 1
    BY UpdateMoves
  <2> QED
    BY <2>1, <2>2, <2>3
<1>4. docs[d].name = NameOf[m]
  BY <1>1 DEF Named
<1>5. NameOf[m] \notin raced => docs[d].key = reg[m].key
  BY <1>1 DEF Held, HeldFor
<1>6. \A n \in Machines : reg[n].at = "update" => reg[n].doc \in DOMAIN docs /\ docs[reg[n].doc].name = NameOf[n]
  BY DEF TInv, Grounded, Named
\* A key held of the document before the update is its key afterwards, though
\* the id may be another machine's.
<1>7. ASSUME NEW n \in Machines, NEW key, key # 0, NameOf[n] \notin raced, Has(n, key)
      PROVE  Has(n, key)'
  <2>1. PICK e \in DOMAIN docs : docs[e].name = NameOf[n] /\ docs[e].key = key
                                /\ (n \notin evicted => docs[e].id = machine[n].id)
    BY <1>7 DEF Has
  <2>2. CASE e # d
    <3>1. docs'[e] = docs[e] /\ NameOf[n] # NameOf[m]
      BY <1>2, <1>4, <1>7, <2>1, <2>2 DEF OneDocumentPerName
    <3> QED
      BY <1>1, <1>2, <2>1, <3>1 DEF Has
  <2>3. CASE e = d
    <3>1. docs'[d].key = key /\ docs'[d].name = NameOf[n]
      BY <1>2, <1>3, <1>4, <1>5, <1>7, <2>1, <2>3
    <3>2. n \notin evicted' => n = m
      BY <1>1, <2>1, <2>3
    <3> QED
      BY <1>1, <1>2, <3>1, <3>2 DEF Has
  <2> QED
    BY <2>2, <2>3
<1>8. HeldFor(m)'
  <2>1. Has(m, reg[m].key)'
    BY <1>1, <1>2, <1>3, <1>4 DEF Has
  <2> QED
    BY <1>1, <1>3, <1>7, <2>1 DEF Held, HeldFor
<1>9. ASSUME NEW n \in Machines, n # m PROVE HeldFor(n)'
  <2>1. Written(n)' <=> Written(n)
    BY <1>1, <1>9 DEF Written
  <2>2. NameOf[n] \notin raced /\ reg[n].at = "update" => reg[n].doc # d
    BY <1>1, <1>4, <1>6, <1>9 DEF Alone, Deciding
  <2>3. NameOf[n] \notin raced /\ machine[n].key # 0 => Has(n, machine[n].key)'
    BY <1>1, <1>7 DEF Held, HeldFor
  <2>4. NameOf[n] \notin raced /\ Written(n) => reg[n].key # 0 /\ Has(n, reg[n].key)'
    BY <1>1, <1>7, <1>9 DEF Held, HeldFor
  <2>5. NameOf[n] \notin raced /\ reg[n].at = "update" => docs'[reg[n].doc].key = reg[n].key
    BY <1>2, <1>6, <2>2 DEF Held, HeldFor
  <2> QED
    BY <1>1, <1>9, <2>1, <2>3, <2>4, <2>5 DEF HeldFor, Has
<1> QED
  BY <1>8, <1>9 DEF Held

LEMMA PutHeld ==
  ASSUME TInv, Alone, Held, NEW m \in Machines, RegisterPut(m)
  PROVE  Held'
<1>1. /\ UNCHANGED <<machine, raced>> /\ reg[m].at = "put" /\ reg'[m].at = "reply"
      /\ \A n \in Machines : n # m => reg'[n] = reg[n]
      /\ reg'[m].key = keys + 1 /\ evicted' = evicted \ {m}
  BY PutMoves
<1>2. /\ DOMAIN docs' = DOMAIN docs \cup {Len(docs) + 1}
      /\ docs'[Len(docs) + 1].name = NameOf[m] /\ docs'[Len(docs) + 1].id = machine[m].id
      /\ docs'[Len(docs) + 1].key = keys + 1
      /\ \A d \in DOMAIN docs : docs'[d] = docs[d]
  BY PutWrites
<1>3. keys + 1 # 0
  BY DEF TInv, TypeOK
<1>4. NameOf[m] \notin raced => machine[m].key = 0
  <2>1. NameOf[m] \notin raced => \A d \in DOMAIN docs : docs[d].name # NameOf[m]
    BY <1>1 DEF Alone, Creating
  <2> QED
    BY <2>1 DEF Held, HeldFor, Has
<1>5. Has(m, reg[m].key)'
  BY <1>1, <1>2 DEF Has
<1>6. HeldFor(m)'
  BY <1>1, <1>3, <1>4, <1>5 DEF HeldFor
<1> QED
  BY <1>1, <1>2, <1>6, HeldOthers

LEMMA NextHeld ==
  ASSUME TInv, OneDocumentPerName, Alone, Named, Held, [Next]_vars
  PROVE  Held'
<1>1. ASSUME NEW m \in Machines, StartAgent(m) PROVE Held'
  <2>1. /\ UNCHANGED <<docs, raced, evicted>> /\ reg'[m].at \in {"idle", "find"}
        /\ \A n \in Machines : n # m => reg'[n] = reg[n] /\ machine'[n] = machine[n]
        /\ machine'[m].id = machine[m].id /\ machine'[m].key = machine[m].key
    BY <1>1, StartReads
  <2>2. machine[m].key # 0 /\ NameOf[m] \notin raced => Has(m, machine[m].key)'
    BY <2>1 DEF Held, HeldFor, Has
  <2>3. HeldFor(m)'
    BY <2>1, <2>2 DEF HeldFor, Written, Has
  <2> QED
    BY <2>1, <2>3, HeldOthers
<1>2. ASSUME NEW m \in Machines, RegisterFind(m) PROVE Held'
  <2>1. /\ UNCHANGED <<docs, machine, evicted>> /\ raced \subseteq raced'
        /\ \A n \in Machines : n # m => reg'[n] = reg[n]
    BY <1>2, FindReads DEF RegisterFind
  <2>2. \/ reg'[m].at = "seq" /\ reg'[m].doc = 0
        \/ reg'[m].at = "update" /\ docs[reg'[m].doc].key = reg'[m].key
    BY <1>2, FindReads
  <2>3. machine[m].key # 0 /\ NameOf[m] \notin raced => Has(m, machine[m].key)'
    BY <2>1 DEF Held, HeldFor, Has
  <2>4. HeldFor(m)'
    BY <2>1, <2>2, <2>3 DEF HeldFor, Written, Has
  <2> QED
    BY <2>1, <2>4, HeldOthers
<1>3. ASSUME NEW m \in Machines, RegisterSeq(m) PROVE Held'
  <2>1. /\ UNCHANGED <<docs, machine, raced, evicted>> /\ reg[m].at = "seq"
        /\ \A n \in Machines : n # m => reg'[n] = reg[n]
        /\ reg'[m].key = reg[m].key /\ reg'[m].at # "update"
        /\ Written(m)' => Written(m)
    BY <1>3, SeqMoves DEF Written
  <2>2. HeldFor(m)'
    BY <2>1 DEF Held, HeldFor, Has
  <2> QED
    BY <2>1, <2>2, HeldOthers
<1>4. ASSUME NEW m \in Machines, RegisterGuard(m) PROVE Held'
  <2>1. /\ UNCHANGED <<machine, raced, evicted>> /\ reg[m].at = "guard" /\ reg'[m].at = "reply"
        /\ \A n \in Machines : n # m => reg'[n] = reg[n]
        /\ reg'[m].key = reg[m].key /\ DOMAIN docs' = DOMAIN docs
        /\ \A d \in DOMAIN docs :
             docs'[d].name = docs[d].name /\ docs'[d].id = docs[d].id /\ docs'[d].key = docs[d].key
    BY <1>4, GuardMoves
  <2>2. Written(m) /\ Written(m)' /\ reg'[m].at # "update"
    BY <2>1 DEF Written
  <2>3. HeldFor(m)'
    BY <2>1, <2>2 DEF Held, HeldFor, Has
  <2> QED
    BY <2>1, <2>3, HeldOthers
<1>5. ASSUME NEW m \in Machines, RegisterReply(m) PROVE Held'
  <2>1. /\ UNCHANGED <<docs, raced, evicted>> /\ reg[m].at = "reply" /\ reg'[m].at = "idle"
        /\ \A n \in Machines : n # m => reg'[n] = reg[n] /\ machine'[n] = machine[n]
        /\ machine'[m].id = machine[m].id /\ machine'[m].key \in {machine[m].key, reg[m].key}
    BY <1>5, ReplyMoves
  <2>2. NameOf[m] \notin raced =>
          /\ machine[m].key # 0 => Has(m, machine[m].key)
          /\ Has(m, reg[m].key)
    BY <2>1 DEF Held, HeldFor, Written
  <2>3. HeldFor(m)'
    BY <2>1, <2>2 DEF HeldFor, Written, Has
  <2> QED
    BY <2>1, <2>3, HeldOthers
<1> QED
  BY <1>1, <1>2, <1>3, <1>4, <1>5, StepCases, AsideHeld, UpdateHeld, PutHeld DEF Register

-----------------------------------------------------------------------------
(* Theorems *)

IInv == TInv /\ Drawn /\ OneDocumentPerName /\ Alone /\ Shown /\ Named /\ Held

LEMMA InitIInv == Init => IInv
<1> SUFFICES ASSUME Init PROVE IInv
  OBVIOUS
<1> DEFINE Old(name) ==
        /\ \A d, e \in DOMAIN name : name[d] = name[e] => d = e
        /\ docs = [d \in DOMAIN name |->
             [name |-> name[d], id |-> NoId, code |-> 0, key |-> 0,
              stale |-> TRUE, deleted |-> FALSE, retired |-> FALSE]]
<1>0. PICK old \in SUBSET Legacy : \E name \in [1..Cardinality(old) -> old] : Old(name)
  BY DEF Init
<1>1. PICK name \in [1..Cardinality(old) -> old] : Old(name)
  BY <1>0
<1>2. \A m \in Machines : reg[m].at = "idle" /\ machine[m].key = 0 /\ machine[m].id = <<m, 0>>
  BY DEF Init, NoReg, Request
<1>3. OneDocumentPerName
  BY <1>1 DEF OneDocumentPerName
<1>4. Alone
  BY <1>2 DEF Alone, Creating, Deciding
<1>5. Shown
  BY <1>1 DEF Shown
<1>6. Named
  <2>1. \A d \in DOMAIN docs : docs[d].id = << >>
    BY <1>1 DEF NoId
  <2>2. \A m, k : << >> # <<m, k>>
    OBVIOUS
  <2> QED
    BY <1>2, <2>1, <2>2 DEF Named
<1>7. Held
  BY <1>2 DEF Held, HeldFor, Written
<1> QED
  BY <1>3, <1>4, <1>5, <1>6, <1>7, InitTInv, InitDrawn DEF IInv

LEMMA NextIInv ==
  IInv /\ [Next]_vars => IInv'
  BY NextTInv, NextDrawn, NextAlone, NextShown, NextNamed, NextHeld DEF IInv

LEMMA Invariance == Spec => []IInv
  BY InitIInv, NextIInv, PTL DEF Spec

\* Every reachable state is well typed, and keys and codes are below their
\* counters.
THEOREM TypeCorrect == Spec => []TypeOK
<1>1. IInv => TypeOK
  BY DEF IInv, TInv
<1> QED
  BY <1>1, Invariance, PTL

\* However registrations, reinstallations, outages, backfills and cleanups
\* interleave, a machine keeps one document, which is hidden by administrators
\* only and opened by the machine's key, but for registrations of one name that
\* passed each other.
THEOREM OneDocumentHolds == Spec => []MachinesKeepOneDocument
<1>1. IInv => HiddenOnlyByAdmin
  BY DEF IInv, Shown, HiddenOnlyByAdmin
<1>2. IInv => KeyOpensOwnDocument
  BY DEF IInv, Held, HeldFor, Has, KeyOpensOwnDocument
<1>3. IInv => MachinesKeepOneDocument
  BY <1>1, <1>2 DEF IInv, MachinesKeepOneDocument
<1> QED
  BY <1>3, Invariance, PTL

\* A code is never changed nor given to a second document, whoever fills in
\* missing ones.
THEOREM CodeIsForeverHolds == Spec => CodeIsForever
<1>1. IInv /\ IInv' /\ [Next]_vars =>
        \A d \in DOMAIN docs : docs[d].code # 0 =>
          /\ docs'[d].code = docs[d].code
          /\ \A e \in DOMAIN docs' \ {d} : docs'[e].code # docs[d].code
  <2> SUFFICES ASSUME IInv, IInv', [Next]_vars, NEW d \in DOMAIN docs, docs[d].code # 0
               PROVE  /\ docs'[d].code = docs[d].code
                      /\ \A e \in DOMAIN docs' \ {d} : docs'[e].code # docs[d].code
    OBVIOUS
  <2>1. d \in DOMAIN docs' /\ docs'[d].code = docs[d].code
    BY CodesStay DEF IInv
  <2> QED
    BY <2>1 DEF IInv, Drawn
<1>2. IInv /\ IInv' /\ [Next]_vars =>
        [\A d \in DOMAIN docs : docs[d].code # 0 =>
          /\ docs'[d].code = docs[d].code
          /\ \A e \in DOMAIN docs' \ {d} : docs'[e].code # docs[d].code]_vars
  BY <1>1
<1>3. Spec => [][\A d \in DOMAIN docs : docs[d].code # 0 =>
          /\ docs'[d].code = docs[d].code
          /\ \A e \in DOMAIN docs' \ {d} : docs'[e].code # docs[d].code]_vars
  BY <1>2, Invariance, PTL DEF Spec
<1> QED
  BY <1>3 DEF CodeIsForever
=============================================================================
