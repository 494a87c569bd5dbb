------------------------ MODULE EventProcessing_proofs ------------------------
(***************************************************************************)
(* Proofs about EventProcessing: for any number of events, users, errors,  *)
(* crashes and analysts' patches, and any window.                          *)
(*                                                                         *)
(* None of the properties is inductive.  What an incident holds rests on   *)
(* Placed: tasks that wrote do not write again.  That only a race lowers   *)
(* an incident rests on Snapped, and that only a race splits a burst on    *)
(* Dated and Missed: what a task read, and what it could not have read.    *)
(* What a task owes for its event rests on Paid: what it has done by then. *)
(***************************************************************************)
EXTENDS EventProcessing, FiniteSetTheorems, TLAPS

\* Past the decision: the task writes no incident any more.
Settled == {"mirror", "done", "lost"}

\* A task that has been started has a document.
Started == \A e \in Events : pc[e] # "idle" => docs[e] # None

\* What is in an incident is there once and for all.
Placed ==
  /\ \A i \in Opened : pc[i] \in Settled
  /\ \A i \in Opened : \A e \in incidents[i].related :
       pc[e] \in Settled /\ UserOf[e] = UserOf[i]
  /\ \A i, j \in Opened : i # j => incidents[i].related \cap incidents[j].related = {}

\* A snapshot is of an incident of the user, and it is current unless an event
\* was folded in since it was taken.
Snapped ==
  \A e \in Events : pc[e] = "coalesce" =>
    /\ found[e] \in Snapshot
    /\ found[e].id \in Opened
    /\ UserOf[found[e].id] = UserOf[e]
    /\ \/ overlap[e] \cap incidents[found[e].id].related # {}
       \/ /\ found[e].severity = incidents[found[e].id].severity
          /\ found[e].count = incidents[found[e].id].count

\* Nothing is dated in the future, and only an analyst closes an incident.
Dated ==
  /\ \A e \in Events : since[e] <= now
  /\ \A i \in Opened : incidents[i].at <= now
  /\ \A i \in Opened : incidents[i].status = "closed" => i \in touched

\* What a task about to create has not found was closed, or came after its find.
Missed ==
  \A e \in Events : pc[e] = "create" =>
    \A i \in Opened : (UserOf[i] = UserOf[e] /\ since[e] <= incidents[i].at + Window)
      => i \in overlap[e] \/ i \in touched

IInv == TypeOK /\ Started /\ Placed /\ Snapped /\ Dated /\ Missed /\ SplitOnlyByRace

\* The document says what the task found.
Recorded(e) ==
  /\ docs[e].status = "completed"
  /\ docs[e].blocked = Verdict(e)
  /\ docs[e].matched = matches[e]

\* All that is owed for the event but its mirror.
Answered(e) ==
  /\ Recorded(e)
  /\ e \in Matched => matches[e] > 0
  /\ Level[e] > 0 => Folded(e)

\* A match is listed once per attempt that got so far.
Counted(e) ==
  /\ pc[e] = "idle" => matches[e] = 0
  /\ matches[e] <= attempt[e]
  /\ pc[e] = "evaluate" => matches[e] < attempt[e]

\* What a task has done by the place it has reached, when no error was swallowed.
Owed(e) ==
  /\ alerts[e] = matches[e]
  /\ pc[e] \in Folding \cup {"save"} => (e \in Matched => matches[e] > 0)
  /\ pc[e] \in Folding => Recorded(e)
  /\ pc[e] = "mirror" => Answered(e)
  /\ pc[e] = "done" => docs[e].status = "failed" \/ (Answered(e) /\ e \in mirrored)

Paid == \A e \in Events : Counted(e) /\ (e \notin swallowed => Owed(e))

-----------------------------------------------------------------------------
(* Types *)

LEMMA StumbleType ==
  ASSUME TypeOK, NEW e \in Events, Stumble(e)
  PROVE  /\ attempt' \in [Events -> 0..Attempts]
         /\ pc' \in [Events -> Places]
         /\ \A f \in Events : f # e => pc'[f] = pc[f]
         /\ pc'[e] \in {"evaluate", "giveup"}
<1>1. CASE attempt[e] < Attempts
  <2>1. /\ attempt' = [attempt EXCEPT ![e] = @ + 1]
        /\ pc' = [pc EXCEPT ![e] = "evaluate"]
    BY <1>1 DEF Stumble, Goto
  <2>2. attempt[e] + 1 \in 0..Attempts
    BY <1>1, LimitsAssumption DEF TypeOK
  <2> QED
    BY <2>1, <2>2 DEF TypeOK, Places
<1>2. CASE ~(attempt[e] < Attempts)
  BY <1>2 DEF Stumble, Goto, TypeOK, Places
<1> QED
  BY <1>1, <1>2

\* A step of one task moves that task only.
LEMMA GotoType ==
  ASSUME TypeOK, NEW e \in Events, NEW p \in Places, Goto(e, p)
  PROVE  /\ pc' \in [Events -> Places]
         /\ pc'[e] = p
         /\ \A f \in Events : f # e => pc'[f] = pc[f]
  BY DEF Goto, TypeOK

LEMMA BudgetType ==
  ASSUME TypeOK, NEW e \in Events
  PROVE  /\ Fault => faults' \in Nat
         /\ Swallow(e) => faults' \in Nat /\ swallowed' \subseteq Events
         /\ NoFault => faults' \in Nat /\ swallowed' \subseteq Events
  BY DEF Fault, Swallow, NoFault, TypeOK

LEMMA InitType == Init => TypeOK
  BY EventsAssumption, LimitsAssumption DEF Init, TypeOK, Places, Ended

LEMMA SubmitType ==
  ASSUME TypeOK, NEW e \in Events, Submit(e)
  PROVE  TypeOK'
<1>1. pc' \in [Events -> Places]
  BY GotoType DEF Submit, Places
<1>2. [status |-> "pending", blocked |-> Reported[e] = "blocked", at |-> now, matched |-> 0]
        \in Doc
  <2>1. (Reported[e] = "blocked") \in BOOLEAN
    OBVIOUS
  <2> QED
    BY <2>1 DEF Doc, TypeOK
<1>3. docs' \in [Events -> Doc \cup {None}]
  BY <1>2 DEF Submit, TypeOK
<1>4. attempt' \in [Events -> 0..Attempts]
  BY LimitsAssumption DEF Submit, TypeOK
<1> QED
  BY <1>1, <1>3, <1>4 DEF Submit, TypeOK, reads, env, hist

LEMMA EvaluateType ==
  ASSUME TypeOK, NEW e \in Events, Evaluate(e)
  PROVE  TypeOK'
<1>1. pc' \in [Events -> Places] /\ attempt' \in [Events -> 0..Attempts]
  <2>1. CASE Stumble(e)
    BY <2>1, StumbleType
  <2>2. CASE Goto(e, "save") /\ UNCHANGED attempt
    BY <2>2, GotoType DEF Places, TypeOK
  <2> QED
    BY <2>1, <2>2 DEF Evaluate
<1>2. alerts' \in [Events -> Nat] /\ matches' \in [Events -> Nat]
  BY DEF Evaluate, TypeOK
<1>3. faults' \in Nat /\ swallowed' \subseteq Events
  BY BudgetType DEF Evaluate, TypeOK
<1> QED
  BY <1>1, <1>2, <1>3 DEF Evaluate, TypeOK

LEMMA SaveType ==
  ASSUME TypeOK, Started, NEW e \in Events, Save(e)
  PROVE  TypeOK'
<1>1. pc' \in [Events -> Places] /\ attempt' \in [Events -> 0..Attempts]
  <2>1. CASE Stumble(e)
    BY <2>1, StumbleType
  <2>2. CASE Goto(e, IF Level[e] = 0 THEN "mirror" ELSE "dedupe") /\ UNCHANGED attempt
    <3>1. (IF Level[e] = 0 THEN "mirror" ELSE "dedupe") \in Places
      BY DEF Places, Folding
    <3> QED
      BY <2>2, <3>1, GotoType DEF TypeOK
  <2> QED
    BY <2>1, <2>2 DEF Save
<1>2. docs' \in [Events -> Doc \cup {None}]
  <2>1. docs[e] \in Doc
    BY DEF Save, Started, TypeOK
  <2>2. Verdict(e) \in BOOLEAN
    BY DEF Verdict
  <2>3. [docs[e] EXCEPT !.status = "completed", !.blocked = Verdict(e), !.matched = matches[e]]
          \in Doc
    BY <2>1, <2>2 DEF Doc, TypeOK
  <2> QED
    BY <2>3 DEF Save, TypeOK
<1>3. faults' \in Nat
  BY BudgetType DEF Save, TypeOK
<1> QED
  BY <1>1, <1>2, <1>3 DEF Save, TypeOK, reads, hist

LEMMA GiveUpType ==
  ASSUME TypeOK, Started, NEW e \in Events, GiveUp(e)
  PROVE  TypeOK'
<1>1. pc' \in [Events -> Places]
  BY GotoType DEF GiveUp, Places, Ended
<1>2. docs' \in [Events -> Doc \cup {None}]
  <2>1. docs[e] \in Doc
    BY DEF GiveUp, Started, TypeOK
  <2>2. [docs[e] EXCEPT !.status = "failed"] \in Doc
    BY <2>1 DEF Doc
  <2> QED
    BY <2>2 DEF GiveUp, TypeOK
<1>3. faults' \in Nat /\ swallowed' \subseteq Events
  BY BudgetType DEF GiveUp
<1> QED
  BY <1>1, <1>2, <1>3 DEF GiveUp, TypeOK, reads

LEMMA DedupeType ==
  ASSUME TypeOK, NEW e \in Events, Dedupe(e)
  PROVE  TypeOK'
<1>1. (IF Folded(e) THEN "mirror" ELSE "count") \in Places
  BY DEF Places, Folding
<1>2. pc' \in [Events -> Places]
  BY <1>1, GotoType DEF Dedupe
<1> QED
  BY <1>2 DEF Dedupe, TypeOK, store, reads, env, hist

LEMMA CountType ==
  ASSUME TypeOK, NEW e \in Events, Count(e)
  PROVE  TypeOK'
<1>1. Cardinality(Violations(UserOf[e])) \in Nat
  <2>1. Violations(UserOf[e]) \subseteq Events
    BY DEF Violations
  <2> QED
    BY <2>1, EventsAssumption, FS_Subset, FS_CardinalityType
<1>2. pc' \in [Events -> Places]
  BY GotoType DEF Count, Places, Folding
<1>3. votes' \in [Events -> Nat] /\ since' \in [Events -> Nat]
  BY <1>1 DEF Count, TypeOK
<1> QED
  BY <1>2, <1>3 DEF Count, TypeOK, store, env, hist

LEMMA FindOpenType ==
  ASSUME TypeOK, NEW e \in Events, FindOpen(e)
  PROVE  /\ TypeOK'
         /\ \/ Coalescable(e) = {} /\ pc'[e] = "create" /\ found'[e] = None
            \/ \E i \in Coalescable(e) :
                 /\ pc'[e] = "coalesce"
                 /\ found'[e] = [id |-> i, severity |-> incidents[i].severity,
                                 count |-> incidents[i].count]
         /\ \A f \in Events : f # e => pc'[f] = pc[f] /\ found'[f] = found[f]
<1>1. CASE Coalescable(e) = {}
  <2>1. found' = [found EXCEPT ![e] = None] /\ Goto(e, "create")
    BY <1>1 DEF FindOpen
  <2>2. /\ pc' \in [Events -> Places] /\ pc'[e] = "create"
        /\ \A f \in Events : f # e => pc'[f] = pc[f]
    BY <2>1, GotoType DEF Places, Folding
  <2> QED
    BY <1>1, <2>1, <2>2 DEF FindOpen, TypeOK, store, env
<1>2. CASE Coalescable(e) # {}
  <2>1. PICK i \in Coalescable(e) :
          /\ found' = [found EXCEPT ![e] = [id |-> i, severity |-> incidents[i].severity,
                                            count |-> incidents[i].count]]
          /\ Goto(e, "coalesce")
    BY <1>2 DEF FindOpen
  <2>2. /\ pc' \in [Events -> Places] /\ pc'[e] = "coalesce"
        /\ \A f \in Events : f # e => pc'[f] = pc[f]
    BY <2>1, GotoType DEF Places, Folding
  <2>3. i \in Events /\ incidents[i] \in Incident
    BY DEF Coalescable, Opened, TypeOK
  <2>4. [id |-> i, severity |-> incidents[i].severity, count |-> incidents[i].count] \in Snapshot
    BY <2>3 DEF Snapshot, Incident
  <2>5. found' \in [Events -> Snapshot \cup {None}]
    BY <2>1, <2>4 DEF TypeOK
  <2> QED
    BY <2>1, <2>2, <2>5 DEF FindOpen, TypeOK, store, env
<1> QED
  BY <1>1, <1>2

LEMMA OverlapsType ==
  ASSUME TypeOK, NEW e \in Events, Overlaps(e)
  PROVE  overlap' \in [Events -> SUBSET Events]
  BY DEF Overlaps, TypeOK

LEMMA SeverityType ==
  ASSUME TypeOK, NEW e \in Events
  PROVE  Severity(e) \in Nat
  BY EventsAssumption DEF Severity

\* What a coalescing write does to the incident it found, and that it does
\* nothing to the others.
LEMMA CoalesceType ==
  ASSUME TypeOK, Snapped, NEW e \in Events, Coalesce(e)
  PROVE  /\ TypeOK'
         /\ pc'[e] = "mirror"
         /\ \A f \in Events : f # e => pc'[f] = pc[f]
         /\ Opened' = Opened
         /\ incidents'[found[e].id] =
              [incidents[found[e].id] EXCEPT
                 !.severity = AtLeast(found[e].severity, Severity(e)),
                 !.count = AtLeast(votes[e], found[e].count + 1),
                 !.related = @ \cup {e}]
         /\ \A i \in Events : i # found[e].id => incidents'[i] = incidents[i]
<1> DEFINE i == found[e].id
           new == [incidents[i] EXCEPT
                     !.severity = AtLeast(found[e].severity, Severity(e)),
                     !.count = AtLeast(votes[e], found[e].count + 1),
                     !.related = @ \cup {e}]
<1>1. found[e] \in Snapshot /\ i \in Opened
  BY DEF Coalesce, Snapped
<1>2. i \in Events /\ incidents[i] \in Incident
  BY <1>1 DEF Opened, TypeOK
<1>3. new \in Incident
  <2>1. AtLeast(found[e].severity, Severity(e)) \in Nat
    BY <1>1, SeverityType DEF AtLeast, Snapshot
  <2>2. AtLeast(votes[e], found[e].count + 1) \in Nat
    BY <1>1 DEF AtLeast, Snapshot, TypeOK
  <2>3. incidents[i].related \cup {e} \in SUBSET Events
    BY <1>2 DEF Incident
  <2> QED
    BY <1>2, <2>1, <2>2, <2>3 DEF Incident
<1>4. incidents' = [incidents EXCEPT ![i] = new]
  BY DEF Coalesce
<1>5. /\ pc' \in [Events -> Places] /\ pc'[e] = "mirror"
      /\ \A f \in Events : f # e => pc'[f] = pc[f]
  BY GotoType DEF Coalesce, Places
<1>6. incidents' \in [Events -> Incident \cup {None}]
  BY <1>3, <1>4 DEF TypeOK
<1>7. TypeOK'
  BY <1>5, <1>6, OverlapsType DEF Coalesce, TypeOK, reads, env
<1>8. incidents'[i] = new /\ \A j \in Events : j # i => incidents'[j] = incidents[j]
  BY <1>2, <1>4 DEF TypeOK
<1>9. Opened' = Opened
  BY <1>1, <1>3, <1>8, NoneAssumption DEF Opened
<1> QED
  BY <1>5, <1>7, <1>8, <1>9

LEMMA CreateType ==
  ASSUME TypeOK, NEW e \in Events, Create(e)
  PROVE  /\ TypeOK'
         /\ pc'[e] = "mirror"
         /\ \A f \in Events : f # e => pc'[f] = pc[f]
         /\ \A i \in Events : i # e => incidents'[i] = incidents[i]
         /\ Opened' = Opened \cup {e}
         /\ incidents[e] = None =>
              incidents'[e] = [status |-> "open", severity |-> Severity(e), count |-> votes[e],
                               related |-> {e}, at |-> now]
         /\ incidents[e] # None => incidents'[e] = incidents[e]
<1> DEFINE new == [status |-> "open", severity |-> Severity(e), count |-> votes[e],
                   related |-> {e}, at |-> now]
<1>1. new \in Incident
  BY SeverityType DEF Incident, TypeOK
<1>2. incidents' = IF incidents[e] # None THEN incidents ELSE [incidents EXCEPT ![e] = new]
  BY DEF Create
<1>3. /\ pc' \in [Events -> Places] /\ pc'[e] = "mirror"
      /\ \A f \in Events : f # e => pc'[f] = pc[f]
  BY GotoType DEF Create, Places
<1>4. /\ incidents' \in [Events -> Incident \cup {None}]
      /\ \A i \in Events : i # e => incidents'[i] = incidents[i]
      /\ incidents[e] = None => incidents'[e] = new
      /\ incidents[e] # None => incidents'[e] = incidents[e]
  BY <1>1, <1>2 DEF TypeOK
<1>5. TypeOK'
  BY <1>3, <1>4, OverlapsType DEF Create, TypeOK, reads, env
<1>6. incidents'[e] # None
  BY <1>1, <1>4, NoneAssumption
<1>7. Opened' = Opened \cup {e}
  BY <1>4, <1>6 DEF Opened
<1> QED
  BY <1>3, <1>4, <1>5, <1>7

LEMMA AbandonFoldingType ==
  ASSUME TypeOK, NEW e \in Events, AbandonFolding(e)
  PROVE  TypeOK'
<1>1. pc' \in [Events -> Places]
  BY GotoType DEF AbandonFolding, Places
<1>2. faults' \in Nat /\ swallowed' \subseteq Events
  BY BudgetType DEF AbandonFolding
<1> QED
  BY <1>1, <1>2 DEF AbandonFolding, TypeOK, store, reads

LEMMA MirrorType ==
  ASSUME TypeOK, NEW e \in Events, Mirror(e)
  PROVE  TypeOK'
<1>1. pc' \in [Events -> Places]
  BY GotoType DEF Mirror, Places, Ended
<1>2. faults' \in Nat /\ swallowed' \subseteq Events
  BY BudgetType DEF Mirror
<1>3. mirrored' \subseteq Events
  BY DEF Mirror, TypeOK
<1> QED
  BY <1>1, <1>2, <1>3 DEF Mirror, TypeOK, reads

LEMMA CrashType ==
  ASSUME TypeOK, NEW e \in Events, Crash(e)
  PROVE  TypeOK'
<1>1. pc' \in [Events -> Places]
  BY GotoType DEF Crash, Places, Ended
<1> QED
  BY <1>1 DEF Crash, TypeOK, store, reads, hist

LEMMA TriageType ==
  ASSUME TypeOK, NEW i \in Events, Triage(i)
  PROVE  /\ TypeOK'
         /\ Opened' = Opened
         /\ \A j \in Events : j # i => incidents'[j] = incidents[j]
         /\ \A j \in Opened : /\ incidents'[j].severity = incidents[j].severity
                              /\ incidents'[j].count = incidents[j].count
                              /\ incidents'[j].related = incidents[j].related
                              /\ incidents'[j].at = incidents[j].at
<1>1. PICK s \in {"open", "closed"} : incidents' = [incidents EXCEPT ![i].status = s]
  BY DEF Triage
<1>2. i \in Opened /\ incidents[i] \in Incident
  BY DEF Triage, Opened, TypeOK
<1>3. [incidents[i] EXCEPT !.status = s] \in Incident
  BY <1>2 DEF Incident
<1>4. /\ incidents'[i] = [incidents[i] EXCEPT !.status = s]
      /\ \A j \in Events : j # i => incidents'[j] = incidents[j]
  BY <1>1 DEF TypeOK
<1>5. incidents' \in [Events -> Incident \cup {None}]
  BY <1>1, <1>3 DEF TypeOK
<1>6. Opened' = Opened
  BY <1>2, <1>3, <1>4, NoneAssumption DEF Opened
<1>7. /\ incidents'[i].severity = incidents[i].severity
      /\ incidents'[i].count = incidents[i].count
      /\ incidents'[i].related = incidents[i].related
      /\ incidents'[i].at = incidents[i].at
  BY <1>2, <1>4 DEF Incident
<1>8. TypeOK'
  BY <1>5 DEF Triage, TypeOK, task, reads
<1> QED
  BY <1>4, <1>6, <1>7, <1>8 DEF Opened

LEMMA TickType == TypeOK /\ Tick => TypeOK'
  BY DEF Tick, TypeOK, store, task, reads, hist

-----------------------------------------------------------------------------
(* Steps that concern no incident *)

\* The steps of a task that neither look for an incident nor write one.
Quiet(e) == \/ Submit(e) \/ Evaluate(e) \/ Save(e) \/ GiveUp(e) \/ Dedupe(e)
            \/ AbandonFolding(e) \/ Mirror(e) \/ Crash(e)

LEMMA QuietType ==
  ASSUME TypeOK, Started, NEW e \in Events, Quiet(e)
  PROVE  TypeOK'
  BY SubmitType, EvaluateType, SaveType, GiveUpType, DedupeType, AbandonFoldingType,
     MirrorType, CrashType DEF Quiet

\* They leave the incidents, the reads and the clock alone, and a task that is
\* past its decision stays past it.
LEMMA QuietFrame ==
  ASSUME TypeOK, Started, NEW e \in Events, Quiet(e)
  PROVE  /\ UNCHANGED <<incidents, found, overlap, since, now, touched>>
         /\ \A f \in Events : f # e => pc'[f] = pc[f]
         /\ pc'[e] \notin {"idle", "coalesce", "create"}
         /\ pc[e] \in Settled => pc'[e] \in Settled
<1>1. UNCHANGED <<incidents, found, overlap, since, now, touched>>
  BY DEF Quiet, Submit, Evaluate, Save, GiveUp, Dedupe, AbandonFolding, Mirror, Crash,
         store, reads, env, hist
<1>2. CASE Submit(e)
  <2>1. pc[e] = "idle"
    BY <1>2 DEF Submit, Started
  <2> QED
    BY <1>1, <1>2, <2>1, GotoType DEF Submit, Places, Settled
<1>3. CASE Evaluate(e)
  <2>1. CASE Stumble(e)
    BY <1>1, <1>3, <2>1, StumbleType DEF Evaluate, Settled
  <2>2. CASE Goto(e, "save")
    BY <1>1, <1>3, <2>2, GotoType DEF Evaluate, Places, Settled
  <2> QED
    BY <1>3, <2>1, <2>2 DEF Evaluate
<1>4. CASE Save(e)
  <2>1. CASE Stumble(e)
    BY <1>1, <1>4, <2>1, StumbleType DEF Save, Settled
  <2>2. CASE Goto(e, IF Level[e] = 0 THEN "mirror" ELSE "dedupe")
    <3>1. (IF Level[e] = 0 THEN "mirror" ELSE "dedupe") \in {"mirror", "dedupe"}
      OBVIOUS
    <3>2. (IF Level[e] = 0 THEN "mirror" ELSE "dedupe") \in Places
      BY DEF Places, Folding
    <3> QED
      BY <1>1, <1>4, <2>2, <3>1, <3>2, GotoType DEF Save, Settled
  <2> QED
    BY <1>4, <2>1, <2>2 DEF Save
<1>5. CASE GiveUp(e)
  BY <1>1, <1>5, GotoType DEF GiveUp, Places, Ended, Settled
<1>6. CASE Dedupe(e)
  <2>1. (IF Folded(e) THEN "mirror" ELSE "count") \in {"mirror", "count"}
    OBVIOUS
  <2>2. (IF Folded(e) THEN "mirror" ELSE "count") \in Places
    BY DEF Places, Folding
  <2> QED
    BY <1>1, <1>6, <2>1, <2>2, GotoType DEF Dedupe, Settled
<1>7. CASE AbandonFolding(e)
  BY <1>1, <1>7, GotoType DEF AbandonFolding, Places, Settled
<1>8. CASE Mirror(e)
  BY <1>1, <1>8, GotoType DEF Mirror, Places, Ended, Settled
<1>9. CASE Crash(e)
  BY <1>1, <1>9, GotoType DEF Crash, Places, Ended, Settled
<1> QED
  BY <1>2, <1>3, <1>4, <1>5, <1>6, <1>7, <1>8, <1>9 DEF Quiet

\* A document, once there, stays.
LEMMA QuietStarted ==
  ASSUME TypeOK, Started, NEW e \in Events, Quiet(e)
  PROVE  Started'
<1>1. \A f \in Events : f # e => pc'[f] = pc[f]
  BY QuietFrame
<1>2. docs'[e] # None
  <2>1. CASE Submit(e)
    <3>1. [status |-> "pending", blocked |-> Reported[e] = "blocked", at |-> now,
           matched |-> 0] \in Doc
      <4>1. (Reported[e] = "blocked") \in BOOLEAN
        OBVIOUS
      <4> QED
        BY <4>1 DEF Doc, TypeOK
    <3> QED
      BY <2>1, <3>1, NoneAssumption DEF Submit, TypeOK
  <2>2. CASE ~Submit(e)
    <3>1. pc[e] # "idle"
      BY <2>2 DEF Quiet, Evaluate, Save, GiveUp, Dedupe, AbandonFolding, Mirror, Crash,
                  Folding, Ended
    <3>2. docs[e] \in Doc
      BY <3>1 DEF Started, TypeOK
    <3>3. CASE docs' = docs
      BY <3>2, <3>3, NoneAssumption
    <3>4. CASE Save(e)
      <4>1. Verdict(e) \in BOOLEAN
        BY DEF Verdict
      <4>2. [docs[e] EXCEPT !.status = "completed", !.blocked = Verdict(e),
                            !.matched = matches[e]] \in Doc
        BY <3>2, <4>1 DEF Doc, TypeOK
      <4> QED
        BY <3>2, <3>4, <4>2, NoneAssumption DEF Save, TypeOK
    <3>5. CASE GiveUp(e)
      <4>1. [docs[e] EXCEPT !.status = "failed"] \in Doc
        BY <3>2 DEF Doc
      <4> QED
        BY <3>2, <3>5, <4>1, NoneAssumption DEF GiveUp, TypeOK
    <3> QED
      BY <2>2, <3>3, <3>4, <3>5 DEF Quiet, Evaluate, Dedupe, AbandonFolding, Mirror, Crash, store
  <2> QED
    BY <2>1, <2>2
<1>3. \A f \in Events : f # e => docs'[f] = docs[f]
  BY DEF Quiet, Submit, Evaluate, Save, GiveUp, Dedupe, AbandonFolding, Mirror, Crash,
         store, TypeOK
<1> QED
  BY <1>1, <1>2, <1>3 DEF Started

LEMMA QuietPreserves ==
  ASSUME IInv, NEW e \in Events, Quiet(e)
  PROVE  IInv'
<1>1. /\ UNCHANGED <<incidents, found, overlap, since, now, touched>>
      /\ \A f \in Events : f # e => pc'[f] = pc[f]
      /\ pc'[e] \notin {"idle", "coalesce", "create"}
      /\ pc[e] \in Settled => pc'[e] \in Settled
  BY QuietFrame DEF IInv
<1>2. Opened' = Opened
  BY <1>1 DEF Opened
<1>3. TypeOK' /\ Started'
  BY QuietType, QuietStarted DEF IInv
<1>4. \A f \in Events : pc[f] \in Settled => pc'[f] \in Settled
  BY <1>1
<1>5. Placed'
  <2>1. \A i \in Opened : incidents[i].related \subseteq Events
    BY DEF IInv, TypeOK, Opened, Incident
  <2> QED
    BY <1>1, <1>2, <1>4, <2>1 DEF IInv, Placed, Opened
<1>6. Snapped'
  BY <1>1, <1>2 DEF IInv, Snapped
<1>7. Dated'
  BY <1>1, <1>2 DEF IInv, Dated
<1>8. Missed'
  BY <1>1, <1>2 DEF IInv, Missed
<1>9. SplitOnlyByRace'
  BY <1>1, <1>2 DEF IInv, SplitOnlyByRace
<1> QED
  BY <1>3, <1>5, <1>6, <1>7, <1>8, <1>9 DEF IInv

-----------------------------------------------------------------------------
(* Steps that look for an incident or write one *)

\* Incidents and what they hold are events, with natural dates.
LEMMA OpenedFacts ==
  ASSUME TypeOK
  PROVE  /\ Opened \subseteq Events
         /\ \A i \in Opened : /\ incidents[i].related \subseteq Events
                              /\ incidents[i].at \in Nat
                              /\ incidents[i].severity \in Nat
                              /\ incidents[i].count \in Nat
                              /\ incidents[i].status \in {"open", "closed"}
  BY DEF TypeOK, Opened, Incident

LEMMA CountPreserves ==
  ASSUME IInv, NEW e \in Events, Count(e)
  PROVE  IInv'
<1>1. TypeOK'
  BY CountType DEF IInv
<1>2. /\ UNCHANGED <<docs, incidents, found, overlap, now, touched>>
      /\ pc[e] = "count" /\ pc'[e] = "find"
      /\ \A f \in Events : f # e => pc'[f] = pc[f] /\ since'[f] = since[f]
      /\ since'[e] = now
  BY GotoType DEF Count, IInv, TypeOK, store, env, hist, Places, Folding
<1>3. Opened' = Opened
  BY <1>2 DEF Opened
<1>4. Started'
  BY <1>2 DEF IInv, Started
<1>5. Placed'
  <2>1. \A f \in Events : pc[f] \in Settled => pc'[f] \in Settled
    BY <1>2 DEF Settled
  <2> QED
    BY <1>2, <1>3, <2>1, OpenedFacts DEF IInv, Placed
<1>6. Snapped'
  BY <1>2, <1>3 DEF IInv, Snapped
<1>7. Dated'
  <2>1. now \in Nat
    BY DEF IInv, TypeOK
  <2> QED
    BY <1>2, <1>3, <2>1 DEF IInv, Dated
<1>8. Missed'
  BY <1>2, <1>3 DEF IInv, Missed
<1>9. SplitOnlyByRace'
  BY <1>2, <1>3 DEF IInv, SplitOnlyByRace
<1> QED
  BY <1>1, <1>4, <1>5, <1>6, <1>7, <1>8, <1>9 DEF IInv

LEMMA FindOpenPreserves ==
  ASSUME IInv, NEW e \in Events, FindOpen(e)
  PROVE  IInv'
<1>1. /\ TypeOK'
      /\ \/ Coalescable(e) = {} /\ pc'[e] = "create" /\ found'[e] = None
         \/ \E i \in Coalescable(e) :
              /\ pc'[e] = "coalesce"
              /\ found'[e] = [id |-> i, severity |-> incidents[i].severity,
                              count |-> incidents[i].count]
      /\ \A f \in Events : f # e => pc'[f] = pc[f] /\ found'[f] = found[f]
  BY FindOpenType DEF IInv
<1>2. /\ UNCHANGED <<docs, incidents, since, now, touched>>
      /\ pc[e] = "find"
      /\ overlap'[e] = {}
      /\ \A f \in Events : f # e => overlap'[f] = overlap[f]
  BY DEF FindOpen, IInv, TypeOK, store, env
<1>3. Opened' = Opened
  BY <1>2 DEF Opened
<1>4. Started'
  BY <1>1, <1>2 DEF IInv, Started
<1>5. e \notin Opened
  BY <1>2 DEF IInv, Placed, Settled
<1>6. Placed'
  <2>1. \A f \in Events : pc[f] \in Settled => pc'[f] \in Settled
    BY <1>1, <1>2 DEF Settled
  <2> QED
    BY <1>2, <1>3, <2>1, OpenedFacts DEF IInv, Placed
<1>7. Snapped'
  <2> SUFFICES ASSUME NEW f \in Events, pc'[f] = "coalesce"
               PROVE  /\ found'[f] \in Snapshot
                      /\ found'[f].id \in Opened
                      /\ UserOf[found'[f].id] = UserOf[f]
                      /\ \/ overlap'[f] \cap incidents[found'[f].id].related # {}
                         \/ /\ found'[f].severity = incidents[found'[f].id].severity
                            /\ found'[f].count = incidents[found'[f].id].count
    BY <1>2, <1>3 DEF Snapped
  <2>1. CASE f = e
    <3>1. PICK i \in Coalescable(e) :
            found'[e] = [id |-> i, severity |-> incidents[i].severity,
                         count |-> incidents[i].count]
      BY <1>1, <2>1
    <3>2. i \in Opened /\ UserOf[i] = UserOf[e]
      BY DEF Coalescable
    <3> QED
      BY <2>1, <3>1, <3>2, OpenedFacts DEF IInv, Snapshot
  <2>2. CASE f # e
    BY <1>1, <1>2, <2>2 DEF IInv, Snapped
  <2> QED
    BY <2>1, <2>2
<1>8. Dated'
  BY <1>2, <1>3 DEF IInv, Dated
<1>9. Missed'
  <2> SUFFICES ASSUME NEW f \in Events, pc'[f] = "create", NEW i \in Opened,
                      UserOf[i] = UserOf[f], since[f] <= incidents[i].at + Window
               PROVE  i \in overlap'[f] \/ i \in touched
    BY <1>2, <1>3 DEF Missed
  <2>1. CASE f = e
    <3>1. i \notin Coalescable(e)
      BY <1>1, <2>1
    <3>2. since[e] \in Nat /\ incidents[i].at + Window \in Nat
      BY OpenedFacts, LimitsAssumption DEF IInv, TypeOK
    <3>3. incidents[i].status # "open"
      BY <2>1, <3>1, <3>2 DEF Coalescable
    <3> QED
      BY <3>3, OpenedFacts DEF IInv, Dated
  <2>2. CASE f # e
    BY <1>1, <1>2, <2>2 DEF IInv, Missed
  <2> QED
    BY <2>1, <2>2
<1>10. SplitOnlyByRace'
  <2>1. \A i \in Opened : overlap'[i] = overlap[i]
    BY <1>2, <1>5, OpenedFacts DEF IInv
  <2> QED
    BY <1>2, <1>3, <2>1 DEF IInv, SplitOnlyByRace
<1> QED
  BY <1>1, <1>4, <1>6, <1>7, <1>8, <1>9, <1>10 DEF IInv

\* A write leaves the overlap of its own task and only adds to the others',
\* the writer among them if they are between find and write.
LEMMA OverlapsFrame ==
  ASSUME TypeOK, NEW e \in Events, Overlaps(e)
  PROVE  /\ \A f \in Events : overlap[f] \subseteq overlap'[f]
         /\ \A f \in Events : f # e /\ pc[f] \in {"coalesce", "create"} => e \in overlap'[f]
  BY DEF Overlaps, TypeOK

LEMMA CoalescePreserves ==
  ASSUME IInv, NEW e \in Events, Coalesce(e)
  PROVE  IInv'
<1> DEFINE k == found[e].id
<1>1. /\ TypeOK'
      /\ pc'[e] = "mirror"
      /\ \A f \in Events : f # e => pc'[f] = pc[f]
      /\ Opened' = Opened
      /\ incidents'[k] = [incidents[k] EXCEPT
                            !.severity = AtLeast(found[e].severity, Severity(e)),
                            !.count = AtLeast(votes[e], found[e].count + 1),
                            !.related = @ \cup {e}]
      /\ \A i \in Events : i # k => incidents'[i] = incidents[i]
  BY CoalesceType DEF IInv
<1>2. /\ UNCHANGED <<docs, found, since, now, touched>>
      /\ pc[e] = "coalesce"
      /\ Overlaps(e)
  BY DEF Coalesce, reads, env
<1>3. k \in Opened /\ UserOf[k] = UserOf[e] /\ incidents[k] \in Incident
  BY <1>2 DEF IInv, Snapped, Opened, TypeOK
<1>4. /\ incidents'[k].related = incidents[k].related \cup {e}
      /\ incidents'[k].at = incidents[k].at
      /\ incidents'[k].status = incidents[k].status
  BY <1>1, <1>3 DEF Incident
<1>5. \A i \in Opened : /\ incidents[i].related \subseteq incidents'[i].related
                        /\ incidents'[i].related \subseteq incidents[i].related \cup {e}
                        /\ incidents'[i].at = incidents[i].at
                        /\ incidents'[i].status = incidents[i].status
  BY <1>1, <1>4, OpenedFacts DEF IInv
<1>6. Started'
  BY <1>1, <1>2 DEF IInv, Started
<1>7. \A f \in Events : pc[f] \in Settled => pc'[f] \in Settled
  BY <1>1 DEF Settled
<1>8. Placed'
  <2>1. \A i \in Opened : pc'[i] \in Settled
    BY <1>7, OpenedFacts DEF IInv, Placed
  <2>2. \A i \in Opened : \A f \in incidents'[i].related :
          pc'[f] \in Settled /\ UserOf[f] = UserOf[i]
    <3> SUFFICES ASSUME NEW i \in Opened, NEW f \in incidents'[i].related
                 PROVE  pc'[f] \in Settled /\ UserOf[f] = UserOf[i]
      OBVIOUS
    <3>1. CASE f \in incidents[i].related
      BY <1>7, <3>1, OpenedFacts DEF IInv, Placed
    <3>2. CASE f \notin incidents[i].related
      <4>1. f = e
        BY <1>5, <3>2
      <4>2. i = k
        BY <1>1, <3>2, OpenedFacts DEF IInv
      <4> QED
        BY <1>1, <1>3, <4>1, <4>2 DEF Settled
    <3> QED
      BY <3>1, <3>2
  <2>3. \A i \in Opened : e \notin incidents[i].related
    BY <1>2 DEF IInv, Placed, Settled
  <2>4. \A i \in Opened : i # k => incidents'[i].related = incidents[i].related
    BY <1>1, OpenedFacts DEF IInv
  <2>5. \A i, j \in Opened : i # j => incidents'[i].related \cap incidents'[j].related = {}
    BY <1>4, <2>3, <2>4 DEF IInv, Placed
  <2> QED
    BY <1>1, <2>1, <2>2, <2>5 DEF Placed
<1>9. Snapped'
  <2> SUFFICES ASSUME NEW f \in Events, pc'[f] = "coalesce"
               PROVE  /\ found[f] \in Snapshot
                      /\ found[f].id \in Opened
                      /\ UserOf[found[f].id] = UserOf[f]
                      /\ \/ overlap'[f] \cap incidents'[found[f].id].related # {}
                         \/ /\ found[f].severity = incidents'[found[f].id].severity
                            /\ found[f].count = incidents'[found[f].id].count
    BY <1>1, <1>2 DEF Snapped
  <2>1. f # e /\ pc[f] = "coalesce"
    BY <1>1
  <2>2. /\ found[f] \in Snapshot
        /\ found[f].id \in Opened
        /\ UserOf[found[f].id] = UserOf[f]
        /\ \/ overlap[f] \cap incidents[found[f].id].related # {}
           \/ /\ found[f].severity = incidents[found[f].id].severity
              /\ found[f].count = incidents[found[f].id].count
    BY <2>1 DEF IInv, Snapped
  <2>3. overlap[f] \subseteq overlap'[f] /\ e \in overlap'[f]
    BY <1>2, <2>1, OverlapsFrame DEF IInv
  <2>4. CASE found[f].id = k
    BY <1>4, <2>2, <2>3, <2>4
  <2>5. CASE found[f].id # k
    <3>1. incidents'[found[f].id] = incidents[found[f].id]
      BY <1>1, <2>2, <2>5, OpenedFacts DEF IInv
    <3> QED
      BY <2>2, <2>3, <3>1
  <2> QED
    BY <2>4, <2>5
<1>10. Dated'
  BY <1>1, <1>2, <1>5 DEF IInv, Dated
<1>11. Missed'
  <2> SUFFICES ASSUME NEW f \in Events, pc'[f] = "create", NEW i \in Opened,
                      UserOf[i] = UserOf[f], since[f] <= incidents'[i].at + Window
               PROVE  i \in overlap'[f] \/ i \in touched
    BY <1>1, <1>2 DEF Missed
  <2>1. pc[f] = "create"
    BY <1>1
  <2>2. i \in overlap[f] \/ i \in touched
    BY <1>5, <2>1 DEF IInv, Missed
  <2> QED
    BY <1>2, <2>2, OverlapsFrame DEF IInv
<1>12. SplitOnlyByRace'
  <2>1. \A i \in Opened : overlap[i] \subseteq overlap'[i]
    BY <1>2, OverlapsFrame, OpenedFacts DEF IInv
  <2> QED
    BY <1>1, <1>2, <1>5, <2>1 DEF IInv, SplitOnlyByRace
<1> QED
  BY <1>1, <1>6, <1>8, <1>9, <1>10, <1>11, <1>12 DEF IInv

LEMMA CreatePreserves ==
  ASSUME IInv, NEW e \in Events, Create(e)
  PROVE  IInv'
<1>1. /\ TypeOK'
      /\ pc'[e] = "mirror"
      /\ \A f \in Events : f # e => pc'[f] = pc[f]
      /\ \A i \in Events : i # e => incidents'[i] = incidents[i]
      /\ Opened' = Opened \cup {e}
      /\ incidents[e] = None =>
           incidents'[e] = [status |-> "open", severity |-> Severity(e), count |-> votes[e],
                            related |-> {e}, at |-> now]
  BY CreateType DEF IInv
<1>2. /\ UNCHANGED <<docs, found, since, now, touched>>
      /\ pc[e] = "create"
      /\ Overlaps(e)
  BY DEF Create, reads, env
<1>3. e \notin Opened
  BY <1>2 DEF IInv, Placed, Settled
<1>4. /\ incidents'[e].status = "open"
      /\ incidents'[e].related = {e}
      /\ incidents'[e].at = now
  BY <1>1, <1>3 DEF Opened
<1>5. \A i \in Opened : i # e /\ incidents'[i] = incidents[i]
  BY <1>1, <1>3, OpenedFacts DEF IInv
<1>6. Started'
  BY <1>1, <1>2 DEF IInv, Started
<1>7. Placed'
  <2>1. \A f \in Events : pc[f] \in Settled => pc'[f] \in Settled
    BY <1>1 DEF Settled
  <2>2. \A i \in Opened' : pc'[i] \in Settled
    BY <1>1, <2>1, OpenedFacts DEF IInv, Placed, Settled
  <2>3. \A i \in Opened' : \A f \in incidents'[i].related :
          pc'[f] \in Settled /\ UserOf[f] = UserOf[i]
    BY <1>1, <1>4, <1>5, <2>1, OpenedFacts DEF IInv, Placed, Settled
  <2>4. \A i \in Opened : e \notin incidents[i].related
    BY <1>2 DEF IInv, Placed, Settled
  <2>5. \A i, j \in Opened' : i # j => incidents'[i].related \cap incidents'[j].related = {}
    BY <1>1, <1>4, <1>5, <2>4 DEF IInv, Placed
  <2> QED
    BY <2>2, <2>3, <2>5 DEF Placed
<1>8. Snapped'
  <2> SUFFICES ASSUME NEW f \in Events, pc'[f] = "coalesce"
               PROVE  /\ found[f] \in Snapshot
                      /\ found[f].id \in Opened'
                      /\ UserOf[found[f].id] = UserOf[f]
                      /\ \/ overlap'[f] \cap incidents'[found[f].id].related # {}
                         \/ /\ found[f].severity = incidents'[found[f].id].severity
                            /\ found[f].count = incidents'[found[f].id].count
    BY <1>2 DEF Snapped
  <2>1. f # e /\ pc[f] = "coalesce"
    BY <1>1
  <2>2. overlap[f] \subseteq overlap'[f]
    BY <1>2, OverlapsFrame DEF IInv
  <2> QED
    BY <1>1, <1>5, <2>1, <2>2 DEF IInv, Snapped
<1>9. Dated'
  <2>1. now \in Nat
    BY DEF IInv, TypeOK
  <2> QED
    BY <1>1, <1>2, <1>4, <1>5, <2>1 DEF IInv, Dated
<1>10. Missed'
  <2> SUFFICES ASSUME NEW f \in Events, pc'[f] = "create", NEW i \in Opened',
                      UserOf[i] = UserOf[f], since[f] <= incidents'[i].at + Window
               PROVE  i \in overlap'[f] \/ i \in touched
    BY <1>2 DEF Missed
  <2>1. f # e /\ pc[f] = "create"
    BY <1>1
  <2>2. overlap[f] \subseteq overlap'[f] /\ e \in overlap'[f]
    BY <1>2, <2>1, OverlapsFrame DEF IInv
  <2>3. CASE i \in Opened
    BY <1>5, <2>1, <2>2, <2>3 DEF IInv, Missed
  <2> QED
    BY <1>1, <2>2, <2>3
<1>11. SplitOnlyByRace'
  <2>1. \A i \in Opened : overlap[i] \subseteq overlap'[i]
    BY <1>2, OverlapsFrame, OpenedFacts DEF IInv
  <2>2. overlap[e] \subseteq overlap'[e]
    BY <1>2, OverlapsFrame DEF IInv
  <2>3. ASSUME NEW i \in Opened, UserOf[i] = UserOf[e], now <= incidents[i].at + Window
        PROVE  i \in overlap'[e] \/ i \in touched
    <3>1. since[e] <= incidents[i].at + Window
      <4>1. since[e] <= now /\ since[e] \in Nat /\ now \in Nat
        BY DEF IInv, Dated, TypeOK
      <4>2. incidents[i].at + Window \in Nat
        BY OpenedFacts, LimitsAssumption DEF IInv
      <4> QED
        BY <2>3, <4>1, <4>2
    <3> QED
      BY <1>2, <2>2, <2>3, <3>1 DEF IInv, Missed
  <2> SUFFICES ASSUME NEW i \in Opened', NEW j \in Opened', i # j, UserOf[i] = UserOf[j],
                      incidents'[i].at <= incidents'[j].at,
                      incidents'[j].at <= incidents'[i].at + Window
               PROVE  i \in overlap'[j] \/ j \in overlap'[i] \/ {i, j} \cap touched' # {}
    BY DEF SplitOnlyByRace
  <2>4. CASE i \in Opened /\ j \in Opened
    <3>1. incidents'[i] = incidents[i] /\ incidents'[j] = incidents[j]
      BY <1>5, <2>4
    <3>2. i \in overlap[j] \/ j \in overlap[i] \/ {i, j} \cap touched # {}
      BY <2>4, <3>1 DEF IInv, SplitOnlyByRace
    <3> QED
      BY <1>2, <2>1, <2>4, <3>2
  <2>5. CASE i \in Opened /\ j = e
    <3>1. now <= incidents[i].at + Window
      BY <1>4, <1>5, <2>5
    <3>2. i \in overlap'[e] \/ i \in touched
      BY <2>3, <2>5, <3>1
    <3> QED
      BY <1>2, <2>5, <3>2
  <2>6. CASE j \in Opened /\ i = e
    <3>1. now <= incidents[j].at + Window
      <4>1. now <= incidents[j].at
        BY <1>4, <1>5, <2>6
      <4>2. now \in Nat /\ incidents[j].at \in Nat /\ Window \in Nat
        BY <2>6, OpenedFacts, LimitsAssumption DEF IInv, TypeOK
      <4> QED
        BY <4>1, <4>2
    <3>2. j \in overlap'[e] \/ j \in touched
      BY <2>3, <2>6, <3>1
    <3> QED
      BY <1>2, <2>6, <3>2
  <2> QED
    BY <1>1, <2>4, <2>5, <2>6
<1> QED
  BY <1>1, <1>6, <1>7, <1>8, <1>9, <1>10, <1>11 DEF IInv

LEMMA TriagePreserves ==
  ASSUME IInv, NEW k \in Events, Triage(k)
  PROVE  IInv'
<1>1. /\ TypeOK'
      /\ Opened' = Opened
      /\ \A j \in Events : j # k => incidents'[j] = incidents[j]
      /\ \A j \in Opened : /\ incidents'[j].severity = incidents[j].severity
                           /\ incidents'[j].count = incidents[j].count
                           /\ incidents'[j].related = incidents[j].related
                           /\ incidents'[j].at = incidents[j].at
  BY TriageType DEF IInv
<1>2. UNCHANGED <<docs, pc, found, since, now, overlap>> /\ touched' = touched \cup {k}
  BY DEF Triage, task, reads
<1>3. Started'
  BY <1>2 DEF IInv, Started
<1>4. Placed'
  BY <1>1, <1>2 DEF IInv, Placed
<1>5. Snapped'
  BY <1>1, <1>2 DEF IInv, Snapped
<1>6. Dated'
  <2>1. \A i \in Opened : incidents'[i].status = "closed" => i \in touched'
    BY <1>1, <1>2, OpenedFacts DEF IInv, Dated
  <2> QED
    BY <1>1, <1>2, <2>1 DEF IInv, Dated
<1>7. Missed'
  BY <1>1, <1>2 DEF IInv, Missed
<1>8. SplitOnlyByRace'
  BY <1>1, <1>2 DEF IInv, SplitOnlyByRace
<1> QED
  BY <1>1, <1>3, <1>4, <1>5, <1>6, <1>7, <1>8 DEF IInv

LEMMA TickPreserves ==
  ASSUME IInv, Tick
  PROVE  IInv'
<1>1. UNCHANGED <<docs, incidents, pc, found, since, overlap, touched>> /\ now' = now + 1
  BY DEF Tick, store, task, reads, hist
<1>2. Opened' = Opened
  BY <1>1 DEF Opened
<1>3. TypeOK'
  BY TickType DEF IInv
<1>4. Started' /\ Placed' /\ Snapped' /\ Missed' /\ SplitOnlyByRace'
  BY <1>1, <1>2 DEF IInv, Started, Placed, Snapped, Missed, SplitOnlyByRace
<1>5. Dated'
  <2>1. now \in Nat /\ \A e \in Events : since[e] \in Nat
    BY DEF IInv, TypeOK
  <2> QED
    BY <1>1, <1>2, <2>1, OpenedFacts DEF IInv, Dated
<1> QED
  BY <1>3, <1>4, <1>5 DEF IInv

-----------------------------------------------------------------------------
(* What is owed for an event *)

\* What an incident holds it keeps.
LEMMA FoldedStays ==
  ASSUME IInv, [Next]_vars, NEW f \in Events, Folded(f)
  PROVE  Folded(f)'
<1>1. ASSUME \A i \in Opened : i \in Opened' /\ incidents[i].related \subseteq incidents'[i].related
      PROVE  Folded(f)'
  BY <1>1 DEF Folded
<1>2. CASE UNCHANGED incidents
  BY <1>1, <1>2 DEF Opened
<1>3. ASSUME NEW e \in Events, Coalesce(e)
      PROVE  Folded(f)'
  <2>1. /\ Opened' = Opened
        /\ incidents'[found[e].id] =
             [incidents[found[e].id] EXCEPT
                !.severity = AtLeast(found[e].severity, Severity(e)),
                !.count = AtLeast(votes[e], found[e].count + 1),
                !.related = @ \cup {e}]
        /\ \A i \in Events : i # found[e].id => incidents'[i] = incidents[i]
    BY <1>3, CoalesceType DEF IInv
  <2>2. found[e].id \in Opened /\ incidents[found[e].id] \in Incident
    BY <1>3 DEF Coalesce, IInv, Snapped, Opened, TypeOK
  <2>3. incidents'[found[e].id].related = incidents[found[e].id].related \cup {e}
    BY <2>1, <2>2 DEF Incident
  <2> QED
    BY <1>1, <2>1, <2>3, OpenedFacts DEF IInv
<1>4. ASSUME NEW e \in Events, Create(e)
      PROVE  Folded(f)'
  <2>1. /\ Opened' = Opened \cup {e}
        /\ \A i \in Events : i # e => incidents'[i] = incidents[i]
        /\ incidents[e] # None => incidents'[e] = incidents[e]
    BY <1>4, CreateType DEF IInv
  <2> QED
    BY <1>1, <2>1 DEF Opened
<1>5. ASSUME NEW k \in Events, Triage(k)
      PROVE  Folded(f)'
  BY <1>1, <1>5, TriageType DEF IInv
<1>6. CASE \E e \in Events : Quiet(e)
  BY <1>2, <1>6, QuietFrame DEF IInv
<1>7. CASE \E e \in Events : Count(e) \/ FindOpen(e)
  BY <1>2, <1>7 DEF Count, FindOpen, store
<1>8. CASE Tick
  BY <1>2, <1>8 DEF Tick, store
<1>9. CASE UNCHANGED vars
  BY <1>2, <1>9 DEF vars, store
<1> QED
  BY <1>3, <1>4, <1>5, <1>6, <1>7, <1>8, <1>9 DEF Next, Run, Quiet

\* A step that is the task's of e, at most.
Only(e) ==
  /\ \A f \in Events : f # e =>
       /\ pc'[f] = pc[f] /\ docs'[f] = docs[f] /\ alerts'[f] = alerts[f]
       /\ attempt'[f] = attempt[f] /\ matches'[f] = matches[f]
  /\ swallowed \subseteq swallowed' /\ mirrored \subseteq mirrored'

LEMMA RunMovesOne ==
  ASSUME TypeOK, NEW e \in Events, Submit(e) \/ Run(e) \/ Crash(e)
  PROVE  Only(e)
<1>1. CASE Submit(e)
  BY <1>1 DEF Only, TypeOK, Submit, Goto, reads, env, hist
<1>2. CASE Evaluate(e)
  BY <1>2 DEF Only, TypeOK, Evaluate, Stumble, Goto, Fault, Swallow, NoFault
<1>3. CASE Save(e)
  BY <1>3 DEF Only, TypeOK, Save, Stumble, Goto, reads, hist
<1>4. CASE GiveUp(e)
  BY <1>4 DEF Only, TypeOK, GiveUp, Goto, Swallow, NoFault, reads
<1>5. CASE Dedupe(e) \/ Count(e) \/ FindOpen(e)
  BY <1>5 DEF Only, TypeOK, Dedupe, Count, FindOpen, Goto, store, reads, env, hist
<1>6. CASE Coalesce(e) \/ Create(e)
  BY <1>6 DEF Only, TypeOK, Coalesce, Create, Goto, reads
<1>7. CASE AbandonFolding(e)
  BY <1>7 DEF Only, TypeOK, AbandonFolding, Goto, Swallow, store, reads
<1>8. CASE Mirror(e)
  BY <1>8 DEF Only, TypeOK, Mirror, Goto, Swallow, NoFault, reads
<1>9. CASE Crash(e)
  BY <1>9 DEF Only, TypeOK, Crash, Goto, store, reads, hist
<1> QED
  BY <1>1, <1>2, <1>3, <1>4, <1>5, <1>6, <1>7, <1>8, <1>9 DEF Run

\* It is enough to look at the event of that task.
LEMMA OthersStayPaid ==
  ASSUME IInv, Paid, [Next]_vars, NEW e \in Events, Only(e),
         Counted(e)', e \notin swallowed' => Owed(e)'
  PROVE  Paid'
<1> SUFFICES ASSUME NEW f \in Events, f # e
             PROVE  Counted(f)' /\ (f \notin swallowed' => Owed(f)')
  BY DEF Paid
<1>1. /\ pc'[f] = pc[f] /\ docs'[f] = docs[f] /\ alerts'[f] = alerts[f]
      /\ attempt'[f] = attempt[f] /\ matches'[f] = matches[f]
      /\ swallowed \subseteq swallowed' /\ mirrored \subseteq mirrored'
  BY DEF Only
<1>2. Counted(f) /\ (f \notin swallowed => Owed(f))
  BY DEF Paid
<1>3. Counted(f)'
  BY <1>1, <1>2 DEF Counted
<1>4. Recorded(f) => Recorded(f)'
  BY <1>1 DEF Recorded, Verdict
<1>5. Answered(f) => Answered(f)'
  BY <1>1, <1>4, FoldedStays DEF Answered
<1>6. f \notin swallowed' => Owed(f)'
  BY <1>1, <1>2, <1>4, <1>5 DEF Owed
<1> QED
  BY <1>3, <1>6

\* Where the next attempt starts, or the last one ends.
LEMMA StumblePays ==
  ASSUME TypeOK, NEW e \in Events, Stumble(e), matches' = matches, matches[e] <= attempt[e]
  PROVE  Counted(e)' /\ pc'[e] \in {"evaluate", "giveup"}
<1>1. attempt[e] \in Nat /\ matches[e] \in Nat
  BY LimitsAssumption DEF TypeOK
<1>2. CASE attempt[e] < Attempts
  <2>1. attempt'[e] = attempt[e] + 1 /\ pc'[e] = "evaluate"
    BY <1>2 DEF Stumble, Goto, TypeOK
  <2> QED
    BY <1>1, <2>1 DEF Counted
<1>3. CASE ~(attempt[e] < Attempts)
  BY <1>3 DEF Stumble, Goto, TypeOK, Counted
<1> QED
  BY <1>2, <1>3

LEMMA EvaluatePays ==
  ASSUME IInv, Paid, NEW e \in Events, Evaluate(e)
  PROVE  Counted(e)' /\ (e \notin swallowed' => Owed(e)')
<1>1. /\ pc[e] = "evaluate" /\ matches[e] < attempt[e]
      /\ matches[e] \in Nat /\ attempt[e] \in Nat
      /\ e \notin swallowed => alerts[e] = matches[e]
  BY LimitsAssumption DEF Evaluate, Paid, Counted, Owed, IInv, TypeOK
<1>2. CASE Fault /\ Stumble(e) /\ UNCHANGED <<alerts, matches, swallowed>>
  <2>1. Counted(e)' /\ pc'[e] \in {"evaluate", "giveup"}
    BY <1>1, <1>2, StumblePays DEF IInv
  <2> QED
    BY <1>1, <1>2, <2>1 DEF Owed, Folding
<1>3. CASE /\ e \in Matched
           /\ matches' = [matches EXCEPT ![e] = @ + 1]
           /\ \/ alerts' = [alerts EXCEPT ![e] = @ + 1] /\ NoFault
              \/ Swallow(e) /\ UNCHANGED alerts
           /\ Goto(e, "save") /\ UNCHANGED attempt
  <2>1. matches'[e] = matches[e] + 1 /\ attempt'[e] = attempt[e] /\ pc'[e] = "save"
    BY <1>3 DEF Goto, IInv, TypeOK
  <2>2. Counted(e)'
    BY <1>1, <2>1 DEF Counted
  <2>3. e \notin swallowed' => e \notin swallowed /\ alerts'[e] = alerts[e] + 1
    BY <1>3 DEF Swallow, NoFault, IInv, TypeOK
  <2> QED
    BY <1>1, <2>1, <2>2, <2>3 DEF Owed, Folding
<1>4. CASE /\ e \notin Matched
           /\ Goto(e, "save") /\ NoFault /\ UNCHANGED <<alerts, matches, attempt>>
  <2>1. pc'[e] = "save"
    BY <1>4 DEF Goto, IInv, TypeOK
  <2> QED
    BY <1>1, <1>4, <2>1 DEF Counted, Owed, NoFault, Folding
<1> QED
  BY <1>2, <1>3, <1>4 DEF Evaluate

LEMMA SavePays ==
  ASSUME IInv, Paid, NEW e \in Events, Save(e)
  PROVE  Counted(e)' /\ (e \notin swallowed' => Owed(e)')
<1>1. /\ pc[e] = "save" /\ matches[e] <= attempt[e] /\ docs[e] \in Doc
      /\ UNCHANGED <<alerts, incidents, matches, swallowed>>
      /\ e \notin swallowed =>
           alerts[e] = matches[e] /\ (e \in Matched => matches[e] > 0)
  BY DEF Save, Paid, Counted, Owed, IInv, TypeOK, Started, reads, hist
<1>2. CASE Stumble(e)
  <2>1. Counted(e)' /\ pc'[e] \in {"evaluate", "giveup"}
    BY <1>1, <1>2, StumblePays DEF IInv
  <2> QED
    BY <1>1, <2>1 DEF Owed, Folding
<1>3. CASE ~Stumble(e)
  <2> DEFINE next == IF Level[e] = 0 THEN "mirror" ELSE "dedupe"
  <2>1. /\ docs' = [docs EXCEPT ![e].status = "completed", ![e].blocked = Verdict(e),
                                ![e].matched = matches[e]]
        /\ Goto(e, next) /\ UNCHANGED attempt
    BY <1>3 DEF Save
  <2>2. pc'[e] = next
    BY <2>1 DEF Goto, IInv, TypeOK
  <2>3. docs'[e] = [docs[e] EXCEPT !.status = "completed", !.blocked = Verdict(e),
                                   !.matched = matches[e]]
    BY <2>1 DEF IInv, TypeOK
  <2>4. Recorded(e)'
    <3>1. /\ docs'[e].status = "completed"
          /\ docs'[e].blocked = Verdict(e)
          /\ docs'[e].matched = matches'[e]
      BY <1>1, <2>3 DEF Doc
    <3> QED
      BY <3>1 DEF Recorded, Verdict
  <2>5. Counted(e)'
    BY <1>1, <2>1, <2>2 DEF Counted
  <2>6. e \notin swallowed' => Owed(e)'
    <3>1. CASE Level[e] = 0
      BY <1>1, <2>2, <2>4, <3>1 DEF Owed, Answered, Folding
    <3>2. CASE Level[e] # 0
      BY <1>1, <2>2, <2>4, <3>2 DEF Owed, Folding
    <3> QED
      BY <3>1, <3>2
  <2> QED
    BY <2>5, <2>6
<1> QED
  BY <1>2, <1>3

LEMMA GiveUpPays ==
  ASSUME IInv, Paid, NEW e \in Events, GiveUp(e)
  PROVE  Counted(e)' /\ (e \notin swallowed' => Owed(e)')
<1>1. /\ pc[e] = "giveup" /\ pc'[e] = "done"
      /\ UNCHANGED <<alerts, attempt, matches>>
      /\ docs[e] \in Doc
  BY DEF GiveUp, Goto, IInv, TypeOK, Started, reads
<1>2. Counted(e)'
  BY <1>1 DEF Paid, Counted
<1>3. e \notin swallowed' => e \notin swallowed /\ docs'[e].status = "failed"
  BY <1>1 DEF GiveUp, Swallow, NoFault, IInv, TypeOK, Doc
<1> QED
  BY <1>1, <1>2, <1>3 DEF Paid, Owed, Folding

\* Steps that leave the event's records as they are.
LEMMA FoldingPays ==
  ASSUME IInv, Paid, NEW e \in Events, [Next]_vars,
         Dedupe(e) \/ Count(e) \/ FindOpen(e) \/ Coalesce(e) \/ Create(e)
  PROVE  Counted(e)' /\ (e \notin swallowed' => Owed(e)')
<1>1. /\ pc[e] \in Folding
      /\ UNCHANGED <<docs, alerts, attempt, matches, swallowed>>
  BY DEF Dedupe, Count, FindOpen, Coalesce, Create, Folding, store, reads, hist
<1>2. pc'[e] \in Folding \cup {"mirror"}
  BY DEF Dedupe, Count, FindOpen, Coalesce, Create, Folding, Goto, IInv, TypeOK
<1>3. Counted(e)'
  BY <1>1, <1>2 DEF Paid, Counted, Folding
<1>4. Recorded(e) => Recorded(e)'
  BY <1>1 DEF Recorded, Verdict
<1>5. pc'[e] = "mirror" => Folded(e)'
  <2>1. CASE Dedupe(e)
    <3>1. pc'[e] = "mirror" => Folded(e)
      BY <2>1 DEF Dedupe, Goto, IInv, TypeOK
    <3> QED
      BY <3>1, FoldedStays
  <2>2. CASE Count(e) \/ FindOpen(e)
    BY <2>2 DEF Count, FindOpen, Goto, IInv, TypeOK
  <2>3. CASE Coalesce(e)
    <3>1. /\ Opened' = Opened
          /\ incidents'[found[e].id] =
               [incidents[found[e].id] EXCEPT
                  !.severity = AtLeast(found[e].severity, Severity(e)),
                  !.count = AtLeast(votes[e], found[e].count + 1),
                  !.related = @ \cup {e}]
      BY <2>3, CoalesceType DEF IInv
    <3>2. found[e].id \in Opened /\ incidents[found[e].id] \in Incident
      BY <2>3 DEF Coalesce, IInv, Snapped, Opened, TypeOK
    <3>3. e \in incidents'[found[e].id].related
      BY <3>1, <3>2 DEF Incident
    <3> QED
      BY <3>1, <3>2, <3>3 DEF Folded
  <2>4. CASE Create(e)
    <3>1. e \in Opened'
      BY <2>4, CreateType DEF IInv
    <3> QED
      BY <3>1 DEF Folded
  <2> QED
    BY <2>1, <2>2, <2>3, <2>4
<1>6. ASSUME e \notin swallowed'
      PROVE  Owed(e)'
  <2>1. Owed(e)
    BY <1>1, <1>6 DEF Paid
  <2>2. alerts'[e] = matches'[e] /\ (e \in Matched => matches'[e] > 0) /\ Recorded(e)'
    BY <1>1, <1>4, <2>1 DEF Owed
  <2>3. pc'[e] = "mirror" => Answered(e)'
    BY <1>5, <2>2 DEF Answered
  <2> QED
    BY <1>2, <2>2, <2>3 DEF Owed, Folding
<1> QED
  BY <1>3, <1>6

\* Steps that end the task, or the folding with an error.
LEMMA EndingPays ==
  ASSUME IInv, Paid, NEW e \in Events, [Next]_vars,
         AbandonFolding(e) \/ Mirror(e) \/ Crash(e)
  PROVE  Counted(e)' /\ (e \notin swallowed' => Owed(e)')
<1>1. /\ pc[e] # "idle" /\ UNCHANGED <<docs, alerts, attempt, matches>>
      /\ swallowed \subseteq swallowed'
  BY DEF AbandonFolding, Mirror, Crash, Swallow, NoFault, Folding, Ended, store, reads, hist
<1>2. pc'[e] \in {"mirror", "done", "lost"}
  BY DEF AbandonFolding, Mirror, Crash, Goto, IInv, TypeOK
<1>3. Counted(e)'
  BY <1>1, <1>2 DEF Paid, Counted
<1>4. CASE AbandonFolding(e)
  BY <1>3, <1>4 DEF AbandonFolding, Swallow
<1>5. CASE Mirror(e)
  <2>1. pc[e] = "mirror" /\ pc'[e] = "done" /\ (e \notin swallowed' => e \in mirrored')
    BY <1>5 DEF Mirror, Goto, Swallow, NoFault, IInv, TypeOK
  <2>2. ASSUME e \notin swallowed'
        PROVE  Owed(e)'
    <3>1. Owed(e)
      BY <1>1, <2>2 DEF Paid
    <3>2. Answered(e)
      BY <2>1, <3>1 DEF Owed
    <3>3. Answered(e)'
      BY <1>1, <3>2, FoldedStays DEF Answered, Recorded, Verdict
    <3> QED
      BY <1>1, <2>1, <2>2, <3>1, <3>3 DEF Owed, Folding
  <2> QED
    BY <1>3, <2>2
<1>6. CASE Crash(e)
  <2>1. pc'[e] = "lost"
    BY <1>6 DEF Crash, Goto, IInv, TypeOK
  <2> QED
    BY <1>1, <1>3, <2>1 DEF Paid, Owed, Folding
<1> QED
  BY <1>4, <1>5, <1>6

LEMMA SubmitPays ==
  ASSUME IInv, Paid, NEW e \in Events, Submit(e)
  PROVE  Counted(e)' /\ (e \notin swallowed' => Owed(e)')
<1>1. /\ pc[e] = "idle" /\ pc'[e] = "evaluate" /\ attempt'[e] = 1
      /\ UNCHANGED <<alerts, matches, swallowed>>
  BY DEF Submit, Goto, IInv, TypeOK, Started, reads, hist
<1>2. matches[e] = 0
  BY <1>1 DEF Paid, Counted
<1> QED
  BY <1>1, <1>2 DEF Paid, Counted, Owed, Folding

LEMMA NextPaid == IInv /\ Paid /\ [Next]_vars => Paid'
<1> SUFFICES ASSUME IInv, Paid, [Next]_vars PROVE Paid'
  OBVIOUS
<1>1. ASSUME NEW e \in Events, Submit(e) \/ Run(e) \/ Crash(e)
      PROVE  Paid'
  <2>1. Only(e)
    BY <1>1, RunMovesOne DEF IInv
  <2>2. Counted(e)' /\ (e \notin swallowed' => Owed(e)')
    BY <1>1, SubmitPays, EvaluatePays, SavePays, GiveUpPays, FoldingPays, EndingPays DEF Run
  <2> QED
    BY <2>1, <2>2, OthersStayPaid
<1>2. CASE (\E k \in Events : Triage(k)) \/ Tick \/ UNCHANGED vars
  <2>1. UNCHANGED <<docs, alerts, mirrored, pc, attempt, matches, swallowed>>
    BY <1>2 DEF Triage, Tick, vars, store, task, reads, hist
  <2> SUFFICES ASSUME NEW f \in Events
               PROVE  Counted(f)' /\ (f \notin swallowed' => Owed(f)')
    BY DEF Paid
  <2>2. Counted(f)' /\ (f \notin swallowed => Owed(f))
    BY <2>1 DEF Paid, Counted
  <2>3. Recorded(f) => Recorded(f)'
    BY <2>1 DEF Recorded, Verdict
  <2>4. Answered(f) => Answered(f)'
    BY <2>1, <2>3, FoldedStays DEF Answered
  <2> QED
    BY <2>1, <2>2, <2>3, <2>4 DEF Owed
<1> QED
  BY <1>1, <1>2 DEF Next

-----------------------------------------------------------------------------
(* The theorems *)

LEMMA InitInv == Init => IInv
<1> SUFFICES ASSUME Init PROVE IInv
  OBVIOUS
<1>1. TypeOK
  BY InitType
<1>2. Opened = {}
  BY DEF Init, Opened
<1>3. Started /\ Snapped
  BY DEF Init, Started, Snapped
<1>4. Dated /\ Missed /\ Placed /\ SplitOnlyByRace
  BY <1>2 DEF Init, Dated, Missed, Placed, SplitOnlyByRace
<1> QED
  BY <1>1, <1>3, <1>4 DEF IInv

LEMMA NextInv == IInv /\ [Next]_vars => IInv'
<1> SUFFICES ASSUME IInv, [Next]_vars PROVE IInv'
  OBVIOUS
<1>1. CASE \E e \in Events : Quiet(e)
  BY <1>1, QuietPreserves
<1>2. CASE \E e \in Events : Count(e)
  BY <1>2, CountPreserves
<1>3. CASE \E e \in Events : FindOpen(e)
  BY <1>3, FindOpenPreserves
<1>4. CASE \E e \in Events : Coalesce(e)
  BY <1>4, CoalescePreserves
<1>5. CASE \E e \in Events : Create(e)
  BY <1>5, CreatePreserves
<1>6. CASE \E e \in Events : Triage(e)
  BY <1>6, TriagePreserves
<1>7. CASE Tick
  BY <1>7, TickPreserves
<1>8. CASE UNCHANGED vars
  <2>1. UNCHANGED <<docs, incidents, alerts, mirrored, pc, attempt, matches, votes, since, found,
                    now, faults, crashes, triages, swallowed, overlap, touched>>
    BY <1>8 DEF vars, store, task, reads, env, hist
  <2>2. Opened' = Opened
    BY <2>1 DEF Opened
  <2>3. TypeOK'
    BY <2>1 DEF IInv, TypeOK
  <2> QED
    BY <2>1, <2>2, <2>3 DEF IInv, Started, Placed, Snapped, Dated, Missed, SplitOnlyByRace
<1> QED
  BY <1>1, <1>2, <1>3, <1>4, <1>5, <1>6, <1>7, <1>8 DEF Next, Run, Quiet

LEMMA Invariance == Spec => []IInv
  BY InitInv, NextInv, PTL DEF Spec

\* Every variable keeps its type: the documents, reads and budgets of all tasks
\* of _process_event_background, for any number of events.
THEOREM TypeCorrect == Spec => []TypeOK
<1>1. IInv => TypeOK
  BY DEF IInv
<1> QED
  BY <1>1, Invariance, PTL

\* However _auto_create_incident is interleaved, retried or abandoned, no event
\* is counted into two incidents, nor into another user's.
THEOREM OneIncidentPerEventHolds == Spec => []OneIncidentPerEvent
<1>1. IInv => OneIncidentPerEvent
  BY DEF IInv, Placed, OneIncidentPerEvent
<1> QED
  BY <1>1, Invariance, PTL

\* The lookup and the insert of _auto_create_incident split a burst only when
\* two tasks pass each other in between, or an analyst closed the incident.
THEOREM SplitOnlyByRaceHolds == Spec => []SplitOnlyByRace
<1>1. IInv => SplitOnlyByRace
  BY DEF IInv
<1> QED
  BY <1>1, Invariance, PTL

\* An incident's severity and event_count go down only in a coalescing write
\* from a snapshot that another event has overtaken.
THEOREM SlipsOnlyByRaceHolds == Spec => SlipsOnlyByRace
<1> DEFINE Slip(i) == \/ incidents'[i].severity < incidents[i].severity
                      \/ incidents'[i].count < incidents[i].count
           Raced(i) == \E e \in Events : /\ pc[e] = "coalesce" /\ pc'[e] = "mirror"
                                         /\ found[e].id = i
                                         /\ overlap[e] \cap incidents[i].related # {}
<1>1. ASSUME IInv, [Next]_vars, NEW i \in Opened, Slip(i)
      PROVE  Raced(i)
  <2>1. /\ i \in Events
        /\ incidents[i].severity \in Nat /\ incidents[i].count \in Nat
    BY <1>1, OpenedFacts DEF IInv
  <2>2. incidents'[i].severity # incidents[i].severity \/ incidents'[i].count # incidents[i].count
    <3>1. ~(incidents[i].severity < incidents[i].severity)
      BY <2>1
    <3>2. ~(incidents[i].count < incidents[i].count)
      BY <2>1
    <3> QED
      BY <1>1, <3>1, <3>2
  <2>3. incidents'[i] # incidents[i]
    BY <2>2
  <2>4. ASSUME NEW e \in Events, Coalesce(e)
        PROVE  Raced(i)
    <3>1. /\ pc'[e] = "mirror"
          /\ incidents'[found[e].id] =
               [incidents[found[e].id] EXCEPT
                  !.severity = AtLeast(found[e].severity, Severity(e)),
                  !.count = AtLeast(votes[e], found[e].count + 1),
                  !.related = @ \cup {e}]
          /\ \A j \in Events : j # found[e].id => incidents'[j] = incidents[j]
      BY <1>1, <2>4, CoalesceType DEF IInv
    <3>2. found[e].id = i
      BY <2>1, <2>3, <3>1
    <3>3. pc[e] = "coalesce"
      BY <2>4 DEF Coalesce
    <3>4. found[e] \in Snapshot
      BY <1>1, <3>3 DEF IInv, Snapped
    <3>5. incidents[i] \in Incident
      BY <1>1, <2>1 DEF IInv, TypeOK, Opened
    <3>6. /\ incidents'[i].severity = AtLeast(found[e].severity, Severity(e))
          /\ incidents'[i].count = AtLeast(votes[e], found[e].count + 1)
      BY <3>1, <3>2, <3>5 DEF Incident
    <3>7. /\ incidents'[i].severity >= found[e].severity
          /\ incidents'[i].count >= found[e].count
      <4>1. Severity(e) \in Nat /\ votes[e] \in Nat
        BY <1>1, SeverityType DEF IInv, TypeOK
      <4> QED
        BY <3>4, <3>6, <4>1 DEF AtLeast, Snapshot
    <3>8. overlap[e] \cap incidents[i].related # {}
      <4>1. SUFFICES ASSUME overlap[e] \cap incidents[i].related = {} PROVE FALSE
        OBVIOUS
      <4>2. found[e].severity = incidents[i].severity /\ found[e].count = incidents[i].count
        BY <1>1, <3>2, <3>3, <4>1 DEF IInv, Snapped
      <4>3. /\ incidents'[i].severity \in Nat /\ incidents'[i].count \in Nat
        <5>1. Severity(e) \in Nat /\ votes[e] \in Nat
          BY <1>1, SeverityType DEF IInv, TypeOK
        <5> QED
          BY <3>4, <3>6, <5>1 DEF AtLeast, Snapshot
      <4> QED
        BY <1>1, <2>1, <3>7, <4>2, <4>3
    <3> QED
      BY <3>1, <3>2, <3>3, <3>8
  <2>5. ~\E e \in Events : Quiet(e) \/ Count(e) \/ FindOpen(e)
    BY <1>1, <2>3, QuietFrame DEF IInv, Count, FindOpen, store
  <2>6. ~\E e \in Events : Create(e)
    <3>1. ASSUME NEW e \in Events, Create(e) PROVE FALSE
      <4>1. i # e
        BY <1>1, <3>1 DEF IInv, Placed, Settled, Create
      <4> QED
        BY <1>1, <2>1, <2>3, <3>1, <4>1, CreateType DEF IInv
    <3> QED
      BY <3>1
  <2>7. ~\E e \in Events : Triage(e)
    BY <1>1, <2>2, TriageType DEF IInv
  <2>8. ~Tick /\ ~UNCHANGED vars
    BY <2>3 DEF Tick, store, vars
  <2> QED
    BY <1>1, <2>4, <2>5, <2>6, <2>7, <2>8 DEF Next, Run, Quiet
<1>2. IInv /\ [Next]_vars => [\A i \in Opened : Slip(i) => Raced(i)]_vars
  BY <1>1
<1>3. Spec => [][\A i \in Opened : Slip(i) => Raced(i)]_vars
  BY <1>2, Invariance, PTL DEF Spec
<1> QED
  BY <1>3 DEF SlipsOnlyByRace

\* A task of _process_event_background that met no swallowed error and no crash
\* has stored its verdict, alerted, placed and mirrored its event, or has marked
\* it failed: whatever attempt it got there on, and whoever ran beside it.
THEOREM ReportedUnlessSwallowedHolds == Spec => []ReportedUnlessSwallowed
<1>1. Init => IInv /\ Paid
  <2>1. Init => Paid
    BY DEF Init, Paid, Counted, Owed, Folding
  <2> QED
    BY <2>1, InitInv
<1>2. IInv /\ Paid /\ [Next]_vars => (IInv /\ Paid)'
  BY NextInv, NextPaid
<1>3. ASSUME IInv, Paid
      PROVE  ReportedUnlessSwallowed
  <2> SUFFICES ASSUME NEW e \in Events, pc[e] = "done", e \notin swallowed, docs[e].status # "failed"
               PROVE  /\ docs[e].status = "completed" /\ docs[e].blocked = Verdict(e)
                      /\ e \in mirrored
                      /\ e \in Matched => alerts[e] > 0 /\ docs[e].matched \in 1..attempt[e]
                      /\ Level[e] > 0 => Folded(e)
    BY DEF ReportedUnlessSwallowed
  <2>1. /\ alerts[e] = matches[e] /\ matches[e] <= attempt[e]
        /\ Answered(e) /\ e \in mirrored
    BY <1>3 DEF Paid, Counted, Owed
  <2>2. matches[e] \in Nat /\ attempt[e] \in Nat
    BY <1>3, LimitsAssumption DEF IInv, TypeOK
  <2>3. docs[e].status = "completed" /\ docs[e].blocked = Verdict(e) /\ docs[e].matched = matches[e]
    BY <2>1 DEF Answered, Recorded
  <2> QED
    BY <2>1, <2>2, <2>3 DEF Answered
<1>4. IInv /\ Paid => ReportedUnlessSwallowed
  BY <1>3
<1> QED
  BY <1>1, <1>2, <1>4, PTL DEF Spec
=============================================================================
