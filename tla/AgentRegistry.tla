---------------------------- MODULE AgentRegistry ----------------------------
(***************************************************************************)
(* The agents collection and those who write it: the agents, which         *)
(* register when they start and send heartbeats while they run, and the    *)
(* administrators of the dashboard, who list, remove and clean up.         *)
(*                                                                         *)
(* The collection has no unique index, a handler is one step between two   *)
(* awaits, and the numeric code of an agent comes from a PostgreSQL        *)
(* sequence which may be out of reach.  A machine's name stands for the    *)
(* pair (name, os).  An API key is the number of its issue, 0 is no key.   *)
(* History: raced (names), evicted (machines), removed (documents).        *)
(***************************************************************************)
EXTENDS Integers, Sequences, FiniteSets

CONSTANTS
  Machines,    \* endpoints
  Keyless,     \* those whose agent never sends X-Agent-Key: the Linux agent
  NameOf,      \* the configured name of a machine
  Legacy,      \* names that documents older than the codes and the keys may have
  MaxStarts,   \* bound: starts of agents
  MaxUpsets    \* bound: outages, silences, reinstallations, administrators' actions

ASSUME LegacyAssumption == IsFiniteSet(Legacy)

\* Machines that were copied from one image: all have one name.
OneName == [m \in Machines |-> "host"]

VARIABLES
  up,       \* the server is reachable
  docs,     \* the collection, in the order of insertion
  codes,    \* agent_code_seq
  keys,     \* keys issued
  machine,  \* what an endpoint knows and does
  reg,      \* its registration on the server
  lister,   \* a listing that is filling in a missing code
  admin,    \* a cleanup that has previewed
  budget,   \* what is left of MaxStarts and MaxUpsets
  raced,    \* history: names of which two registrations overlapped
  evicted,  \* history: another machine took the document over
  removed   \* history: hidden by an administrator since it was last read

vars == <<up, docs, codes, keys, machine, reg, lister, admin,
          budget, raced, evicted, removed>>

-----------------------------------------------------------------------------

NoId == << >>   \* of legacy documents
Ids == Machines \X Nat
Doc == [name : {NameOf[m] : m \in Machines} \cup Legacy, id : Ids \cup {NoId},
        code : Nat, key : Nat, stale : BOOLEAN, deleted : BOOLEAN, retired : BOOLEAN]

\* fails counts failed heartbeats in a row; hbKey is what the heartbeat's own
\* HttpClient sends, key what the agent has saved.
Machine == [on : BOOLEAN, id : Ids, key : Nat, hbKey : Nat, fails : {0, 1, 2}]

Request(at) == [at |-> at, doc |-> 0, key |-> 0, code |-> 0, hidden |-> FALSE]
NoReg == Request("idle")
Reg == [at : {"idle", "find", "update", "seq", "put", "guard", "reply"}, doc : Nat,
        key : Nat, code : Nat, hidden : BOOLEAN]
NoListing == [at |-> "idle", doc |-> 0, code |-> 0]
Listing == [at : {"idle", "seq", "guard"}, doc : Nat, code : Nat]

\* The representation is right; keys and codes are below their counters.
TypeOK ==
  /\ up \in BOOLEAN /\ codes \in Nat /\ keys \in Nat
  /\ docs \in Seq(Doc)
  /\ \A d \in DOMAIN docs : docs[d].code <= codes /\ docs[d].key <= keys
  /\ machine \in [Machines -> Machine] /\ reg \in [Machines -> Reg]
  /\ lister \in Listing
  /\ admin \in {"idle", "remove"}
  /\ raced \subseteq {NameOf[m] : m \in Machines} /\ evicted \subseteq Machines
  /\ removed \subseteq DOMAIN docs

Init ==
  /\ up = TRUE /\ codes = 0 /\ keys = 0
  /\ \E old \in SUBSET Legacy : \E name \in [1..Cardinality(old) -> old] :
       /\ \A d, e \in DOMAIN name : name[d] = name[e] => d = e
       /\ docs = [d \in DOMAIN name |->
            [name |-> name[d], id |-> NoId, code |-> 0, key |-> 0,
             stale |-> TRUE, deleted |-> FALSE, retired |-> FALSE]]
  /\ machine = [m \in Machines |->
       [on |-> FALSE, id |-> <<m, 0>>, key |-> 0, hbKey |-> 0, fails |-> 0]]
  /\ reg = [m \in Machines |-> NoReg]
  /\ lister = NoListing
  /\ admin = "idle"
  /\ budget = [starts |-> MaxStarts, upsets |-> MaxUpsets]
  /\ raced = {} /\ evicted = {} /\ removed = {}

-----------------------------------------------------------------------------
(* Registration: POST /agents, sent once, when the agent starts.           *)

\* Mutant: a reinstalled agent, which has a new id, is not recognised by its name.
KnowsById(m) == {d \in DOMAIN docs : docs[d].id = machine[m].id}

Knows(m) == {d \in DOMAIN docs : docs[d].id = machine[m].id \/ docs[d].name = NameOf[m]}

\* A registration that has looked for its document and not yet written one.
Deciding(m) == reg[m].at \in {"update", "put"} \/ (reg[m].at = "seq" /\ reg[m].doc = 0)

Spend == budget.upsets > 0 /\ budget' = [budget EXCEPT !.upsets = @ - 1]

\* Start: both HttpClients take the saved key, and the one registration is sent.
StartAgent(m) ==
  /\ ~machine[m].on /\ reg[m].at = "idle" /\ budget.starts > 0
  /\ machine' = [machine EXCEPT ![m].on = TRUE, ![m].fails = 0, ![m].hbKey = machine[m].key]
  /\ reg' = [reg EXCEPT ![m] = IF up THEN Request("find") ELSE NoReg]
  /\ budget' = [budget EXCEPT !.starts = @ - 1]
  /\ UNCHANGED <<up, docs, codes, keys, lister, admin, raced, evicted, removed>>

\* find_one by id or by name: with several matches, any of them.
RegisterFind(m) ==
  /\ reg[m].at = "find"
  /\ LET namesakes == {n \in Machines \ {m} : NameOf[n] = NameOf[m] /\ Deciding(n)}
     IN raced' = IF namesakes = {} THEN raced ELSE raced \cup {NameOf[m]}
  /\ \/ /\ Knows(m) = {}
        /\ reg' = [reg EXCEPT ![m].at = "seq"]
        /\ removed' = removed
     \/ \E d \in Knows(m) :
          /\ reg' = [reg EXCEPT ![m] = [@ EXCEPT !.at = "update", !.doc = d,
                       !.key = docs[d].key, !.code = docs[d].code,
                       !.hidden = docs[d].deleted \/ docs[d].retired]]
          /\ removed' = removed \ {d}
  /\ UNCHANGED <<up, docs, codes, keys, machine, lister, admin, budget, evicted>>

\* Mutant: the document keeps the id of the previous installation.
UpdateKeepsId(m) ==
  /\ reg[m].at = "update"
  /\ keys' = IF reg[m].key # 0 THEN keys ELSE keys + 1
  /\ docs' = [docs EXCEPT ![reg[m].doc] = [docs[reg[m].doc] EXCEPT !.key = keys', !.stale = FALSE,
                 !.deleted = @ /\ ~reg[m].hidden, !.retired = @ /\ ~reg[m].hidden]]
  /\ reg' = [reg EXCEPT ![m].key = keys', ![m].at = IF reg[m].code = 0 THEN "seq" ELSE "reply"]
  /\ UNCHANGED <<up, codes, machine, lister, admin, budget, raced, evicted, removed>>

\* Mutant: a removed agent that registers again stays hidden.
UpdateKeepsHidden(m) ==
  /\ reg[m].at = "update"
  /\ LET d == reg[m].doc
         key == IF reg[m].key # 0 THEN reg[m].key ELSE keys + 1
     IN /\ keys' = IF reg[m].key # 0 THEN keys ELSE keys + 1
        /\ docs' = [docs EXCEPT ![d] = [@ EXCEPT !.id = machine[m].id, !.key = key, !.stale = FALSE]]
        /\ reg' = [reg EXCEPT ![m].key = key,
                              ![m].at = IF reg[m].code = 0 THEN "seq" ELSE "reply"]
        /\ evicted' = (evicted \ {m}) \cup
             {n \in Machines \ {m} : docs[d].id = machine[n].id}
  /\ UNCHANGED <<up, codes, machine, lister, admin, budget, raced, removed>>

\* A document that was found is taken over: id, key, last_seen, and visible again.
RegisterUpdate(m) ==
  /\ reg[m].at = "update"
  /\ LET d == reg[m].doc
         key == IF reg[m].key # 0 THEN reg[m].key ELSE keys + 1
     IN /\ keys' = IF reg[m].key # 0 THEN keys ELSE keys + 1
        /\ docs' = [docs EXCEPT ![d] = [docs[d] EXCEPT !.id = machine[m].id, !.key = key,
             !.stale = FALSE,
             !.deleted = @ /\ ~reg[m].hidden, !.retired = @ /\ ~reg[m].hidden]]
        /\ reg' = [reg EXCEPT ![m].key = key,
                              ![m].at = IF reg[m].code = 0 THEN "seq" ELSE "reply"]
        /\ evicted' = (evicted \ {m}) \cup
             {n \in Machines \ {m} : docs[d].id = machine[n].id}
  /\ UNCHANGED <<up, codes, machine, lister, admin, budget, raced, removed>>

\* nextval for a new document or for one without a code; PostgreSQL may be down.
RegisterSeq(m) ==
  /\ reg[m].at = "seq"
  /\ \/ /\ codes' = codes + 1
        /\ reg' = [reg EXCEPT ![m].code = codes + 1,
                              ![m].at = IF reg[m].doc = 0 THEN "put" ELSE "guard"]
     \/ /\ codes' = codes
        /\ reg' = [reg EXCEPT ![m].at = IF reg[m].doc = 0 THEN "put" ELSE "reply"]
  /\ UNCHANGED <<up, docs, keys, machine, lister, admin, budget, raced, evicted, removed>>

\* Mutant: the key of the new document is not the one that is answered.
PutOtherKey(m) ==
  /\ reg[m].at = "put"
  /\ keys' = keys + 1
  /\ docs' = Append(docs,
       [name |-> NameOf[m], id |-> machine[m].id, code |-> reg[m].code, key |-> keys + 2,
        stale |-> FALSE, deleted |-> FALSE, retired |-> FALSE])
  /\ reg' = [reg EXCEPT ![m].key = keys + 1, ![m].at = "reply"]
  /\ evicted' = evicted \ {m}
  /\ UNCHANGED <<up, codes, machine, lister, admin, budget, raced, removed>>

\* insert_one; the collection does not mind a second document of the same agent.
RegisterPut(m) ==
  /\ reg[m].at = "put"
  /\ keys' = keys + 1
  /\ docs' = Append(docs,
       [name |-> NameOf[m], id |-> machine[m].id, code |-> reg[m].code, key |-> keys + 1,
        stale |-> FALSE, deleted |-> FALSE, retired |-> FALSE])
  /\ reg' = [reg EXCEPT ![m].key = keys + 1, ![m].at = "reply"]
  /\ evicted' = evicted \ {m}
  /\ UNCHANGED <<up, codes, machine, lister, admin, budget, raced, removed>>

\* Mutant: the update of the backfill does not ask whether a code is there.
BackfillAlways(d, code) == docs' = [docs EXCEPT ![d].code = code]

\* _ensure_agent_code: the update matches only a document that has no code yet.
Backfill(d, code) ==
  docs' = [docs EXCEPT ![d].code = IF @ = 0 THEN code ELSE @]

RegisterGuard(m) ==
  /\ reg[m].at = "guard"
  /\ Backfill(reg[m].doc, reg[m].code)
  /\ reg' = [reg EXCEPT ![m].at = "reply"]
  /\ UNCHANGED <<up, codes, keys, machine, lister, admin, budget, raced, evicted, removed>>

\* The answer carries the key: a Windows agent saves it and hands it to both of
\* its HttpClients, a Linux agent looks at the status only.  It may get lost.
RegisterReply(m) ==
  /\ reg[m].at = "reply"
  /\ reg' = [reg EXCEPT ![m] = NoReg]
  /\ machine' = IF up /\ machine[m].on /\ m \notin Keyless
                THEN [machine EXCEPT ![m].key = reg[m].key, ![m].hbKey = reg[m].key]
                ELSE machine
  /\ UNCHANGED <<up, docs, codes, keys, lister, admin, budget, raced, evicted, removed>>

-----------------------------------------------------------------------------
(* Heartbeats.  The server looks the key up (require_agent_key), then the   *)
(* document of the id in the path; nothing that happens in between matters. *)

Authenticates(key) == key # 0 /\ \E d \in DOMAIN docs : docs[d].key = key

\* After three failures in a row the heartbeat gets a new HttpClient, which has
\* no key; SetApiKey is called for it at the start and on registration only.
Missed(m) ==
  machine' = [machine EXCEPT ![m] =
    IF machine[m].fails = 2 THEN [machine[m] EXCEPT !.fails = 0, !.hbKey = 0]
                            ELSE [machine[m] EXCEPT !.fails = machine[m].fails + 1]]

\* The heartbeat thread starts when RegisterAgent has returned.
Beating(m) == machine[m].on /\ reg[m].at = "idle"

\* update_one touches one document of the id, last_seen only: a removed or
\* decommissioned agent stays so however often it is heard from.
HeartbeatOk(m) ==
  /\ Beating(m) /\ up /\ Authenticates(machine[m].hbKey)
  /\ \E d \in DOMAIN docs :
       /\ docs[d].id = machine[m].id
       /\ docs' = [docs EXCEPT ![d].stale = FALSE]
  /\ machine' = [machine EXCEPT ![m].fails = 0]
  /\ UNCHANGED <<up, codes, keys, reg, lister, admin, budget, raced, evicted, removed>>

\* No connection, a key that is missing or that no document has (401), or no
\* document of the id (404).
HeartbeatFails(m) ==
  /\ Beating(m)
  /\ ~up \/ ~Authenticates(machine[m].hbKey) \/ \A d \in DOMAIN docs : docs[d].id # machine[m].id
  /\ Missed(m)
  /\ UNCHANGED <<up, docs, codes, keys, reg, lister, admin, budget, raced, evicted, removed>>

\* Stop unregisters, which needs the key too, and marks the document.
StopAgent(m) ==
  /\ machine[m].on
  /\ machine' = [machine EXCEPT ![m].on = FALSE]
  /\ \/ /\ up /\ Authenticates(machine[m].key)
        /\ \E d \in DOMAIN docs :
             /\ docs[d].id = machine[m].id
             /\ docs' = [docs EXCEPT ![d].retired = TRUE]
     \/ docs' = docs   \* a crash, no server, no key, or no document of the id
  /\ UNCHANGED <<up, codes, keys, reg, lister, admin, budget, raced, evicted, removed>>

\* A reinstalled agent makes up a new agent_id and has no key; no request of the
\* previous installation is under way any more.
Reinstall(m) ==
  /\ ~machine[m].on /\ reg[m].at = "idle" /\ machine[m].id[2] = 0 /\ machine[m].key # 0
  /\ Spend
  /\ machine' = [machine EXCEPT ![m].id = <<m, 1>>, ![m].key = 0]
  /\ UNCHANGED <<up, docs, codes, keys, reg, lister, admin, raced, evicted, removed>>

-----------------------------------------------------------------------------
(* The dashboard.                                                          *)

\* A listing backfills the code of a document it read without one.
ListStart ==
  /\ lister.at = "idle"
  /\ \E d \in DOMAIN docs : docs[d].code = 0 /\ lister' = [at |-> "seq", doc |-> d, code |-> 0]
  /\ UNCHANGED <<up, docs, codes, keys, machine, reg, admin, budget, raced, evicted, removed>>

ListSeq ==
  /\ lister.at = "seq"
  /\ \/ codes' = codes + 1 /\ lister' = [at |-> "guard", doc |-> lister.doc, code |-> codes + 1]
     \/ codes' = codes /\ lister' = NoListing
  /\ UNCHANGED <<up, docs, keys, machine, reg, admin, budget, raced, evicted, removed>>

ListGuard ==
  /\ lister.at = "guard"
  /\ Backfill(lister.doc, lister.code)
  /\ lister' = NoListing
  /\ UNCHANGED <<up, codes, keys, machine, reg, admin, budget, raced, evicted, removed>>

\* Remove Agent, by id.
DeleteAgent ==
  /\ Spend
  /\ \E d \in DOMAIN docs :
       /\ ~docs[d].deleted
       /\ docs' = [docs EXCEPT ![d].deleted = TRUE]
       /\ removed' = removed \cup {d}
  /\ UNCHANGED <<up, codes, keys, machine, reg, lister, admin, raced, evicted>>

Decommission ==
  /\ Spend
  /\ \E d \in DOMAIN docs : docs' = [docs EXCEPT ![d].retired = TRUE]
  /\ UNCHANGED <<up, codes, keys, machine, reg, lister, admin, raced, evicted, removed>>

\* The filter of the cleanup: last_seen before the cutoff, or never.
Stale == {d \in DOMAIN docs : docs[d].stale /\ ~docs[d].deleted}

\* cleanup_stale_agents with dry_run=false: a query for the report, which
\* only the answer shows ...
CleanupPreview ==
  /\ admin = "idle" /\ Spend
  /\ admin' = "remove"
  /\ UNCHANGED <<up, docs, codes, keys, machine, reg, lister, raced, evicted, removed>>

\* ... and an update_many of the same filter, evaluated again.
CleanupRemove ==
  /\ admin = "remove"
  /\ docs' = [d \in DOMAIN docs |-> [docs[d] EXCEPT !.deleted = @ \/ d \in Stale]]
  /\ removed' = removed \cup Stale
  /\ admin' = "idle"
  /\ UNCHANGED <<up, codes, keys, machine, reg, lister, budget, raced, evicted>>

-----------------------------------------------------------------------------

\* Nothing is heard from an agent for older_than_days; the cutoff of a cleanup
\* under way is fixed, so that none becomes stale to it.
Silence ==
  /\ admin = "idle" /\ Spend
  /\ \E d \in DOMAIN docs : ~docs[d].stale /\ docs' = [docs EXCEPT ![d].stale = TRUE]
  /\ UNCHANGED <<up, codes, keys, machine, reg, lister, admin, raced, evicted, removed>>

Outage ==
  /\ up /\ Spend
  /\ up' = FALSE
  /\ UNCHANGED <<docs, codes, keys, machine, reg, lister, admin, raced, evicted, removed>>

OutageEnds ==
  /\ ~up /\ up' = TRUE
  /\ UNCHANGED <<docs, codes, keys, machine, reg, lister, admin, budget, raced, evicted, removed>>

Register(m) ==
  RegisterFind(m) \/ RegisterUpdate(m) \/ RegisterSeq(m) \/ RegisterPut(m)
  \/ RegisterGuard(m) \/ RegisterReply(m)
Heartbeat(m) == HeartbeatOk(m) \/ HeartbeatFails(m)
Dashboard ==
  ListStart \/ ListSeq \/ ListGuard \/ DeleteAgent \/ Decommission
  \/ CleanupPreview \/ CleanupRemove

Next ==
  \/ \E m \in Machines :
       StartAgent(m) \/ Register(m) \/ Heartbeat(m) \/ StopAgent(m) \/ Reinstall(m)
  \/ Dashboard \/ Silence \/ Outage \/ OutageEnds

Spec == Init /\ [][Next]_vars

\* Requests that began run on, outages end, and the heartbeat loop comes round.
FairSpec ==
  /\ Spec
  /\ WF_vars(OutageEnds)
  /\ \A m \in Machines : WF_vars(Register(m)) /\ WF_vars(Heartbeat(m))

-----------------------------------------------------------------------------
(* Properties.                                                             *)

\* A document keeps the code it has, and no two share one: whoever backfills
\* concurrently, with a registration or another listing, changes nothing.
CodeIsForever ==
  [][\A d \in DOMAIN docs : docs[d].code # 0 =>
       /\ docs'[d].code = docs[d].code
       /\ \A e \in DOMAIN docs' \ {d} : docs'[e].code # docs[d].code]_vars

\* One document per name, however often its machines start, are reinstalled or
\* lose the answer - unless two registrations of the name passed each other
\* between find_one and insert_one.
OneDocumentPerName ==
  \A d, e \in DOMAIN docs :
    d # e /\ docs[d].name = docs[e].name => docs[d].name \in raced

\* The key an agent holds opens the document of its id, until another machine of
\* the same configured name takes the document over (register_agent matches by
\* name too) or two registrations overlapped.
KeyOpensOwnDocument ==
  \A m \in Machines :
    machine[m].key # 0 /\ reg[m].at = "idle" /\ m \notin evicted /\ NameOf[m] \notin raced
      => \E d \in DOMAIN docs : docs[d].id = machine[m].id /\ docs[d].key = machine[m].key

\* An agent that has registered is hidden only when an administrator removed it
\* after the registration looked at the document: earlier removals are undone.
HiddenOnlyByAdmin ==
  \A d \in DOMAIN docs :
    docs[d].deleted /\ d \notin removed
      => \E m \in Machines : reg[m].at = "update" /\ reg[m].doc = d

\* What the registry owes a machine: one document, which is seen, and which its
\* key opens.
MachinesKeepOneDocument == OneDocumentPerName /\ HiddenOnlyByAdmin /\ KeyOpensOwnDocument

\* Comment of HeartbeatLoop: after three failures the client is reinitialised and
\* the heartbeat retried, so that a network drop does not leave an agent shown as
\* disconnected until it is restarted: one that holds a good key and reaches the
\* server is not refused for good.
HeartbeatsRecover ==
  \A m \in Machines :
    ~<>[](/\ Beating(m) /\ up
          /\ Authenticates(machine[m].key) /\ ~Authenticates(machine[m].hbKey))
=============================================================================
