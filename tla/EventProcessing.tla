--------------------------- MODULE EventProcessing ---------------------------
(* The server's event pipeline (server/app/api/v1/events.py): create_event     *)
(* upserts the raw event and queues _process_event_background, one task per    *)
(* accepted event.  A task classifies and evaluates the event (raising the     *)
(* alerts of the policies it matches), stores the verdict, folds the event     *)
(* into an incident with _auto_create_incident, and mirrors it to PostgreSQL.  *)
(*                                                                             *)
(* Tasks are coroutines: another task, or another worker process, may run at   *)
(* every await.  One action is what a task does up to its next database call.  *)
(* Classification and condition matching are data here: what an event comes to *)
(* is a constant of the event.                                                 *)
EXTENDS Naturals, FiniteSets

CONSTANTS
  Events,      \* event ids, one agent submission each
  Users,       \* user e-mails
  UserOf,      \* [Events -> Users]
  Level,       \* [Events -> 0..4] incident severity by rules 1 and 2, 0: neither applies
  Reported,    \* [Events -> {"blocked", "failed", "logged"}] what the agent says it did
  Ruled,       \* events that a matching policy says to block
  Matched,     \* events that some policy matches, with an alert
  None,        \* no document
  Attempts,    \* MAX_RETRIES
  Repeats,     \* blocked events of one user that make a repeated violation
  Window,      \* the hour, in ticks
  MaxTime, MaxFaults, MaxCrashes, MaxTriage   \* bounds of the environment

ASSUME EventsAssumption ==
  /\ IsFiniteSet(Events)
  /\ UserOf \in [Events -> Users]
  /\ Level \in [Events -> 0..4]
  /\ Reported \in [Events -> {"blocked", "failed", "logged"}]
  /\ Ruled \subseteq Events /\ Matched \subseteq Events
ASSUME LimitsAssumption ==
  /\ Attempts \in Nat \ {0} /\ Repeats \in Nat /\ Window \in Nat
  /\ MaxTime \in Nat /\ MaxFaults \in Nat /\ MaxCrashes \in Nat /\ MaxTriage \in Nat

VARIABLES
  docs,       \* dlp_events: [status, blocked, at, matched] or None
  incidents,  \* incidents, by the event_id each was created for, or None
  alerts,     \* alert documents written for the event
  mirrored,   \* events with a row in the PostgreSQL events table
  pc,         \* where the event's task is
  attempt,    \* the task's attempt
  matches,    \* entries of the policy in the task's payload, "matched_policies"
  votes,      \* violation_count as the task read it
  since,      \* when the task computed one_hour_ago
  found,      \* existing_open as the task read it: [id, severity, count] or None
  now,
  faults, crashes, triages,   \* spent environment budgets
  swallowed,  \* history: tasks that went on after a database error
  overlap,    \* history: incident writers that ran between a task's find and its write
  touched     \* history: incidents an analyst has patched

reads == <<matches, votes, since, found>>
task  == <<pc, attempt, reads>>
store == <<docs, incidents, alerts, mirrored>>
env   == <<now, faults, crashes, triages>>
hist  == <<swallowed, overlap, touched>>
vars  == <<store, task, env, hist>>

Ended   == {"idle", "done", "lost"}
Folding == {"dedupe", "count", "find", "coalesce", "create"}
Places  == Ended \cup Folding \cup {"evaluate", "save", "giveup", "mirror"}

Incident == [status : {"open", "closed"}, severity : Nat, count : Nat,
             related : SUBSET Events, at : Nat]
Doc      == [status : {"pending", "completed", "failed"}, blocked : BOOLEAN, at : Nat,
             matched : Nat]
Snapshot == [id : Events, severity : Nat, count : Nat]

ASSUME NoneAssumption == None \notin Incident /\ None \notin Doc

Opened == {i \in Events : incidents[i] # None}

\* An error is swallowed when the task goes on as if nothing had happened.
Fault == faults < MaxFaults /\ faults' = faults + 1
Swallow(e) == Fault /\ swallowed' = swallowed \cup {e}
NoFault == UNCHANGED <<faults, swallowed>>
Goto(e, p) == pc' = [pc EXCEPT ![e] = p]

Init ==
  /\ docs = [e \in Events |-> None]
  /\ incidents = [e \in Events |-> None]
  /\ alerts = [e \in Events |-> 0]
  /\ mirrored = {}
  /\ pc = [e \in Events |-> "idle"]
  /\ attempt = [e \in Events |-> 0]
  /\ matches = [e \in Events |-> 0]
  /\ votes = [e \in Events |-> 0]
  /\ since = [e \in Events |-> 0]
  /\ found = [e \in Events |-> None]
  /\ now = 0 /\ faults = 0 /\ crashes = 0 /\ triages = 0
  /\ swallowed = {} /\ touched = {}
  /\ overlap = [e \in Events |-> {}]

(* create_event: the $setOnInsert upsert, then add_task.  A resent event       *)
(* matches the document and changes nothing, so it is not an action.           *)
Submit(e) ==
  /\ docs[e] = None
  /\ docs' = [docs EXCEPT ![e] = [status |-> "pending",
                                  blocked |-> Reported[e] = "blocked", at |-> now,
                                  matched |-> 0]]
  /\ attempt' = [attempt EXCEPT ![e] = 1]
  /\ Goto(e, "evaluate")
  /\ UNCHANGED <<incidents, alerts, mirrored, reads, env, hist>>

\* Mutant of Stumble: one attempt too many.
StumbleOneMore(e) ==
  IF attempt[e] <= Attempts
  THEN attempt' = [attempt EXCEPT ![e] = @ + 1] /\ Goto(e, "evaluate")
  ELSE Goto(e, "giveup") /\ UNCHANGED attempt

\* The except branch of the retry loop.
Stumble(e) ==
  IF attempt[e] < Attempts
  THEN attempt' = [attempt EXCEPT ![e] = @ + 1] /\ Goto(e, "evaluate")
  ELSE Goto(e, "giveup") /\ UNCHANGED attempt

(* process_event.  The evaluator may raise before any action ran; once actions *)
(* run, ActionExecutor swallows their errors, the alert's insert among them.   *)
(* It works on the task's own payload, which keeps what earlier attempts added.*)
Evaluate(e) ==
  /\ pc[e] = "evaluate"
  /\ \/ /\ Fault /\ Stumble(e)
        /\ UNCHANGED <<alerts, matches, swallowed>>
     \/ /\ e \in Matched
        /\ matches' = [matches EXCEPT ![e] = @ + 1]
        /\ \/ alerts' = [alerts EXCEPT ![e] = @ + 1] /\ NoFault
           \/ Swallow(e) /\ UNCHANGED alerts
        /\ Goto(e, "save") /\ UNCHANGED attempt
     \/ /\ e \notin Matched
        /\ Goto(e, "save") /\ NoFault /\ UNCHANGED <<alerts, matches, attempt>>
  /\ UNCHANGED <<docs, incidents, mirrored, votes, since, found,
                 now, crashes, triages, overlap, touched>>

\* An agent that reports a *_failed outcome is believed over the policy.
Verdict(e) == Reported[e] # "failed" /\ (Reported[e] = "blocked" \/ e \in Ruled)

\* Mutant of Save: an error of the update is ignored, the attempt goes on.
SaveIgnoringErrors(e) ==
  /\ pc[e] = "save"
  /\ \/ docs' = [docs EXCEPT ![e].status = "completed", ![e].blocked = Verdict(e)]
        /\ UNCHANGED faults
     \/ Fault /\ UNCHANGED docs
  /\ Goto(e, IF Level[e] = 0 THEN "mirror" ELSE "dedupe")
  /\ UNCHANGED <<incidents, alerts, mirrored, attempt, reads,
                 now, crashes, triages, hist>>

(* The update of the event document.  When the call fails the write may have   *)
(* reached the database or not; the whole attempt is repeated either way.      *)
Save(e) ==
  /\ pc[e] = "save"
  /\ \E landed \in BOOLEAN, raised \in BOOLEAN :
       /\ landed \/ raised
       /\ docs' = IF landed THEN [docs EXCEPT ![e].status = "completed",
                                              ![e].blocked = Verdict(e),
                                              ![e].matched = matches[e]]
                  ELSE docs
       /\ IF raised THEN Fault /\ Stumble(e)
          ELSE /\ Goto(e, IF Level[e] = 0 THEN "mirror" ELSE "dedupe")
               /\ UNCHANGED <<attempt, faults>>
  /\ UNCHANGED <<incidents, alerts, mirrored, reads,
                 now, crashes, triages, hist>>

\* Mutant of GiveUp: the exhausted task only logs.
GiveUpSilently(e) ==
  /\ pc[e] = "giveup" /\ Goto(e, "done")
  /\ UNCHANGED <<store, attempt, reads, env, hist>>

\* After the last attempt; an error of this write is swallowed too.
GiveUp(e) ==
  /\ pc[e] = "giveup"
  /\ \/ docs' = [docs EXCEPT ![e].status = "failed"] /\ NoFault
     \/ Swallow(e) /\ UNCHANGED docs
  /\ Goto(e, "done")
  /\ UNCHANGED <<incidents, alerts, mirrored, attempt, reads,
                 now, crashes, triages, overlap, touched>>
-----------------------------------------------------------------------------
(* _auto_create_incident, for an event that rule 1 or rule 2 selects.          *)

Folded(e) == \E i \in Opened : i = e \/ e \in incidents[i].related

Dedupe(e) ==
  /\ pc[e] = "dedupe"
  /\ Goto(e, IF Folded(e) THEN "mirror" ELSE "count")
  /\ UNCHANGED <<store, attempt, reads, env, hist>>

\* count_documents of the user's blocked events of the last hour.
Violations(u) == {f \in Events : /\ docs[f] # None /\ UserOf[f] = u
                                 /\ docs[f].blocked /\ docs[f].at + Window >= now}

Count(e) ==
  /\ pc[e] = "count"
  /\ votes' = [votes EXCEPT ![e] = Cardinality(Violations(UserOf[e]))]
  /\ since' = [since EXCEPT ![e] = now]
  /\ Goto(e, "find")
  /\ UNCHANGED <<store, attempt, matches, found, env, hist>>

\* Mutant: no one-hour window.
CoalescableNow(e) == {i \in Opened : /\ UserOf[i] = UserOf[e] /\ incidents[i].status = "open"
                                     /\ incidents[i].at >= since[e]}
\* The user's open incidents created no earlier than one_hour_ago.
Coalescable(e) == {i \in Opened : /\ UserOf[i] = UserOf[e] /\ incidents[i].status = "open"
                                  /\ incidents[i].at + Window >= since[e]}

FindOpen(e) ==
  /\ pc[e] = "find"
  /\ IF Coalescable(e) = {}
     THEN found' = [found EXCEPT ![e] = None] /\ Goto(e, "create")
     ELSE \E i \in Coalescable(e) :
            /\ \A j \in Coalescable(e) : incidents[j].at <= incidents[i].at
            /\ found' = [found EXCEPT ![e] = [id |-> i, severity |-> incidents[i].severity,
                                              count |-> incidents[i].count]]
            /\ Goto(e, "coalesce")
  /\ overlap' = [overlap EXCEPT ![e] = {}]
  /\ UNCHANGED <<store, attempt, matches, votes, since, env, swallowed, touched>>

Severity(e) == IF votes[e] >= Repeats THEN 4 ELSE Level[e]
AtLeast(a, b) == IF a >= b THEN a ELSE b

\* e's write falls between the find and the write of every task that has found.
Overlaps(e) == overlap' = [f \in Events |->
  IF f # e /\ pc[f] \in {"coalesce", "create"} THEN overlap[f] \cup {e} ELSE overlap[f]]

\* Mutants of Coalesce: the severity is the last event's, and the missing return.
CoalesceLastSeverity(e) ==
  /\ pc[e] = "coalesce"
  /\ incidents' = [incidents EXCEPT ![found[e].id].severity = Severity(e),
                                    ![found[e].id].related = @ \cup {e}]
  /\ Overlaps(e) /\ Goto(e, "mirror")
  /\ UNCHANGED <<docs, alerts, mirrored, attempt, reads, env, swallowed, touched>>
CoalesceThenCreate(e) ==
  /\ pc[e] = "coalesce"
  /\ incidents' = [incidents EXCEPT ![found[e].id].related = @ \cup {e}]
  /\ Overlaps(e) /\ Goto(e, "create")
  /\ UNCHANGED <<docs, alerts, mirrored, attempt, reads, env, swallowed, touched>>

\* The values written are computed from the document as FindOpen read it.
Coalesce(e) ==
  /\ pc[e] = "coalesce"
  /\ LET i == found[e].id IN
     incidents' = [incidents EXCEPT
       ![i].severity = AtLeast(found[e].severity, Severity(e)),
       ![i].count = AtLeast(votes[e], found[e].count + 1),
       ![i].related = @ \cup {e}]
  /\ Overlaps(e) /\ Goto(e, "mirror")
  /\ UNCHANGED <<docs, alerts, mirrored, attempt, reads, env, swallowed, touched>>

\* An upsert on event_id.
Create(e) ==
  /\ pc[e] = "create"
  /\ incidents' = IF incidents[e] # None THEN incidents
                  ELSE [incidents EXCEPT ![e] =
                         [status |-> "open", severity |-> Severity(e), count |-> votes[e],
                          related |-> {e}, at |-> now]]
  /\ Overlaps(e) /\ Goto(e, "mirror")
  /\ UNCHANGED <<docs, alerts, mirrored, attempt, reads, env, swallowed, touched>>

(* Any of its calls may fail before it reaches the database; the handler logs  *)
(* that and returns.  A call that fails after it took effect is as one that    *)
(* succeeded: the task goes to "mirror" in both cases.                         *)
AbandonFolding(e) ==
  /\ pc[e] \in Folding
  /\ Swallow(e) /\ Goto(e, "mirror")
  /\ UNCHANGED <<store, attempt, reads, now, crashes, triages, overlap, touched>>

\* mirror_event_to_pg: INSERT ... ON CONFLICT DO NOTHING, errors swallowed.
Mirror(e) ==
  /\ pc[e] = "mirror"
  /\ \/ mirrored' = mirrored \cup {e} /\ NoFault
     \/ Swallow(e) /\ UNCHANGED mirrored
  /\ Goto(e, "done")
  /\ UNCHANGED <<docs, incidents, alerts, attempt, reads,
                 now, crashes, triages, overlap, touched>>
-----------------------------------------------------------------------------
\* The worker process that runs the task dies; background tasks are in memory only.
Crash(e) ==
  /\ pc[e] \notin Ended /\ crashes < MaxCrashes
  /\ crashes' = crashes + 1 /\ Goto(e, "lost")
  /\ UNCHANGED <<store, attempt, reads, now, faults, triages, hist>>

\* PATCH /incidents/auto/{id}: investigating and resolved are both "closed" here.
Triage(i) ==
  /\ i \in Opened /\ triages < MaxTriage
  /\ \E s \in {"open", "closed"} :
       s # incidents[i].status /\ incidents' = [incidents EXCEPT ![i].status = s]
  /\ triages' = triages + 1 /\ touched' = touched \cup {i}
  /\ UNCHANGED <<docs, alerts, mirrored, task, now, faults, crashes, swallowed, overlap>>

Tick ==
  /\ now < MaxTime /\ now' = now + 1
  /\ UNCHANGED <<store, task, faults, crashes, triages, hist>>

Run(e) ==
  \/ Evaluate(e) \/ Save(e) \/ GiveUp(e) \/ Mirror(e)
  \/ Dedupe(e) \/ Count(e) \/ FindOpen(e) \/ Coalesce(e) \/ Create(e)
  \/ AbandonFolding(e)

Next ==
  \/ \E e \in Events : Submit(e) \/ Run(e) \/ Crash(e) \/ Triage(e)
  \/ Tick

Spec == Init /\ [][Next]_vars
\* A queued task runs on: the event loop resumes every coroutine whose call returned.
FairSpec == Spec /\ \A e \in Events : WF_vars(Run(e))
-----------------------------------------------------------------------------
TypeOK ==
  /\ docs \in [Events -> Doc \cup {None}]
  /\ incidents \in [Events -> Incident \cup {None}]
  /\ alerts \in [Events -> Nat]
  /\ mirrored \subseteq Events
  /\ pc \in [Events -> Places]
  /\ attempt \in [Events -> 0..Attempts]
  /\ matches \in [Events -> Nat] /\ votes \in [Events -> Nat] /\ since \in [Events -> Nat]
  /\ found \in [Events -> Snapshot \cup {None}]
  /\ now \in Nat /\ faults \in Nat /\ crashes \in Nat /\ triages \in Nat
  /\ swallowed \subseteq Events /\ touched \subseteq Events
  /\ overlap \in [Events -> SUBSET Events]

(* However tasks retry, fail and interleave, no event is counted into two      *)
(* incidents, and an incident holds only events of its user.                   *)
OneIncidentPerEvent ==
  /\ \A i, j \in Opened : i # j => incidents[i].related \cap incidents[j].related = {}
  /\ \A i \in Opened : \A e \in incidents[i].related : UserOf[e] = UserOf[i]

(* Two incidents of one user created within the hour are the work of two tasks *)
(* that passed each other between find and insert, or of an analyst who had    *)
(* closed one of them: nothing else splits a burst.                            *)
SplitOnlyByRace ==
  \A i, j \in Opened :
    (i # j /\ UserOf[i] = UserOf[j] /\ incidents[i].at <= incidents[j].at
           /\ incidents[j].at <= incidents[i].at + Window)
      => i \in overlap[j] \/ j \in overlap[i] \/ {i, j} \cap touched # {}

(* An incident's severity or event_count goes down only when an event is       *)
(* folded in from a snapshot taken before another event was folded into the    *)
(* same incident: without that race they ratchet.                              *)
SlipsOnlyByRace ==
  [][\A i \in Opened :
       (\/ incidents'[i].severity < incidents[i].severity
        \/ incidents'[i].count < incidents[i].count)
         => \E e \in Events : /\ pc[e] = "coalesce" /\ pc'[e] = "mirror"
                              /\ found[e].id = i
                              /\ overlap[e] \cap incidents[i].related # {}]_vars

(* A task that ended without a crash and without a swallowed error did all it  *)
(* owes: its event is completed with the verdict stored, mirrored, alerted and *)
(* listed under the policy that matched it (once per attempt at most), and in  *)
(* an incident when a rule selects it - or it is marked failed.                *)
ReportedUnlessSwallowed ==
  \A e \in Events : (pc[e] = "done" /\ e \notin swallowed) =>
    \/ docs[e].status = "failed"
    \/ /\ docs[e].status = "completed" /\ docs[e].blocked = Verdict(e)
       /\ e \in mirrored
       /\ e \in Matched => alerts[e] > 0 /\ docs[e].matched \in 1..attempt[e]
       /\ Level[e] > 0 => Folded(e)

(* An accepted event does not stay "pending", unless its worker crashed or the *)
(* final "failed" write was itself lost.                                       *)
EventsSettle ==
  \A e \in Events : (docs[e] # None) ~>
    (docs[e] # None /\ (docs[e].status # "pending" \/ pc[e] = "lost" \/ e \in swallowed))
-----------------------------------------------------------------------------
(* The docstring of _auto_create_incident:                                     *)
(* "Triggers: ... Repeated violations from same user (5+ events in 1 hour)":   *)
(* once enough blocked events of one user have been processed without an       *)
(* error, the user has an incident.                                            *)
=============================================================================
