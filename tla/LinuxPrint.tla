------------------------------ MODULE LinuxPrint ------------------------------
(***************************************************************************)
(* Printing from a Linux machine: every few seconds the agent lists the     *)
(* jobs CUPS has queued, handles each one the list before did not have,     *)
(* classifies it by its title, cancels a restricted one and reports it.     *)
(***************************************************************************)
EXTENDS Naturals, FiniteSets

CONSTANTS Jobs,
          Restricted,  \* jobs whose title has a restricted word
          MaxFaults    \* bound on commands that fail

VARIABLES
  job,        \* job[j]: new, queued, printed or cancelled
  lastJobs,   \* _last_job_ids
  poll,       \* the list being worked through, and what of it is left; None between polls
  reports,    \* what the server was told: job, blocked, how long the job had been seen
  refused,    \* history: jobs CUPS refused to cancel
  seen,       \* history: jobs a list had while they were queued
  faults

vars == <<job, lastJobs, poll, reports, refused, seen, faults>>

None == [on |-> FALSE]

SubmitJob(j) ==
  /\ job[j] = "new" /\ job' = [job EXCEPT ![j] = "queued"]
  /\ UNCHANGED <<lastJobs, poll, reports, refused, seen, faults>>

\* The printer takes the job.
Printed(j) ==
  /\ job[j] = "queued" /\ job' = [job EXCEPT ![j] = "printed"]
  /\ UNCHANGED <<lastJobs, poll, reports, refused, seen, faults>>

Queued == {j \in Jobs : job[j] = "queued"}

\* Mutant: a list that cannot be had is taken for an empty one.
FailedIsEmpty == lastJobs' = {}

\* A failing lpstat leaves the poll without a trace.
AfterFailure == UNCHANGED lastJobs

List ==
  /\ poll = None
  /\ poll' = [on |-> TRUE, all |-> Queued, left |-> Queued]
  /\ seen' = seen \cup Queued
  /\ UNCHANGED <<job, lastJobs, reports, refused, faults>>

ListFails ==
  /\ poll = None /\ faults < MaxFaults
  /\ faults' = faults + 1
  /\ AfterFailure
  /\ UNCHANGED <<job, poll, reports, refused, seen>>

\* Cancelling works only while the job is queued.
Cancelled(j, ok) ==
  /\ ok => j \in Restricted /\ job[j] = "queued"
  /\ job' = IF ok THEN [job EXCEPT ![j] = "cancelled"] ELSE job
  /\ refused' = IF j \in Restricted /\ ~ok /\ job[j] = "queued" THEN refused \cup {j} ELSE refused
  /\ (j \in Restricted /\ ~ok /\ job[j] = "queued") => faults < MaxFaults
  /\ faults' = IF j \in Restricted /\ ~ok /\ job[j] = "queued" THEN faults + 1 ELSE faults

\* _check_print_jobs goes through the list; what the list before had is passed over.
HandleJob ==
  /\ poll.on
  /\ \E j \in poll.left :
       /\ poll' = [poll EXCEPT !.left = @ \ {j}]
       /\ IF j \in lastJobs THEN UNCHANGED <<job, reports, refused, faults>>
          ELSE \E ok \in BOOLEAN :
                 /\ Cancelled(j, ok)
                 /\ reports' = [reports EXCEPT ![j] = @ \cup {[blocked |-> ok, n |-> Cardinality(@)]}]
  /\ UNCHANGED <<lastJobs, seen>>

PollDone ==
  /\ poll.on /\ poll.left = {}
  /\ lastJobs' = poll.all /\ poll' = None
  /\ UNCHANGED <<job, reports, refused, seen, faults>>

Init ==
  /\ job = [j \in Jobs |-> "new"] /\ lastJobs = {} /\ poll = None
  /\ reports = [j \in Jobs |-> {}] /\ refused = {} /\ seen = {} /\ faults = 0

Next == (\E j \in Jobs : SubmitJob(j) \/ Printed(j)) \/ List \/ ListFails \/ HandleJob \/ PollDone
Spec == Init /\ [][Next]_vars

TypeOK ==
  /\ job \in [Jobs -> {"new", "queued", "printed", "cancelled"}]
  /\ lastJobs \subseteq Jobs /\ seen \subseteq Jobs /\ refused \subseteq Jobs
  /\ poll = None \/ (poll.left \subseteq poll.all /\ poll.all \subseteq Jobs)
  /\ \A j \in Jobs : \A r \in reports[j] : r.blocked \in BOOLEAN /\ r.n \in 0..MaxFaults + 1

\* A job is handled once however many polls list it and however many fail in
\* between, and between polls every job that was ever listed has been.
HandledOnce ==
  \A j \in Jobs : Cardinality(reports[j]) <= 1 /\ (poll = None /\ j \in seen => reports[j] # {})
=============================================================================
