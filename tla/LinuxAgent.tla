------------------------------ MODULE LinuxAgent ------------------------------
(***************************************************************************)
(* Policies on one Linux machine: the agent loads the bundle it cached,     *)
(* asks the server for a newer one every minute, starts and stops the file  *)
(* observers to match and writes the bundle back to the cache.  A bundle is *)
(* what the agent needs of it: whether it has file policies, the paths they *)
(* name, and the destinations its transfer policies name; the server's      *)
(* version is a function of the content.                                    *)
(***************************************************************************)
EXTENDS Naturals, FiniteSets

CONSTANTS Paths,       \* directories policies name
          Default,     \* monitored_paths of the agent's own configuration
          MaxEdits,    \* bound on changes of the server's policies
          MaxDisk,     \* bound on directories made or removed
          MaxFaults    \* bound on outages, crashes and failing steps

VARIABLES
  server,   \* the bundle the server would send now
  up,       \* the server answers
  exists,   \* the directories there are
  pc,       \* what the agent's policy thread does
  bundle,   \* policy_bundle, whose version is active_policy_version; or None
  answer,   \* the bundle of a sync's answer
  cache,    \* policy_bundle.cache
  files,    \* file observers: which paths they are kept for, and which still see events
  dests,    \* the same of the transfer destinations
  kept,     \* history: directories that have been there since each set was started
  broken,   \* history: setting the observers of the installed bundle failed
  unsaved,  \* history: the installed bundle could not be written to the cache
  edits, disk, faults

env == <<server, up, exists>>
vars == <<server, up, exists, pc, bundle, answer, cache, files, dests, kept, broken, unsaved,
          edits, disk, faults>>

None == [none |-> TRUE]
Bundles == [has : BOOLEAN, files : SUBSET Paths, dests : SUBSET Paths]
Observers == [set : SUBSET Paths, live : SUBSET Paths]
NoObservers == [set |-> {}, live |-> {}]
Kept == [files : SUBSET Paths, dests : SUBSET Paths]

\* A policy without paths watches the configured ones.
Resolved(b) == IF b.files # {} THEN b.files ELSE Default

\* Starting observers passes over what the set holds and what is not there.
Started(o, paths) ==
  LET new == (paths \cap exists) \ o.set
  IN [set |-> o.set \cup new, live |-> o.live \cup new]

\* Mutant: what is no longer named keeps its observer.
ReconciledAdds(o, active, paths) ==
  IF active THEN Started(o, paths) ELSE NoObservers

\* A set that differs from the paths named, also because one of them is not
\* there, is stopped and started again.
Reconciled(o, active, paths) ==
  IF ~active THEN NoObservers ELSE IF o.set = paths THEN o ELSE Started(NoObservers, paths)

\* Starting one can raise, and those after it are then not started.
Partly(o, paths) ==
  IF o.set = paths THEN {}
  ELSE {Started(NoObservers, some) : some \in (SUBSET (paths \cap exists)) \ {paths \cap exists}}

\* What has been there since a set was started, which one that fits is not again.
Since(o, paths, there) == IF o.set = paths THEN there ELSE exists

\* The observers after _apply_policy_bundle: of files, then of destinations.
Applied(b) ==
  /\ files' = Reconciled(files, b.has, Resolved(b))
  /\ dests' = Reconciled(dests, b.dests # {}, b.dests)
  /\ kept' = [files |-> Since(files, Resolved(b), kept.files), dests |-> Since(dests, b.dests, kept.dests)]
  /\ broken' = FALSE
  /\ UNCHANGED faults

FilesFail(b) ==
  /\ b.has /\ files' \in Partly(files, Resolved(b))
  /\ kept' = [kept EXCEPT !.files = exists]
  /\ UNCHANGED dests

DestsFail(b) ==
  /\ files' = Reconciled(files, b.has, Resolved(b))
  /\ dests' \in Partly(dests, b.dests)
  /\ kept' = [files |-> Since(files, Resolved(b), kept.files), dests |-> exists]

ApplyFails(b) ==
  /\ faults < MaxFaults /\ faults' = faults + 1
  /\ FilesFail(b) \/ DestsFail(b)
  /\ broken' = TRUE

Apply(b) == bundle' = b /\ (Applied(b) \/ ApplyFails(b))

(***************************************************************************)
(* The agent.  pc: off; load, before the first sync; ask and idle, before   *)
(* and between syncs; apply with an answer; save with a bundle applied;     *)
(* and first, whether start() has still to start the observers.             *)
(***************************************************************************)

At(step) == pc.at = step
Go(step) == pc' = [pc EXCEPT !.at = step]

\* start(): registration, and the cached bundle before anything else.
Start ==
  /\ At("off")
  /\ pc' = [at |-> "ask", first |-> TRUE]
  /\ IF cache = None
     THEN UNCHANGED <<bundle, files, dests, kept, broken, faults>>
     ELSE Apply(cache)
  /\ unsaved' = FALSE
  /\ UNCHANGED <<env, answer, cache, edits, disk>>

\* After the first sync, whatever became of it, start() starts the observers.
Settled ==
  /\ pc' = [at |-> "idle", first |-> FALSE]
  /\ IF pc.first /\ bundle' # None /\ bundle'.has
     THEN files' = Started(files, Resolved(bundle'))
     ELSE UNCHANGED files

\* The server does not answer, or answers that the version is up to date.
SyncNothing ==
  /\ At("ask")
  /\ ~up \/ bundle = server
  /\ UNCHANGED bundle
  /\ Settled
  /\ UNCHANGED <<env, answer, cache, dests, kept, broken, unsaved, edits, disk, faults>>

SyncAnswer ==
  /\ At("ask") /\ up /\ bundle # server
  /\ answer' = server
  /\ Go("apply")
  /\ UNCHANGED <<env, bundle, cache, files, dests, kept, broken, unsaved, edits, disk, faults>>

\* The version is installed before the bundle is applied: when that raises, the
\* next sync is told that the agent is up to date.
SyncApply ==
  /\ At("apply")
  /\ Apply(answer)
  /\ unsaved' = TRUE
  /\ pc' = [pc EXCEPT !.at = IF broken' THEN "raised" ELSE "save"]
  /\ answer' = None
  /\ UNCHANGED <<env, cache, edits, disk>>

SyncRaised ==
  /\ At("raised")
  /\ UNCHANGED bundle
  /\ Settled
  /\ UNCHANGED <<env, answer, cache, dests, kept, broken, unsaved, edits, disk, faults>>

\* Mutant: the bundle is not written to the cache.
SyncForgets(ok) == UNCHANGED cache

\* Written beside the cache and renamed; a full disk only leaves a warning.
Saved(ok) == cache' = IF ok THEN bundle ELSE cache

SyncSave ==
  /\ At("save")
  /\ \E ok \in BOOLEAN :
       /\ ok \/ faults < MaxFaults
       /\ Saved(ok)
       /\ unsaved' = ~ok
       /\ faults' = faults + (IF ok THEN 0 ELSE 1)
  /\ UNCHANGED bundle
  /\ Settled
  /\ UNCHANGED <<env, answer, dests, kept, broken, edits, disk>>

\* Mutant: the loop ends with the first sync.
SyncOnce == At("idle") /\ pc.first /\ Go("ask")

\* policy_sync_loop
SyncAgain == At("idle") /\ Go("ask")

SyncLoop ==
  /\ SyncAgain
  /\ UNCHANGED <<env, bundle, answer, cache, files, dests, kept, broken, unsaved, edits, disk, faults>>

Agent == Start \/ SyncNothing \/ SyncAnswer \/ SyncApply \/ SyncRaised \/ SyncSave \/ SyncLoop

(***************************************************************************)
(* The machine, the disk and the server                                     *)
(***************************************************************************)

Crash ==
  /\ ~At("off") /\ faults < MaxFaults
  /\ pc' = [at |-> "off", first |-> TRUE]
  /\ bundle' = None /\ answer' = None
  /\ files' = NoObservers /\ dests' = NoObservers
  /\ broken' = FALSE
  /\ faults' = faults + 1
  /\ UNCHANGED <<env, cache, kept, unsaved, edits, disk>>

EditPolicies ==
  /\ edits < MaxEdits
  /\ \E b \in Bundles \ {server} : server' = b
  /\ edits' = edits + 1
  /\ UNCHANGED <<disk, up, exists, pc, bundle, answer, cache, files, dests, kept, broken, unsaved, faults>>

\* A directory that goes takes the kernel's watch with it; the observer stays in
\* the set.
DirectoryChanges ==
  /\ disk < MaxDisk
  /\ \E p \in Paths :
       /\ exists' = IF p \in exists THEN exists \ {p} ELSE exists \cup {p}
       /\ files' = [files EXCEPT !.live = @ \ {p}]
       /\ dests' = [dests EXCEPT !.live = @ \ {p}]
       /\ kept' = [files |-> kept.files \ {p}, dests |-> kept.dests \ {p}]
  /\ disk' = disk + 1
  /\ UNCHANGED <<edits, server, up, pc, bundle, answer, cache, broken, unsaved, faults>>

Network ==
  /\ up => faults < MaxFaults
  /\ up' = ~up
  /\ faults' = faults + (IF up THEN 1 ELSE 0)
  /\ UNCHANGED <<server, exists, pc, bundle, answer, cache, files, dests, kept, broken, unsaved, edits, disk>>

Init ==
  /\ server \in Bundles
  /\ up = TRUE /\ exists = Paths
  /\ pc = [at |-> "off", first |-> TRUE]
  /\ bundle = None /\ answer = None /\ cache = None
  /\ files = NoObservers /\ dests = NoObservers /\ kept = [files |-> Paths, dests |-> Paths]
  /\ broken = FALSE /\ unsaved = FALSE
  /\ edits = 0 /\ disk = 0 /\ faults = 0

Next == Agent \/ Crash \/ EditPolicies \/ DirectoryChanges \/ Network

\* The agent's loop goes on, and an outage ends.
Fairness == WF_vars(Agent) /\ WF_vars(Network /\ ~up)

Spec == Init /\ [][Next]_vars

(***************************************************************************)
(* Properties                                                               *)
(***************************************************************************)

TypeOK ==
  /\ server \in Bundles /\ up \in BOOLEAN /\ exists \subseteq Paths
  /\ pc \in [at : {"off", "ask", "apply", "raised", "save", "idle"}, first : BOOLEAN]
  /\ {bundle, answer, cache} \subseteq Bundles \cup {None}
  /\ files \in Observers /\ dests \in Observers
  /\ files.live \subseteq files.set /\ dests.live \subseteq dests.set
  /\ kept \in Kept /\ kept.files \cup kept.dests \subseteq exists
  /\ {broken, unsaved} \subseteq BOOLEAN
  /\ edits \in 0..MaxEdits /\ disk \in 0..MaxDisk /\ faults \in 0..MaxFaults

\* What an installed bundle names, and has been there since its observers were
\* started, is watched, and nothing the bundle does not name is.
Watches(o, active, paths, there) ==
  IF active THEN o.set \subseteq paths /\ paths \cap there \subseteq o.live ELSE o = NoObservers

\* Between syncs the observers are those of the installed bundle, unless starting
\* one of them failed: none is left over from an older bundle and none is missing
\* for a directory that was there (one that went and came back stays in the set,
\* unwatched, and a bundle that names the same paths does not change that).
WatchesFollowBundle ==
  (At("idle") /\ bundle # None /\ ~broken) =>
    /\ Watches(files, bundle.has, Resolved(bundle), kept.files)
    /\ Watches(dests, bundle.dests # {}, bundle.dests, kept.dests)

\* A restart without the server enforces the bundle the agent had, unless that
\* could not be applied or written.
RestartKeepsBundle ==
  (At("idle") /\ bundle # None /\ ~broken /\ ~unsaved) => cache = bundle

\* Once policies and network have settled, the agent has the server's bundle.
BundlesArrive == <>[](bundle = server)
=============================================================================
