-------------------------- MODULE Endpoint_proofs --------------------------
(*****************************************************************************)
(* Proofs about the parts at the edges, for any paths, threads, disks, jobs, *)
(* messages, workers and requests, and any number of steps.                  *)
(*                                                                           *)
(* Each part has an invariant of its own, shown from its module's Init and   *)
(* Next alone. EndpointSpec implies the specification of each part, so the   *)
(* invariant holds of the composition, and from it the part's property.      *)
(*                                                                           *)
(* What the invariants add to the properties is what is under way: the       *)
(* bundle being applied (LinuxAtWork), the age of a creation that is not yet *)
(* sent (CreationsApart), the announcements that lead from what is           *)
(* remembered of a node to what is there (NodesAreFollowed), the list being  *)
(* worked through (HandledIsKnown), the list that is being replaced          *)
(* (HasReason), the parts asked about so far (AskedSoFar) and the request    *)
(* that is half served (OneAtATime).                                         *)
(*****************************************************************************)
EXTENDS Endpoint, FiniteSetTheorems, SequenceTheorems, TLAPS

-----------------------------------------------------------------------------
(* The Linux agent's bundles *)

\* What the agent works on is there, and nothing while it is off.
LinuxAtWork ==
  /\ pc.at = "off" => bundle = Linux!None
  /\ pc.at = "apply" => answer \in Linux!Bundles
  /\ pc.at \in {"save", "raised"} => bundle \in Linux!Bundles

\* A directory that has been there since its observers were started is watched.
SeenSince ==
  /\ watched.set \cap kept.files \subseteq watched.live
  /\ dests.set \cap kept.dests \subseteq dests.live

\* The set is that of the paths named, but for those that have been away.
Names(o, enforced, paths, there) ==
  IF enforced THEN o.set \subseteq paths /\ paths \cap there \subseteq o.set ELSE o = Linux!NoObservers

\* Once a bundle is applied whole, the observers are those it names.
FollowsBundle ==
  (bundle # Linux!None /\ ~broken) =>
    /\ Names(watched, bundle.has, Linux!Resolved(bundle), kept.files)
    /\ Names(dests, bundle.dests # {}, bundle.dests, kept.dests)

\* It is in the cache, unless writing it failed.
SavedBundle == (bundle # Linux!None /\ ~broken /\ ~unsaved) => cache = bundle

LinuxInv == Linux!TypeOK /\ LinuxAtWork /\ SeenSince /\ FollowsBundle /\ SavedBundle

\* Before the first bundle there is none.
LEMMA NoneIsNoBundle == Linux!None \notin Linux!Bundles
BY DEF Linux!None, Linux!Bundles

LEMMA LinuxBegins == Linux!Init => LinuxInv
<1> SUFFICES ASSUME Linux!Init PROVE LinuxInv
  OBVIOUS
<1>1. Linux!TypeOK
  <2>1. Linux!NoObservers \in Linux!Observers
    BY DEF Linux!NoObservers, Linux!Observers
  <2>2. kept \in Linux!Kept /\ {broken, unsaved} \subseteq BOOLEAN
    BY DEF Linux!Init, Linux!Kept
  <2> QED BY <2>1, <2>2, LinuxAssumption DEF LinuxAssumption, Linux!Init, Linux!TypeOK, Linux!NoObservers
<1>2. LinuxAtWork /\ SeenSince /\ FollowsBundle /\ SavedBundle
  BY NoneIsNoBundle DEF Linux!Init, Linux!NoObservers, LinuxAtWork, SeenSince, FollowsBundle, SavedBundle
<1> QED BY <1>1, <1>2 DEF LinuxInv

LEMMA StartedAfresh ==
  ASSUME exists \subseteq Paths, NEW paths \in SUBSET Paths
  PROVE  LET r == Linux!Started(Linux!NoObservers, paths) IN
           r \in Linux!Observers /\ r.set = paths \cap exists /\ r.live = paths \cap exists
BY DEF Linux!Started, Linux!NoObservers, Linux!Observers

\* Observers are started and stopped until they are those asked for.
LEMMA ReconciledFits ==
  ASSUME exists \subseteq Paths, NEW o \in Linux!Observers, o.live \subseteq o.set,
         NEW there \in SUBSET exists, o.set \cap there \subseteq o.live,
         NEW enforced \in BOOLEAN, NEW paths \in SUBSET Paths
  PROVE  LET r == Linux!Reconciled(o, enforced, paths)
             since == Linux!Since(o, paths, there)
         IN /\ r \in Linux!Observers /\ r.live \subseteq r.set
            /\ since \subseteq exists /\ r.set \cap since \subseteq r.live
            /\ Names(r, enforced, paths, since)
<1>1. CASE ~enforced
  BY <1>1 DEF Linux!Reconciled, Linux!Since, Linux!NoObservers, Linux!Observers, Names
<1>2. CASE enforced /\ o.set = paths
  BY <1>2 DEF Linux!Reconciled, Linux!Since, Names
<1>3. CASE enforced /\ o.set # paths
  BY <1>3, StartedAfresh DEF Linux!Reconciled, Linux!Since, Names
<1> QED BY <1>1, <1>2, <1>3

\* A directory that is not there cannot be watched: what may come of the rest.
LEMMA PartlyFits ==
  ASSUME exists \subseteq Paths, NEW o, NEW paths \in SUBSET Paths, NEW r \in Linux!Partly(o, paths)
  PROVE  r \in Linux!Observers /\ r.live \subseteq r.set /\ r.set \cap exists \subseteq r.live
<1>1. o.set # paths
  BY DEF Linux!Partly
<1>2. PICK some \in SUBSET (paths \cap exists) : r = Linux!Started(Linux!NoObservers, some)
  BY <1>1 DEF Linux!Partly
<1> QED BY <1>2, StartedAfresh

LEMMA BundleTyped ==
  ASSUME NEW b \in Linux!Bundles
  PROVE  b.has \in BOOLEAN /\ Linux!Resolved(b) \in SUBSET Paths /\ b.dests \in SUBSET Paths
BY LinuxAssumption DEF LinuxAssumption, Linux!Bundles, Linux!Resolved

\* Applying a bundle leaves observers that fit it, or counts as broken.
LEMMA ApplyFits ==
  ASSUME LinuxInv, NEW b \in Linux!Bundles, Linux!Apply(b), UNCHANGED exists
  PROVE  /\ bundle' = b /\ broken' \in BOOLEAN /\ faults' \in 0 .. MaxFaults
         /\ watched' \in Linux!Observers /\ dests' \in Linux!Observers
         /\ watched'.live \subseteq watched'.set /\ dests'.live \subseteq dests'.set
         /\ kept' \in Linux!Kept /\ kept'.files \cup kept'.dests \subseteq exists
         /\ SeenSince' /\ FollowsBundle'
<1> DEFINE paths == Linux!Resolved(b)
           files == Linux!Reconciled(watched, b.has, paths)
           filesSince == Linux!Since(watched, paths, kept.files)
           dest == Linux!Reconciled(dests, b.dests # {}, b.dests)
           destSince == Linux!Since(dests, b.dests, kept.dests)
<1>0. /\ exists \subseteq Paths /\ watched \in Linux!Observers /\ dests \in Linux!Observers
      /\ watched.live \subseteq watched.set /\ dests.live \subseteq dests.set
      /\ kept.files \in SUBSET exists /\ kept.dests \in SUBSET exists
      /\ kept = [files |-> kept.files, dests |-> kept.dests]
      /\ watched.set \cap kept.files \subseteq watched.live /\ dests.set \cap kept.dests \subseteq dests.live
      /\ faults \in 0 .. MaxFaults
  BY DEF LinuxInv, Linux!TypeOK, Linux!Kept, SeenSince
<1>1. b.has \in BOOLEAN /\ paths \in SUBSET Paths /\ b.dests \in SUBSET Paths
  BY BundleTyped
<1>2. /\ files \in Linux!Observers /\ files.live \subseteq files.set
      /\ filesSince \subseteq exists /\ files.set \cap filesSince \subseteq files.live
      /\ Names(files, b.has, paths, filesSince)
  BY <1>0, <1>1, ReconciledFits
<1>3. /\ dest \in Linux!Observers /\ dest.live \subseteq dest.set
      /\ destSince \subseteq exists /\ dest.set \cap destSince \subseteq dest.live
      /\ Names(dest, b.dests # {}, b.dests, destSince)
  BY <1>0, <1>1, ReconciledFits
<1>4. bundle' = b
  BY DEF Linux!Apply
<1> HIDE DEF files, filesSince, dest, destSince, paths
<1>5. CASE Linux!Applied(b)
  <2>1. /\ watched' = files /\ dests' = dest /\ broken' = FALSE /\ faults' = faults
        /\ kept' = [files |-> filesSince, dests |-> destSince]
    BY <1>5 DEF Linux!Applied, files, filesSince, dest, destSince, paths
  <2>2. FollowsBundle'
    BY <2>1, <1>2, <1>3, <1>4 DEF FollowsBundle, paths
  <2> QED BY <2>1, <2>2, <1>0, <1>2, <1>3, <1>4 DEF SeenSince, Linux!Kept
<1>6. CASE Linux!ApplyFails(b)
  <2>1. broken' = TRUE /\ faults' \in 0 .. MaxFaults
    BY <1>6, <1>0, LinuxAssumption DEF LinuxAssumption, Linux!ApplyFails
  <2>2. CASE Linux!FilesFail(b)
    <3>1. /\ watched' \in Linux!Partly(watched, paths) /\ dests' = dests
          /\ kept' = [files |-> exists, dests |-> kept.dests]
      BY <2>2, <1>0 DEF Linux!FilesFail, paths
    <3>2. watched' \in Linux!Observers /\ watched'.live \subseteq watched'.set
          /\ watched'.set \cap exists \subseteq watched'.live
      BY <3>1, <1>0, <1>1, PartlyFits
    <3> QED BY <2>1, <3>1, <3>2, <1>0, <1>4 DEF SeenSince, FollowsBundle, Linux!Kept
  <2>3. CASE Linux!DestsFail(b)
    <3>1. /\ dests' \in Linux!Partly(dests, b.dests) /\ watched' = files
          /\ kept' = [files |-> filesSince, dests |-> exists]
      BY <2>3, <1>0 DEF Linux!DestsFail, files, filesSince, paths
    <3>2. dests' \in Linux!Observers /\ dests'.live \subseteq dests'.set
          /\ dests'.set \cap exists \subseteq dests'.live
      BY <3>1, <1>0, <1>1, PartlyFits
    <3> QED BY <2>1, <3>1, <3>2, <1>0, <1>2, <1>4 DEF SeenSince, FollowsBundle, Linux!Kept
  <2> QED BY <2>2, <2>3, <1>6 DEF Linux!ApplyFails
<1> QED BY <1>5, <1>6 DEF Linux!Apply

\* The first sync done, the observers that were not there are started.
LEMMA SettledFits ==
  ASSUME LinuxInv, Linux!Settled, bundle' \in Linux!Bundles \cup {Linux!None},
         UNCHANGED <<exists, dests, kept, broken, bundle>>
  PROVE  /\ pc' \in [at : {"idle"}, first : BOOLEAN]
         /\ watched' \in Linux!Observers /\ watched'.live \subseteq watched'.set
         /\ SeenSince' /\ FollowsBundle'
<1>0. /\ exists \subseteq Paths /\ watched \in Linux!Observers /\ watched.live \subseteq watched.set
      /\ kept.files \subseteq exists
  BY DEF LinuxInv, Linux!TypeOK
<1>1. pc' \in [at : {"idle"}, first : BOOLEAN]
  BY DEF Linux!Settled
<1>2. CASE watched' = watched
  BY <1>0, <1>1, <1>2 DEF LinuxInv, SeenSince, FollowsBundle
<1>3. CASE /\ bundle' \in Linux!Bundles /\ bundle'.has
           /\ watched' = Linux!Started(watched, Linux!Resolved(bundle))
  <2> DEFINE paths == Linux!Resolved(bundle)
             new == (paths \cap exists) \ watched.set
  <2>1. paths \in SUBSET Paths
    BY <1>3, BundleTyped
  <2>2. watched' = [set |-> watched.set \cup new, live |-> watched.live \cup new]
    BY <1>3 DEF Linux!Started
  <2> HIDE DEF paths
  <2>3. watched' \in Linux!Observers /\ watched'.live \subseteq watched'.set
    BY <2>1, <2>2, <1>0 DEF Linux!Observers
  <2>4. SeenSince'
    BY <2>2 DEF LinuxInv, SeenSince
  <2>5. FollowsBundle'
    <3> SUFFICES ASSUME bundle # Linux!None, ~broken PROVE FollowsBundle'
      BY DEF FollowsBundle
    <3>1. /\ Names(watched, TRUE, paths, kept.files)
          /\ Names(dests, bundle.dests # {}, bundle.dests, kept.dests)
      BY <1>3 DEF LinuxInv, FollowsBundle, paths, Names
    <3>2. Names(watched', TRUE, paths, kept.files)
      BY <2>2, <3>1, <1>0 DEF Names
    <3> QED BY <3>1, <3>2, <1>3 DEF FollowsBundle, Names, paths
  <2> QED BY <1>1, <2>3, <2>4, <2>5
<1> QED BY <1>2, <1>3 DEF Linux!Settled

LEMMA LinuxSteps == LinuxInv /\ [Linux!Next]_(Linux!vars) => LinuxInv'
<1> SUFFICES ASSUME LinuxInv, [Linux!Next]_(Linux!vars) PROVE LinuxInv'
  OBVIOUS
<1>0. Linux!TypeOK /\ LinuxAtWork /\ SeenSince /\ FollowsBundle /\ SavedBundle
  BY DEF LinuxInv
<1>a. ASSUME Linux!Start PROVE LinuxInv'
  <2>1. /\ pc' \in [at : {"ask"}, first : BOOLEAN] /\ unsaved' = FALSE
        /\ UNCHANGED <<server, up, exists, answer, cache, edits, disk>>
    BY <1>a DEF Linux!Start, Linux!env
  <2>2. CASE cache = Linux!None
    <3>1. UNCHANGED <<bundle, watched, dests, kept, broken, faults>>
      BY <1>a, <2>2 DEF Linux!Start
    <3>2. bundle = Linux!None
      BY <1>a, <1>0 DEF Linux!Start, Linux!At, LinuxAtWork
    <3> QED BY <1>0, <2>1, <3>1, <3>2 DEF LinuxInv, Linux!TypeOK, LinuxAtWork, SeenSince, FollowsBundle, SavedBundle
  <2>3. CASE cache # Linux!None
    <3>1. Linux!Apply(cache) /\ cache \in Linux!Bundles
      BY <1>a, <1>0, <2>3 DEF Linux!Start, Linux!TypeOK
    <3>2. /\ bundle' = cache /\ broken' \in BOOLEAN /\ faults' \in 0 .. MaxFaults
          /\ watched' \in Linux!Observers /\ dests' \in Linux!Observers
          /\ watched'.live \subseteq watched'.set /\ dests'.live \subseteq dests'.set
          /\ kept' \in Linux!Kept /\ kept'.files \cup kept'.dests \subseteq exists
          /\ SeenSince' /\ FollowsBundle'
      BY <3>1, <2>1, ApplyFits
    <3>3. LinuxAtWork' /\ SavedBundle'
      BY <2>1, <3>2 DEF LinuxAtWork, SavedBundle
    <3>4. Linux!TypeOK'
      BY <1>0, <2>1, <3>1, <3>2 DEF Linux!TypeOK
    <3> QED BY <3>2, <3>3, <3>4 DEF LinuxInv
  <2> QED BY <2>2, <2>3
<1>b. ASSUME Linux!SyncNothing PROVE LinuxInv'
  <2>1. /\ Linux!Settled
        /\ UNCHANGED <<server, up, exists, bundle, answer, cache, dests, kept, broken, unsaved, edits, disk, faults>>
    BY <1>b DEF Linux!SyncNothing, Linux!env
  <2>2. /\ pc' \in [at : {"idle"}, first : BOOLEAN]
        /\ watched' \in Linux!Observers /\ watched'.live \subseteq watched'.set
        /\ SeenSince' /\ FollowsBundle'
    BY <1>0, <2>1, SettledFits DEF Linux!TypeOK
  <2> QED BY <1>0, <2>1, <2>2 DEF LinuxInv, Linux!TypeOK, LinuxAtWork, SavedBundle
<1>c. ASSUME Linux!SyncAnswer PROVE LinuxInv'
  <2>1. /\ answer' = server /\ pc.at = "ask" /\ pc' = [pc EXCEPT !.at = "apply"]
        /\ UNCHANGED <<server, up, exists, bundle, cache, watched, dests, kept, broken, unsaved, edits, disk, faults>>
    BY <1>c DEF Linux!SyncAnswer, Linux!env, Linux!Go, Linux!At
  <2>2. Linux!TypeOK' /\ LinuxAtWork'
    BY <1>0, <2>1 DEF Linux!TypeOK, LinuxAtWork
  <2> QED BY <1>0, <2>1, <2>2 DEF LinuxInv, SeenSince, FollowsBundle, SavedBundle
<1>d. ASSUME Linux!SyncApply PROVE LinuxInv'
  <2>1. /\ Linux!Apply(answer) /\ answer \in Linux!Bundles /\ unsaved' = TRUE /\ answer' = Linux!None
        /\ pc' = [pc EXCEPT !.at = IF broken' THEN "raised" ELSE "save"]
        /\ UNCHANGED <<server, up, exists, cache, edits, disk>>
    BY <1>d, <1>0 DEF Linux!SyncApply, Linux!env, Linux!At, LinuxAtWork
  <2>2. /\ bundle' = answer /\ broken' \in BOOLEAN /\ faults' \in 0 .. MaxFaults
        /\ watched' \in Linux!Observers /\ dests' \in Linux!Observers
        /\ watched'.live \subseteq watched'.set /\ dests'.live \subseteq dests'.set
        /\ kept' \in Linux!Kept /\ kept'.files \cup kept'.dests \subseteq exists
        /\ SeenSince' /\ FollowsBundle'
    BY <2>1, ApplyFits
  <2>3. pc' \in [at : {"raised", "save"}, first : BOOLEAN]
    BY <2>1, <2>2, <1>0 DEF Linux!TypeOK
  <2>4. LinuxAtWork' /\ SavedBundle'
    BY <2>1, <2>2, <2>3 DEF LinuxAtWork, SavedBundle
  <2>5. Linux!TypeOK'
    BY <1>0, <2>1, <2>2, <2>3 DEF Linux!TypeOK
  <2> QED BY <2>2, <2>4, <2>5 DEF LinuxInv
<1>e. ASSUME Linux!SyncRaised PROVE LinuxInv'
  <2>1. /\ Linux!Settled
        /\ UNCHANGED <<server, up, exists, bundle, answer, cache, dests, kept, broken, unsaved, edits, disk, faults>>
    BY <1>e DEF Linux!SyncRaised, Linux!env
  <2>2. /\ pc' \in [at : {"idle"}, first : BOOLEAN]
        /\ watched' \in Linux!Observers /\ watched'.live \subseteq watched'.set
        /\ SeenSince' /\ FollowsBundle'
    BY <1>0, <2>1, SettledFits DEF Linux!TypeOK
  <2> QED BY <1>0, <2>1, <2>2 DEF LinuxInv, Linux!TypeOK, LinuxAtWork, SavedBundle
<1>f. ASSUME Linux!SyncSave PROVE LinuxInv'
  <2>1. PICK ok \in BOOLEAN : Linux!Saved(ok) /\ unsaved' = ~ok /\ (ok \/ faults < MaxFaults)
                              /\ faults' = faults + (IF ok THEN 0 ELSE 1)
    BY <1>f DEF Linux!SyncSave
  <2>2. /\ Linux!Settled /\ bundle \in Linux!Bundles
        /\ UNCHANGED <<server, up, exists, bundle, answer, dests, kept, broken, edits, disk>>
    BY <1>f, <1>0 DEF Linux!SyncSave, Linux!env, Linux!At, LinuxAtWork
  <2>3. /\ pc' \in [at : {"idle"}, first : BOOLEAN]
        /\ watched' \in Linux!Observers /\ watched'.live \subseteq watched'.set
        /\ SeenSince' /\ FollowsBundle'
    BY <1>0, <2>2, SettledFits
  <2>4. faults' \in 0 .. MaxFaults /\ cache' \in {cache, bundle} /\ (ok => cache' = bundle)
    BY <2>1, <1>0, LinuxAssumption DEF LinuxAssumption, Linux!TypeOK, Linux!Saved
  <2>5. Linux!TypeOK'
    BY <1>0, <2>1, <2>2, <2>3, <2>4 DEF Linux!TypeOK
  <2> QED BY <2>1, <2>2, <2>3, <2>4, <2>5 DEF LinuxInv, LinuxAtWork, SavedBundle
<1>g. ASSUME Linux!SyncLoop PROVE LinuxInv'
  BY <1>g, <1>0 DEF LinuxInv, Linux!SyncLoop, Linux!SyncAgain, Linux!Go, Linux!At, Linux!env, Linux!TypeOK, LinuxAtWork,
     SeenSince, FollowsBundle, SavedBundle
<1>h. ASSUME Linux!Crash PROVE LinuxInv'
  <2>1. /\ pc' = [at |-> "off", first |-> TRUE] /\ bundle' = Linux!None /\ answer' = Linux!None
        /\ watched' = Linux!NoObservers /\ dests' = Linux!NoObservers
        /\ broken' = FALSE /\ faults' \in 0 .. MaxFaults
        /\ UNCHANGED <<server, up, exists, cache, kept, unsaved, edits, disk>>
    BY <1>h, <1>0, LinuxAssumption DEF LinuxAssumption, Linux!Crash, Linux!env, Linux!TypeOK
  <2>2. /\ Linux!NoObservers \in Linux!Observers
        /\ Linux!NoObservers.live = {} /\ Linux!NoObservers.set = {}
    BY DEF Linux!NoObservers, Linux!Observers
  <2>3. {broken', unsaved'} \subseteq BOOLEAN
    BY <1>0, <2>1 DEF Linux!TypeOK
  <2>4. Linux!TypeOK'
    BY <1>0, <2>1, <2>2, <2>3 DEF Linux!TypeOK
  <2> QED BY <2>1, <2>2, <2>4 DEF LinuxInv, LinuxAtWork, SeenSince, FollowsBundle, SavedBundle
<1>i. ASSUME Linux!EditPolicies PROVE LinuxInv'
  BY <1>i, <1>0, LinuxAssumption
     DEF LinuxAssumption, LinuxInv, Linux!EditPolicies, Linux!TypeOK, LinuxAtWork, SeenSince, FollowsBundle,
         SavedBundle
<1>j. ASSUME Linux!DirectoryChanges PROVE LinuxInv'
  <2>1. PICK p \in Paths :
          /\ exists' = IF p \in exists THEN exists \ {p} ELSE exists \cup {p}
          /\ watched' = [watched EXCEPT !.live = @ \ {p}]
          /\ dests' = [dests EXCEPT !.live = @ \ {p}]
          /\ kept' = [files |-> kept.files \ {p}, dests |-> kept.dests \ {p}]
    BY <1>j DEF Linux!DirectoryChanges
  <2>2. /\ disk' \in 0 .. MaxDisk
        /\ UNCHANGED <<edits, server, up, pc, bundle, answer, cache, broken, unsaved, faults>>
    BY <1>j, <1>0, LinuxAssumption DEF LinuxAssumption, Linux!TypeOK, Linux!DirectoryChanges
  <2>3. /\ watched'.set = watched.set /\ watched'.live = watched.live \ {p}
        /\ dests'.set = dests.set /\ dests'.live = dests.live \ {p}
        /\ watched' \in Linux!Observers /\ dests' \in Linux!Observers
        /\ kept'.files = kept.files \ {p} /\ kept'.dests = kept.dests \ {p}
    BY <1>0, <2>1 DEF Linux!TypeOK, Linux!Observers
  <2>4. kept' \in Linux!Kept /\ kept'.files \cup kept'.dests \subseteq exists' /\ exists' \subseteq Paths
    BY <1>0, <2>1 DEF Linux!TypeOK, Linux!Kept
  <2>5. Linux!TypeOK' /\ LinuxAtWork' /\ SeenSince' /\ SavedBundle'
    BY <1>0, <2>2, <2>3, <2>4 DEF Linux!TypeOK, LinuxAtWork, SeenSince, SavedBundle
  <2>6. ASSUME NEW o \in {watched, dests}, NEW q, q.set = o.set, q.live = o.live \ {p},
               q \in Linux!Observers, o \in Linux!Observers, NEW enforced, NEW paths, NEW there,
               Names(o, enforced, paths, there)
        PROVE  Names(q, enforced, paths, there \ {p})
    BY <2>6 DEF Names, Linux!NoObservers, Linux!Observers
  <2>7. FollowsBundle'
    BY <1>0, <2>2, <2>3, <2>6 DEF FollowsBundle, Linux!TypeOK, Linux!Resolved
  <2> QED BY <2>5, <2>7 DEF LinuxInv
<1>k. ASSUME Linux!Network PROVE LinuxInv'
  BY <1>k, <1>0, LinuxAssumption
     DEF LinuxAssumption, LinuxInv, Linux!Network, Linux!TypeOK, LinuxAtWork, SeenSince, FollowsBundle, SavedBundle
<1>l. ASSUME UNCHANGED Linux!vars PROVE LinuxInv'
  BY <1>l, <1>0 DEF LinuxInv, Linux!vars, Linux!TypeOK, LinuxAtWork, SeenSince, FollowsBundle, SavedBundle
<1> QED BY <1>a, <1>b, <1>c, <1>d, <1>e, <1>f, <1>g, <1>h, <1>i, <1>j, <1>k, <1>l DEF Linux!Next, Linux!Agent

\* The invariant says more than the property.
LEMMA BundleKept == LinuxInv => BundleIsKept
<1> SUFFICES ASSUME LinuxInv PROVE BundleIsKept
  OBVIOUS
<1>1. SeenSince /\ FollowsBundle /\ SavedBundle
  BY DEF LinuxInv
<1>2. Linux!RestartKeepsBundle
  BY <1>1 DEF Linux!RestartKeepsBundle, SavedBundle
<1>3. Linux!WatchesFollowBundle
  BY <1>1 DEF Linux!WatchesFollowBundle, Linux!Watches, FollowsBundle, Names, SeenSince
<1> QED BY <1>2, <1>3 DEF BundleIsKept

\* The composition runs the Linux agent as its module says.
LEMMA LinuxRuns == EndpointSpec => Linux!Spec
<1>1. EndpointInit => Linux!Init
  BY DEF EndpointInit
<1>2. [EndpointNext]_endpointVars => [Linux!Next]_(Linux!vars)
  <2> SUFFICES ASSUME [EndpointNext]_endpointVars PROVE Linux!Next \/ UNCHANGED linuxVars
    BY DEF linuxVars, Linux!vars
  <2>1. ASSUME NEW p, p # "linux", Runs(p) PROVE UNCHANGED linuxVars
    BY <2>1 DEF Runs
  <2>2. "linux" \notin Actions /\ "linux" \notin Relays
    BY DEF Actions, Relays
  <2>3. UNCHANGED endpointVars => UNCHANGED linuxVars
    BY DEF endpointVars
  <2> QED BY <2>1, <2>2, <2>3, Zenon DEF EndpointNext
<1> QED BY <1>1, <1>2, PTL DEF EndpointSpec, Linux!Spec

LEMMA LinuxHolds == EndpointSpec => []LinuxInv
<1>1. Linux!Spec => []LinuxInv
  BY LinuxBegins, LinuxSteps, PTL DEF Linux!Spec
<1> QED BY <1>1, LinuxRuns, PTL

\* The observers of the Linux agent are those of the newest bundle it applied whole,
\* and a restart that cannot reach the server finds that bundle in the cache
\* (_apply_policy_bundle, _reconcile_monitors, _load_cached_policy_bundle).
THEOREM BundleIsKeptHolds == EndpointSpec => []BundleIsKept
BY LinuxHolds, BundleKept, PTL

-----------------------------------------------------------------------------
(* The Linux agent's files *)

FileEvents == {"created", "modified", "moved", "deleted"}
AgeValues == {"fresh", "recent", "old"}
FateWords == {"none", "known", "lost", "repeat", "passed"}
Resting == [at |-> "idle"]
Reading == [at : {"read"}, type : FileEvents, age : AgeValues]
Acting == [at : {"act"}, type : FileEvents, age : AgeValues, version : 1 .. MaxFileOps]

\* The types, which are the same under every action.
FilesTyped ==
  /\ file \in 0 .. MaxFileOps /\ fileOps \in 0 .. MaxFileOps /\ ticks \in 0 .. MaxTicks /\ large \in BOOLEAN
  /\ queue \in [Threads -> Seq(FileEvents)]
  /\ th \in [Threads -> {Resting} \cup Reading \cup Acting]
  /\ recent \in [FileEvents -> AgeValues] /\ born \in AgeValues
  /\ posted \in [FileEvents -> AgeValues] /\ twice \in BOOLEAN /\ fate \in FateWords

\* What happened at age a happened no later than what happened at age b.
Older(a, b) == a = b \/ a = "old" \/ (a = "recent" /\ b = "fresh")

\* The table has a creation from when it was taken, and of the other events none
\* younger than the last that was posted.
TableIsTrue ==
  /\ born = recent["created"]
  /\ \A k \in FileEvents \ {"created"} : Older(recent[k], posted[k])

Creating == {t \in Threads : th[t].at # "idle" /\ th[t].type = "created"}

\* No creation, posted or on its way, is younger than the table has it, and of any
\* two one is old.
CreationsApart ==
  /\ ~twice
  /\ Older(posted["created"], recent["created"])
  /\ \A t \in Creating : Older(th[t].age, recent["created"]) /\ "old" \in {th[t].age, posted["created"]}
  /\ \A t, u \in Creating : t # u => "old" \in {th[t].age, th[u].age}

\* The content of the file is too large, or something became of an event of it,
\* or an event is still to be handled.
ContentIsKnown ==
  file # 0 =>
    \/ large \/ fate # "none"
    \/ \E t \in Threads : th[t].at = "act" /\ th[t].version = file
    \/ \E t \in Threads : th[t].at = "read" \/ queue[t] # <<>>

FilesInv == FilesTyped /\ TableIsTrue /\ CreationsApart /\ ContentIsKnown

LEMMA FilesTypedMeans == \A a : FilesTyped <=> Files(a)!TypeOK
BY DEF FilesTyped, Files!TypeOK, FileEvents, AgeValues, FateWords, Resting, Reading, Acting, Files!EventTypes,
       Files!Ages, Files!Fates, Files!Idle

LEMMA FileShapes ==
  /\ Resting.at = "idle"
  /\ \A w \in Reading : w.at = "read" /\ w.type \in FileEvents /\ w.age \in AgeValues
  /\ \A w \in Acting : /\ w.at = "act" /\ w.type \in FileEvents /\ w.age \in AgeValues
                       /\ w.version \in 1 .. MaxFileOps
  /\ "created" \in FileEvents /\ "modified" \in FileEvents /\ "deleted" \in FileEvents
BY DEF Resting, Reading, Acting, FileEvents

LEMMA FilesBegin == EndpointInit => FilesInv
<1> SUFFICES ASSUME Files("log")!Init PROVE FilesInv
  BY DEF EndpointInit
<1>1. /\ file = 0 /\ fileOps = 0 /\ ticks = 0 /\ born = "old" /\ large = FALSE /\ twice = FALSE /\ fate = "none"
      /\ queue = [t \in Threads |-> <<>>] /\ th = [t \in Threads |-> Resting]
      /\ recent = [k \in FileEvents |-> "old"] /\ posted = [k \in FileEvents |-> "old"]
  BY DEF Files!Init, Files!Idle, Files!EventTypes, Resting, FileEvents
<1>2. FilesTyped
  <2>1. queue \in [Threads -> Seq(FileEvents)]
    BY <1>1
  <2>2. th \in [Threads -> {Resting} \cup Reading \cup Acting]
    BY <1>1
  <2>3. recent \in [FileEvents -> AgeValues] /\ posted \in [FileEvents -> AgeValues] /\ born \in AgeValues
    BY <1>1 DEF AgeValues
  <2>4. file \in 0 .. MaxFileOps /\ fileOps \in 0 .. MaxFileOps /\ ticks \in 0 .. MaxTicks
    BY <1>1, FilesAssumption DEF FilesAssumption
  <2>5. large \in BOOLEAN /\ twice \in BOOLEAN /\ fate \in FateWords
    BY <1>1 DEF FateWords
  <2> QED BY <2>1, <2>2, <2>3, <2>4, <2>5 DEF FilesTyped
<1>3. TableIsTrue /\ ContentIsKnown
  BY <1>1 DEF TableIsTrue, ContentIsKnown, FileEvents, Older
<1>4. Creating = {}
  BY <1>1 DEF Creating, Resting
<1>5. CreationsApart
  BY <1>1, <1>4 DEF CreationsApart, FileEvents, Older
<1> QED BY <1>2, <1>3, <1>5 DEF FilesInv

\* What becomes of an event is noted of the content that is on the disk.
LEMMA FateStands ==
  ASSUME FilesTyped, NEW a \in Actions, NEW word \in FateWords \ {"none"}, Files(a)!Met(word)
  PROVE  fate' \in FateWords /\ (file # 0 => fate' # "none")
BY DEF Files!Met, FilesTyped, FateWords

\* A thread takes an event from its queue.
LEMMA QueueShrinks ==
  ASSUME FilesTyped, NEW t \in Threads, queue[t] # <<>>, queue' = [queue EXCEPT ![t] = Tail(@)]
  PROVE  Head(queue[t]) \in FileEvents /\ queue' \in [Threads -> Seq(FileEvents)]
BY DEF FilesTyped

\* A thread takes an event: one that is too soon after its like is dropped, and a
\* creation that goes on becomes the youngest.
LEMMA FilesTake == ASSUME NEW a \in Actions, NEW t \in Threads, FilesInv, Files(a)!Take(t) PROVE FilesInv'
<1> DEFINE type == Head(queue[t])
<1>0. FilesTyped /\ TableIsTrue /\ CreationsApart /\ ContentIsKnown
  BY DEF FilesInv
<1>1. /\ th[t] = Resting /\ queue[t] # <<>> /\ queue' = [queue EXCEPT ![t] = Tail(@)]
      /\ UNCHANGED <<file, large, posted, twice, fileOps, ticks>>
  BY DEF Files!Take, Files!Idle, Resting
<1>2. type \in FileEvents /\ queue' \in [Threads -> Seq(FileEvents)]
  BY <1>0, <1>1, QueueShrinks
<1>3. CASE Files(a)!Suppressed(type)
  <2>1. UNCHANGED <<th, recent, born>> /\ (Files(a)!Repeat(type) => Files(a)!Met("repeat"))
    BY <1>3 DEF Files!Take
  <2>2. Files(a)!Repeat(type)
    <3>1. CASE recent[type] # "old" /\ type # "created"
      BY <1>0, <1>2, <3>1 DEF TableIsTrue, Older, Files!Repeat
    <3>2. CASE recent[type] # "old" /\ type = "created"
      BY <1>0, <3>2 DEF TableIsTrue, Files!Repeat
    <3>3. CASE type = "modified" /\ recent["created"] = "fresh"
      BY <1>0, <3>3 DEF TableIsTrue, Files!Repeat
    <3> QED BY <1>3, <3>1, <3>2, <3>3 DEF Files!Suppressed
  <2>3. fate' \in FateWords /\ (file # 0 => fate' # "none")
    BY <1>0, <2>1, <2>2, FateStands DEF FateWords
  <2> HIDE DEF type
  <2>4. FilesTyped'
    BY <1>0, <1>1, <1>2, <2>1, <2>3 DEF FilesTyped
  <2>5. TableIsTrue' /\ CreationsApart'
    BY <1>0, <1>1, <2>1 DEF TableIsTrue, CreationsApart, Creating
  <2>6. ContentIsKnown'
    BY <1>1, <2>3 DEF ContentIsKnown
  <2> QED BY <2>4, <2>5, <2>6 DEF FilesInv
<1>4. CASE ~Files(a)!Suppressed(type)
  <2> DEFINE w == [at |-> "read", type |-> type, age |-> "fresh"]
  <2>1. /\ th' = [th EXCEPT ![t] = w] /\ fate' = fate
        /\ recent' = IF type = "created" THEN [recent EXCEPT ![type] = "fresh"] ELSE recent
        /\ born' = IF type = "created" THEN "fresh" ELSE born
    BY <1>4 DEF Files!Take, Files!Record
  <2> HIDE DEF type
  <2>2. w \in Reading /\ w.at = "read" /\ w.type = type /\ w.age = "fresh"
    BY <1>2 DEF Reading, AgeValues
  <2> HIDE DEF w
  <2>3. /\ th' \in [Threads -> {Resting} \cup Reading \cup Acting] /\ th'[t] = w
        /\ \A u \in Threads \ {t} : th'[u] = th[u]
    BY <1>0, <2>1, <2>2 DEF FilesTyped
  <2>4. /\ recent' \in [FileEvents -> AgeValues] /\ born' \in AgeValues
        /\ type = "created" => recent'["created"] = "fresh"
        /\ \A k \in FileEvents \ {"created"} : recent'[k] = recent[k]
        /\ type # "created" => recent' = recent
    BY <1>0, <2>1 DEF FilesTyped, FileEvents, AgeValues
  <2>5. FilesTyped'
    BY <1>0, <1>1, <1>2, <2>1, <2>3, <2>4 DEF FilesTyped
  <2>6. TableIsTrue'
    BY <1>0, <1>1, <2>1, <2>4 DEF TableIsTrue
  <2>7. type = "created" => recent["created"] = "old"
    BY <1>4 DEF Files!Suppressed, type
  <2>8. Creating' = IF type = "created" THEN Creating \cup {t} ELSE Creating
    BY <1>1, <2>2, <2>3, FileShapes DEF Creating
  <2>9. CreationsApart'
    <3>1. CASE type = "created"
      <4>1. /\ \A u \in Creating : th[u].age = "old"
            /\ posted["created"] = "old"
        BY <1>0, <2>7, <3>1 DEF CreationsApart, Older
      <4>2. \A u \in Creating \ {t} : th'[u] = th[u]
        BY <2>3 DEF Creating
      <4> QED BY <1>0, <1>1, <2>2, <2>3, <2>4, <2>8, <3>1, <4>1, <4>2 DEF CreationsApart, Older
    <3>2. CASE type # "created"
      <4>1. \A u \in Creating : th'[u] = th[u]
        BY <1>1, <2>3, FileShapes DEF Creating
      <4> QED BY <1>0, <1>1, <2>4, <2>8, <3>2, <4>1 DEF CreationsApart
    <3> QED BY <3>1, <3>2
  <2>10. ContentIsKnown'
    BY <2>2, <2>3 DEF ContentIsKnown
  <2> QED BY <2>5, <2>6, <2>9, <2>10 DEF FilesInv
<1> QED BY <1>3, <1>4

\* The handler passes over an event, or fails on the file it reads.
LEMMA FilesPass ==
  ASSUME NEW a \in Actions, NEW t \in Threads, FilesInv, Files(a)!PassOver(t) \/ Files(a)!Fail(t)
  PROVE  FilesInv'
<1>0. FilesTyped /\ TableIsTrue /\ CreationsApart /\ ContentIsKnown
  BY DEF FilesInv
<1>1. /\ \/ queue[t] # <<>> /\ queue' = [queue EXCEPT ![t] = Tail(@)] /\ th' = th
         \/ th' = [th EXCEPT ![t] = Resting] /\ queue' = queue
      /\ Files(a)!Met("passed") /\ UNCHANGED <<file, large, recent, born, posted, twice, fileOps, ticks>>
  BY DEF Files!PassOver, Files!Fail, Files!Idle, Resting
<1>2. fate' \in FateWords /\ (file # 0 => fate' # "none")
  BY <1>0, <1>1, FateStands DEF FateWords
<1>3. queue' \in [Threads -> Seq(FileEvents)]
  BY <1>0, <1>1, QueueShrinks DEF FilesTyped
<1>4. th' \in [Threads -> {Resting} \cup Reading \cup Acting]
      /\ \A u \in Threads : th'[u] = th[u] \/ th'[u] = Resting
  BY <1>0, <1>1 DEF FilesTyped
<1>5. FilesTyped' /\ TableIsTrue'
  BY <1>0, <1>1, <1>2, <1>3, <1>4 DEF FilesTyped, TableIsTrue
<1>6. Creating' \subseteq Creating /\ \A u \in Creating' : th'[u] = th[u]
  BY <1>4, FileShapes DEF Creating
<1>7. CreationsApart' /\ ContentIsKnown'
  BY <1>0, <1>1, <1>2, <1>6 DEF CreationsApart, ContentIsKnown
<1> QED BY <1>5, <1>7 DEF FilesInv

\* A thread reads the file, if it is there and not too large.
LEMMA FilesRead == ASSUME NEW a \in Actions, NEW t \in Threads, FilesInv, Files(a)!Read(t) PROVE FilesInv'
<1>0. FilesTyped /\ TableIsTrue /\ CreationsApart /\ ContentIsKnown
  BY DEF FilesInv
<1>1. /\ th[t].at = "read"
      /\ UNCHANGED <<file, large, queue, recent, born, posted, twice, fate, fileOps, ticks>>
  BY DEF Files!Read
<1>2. th[t] \in Reading
  BY <1>0, <1>1, FileShapes DEF FilesTyped
<1>3. PICK w \in {Resting} \cup Acting :
        /\ th' = [th EXCEPT ![t] = w]
        /\ w \in Acting => w.type = th[t].type /\ w.age = th[t].age /\ w.version = file
        /\ file # 0 /\ ~large => w \in Acting
  <2>1. CASE file = 0 \/ large
    BY <2>1, FileShapes DEF Files!Read, Files!Idle, Resting, Acting
  <2>2. CASE ~(file = 0 \/ large)
    <3> DEFINE w == [at |-> "act", type |-> th[t].type, age |-> th[t].age, version |-> file]
    <3>1. th' = [th EXCEPT ![t] = w]
      BY <1>0, <1>1, <2>2 DEF Files!Read, FilesTyped
    <3>2. file \in 1 .. MaxFileOps
      BY <1>0, <2>2, FilesAssumption DEF FilesTyped, FilesAssumption
    <3>3. w \in Acting
      BY <1>2, <3>2, FileShapes DEF Acting
    <3> QED BY <3>1, <3>3
  <2> QED BY <2>1, <2>2
<1>4. /\ th' \in [Threads -> {Resting} \cup Reading \cup Acting] /\ th'[t] = w
      /\ \A u \in Threads \ {t} : th'[u] = th[u]
  BY <1>0, <1>3 DEF FilesTyped
<1>5. FilesTyped' /\ TableIsTrue'
  BY <1>0, <1>1, <1>4 DEF FilesTyped, TableIsTrue
<1>6. CreationsApart'
  <2>1. Creating' \subseteq Creating /\ \A u \in Creating' : th'[u].age = th[u].age
    <3> SUFFICES ASSUME NEW u \in Creating' PROVE u \in Creating /\ th'[u].age = th[u].age
      OBVIOUS
    <3>1. u \in Threads /\ th'[u].at # "idle" /\ th'[u].type = "created"
      BY DEF Creating
    <3>2. CASE u = t
      BY <1>1, <1>3, <1>4, <3>1, <3>2, FileShapes DEF Creating
    <3>3. CASE u # t
      BY <1>4, <3>1, <3>3 DEF Creating
    <3> QED BY <3>2, <3>3
  <2> QED BY <1>0, <1>1, <2>1 DEF CreationsApart
<1>7. ContentIsKnown'
  <2>1. file # 0 /\ ~large => th'[t].at = "act" /\ th'[t].version = file
    BY <1>3, <1>4, FileShapes
  <2> QED BY <1>1, <2>1 DEF ContentIsKnown
<1> QED BY <1>5, <1>6, <1>7 DEF FilesInv

\* An event that comes last in a queue, once or again.
LEMMA EventIsQueued ==
  ASSUME NEW a \in Actions, NEW q \in Seq(FileEvents), NEW event \in FileEvents
  PROVE  Files(a)!Notified(q, event) \in Seq(FileEvents) /\ Files(a)!Notified(q, event) # <<>>
BY AppendProperties DEF Files!Notified

LEMMA AllAreNotified ==
  ASSUME NEW a \in Actions, FilesTyped, NEW event \in FileEvents, Files(a)!Notify(event)
  PROVE  queue' \in [Threads -> Seq(FileEvents)]
<1>1. ASSUME NEW t \in Threads PROVE Files(a)!Notified(queue[t], event) \in Seq(FileEvents)
  BY EventIsQueued DEF FilesTyped
<1> QED BY <1>1 DEF Files!Notify

\* A thread posts its report, and quarantine takes the file away.
LEMMA FilesSend == ASSUME NEW a \in Actions, NEW t \in Threads, FilesInv, Files(a)!Send(t) PROVE FilesInv'
<1> DEFINE type == th[t].type
           age == th[t].age
<1>0. FilesTyped /\ TableIsTrue /\ CreationsApart /\ ContentIsKnown
  BY DEF FilesInv
<1>1. th[t] \in Acting
  <2>1. th[t].at = "act"
    BY DEF Files!Send
  <2> QED BY <1>0, <2>1, FileShapes DEF FilesTyped
<1>2. /\ recent' = IF type # "created" THEN [recent EXCEPT ![type] = age] ELSE recent
      /\ posted' = [posted EXCEPT ![type] = Files(a)!Younger(posted[type], age)]
      /\ twice' = (twice \/ (type = "created" /\ "old" \notin {age, posted[type]}))
      /\ th' = [th EXCEPT ![t] = Resting] /\ UNCHANGED <<large, born, fileOps, ticks>>
  BY <1>0, <1>1, FileShapes DEF Files!Send, Files!Idle, Resting, FilesTyped
<1>3. \/ file' = 0 /\ fate' = "none" /\ queue' \in [Threads -> Seq(FileEvents)]
      \/ /\ UNCHANGED <<file, queue>> /\ fate' \in FateWords
         /\ IF th[t].version = file THEN file # 0 => fate' # "none" ELSE fate' = fate
  <2>1. CASE file' = 0 /\ fate' = "none" /\ Files(a)!Notify("deleted")
    BY <1>0, <2>1, AllAreNotified, FileShapes
  <2>2. CASE /\ \E word \in {"known", "lost"} :
                  IF th[t].version = file THEN Files(a)!Met(word) ELSE UNCHANGED fate
             /\ UNCHANGED <<file, queue>>
    <3>1. CASE th[t].version = file
      BY <1>0, <2>2, <3>1, FateStands DEF FateWords
    <3>2. CASE th[t].version # file
      BY <1>0, <2>2, <3>2 DEF FilesTyped
    <3> QED BY <2>2, <3>1, <3>2
  <2> QED BY <2>1, <2>2 DEF Files!Send
<1>4. type \in FileEvents /\ age \in AgeValues
  BY <1>1, FileShapes
<1>5. \A x, y \in AgeValues : /\ Files(a)!Younger(x, y) \in AgeValues
                              /\ Older(y, Files(a)!Younger(x, y)) /\ Older(x, Files(a)!Younger(x, y))
                              /\ Files(a)!Younger(x, y) \in {x, y}
  BY DEF Files!Younger, AgeValues, Older
<1> HIDE DEF type, age
<1>6. /\ recent' \in [FileEvents -> AgeValues] /\ recent'["created"] = recent["created"]
      /\ \A k \in FileEvents : recent'[k] = IF k = type /\ type # "created" THEN age ELSE recent[k]
  BY <1>0, <1>2, <1>4, FileShapes DEF FilesTyped
<1>7. /\ posted' \in [FileEvents -> AgeValues]
      /\ \A k \in FileEvents : posted'[k] = IF k = type THEN Files(a)!Younger(posted[k], age) ELSE posted[k]
  BY <1>0, <1>2, <1>4, <1>5 DEF FilesTyped
<1>8. /\ th' \in [Threads -> {Resting} \cup Reading \cup Acting] /\ th'[t] = Resting
      /\ \A u \in Threads \ {t} : th'[u] = th[u]
  BY <1>0, <1>2 DEF FilesTyped
<1>9. twice' = FALSE
  <2>1. type = "created" => "old" \in {age, posted[type]}
    BY <1>0, <1>1, FileShapes DEF CreationsApart, Creating, type, age
  <2> QED BY <1>0, <1>2, <2>1 DEF CreationsApart, FilesTyped
<1>10. FilesTyped'
  <2>1. file' \in 0 .. MaxFileOps /\ fate' \in FateWords /\ queue' \in [Threads -> Seq(FileEvents)]
    BY <1>0, <1>3, FilesAssumption DEF FilesTyped, FateWords, FilesAssumption
  <2> QED BY <1>0, <1>2, <1>6, <1>7, <1>8, <1>9, <2>1 DEF FilesTyped
<1>11. TableIsTrue'
  <2>1. ASSUME NEW k \in FileEvents \ {"created"} PROVE Older(recent'[k], posted'[k])
    <3>1. CASE k = type
      BY <1>0, <1>4, <1>5, <1>6, <1>7, <2>1, <3>1 DEF FilesTyped
    <3>2. CASE k # type
      BY <1>0, <1>6, <1>7, <2>1, <3>2 DEF TableIsTrue
    <3> QED BY <3>1, <3>2
  <2>2. born' = recent'["created"]
    BY <1>0, <1>2, <1>6 DEF TableIsTrue
  <2> QED BY <2>1, <2>2 DEF TableIsTrue
<1>12. CreationsApart'
  <2>1. Creating' = Creating \ {t} /\ \A u \in Creating' : th'[u] = th[u]
    BY <1>8, FileShapes DEF Creating
  <2>2. type = "created" => t \in Creating
    BY <1>1, FileShapes DEF Creating, type
  <2>3. posted'["created"] = posted["created"] \/ (type = "created" /\ posted'["created"] = age)
    BY <1>0, <1>4, <1>5, <1>7, FileShapes DEF FilesTyped
  <2>4. Older(posted'["created"], recent'["created"])
    BY <1>0, <1>6, <2>2, <2>3 DEF CreationsApart, age
  <2>5. \A u \in Creating' : "old" \in {th'[u].age, posted'["created"]}
    BY <1>0, <2>1, <2>2, <2>3 DEF CreationsApart, age
  <2> QED BY <1>0, <1>6, <1>9, <2>1, <2>4, <2>5 DEF CreationsApart
<1>13. ContentIsKnown'
  <2> SUFFICES ASSUME file' # 0, fate' = "none", ~large'
               PROVE  \/ \E u \in Threads : th'[u].at = "act" /\ th'[u].version = file'
                      \/ \E u \in Threads : th'[u].at = "read" \/ queue'[u] # <<>>
    BY DEF ContentIsKnown
  <2>1. UNCHANGED <<file, queue>> /\ th[t].version # file /\ fate = "none"
    BY <1>3
  <2>2. th[t].at = "act"
    BY <1>1, FileShapes
  <2> QED BY <1>0, <1>2, <1>8, <2>1, <2>2 DEF ContentIsKnown
<1> QED BY <1>10, <1>11, <1>12, <1>13 DEF FilesInv

\* Somebody writes the file, moves one in its place or removes it.
LEMMA FilesWritten ==
  ASSUME NEW a \in Actions, FilesInv,
         \/ \E big \in BOOLEAN : \/ Files(a)!UserWrites(big)
                                 \/ \E event \in {"created", "moved"} : Files(a)!UserMoves(event, big)
         \/ Files(a)!UserRemoves
  PROVE  FilesInv'
<1>0. FilesTyped /\ TableIsTrue /\ CreationsApart /\ ContentIsKnown
  BY DEF FilesInv
<1>1. ASSUME NEW first \in FileEvents, NEW last \in FileEvents, NEW big \in BOOLEAN,
             Files(a)!Put(first, last, big)
      PROVE  FilesInv'
  <2>1. /\ fileOps' \in 1 .. MaxFileOps /\ file' = fileOps' /\ large' = big /\ fate' = "none"
        /\ queue' = [t \in Threads |-> Files(a)!Notified(Files(a)!Notified(queue[t], first), last)]
        /\ UNCHANGED <<th, recent, born, posted, twice, ticks>>
    BY <1>0, <1>1, FilesAssumption DEF FilesAssumption, FilesTyped, Files!Put
  <2>2. ASSUME NEW t \in Threads PROVE queue'[t] \in Seq(FileEvents) /\ queue'[t] # <<>>
    <3>1. Files(a)!Notified(queue[t], first) \in Seq(FileEvents)
      BY <1>0, EventIsQueued DEF FilesTyped
    <3> QED BY <2>1, <3>1, EventIsQueued
  <2>3. queue' \in [Threads -> Seq(FileEvents)]
    BY <2>1, <2>2
  <2>4. FilesTyped' /\ TableIsTrue'
    BY <1>0, <2>1, <2>3 DEF FilesTyped, TableIsTrue, FateWords
  <2>5. CreationsApart'
    BY <1>0, <2>1 DEF CreationsApart, Creating
  <2>6. ContentIsKnown'
    BY <2>2, FilesAssumption DEF FilesAssumption, ContentIsKnown
  <2> QED BY <2>4, <2>5, <2>6 DEF FilesInv
<1>2. CASE Files(a)!UserRemoves
  <2>1. /\ fileOps' \in 0 .. MaxFileOps /\ file' = 0 /\ fate' = "none" /\ Files(a)!Notify("deleted")
        /\ UNCHANGED <<large, th, recent, born, posted, twice, ticks>>
    BY <1>0, <1>2, FilesAssumption DEF FilesAssumption, FilesTyped, Files!UserRemoves
  <2>2. queue' \in [Threads -> Seq(FileEvents)]
    BY <1>0, <2>1, AllAreNotified, FileShapes
  <2>3. FilesTyped' /\ TableIsTrue' /\ ContentIsKnown'
    BY <1>0, <2>1, <2>2, FilesAssumption DEF FilesTyped, TableIsTrue, FateWords, ContentIsKnown, FilesAssumption
  <2>4. CreationsApart'
    BY <1>0, <2>1 DEF CreationsApart, Creating
  <2> QED BY <2>3, <2>4 DEF FilesInv
<1>3. \A big \in BOOLEAN :
        /\ Files(a)!UserWrites(big) => \E first \in {"created", "modified"} : Files(a)!Put(first, "modified", big)
        /\ \A event : Files(a)!UserMoves(event, big) <=> Files(a)!Put(event, event, big)
  BY DEF Files!UserWrites, Files!UserMoves
<1> QED BY <1>1, <1>2, <1>3 DEF FileEvents

\* Everything ages alike.
LEMMA AgingKeepsOrder ==
  ASSUME NEW a \in Actions, NEW x \in AgeValues, NEW y \in AgeValues
  PROVE  /\ Files(a)!Age(x) \in AgeValues /\ Files(a)!Age("old") = "old"
         /\ Older(x, y) => Older(Files(a)!Age(x), Files(a)!Age(y))
BY DEF Files!Age, AgeValues, Older

LEMMA FilesAge == ASSUME NEW a \in Actions, FilesInv, Files(a)!Tick PROVE FilesInv'
<1>0. FilesTyped /\ TableIsTrue /\ CreationsApart /\ ContentIsKnown
  BY DEF FilesInv
<1>1. /\ ticks' \in 0 .. MaxTicks /\ recent' = [k \in FileEvents |-> Files(a)!Age(recent[k])]
      /\ th' = [t \in Threads |-> IF th[t] = Resting THEN Resting
                                  ELSE [th[t] EXCEPT !.age = Files(a)!Age(@)]]
      /\ posted' = [k \in FileEvents |-> Files(a)!Age(posted[k])]
      /\ born' = Files(a)!Age(born)
      /\ UNCHANGED <<file, large, queue, twice, fate, fileOps>>
  BY <1>0, FilesAssumption
     DEF FilesAssumption, FilesTyped, Files!Tick, Files!EventTypes, FileEvents, Files!Idle, Resting
<1>2. \A x \in AgeValues : Files(a)!Age(x) \in AgeValues
  BY AgingKeepsOrder
<1>3. ASSUME NEW t \in Threads
      PROVE  /\ th'[t] \in {Resting} \cup Reading \cup Acting /\ th'[t].at = th[t].at
             /\ th[t].at # "idle" => /\ th'[t].type = th[t].type /\ th'[t].age = Files(a)!Age(th[t].age)
                                     /\ th[t].age \in AgeValues
             /\ th[t].at = "act" => th'[t].version = th[t].version
  <2>1. CASE th[t] = Resting
    BY <1>1, <2>1, FileShapes
  <2>2. CASE th[t] \in Reading
    <3>1. th'[t] = [at |-> "read", type |-> th[t].type, age |-> Files(a)!Age(th[t].age)]
      BY <1>1, <2>2 DEF Reading, Resting
    <3>2. th'[t] \in Reading
      BY <1>2, <2>2, <3>1, FileShapes DEF Reading
    <3> QED BY <2>2, <3>1, <3>2, FileShapes
  <2>3. CASE th[t] \in Acting
    <3>1. th'[t] = [at |-> "act", type |-> th[t].type, age |-> Files(a)!Age(th[t].age), version |-> th[t].version]
      BY <1>1, <2>3 DEF Acting, Resting
    <3>2. th'[t] \in Acting
      BY <1>2, <2>3, <3>1, FileShapes DEF Acting
    <3> QED BY <2>3, <3>1, <3>2, FileShapes
  <2> QED BY <1>0, <2>1, <2>2, <2>3 DEF FilesTyped
<1>4. th' \in [Threads -> {Resting} \cup Reading \cup Acting]
  BY <1>1, <1>3
<1>5. /\ recent' \in [FileEvents -> AgeValues] /\ posted' \in [FileEvents -> AgeValues] /\ born' \in AgeValues
      /\ \A k \in FileEvents : /\ recent'[k] = Files(a)!Age(recent[k]) /\ recent[k] \in AgeValues
                               /\ posted'[k] = Files(a)!Age(posted[k]) /\ posted[k] \in AgeValues
  BY <1>0, <1>1, <1>2 DEF FilesTyped
<1>6. FilesTyped'
  BY <1>0, <1>1, <1>4, <1>5 DEF FilesTyped
<1>7. TableIsTrue'
  <2>1. born' = recent'["created"]
    BY <1>0, <1>1, <1>5, FileShapes DEF TableIsTrue
  <2>2. \A k \in FileEvents \ {"created"} : Older(recent'[k], posted'[k])
    BY <1>0, <1>5, AgingKeepsOrder DEF TableIsTrue
  <2> QED BY <2>1, <2>2 DEF TableIsTrue
<1>8. CreationsApart'
  <2>1. Creating' = Creating
    BY <1>3 DEF Creating
  <2>2. \A t \in Creating : th[t].age \in AgeValues /\ th'[t].age = Files(a)!Age(th[t].age)
    BY <1>3 DEF Creating
  <2>3. /\ \A t \in Creating : Older(th'[t].age, recent'["created"])
        /\ Older(posted'["created"], recent'["created"])
    BY <1>0, <1>5, <2>2, AgingKeepsOrder, FileShapes DEF CreationsApart
  <2>4. Files(a)!Age("old") = "old"
    BY DEF Files!Age
  <2>5. /\ \A t, u \in Creating : t # u => "old" \in {th'[t].age, th'[u].age}
        /\ \A t \in Creating : "old" \in {th'[t].age, posted'["created"]}
    BY <1>0, <1>5, <2>2, <2>4, FileShapes DEF CreationsApart
  <2> QED BY <1>0, <1>1, <2>1, <2>3, <2>5 DEF CreationsApart
<1>9. ContentIsKnown'
  BY <1>0, <1>1, <1>3 DEF ContentIsKnown
<1> QED BY <1>6, <1>7, <1>8, <1>9 DEF FilesInv

LEMMA FilesSteps == ASSUME NEW a \in Actions, FilesInv, Files(a)!Next PROVE FilesInv'
BY FilesTake, FilesPass, FilesRead, FilesSend, FilesWritten, FilesAge DEF Files!Next

LEMMA FilesReported == FilesInv => ContentReported
<1> SUFFICES ASSUME FilesInv, NEW a \in Actions
             PROVE  Files(a)!ContentReported /\ Files(a)!CreatedOnce
  BY DEF ContentReported
<1>1. Files(a)!CreatedOnce
  BY DEF FilesInv, CreationsApart, Files!CreatedOnce
<1>2. Files(a)!ContentReported
  BY DEF FilesInv, ContentIsKnown, Files!ContentReported, Files!Idle
<1> QED BY <1>1, <1>2

\* The file that runs is under one action, and the invariant is of all.
LEMMA FilesHold == EndpointSpec => []FilesInv
<1>1. FilesInv /\ [EndpointNext]_endpointVars => FilesInv'
  <2> SUFFICES ASSUME FilesInv, [EndpointNext]_endpointVars PROVE FilesInv'
    OBVIOUS
  <2>1. ASSUME UNCHANGED filesVars PROVE FilesInv'
    BY <2>1 DEF filesVars, FilesInv, FilesTyped, TableIsTrue, CreationsApart, Creating, ContentIsKnown
  <2>2. ASSUME NEW p, p \notin Actions, Runs(p) PROVE UNCHANGED filesVars
    BY <2>2 DEF Runs
  <2>3. \A p \in Relays \cup {"linux", "disks", "print", "storage", "siem"} : p \notin Actions
    BY DEF Actions, Relays
  <2>4. UNCHANGED endpointVars => UNCHANGED filesVars
    BY DEF endpointVars
  <2>5. (\E a \in Actions : Files(a)!Next) \/ UNCHANGED filesVars
    BY <2>2, <2>3, <2>4, Zenon DEF EndpointNext
  <2> QED BY <2>1, <2>5, FilesSteps
<1> QED BY <1>1, FilesBegin, PTL DEF EndpointSpec

\* What is written to a watched file is reported under every action unless the
\* file is too large, the handler passed over its event or failed on it, it was
\* suppressed as a repeat, or its one post was lost; and of the observers that see
\* one creation a single one reports it (handle_file_event, send_event).
THEOREM ContentReportedHolds == EndpointSpec => []ContentReported
BY FilesHold, FilesReported, PTL

-----------------------------------------------------------------------------
(* The Linux agent's disks *)

DiskEvents == [node : Nodes, disk : Devices, action : {"add", "remove"}]
DiskReports ==
  [event : {"connect"}, disk : Devices, node : Nodes, action : {"block", "allow"}, banned : BOOLEAN] \cup
  [event : {"disconnect"}, disk : Devices, node : Nodes, action : {"disconnect"}, gone : Devices]

DisksTyped ==
  /\ udev \in Seq(DiskEvents) /\ reports \in Seq(DiskReports)
  /\ \A n \in Nodes : at[n].mounted => at[n].disk # Disks!None

\* Nothing is announced to a monitor that does not listen.
BeforeListening ==
  /\ phase # "listening" => udev = <<>>
  /\ phase = "off" => missed = {}

\* What an announcement says of its node before and after it.
Before(e) == IF e.action = "add" THEN Disks!None ELSE e.disk
After(e) == IF e.action = "add" THEN e.disk ELSE Disks!None

\* The announcements lead from what is remembered of node n to what is there:
\* h[i] is the disk at n once the first i of them are handled.
Leads(n, h) ==
  /\ h[0] = devices[n] /\ h[Len(udev)] = at[n].disk
  /\ \A i \in 1 .. Len(udev) :
       IF udev[i].node = n THEN h[i - 1] = Before(udev[i]) /\ h[i] = After(udev[i]) ELSE h[i] = h[i - 1]

Histories == [0 .. Len(udev) -> Devices \cup {Disks!None}]

\* Unless an announcement was missed there is such a history for every node.
NodesAreFollowed ==
  phase # "off" => \A n \in Nodes \ missed : \E h \in Histories : Leads(n, h)

DisksInv == Disks!TypeOK /\ DisksTyped /\ BeforeListening /\ NodesAreFollowed /\ Disks!DisconnectNamesDisk

LEMMA DisksBegin == Disks!Init => DisksInv
<1> SUFFICES ASSUME Disks!Init PROVE DisksInv
  OBVIOUS
<1>0. \A n \in Nodes : \/ at[n] = [disk |-> Disks!None, mounted |-> FALSE]
                       \/ \E d \in Devices : at[n] = [disk |-> d, mounted |-> TRUE]
  BY DEF Disks!Init, Disks!Empty
<1>1. at \in [Nodes -> [disk : Devices \cup {Disks!None}, mounted : BOOLEAN]]
  <2>1. at = [n \in Nodes |-> at[n]]
    BY DEF Disks!Init
  <2>2. \A d \in Devices \cup {Disks!None}, b \in BOOLEAN :
          [disk |-> d, mounted |-> b] \in [disk : Devices \cup {Disks!None}, mounted : BOOLEAN]
    OBVIOUS
  <2>3. ASSUME NEW n \in Nodes PROVE at[n] \in [disk : Devices \cup {Disks!None}, mounted : BOOLEAN]
    <3>1. PICK d \in Devices \cup {Disks!None}, b \in BOOLEAN : at[n] = [disk |-> d, mounted |-> b]
      BY <1>0
    <3> QED BY <2>2, <3>1
  <2> QED BY <2>1, <2>3
<1>2. /\ allow \in Disks!Allowlists /\ known \in Disks!Allowlists
      /\ udev = <<>> /\ reports = <<>> /\ missed = {} /\ left = {} /\ phase = "off" /\ usbOps = 0 /\ usbFaults = 0
      /\ devices \in [Nodes -> Devices \cup {Disks!None}]
  BY DEF Disks!Init, Disks!Allowlists
<1>3. Disks!TypeOK
  BY <1>1, <1>2, DisksAssumption DEF DisksAssumption, Disks!TypeOK
<1>4. \A n \in Nodes : at[n].mounted => at[n].disk # Disks!None
  <2> SUFFICES ASSUME NEW n \in Nodes, at[n].mounted PROVE at[n].disk # Disks!None
    OBVIOUS
  <2>1. PICK d \in Devices : at[n] = [disk |-> d, mounted |-> TRUE]
    BY <1>0
  <2> QED BY <2>1, DisksAssumption DEF DisksAssumption
<1>5. DisksTyped /\ BeforeListening /\ NodesAreFollowed /\ Disks!DisconnectNamesDisk
  BY <1>2, <1>4 DEF DisksTyped, BeforeListening, NodesAreFollowed, Disks!DisconnectNamesDisk
<1> QED BY <1>3, <1>5 DEF DisksInv

\* A disk comes or goes: it is announced, or nobody listens.
LEMMA DiskMoves ==
  ASSUME DisksInv, NEW n \in Nodes, NEW d \in Devices, NEW action \in {"add", "remove"},
         Disks!Announced(n, d, action),
         LET e == [node |-> n, disk |-> d, action |-> action]
         IN at[n].disk = Before(e) /\ at'[n].disk = After(e),
         at' \in [Nodes -> [disk : Devices \cup {Disks!None}, mounted : BOOLEAN]], at'[n].mounted = FALSE,
         \A m \in Nodes \ {n} : at'[m] = at[m],
         left' \subseteq left, usbOps' \in 0 .. MaxUsbOps,
         UNCHANGED <<allow, known, phase, devices, reports, usbFaults>>
  PROVE  DisksInv'
<1> DEFINE e == [node |-> n, disk |-> d, action |-> action]
<1>0. Disks!TypeOK /\ DisksTyped /\ BeforeListening /\ NodesAreFollowed /\ Disks!DisconnectNamesDisk
  BY DEF DisksInv
<1>1. e \in DiskEvents /\ Before(e) \in Devices \cup {Disks!None} /\ After(e) \in Devices \cup {Disks!None}
  BY DEF DiskEvents, Before, After
<1>2. at[n].disk = Before(e) /\ at'[n].disk = After(e)
  OBVIOUS
<1>3. /\ udev' = IF phase = "listening" THEN Append(udev, e) ELSE udev
      /\ missed' = IF phase = "seeded" THEN missed \cup {n} ELSE missed
  BY DEF Disks!Announced
<1> HIDE DEF e
<1>4. udev' \in Seq(DiskEvents)
  BY <1>0, <1>1, <1>3 DEF DisksTyped
<1>5. Disks!TypeOK'
  <2>1. \A i \in DOMAIN udev' : udev'[i].disk \in Devices
    <3>1. \A i \in DOMAIN udev' : udev'[i] \in DiskEvents
      BY <1>4
    <3> QED BY <3>1 DEF DiskEvents
  <2> QED BY <1>0, <1>2, <1>3, <2>1 DEF Disks!TypeOK
<1>6. DisksTyped'
  BY <1>0, <1>2, <1>4 DEF DisksTyped
<1>7. BeforeListening'
  BY <1>0, <1>3 DEF BeforeListening
<1>8. Disks!DisconnectNamesDisk'
  BY <1>0, <1>3 DEF Disks!DisconnectNamesDisk
<1>9. NodesAreFollowed'
  <2> SUFFICES ASSUME phase # "off", NEW m \in Nodes \ missed' PROVE (\E h \in Histories : Leads(m, h))'
    BY DEF NodesAreFollowed
  <2>1. PICK h \in Histories : Leads(m, h)
    BY <1>0, <1>3 DEF NodesAreFollowed
  <2>2. CASE phase = "listening"
    <3>1. /\ udev' = Append(udev, e) /\ udev \in Seq(DiskEvents) /\ Len(udev) \in Nat
          /\ Len(udev') = Len(udev) + 1
      BY <1>0, <1>3, <1>1, <2>2 DEF DisksTyped
    <3>2. at'[m].disk \in Devices \cup {Disks!None}
      BY <1>2
    <3>3. PICK g : g = [i \in 0 .. Len(udev) + 1 |-> IF i <= Len(udev) THEN h[i] ELSE at'[m].disk]
      OBVIOUS
    <3>7. g \in Histories'
      BY <2>1, <3>1, <3>2, <3>3 DEF Histories
    <3>4. g[0] = devices'[m] /\ g[Len(udev')] = at'[m].disk
      BY <2>1, <3>1, <3>3 DEF Leads
    <3>5. ASSUME NEW i \in 1 .. Len(udev')
          PROVE  IF udev'[i].node = m THEN g[i - 1] = Before(udev'[i]) /\ g[i] = After(udev'[i])
                 ELSE g[i] = g[i - 1]
      <4>1. CASE i <= Len(udev)
        <5>1. udev'[i] = udev[i] /\ g[i] = h[i] /\ g[i - 1] = h[i - 1]
          BY <3>1, <3>3, <4>1
        <5> QED BY <2>1, <3>1, <4>1, <5>1 DEF Leads
      <4>2. CASE i = Len(udev) + 1
        <5>1. udev'[i] = e /\ g[i] = at'[m].disk /\ g[i - 1] = at[m].disk
          BY <2>1, <3>1, <3>3, <4>2 DEF Leads
        <5>2. e.node = n /\ (m = n => at[m].disk = Before(e) /\ at'[m].disk = After(e))
              /\ (m # n => at'[m] = at[m])
          BY <1>2 DEF e
        <5> QED BY <5>1, <5>2
      <4> QED BY <3>1, <4>1, <4>2
    <3>6. Leads(m, g)'
      BY <3>4, <3>5 DEF Leads
    <3> QED BY <3>6, <3>7
  <2>3. CASE phase # "listening"
    <3>1. udev' = udev /\ m # n
      BY <1>3, <1>0, <2>3 DEF Disks!TypeOK
    <3>2. at'[m] = at[m]
      BY <1>2, <3>1
    <3> QED BY <2>1, <3>1, <3>2 DEF Histories, Leads
  <2> QED BY <2>2, <2>3
<1> QED BY <1>5, <1>6, <1>7, <1>8, <1>9 DEF DisksInv

\* The first announcement is handled: the history of its node begins one later.
LEMMA DiskHandled == DisksInv /\ Disks!Handle => DisksInv'
<1> SUFFICES ASSUME DisksInv, Disks!Handle PROVE DisksInv'
  OBVIOUS
<1> DEFINE e == Head(udev)
<1>0. Disks!TypeOK /\ DisksTyped /\ BeforeListening /\ NodesAreFollowed /\ Disks!DisconnectNamesDisk
  BY DEF DisksInv
<1>1. /\ phase = "listening" /\ udev # <<>> /\ udev' = Tail(udev)
      /\ devices' = [devices EXCEPT ![e.node] = After(e)]
      /\ UNCHANGED <<allow, known, phase, missed, usbOps>>
  BY DEF Disks!Handle, Disks!Tracked, After
<1>2. /\ udev \in Seq(DiskEvents) /\ e \in DiskEvents /\ udev' \in Seq(DiskEvents) /\ Len(udev) \in Nat \ {0}
      /\ Len(udev') = Len(udev) - 1 /\ \A i \in 1 .. Len(udev') : udev'[i] = udev[i + 1]
      /\ e = udev[1]
  BY <1>0, <1>1 DEF DisksTyped
<1>3. /\ at \in [Nodes -> [disk : Devices \cup {Disks!None}, mounted : BOOLEAN]]
      /\ devices \in [Nodes -> Devices \cup {Disks!None}] /\ usbFaults \in 0 .. MaxUsbFaults
      /\ left \subseteq Devices
  BY <1>0 DEF Disks!TypeOK
<1>4. e.node \in Nodes /\ e.disk \in Devices /\ e.action \in {"add", "remove"}
      /\ After(e) \in Devices \cup {Disks!None}
  BY <1>2 DEF DiskEvents, After
<1>5. e.node \notin missed => devices[e.node] = Before(e)
  <2> SUFFICES ASSUME e.node \notin missed PROVE devices[e.node] = Before(e)
    OBVIOUS
  <2>1. PICK h \in Histories : Leads(e.node, h)
    BY <1>0, <1>1, <1>4 DEF NodesAreFollowed
  <2>2. 1 \in 1 .. Len(udev) /\ 1 - 1 = 0
    BY <1>2
  <2> QED BY <1>2, <2>1, <2>2 DEF Leads
<1> HIDE DEF e
<1>6. /\ at' \in [Nodes -> [disk : Devices \cup {Disks!None}, mounted : BOOLEAN]]
      /\ \A m \in Nodes : at'[m].disk = at[m].disk /\ (at'[m].mounted => at[m].mounted)
      /\ left' \subseteq Devices /\ usbFaults' \in 0 .. MaxUsbFaults
      /\ reports' \in Seq(DiskReports) /\ Disks!DisconnectNamesDisk'
  <2>0. reports \in Seq(DiskReports)
    BY <1>0 DEF DisksTyped
  <2>1. ASSUME e.action = "add", NEW unmounted \in BOOLEAN, Disks!HandleAdd(e, unmounted)
        PROVE <1>6!:
    <3>1. PICK r \in [event : {"connect"}, disk : Devices, node : Nodes, action : {"block", "allow"},
                      banned : BOOLEAN] : reports' = Append(reports, r)
      <4>1. Disks!Banned(e.disk) \in BOOLEAN
        BY <1>0 DEF Disks!Banned, Disks!TypeOK, Disks!Allowlists
      <4>2. PICK b \in BOOLEAN : b = Disks!Banned(e.disk)
        BY <4>1
      <4> QED BY <2>1, <4>2, <1>4 DEF Disks!HandleAdd
    <3>2. reports' \in Seq(DiskReports)
      BY <2>0, <3>1 DEF DiskReports
    <3>3. Disks!DisconnectNamesDisk'
      BY <1>0, <1>1, <2>0, <3>1, <3>2 DEF Disks!DisconnectNamesDisk
    <3>4. CASE UNCHANGED <<at, left, usbFaults>>
      BY <3>2, <3>3, <3>4, <1>3
    <3>5. CASE Disks!Unmount(e.node, unmounted)
      <4>1. /\ at' \in [Nodes -> [disk : Devices \cup {Disks!None}, mounted : BOOLEAN]]
            /\ \A m \in Nodes : at'[m].disk = at[m].disk /\ (at'[m].mounted => at[m].mounted)
        <5>1. at' = [at EXCEPT ![e.node].mounted = @ /\ ~unmounted]
          BY <3>5 DEF Disks!Unmount
        <5>2. (at[e.node].mounted /\ ~unmounted) \in BOOLEAN
          OBVIOUS
        <5>3. PICK b \in BOOLEAN : b = (at[e.node].mounted /\ ~unmounted)
          BY <5>2
        <5>4. at' = [at EXCEPT ![e.node].mounted = b] /\ (b => at[e.node].mounted)
          BY <5>1, <5>3
        <5> QED BY <5>4, <1>3, <1>4
      <4>2. left' \subseteq Devices
        BY <3>5, <1>0, <1>3, <1>4 DEF Disks!Unmount, DisksTyped
      <4>3. usbFaults' \in 0 .. MaxUsbFaults
        BY <3>5, <1>3, DisksAssumption DEF Disks!Unmount, DisksAssumption
      <4> QED BY <3>2, <3>3, <4>1, <4>2, <4>3
    <3> QED BY <2>1, <3>4, <3>5 DEF Disks!HandleAdd
  <2>2. ASSUME e.action = "remove", Disks!HandleRemove(e)
        PROVE <1>6!:
    <3>1. UNCHANGED <<at, left, usbFaults>>
      BY <2>2 DEF Disks!HandleRemove
    <3>2. CASE devices[e.node] = Disks!None
      <4>1. reports' = reports
        BY <2>2, <3>2 DEF Disks!HandleRemove
      <4> QED BY <3>1, <4>1, <2>0, <1>0, <1>1, <1>3 DEF Disks!DisconnectNamesDisk
    <3>3. CASE devices[e.node] # Disks!None
      <4> DEFINE r == [event |-> "disconnect", disk |-> devices[e.node], node |-> e.node,
                       action |-> "disconnect", gone |-> e.disk]
      <4>1. reports' = Append(reports, r)
        BY <2>2, <3>3 DEF Disks!HandleRemove
      <4>2. r \in DiskReports
        BY <1>3, <1>4, <3>3 DEF DiskReports
      <4>3. reports' \in Seq(DiskReports)
        BY <2>0, <4>1, <4>2
      <4>4. e.node \notin missed => r.disk = r.gone
        BY <1>5, <2>2 DEF Before
      <4>5. Disks!DisconnectNamesDisk'
        <5> SUFFICES ASSUME NEW i \in DOMAIN reports', reports'[i].event = "disconnect",
                            reports'[i].node \notin missed'
                     PROVE  reports'[i].disk = reports'[i].gone
          BY DEF Disks!DisconnectNamesDisk
        <5>1. CASE i \in DOMAIN reports
          <6>1. reports'[i] = reports[i]
            BY <2>0, <4>1, <5>1
          <6> QED BY <5>1, <6>1, <1>0, <1>1 DEF Disks!DisconnectNamesDisk
        <5>2. CASE i = Len(reports) + 1
          <6>1. reports'[i] = r
            BY <2>0, <4>1, <5>2
          <6> QED BY <4>4, <6>1, <1>1
        <5> QED BY <2>0, <4>1, <4>2, <5>1, <5>2
      <4> QED BY <3>1, <4>3, <4>5, <1>3
    <3> QED BY <3>2, <3>3
  <2> QED BY <2>1, <2>2 DEF Disks!Handle, e
<1>7. Disks!TypeOK'
  <2>1. \A i \in DOMAIN udev' : udev'[i].disk \in Devices
    <3>1. \A i \in DOMAIN udev' : udev'[i] \in DiskEvents
      BY <1>2
    <3> QED BY <3>1 DEF DiskEvents
  <2>2. \A i \in DOMAIN reports' : reports'[i].disk \in Devices
    BY <1>6 DEF DiskReports
  <2>3. devices' \in [Nodes -> Devices \cup {Disks!None}]
    BY <1>1, <1>3, <1>4
  <2> QED BY <1>0, <1>1, <1>6, <2>1, <2>2, <2>3 DEF Disks!TypeOK
<1>8. DisksTyped'
  BY <1>0, <1>2, <1>6 DEF DisksTyped
<1>9. BeforeListening'
  BY <1>1 DEF BeforeListening
<1>10. NodesAreFollowed'
  <2> SUFFICES ASSUME NEW m \in Nodes \ missed PROVE (\E h \in Histories : Leads(m, h))'
    BY <1>1 DEF NodesAreFollowed
  <2>1. PICK h \in Histories : Leads(m, h)
    BY <1>0, <1>1 DEF NodesAreFollowed
  <2>7. PICK g : g = [i \in 0 .. Len(udev) - 1 |-> h[i + 1]]
    OBVIOUS
  <2>2. g \in Histories'
    BY <2>1, <2>7, <1>2 DEF Histories
  <2>3. g[0] = h[1] /\ g[Len(udev')] = h[Len(udev)]
    BY <1>2, <2>7
  <2>4. h[1] = devices'[m]
    <3>1. IF e.node = m THEN h[1] = After(e) ELSE h[1] = devices[m]
      <4>1. 1 \in 1 .. Len(udev) /\ 1 - 1 = 0
        BY <1>2
      <4> QED BY <2>1, <4>1, <1>2 DEF Leads
    <3> QED BY <3>1, <1>1, <1>3, <1>4
  <2>5. ASSUME NEW i \in 1 .. Len(udev')
        PROVE  IF udev'[i].node = m THEN g[i - 1] = Before(udev'[i]) /\ g[i] = After(udev'[i])
               ELSE g[i] = g[i - 1]
    <3>1. i + 1 \in 1 .. Len(udev) /\ (i + 1) - 1 = i
      BY <1>2
    <3>2. udev'[i] = udev[i + 1] /\ g[i] = h[i + 1] /\ g[i - 1] = h[i]
      BY <1>2, <2>7
    <3> QED BY <2>1, <3>1, <3>2 DEF Leads
  <2>6. Leads(m, g)'
    BY <2>1, <2>3, <2>4, <2>5, <1>6 DEF Leads
  <2> QED BY <2>2, <2>6
<1> QED BY <1>6, <1>7, <1>8, <1>9, <1>10 DEF DisksInv

LEMMA DisksStep == DisksInv /\ [Disks!Next]_(Disks!vars) => DisksInv'
<1> SUFFICES ASSUME DisksInv, [Disks!Next]_(Disks!vars) PROVE DisksInv'
  OBVIOUS
<1>0. Disks!TypeOK /\ DisksTyped /\ BeforeListening /\ NodesAreFollowed /\ Disks!DisconnectNamesDisk
  BY DEF DisksInv
<1>1. /\ at \in [Nodes -> [disk : Devices \cup {Disks!None}, mounted : BOOLEAN]]
      /\ Disks!Empty = [disk |-> Disks!None, mounted |-> FALSE]
      /\ usbOps \in 0 .. MaxUsbOps
  BY <1>0 DEF Disks!TypeOK, Disks!Empty
<1>a. ASSUME NEW n \in Nodes, NEW d \in Devices, Disks!PlugIn(n, d) PROVE DisksInv'
  <2> DEFINE e == [node |-> n, disk |-> d, action |-> "add"]
  <2>1. Before(e) = Disks!None /\ After(e) = d
    BY DEF Before, After
  <2>2. /\ at[n].disk = Before(e) /\ at'[n].disk = After(e) /\ at'[n].mounted = FALSE
        /\ at' \in [Nodes -> [disk : Devices \cup {Disks!None}, mounted : BOOLEAN]]
        /\ \A m \in Nodes \ {n} : at'[m] = at[m]
    <3>1. at[n] = Disks!Empty /\ at' = [at EXCEPT ![n].disk = d]
      BY <1>a DEF Disks!PlugIn
    <3>2. at[n].disk = Disks!None /\ at[n].mounted = FALSE
      BY <1>1, <3>1
    <3> HIDE DEF e
    <3> QED BY <1>1, <2>1, <3>1, <3>2
  <2>3. /\ left' \subseteq left /\ usbOps' \in 0 .. MaxUsbOps /\ Disks!Announced(n, d, "add")
        /\ UNCHANGED <<allow, known, phase, devices, reports, usbFaults>>
    BY <1>a, <1>1, DisksAssumption DEF DisksAssumption, Disks!PlugIn
  <2> QED BY <2>2, <2>3, DiskMoves
<1>b. ASSUME NEW n \in Nodes, Disks!Pull(n) PROVE DisksInv'
  <2> DEFINE d == at[n].disk
             e == [node |-> n, disk |-> d, action |-> "remove"]
  <2>1. d \in Devices
    <3>1. at[n] # Disks!Empty
      BY <1>b DEF Disks!Pull
    <3>2. at[n].disk # Disks!None
      BY <3>1, <1>0, <1>1 DEF DisksTyped
    <3> QED BY <1>1, <3>2
  <2>2. Before(e) = at[n].disk /\ After(e) = Disks!None
    BY DEF Before, After
  <2>3. /\ at'[n].disk = After(e) /\ at'[n].mounted = FALSE
        /\ at' \in [Nodes -> [disk : Devices \cup {Disks!None}, mounted : BOOLEAN]]
        /\ \A m \in Nodes \ {n} : at'[m] = at[m]
    <3>1. at' = [at EXCEPT ![n] = Disks!Empty]
      BY <1>b DEF Disks!Pull
    <3> QED BY <1>1, <2>2, <3>1
  <2>4. /\ left' \subseteq left /\ usbOps' \in 0 .. MaxUsbOps /\ Disks!Announced(n, d, "remove")
        /\ UNCHANGED <<allow, known, phase, devices, reports, usbFaults>>
    BY <1>b, <1>1, DisksAssumption DEF DisksAssumption, Disks!Pull
  <2> QED BY <2>1, <2>2, <2>3, <2>4, DiskMoves
<1>c. ASSUME NEW n \in Nodes, Disks!Automount(n) PROVE DisksInv'
  <2>1. /\ at[n] # Disks!Empty /\ at' = [at EXCEPT ![n].mounted = TRUE]
        /\ UNCHANGED <<allow, known, phase, udev, devices, reports, missed, left, usbOps, usbFaults>>
    BY <1>c DEF Disks!Automount
  <2>2. at[n].disk # Disks!None
    BY <2>1, <1>0, <1>1 DEF DisksTyped
  <2>3. /\ at' \in [Nodes -> [disk : Devices \cup {Disks!None}, mounted : BOOLEAN]]
        /\ \A m \in Nodes : at'[m].disk = at[m].disk /\ (m # n => at'[m] = at[m])
    BY <1>1, <2>1
  <2>4. Disks!TypeOK' /\ DisksTyped' /\ BeforeListening' /\ Disks!DisconnectNamesDisk'
    BY <1>0, <2>1, <2>2, <2>3 DEF Disks!TypeOK, DisksTyped, BeforeListening, Disks!DisconnectNamesDisk
  <2>5. NodesAreFollowed'
    BY <1>0, <2>1, <2>3 DEF NodesAreFollowed, Leads, Histories
  <2> QED BY <2>4, <2>5 DEF DisksInv
<1>d. ASSUME Disks!EditAllowlist \/ Disks!FetchAllowlist PROVE DisksInv'
  <2>1. /\ allow' \in Disks!Allowlists /\ known' \in Disks!Allowlists /\ usbOps' \in 0 .. MaxUsbOps
        /\ UNCHANGED <<at, phase, udev, devices, reports, missed, left, usbFaults>>
    BY <1>d, <1>0, DisksAssumption DEF DisksAssumption, Disks!TypeOK, Disks!EditAllowlist, Disks!FetchAllowlist
  <2> QED BY <1>0, <2>1 DEF DisksInv, Disks!TypeOK, DisksTyped, BeforeListening, Disks!DisconnectNamesDisk,
             NodesAreFollowed, Leads, Histories
<1>e. ASSUME Disks!Seed PROVE DisksInv'
  <2>1. /\ phase = "off" /\ phase' = "seeded" /\ devices' = [n \in Nodes |-> at[n].disk]
        /\ UNCHANGED <<allow, known, at, udev, reports, missed, left, usbOps, usbFaults>>
    BY <1>e DEF Disks!Seed
  <2>2. Disks!TypeOK' /\ DisksTyped' /\ BeforeListening' /\ Disks!DisconnectNamesDisk'
    BY <1>0, <1>1, <2>1 DEF Disks!TypeOK, DisksTyped, BeforeListening, Disks!DisconnectNamesDisk
  <2>3. NodesAreFollowed'
    <3> SUFFICES ASSUME NEW n \in Nodes PROVE (\E h \in Histories : Leads(n, h))'
      BY DEF NodesAreFollowed
    <3>0. PICK h : h = [i \in 0 .. 0 |-> at[n].disk]
      OBVIOUS
    <3>1. Len(udev) = 0 /\ at[n].disk \in Devices \cup {Disks!None} /\ devices'[n] = at[n].disk
      BY <1>0, <1>1, <2>1 DEF BeforeListening
    <3>2. h \in Histories' /\ Leads(n, h)'
      BY <2>1, <3>0, <3>1 DEF Histories, Leads
    <3> QED BY <3>2
  <2> QED BY <2>2, <2>3 DEF DisksInv
<1>f. ASSUME Disks!Listen PROVE DisksInv'
  BY <1>f, <1>0 DEF Disks!Listen, DisksInv, Disks!TypeOK, DisksTyped, BeforeListening, Disks!DisconnectNamesDisk,
     NodesAreFollowed, Leads, Histories
<1>g. ASSUME Disks!Handle PROVE DisksInv'
  BY <1>g, DiskHandled
<1>h. ASSUME UNCHANGED Disks!vars PROVE DisksInv'
  BY <1>h, <1>0 DEF Disks!vars, DisksInv, Disks!TypeOK, DisksTyped, BeforeListening, Disks!DisconnectNamesDisk,
     NodesAreFollowed, Leads, Histories
<1> QED BY <1>a, <1>b, <1>c, <1>d, <1>e, <1>f, <1>g, <1>h DEF Disks!Next

LEMMA DisksRuns == EndpointSpec => Disks!Spec
<1>1. EndpointInit => Disks!Init
  BY DEF EndpointInit
<1>2. [EndpointNext]_endpointVars => [Disks!Next]_(Disks!vars)
  <2> SUFFICES ASSUME [EndpointNext]_endpointVars PROVE Disks!Next \/ UNCHANGED disksVars
    BY DEF disksVars, Disks!vars
  <2>1. ASSUME NEW p, p # "disks", Runs(p) PROVE UNCHANGED disksVars
    BY <2>1 DEF Runs
  <2>2. "disks" \notin Actions /\ "disks" \notin Relays
    BY DEF Actions, Relays
  <2>3. UNCHANGED endpointVars => UNCHANGED disksVars
    BY DEF endpointVars
  <2> QED BY <2>1, <2>2, <2>3, Zenon DEF EndpointNext
<1> QED BY <1>1, <1>2, PTL DEF EndpointSpec, Disks!Spec

\* The announcements are handled in their order, so a disconnect finds at its node
\* what the history says: the disk that left.
LEMMA DisksHold == EndpointSpec => []DisksInv
<1>1. Disks!Spec => []DisksInv
  BY DisksBegin, DisksStep, PTL DEF Disks!Spec
<1> QED BY <1>1, DisksRuns, PTL

-----------------------------------------------------------------------------
(* The Linux agent's print jobs *)

PollTyped ==
  \/ poll = Printing!None
  \/ \E all, rest \in SUBSET Jobs : poll = [on |-> TRUE, all |-> all, left |-> rest]

\* A job has no report or one.
ReportedOnce ==
  /\ printed = [j \in Jobs |-> printed[j]]
  /\ \A j \in Jobs : printed[j] = {} \/ \E b \in BOOLEAN : printed[j] = {[blocked |-> b, n |-> 0]}

\* Job j is in the list in hand, and is still to be handled.
Listed(j) == poll.on /\ j \in poll.all
Ahead(j) == poll.on /\ j \in poll.left

\* A list knows no job that is yet to come.
NewIsUnlisted == \A j \in Jobs : job[j] = "new" => ~Listed(j)

\* A job that was handled and is still queued is known from the list in hand, or
\* the list before, and one that is ahead and was handled from the list before.
HandledIsKnown ==
  \A j \in Jobs : printed[j] # {} =>
    /\ job[j] # "new"
    /\ job[j] \in {"printed", "cancelled"} \/ Listed(j) \/ (~poll.on /\ j \in lastJobs)
    /\ Ahead(j) => j \in lastJobs

\* What was listed has been handled, but for what is ahead.
KnownIsHandled ==
  \A j \in Jobs : (j \in lastJobs \/ ((Listed(j) \/ j \in seen) /\ ~Ahead(j))) => printed[j] # {}

PrintInv == Printing!TypeOK /\ PollTyped /\ ReportedOnce /\ NewIsUnlisted /\ HandledIsKnown /\ KnownIsHandled

\* The module counts with the same operator.
LEMMA PrintCardinality == \A S : Printing!Cardinality(S) = Cardinality(S)
BY DEF Printing!Cardinality, Cardinality

LEMMA PrintBegins == Printing!Init => PrintInv
BY PrintingAssumption
   DEF PrintingAssumption, Printing!Init, PrintInv, Printing!TypeOK, PollTyped, ReportedOnce, NewIsUnlisted, HandledIsKnown,
       KnownIsHandled, Printing!None, Listed, Ahead

LEMMA PrintSteps == PrintInv /\ [Printing!Next]_(Printing!vars) => PrintInv'
<1> SUFFICES ASSUME PrintInv, [Printing!Next]_(Printing!vars) PROVE PrintInv'
  OBVIOUS
<1>0. Printing!TypeOK /\ PollTyped /\ ReportedOnce /\ NewIsUnlisted /\ HandledIsKnown /\ KnownIsHandled
  BY DEF PrintInv
<1>1. Printing!None.on = FALSE
  BY DEF Printing!None
<1>2. poll.on => poll # Printing!None /\
        \E all, rest \in SUBSET Jobs : poll = [on |-> TRUE, all |-> all, left |-> rest]
  BY <1>0, <1>1 DEF PollTyped
<1>3. job \in [Jobs -> {"new", "queued", "printed", "cancelled"}]
  BY <1>0 DEF Printing!TypeOK
<1>a. ASSUME NEW j \in Jobs, Printing!SubmitJob(j) \/ Printing!Printed(j) PROVE PrintInv'
  <2>1. /\ job' \in [Jobs -> {"new", "queued", "printed", "cancelled"}]
        /\ \A i \in Jobs : job[i] \in {"printed", "cancelled"} => job'[i] = job[i]
        /\ \A i \in Jobs : job'[i] = "new" => job[i] = "new"
        /\ UNCHANGED <<lastJobs, poll, printed, denied, seen, pollFaults>>
    BY <1>a, <1>3 DEF Printing!SubmitJob, Printing!Printed
  <2> QED BY <1>0, <2>1 DEF PrintInv, Printing!TypeOK, PollTyped, ReportedOnce, NewIsUnlisted, HandledIsKnown,
             KnownIsHandled, Listed, Ahead
<1>b. ASSUME Printing!List PROVE PrintInv'
  <2> DEFINE queued == {j \in Jobs : job[j] = "queued"}
  <2>1. /\ poll = Printing!None /\ poll' = [on |-> TRUE, all |-> queued, left |-> queued]
        /\ seen' = seen \cup queued /\ UNCHANGED <<job, lastJobs, printed, denied, pollFaults>>
    BY <1>b DEF Printing!List, Printing!Queued
  <2>2. queued \in SUBSET Jobs /\ \A j \in queued : job[j] \notin {"printed", "cancelled"}
    OBVIOUS
  <2>5. \A j \in Jobs : job[j] \in {"printed", "cancelled"} \/ j \in queued \/ job[j] = "new"
    BY <1>3
  <2>6. \A j \in queued : job[j] # "new"
    OBVIOUS
  <2> HIDE DEF queued
  <2>3. Printing!TypeOK' /\ PollTyped' /\ ReportedOnce'
    BY <1>0, <2>1, <2>2 DEF Printing!TypeOK, PollTyped, ReportedOnce
  <2>4. NewIsUnlisted' /\ HandledIsKnown' /\ KnownIsHandled'
    BY <1>0, <1>1, <2>1, <2>2, <2>5, <2>6 DEF NewIsUnlisted, HandledIsKnown, KnownIsHandled, Listed, Ahead
  <2> QED BY <2>3, <2>4 DEF PrintInv
<1>c. ASSUME Printing!ListFails PROVE PrintInv'
  <2>1. UNCHANGED <<job, lastJobs, poll, printed, denied, seen>>
    BY <1>c DEF Printing!ListFails, Printing!AfterFailure
  <2> QED BY <1>0, <2>1 DEF PrintInv, Printing!TypeOK, PollTyped, ReportedOnce, NewIsUnlisted, HandledIsKnown,
             KnownIsHandled, Listed, Ahead
<1>d. ASSUME Printing!HandleJob PROVE PrintInv'
  <2>1. PICK j \in poll.left :
          /\ poll' = [poll EXCEPT !.left = @ \ {j}]
          /\ IF j \in lastJobs THEN UNCHANGED <<job, printed, denied, pollFaults>>
             ELSE \E ok \in BOOLEAN :
                    /\ Printing!Cancelled(j, ok)
                    /\ printed' = [printed EXCEPT ![j] =
                                     @ \cup {[blocked |-> ok, n |-> Printing!Cardinality(@)]}]
    BY <1>d DEF Printing!HandleJob
  <2>2. poll.on /\ UNCHANGED <<lastJobs, seen>>
    BY <1>d DEF Printing!HandleJob
  <2>3. PICK all \in SUBSET Jobs, rest \in SUBSET Jobs : poll = [on |-> TRUE, all |-> all, left |-> rest]
    BY <1>2, <2>2
  <2>4. /\ poll' = [on |-> TRUE, all |-> all, left |-> rest \ {j}] /\ j \in rest /\ j \in Jobs
        /\ rest \subseteq all
    <3>1. rest \subseteq all
      BY <1>0, <1>2, <2>2, <2>3 DEF Printing!TypeOK
    <3> QED BY <2>1, <2>3, <3>1
  <2>5. /\ job' \in [Jobs -> {"new", "queued", "printed", "cancelled"}] /\ denied' \subseteq Jobs
        /\ \A i \in Jobs : job[i] \in {"printed", "cancelled"} => job'[i] = job[i]
        /\ \A i \in Jobs : job'[i] = "new" => job[i] = "new"
    BY <1>0, <1>3, <2>1, <2>4 DEF Printing!TypeOK, Printing!Cancelled
  <2>6. /\ ReportedOnce'
        /\ \A i \in Jobs \ {j} : printed'[i] = printed[i]
        /\ printed'[j] # {} /\ (j \in lastJobs => printed'[j] = printed[j])
    <3>1. CASE j \in lastJobs
      <4>1. printed' = printed
        BY <2>1, <3>1
      <4>2. printed[j] # {}
        BY <1>0, <2>4, <3>1 DEF KnownIsHandled
      <4> QED BY <1>0, <4>1, <4>2 DEF ReportedOnce
    <3>2. CASE j \notin lastJobs
      <4>1. printed[j] = {}
        BY <1>0, <2>2, <2>3, <2>4, <3>2 DEF HandledIsKnown, Ahead
      <4>2. PICK ok \in BOOLEAN :
              printed' = [printed EXCEPT ![j] = @ \cup {[blocked |-> ok, n |-> Printing!Cardinality(@)]}]
        BY <2>1, <3>2
      <4>3. Printing!Cardinality({}) = 0
        BY PrintCardinality, FS_EmptySet
      <4>4. printed = [i \in Jobs |-> printed[i]]
        BY <1>0 DEF ReportedOnce
      <4>5. /\ printed' = [i \in Jobs |-> printed'[i]] /\ printed'[j] = {[blocked |-> ok, n |-> 0]}
            /\ \A i \in Jobs \ {j} : printed'[i] = printed[i]
        BY <4>1, <4>2, <4>3, <4>4, <2>4
      <4>6. \A i \in Jobs : printed'[i] = {} \/ \E b \in BOOLEAN : printed'[i] = {[blocked |-> b, n |-> 0]}
        BY <1>0, <4>5 DEF ReportedOnce
      <4> QED BY <4>5, <4>6, <3>2 DEF ReportedOnce
    <3> QED BY <3>1, <3>2
  <2>7. Printing!TypeOK'
    <3>1. \A i \in Jobs : \A r \in printed'[i] : r.blocked \in BOOLEAN /\ r.n \in 0 .. MaxPollFaults + 1
      <4> SUFFICES ASSUME NEW i \in Jobs, NEW r \in printed'[i]
                   PROVE  r.blocked \in BOOLEAN /\ r.n \in 0 .. MaxPollFaults + 1
        OBVIOUS
      <4>1. PICK b \in BOOLEAN : r = [blocked |-> b, n |-> 0]
        BY <2>6 DEF ReportedOnce
      <4> QED BY <4>1, PrintingAssumption DEF PrintingAssumption
    <3> QED BY <1>0, <2>2, <2>4, <2>5, <3>1 DEF Printing!TypeOK
  <2>8. PollTyped'
    BY <2>4 DEF PollTyped
  <2>9. NewIsUnlisted' /\ HandledIsKnown' /\ KnownIsHandled'
    BY <1>0, <2>2, <2>3, <2>4, <2>5, <2>6 DEF NewIsUnlisted, HandledIsKnown, KnownIsHandled, Listed, Ahead
  <2> QED BY <2>6, <2>7, <2>8, <2>9 DEF PrintInv
<1>e. ASSUME Printing!PollDone PROVE PrintInv'
  <2>1. /\ poll.on /\ poll.left = {} /\ lastJobs' = poll.all /\ poll' = Printing!None
        /\ UNCHANGED <<job, printed, denied, seen, pollFaults>>
    BY <1>e DEF Printing!PollDone
  <2>2. poll.all \subseteq Jobs
    BY <1>2, <2>1
  <2> QED BY <1>0, <1>1, <2>1, <2>2 DEF PrintInv, Printing!TypeOK, PollTyped, ReportedOnce, NewIsUnlisted, HandledIsKnown,
             KnownIsHandled, Listed, Ahead
<1>f. ASSUME UNCHANGED Printing!vars PROVE PrintInv'
  BY <1>f, <1>0 DEF Printing!vars, PrintInv, Printing!TypeOK, PollTyped, ReportedOnce, NewIsUnlisted, HandledIsKnown,
     KnownIsHandled, Listed, Ahead
<1> QED BY <1>a, <1>b, <1>c, <1>d, <1>e, <1>f DEF Printing!Next

\* A job has one report, so none was handled twice.
LEMMA PrintedOnce == PrintInv => Printing!HandledOnce
<1> SUFFICES ASSUME PrintInv, NEW j \in Jobs
             PROVE  /\ Printing!Cardinality(printed[j]) <= 1
                    /\ poll = Printing!None /\ j \in seen => printed[j] # {}
  BY DEF Printing!HandledOnce
<1>1. printed[j] = {} \/ \E r : printed[j] = {r}
  BY DEF PrintInv, ReportedOnce
<1>2. Cardinality(printed[j]) <= 1
  <2>1. Cardinality({}) = 0 /\ \A r : Cardinality({r}) = 1
    BY FS_EmptySet, FS_Singleton, Zenon
  <2>2. Cardinality(printed[j]) = 0 \/ Cardinality(printed[j]) = 1
    BY <1>1, <2>1, Zenon
  <2> QED BY <2>2
<1>3. poll = Printing!None /\ j \in seen => printed[j] # {}
  BY DEF PrintInv, KnownIsHandled, Ahead, Printing!None
<1> QED BY <1>2, <1>3, PrintCardinality

LEMMA PrintRuns == EndpointSpec => Printing!Spec
<1>1. EndpointInit => Printing!Init
  BY DEF EndpointInit
<1>2. [EndpointNext]_endpointVars => [Printing!Next]_(Printing!vars)
  <2> SUFFICES ASSUME [EndpointNext]_endpointVars PROVE Printing!Next \/ UNCHANGED printVars
    BY DEF printVars, Printing!vars
  <2>1. ASSUME NEW p, p # "print", Runs(p) PROVE UNCHANGED printVars
    BY <2>1 DEF Runs
  <2>2. "print" \notin Actions /\ "print" \notin Relays
    BY DEF Actions, Relays
  <2>3. UNCHANGED endpointVars => UNCHANGED printVars
    BY DEF endpointVars
  <2> QED BY <2>1, <2>2, <2>3, Zenon DEF EndpointNext
<1> QED BY <1>1, <1>2, PTL DEF EndpointSpec, Printing!Spec

LEMMA PrintHolds == EndpointSpec => []PrintInv
<1>1. Printing!Spec => []PrintInv
  BY PrintBegins, PrintSteps, PTL DEF Printing!Spec
<1> QED BY <1>1, PrintRuns, PTL

\* A disconnect that the Linux agent reports names the disk that left, though
\* another may have its device name by then (_handle_usb_event), and no print job
\* is handled twice though every poll lists it again (_check_print_jobs).
THEOREM PeripheralsToldApartHolds == EndpointSpec => []PeripheralsToldApart
<1>1. DisksInv /\ PrintInv => PeripheralsToldApart
  BY PrintedOnce DEF DisksInv, PeripheralsToldApart
<1> QED BY <1>1, DisksHold, PrintHolds, PTL

-----------------------------------------------------------------------------
(* The Windows agent's hold on USB storage *)

\* A block has a reason: one the agent holds, one it is about to ask about again
\* because the list that was enforced is being replaced, or none any more; or the
\* agent has no right to lift it.
HasReason ==
  (blocked /\ held # Storage!Unset) =>
    \/ active \/ raced \/ ~elevated
    \/ sync.at # "store" /\ Storage!ListBlocks
    \/ sync.at \in {"store", "restore"} /\ sync.was

StorageInv == Storage!TypeOK /\ HasReason

LEMMA StorageBegins == Storage!Init => StorageInv
<1> SUFFICES ASSUME Storage!Init PROVE StorageInv
  OBVIOUS
<1>1. Storage!NoList \in Storage!List
  BY DEF Storage!NoList, Storage!List
<1>2. /\ has \in BOOLEAN /\ active \in BOOLEAN /\ listening \in BOOLEAN /\ blocked \in BOOLEAN /\ raced \in BOOLEAN
      /\ elevated \in BOOLEAN /\ boot \in BOOLEAN
  BY DEF Storage!Init
<1>4. Storage!TypeOK
  BY <1>1, <1>2, StorageAssumption
     DEF StorageAssumption, Storage!Init, Storage!TypeOK, Storage!Policies, Storage!Unset, Storage!Idle
<1>3. HasReason
  BY DEF Storage!Init, HasReason
<1> QED BY <1>3, <1>4 DEF StorageInv

LEMMA StorageSteps == StorageInv /\ [Storage!Next]_(Storage!vars) => StorageInv'
<1> SUFFICES ASSUME StorageInv, [Storage!Next]_(Storage!vars) PROVE StorageInv'
  OBVIOUS
<1>0. Storage!TypeOK /\ HasReason
  BY DEF StorageInv
<1> USE StorageAssumption DEF StorageAssumption
<1>a. ASSUME Storage!Edit PROVE StorageInv'
  BY <1>a, <1>0 DEF StorageInv, Storage!Edit, Storage!TypeOK, HasReason, Storage!ListBlocks, Storage!window, Storage!machine
<1>b. ASSUME Storage!SyncPull PROVE StorageInv'
  <2>1. /\ sync = Storage!Idle
        /\ sync' \in [at : {"parse"}, policy : Storage!Policies] \cup {[at |-> "ask"]}
        /\ has' \in BOOLEAN /\ restarts' \in 0 .. MaxRestarts
        /\ UNCHANGED <<classic, control, approved, held, stored, active, allowlist, listening, arrival, arrivals,
                       elevated, boot, blocked, raced, changes>>
    <3>1. /\ sync = Storage!Idle
          /\ UNCHANGED <<classic, control, approved, held, stored, active, allowlist, listening, arrival, arrivals,
                         elevated, boot, blocked, raced, changes>>
      BY <1>b DEF Storage!SyncPull, Storage!server, Storage!window, Storage!machine
    <3>2. \/ sync' = [at |-> "parse", policy |-> classic] /\ has' = FALSE /\ restarts' = restarts
          \/ sync' = [at |-> "ask"] /\ has' = has /\ restarts' = restarts
          \/ sync' = [at |-> "ask"] /\ has' = has /\ restarts < MaxRestarts /\ restarts' = restarts + 1
      BY <1>b DEF Storage!SyncPull
    <3>3. classic \in Storage!Policies /\ has \in BOOLEAN /\ restarts \in 0 .. MaxRestarts
      BY <1>0 DEF Storage!TypeOK
    <3>4. sync' \in [at : {"parse"}, policy : Storage!Policies] \cup {[at |-> "ask"]}
      BY <3>2, <3>3
    <3>5. has' \in BOOLEAN
      BY <3>2, <3>3
    <3>6. restarts' \in 0 .. MaxRestarts
      BY <3>2, <3>3
    <3> QED BY <3>1, <3>4, <3>5, <3>6
  <2>2. Storage!TypeOK'
    BY <1>0, <2>1 DEF Storage!TypeOK
  <2>3. HasReason'
    BY <1>0, <2>1 DEF HasReason, Storage!ListBlocks, Storage!Idle
  <2> QED BY <2>2, <2>3 DEF StorageInv
<1>c. ASSUME Storage!SyncParse PROVE StorageInv'
  <2>1. /\ sync.at = "parse" /\ sync.policy \in Storage!Policies
        /\ sync' \in [at : {"save"}, policy : Storage!Policies]
        /\ UNCHANGED <<classic, control, approved, stored, allowlist, listening, arrival, arrivals, elevated, boot, changes, restarts>>
    BY <1>c, <1>0 DEF Storage!SyncParse, Storage!server, Storage!window, Storage!machine, Storage!TypeOK, Storage!Idle
  <2>2. /\ held' = sync.policy /\ has' = (sync.policy # "none") /\ active' = (sync.policy = "block")
        /\ IF (IF held = Storage!Unset THEN blocked ELSE active) /\ sync.policy # "block"
           THEN Storage!Restore ELSE Storage!Leave
    BY <1>c DEF Storage!SyncParse, Storage!Apply
  <2>3. blocked' \in BOOLEAN /\ raced' \in BOOLEAN
    BY <1>0, <2>2 DEF Storage!TypeOK, Storage!Restore, Storage!Leave
  <2>4. Storage!TypeOK'
    BY <1>0, <2>1, <2>2, <2>3 DEF Storage!TypeOK
  <2>5. HasReason'
    BY <1>0, <2>1, <2>2 DEF HasReason, Storage!ListBlocks, Storage!Restore, Storage!Leave, Storage!TypeOK
  <2> QED BY <2>4, <2>5 DEF StorageInv
<1>d. ASSUME Storage!SyncSave PROVE StorageInv'
  <2>1. /\ sync.at = "save" /\ stored' \in Storage!Policies /\ sync' = [at |-> "ask"]
        /\ UNCHANGED <<classic, control, approved, held, has, active, allowlist, listening, arrival, arrivals,
                       elevated, boot, blocked, raced, changes, restarts>>
    BY <1>d, <1>0 DEF Storage!SyncSave, Storage!server, Storage!window, Storage!machine, Storage!TypeOK, Storage!Idle
  <2> QED BY <1>0, <2>1 DEF StorageInv, Storage!TypeOK, HasReason, Storage!ListBlocks
<1>e. ASSUME Storage!SyncAsk PROVE StorageInv'
  <2>1. /\ sync.at = "ask"
        /\ sync' \in [at : {"list"}, list : Storage!List, was : BOOLEAN] \cup {Storage!Idle}
        /\ restarts' \in 0 .. MaxRestarts
        /\ UNCHANGED <<classic, control, approved, held, has, stored, active, allowlist, listening, arrival, arrivals,
                       elevated, boot, blocked, raced, changes>>
    <3>1. Storage!Served \in Storage!List
      BY <1>0 DEF Storage!Served, Storage!List, Storage!TypeOK
    <3>2. /\ sync.at = "ask"
          /\ UNCHANGED <<classic, control, approved, held, has, stored, active, allowlist, listening, arrival, arrivals,
                         elevated, boot, blocked, raced, changes>>
      BY <1>e DEF Storage!SyncAsk, Storage!server, Storage!window, Storage!machine
    <3>3. \/ sync' = [at |-> "list", list |-> Storage!Served, was |-> FALSE] /\ restarts' = restarts
          \/ restarts < MaxRestarts /\ restarts' = restarts + 1 /\ sync' = Storage!Idle
      BY <1>e DEF Storage!SyncAsk
    <3>4. restarts \in 0 .. MaxRestarts
      BY <1>0 DEF Storage!TypeOK
    <3>5. \A x \in Storage!List, w \in BOOLEAN :
            [at |-> "list", list |-> x, was |-> w] \in [at : {"list"}, list : Storage!List, was : BOOLEAN]
      OBVIOUS
    <3>6. sync' \in [at : {"list"}, list : Storage!List, was : BOOLEAN] \cup {Storage!Idle}
      BY <3>1, <3>3, <3>5, Zenon
    <3>7. restarts' \in 0 .. MaxRestarts
      BY <3>3, <3>4
    <3> QED BY <3>2, <3>6, <3>7
  <2> QED BY <1>0, <2>1 DEF StorageInv, Storage!TypeOK, HasReason, Storage!ListBlocks, Storage!Idle
<1>f. ASSUME Storage!SyncList PROVE StorageInv'
  <2>1. /\ sync.at = "list" /\ sync \in [at : {"list"}, list : Storage!List, was : BOOLEAN]
        /\ sync' = [sync EXCEPT !.at = "store", !.was = Storage!ListBlocks]
        /\ allowlist' = [sync.list EXCEPT !.enforced = allowlist.enforced]
        /\ UNCHANGED <<classic, control, approved, held, has, stored, active, listening, arrival, arrivals,
                       elevated, boot, blocked, raced, changes, restarts>>
    BY <1>f, <1>0
       DEF Storage!SyncList, Storage!server, Storage!window, Storage!machine, Storage!TypeOK, Storage!Idle, Storage!Was
  <2>2. Storage!ListBlocks \in BOOLEAN
    BY <1>0 DEF Storage!ListBlocks, Storage!TypeOK, Storage!List
  <2>3. /\ allowlist' \in Storage!List /\ sync'.at = "store" /\ sync'.was = Storage!ListBlocks
        /\ sync' \in [at : {"store"}, list : Storage!List, was : BOOLEAN]
    BY <1>0, <2>1, <2>2 DEF Storage!TypeOK, Storage!List
  <2>4. Storage!TypeOK'
    BY <1>0, <2>1, <2>3 DEF Storage!TypeOK
  <2>5. HasReason'
    BY <1>0, <2>1, <2>3 DEF HasReason
  <2> QED BY <2>4, <2>5 DEF StorageInv
<1>g. ASSUME Storage!SyncStore PROVE StorageInv'
  <2>1. /\ sync.at = "store" /\ sync \in [at : {"store"}, list : Storage!List, was : BOOLEAN]
        /\ sync' = [sync EXCEPT !.at = "restore"] /\ allowlist' = sync.list
        /\ UNCHANGED <<classic, control, approved, held, has, stored, active, listening, arrival, arrivals,
                       elevated, boot, blocked, raced, changes, restarts>>
    BY <1>g, <1>0 DEF Storage!SyncStore, Storage!server, Storage!window, Storage!machine, Storage!TypeOK, Storage!Idle
  <2>2. /\ sync' \in [at : {"restore"}, list : Storage!List, was : BOOLEAN] /\ sync'.was = sync.was
        /\ sync'.at = "restore" /\ allowlist' \in Storage!List
    BY <2>1
  <2>3. Storage!TypeOK'
    BY <1>0, <2>1, <2>2 DEF Storage!TypeOK
  <2>4. HasReason'
    BY <1>0, <2>1, <2>2 DEF HasReason
  <2> QED BY <2>3, <2>4 DEF StorageInv
<1>h. ASSUME Storage!SyncRestore PROVE StorageInv'
  <2>1. /\ sync.at = "restore" /\ sync' = Storage!Idle
        /\ IF sync.was /\ ~Storage!ListBlocks /\ ~active THEN Storage!Restore ELSE Storage!Leave
        /\ UNCHANGED <<classic, control, approved, held, has, stored, active, allowlist, listening, arrival, arrivals,
                       elevated, boot, changes, restarts>>
    BY <1>h DEF Storage!SyncRestore, Storage!server, Storage!window, Storage!machine
  <2>4. blocked' \in BOOLEAN /\ raced' \in BOOLEAN
    BY <1>0, <2>1 DEF Storage!TypeOK, Storage!Restore, Storage!Leave
  <2>2. Storage!TypeOK'
    BY <1>0, <2>1, <2>4 DEF Storage!TypeOK
  <2>3. HasReason'
    BY <1>0, <2>1 DEF HasReason, Storage!ListBlocks, Storage!Restore, Storage!Leave, Storage!Idle
  <2> QED BY <2>2, <2>3 DEF StorageInv
<1>i. ASSUME Storage!Listen PROVE StorageInv'
  BY <1>i, <1>0 DEF StorageInv, Storage!Listen, Storage!TypeOK, HasReason, Storage!ListBlocks, Storage!server, Storage!machine
<1>j. ASSUME NEW s \in Serials, Storage!Arrive(s) PROVE StorageInv'
  <2>1. /\ arrival' \in {Storage!Idle} \cup [at : {"list"}, serial : Serials, enforced : BOOLEAN,
                                             sanctioned : BOOLEAN, refused : BOOLEAN]
        /\ arrivals' \in 0 .. MaxArrivals
        /\ UNCHANGED <<classic, control, approved, held, has, stored, active, allowlist, sync, listening, elevated, boot, blocked,
                       raced, changes, restarts>>
    BY <1>j, <1>0 DEF Storage!Arrive, Storage!TypeOK, Storage!server, Storage!machine, Storage!List
  <2> QED BY <1>0, <2>1 DEF StorageInv, Storage!TypeOK, HasReason, Storage!ListBlocks
<1>k. ASSUME Storage!ReadList PROVE StorageInv'
  <2>1. /\ arrival \in [at : {"list"}, serial : Serials, enforced : BOOLEAN, sanctioned : BOOLEAN, refused : BOOLEAN]
        /\ UNCHANGED <<classic, control, approved, held, has, stored, active, allowlist, sync, listening, arrivals,
                       elevated, boot, blocked, raced, changes, restarts>>
    BY <1>k, <1>0 DEF Storage!ReadList, Storage!TypeOK, Storage!server, Storage!machine, Storage!Idle
  <2>2. \E x, y \in BOOLEAN : arrival' = [arrival EXCEPT !.at = "policies", !.sanctioned = x, !.refused = y]
    <3>1. (arrival.serial \in allowlist.serials) \in BOOLEAN
      OBVIOUS
    <3>2. (arrival.enforced /\ ~(arrival.serial \in allowlist.serials) /\ allowlist.mode = "enforce") \in BOOLEAN
      OBVIOUS
    <3> QED BY <1>k, <3>1, <3>2 DEF Storage!ReadList
  <2>3. arrival' \in [at : {"policies"}, serial : Serials, enforced : BOOLEAN, sanctioned : BOOLEAN, refused : BOOLEAN]
    BY <2>1, <2>2
  <2> QED BY <1>0, <2>1, <2>3 DEF StorageInv, Storage!TypeOK, HasReason, Storage!ListBlocks
<1>l. ASSUME Storage!Decide PROVE StorageInv'
  <2>1. /\ arrival \in [at : {"policies"}, serial : Serials, enforced : BOOLEAN, sanctioned : BOOLEAN,
                        refused : BOOLEAN]
        /\ UNCHANGED <<classic, control, approved, held, has, stored, active, allowlist, sync, listening, arrivals,
                       elevated, boot, changes, restarts>>
    BY <1>l, <1>0 DEF Storage!Decide, Storage!TypeOK, Storage!server, Storage!machine, Storage!Idle
  <2>2. arrival' \in {[arrival EXCEPT !.at = "block"], Storage!Idle} /\ (Storage!Restore \/ Storage!Leave)
    BY <1>l DEF Storage!Decide
  <2>3. arrival' \in {Storage!Idle} \cup [at : {"block"}, serial : Serials, enforced : BOOLEAN,
                                          sanctioned : BOOLEAN, refused : BOOLEAN]
    BY <2>1, <2>2
  <2>6. blocked' \in BOOLEAN /\ raced' \in BOOLEAN
    BY <1>0, <2>2 DEF Storage!TypeOK, Storage!Restore, Storage!Leave
  <2>4. Storage!TypeOK'
    BY <1>0, <2>1, <2>3, <2>6 DEF Storage!TypeOK
  <2>7. blocked' => blocked /\ raced' = raced
    BY <2>2 DEF Storage!Restore, Storage!Leave
  <2>5. HasReason'
    BY <1>0, <2>1, <2>7 DEF HasReason, Storage!ListBlocks
  <2> QED BY <2>4, <2>5 DEF StorageInv
<1>s. Storage!Shut => /\ blocked' = TRUE
                      /\ raced' = (raced \/ (held # Storage!Unset /\ ~(active \/ Storage!ListBlocks)) \/ sync.at = "store")
  BY DEF Storage!Shut
<1>m. ASSUME Storage!Block PROVE StorageInv'
  <2>1. /\ arrival' = Storage!Idle
        /\ UNCHANGED <<classic, control, approved, held, has, stored, active, allowlist, sync, listening, arrivals,
                       elevated, boot, changes, restarts>>
    BY <1>m DEF Storage!Block, Storage!server, Storage!machine
  <2>2. CASE elevated
    <3>1. Storage!Shut
      BY <1>m, <2>2 DEF Storage!Block
    <3>2. Storage!TypeOK'
      BY <1>0, <1>s, <2>1, <3>1 DEF Storage!TypeOK
    <3>3. HasReason'
      BY <1>0, <1>s, <2>1, <3>1 DEF HasReason, Storage!ListBlocks
    <3> QED BY <3>2, <3>3 DEF StorageInv
  <2>3. CASE ~elevated
    <3>1. Storage!Leave
      BY <1>m, <2>3 DEF Storage!Block
    <3>2. Storage!TypeOK'
      BY <1>0, <2>1, <3>1 DEF Storage!TypeOK, Storage!Leave
    <3>3. HasReason'
      BY <2>1, <2>3 DEF HasReason
    <3> QED BY <3>2, <3>3 DEF StorageInv
  <2> QED BY <2>2, <2>3
<1>p. ASSUME Storage!BootTask PROVE StorageInv'
  <2>1. /\ boot' = FALSE /\ Storage!Shut
        /\ UNCHANGED <<classic, control, approved, held, has, stored, active, allowlist, sync, listening, arrival,
                       arrivals, elevated, changes, restarts>>
    BY <1>p DEF Storage!BootTask, Storage!server, Storage!window
  <2>4. boot' \in BOOLEAN /\ blocked' \in BOOLEAN /\ raced' \in BOOLEAN
    BY <1>0, <1>s, <2>1 DEF Storage!TypeOK
  <2>2. Storage!TypeOK'
    BY <1>0, <2>1, <2>4 DEF Storage!TypeOK
  <2>3. HasReason'
    BY <1>0, <1>s, <2>1 DEF HasReason, Storage!ListBlocks
  <2> QED BY <2>2, <2>3 DEF StorageInv
<1>n. ASSUME NEW clean \in BOOLEAN, NEW rights \in BOOLEAN, NEW task \in {"none", "before", "after"},
             Storage!Restart(clean, rights, task)
      PROVE StorageInv'
  <2>1. /\ held' = stored /\ has' = (stored \in {"alert", "block"}) /\ active' = (stored = "block")
        /\ allowlist' = Storage!NoList /\ sync' = Storage!Idle /\ listening' = FALSE /\ arrival' = Storage!Idle
        /\ restarts' \in 0 .. MaxRestarts /\ elevated' = rights /\ boot' = (task = "after")
        /\ UNCHANGED <<classic, control, approved, stored, arrivals, changes>>
    BY <1>n, <1>0 DEF Storage!Restart, Storage!server, Storage!TypeOK
  <2>2. PICK lifted \in BOOLEAN : /\ blocked' = ~lifted /\ raced' = (raced /\ ~lifted)
                                  /\ rights /\ stored \in {"none", "alert"} => lifted
    <3> DEFINE opened == clean /\ has /\ elevated
                 shut == (blocked /\ ~opened) \/ task = "before"
                 lifts == ~shut \/ (rights /\ stored \in {"none", "alert"})
    <3>1. lifts \in BOOLEAN
      OBVIOUS
    <3>2. blocked' = ~lifts /\ raced' = (raced /\ ~lifts)
      BY <1>n DEF Storage!Restart
    <3> QED BY <3>1, <3>2
  <2>3. Storage!NoList \in Storage!List
    BY DEF Storage!NoList, Storage!List
  <2>7. /\ has' \in BOOLEAN /\ active' \in BOOLEAN /\ blocked' \in BOOLEAN /\ raced' \in BOOLEAN
        /\ elevated' \in BOOLEAN /\ boot' \in BOOLEAN
    BY <1>0, <2>1, <2>2 DEF Storage!TypeOK
  <2>4. Storage!TypeOK'
    BY <1>0, <2>1, <2>3, <2>7 DEF Storage!TypeOK
  <2>5. stored \in {"none", "alert", "block", Storage!Unset}
    BY <1>0 DEF Storage!TypeOK, Storage!Policies
  <2>6. HasReason'
    BY <2>1, <2>2, <2>5 DEF HasReason
  <2> QED BY <2>4, <2>6 DEF StorageInv
<1>o. ASSUME UNCHANGED Storage!vars PROVE StorageInv'
  BY <1>o, <1>0 DEF StorageInv, Storage!vars, Storage!TypeOK, HasReason, Storage!ListBlocks
<1> QED BY <1>a, <1>b, <1>c, <1>d, <1>e, <1>f, <1>g, <1>h, <1>i, <1>j, <1>k, <1>l, <1>m, <1>n, <1>o, <1>p
        DEF Storage!Next, Storage!Sync

\* The invariant says more than the property.
LEMMA BlocksHaveReasons == StorageInv => BlockedForAReason
BY DEF StorageInv, HasReason, BlockedForAReason, Storage!BlockedForAReason, Storage!Idle

LEMMA StorageRuns == EndpointSpec => Storage!Spec
<1>1. EndpointInit => Storage!Init
  BY DEF EndpointInit
<1>2. [EndpointNext]_endpointVars => [Storage!Next]_(Storage!vars)
  <2> SUFFICES ASSUME [EndpointNext]_endpointVars PROVE Storage!Next \/ UNCHANGED storageVars
    BY DEF storageVars, Storage!vars
  <2>1. ASSUME NEW p, p # "storage", Runs(p) PROVE UNCHANGED storageVars
    BY <2>1 DEF Runs
  <2>2. "storage" \notin Actions /\ "storage" \notin Relays
    BY DEF Actions, Relays
  <2>3. UNCHANGED endpointVars => UNCHANGED storageVars
    BY DEF endpointVars
  <2> QED BY <2>1, <2>2, <2>3, Zenon DEF EndpointNext
<1> QED BY <1>1, <1>2, PTL DEF EndpointSpec, Storage!Spec

LEMMA StorageHolds == EndpointSpec => []StorageInv
<1>1. Storage!Spec => []StorageInv
  BY StorageBegins, StorageSteps, PTL DEF Storage!Spec
<1> QED BY <1>1, StorageRuns, PTL

\* An elevated agent leaves USB storage blocked only while a policy or an allowlist
\* it holds asks for it, unless an arrival overtook the sync or the boot task ran
\* after the start (SyncPolicies, SyncUsbAllowlist, HandleUsbDeviceArrival,
\* BlockUSBStorageViaRegistry).
THEOREM BlockedForAReasonHolds == EndpointSpec => []BlockedForAReason
BY StorageHolds, BlocksHaveReasons, PTL

-----------------------------------------------------------------------------
(* The mail relay *)

\* The part is one that the relay collects under the setting that it runs with.
IsCollected(i) ==
  mail.kind # "garbled" /\ (mail.parts[i].kind = "file" \/ (mail.parts[i].kind = "body" /\ part # "bodiless"))

\* The text of part i was asked about, and what was left unread of it.
TextAsked(i) ==
  (IsCollected(i) /\ mail.parts[i].seen \in {"whole", "partial"}) => <<i, "text">> \in inspected
UnreadAsked(i) ==
  (IsCollected(i) /\ mail.parts[i].seen \in {"partial", "unread"} /\ mail.parts[i].kind # "body")
    => <<i, "unread">> \in inspected

MailTyped == mail \in OutgoingMails

\* A session that has refused nothing has asked about the parts behind it.
AskedSoFar ==
  session \in {"part", "again", "event"} =>
    /\ ~rejected /\ section \in Nat \ {0}
    /\ \A i \in DOMAIN mail.parts : i < section => TextAsked(i) /\ UnreadAsked(i)

\* Between the two questions of a part, and behind the last part.
AskedInBetween ==
  /\ session = "again" => section \in DOMAIN mail.parts /\ TextAsked(section)
  /\ session = "event" => section > Len(mail.parts)

\* The types, which are the same under every setting.
RelayTyped ==
  /\ session \in {"sender", "part", "again", "refuse", "event"}
  /\ section \in Nat /\ worst \in {"allow", "alert"} /\ rejected \in BOOLEAN
  /\ reply \in {"none", "250", "451", "550", "552"}
  /\ forwarded \in Nat /\ mailFaults \in 0 .. MaxMailFaults
  /\ recorded \subseteq {"attempt", "prevented", "internal", "allowed"}

RelayInv == RelayTyped /\ MailTyped /\ AskedSoFar /\ AskedInBetween

LEMMA RelayTypedMeans == ASSUME NEW s \in Relays PROVE RelayTyped <=> Relay(s)!TypeOK
BY DEF RelayTyped, Relay!TypeOK, Relay!Replies

\* The parts of a message are a sequence.
LEMMA MailParts ==
  MailTyped => /\ mail.parts \in Seq([kind : {"file", "body", "bare"}, seen : {"whole", "partial", "unread", "empty"},
                                      text : {"allow", "alert", "block"}, unread : {"allow", "alert", "block"}])
               /\ DOMAIN mail.parts = 1 .. Len(mail.parts) /\ Len(mail.parts) \in Nat
BY RelayAssumption DEF RelayAssumption, MailTyped

LEMMA RelayBegins == EndpointInit => RelayInv
<1> SUFFICES ASSUME Relay("open")!Init, MailTyped PROVE RelayInv
  <2>1. "open" \in Relays
    BY DEF Relays
  <2> QED BY <2>1 DEF EndpointInit, Relay!Init, MailTyped
<1>1. session = "sender" /\ section = 0 /\ worst = "allow" /\ rejected = FALSE /\ reply = "none"
      /\ forwarded = 0 /\ recorded = {} /\ mailFaults = 0
  BY DEF Relay!Init
<1>2. RelayTyped
  <2>1. rejected \in BOOLEAN
    BY <1>1
  <2> QED BY <1>1, <2>1, RelayAssumption DEF RelayAssumption, RelayTyped
<1>3. AskedSoFar /\ AskedInBetween
  BY <1>1 DEF AskedSoFar, AskedInBetween
<1> QED BY <1>2, <1>3 DEF RelayInv

\* A question moves the session on only with the part asked about.
LEMMA QuestionAsked ==
  ASSUME NEW s \in Relays, part' = part, RelayInv, session \in {"part", "again"},
         NEW now \in DOMAIN mail.parts, section = now,
         NEW kind \in {"text", "unread"}, NEW verdict \in {"allow", "alert", "block"}, NEW next \in {"part", "again"},
         Relay(s)!Question(kind, verdict, next),
         mail' = mail => TextAsked(now)',
         (next = "part" /\ mail' = mail) => UnreadAsked(now)'
  PROVE  RelayInv'
<1>0. RelayTyped /\ MailTyped /\ AskedSoFar /\ AskedInBetween
  BY DEF RelayInv
<1>1. PICK ans \in {"allow", "alert", "block"} : Relay(s)!Obey(ans, next) /\ mailFaults' \in 0 .. MaxMailFaults
  <2>1. mailFaults \in 0 .. MaxMailFaults /\ MaxMailFaults \in Nat
    BY <1>0, RelayAssumption DEF RelayAssumption, RelayTyped
  <2>2. \/ Relay(s)!Obey(verdict, next) /\ UNCHANGED mailFaults
        \/ /\ mailFaults < MaxMailFaults /\ mailFaults' = mailFaults + 1
           /\ Relay(s)!Obey(IF s \in {"closed", "careful"} THEN "block" ELSE "allow", next)
    BY DEF Relay!Question
  <2>3. CASE Relay(s)!Obey(verdict, next) /\ UNCHANGED mailFaults
    BY <2>1, <2>3
  <2>4. CASE /\ mailFaults < MaxMailFaults /\ mailFaults' = mailFaults + 1
             /\ Relay(s)!Obey(IF s \in {"closed", "careful"} THEN "block" ELSE "allow", next)
    <3>1. mailFaults' \in 0 .. MaxMailFaults
      BY <2>1, <2>4
    <3>2. (IF s \in {"closed", "careful"} THEN "block" ELSE "allow") \in {"allow", "alert", "block"}
      OBVIOUS
    <3> QED BY <2>4, <3>1, <3>2, Zenon
  <2> QED BY <2>2, <2>3, <2>4
<1>2. inspected' = inspected \cup {<<section, kind>>} /\ UNCHANGED <<mail, reply, forwarded, recorded>>
  BY DEF Relay!Question
<1>3. rejected' = (ans = "block")
      /\ IF ans = "block" THEN session' = "refuse" /\ UNCHANGED <<section, worst>>
         ELSE /\ session' = next
              /\ section' = IF next = "part" THEN section + 1 ELSE section
              /\ worst' = IF ans = "alert" /\ next = "part" THEN "alert" ELSE worst
  BY <1>1 DEF Relay!Obey
<1>4. rejected' \in BOOLEAN
  BY <1>3
<1>5. section \in Nat /\ section # 0
  BY <1>0 DEF AskedSoFar
<1>6. RelayTyped' /\ MailTyped'
  BY <1>0, <1>1, <1>2, <1>3, <1>4, <1>5 DEF RelayTyped, MailTyped
<1>7. CASE ans = "block"
  BY <1>3, <1>6, <1>7 DEF RelayInv, AskedSoFar, AskedInBetween
<1>8. CASE ans # "block"
  <2>1. ~rejected' /\ session' = next /\ section' = IF next = "part" THEN section + 1 ELSE section
    BY <1>3, <1>8
  <2>2. \A i \in DOMAIN mail.parts : i < section => TextAsked(i)' /\ UnreadAsked(i)'
    BY <1>0, <1>2 DEF AskedSoFar, TextAsked, UnreadAsked, IsCollected
  <2>3. TextAsked(now)' /\ (next = "part" => UnreadAsked(now)')
    BY <1>2
  <2>4. \A i \in DOMAIN mail.parts : i < section' => TextAsked(i)' /\ UnreadAsked(i)'
    <3> SUFFICES ASSUME NEW i \in DOMAIN mail.parts, i < section' PROVE TextAsked(i)' /\ UnreadAsked(i)'
      OBVIOUS
    <3>1. CASE i < section
      BY <2>2, <3>1
    <3>2. CASE i = now
      <4>1. next = "part"
        BY <2>1, <3>2, <1>5
      <4> QED BY <2>3, <3>2, <4>1
    <3> QED BY <2>1, <3>1, <3>2, <1>5, MailParts, <1>0
  <2> QED BY <1>2, <1>5, <1>6, <2>1, <2>3, <2>4 DEF RelayInv, AskedSoFar, AskedInBetween
<1> QED BY <1>7, <1>8

LEMMA RelaySteps ==
  ASSUME NEW s \in Relays, part = s, part' = part PROVE RelayInv /\ Relay(s)!Next => RelayInv'
<1> SUFFICES ASSUME RelayInv, Relay(s)!Next PROVE RelayInv'
  OBVIOUS
<1>0. RelayTyped /\ MailTyped /\ AskedSoFar /\ AskedInBetween
  BY DEF RelayInv
<1>1. /\ mail.parts \in Seq([kind : {"file", "body", "bare"}, seen : {"whole", "partial", "unread", "empty"},
                             text : {"allow", "alert", "block"}, unread : {"allow", "alert", "block"}])
      /\ DOMAIN mail.parts = 1 .. Len(mail.parts) /\ Len(mail.parts) \in Nat
  BY <1>0, MailParts
<1>2. MaxMailFaults \in Nat
  BY RelayAssumption DEF RelayAssumption
<1>3. \A i \in 1 .. Len(mail.parts) :
        /\ mail.parts[i].text \in {"allow", "alert", "block"} /\ mail.parts[i].unread \in {"allow", "alert", "block"}
  <2> SUFFICES ASSUME NEW i \in 1 .. Len(mail.parts)
               PROVE  /\ mail.parts[i].text \in {"allow", "alert", "block"}
                      /\ mail.parts[i].unread \in {"allow", "alert", "block"}
    OBVIOUS
  <2> DEFINE Shapes == [kind : {"file", "body", "bare"}, seen : {"whole", "partial", "unread", "empty"},
                        text : {"allow", "alert", "block"}, unread : {"allow", "alert", "block"}]
  <2>1. \A p \in Shapes : p.text \in {"allow", "alert", "block"} /\ p.unread \in {"allow", "alert", "block"}
    OBVIOUS
  <2>2. mail.parts \in Seq(Shapes)
    BY <1>1
  <2> HIDE DEF Shapes
  <2>3. mail.parts[i] \in Shapes
    BY <2>2
  <2> QED BY <2>1, <2>3
\* No session goes on.
<1>4. ASSUME session' \in {"sender", "refuse"}, RelayTyped', mail' = mail PROVE RelayInv'
  BY <1>0, <1>4 DEF RelayInv, MailTyped, AskedSoFar, AskedInBetween
<1>a. ASSUME Relay(s)!Receive PROVE RelayInv'
  <2>1. /\ section' = 1 /\ worst' = "allow" /\ inspected' = {} /\ rejected' = FALSE
        /\ UNCHANGED <<mail, forwarded, recorded, mailFaults>>
    BY <1>a DEF Relay!Receive
  <2>2. \/ session' = "sender" /\ reply' \in {"451", "552"}
        \/ session' = "part" /\ reply' = reply
    <3>1. \/ session' = "sender" /\ reply' = "552"
          \/ session' = "sender" /\ reply' = "451"
          \/ session' = "part" /\ reply' = reply
      <4>1. CASE mail.kind = "huge"
        BY <1>a, <4>1 DEF Relay!Receive, Relay!Reply
      <4>2. CASE mail.kind # "huge" /\ mail.kind = "garbled" /\ s \in {"closed", "careful"}
        BY <1>a, <4>2 DEF Relay!Receive, Relay!Reply
      <4>3. CASE mail.kind # "huge" /\ ~(mail.kind = "garbled" /\ s \in {"closed", "careful"})
        BY <1>a, <4>3 DEF Relay!Receive, Relay!Reply
      <4> QED BY <4>1, <4>2, <4>3
    <3> QED BY <3>1
  <2>3. rejected' \in BOOLEAN
    BY <2>1
  <2>4. RelayTyped' /\ MailTyped'
    BY <1>0, <2>1, <2>2, <2>3 DEF RelayTyped, MailTyped
  <2>5. AskedSoFar' /\ AskedInBetween'
    BY <1>1, <2>1, <2>2 DEF AskedSoFar, AskedInBetween
  <2> QED BY <2>4, <2>5 DEF RelayInv
<1>b. ASSUME Relay(s)!Skip PROVE RelayInv'
  <2>1. /\ session = "part" /\ section <= Len(mail.parts) /\ section' = section + 1
        /\ \/ ~IsCollected(section)
           \/ mail.parts[section].seen = "empty"
           \/ mail.parts[section].seen = "unread" /\ mail.parts[section].kind = "body"
        /\ UNCHANGED <<mail, session, worst, inspected, rejected, reply, forwarded, recorded, mailFaults>>
    BY <1>b DEF Relay!Skip, Relay!Parts, Relay!PassedOver, Relay!Collected, Relay!Seen, Relay!IsBody, IsCollected
  <2>2. section \in Nat \ {0}
    BY <1>0, <2>1 DEF AskedSoFar
  <2>3. TextAsked(section) /\ UnreadAsked(section)
    BY <2>1 DEF TextAsked, UnreadAsked
  <2>4. \A i \in DOMAIN mail.parts : i < section + 1 => TextAsked(i) /\ UnreadAsked(i)
    BY <1>0, <1>1, <2>1, <2>2, <2>3 DEF AskedSoFar
  <2>5. AskedSoFar'
    BY <1>0, <2>1, <2>2, <2>4 DEF AskedSoFar, TextAsked, UnreadAsked, IsCollected
  <2> QED BY <1>0, <2>1, <2>2, <2>5 DEF RelayInv, RelayTyped, MailTyped, AskedInBetween
<1>c. ASSUME Relay(s)!AskUnread PROVE RelayInv'
  <2>1. /\ session = "part" /\ section <= Len(mail.parts)
        /\ mail.parts[section].seen = "unread" /\ mail.parts[section].kind # "body"
    BY <1>c DEF Relay!AskUnread, Relay!Parts, Relay!Seen, Relay!IsBody
  <2>2. section \in DOMAIN mail.parts
    BY <1>0, <1>1, <2>1 DEF AskedSoFar
  <2>3. CASE session' = "refuse" /\ rejected' = TRUE
             /\ UNCHANGED <<mail, section, worst, inspected, reply, forwarded, recorded, mailFaults>>
    <3>1. rejected' \in BOOLEAN
      BY <2>3
    <3> QED BY <1>0, <1>4, <2>3, <3>1 DEF RelayTyped
  <2>4. CASE Relay(s)!Question("unread", IF mail.parts[section].unread = "block" THEN "block" ELSE "allow", "part")
    <3>1. PICK verdict \in {"allow", "alert", "block"} : Relay(s)!Question("unread", verdict, "part")
      BY <2>4
    <3>2. inspected' = inspected \cup {<<section, "unread">>}
      BY <3>1 DEF Relay!Question
    <3>3. PICK now \in DOMAIN mail.parts : now = section
      BY <2>2
    <3>4. mail' = mail => TextAsked(now)' /\ UnreadAsked(now)'
      BY <2>1, <3>2, <3>3 DEF TextAsked, UnreadAsked
    <3> QED BY <2>1, <3>1, <3>3, <3>4, QuestionAsked
  <2> QED BY <1>c, <2>3, <2>4 DEF Relay!AskUnread, Relay!Parts
<1>d. ASSUME Relay(s)!AskText PROVE RelayInv'
  <2>1. /\ session = "part" /\ section <= Len(mail.parts)
        /\ mail.parts[section].seen \in {"whole", "partial"}
    BY <1>d DEF Relay!AskText, Relay!Parts, Relay!HasText, Relay!Seen
  <2>2. PICK now \in DOMAIN mail.parts : now = section
    BY <1>0, <1>1, <2>1 DEF AskedSoFar
  <2> DEFINE again == mail.parts[now].seen = "partial" /\ mail.parts[now].kind # "body"
  <2>3. Relay(s)!Question("text", mail.parts[now].text, IF again THEN "again" ELSE "part")
    BY <1>d, <2>2 DEF Relay!AskText, Relay!Parts, Relay!AskAgain, Relay!Seen, Relay!IsBody
  <2>4. PICK next \in {"part", "again"} :
          Relay(s)!Question("text", mail.parts[now].text, next) /\ next = IF again THEN "again" ELSE "part"
    BY <2>3
  <2>5. inspected' = inspected \cup {<<section, "text">>}
    BY <2>4 DEF Relay!Question
  <2>6. mail' = mail => TextAsked(now)'
    BY <2>2, <2>5 DEF TextAsked
  <2>7. (next = "part" /\ mail' = mail) => UnreadAsked(now)'
    BY <2>1, <2>2, <2>4 DEF UnreadAsked
  <2>8. mail.parts[now].text \in {"allow", "alert", "block"}
    BY <1>1, <1>3
  <2> HIDE DEF again
  <2> QED BY <2>1, <2>2, <2>4, <2>6, <2>7, <2>8, QuestionAsked
<1>e. ASSUME Relay(s)!AskPartial PROVE RelayInv'
  <2>1. session = "again" /\ Relay(s)!Question("unread", mail.parts[section].unread, "part")
    BY <1>e DEF Relay!AskPartial, Relay!Parts
  <2>2. PICK now \in DOMAIN mail.parts : now = section
    BY <1>0, <2>1 DEF AskedInBetween
  <2>3. TextAsked(now)
    BY <1>0, <2>1, <2>2 DEF AskedInBetween
  <2>4. inspected' = inspected \cup {<<section, "unread">>}
    BY <2>1 DEF Relay!Question
  <2>5. mail' = mail => TextAsked(now)' /\ UnreadAsked(now)'
    BY <2>2, <2>3, <2>4 DEF TextAsked, UnreadAsked, IsCollected
  <2>6. mail.parts[now].unread \in {"allow", "alert", "block"}
    BY <1>1, <1>3
  <2> QED BY <2>1, <2>2, <2>5, <2>6, QuestionAsked
<1>f. ASSUME Relay(s)!Refuse PROVE RelayInv'
  <2>1. session' = "sender" /\ reply' = "550"
        /\ UNCHANGED <<mail, section, worst, inspected, rejected, forwarded>>
    BY <1>f DEF Relay!Refuse, Relay!Reply
  <2>2. mailFaults' \in 0 .. MaxMailFaults /\ recorded' \subseteq {"attempt", "prevented", "internal", "allowed"}
    BY <1>f, <1>0, <1>2 DEF Relay!Refuse, RelayTyped
  <2> QED BY <1>0, <1>4, <2>1, <2>2 DEF RelayTyped
<1>g. ASSUME Relay(s)!Forward PROVE RelayInv'
  <2>1. /\ session = "part" /\ section > Len(mail.parts)
        /\ UNCHANGED <<mail, section, worst, inspected, rejected, recorded>>
    BY <1>g DEF Relay!Forward, Relay!Parts
  <2>2. CASE forwarded' = forwarded + 1 /\ session' = "event" /\ UNCHANGED <<reply, mailFaults>>
    <3>1. RelayTyped'
      BY <1>0, <2>1, <2>2 DEF RelayTyped
    <3> QED BY <1>0, <2>1, <2>2, <3>1 DEF RelayInv, MailTyped, AskedSoFar, AskedInBetween, TextAsked, UnreadAsked,
           IsCollected
  <2>3. CASE /\ mailFaults < MaxMailFaults /\ mailFaults' = mailFaults + 1
             /\ session' = "sender" /\ reply' = "451" /\ UNCHANGED forwarded
    BY <1>0, <1>2, <1>4, <2>1, <2>3 DEF RelayTyped
  <2> QED BY <1>g, <2>2, <2>3 DEF Relay!Forward, Relay!Reply
<1>h. ASSUME Relay(s)!Report PROVE RelayInv'
  <2>1. /\ session' = "sender" /\ reply' = "250" /\ UNCHANGED <<mail, section, worst, inspected, rejected, forwarded>>
    BY <1>h DEF Relay!Report, Relay!Reply
  <2>2. mailFaults' \in 0 .. MaxMailFaults
    BY <1>h, <1>0, <1>2 DEF Relay!Report, RelayTyped
  <2>3. recorded' \subseteq recorded \cup {IF worst = "alert" THEN "internal" ELSE "allowed"}
    BY <1>h DEF Relay!Report
  <2>4. recorded' \subseteq {"attempt", "prevented", "internal", "allowed"}
    BY <1>0, <2>3 DEF RelayTyped
  <2> QED BY <1>0, <1>4, <2>1, <2>2, <2>4 DEF RelayTyped
<1>i. ASSUME Relay(s)!Break PROVE RelayInv'
  <2>1. /\ session' = "sender" /\ mailFaults' \in 0 .. MaxMailFaults
        /\ UNCHANGED <<mail, section, worst, inspected, rejected, reply, forwarded, recorded>>
    BY <1>i, <1>0, <1>2 DEF Relay!Break, RelayTyped
  <2> QED BY <1>0, <1>4, <2>1 DEF RelayTyped
<1> QED BY <1>a, <1>b, <1>c, <1>d, <1>e, <1>f, <1>g, <1>h, <1>i DEF Relay!Next, Relay!Relay

\* Of a message that was delivered every part was asked about.
LEMMA DeliveredInspected == RelayInv => DeliveredWasInspected
<1> SUFFICES ASSUME RelayInv, NEW s \in Relays, part = s, session = "event"
             PROVE  Relay(s)!DeliveredWasInspected
  BY DEF DeliveredWasInspected, Relay!DeliveredWasInspected
<1>1. MailTyped /\ AskedSoFar /\ AskedInBetween
  BY DEF RelayInv
<1>2. \A i \in DOMAIN mail.parts : TextAsked(i) /\ UnreadAsked(i)
  BY <1>1, MailParts DEF AskedSoFar, AskedInBetween
<1> DEFINE Shapes == [kind : {"file", "body", "bare"}, seen : {"whole", "partial", "unread", "empty"},
                      text : {"allow", "alert", "block"}, unread : {"allow", "alert", "block"}]
<1>3. \A p \in Shapes : p.kind \in {"file", "body", "bare"}
  OBVIOUS
<1>4. mail.parts \in Seq(Shapes) /\ DOMAIN mail.parts = 1 .. Len(mail.parts)
  BY <1>1, MailParts
<1> HIDE DEF Shapes
<1>5. \A i \in DOMAIN mail.parts : mail.parts[i].kind \in {"file", "body", "bare"}
  BY <1>3, <1>4
<1> QED BY <1>1, <1>2, <1>5 DEF AskedSoFar, Relay!DeliveredWasInspected, Relay!Overlooked, Relay!Parts, Relay!HasText, Relay!Seen,
           Relay!IsBody, IsCollected, TextAsked, UnreadAsked

\* The relay that runs has one setting, and the invariant is of all.
LEMMA RelayHolds == EndpointSpec => []RelayInv
<1>1. RelayInv /\ [EndpointNext]_endpointVars => RelayInv'
  <2> SUFFICES ASSUME RelayInv, [EndpointNext]_endpointVars PROVE RelayInv'
    OBVIOUS
  <2>0. part' = part
    BY DEF EndpointNext, Runs, endpointVars
  <2>1. ASSUME UNCHANGED relayVars PROVE RelayInv'
    BY <2>0, <2>1 DEF relayVars, RelayInv, RelayTyped, MailTyped, AskedSoFar, AskedInBetween, TextAsked, UnreadAsked,
          IsCollected
  <2>2. ASSUME NEW p, p \notin Relays, Runs(p) PROVE UNCHANGED relayVars
    BY <2>2 DEF Runs
  <2>3. \A p \in Actions \cup {"linux", "disks", "print", "storage", "siem"} : p \notin Relays
    BY DEF Actions, Relays
  <2>4. UNCHANGED endpointVars => UNCHANGED relayVars
    BY DEF endpointVars
  <2>5. (\E s \in Relays : Runs(s) /\ Relay(s)!Next) \/ UNCHANGED relayVars
    BY <2>2, <2>3, <2>4, Zenon DEF EndpointNext
  <2>6. \A s \in Relays : Runs(s) => part = s
    BY DEF Runs
  <2> QED BY <2>0, <2>1, <2>5, <2>6, RelaySteps
<1> QED BY <1>1, RelayBegins, PTL DEF EndpointSpec

\* What the relay delivers was inspected part by part, or was let through because
\* its settings say so, except for the parts that it does not collect (handle_DATA
\* and _collect_parts of the SMTP relay).
THEOREM DeliveredWasInspectedHolds == EndpointSpec => []DeliveredWasInspected
BY RelayHolds, DeliveredInspected, PTL

-----------------------------------------------------------------------------
(* The forwarding to SIEMs *)

\* What a request may be.
RequestShapes ==
  [pc : {"idle", "connect", "persist", "disconnect", "delete"}, worker : Workers \cup {0},
   connector : Siem!Connectors]

IsAt(r, stage) == requests[r].pc = stage

\* A request that is served has a worker, and one that connects a connector.
Served ==
  \A r \in Requests : /\ IsAt(r, "idle") <=> requests[r].worker = 0
                      /\ IsAt(r, "connect") => requests[r].connector.type # "none"

\* What a worker has is active or was refused.
AccountedFor(w) ==
  IF connectors[w].type = "none" THEN ~forwarding[w] ELSE forwarding[w] \/ refused[w]

\* Of requests that came one after the other.
OneAtATime ==
  ~mixed =>
    /\ connector = asked
    /\ \A r, s \in Requests : r # s => IsAt(r, "idle") \/ IsAt(s, "idle")
    /\ \A r \in Requests :
         IsAt(r, "connect") \/ IsAt(r, "disconnect") => connectors[requests[r].worker].type # "none"
    /\ \A w \in Workers :
         (\A r \in Requests : requests[r].worker = w => IsAt(r, "persist") \/ IsAt(r, "delete")) => AccountedFor(w)

SiemInv == Siem!TypeOK /\ Served /\ OneAtATime

\* What is in a connector, and what makes one.
LEMMA SiemConnectors ==
  /\ Siem!NoConnector \in Siem!Connectors /\ Siem!NoConnector.type = "none"
  /\ \A c \in Siem!Connectors :
       /\ c.type \in ConnectorTypes \cup {"none"} /\ c.connected \in BOOLEAN
       /\ c.link \in {"none", "open", "dead", "closed"} /\ c.by \in Requests \cup {0}
  /\ \A type \in ConnectorTypes \cup {"none"}, b \in BOOLEAN, link \in {"none", "open", "dead", "closed"},
        by \in Requests \cup {0} :
       [type |-> type, connected |-> b, link |-> link, by |-> by] \in Siem!Connectors
<1>1. \A c \in Siem!Connectors :
       /\ c.type \in ConnectorTypes \cup {"none"} /\ c.connected \in BOOLEAN
       /\ c.link \in {"none", "open", "dead", "closed"} /\ c.by \in Requests \cup {0}
  BY DEF Siem!Connectors
<1>2. \A type \in ConnectorTypes \cup {"none"}, b \in BOOLEAN, link \in {"none", "open", "dead", "closed"},
        by \in Requests \cup {0} :
       [type |-> type, connected |-> b, link |-> link, by |-> by] \in Siem!Connectors
  BY DEF Siem!Connectors
<1>3. Siem!NoConnector \in Siem!Connectors /\ Siem!NoConnector.type = "none"
  <2>1. PICK b \in BOOLEAN : b = FALSE
    OBVIOUS
  <2>2. Siem!NoConnector = [type |-> "none", connected |-> b, link |-> "none", by |-> 0]
    BY <2>1 DEF Siem!NoConnector
  <2> QED BY <1>2, <2>2
<1> QED BY <1>1, <1>2, <1>3

LEMMA ConnectorChanged ==
  ASSUME NEW c \in Siem!Connectors, NEW b \in BOOLEAN, NEW link \in {"none", "open", "dead", "closed"}
  PROVE  /\ [c EXCEPT !.connected = b, !.link = link] \in Siem!Connectors
         /\ [c EXCEPT !.connected = b, !.link = link].type = c.type
         /\ [c EXCEPT !.connected = b, !.link = link].connected = b
         /\ [c EXCEPT !.link = link] \in Siem!Connectors
         /\ [c EXCEPT !.link = link].type = c.type
BY DEF Siem!Connectors

\* Connecting, sending, testing and disconnecting change no type.
LEMMA ConnectedFits ==
  ASSUME NEW c \in Siem!Connectors, NEW alive \in BOOLEAN
  PROVE  /\ Siem!Connected(c, alive) \in Siem!Connectors /\ Siem!Connected(c, alive).type = c.type
         /\ Siem!Connected(c, alive).connected \in BOOLEAN
<1>1. (alive \/ c.type \in {"udp", "splunk"}) \in BOOLEAN
  OBVIOUS
<1>2. PICK b \in BOOLEAN : b = (alive \/ c.type \in {"udp", "splunk"})
  BY <1>1
<1>3. PICK link \in {"none", "open", "dead", "closed"} : link = IF c.type = "tcp" /\ ~alive THEN "none" ELSE "open"
  OBVIOUS
<1>4. Siem!Connected(c, alive) = [c EXCEPT !.connected = b, !.link = link]
  BY <1>2, <1>3 DEF Siem!Connected
<1>5. /\ [c EXCEPT !.connected = b, !.link = link] \in Siem!Connectors
      /\ [c EXCEPT !.connected = b, !.link = link].type = c.type
      /\ [c EXCEPT !.connected = b, !.link = link].connected = b
  BY DEF Siem!Connectors
<1> QED BY <1>4, <1>5, Zenon

LEMMA SentFits ==
  ASSUME NEW c \in Siem!Connectors, NEW alive \in BOOLEAN, NEW o \in Siem!Sent(c, alive)
  PROVE  o.connector \in Siem!Connectors /\ o.connector.type = c.type
<1>1. CASE c.type \in {"udp", "tcp"}
  <2>1. PICK p \in Siem!Written(c, alive) : o.connector = [c EXCEPT !.link = IF p.told THEN p.link ELSE "none"]
    BY <1>1 DEF Siem!Sent
  <2>2. p.link \in {"none", "open", "dead", "closed"}
    BY DEF Siem!Written
  <2>3. PICK link \in {"none", "open", "dead", "closed"} : link = IF p.told THEN p.link ELSE "none"
    BY <2>2
  <2>4. o.connector = [c EXCEPT !.link = link]
    BY <2>1, <2>3
  <2>5. [c EXCEPT !.link = link] \in Siem!Connectors /\ [c EXCEPT !.link = link].type = c.type
    BY ConnectorChanged, Zenon
  <2> QED BY <2>4, <2>5, Zenon
<1>2. CASE c.type \notin {"udp", "tcp"}
  <2>1. o.connector \in {c, Siem!Connected(c, alive)}
    BY <1>2 DEF Siem!Sent
  <2> QED BY <2>1, ConnectedFits
<1> QED BY <1>1, <1>2

LEMMA TestedFits ==
  ASSUME NEW c \in Siem!Connectors, NEW alive \in BOOLEAN, NEW o \in Siem!Tested(c, alive)
  PROVE  o \in Siem!Connectors /\ o.type = c.type
<1>1. CASE c.type \in {"udp", "tcp"}
  <2>1. PICK p \in Siem!Written(c, alive) : o = [c EXCEPT !.link = p.link]
    BY <1>1 DEF Siem!Tested
  <2>2. p.link \in {"none", "open", "dead", "closed"}
    BY DEF Siem!Written
  <2> QED BY <2>1, <2>2, ConnectorChanged
<1>2. CASE c.type \notin {"udp", "tcp"}
  <2>1. o \in {c, Siem!Connected(c, alive)}
    BY <1>2 DEF Siem!Tested
  <2> QED BY <2>1, ConnectedFits
<1> QED BY <1>1, <1>2

LEMMA LeftFits ==
  ASSUME NEW c \in Siem!Connectors
  PROVE  Siem!Left(c) \in Siem!Connectors /\ Siem!Left(c).type = c.type
<1>1. PICK link \in {"none", "open", "dead", "closed"} :
        link = IF c.type = "tcp" /\ c.link = "open" THEN "dead" ELSE c.link
  BY SiemConnectors
<1> QED BY <1>1, ConnectorChanged DEF Siem!Left

LEMMA DisconnectedFits == ASSUME NEW c \in Siem!Connectors PROVE Siem!Disconnected(c) \in Siem!Connectors
<1>1. PICK b \in BOOLEAN : b = FALSE
  OBVIOUS
<1>2. PICK link \in {"none", "open", "dead", "closed"} :
        link = IF c.type = "elk" /\ c.link # "none" THEN "closed" ELSE "none"
  OBVIOUS
<1> QED BY <1>1, <1>2, ConnectorChanged DEF Siem!Disconnected

LEMMA ConnectorFits ==
  ASSUME NEW type \in ConnectorTypes \cup {"none"}, NEW r \in Requests \cup {0}
  PROVE  Siem!Connector(type, r) \in Siem!Connectors /\ Siem!Connector(type, r).type = type
<1>1. \A c \in Siem!Connectors : /\ [c EXCEPT !.type = type, !.by = r] \in Siem!Connectors
                                /\ [c EXCEPT !.type = type, !.by = r].type = type
  BY DEF Siem!Connectors
<1> QED BY <1>1, SiemConnectors, Zenon DEF Siem!Connector

LEMMA SiemBegins == Siem!Init => SiemInv
<1> SUFFICES ASSUME Siem!Init PROVE SiemInv
  OBVIOUS
<1>1. Siem!Idle \in RequestShapes /\ Siem!Idle.pc = "idle" /\ Siem!Idle.worker = 0
  BY SiemConnectors DEF Siem!Idle, RequestShapes
<1>2. /\ connector = "none" /\ asked = "none" /\ connectors = [w \in Workers |-> Siem!NoConnector]
      /\ forwarding = [w \in Workers |-> FALSE] /\ refused = [w \in Workers |-> FALSE]
      /\ requests = [r \in Requests |-> Siem!Idle] /\ siemOps = 0 /\ flips = 0 /\ unwritten = 0
  BY DEF Siem!Init
<1>3. reachable \in BOOLEAN /\ mixed \in BOOLEAN
  BY DEF Siem!Init
<1>4. forwarding \in [Workers -> BOOLEAN] /\ refused \in [Workers -> BOOLEAN]
  BY <1>2
<1>5. connectors \in [Workers -> Siem!Connectors] /\ requests \in [Requests -> RequestShapes]
  BY <1>1, <1>2, SiemConnectors
<1>6. Siem!TypeOK
  BY <1>2, <1>3, <1>4, <1>5, SiemAssumption DEF SiemAssumption, Siem!TypeOK, RequestShapes
<1>7. Served /\ OneAtATime
  BY <1>1, <1>2, SiemConnectors, SiemAssumption DEF SiemAssumption, Served, OneAtATime, IsAt, AccountedFor
<1> QED BY <1>6, <1>7 DEF SiemInv

\* A request goes on, and nothing of the others or of other workers changes.
LEMMA RequestGoes ==
  ASSUME requests \in [Requests -> RequestShapes], NEW r \in Requests,
         NEW stage \in {"connect", "persist", "disconnect", "delete"}, NEW w \in Workers, NEW c \in Siem!Connectors,
         Siem!Go(r, stage, w, c)
  PROVE  /\ requests' \in [Requests -> RequestShapes]
         /\ requests'[r].pc = stage /\ requests'[r].worker = w /\ requests'[r].connector = c
         /\ \A s \in Requests \ {r} : requests'[s] = requests[s]
BY DEF Siem!Go, RequestShapes

LEMMA RequestEnds ==
  ASSUME requests \in [Requests -> RequestShapes], NEW r \in Requests, NEW what, Siem!Answered(r, what)
  PROVE  /\ requests' \in [Requests -> RequestShapes] /\ requests'[r].pc = "idle" /\ requests'[r].worker = 0
         /\ \A s \in Requests \ {r} : requests'[s] = requests[s]
         /\ asked' = what
<1>1. Siem!Idle \in RequestShapes /\ Siem!Idle.pc = "idle" /\ Siem!Idle.worker = 0
  BY SiemConnectors DEF Siem!Idle, RequestShapes
<1> QED BY <1>1 DEF Siem!Answered

\* What the SIEM part remembers of types.
LEMMA SiemTyped ==
  Siem!TypeOK <=>
    /\ connector \in ConnectorTypes \cup {"none"} /\ asked \in ConnectorTypes \cup {"none"}
    /\ connectors \in [Workers -> Siem!Connectors] /\ forwarding \in [Workers -> BOOLEAN]
    /\ refused \in [Workers -> BOOLEAN] /\ reachable \in BOOLEAN /\ mixed \in BOOLEAN
    /\ requests \in [Requests -> RequestShapes]
    /\ siemOps \in 0 .. MaxSiemOps /\ flips \in 0 .. MaxFlips /\ unwritten \in 0 .. MaxUnwritten
BY DEF Siem!TypeOK, RequestShapes

\* Connectors that change nothing but their streams change nothing of this.
LEMMA TypesKept ==
  ASSUME SiemInv,
         connectors' \in [Workers -> Siem!Connectors], requests' \in [Requests -> RequestShapes],
         \A w \in Workers : connectors'[w].type = connectors[w].type,
         \A r \in Requests : /\ requests'[r].pc = requests[r].pc /\ requests'[r].worker = requests[r].worker
                             /\ requests'[r].connector.type = requests[r].connector.type,
         reachable' \in BOOLEAN, flips' \in 0 .. MaxFlips,
         UNCHANGED <<connector, forwarding, siemOps, unwritten, asked, refused, mixed>>
  PROVE  SiemInv'
<1>0. Siem!TypeOK /\ Served /\ OneAtATime
  BY DEF SiemInv
<1>1. Siem!TypeOK'
  BY <1>0, SiemTyped DEF Siem!TypeOK, RequestShapes
<1>2. Served'
  BY <1>0 DEF Served, IsAt
<1>3. OneAtATime'
  <2> SUFFICES ASSUME ~mixed PROVE OneAtATime'
    BY DEF OneAtATime
  <2>1. \A r \in Requests :
         IsAt(r, "connect")' \/ IsAt(r, "disconnect")' => connectors'[requests'[r].worker].type # "none"
    <3> SUFFICES ASSUME NEW r \in Requests, IsAt(r, "connect")' \/ IsAt(r, "disconnect")'
                 PROVE  connectors'[requests'[r].worker].type # "none"
      OBVIOUS
    <3>1. IsAt(r, "connect") \/ IsAt(r, "disconnect")
      BY DEF IsAt
    <3>2. requests[r].worker \in Workers
      BY <1>0, <3>1, SiemTyped DEF Served, IsAt, RequestShapes
    <3> QED BY <1>0, <3>1, <3>2 DEF OneAtATime
  <2>2. \A w \in Workers : AccountedFor(w) => AccountedFor(w)'
    BY DEF AccountedFor
  <2>3. \A r \in Requests : /\ IsAt(r, "idle")' <=> IsAt(r, "idle")
                            /\ IsAt(r, "persist")' <=> IsAt(r, "persist")
                            /\ IsAt(r, "delete")' <=> IsAt(r, "delete")
    BY DEF IsAt
  <2> QED BY <1>0, <2>1, <2>2, <2>3 DEF OneAtATime
<1> QED BY <1>1, <1>2, <1>3 DEF SiemInv

LEMMA SiemNew ==
  ASSUME SiemInv, NEW r \in Requests, Siem!New(r)
  PROVE  /\ IsAt(r, "idle") /\ siemOps' \in 0 .. MaxSiemOps /\ mixed' \in BOOLEAN
         /\ ~mixed' => ~mixed /\ \A s \in Requests : IsAt(s, "idle") /\ requests[s].worker = 0
<1>1. IsAt(r, "idle") /\ siemOps' \in 0 .. MaxSiemOps /\ mixed' = (mixed \/ Siem!Overlaps(r))
  BY SiemTyped, SiemAssumption DEF SiemAssumption, SiemInv, Siem!New, Siem!At, IsAt
<1>2. mixed' \in BOOLEAN
  BY <1>1
<1>3. ~mixed' => ~mixed /\ \A s \in Requests : IsAt(s, "idle")
  BY <1>1 DEF Siem!Overlaps, Siem!At, IsAt
<1> QED BY <1>1, <1>2, <1>3 DEF SiemInv, Served

\* A request begins: alone, or all bets are off.
LEMMA RequestBegins ==
  ASSUME SiemInv, NEW r \in Requests, Siem!New(r), NEW w \in Workers, NEW c \in Siem!Connectors,
         NEW stage \in {"connect", "disconnect", "delete"}, Siem!Go(r, stage, w, c),
         connectors' \in [Workers -> Siem!Connectors], \A v \in Workers \ {w} : connectors'[v] = connectors[v],
         stage = "delete" => connectors' = connectors,
         stage # "delete" => connectors'[w].type # "none",
         stage = "connect" => c.type # "none",
         UNCHANGED <<connector, forwarding, reachable, flips, unwritten, asked, refused>>
  PROVE  SiemInv'
<1>0. Siem!TypeOK /\ Served /\ OneAtATime
  BY DEF SiemInv
<1>1. /\ requests' \in [Requests -> RequestShapes]
      /\ requests'[r].pc = stage /\ requests'[r].worker = w /\ requests'[r].connector = c
      /\ \A s \in Requests \ {r} : requests'[s] = requests[s]
  BY <1>0, SiemTyped, RequestGoes
<1>2. /\ siemOps' \in 0 .. MaxSiemOps /\ mixed' \in BOOLEAN
      /\ ~mixed' => ~mixed /\ \A s \in Requests : IsAt(s, "idle") /\ requests[s].worker = 0
  BY SiemNew
<1>3. Siem!TypeOK'
  BY <1>0, <1>1, <1>2, SiemTyped DEF Siem!TypeOK, RequestShapes
<1>4. Served'
  BY <1>0, <1>1, SiemAssumption DEF SiemAssumption, Served, IsAt
<1>5. OneAtATime'
  <2> SUFFICES ASSUME ~mixed' PROVE OneAtATime'
    BY DEF OneAtATime
  <2>1. ~mixed /\ \A s \in Requests : IsAt(s, "idle") /\ requests[s].worker = 0
    BY <1>2
  <2>2. \A v \in Workers : AccountedFor(v)
    BY <1>0, <2>1, SiemAssumption DEF SiemAssumption, OneAtATime
  <2>3. connector' = asked'
    BY <1>0, <2>1 DEF OneAtATime
  <2>4. \A s \in Requests \ {r} : requests'[s].pc = "idle"
    BY <1>1, <2>1 DEF IsAt
  <2>5. \A s, u \in Requests : s # u => IsAt(s, "idle")' \/ IsAt(u, "idle")'
    BY <2>4 DEF IsAt
  <2>6. \A s \in Requests : IsAt(s, "connect")' \/ IsAt(s, "disconnect")' =>
          connectors'[requests'[s].worker].type # "none"
    BY <1>1, <2>4 DEF IsAt
  <2>7. ASSUME NEW v \in Workers,
               \A s \in Requests : requests'[s].worker = v => IsAt(s, "persist")' \/ IsAt(s, "delete")'
        PROVE  AccountedFor(v)'
    <3>1. connectors'[v] = connectors[v]
      BY <1>1, <2>7 DEF IsAt
    <3> QED BY <2>2, <3>1 DEF AccountedFor
  <2> QED BY <2>3, <2>5, <2>6, <2>7 DEF OneAtATime
<1> QED BY <1>3, <1>4, <1>5 DEF SiemInv

\* A request ends that was about to write or delete the row.
LEMMA RequestAnswered ==
  ASSUME SiemInv, NEW r \in Requests, IsAt(r, "persist") \/ IsAt(r, "delete"),
         NEW what \in ConnectorTypes \cup {"none"}, Siem!Answered(r, what),
         connector' \in ConnectorTypes \cup {"none"}, mixed' \in BOOLEAN, unwritten' \in 0 .. MaxUnwritten,
         ~mixed' => ~mixed /\ connector' = what,
         UNCHANGED <<connectors, forwarding, reachable, siemOps, flips, refused>>
  PROVE  SiemInv'
<1>0. Siem!TypeOK /\ Served /\ OneAtATime
  BY DEF SiemInv
<1>1. /\ requests' \in [Requests -> RequestShapes] /\ requests'[r].pc = "idle" /\ requests'[r].worker = 0
      /\ \A s \in Requests \ {r} : requests'[s] = requests[s]
      /\ asked' = what
  BY <1>0, SiemTyped, RequestEnds
<1>2. Siem!TypeOK'
  BY <1>0, <1>1, SiemTyped DEF Siem!TypeOK, RequestShapes
<1>3. Served'
  BY <1>0, <1>1 DEF Served, IsAt
<1>4. OneAtATime'
  <2> SUFFICES ASSUME ~mixed' PROVE OneAtATime'
    BY DEF OneAtATime
  <2>1. connector' = asked' /\ ~mixed
    BY <1>1
  <2>2. \A s, u \in Requests : s # u => IsAt(s, "idle")' \/ IsAt(u, "idle")'
    BY <1>0, <1>1, <2>1 DEF OneAtATime, IsAt
  <2>3. \A s \in Requests : IsAt(s, "connect")' \/ IsAt(s, "disconnect")' =>
          connectors'[requests'[s].worker].type # "none"
    BY <1>0, <1>1, <2>1 DEF OneAtATime, IsAt
  <2>4. ASSUME NEW v \in Workers,
               \A s \in Requests : requests'[s].worker = v => IsAt(s, "persist")' \/ IsAt(s, "delete")'
        PROVE  AccountedFor(v)'
    <3>1. \A s \in Requests : requests[s].worker = v => IsAt(s, "persist") \/ IsAt(s, "delete")
      BY <1>1, <2>4 DEF IsAt
    <3> QED BY <1>0, <2>1, <3>1 DEF OneAtATime, AccountedFor
  <2> QED BY <2>1, <2>2, <2>3, <2>4 DEF OneAtATime
<1> QED BY <1>2, <1>3, <1>4 DEF SiemInv

\* A request goes on once the connector of its worker has changed.
LEMMA RequestGoesOn ==
  ASSUME SiemInv, NEW r \in Requests, NEW w \in Workers, requests[r].worker = w,
         NEW c \in Siem!Connectors, NEW stage \in {"persist", "delete"}, Siem!Go(r, stage, w, c),
         connectors' \in [Workers -> Siem!Connectors], \A v \in Workers \ {w} : connectors'[v] = connectors[v],
         forwarding' \in [Workers -> BOOLEAN], \A v \in Workers \ {w} : forwarding'[v] = forwarding[v],
         refused' \in [Workers -> BOOLEAN], \A v \in Workers \ {w} : refused'[v] = refused[v],
         ~mixed => AccountedFor(w)', ~IsAt(r, "idle"),
         UNCHANGED <<connector, reachable, siemOps, flips, unwritten, asked, mixed>>
  PROVE  SiemInv'
<1>0. Siem!TypeOK /\ Served /\ OneAtATime
  BY DEF SiemInv
<1>1. /\ requests' \in [Requests -> RequestShapes]
      /\ requests'[r].pc = stage /\ requests'[r].worker = w /\ requests'[r].connector = c
      /\ \A s \in Requests \ {r} : requests'[s] = requests[s]
  BY <1>0, SiemTyped, RequestGoes
<1>2. Siem!TypeOK'
  BY <1>0, <1>1, SiemTyped DEF Siem!TypeOK, RequestShapes
<1>3. Served'
  BY <1>0, <1>1, SiemAssumption DEF SiemAssumption, Served, IsAt
<1>4. OneAtATime'
  <2> SUFFICES ASSUME ~mixed PROVE OneAtATime'
    BY DEF OneAtATime
  <2>1. connector' = asked'
    BY <1>0 DEF OneAtATime
  <2>2. \A s \in Requests \ {r} : requests[s].pc = "idle" /\ requests'[s].pc = "idle"
    BY <1>0, <1>1 DEF OneAtATime, IsAt
  <2>3. \A s, u \in Requests : s # u => IsAt(s, "idle")' \/ IsAt(u, "idle")'
    BY <2>2 DEF IsAt
  <2>4. \A s \in Requests : ~IsAt(s, "connect")' /\ ~IsAt(s, "disconnect")'
    BY <1>1, <2>2 DEF IsAt
  <2>5. ASSUME NEW v \in Workers \ {w} PROVE AccountedFor(v)'
    <3>1. \A s \in Requests : requests[s].worker # v
      BY <1>0, <2>2, SiemAssumption DEF SiemAssumption, Served, IsAt
    <3> QED BY <1>0, <3>1 DEF OneAtATime, AccountedFor
  <2> QED BY <2>1, <2>3, <2>4, <2>5 DEF OneAtATime
<1> QED BY <1>2, <1>3, <1>4 DEF SiemInv

LEMMA SiemSteps == SiemInv /\ [Siem!Next]_(Siem!vars) => SiemInv'
<1> SUFFICES ASSUME SiemInv, [Siem!Next]_(Siem!vars) PROVE SiemInv'
  OBVIOUS
<1>0. Siem!TypeOK /\ Served /\ OneAtATime
  BY DEF SiemInv
<1>1. /\ connector \in ConnectorTypes \cup {"none"} /\ connectors \in [Workers -> Siem!Connectors]
      /\ forwarding \in [Workers -> BOOLEAN] /\ refused \in [Workers -> BOOLEAN]
      /\ reachable \in BOOLEAN /\ mixed \in BOOLEAN /\ requests \in [Requests -> RequestShapes]
      /\ unwritten \in 0 .. MaxUnwritten /\ flips \in 0 .. MaxFlips /\ siemOps \in 0 .. MaxSiemOps
  BY <1>0, SiemTyped
<1>2. ASSUME NEW r \in Requests
      PROVE  /\ requests[r].worker \in Workers \cup {0} /\ requests[r].connector \in Siem!Connectors
             /\ requests[r].connector.type \in ConnectorTypes \cup {"none"}
             /\ ~IsAt(r, "idle") => requests[r].worker \in Workers
  BY <1>0, <1>1, SiemConnectors DEF RequestShapes, Served
<1>a. ASSUME NEW r \in Requests, NEW w \in Workers, NEW type \in ConnectorTypes, Siem!RegisterBegin(r, w, type)
      PROVE  SiemInv'
  <2> DEFINE c == Siem!Connector(type, r)
  <2>1. c \in Siem!Connectors /\ c.type = type /\ type # "none"
    BY ConnectorFits, SiemAssumption DEF SiemAssumption
  <2>2. /\ Siem!New(r) /\ connectors' = [connectors EXCEPT ![w] = c] /\ Siem!Go(r, "connect", w, c)
        /\ UNCHANGED <<connector, forwarding, reachable, flips, unwritten, asked, refused>>
    BY <1>a DEF Siem!RegisterBegin, Siem!Put
  <2> HIDE DEF c
  <2>3. /\ connectors' \in [Workers -> Siem!Connectors] /\ connectors'[w] = c
        /\ \A v \in Workers \ {w} : connectors'[v] = connectors[v]
    BY <1>1, <2>1, <2>2
  <2> QED BY <2>1, <2>2, <2>3, RequestBegins
<1>b. ASSUME NEW r \in Requests, NEW w \in Workers, Siem!RemoveBegin(r, w) PROVE SiemInv'
  <2>1. PICK stage \in {"disconnect", "delete"} :
          /\ stage = IF connectors[w].type = "none" THEN "delete" ELSE "disconnect"
          /\ Siem!Go(r, stage, w, connectors[w])
    BY <1>b DEF Siem!RemoveBegin
  <2>2. /\ Siem!New(r)
        /\ UNCHANGED <<connector, connectors, forwarding, reachable, flips, unwritten, asked, refused>>
    BY <1>b DEF Siem!RemoveBegin
  <2>3. connectors[w] \in Siem!Connectors
    BY <1>1
  <2> QED BY <1>1, <2>1, <2>2, <2>3, RequestBegins
<1>c. ASSUME NEW r \in Requests, Siem!RegisterConnect(r) PROVE SiemInv'
  <2> DEFINE c == Siem!Connected(requests[r].connector, reachable)
  <2>1. IsAt(r, "connect") /\ ~IsAt(r, "idle")
    BY <1>c DEF Siem!RegisterConnect, Siem!At, IsAt
  <2>8. PICK w \in Workers : w = requests[r].worker
    BY <1>2, <2>1
  <2>2. c \in Siem!Connectors /\ c.type # "none" /\ c.connected \in BOOLEAN
    BY <1>0, <1>1, <1>2, <2>1, ConnectedFits DEF Served
  <2>3. /\ connectors' = [connectors EXCEPT ![w] = IF Siem!Own(r) THEN c ELSE @]
        /\ forwarding' = [forwarding EXCEPT ![w] = @ \/ c.connected]
        /\ refused' = [refused EXCEPT ![w] = ~c.connected]
        /\ Siem!Go(r, "persist", w, c)
        /\ UNCHANGED <<connector, reachable, siemOps, flips, unwritten, asked, mixed>>
    BY <1>c, <2>8 DEF Siem!RegisterConnect, Siem!Of
  <2> HIDE DEF c
  <2>4. /\ connectors' \in [Workers -> Siem!Connectors] /\ connectors'[w] \in {connectors[w], c}
        /\ \A v \in Workers \ {w} : connectors'[v] = connectors[v]
    BY <1>1, <2>2, <2>3
  <2>5. PICK a, f \in BOOLEAN : a = (forwarding[w] \/ c.connected) /\ f = ~c.connected
    <3>1. (forwarding[w] \/ c.connected) \in BOOLEAN /\ (~c.connected) \in BOOLEAN
      OBVIOUS
    <3> QED BY <3>1
  <2>6. /\ forwarding' \in [Workers -> BOOLEAN] /\ forwarding'[w] = a
        /\ \A v \in Workers \ {w} : forwarding'[v] = forwarding[v]
        /\ refused' \in [Workers -> BOOLEAN] /\ refused'[w] = f
        /\ \A v \in Workers \ {w} : refused'[v] = refused[v]
    <3>1. forwarding' = [forwarding EXCEPT ![w] = a] /\ refused' = [refused EXCEPT ![w] = f]
      BY <2>3, <2>5
    <3> QED BY <1>1, <2>2, <3>1
  <2>7. ~mixed => AccountedFor(w)'
    <3>1. ~mixed => connectors[w].type # "none"
      BY <1>0, <2>1, <2>8 DEF OneAtATime
    <3>2. a \/ f
      BY <2>5
    <3> QED BY <2>2, <2>4, <2>6, <3>1, <3>2 DEF AccountedFor
  <2> QED BY <2>1, <2>2, <2>3, <2>4, <2>6, <2>7, <2>8, RequestGoesOn
<1>d. ASSUME NEW r \in Requests, Siem!RegisterPersist(r) PROVE SiemInv'
  <2> DEFINE what == requests[r].connector.type
  <2>1. IsAt(r, "persist") /\ Siem!Answered(r, what)
        /\ UNCHANGED <<connectors, forwarding, reachable, siemOps, flips, refused>>
    BY <1>d DEF Siem!RegisterPersist, Siem!At, IsAt
  <2>2. \/ connector' = what /\ mixed' = mixed /\ unwritten' = unwritten
        \/ unwritten < MaxUnwritten /\ unwritten' = unwritten + 1 /\ mixed' = TRUE /\ connector' = connector
    BY <1>d DEF Siem!RegisterPersist
  <2>3. PICK type \in ConnectorTypes \cup {"none"} : type = what
    BY <1>2
  <2>4. connector' \in ConnectorTypes \cup {"none"} /\ unwritten' \in 0 .. MaxUnwritten
    BY <1>1, <2>2, <2>3, SiemAssumption DEF SiemAssumption
  <2>5. mixed' \in BOOLEAN
    BY <1>1, <2>2
  <2>6. ~mixed' => ~mixed /\ connector' = type
    BY <2>2, <2>3
  <2> QED BY <2>1, <2>3, <2>4, <2>5, <2>6, RequestAnswered
<1>e. ASSUME NEW r \in Requests, Siem!RemoveForget(r) PROVE SiemInv'
  <2>1. IsAt(r, "disconnect") /\ ~IsAt(r, "idle")
    BY <1>e DEF Siem!RemoveForget, Siem!At, IsAt
  <2>2. PICK w \in Workers : w = requests[r].worker
    BY <1>2, <2>1
  <2>3. PICK c \in Siem!Connectors : Siem!Go(r, "delete", w, c)
    BY <1>e, <1>2, <2>2, DisconnectedFits DEF Siem!RemoveForget, Siem!Of
  <2>4. /\ connectors' = [connectors EXCEPT ![w] = Siem!NoConnector]
        /\ forwarding' = [forwarding EXCEPT ![w] = @ /\ connectors[w].type = "none"]
        /\ UNCHANGED <<connector, reachable, siemOps, flips, unwritten, asked, refused, mixed>>
    BY <1>e, <2>2 DEF Siem!RemoveForget, Siem!Of
  <2>5. PICK a \in BOOLEAN : a = (forwarding[w] /\ connectors[w].type = "none")
    <3>1. (forwarding[w] /\ connectors[w].type = "none") \in BOOLEAN
      OBVIOUS
    <3> QED BY <3>1
  <2>6. /\ forwarding' \in [Workers -> BOOLEAN] /\ forwarding'[w] = a
        /\ \A v \in Workers \ {w} : forwarding'[v] = forwarding[v]
    <3>1. forwarding' = [forwarding EXCEPT ![w] = a]
      BY <2>4, <2>5
    <3> QED BY <1>1, <3>1
  <2>7. /\ connectors' \in [Workers -> Siem!Connectors] /\ connectors'[w].type = "none"
        /\ \A v \in Workers \ {w} : connectors'[v] = connectors[v]
    BY <1>1, <2>4, SiemConnectors
  <2>8. ~mixed => AccountedFor(w)'
    <3>1. ~mixed => connectors[w].type # "none"
      BY <1>0, <2>1, <2>2 DEF OneAtATime
    <3>2. ~mixed => ~a
      BY <2>5, <3>1
    <3> QED BY <2>6, <2>7, <3>2 DEF AccountedFor
  <2> QED BY <1>1, <2>1, <2>2, <2>3, <2>4, <2>6, <2>7, <2>8, RequestGoesOn
<1>f. ASSUME NEW r \in Requests, Siem!RemoveDelete(r) PROVE SiemInv'
  <2>1. /\ IsAt(r, "delete") /\ connector' = "none" /\ Siem!Answered(r, "none")
        /\ UNCHANGED <<connectors, forwarding, reachable, siemOps, flips, unwritten, refused, mixed>>
    BY <1>f DEF Siem!RemoveDelete, Siem!At, IsAt
  <2> QED BY <1>1, <2>1, RequestAnswered
<1>g. ASSUME NEW w \in Workers, Siem!Forward(w) \/ Siem!ForwardTo(w) \/ Siem!Test(w) PROVE SiemInv'
  <2>1. PICK c \in Siem!Connectors :
          connectors' = [connectors EXCEPT ![w] = c] /\ c.type = connectors[w].type
    <3>1. connectors[w] \in Siem!Connectors
      BY <1>1
    <3>2. CASE Siem!Forward(w) \/ Siem!ForwardTo(w)
      <4>1. PICK o \in Siem!Sent(connectors[w], reachable) : connectors' = [connectors EXCEPT ![w] = o.connector]
        BY <3>2 DEF Siem!Forward, Siem!ForwardTo
      <4> QED BY <1>1, <3>1, <4>1, SentFits
    <3>3. CASE Siem!Test(w)
      <4>1. PICK o \in Siem!Tested(connectors[w], reachable) : connectors' = [connectors EXCEPT ![w] = o]
        BY <3>3 DEF Siem!Test
      <4> QED BY <1>1, <3>1, <4>1, TestedFits
    <3> QED BY <1>g, <3>2, <3>3
  <2>2. UNCHANGED <<connector, forwarding, reachable, requests, siemOps, flips, unwritten, asked, refused, mixed>>
    BY <1>g DEF Siem!Forward, Siem!ForwardTo, Siem!Test
  <2>3. connectors' \in [Workers -> Siem!Connectors] /\ \A v \in Workers : connectors'[v].type = connectors[v].type
    BY <1>1, <2>1
  <2> QED BY <1>1, <2>2, <2>3, TypesKept
<1>h. ASSUME NEW w \in Workers, Siem!Restart(w) PROVE SiemInv'
  <2> DEFINE c == Siem!Connected(Siem!Connector(connector, 0), reachable)
  <2>2. /\ connector \in ConnectorTypes \cup {"none"} /\ 0 \in Requests \cup {0} /\ reachable \in BOOLEAN
        /\ Siem!Connector(connector, 0) \in Siem!Connectors /\ Siem!Connector(connector, 0).type = connector
    <3>1. connector \in ConnectorTypes \cup {"none"} /\ 0 \in Requests \cup {0} /\ reachable \in BOOLEAN
      BY <1>1
    <3> QED BY <3>1, ConnectorFits, Zenon
  <2>1. c \in Siem!Connectors /\ c.type = connector /\ c.connected \in BOOLEAN
    <3>1. /\ c \in Siem!Connectors /\ c.type = Siem!Connector(connector, 0).type
          /\ c.connected \in BOOLEAN
      BY <2>2, ConnectedFits, Zenon
    <3> QED BY <2>2, <3>1, Zenon
  <2>3. /\ connectors' = [connectors EXCEPT ![w] = IF connector # "none" THEN c ELSE Siem!NoConnector]
        /\ forwarding' = [forwarding EXCEPT ![w] = connector # "none" /\ c.connected]
        /\ refused' = [refused EXCEPT ![w] = ~c.connected]
        /\ requests' = [r \in Requests |-> IF requests[r].worker = w THEN Siem!Idle ELSE requests[r]]
        /\ mixed' = (mixed \/ \E r \in Requests : requests[r].worker = w)
        /\ UNCHANGED <<connector, reachable, flips, unwritten, asked>>
    BY <1>h, <2>2 DEF Siem!Restart, Siem!ConnectAll, Siem!Of
  <2> HIDE DEF c
  <2>4. siemOps' \in 0 .. MaxSiemOps
    BY <1>h, <1>1, SiemAssumption DEF SiemAssumption, Siem!Restart
  <2>5. mixed' \in BOOLEAN
    BY <2>3
  <2>6. PICK a, f \in BOOLEAN : a = (connector # "none" /\ c.connected) /\ f = ~c.connected
    <3>1. (connector # "none" /\ c.connected) \in BOOLEAN /\ (~c.connected) \in BOOLEAN
      OBVIOUS
    <3> QED BY <3>1
  <2>7. /\ forwarding' \in [Workers -> BOOLEAN] /\ forwarding'[w] = a
        /\ \A v \in Workers \ {w} : forwarding'[v] = forwarding[v]
        /\ refused' \in [Workers -> BOOLEAN] /\ refused'[w] = f
        /\ \A v \in Workers \ {w} : refused'[v] = refused[v]
    <3>1. forwarding' = [forwarding EXCEPT ![w] = a] /\ refused' = [refused EXCEPT ![w] = f]
      BY <2>3, <2>6
    <3> QED BY <1>1, <3>1
  <2>8. /\ connectors' \in [Workers -> Siem!Connectors] /\ connectors'[w].type = connector
        /\ \A v \in Workers \ {w} : connectors'[v] = connectors[v]
    BY <1>1, <2>1, <2>3, SiemConnectors
  <2>9. Siem!Idle \in RequestShapes /\ Siem!Idle.pc = "idle" /\ Siem!Idle.worker = 0
    BY SiemConnectors DEF Siem!Idle, RequestShapes
  <2>10. /\ requests' \in [Requests -> RequestShapes]
         /\ \A r \in Requests : requests'[r] = IF requests[r].worker = w THEN Siem!Idle ELSE requests[r]
    BY <1>1, <2>3, <2>9
  <2>11. Siem!TypeOK'
    BY <1>0, <1>1, <2>3, <2>4, <2>5, <2>7, <2>8, <2>10 DEF Siem!TypeOK, RequestShapes
  <2>12. Served'
    BY <1>0, <2>9, <2>10 DEF Served, IsAt
  <2>13. OneAtATime'
    <3> SUFFICES ASSUME ~mixed' PROVE OneAtATime'
      BY DEF OneAtATime
    <3>1. ~mixed /\ \A r \in Requests : requests[r].worker # w /\ requests'[r] = requests[r]
      BY <2>3, <2>10
    <3>2. connector' = asked'
      BY <1>0, <2>3, <3>1 DEF OneAtATime
    <3>3. \A r, s \in Requests : r # s => IsAt(r, "idle")' \/ IsAt(s, "idle")'
      BY <1>0, <3>1 DEF OneAtATime, IsAt
    <3>4. ASSUME NEW r \in Requests, IsAt(r, "connect")' \/ IsAt(r, "disconnect")'
          PROVE  connectors'[requests'[r].worker].type # "none"
      <4>1. (IsAt(r, "connect") \/ IsAt(r, "disconnect")) /\ ~IsAt(r, "idle")
        BY <3>1, <3>4 DEF IsAt
      <4>2. requests[r].worker \in Workers \ {w}
        BY <1>2, <3>1, <4>1
      <4> QED BY <1>0, <2>8, <3>1, <4>1, <4>2 DEF OneAtATime
    <3>5. AccountedFor(w)'
      BY <2>6, <2>7, <2>8 DEF AccountedFor
    <3>6. ASSUME NEW v \in Workers \ {w},
                 \A s \in Requests : requests'[s].worker = v => IsAt(s, "persist")' \/ IsAt(s, "delete")'
          PROVE  AccountedFor(v)'
      <4>1. AccountedFor(v)
        BY <1>0, <3>1, <3>6 DEF OneAtATime, IsAt
      <4> QED BY <2>7, <2>8, <4>1 DEF AccountedFor
    <3> QED BY <3>2, <3>3, <3>4, <3>5, <3>6 DEF OneAtATime
  <2> QED BY <2>11, <2>12, <2>13 DEF SiemInv
<1>i. ASSUME Siem!Flip PROVE SiemInv'
  <2>1. /\ flips' \in 0 .. MaxFlips /\ reachable' = ~reachable
        /\ connectors' = [w \in Workers |-> Siem!Left(connectors[w])]
        /\ requests' = [r \in Requests |-> [requests[r] EXCEPT !.connector = Siem!Left(@)]]
        /\ UNCHANGED <<connector, forwarding, siemOps, unwritten, asked, refused, mixed>>
    BY <1>i, <1>1, SiemAssumption DEF SiemAssumption, Siem!Flip
  <2>2. reachable' \in BOOLEAN
    BY <2>1
  <2>3. connectors' \in [Workers -> Siem!Connectors] /\ \A w \in Workers : connectors'[w].type = connectors[w].type
    BY <1>1, <2>1, LeftFits
  <2>4. ASSUME NEW r \in Requests
        PROVE  /\ requests'[r] \in RequestShapes
               /\ requests'[r].pc = requests[r].pc /\ requests'[r].worker = requests[r].worker
               /\ requests'[r].connector.type = requests[r].connector.type
    <3>1. requests[r] \in RequestShapes
      BY <1>1
    <3>2. Siem!Left(requests[r].connector) \in Siem!Connectors
          /\ Siem!Left(requests[r].connector).type = requests[r].connector.type
      BY <1>2, LeftFits
    <3>3. \A q \in RequestShapes, c \in Siem!Connectors :
            LET n == [q EXCEPT !.connector = c]
            IN n \in RequestShapes /\ n.pc = q.pc /\ n.worker = q.worker /\ n.connector = c
      BY DEF RequestShapes
    <3>4. requests'[r] = [requests[r] EXCEPT !.connector = Siem!Left(requests[r].connector)]
      BY <2>1, <3>1 DEF RequestShapes
    <3> QED BY <3>1, <3>2, <3>3, <3>4
  <2>5. requests' \in [Requests -> RequestShapes]
    BY <2>1, <2>4
  <2> QED BY <2>1, <2>2, <2>3, <2>4, <2>5, TypesKept
<1>j. ASSUME UNCHANGED Siem!vars PROVE SiemInv'
  BY <1>j, <1>0 DEF Siem!vars, SiemInv, Siem!TypeOK, Served, OneAtATime, IsAt, AccountedFor
<1> QED BY <1>a, <1>b, <1>c, <1>d, <1>e, <1>f, <1>g, <1>h, <1>i, <1>j DEF Siem!Next

\* A write that failed is told, and the next one opens the stream.
LEMMA StreamReopened ==
  ASSUME NEW c \in Siem!Connectors, NEW alive, NEW first \in Siem!Sent(c, alive), ~first.told, first.told # alive,
         \A p \in Siem!Written(c, alive) : c.type = "udp" => p.told = alive,
         NEW second \in Siem!Sent(first.connector, alive)
  PROVE  second.told = alive /\ second.arrived = alive
<1>1. c.type \in {"udp", "tcp"}
  BY DEF Siem!Sent
<1>2. PICK p \in Siem!Written(c, alive) :
        first = [told |-> p.told, arrived |-> p.arrived,
                 connector |-> [c EXCEPT !.link = IF p.told THEN p.link ELSE "none"]]
  BY <1>1, Zenon DEF Siem!Sent
<1>a. first.told = p.told
  BY <1>2
<1>b. first.connector = [c EXCEPT !.link = IF p.told THEN p.link ELSE "none"]
  BY <1>2
<1>3. c.type = "tcp"
  BY <1>1, <1>a
<1>4. first.connector.type = "tcp" /\ first.connector.link = "none"
  BY <1>a, <1>b, <1>3 DEF Siem!Connectors
<1>5. PICK q \in Siem!Written(first.connector, alive) : second.told = q.told /\ second.arrived = q.arrived
  BY <1>4 DEF Siem!Sent
<1> QED BY <1>4, <1>5 DEF Siem!Written

\* The invariant, and what a failed write leaves behind, say the property.
LEMMA SiemsFed == SiemInv => SiemsAreFed
<1> SUFFICES ASSUME SiemInv PROVE SiemsAreFed
  OBVIOUS
<1>0. Siem!TypeOK /\ Served /\ OneAtATime
  BY DEF SiemInv
<1>1. Siem!LastWordIsStored
  BY <1>0 DEF OneAtATime, Siem!LastWordIsStored
<1>2. Siem!SilentWasRefused
  BY <1>0 DEF OneAtATime, AccountedFor, Siem!SilentWasRefused, Siem!Settled, Siem!Of
<1>3. Siem!FailureReconnects
  <2> SUFFICES ASSUME reachable, NEW w \in Workers, NEW first \in Siem!Sent(connectors[w], reachable), ~first.told,
                      NEW second \in Siem!Sent(first.connector, reachable)
               PROVE  second.told /\ second.arrived
    BY DEF Siem!FailureReconnects
  <2>1. reachable \in BOOLEAN /\ reachable = TRUE
    BY <1>0 DEF Siem!TypeOK
  <2>2. connectors[w] \in Siem!Connectors
    BY <1>0 DEF Siem!TypeOK
  <2>3. ASSUME NEW p \in Siem!Written(connectors[w], reachable), connectors[w].type = "udp"
        PROVE  p.told = reachable
    <3>1. p = [told |-> TRUE, arrived |-> reachable, link |-> "open"]
      BY <2>3, Zenon DEF Siem!Written
    <3>2. p.told
      BY <3>1
    <3> QED BY <2>1, <3>1, <3>2
  <2>4. first.told # reachable
    BY <2>1
  <2> QED BY <2>2, <2>1, <2>3, <2>4, StreamReopened, Zenon
<1> QED BY <1>1, <1>2, <1>3 DEF SiemsAreFed

LEMMA SiemRuns == EndpointSpec => Siem!Spec
<1>1. EndpointInit => Siem!Init
  BY DEF EndpointInit
<1>2. [EndpointNext]_endpointVars => [Siem!Next]_(Siem!vars)
  <2> SUFFICES ASSUME [EndpointNext]_endpointVars PROVE Siem!Next \/ UNCHANGED siemVars
    BY DEF siemVars, Siem!vars
  <2>1. ASSUME NEW p, p # "siem", Runs(p) PROVE UNCHANGED siemVars
    BY <2>1 DEF Runs
  <2>2. "siem" \notin Actions /\ "siem" \notin Relays
    BY DEF Actions, Relays
  <2>3. UNCHANGED endpointVars => UNCHANGED siemVars
    BY DEF endpointVars
  <2> QED BY <2>1, <2>2, <2>3, Zenon DEF EndpointNext
<1> QED BY <1>1, <1>2, PTL DEF EndpointSpec, Siem!Spec

LEMMA SiemHolds == EndpointSpec => []SiemInv
<1>1. Siem!Spec => []SiemInv
  BY SiemBegins, SiemSteps, PTL DEF Siem!Spec
<1> QED BY <1>1, SiemRuns, PTL

\* Of requests that came one after the other: the stored connector is the one last
\* asked for, a worker that has a connector forwards to it unless its connect was
\* refused, and after a write that failed the next one opens the stream again
\* (register_connector, unregister_connector and send_event of the SIEM service).
THEOREM SiemsAreFedHolds == EndpointSpec => []SiemsAreFed
BY SiemHolds, SiemsFed, PTL

-----------------------------------------------------------------------------
(* The types of every part *)

LEMMA PartHolds == EndpointSpec => [](part \in Parts)
<1>1. EndpointInit => part \in Parts
  BY DEF EndpointInit
<1>2. part \in Parts /\ [EndpointNext]_endpointVars => (part \in Parts)'
  BY DEF EndpointNext, Runs, endpointVars
<1> QED BY <1>1, <1>2, PTL DEF EndpointSpec

\* The variables of the part that runs keep to what the code can hold.
THEOREM EndpointTypesHold == EndpointSpec => []TypesOK
<1>1. /\ part \in Parts /\ LinuxInv /\ FilesInv /\ DisksInv
      /\ PrintInv /\ StorageInv /\ RelayInv /\ SiemInv
      => TypesOK
  <2> SUFFICES ASSUME part \in Parts, LinuxInv, FilesInv, DisksInv, PrintInv, StorageInv, RelayInv, SiemInv
               PROVE  TypesOK
    OBVIOUS
  <2>1. Linux!TypeOK /\ Disks!TypeOK /\ Printing!TypeOK /\ Storage!TypeOK /\ Siem!TypeOK
    BY DEF LinuxInv, DisksInv, PrintInv, StorageInv, SiemInv
  <2>2. Files("log")!TypeOK
    BY FilesTypedMeans DEF FilesInv
  <2>3. Relay("open")!TypeOK
    <3>1. "open" \in Relays
      BY DEF Relays
    <3> QED BY <3>1, RelayTypedMeans DEF RelayInv
  <2> QED BY <2>1, <2>2, <2>3 DEF TypesOK
<1> QED BY <1>1, PartHolds, LinuxHolds, FilesHold, DisksHold, PrintHolds, StorageHolds, RelayHolds, SiemHolds, PTL
=============================================================================
