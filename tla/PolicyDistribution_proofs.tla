---------------------- MODULE PolicyDistribution_proofs ----------------------
(***************************************************************************)
(* Theorems about the distribution of policies, for any number of workers, *)
(* agents, policies and concurrent requests.                               *)
(***************************************************************************)
EXTENDS PolicyDistribution, TLAPS

LEMMA EnabledAreIssued ==
  ASSUME NEW t \in [Policies -> Row]
  PROVE  EnabledPolicies(t) \in SUBSET Issued
BY DEF EnabledPolicies, Issued, Row

LEMMA BundleIsSubset ==
  ASSUME NEW P, NEW a
  PROVE  BundleFor(P, a) \subseteq P
BY DEF BundleFor

LEMMA IdleTypes ==
  /\ NoRow \in Row /\ NoCache \in EvalCache /\ NoKey \in BundleKey
  /\ IdleAdmin \in AdminSlot /\ IdleEval \in EvalSlot /\ IdleSync \in SyncSlot
BY TTLAssumption
   DEF NoRow, Row, NoCache, EvalCache, NoKey, BundleKey, IdleAdmin, AdminSlot, Ops,
       IdleEval, EvalSlot, IdleSync, SyncSlot

LEMMA WantedType ==
  ASSUME NEW op \in Ops \ {"refresh"}, NEW row \in Row,
         NEW scope \in SUBSET Agents, NEW active \in BOOLEAN
  PROVE  Wanted(op, row, scope, active) \in Row
BY DEF Wanted, Row, Ops

LEMMA WrittenType ==
  ASSUME NEW now \in Row, NEW loaded \in Row, NEW wanted \in Row, NEW stamp \in Nat
  PROVE  Written(now, loaded, wanted, stamp) \in Row
BY DEF Written, Row

LEMMA OlderTypes ==
  /\ \A c \in EvalCache : Older(c) \in EvalCache
  /\ \A k \in BundleKey : Older(k) \in BundleKey
BY TTLAssumption DEF Older, EvalCache, BundleKey

-----------------------------------------------------------------------------
(* Type correctness *)

\* A request that is about to commit names the policy it loaded.
LoadedNamesPolicy ==
  \A x \in Admins : admin[x].pc = "loaded" =>
    admin[x].op # "refresh" /\ admin[x].policy \in Policies

TypeInv == TypeOK /\ LoadedNamesPolicy

LEMMA TypeInit == Init => TypeInv
BY IdleTypes, BoundAssumption DEF Init, TypeInv, TypeOK, LoadedNamesPolicy, IdleAdmin

LEMMA TypeAdmin ==
  ASSUME TypeInv, NEW x \in Admins, AdminNext(x)
  PROVE  TypeInv'
<1> USE DEF TypeInv, TypeOK, LoadedNamesPolicy
<1>1. CASE AdminLoad(x)
  <2>1. PICK op \in Ops \ {"refresh"}, p \in Policies :
          admin' = [admin EXCEPT ![x] = [IdleAdmin EXCEPT !.pc = "loaded", !.op = op,
                                           !.policy = p, !.row = table[p]]]
    BY <1>1 DEF AdminLoad
  <2>2. admin' \in [Admins -> AdminSlot]
    BY <2>1, IdleTypes DEF AdminSlot
  <2>3. LoadedNamesPolicy'
    BY <2>1 DEF IdleAdmin
  <2> QED BY <1>1, <2>2, <2>3 DEF AdminLoad
<1>2. CASE AdminCommit(x)
  <2> DEFINE p == admin[x].policy
  <2>1. p \in Policies /\ admin[x].op \in Ops \ {"refresh"} /\ admin[x].row \in Row
    BY <1>2 DEF AdminCommit, AdminSlot
  <2>2. PICK scope \in SUBSET Agents, active \in BOOLEAN :
          \/ UNCHANGED table
          \/ table' = [table EXCEPT ![p] =
               Written(table[p], admin[x].row,
                       Wanted(admin[x].op, admin[x].row, scope, active), commits + 1)]
    BY <1>2 DEF AdminCommit
  <2>3. Wanted(admin[x].op, admin[x].row, scope, active) \in Row
    BY <2>1, WantedType
  <2>4. Written(table[p], admin[x].row,
                Wanted(admin[x].op, admin[x].row, scope, active), commits + 1) \in Row
    <3>1. table[p] \in Row /\ commits + 1 \in Nat
      BY <2>1
    <3> HIDE DEF p
    <3> QED BY <2>1, <2>3, <3>1, WrittenType
  <2>5. table' \in [Policies -> Row]
    BY <2>2, <2>4
  <2>6. admin' \in [Admins -> AdminSlot] /\ LoadedNamesPolicy'
    BY <1>2 DEF AdminCommit, AdminSlot
  <2> QED BY <1>2, <2>5, <2>6 DEF AdminCommit
<1>3. CASE AdminBump(x)
  <2>1. admin' \in [Admins -> AdminSlot] /\ LoadedNamesPolicy'
    BY <1>3 DEF AdminBump, AdminSlot
  <2>2. AdminWorker[x] \in Workers
    BY SlotAssumption
  <2> QED BY <1>3, <2>1, <2>2 DEF AdminBump
<1>4. CASE AdminRefresh(x)
  <2>1. admin' \in [Admins -> AdminSlot] /\ LoadedNamesPolicy'
    BY <1>4, IdleTypes DEF AdminRefresh, AdminSlot
  <2> QED BY <1>4, <2>1 DEF AdminRefresh
<1>5. CASE FlushBegin(x)
  <2> DEFINE keys == {a \in Agents : bundles[a].left > 0}
  <2>1. [admin[x] EXCEPT !.pc = "flushing", !.seq = commits, !.keys = keys] \in AdminSlot
    BY DEF AdminSlot
  <2>2. admin' \in [Admins -> AdminSlot] /\ LoadedNamesPolicy'
    BY <1>5, <2>1 DEF FlushBegin
  <2>3. \A s \in Syncs : [sync[s] EXCEPT !.raced = TRUE] \in SyncSlot
    BY DEF SyncSlot
  <2>4. sync' \in [Syncs -> SyncSlot]
    BY <1>5, <2>3 DEF FlushBegin
  <2> QED BY <1>5, <2>2, <2>4 DEF FlushBegin
<1>6. CASE FlushEnd(x)
  <2>1. admin' \in [Admins -> AdminSlot] /\ LoadedNamesPolicy'
    BY <1>6, IdleTypes DEF FlushEnd, IdleAdmin
  <2>2. flushed' \in Nat
    BY <1>6 DEF FlushEnd, AdminSlot
  <2> QED BY <1>6, <2>1, <2>2 DEF FlushEnd
<1>7. CASE AdminAbort(x)
  <2>1. admin' \in [Admins -> AdminSlot] /\ LoadedNamesPolicy'
    BY <1>7, IdleTypes DEF AdminAbort, IdleAdmin
  <2> QED BY <1>7, <2>1, BoundAssumption DEF AdminAbort, Fault
<1>8. ASSUME NEW a \in Agents, FlushKey(x, a) PROVE TypeInv'
  <2>1. admin' \in [Admins -> AdminSlot] /\ LoadedNamesPolicy'
    BY <1>8 DEF FlushKey, AdminSlot
  <2> QED BY <1>8, <2>1, IdleTypes DEF FlushKey
<1> QED BY <1>1, <1>2, <1>3, <1>4, <1>5, <1>6, <1>7, <1>8 DEF AdminNext

LEMMA TypeEval ==
  ASSUME TypeInv, NEW e \in Evals, EvalNext(e)
  PROVE  TypeInv'
<1> USE DEF TypeInv, TypeOK, LoadedNamesPolicy
<1> USE SlotAssumption, IdleTypes
<1>1. CASE EvalHit(e)
  BY <1>1 DEF EvalHit, EvalSlot, EvalCache
<1>2. CASE EvalMiss(e)
  BY <1>2 DEF EvalMiss, EvalSlot
<1>3. CASE EvalLoad(e)
  BY <1>3, EnabledAreIssued DEF EvalLoad, EvalSlot
<1>4. CASE EvalStore(e)
  <2>1. eval' \in [Evals -> EvalSlot]
    BY <1>4 DEF EvalStore, EvalSlot
  <2>2. cached' \in [Workers -> EvalCache]
    BY <1>4, TTLAssumption DEF EvalStore, EvalSlot, EvalCache
  <2> QED BY <1>4, <2>1, <2>2 DEF EvalStore
<1>5. CASE EvalFail(e)
  BY <1>5, BoundAssumption DEF EvalFail, Fault
<1> QED BY <1>1, <1>2, <1>3, <1>4, <1>5 DEF EvalNext

LEMMA TypeSync ==
  ASSUME TypeInv, NEW s \in Syncs, SyncNext(s)
  PROVE  TypeInv'
<1> USE DEF TypeInv, TypeOK, LoadedNamesPolicy
<1> USE SlotAssumption, IdleTypes, BoundAssumption
<1>1. CASE SyncBegin(s)
  BY <1>1 DEF SyncBegin, SyncSlot
<1>2. CASE SyncHit(s)
  <2> DEFINE key == bundles[SyncAgent[s]]
  <2>1. key \in BundleKey
    OBVIOUS
  <2>2. [sync[s] EXCEPT !.pc = "reply", !.got = key.bundle, !.seq = key.seq,
                        !.raced = key.raced] \in SyncSlot
    BY <2>1 DEF SyncSlot, BundleKey
  <2>3. sync' \in [Syncs -> SyncSlot]
    BY <1>2, <2>2 DEF SyncHit
  <2> QED BY <1>2, <2>3 DEF SyncHit
<1>3. CASE SyncMiss(s)
  <2>1. [sync[s] EXCEPT !.pc = "load"] \in SyncSlot
    BY DEF SyncSlot
  <2>2. sync' \in [Syncs -> SyncSlot] /\ faults' \in 0 .. MaxFaults
    BY <1>3, <2>1 DEF SyncMiss, Fault
  <2> QED BY <1>3, <2>2 DEF SyncMiss
<1>4. CASE SyncLoad(s)
  <2> DEFINE got == BundleFor(EnabledPolicies(table), SyncAgent[s])
  <2>1. got \in SUBSET Issued
    BY EnabledAreIssued, BundleIsSubset
  <2> HIDE DEF got
  <2>2. [sync[s] EXCEPT !.pc = "store", !.seq = commits, !.got = got] \in SyncSlot
    BY <2>1 DEF SyncSlot
  <2>3. sync' \in [Syncs -> SyncSlot]
    BY <1>4, <2>2 DEF SyncLoad, got
  <2> QED BY <1>4, <2>3 DEF SyncLoad
<1>5. CASE SyncStore(s)
  <2>1. sync' \in [Syncs -> SyncSlot]
    BY <1>5 DEF SyncStore, SyncSlot
  <2>2. bundles' \in [Agents -> BundleKey]
    BY <1>5, TTLAssumption DEF SyncStore, SyncSlot, BundleKey
  <2> QED BY <1>5, <2>1, <2>2 DEF SyncStore
<1>6. CASE SyncStoreFail(s)
  <2>1. [sync[s] EXCEPT !.pc = "reply"] \in SyncSlot
    BY DEF SyncSlot
  <2> QED BY <1>6, <2>1 DEF SyncStoreFail, Fault
<1>7. CASE SyncReply(s)
  <2>1. sync' \in [Syncs -> SyncSlot]
    BY <1>7 DEF SyncReply
  <2>2. installed' \in [Agents -> (SUBSET Issued) \cup {NoBundle}]
    BY <1>7 DEF SyncReply, SyncSlot
  <2> QED BY <1>7, <2>1, <2>2 DEF SyncReply
<1>8. CASE SyncGiveUp(s)
  <2>1. [sync[s] EXCEPT !.waiting = FALSE] \in SyncSlot
    BY DEF SyncSlot
  <2> QED BY <1>8, <2>1 DEF SyncGiveUp, Fault
<1> QED BY <1>1, <1>2, <1>3, <1>4, <1>5, <1>6, <1>7, <1>8 DEF SyncNext

LEMMA TypeEnvironment ==
  ASSUME TypeInv, Tick \/ \E w \in Workers : WorkerRestart(w)
  PROVE  TypeInv'
<1> USE DEF TypeInv, TypeOK, LoadedNamesPolicy
<1>1. CASE Tick
  BY <1>1, OlderTypes DEF Tick
<1>2. ASSUME NEW w \in Workers, WorkerRestart(w) PROVE TypeInv'
  <2>1. admin' \in [Admins -> AdminSlot] /\ LoadedNamesPolicy'
    BY <1>2, IdleTypes DEF WorkerRestart, IdleAdmin
  <2>2. eval' \in [Evals -> EvalSlot] /\ cached' \in [Workers -> EvalCache]
    BY <1>2, IdleTypes DEF WorkerRestart
  <2> QED BY <1>2, <2>1, <2>2, BoundAssumption DEF WorkerRestart, Fault
<1> QED BY <1>1, <1>2

LEMMA TypeStep == TypeInv /\ [Next]_vars => TypeInv'
<1> SUFFICES ASSUME TypeInv, [Next]_vars PROVE TypeInv'
  OBVIOUS
<1>1. CASE UNCHANGED vars
  BY <1>1 DEF vars, TypeInv, TypeOK, LoadedNamesPolicy
<1>2. CASE Next
  BY <1>2, TypeAdmin, TypeEval, TypeSync, TypeEnvironment DEF Next
<1> QED BY <1>1, <1>2

\* Every reachable state is well typed, whatever the number of workers,
\* agents, policies and concurrent requests.
THEOREM TypeCorrect == Spec => []TypeOK
<1>1. TypeInv => TypeOK
  BY DEF TypeInv
<1> QED BY TypeInit, TypeStep, <1>1, PTL DEF Spec

-----------------------------------------------------------------------------
(* Evaluators see the writes of their own worker *)

\* A bump never runs ahead of the table.
BumpsArePast == \A w \in Workers : bumped[w] <= commits

\* A cache that carries the current generation was read after the last bump; a
\* generation yet to come is carried by none.
CacheCoherent ==
  \A w \in Workers : cached[w].left > 0 =>
    /\ cached[w].gen <= generation[w]
    /\ cached[w].gen = generation[w] => cached[w].seq >= bumped[w]

\* The same of a load that is not stored yet, and of the call that waits for it.
LoadCoherent ==
  \A e \in Evals :
    LET w == EvalWorker[e] IN
    /\ eval[e].pc # "idle" => /\ eval[e].gen <= generation[w]
                              /\ eval[e].floor[w] <= commits
    /\ eval[e].pc = "store" =>
         /\ eval[e].seq >= eval[e].floor[w]
         /\ eval[e].gen = generation[w] => eval[e].seq >= bumped[w]

EvalInv ==
  TypeInv /\ BumpsArePast /\ CacheCoherent /\ LoadCoherent /\ EvalSeesOwnWrites

LEMMA EvalInit == Init => EvalInv
BY TypeInit, SlotAssumption
   DEF Init, EvalInv, BumpsArePast, CacheCoherent, LoadCoherent, EvalSeesOwnWrites,
       NoCache, IdleEval

\* Actions that touch neither the evaluators nor what they are compared with.
LEMMA EvalFrame ==
  ASSUME EvalInv, TypeInv', UNCHANGED <<generation, cached, eval, bumped>>,
         commits' >= commits
  PROVE  EvalInv'
BY SlotAssumption
   DEF EvalInv, TypeInv, TypeOK, BumpsArePast, CacheCoherent, LoadCoherent,
       EvalSeesOwnWrites, EvalSlot

LEMMA EvalAdmin ==
  ASSUME EvalInv, TypeInv', NEW x \in Admins, AdminNext(x)
  PROVE  EvalInv'
<1>1. CASE AdminBump(x)
  <2> DEFINE w == AdminWorker[x]
  <2>1. w \in Workers
    BY SlotAssumption
  <2>2. /\ generation' = [generation EXCEPT ![w] = @ + 1]
        /\ bumped' = [bumped EXCEPT ![w] = commits]
        /\ UNCHANGED <<commits, cached, eval>>
    BY <1>1 DEF AdminBump
  <2> HIDE DEF w
  <2> USE DEF EvalInv, TypeInv, TypeOK
  <2>3. BumpsArePast'
    BY <2>1, <2>2 DEF BumpsArePast
  <2>4. CacheCoherent'
    BY <2>1, <2>2 DEF CacheCoherent, EvalCache
  <2>5. LoadCoherent'
    BY <2>1, <2>2, SlotAssumption DEF LoadCoherent, EvalSlot
  <2>6. EvalSeesOwnWrites'
    BY <2>2 DEF EvalSeesOwnWrites
  <2> QED BY <2>3, <2>4, <2>5, <2>6
<1>2. CASE AdminCommit(x)
  <2>1. UNCHANGED <<generation, cached, eval, bumped>> /\ commits' >= commits
    BY <1>2 DEF AdminCommit, EvalInv, TypeInv, TypeOK
  <2> QED BY <2>1, EvalFrame
<1>3. ASSUME ~AdminBump(x), ~AdminCommit(x) PROVE EvalInv'
  <2>1. UNCHANGED <<generation, cached, eval, bumped, commits>>
    BY <1>3 DEF AdminNext, AdminLoad, AdminRefresh, FlushBegin, FlushEnd, AdminAbort, FlushKey
  <2>2. commits' >= commits
    BY <2>1 DEF EvalInv, TypeInv, TypeOK
  <2> QED BY <2>1, <2>2, EvalFrame
<1> QED BY <1>1, <1>2, <1>3

LEMMA EvalEval ==
  ASSUME EvalInv, TypeInv', NEW e \in Evals, EvalNext(e)
  PROVE  EvalInv'
<1> DEFINE w == EvalWorker[e]
<1>1. w \in Workers
  BY SlotAssumption
<1>2. UNCHANGED <<commits, generation, bumped>>
  BY DEF EvalNext, EvalHit, EvalMiss, EvalLoad, EvalStore, EvalFail
<1> USE DEF EvalInv, TypeInv, TypeOK
<1>3. BumpsArePast'
  BY <1>2 DEF BumpsArePast
<1>4. CASE EvalHit(e)
  <2>1. /\ UNCHANGED cached
        /\ cached[w].left > 0 /\ cached[w].gen = generation[w]
        /\ eval' = [eval EXCEPT ![e] = [IdleEval EXCEPT !.seq = cached[w].seq, !.floor = bumped]]
    BY <1>4 DEF EvalHit, CacheValid
  <2>2. cached[w].seq >= bumped[w]
    BY <1>1, <2>1 DEF CacheCoherent
  <2> HIDE DEF w
  <2>3. CacheCoherent'
    BY <1>2, <2>1 DEF CacheCoherent
  <2>4. LoadCoherent'
    BY <1>2, <2>1 DEF LoadCoherent, IdleEval
  <2>5. EvalSeesOwnWrites'
    BY <2>1, <2>2 DEF EvalSeesOwnWrites, IdleEval, w
  <2> QED BY <1>3, <2>3, <2>4, <2>5
<1>5. CASE EvalMiss(e)
  <2>1. /\ UNCHANGED cached
        /\ eval[e].pc = "idle"
        /\ eval' = [eval EXCEPT ![e] = [IdleEval EXCEPT !.pc = "load",
                                          !.gen = generation[w], !.floor = bumped]]
    BY <1>5 DEF EvalMiss
  <2>2. CacheCoherent'
    BY <1>2, <2>1 DEF CacheCoherent
  <2>3. eval'[e].pc = "load" /\ eval'[e].gen = generation[w] /\ eval'[e].floor = bumped
    BY <2>1 DEF IdleEval
  <2>4. LoadCoherent'
    BY <1>1, <1>2, <2>1, <2>3 DEF LoadCoherent, BumpsArePast
  <2>5. EvalSeesOwnWrites'
    BY <2>1, <2>3 DEF EvalSeesOwnWrites
  <2> QED BY <1>3, <2>2, <2>4, <2>5
<1>6. CASE EvalLoad(e)
  <2>1. /\ UNCHANGED cached
        /\ eval[e].pc = "load"
        /\ eval' = [eval EXCEPT ![e] = eval'[e]]
        /\ eval'[e].pc = "store" /\ eval'[e].seq = commits
        /\ eval'[e].gen = eval[e].gen /\ eval'[e].floor = eval[e].floor
    BY <1>6 DEF EvalLoad, EvalSlot
  <2>2. CacheCoherent'
    BY <1>2, <2>1 DEF CacheCoherent
  <2>3. LoadCoherent'
    BY <1>1, <1>2, <2>1 DEF LoadCoherent, BumpsArePast
  <2>4. EvalSeesOwnWrites'
    BY <2>1 DEF EvalSeesOwnWrites
  <2> QED BY <1>3, <2>2, <2>3, <2>4
<1>7. CASE EvalStore(e)
  <2>1. /\ eval[e].pc = "store"
        /\ cached' = [cached EXCEPT ![w] = [policies |-> eval[e].policies, gen |-> eval[e].gen,
                                            left |-> EvalTTL, seq |-> eval[e].seq]]
        /\ eval' = [eval EXCEPT ![e] = eval'[e]]
        /\ eval'[e].pc = "idle" /\ eval'[e].seq = eval[e].seq
        /\ eval'[e].floor = eval[e].floor
    BY <1>7 DEF EvalStore, IdleEval
  <2>2. CacheCoherent'
    BY <1>1, <1>2, <2>1 DEF CacheCoherent, LoadCoherent
  <2>3. LoadCoherent'
    BY <1>2, <2>1 DEF LoadCoherent
  <2>4. EvalSeesOwnWrites'
    BY <2>1 DEF EvalSeesOwnWrites, LoadCoherent
  <2> QED BY <1>3, <2>2, <2>3, <2>4
<1>8. CASE EvalFail(e)
  <2>1. UNCHANGED cached /\ eval' = [eval EXCEPT ![e] = IdleEval]
    BY <1>8 DEF EvalFail
  <2>2. CacheCoherent' /\ LoadCoherent'
    BY <1>2, <2>1 DEF CacheCoherent, LoadCoherent, IdleEval
  <2>3. EvalSeesOwnWrites'
    BY <1>1, <2>1 DEF EvalSeesOwnWrites, IdleEval
  <2> QED BY <1>3, <2>2, <2>3
<1> QED BY <1>4, <1>5, <1>6, <1>7, <1>8 DEF EvalNext

LEMMA EvalEnvironment ==
  ASSUME EvalInv, TypeInv', Tick \/ \E w \in Workers : WorkerRestart(w)
  PROVE  EvalInv'
<1> USE DEF EvalInv, TypeInv, TypeOK
<1>1. CASE Tick
  <2>1. UNCHANGED <<commits, generation, bumped, eval>>
    BY <1>1 DEF Tick
  <2>2. \A v \in Workers : /\ cached'[v].gen = cached[v].gen
                           /\ cached'[v].seq = cached[v].seq
                           /\ cached'[v].left > 0 => cached[v].left > 0
    BY <1>1 DEF Tick, Older, EvalCache
  <2>3. CacheCoherent'
    BY <2>1, <2>2 DEF CacheCoherent
  <2> QED BY <2>1, <2>3 DEF BumpsArePast, LoadCoherent, EvalSeesOwnWrites
<1>2. ASSUME NEW w \in Workers, WorkerRestart(w) PROVE EvalInv'
  <2>1. /\ UNCHANGED <<commits, bumped>>
        /\ generation' = [generation EXCEPT ![w] = 0]
        /\ cached' = [cached EXCEPT ![w] = NoCache]
        /\ eval' = [e \in Evals |-> IF EvalWorker[e] = w THEN IdleEval ELSE eval[e]]
    BY <1>2 DEF WorkerRestart
  <2>2. BumpsArePast'
    BY <2>1 DEF BumpsArePast
  <2>3. CacheCoherent'
    BY <2>1 DEF CacheCoherent, NoCache
  <2>4. LoadCoherent'
    BY <2>1, SlotAssumption DEF LoadCoherent, IdleEval
  <2>5. EvalSeesOwnWrites'
    BY <2>1, SlotAssumption DEF EvalSeesOwnWrites, IdleEval
  <2> QED BY <2>2, <2>3, <2>4, <2>5
<1> QED BY <1>1, <1>2

LEMMA EvalStep == EvalInv /\ [Next]_vars => EvalInv'
<1> SUFFICES ASSUME EvalInv, [Next]_vars PROVE EvalInv'
  OBVIOUS
<1>1. TypeInv'
  BY TypeStep DEF EvalInv
<1>2. CASE UNCHANGED vars
  BY <1>1, <1>2, EvalFrame DEF vars, EvalInv, TypeInv, TypeOK
<1>3. ASSUME NEW s \in Syncs, SyncNext(s) PROVE EvalInv'
  <2>1. UNCHANGED <<generation, cached, eval, bumped, commits>>
    BY <1>3 DEF SyncNext, SyncBegin, SyncHit, SyncMiss, SyncLoad, SyncStore,
                SyncStoreFail, SyncReply, SyncGiveUp
  <2>2. commits' >= commits
    BY <2>1 DEF EvalInv, TypeInv, TypeOK
  <2> QED BY <1>1, <2>1, <2>2, EvalFrame
<1> QED BY <1>1, <1>2, <1>3, EvalAdmin, EvalEval, EvalEnvironment DEF Next

\* However many coroutines load, store, commit and bump at once, an evaluation
\* uses policies at least as recent as the last bump of its own worker before
\* it began.
THEOREM OwnWritesSeen == Spec => []EvalSeesOwnWrites
<1>1. EvalInv => EvalSeesOwnWrites
  BY DEF EvalInv
<1> QED BY EvalInit, EvalStep, <1>1, PTL DEF Spec

-----------------------------------------------------------------------------
(* Only a fill that overlapped a flush is stale after it *)

\* A flush in progress or complete never runs ahead of the table.
FlushesArePast ==
  /\ flushed <= commits
  /\ \A x \in Admins : admin[x].seq <= commits
  /\ \A s \in Syncs : sync[s].floor <= flushed

\* A stale key was stored by a fill that overlapped the flush, or the flush
\* still has to delete it.
KeysClean ==
  \A a \in Agents : bundles[a].left > 0 /\ ~bundles[a].raced =>
    /\ bundles[a].seq >= flushed
    /\ \A x \in Admins : admin[x].pc = "flushing" /\ bundles[a].seq < admin[x].seq =>
                           a \in admin[x].keys

\* A fill that read the table before a flush began is marked by that flush.
FillsMarked ==
  \A s \in Syncs : sync[s].pc = "store" /\ ~sync[s].raced =>
    /\ sync[s].seq >= flushed
    /\ \A x \in Admins : admin[x].pc = "flushing" => sync[s].seq >= admin[x].seq

FlushInv == TypeInv /\ FlushesArePast /\ KeysClean /\ FillsMarked /\ StaleOnlyByOverlap

LEMMA FlushInit == Init => FlushInv
BY TypeInit
   DEF Init, FlushInv, FlushesArePast, KeysClean, FillsMarked, StaleOnlyByOverlap,
       NoKey, IdleAdmin, IdleSync

\* Requests that are not flushing, and keys that disappear, disturb nothing.
LEMMA FlushFrame ==
  ASSUME FlushInv, TypeInv', UNCHANGED <<sync, flushed>>, commits' >= commits,
         \A a \in Agents : bundles'[a].left > 0 =>
           /\ bundles[a].left > 0
           /\ bundles'[a].seq = bundles[a].seq /\ bundles'[a].raced = bundles[a].raced,
         \A x \in Admins : \/ admin'[x] = admin[x]
                           \/ /\ admin'[x].pc # "flushing"
                              /\ admin'[x].seq \in {0, admin[x].seq}
  PROVE  FlushInv'
<1> USE DEF FlushInv, TypeInv, TypeOK
<1>1. FlushesArePast'
  BY DEF FlushesArePast, AdminSlot
<1>2. KeysClean' /\ FillsMarked' /\ StaleOnlyByOverlap'
  BY DEF KeysClean, FillsMarked, StaleOnlyByOverlap
<1> QED BY <1>1, <1>2

LEMMA FlushAdmin ==
  ASSUME FlushInv, TypeInv', NEW x \in Admins, AdminNext(x)
  PROVE  FlushInv'
<1> USE DEF FlushInv, TypeInv, TypeOK
<1>1. CASE FlushBegin(x)
  <2> DEFINE keys == {a \in Agents : bundles[a].left > 0}
  <2>1. /\ UNCHANGED <<commits, bundles, flushed>>
        /\ admin' = [admin EXCEPT ![x] = admin'[x]]
        /\ admin'[x].pc = "flushing" /\ admin'[x].seq = commits /\ admin'[x].keys = keys
    BY <1>1 DEF FlushBegin, AdminSlot
  <2>2. \A s \in Syncs : /\ sync'[s].pc = sync[s].pc /\ sync'[s].seq = sync[s].seq
                         /\ sync'[s].floor = sync[s].floor
                         /\ sync[s].raced => sync'[s].raced
                         /\ sync[s].pc = "store" /\ sync[s].seq < commits => sync'[s].raced
    BY <1>1 DEF FlushBegin, SyncSlot
  <2>3. FlushesArePast'
    <3>1. \A y \in Admins : admin'[y].seq <= commits
      BY <2>1 DEF FlushesArePast
    <3>2. \A s \in Syncs : sync'[s].floor <= flushed
      BY <2>2 DEF FlushesArePast
    <3> QED BY <2>1, <3>1, <3>2 DEF FlushesArePast
  <2>4. KeysClean'
    BY <2>1 DEF KeysClean
  <2>5. FillsMarked'
    <3> SUFFICES ASSUME NEW s \in Syncs, sync'[s].pc = "store", ~sync'[s].raced
                 PROVE  /\ sync'[s].seq >= flushed'
                        /\ \A y \in Admins : admin'[y].pc = "flushing" =>
                                               sync'[s].seq >= admin'[y].seq
      BY DEF FillsMarked
    <3>1. sync[s].pc = "store" /\ ~sync[s].raced /\ sync'[s].seq = sync[s].seq
      BY <2>2
    <3>2. sync[s].seq >= commits
      BY <2>2, <3>1 DEF SyncSlot
    <3> QED BY <2>1, <3>1, <3>2 DEF FillsMarked
  <2>6. StaleOnlyByOverlap'
    BY <2>2 DEF StaleOnlyByOverlap
  <2> QED BY <2>3, <2>4, <2>5, <2>6
<1>2. ASSUME NEW b \in Agents, FlushKey(x, b) PROVE FlushInv'
  <2>1. /\ UNCHANGED <<commits, flushed, sync>>
        /\ bundles' = [bundles EXCEPT ![b] = NoKey]
        /\ admin' = [admin EXCEPT ![x] = admin'[x]]
        /\ admin'[x].pc = admin[x].pc /\ admin'[x].seq = admin[x].seq
        /\ admin'[x].keys = admin[x].keys \ {b}
    BY <1>2 DEF FlushKey, AdminSlot
  <2>2. FlushesArePast' /\ FillsMarked' /\ StaleOnlyByOverlap'
    BY <2>1 DEF FlushesArePast, FillsMarked, StaleOnlyByOverlap
  <2>3. KeysClean'
    BY <2>1 DEF KeysClean, NoKey
  <2> QED BY <2>2, <2>3
<1>3. CASE FlushEnd(x)
  <2>1. /\ UNCHANGED <<commits, bundles, sync>>
        /\ admin' = [admin EXCEPT ![x] = admin'[x]]
        /\ admin'[x].pc = "idle" /\ admin'[x].seq = 0
        /\ admin[x].pc = "flushing" /\ admin[x].keys = {}
        /\ flushed' = IF admin[x].seq > flushed THEN admin[x].seq ELSE flushed
    BY <1>3 DEF FlushEnd, IdleAdmin
  <2>2. flushed' >= flushed /\ admin[x].seq \in Nat
    BY <2>1 DEF AdminSlot
  <2>3. FlushesArePast'
    BY <2>1, <2>2 DEF FlushesArePast, SyncSlot
  <2>4. KeysClean'
    BY <2>1, <2>2 DEF KeysClean, BundleKey
  <2>5. FillsMarked'
    <3> SUFFICES ASSUME NEW s \in Syncs, sync[s].pc = "store", ~sync[s].raced
                 PROVE  /\ sync[s].seq >= flushed'
                        /\ \A y \in Admins : admin'[y].pc = "flushing" =>
                                               sync[s].seq >= admin'[y].seq
      BY <2>1 DEF FillsMarked
    <3>1. /\ sync[s].seq >= flushed
          /\ \A y \in Admins : admin[y].pc = "flushing" => sync[s].seq >= admin[y].seq
      BY DEF FillsMarked
    <3> QED BY <2>1, <3>1
  <2>6. StaleOnlyByOverlap'
    BY <2>1 DEF StaleOnlyByOverlap
  <2> QED BY <2>3, <2>4, <2>5, <2>6
<1>4. ASSUME ~FlushBegin(x), ~FlushEnd(x), ~\E a \in Agents : FlushKey(x, a)
      PROVE  FlushInv'
  <2>1. UNCHANGED <<sync, flushed, bundles>> /\ commits' >= commits
    <3>1. CASE AdminCommit(x)
      BY <3>1 DEF AdminCommit
    <3>2. CASE ~AdminCommit(x)
      <4>1. UNCHANGED <<sync, flushed, bundles, commits>>
        BY <1>4, <3>2 DEF AdminNext, AdminLoad, AdminBump, AdminRefresh, AdminAbort
      <4>2. commits \in Nat
        OBVIOUS
      <4> QED BY <4>1, <4>2
    <3> QED BY <3>1, <3>2
  <2>2. \A y \in Admins : \/ admin'[y] = admin[y]
                          \/ /\ admin'[y].pc # "flushing"
                             /\ admin'[y].seq \in {0, admin[y].seq}
    <3>1. CASE AdminLoad(x)
      BY <3>1 DEF AdminLoad, IdleAdmin
    <3>2. CASE AdminCommit(x)
      BY <3>2 DEF AdminCommit, AdminSlot
    <3>3. CASE AdminBump(x)
      BY <3>3 DEF AdminBump, AdminSlot
    <3>4. CASE AdminRefresh(x)
      BY <3>4 DEF AdminRefresh, IdleAdmin
    <3>5. CASE AdminAbort(x)
      BY <3>5 DEF AdminAbort, IdleAdmin
    <3> QED BY <1>4, <3>1, <3>2, <3>3, <3>4, <3>5 DEF AdminNext
  <2> QED BY <2>1, <2>2, FlushFrame
<1> QED BY <1>1, <1>2, <1>3, <1>4

LEMMA FlushSync ==
  ASSUME FlushInv, TypeInv', NEW s \in Syncs, SyncNext(s)
  PROVE  FlushInv'
<1> USE DEF FlushInv, TypeInv, TypeOK
<1>0. UNCHANGED <<commits, admin, flushed>>
  BY DEF SyncNext, SyncBegin, SyncHit, SyncMiss, SyncLoad, SyncStore,
         SyncStoreFail, SyncReply, SyncGiveUp
<1>1. CASE SyncBegin(s)
  <2>1. /\ UNCHANGED bundles
        /\ sync' = [sync EXCEPT ![s] = sync'[s]]
        /\ sync'[s].pc = "get" /\ sync'[s].floor = flushed
    BY <1>1 DEF SyncBegin, IdleSync
  <2>2. FlushesArePast'
    BY <1>0, <2>1 DEF FlushesArePast
  <2>3. KeysClean' /\ FillsMarked' /\ StaleOnlyByOverlap'
    BY <1>0, <2>1 DEF KeysClean, FillsMarked, StaleOnlyByOverlap
  <2> QED BY <2>2, <2>3
<1>2. CASE SyncHit(s)
  <2> DEFINE key == bundles[SyncAgent[s]]
  <2>1. /\ UNCHANGED bundles /\ key.left > 0
        /\ sync' = [sync EXCEPT ![s] = sync'[s]]
        /\ sync'[s].pc = "reply" /\ sync'[s].floor = sync[s].floor
        /\ sync'[s].seq = key.seq /\ sync'[s].raced = key.raced
    BY <1>2 DEF SyncHit, SyncSlot
  <2>2. ~key.raced => key.seq >= flushed
    BY <2>1, SlotAssumption DEF KeysClean
  <2>3. key \in BundleKey /\ sync[s].floor \in Nat
    BY SlotAssumption DEF SyncSlot
  <2> HIDE DEF key
  <2>4. FlushesArePast' /\ KeysClean' /\ FillsMarked'
    BY <1>0, <2>1 DEF FlushesArePast, KeysClean, FillsMarked
  <2>5. StaleOnlyByOverlap'
    BY <1>0, <2>1, <2>2, <2>3 DEF StaleOnlyByOverlap, FlushesArePast, BundleKey
  <2> QED BY <2>4, <2>5
<1>3. CASE SyncMiss(s)
  <2>1. /\ UNCHANGED bundles
        /\ sync' = [sync EXCEPT ![s] = sync'[s]]
        /\ sync'[s].pc = "load" /\ sync'[s].floor = sync[s].floor
    BY <1>3 DEF SyncMiss, SyncSlot
  <2> QED BY <1>0, <2>1 DEF FlushesArePast, KeysClean, FillsMarked, StaleOnlyByOverlap
<1>4. CASE SyncLoad(s)
  <2>1. /\ UNCHANGED bundles
        /\ sync' = [sync EXCEPT ![s] = sync'[s]]
        /\ sync'[s].pc = "store" /\ sync'[s].floor = sync[s].floor
        /\ sync'[s].seq = commits
    BY <1>4 DEF SyncLoad, SyncSlot
  <2>2. FlushesArePast' /\ KeysClean' /\ StaleOnlyByOverlap'
    BY <1>0, <2>1 DEF FlushesArePast, KeysClean, StaleOnlyByOverlap
  <2>3. FillsMarked'
    BY <1>0, <2>1 DEF FlushesArePast, FillsMarked
  <2> QED BY <2>2, <2>3
<1>5. CASE SyncStore(s) \/ SyncStoreFail(s)
  <2>1. /\ sync[s].pc = "store"
        /\ sync' = [sync EXCEPT ![s] = sync'[s]]
        /\ sync'[s].pc = "reply" /\ sync'[s].floor = sync[s].floor
        /\ sync'[s].seq = sync[s].seq /\ sync'[s].raced = sync[s].raced
    BY <1>5 DEF SyncStore, SyncStoreFail, SyncSlot
  <2>2. ~sync[s].raced => sync[s].seq >= flushed
    BY <2>1 DEF FillsMarked
  <2>3. FlushesArePast' /\ FillsMarked'
    BY <1>0, <2>1 DEF FlushesArePast, FillsMarked
  <2>4. StaleOnlyByOverlap'
    <3>1. sync[s].floor \in Nat /\ sync[s].seq \in Nat /\ flushed \in Nat
      BY DEF SyncSlot
    <3>2. sync[s].floor <= flushed
      BY DEF FlushesArePast
    <3>3. sync'[s].seq < sync'[s].floor => sync'[s].raced
      BY <2>1, <2>2, <3>1, <3>2
    <3> QED BY <1>0, <2>1, <3>3 DEF StaleOnlyByOverlap
  <2>5. KeysClean'
    <3>1. CASE UNCHANGED bundles
      BY <1>0, <3>1 DEF KeysClean
    <3>2. CASE bundles' = [bundles EXCEPT ![SyncAgent[s]] =
                             [bundle |-> sync[s].got, left |-> BundleTTL,
                              seq |-> sync[s].seq, raced |-> sync[s].raced]]
      BY <1>0, <2>1, <2>2, <3>2 DEF KeysClean, FillsMarked, SyncSlot, AdminSlot
    <3> QED BY <1>5, <3>1, <3>2 DEF SyncStore, SyncStoreFail
  <2> QED BY <2>3, <2>4, <2>5
<1>6. CASE SyncReply(s)
  <2>1. UNCHANGED bundles /\ sync' = [sync EXCEPT ![s] = IdleSync]
    BY <1>6 DEF SyncReply
  <2> QED BY <1>0, <2>1
          DEF FlushesArePast, KeysClean, FillsMarked, StaleOnlyByOverlap, IdleSync
<1>7. CASE SyncGiveUp(s)
  <2>1. /\ UNCHANGED bundles
        /\ sync' = [sync EXCEPT ![s] = sync'[s]]
        /\ sync'[s].pc = sync[s].pc /\ sync'[s].floor = sync[s].floor
        /\ sync'[s].seq = sync[s].seq /\ sync'[s].raced = sync[s].raced
    BY <1>7 DEF SyncGiveUp, SyncSlot
  <2> QED BY <1>0, <2>1 DEF FlushesArePast, KeysClean, FillsMarked, StaleOnlyByOverlap
<1> QED BY <1>1, <1>2, <1>3, <1>4, <1>5, <1>6, <1>7 DEF SyncNext

LEMMA FlushStep == FlushInv /\ [Next]_vars => FlushInv'
<1> SUFFICES ASSUME FlushInv, [Next]_vars PROVE FlushInv'
  OBVIOUS
<1> USE DEF FlushInv, TypeInv, TypeOK
<1>1. TypeInv'
  BY TypeStep DEF FlushInv
<1>2. ASSUME UNCHANGED vars \/ \E e \in Evals : EvalNext(e) PROVE FlushInv'
  <2>1. UNCHANGED <<sync, flushed, bundles, commits, admin>>
    BY <1>2 DEF vars, EvalNext, EvalHit, EvalMiss, EvalLoad, EvalStore, EvalFail
  <2> QED BY <1>1, <2>1, FlushFrame
<1>3. CASE Tick
  <2>1. UNCHANGED <<sync, flushed, commits, admin>>
    BY <1>3 DEF Tick
  <2>2. \A a \in Agents : bundles'[a].left > 0 =>
           /\ bundles[a].left > 0
           /\ bundles'[a].seq = bundles[a].seq /\ bundles'[a].raced = bundles[a].raced
    BY <1>3 DEF Tick, Older, BundleKey
  <2> QED BY <1>1, <2>1, <2>2, FlushFrame
<1>4. ASSUME NEW w \in Workers, WorkerRestart(w) PROVE FlushInv'
  <2>1. /\ UNCHANGED <<sync, flushed, bundles, commits>>
        /\ \A x \in Admins : admin'[x] = admin[x] \/ admin'[x] = IdleAdmin
    BY <1>4 DEF WorkerRestart
  <2>2. IdleAdmin.pc # "flushing" /\ IdleAdmin.seq = 0
    BY DEF IdleAdmin
  <2> QED BY <1>1, <2>1, <2>2, FlushFrame
<1> QED BY <1>1, <1>2, <1>3, <1>4, FlushAdmin, FlushSync DEF Next

\* A sync that begins after a complete flush gets a bundle older than the flush
\* only from a fill that had read the table before the flush began.
THEOREM StaleOnlyByOverlapHolds == Spec => []StaleOnlyByOverlap
<1>1. FlushInv => StaleOnlyByOverlap
  BY DEF FlushInv
<1> QED BY FlushInit, FlushStep, <1>1, PTL DEF Spec
-----------------------------------------------------------------------------
(* Bundles stay with the agents they were built for *)

\* Nothing in b is another agent's business.
Fits(b, a) == b = BundleFor(b, a)

\* What is cached for an agent, on its way to it or installed fits it.
AllFit ==
  /\ \A a \in Agents : Fits(bundles[a].bundle, a)
  /\ \A s \in Syncs : Fits(sync[s].got, SyncAgent[s])
  /\ \A a \in Agents : installed[a] # NoBundle => Fits(installed[a], a)

LEMMA BuiltFits ==
  ASSUME NEW P, NEW a
  PROVE  Fits(BundleFor(P, a), a) /\ Fits({}, a)
BY DEF Fits, BundleFor

LEMMA FitSync ==
  ASSUME TypeInv, AllFit, NEW s \in Syncs, SyncNext(s)
  PROVE  AllFit'
<1> USE DEF TypeInv, TypeOK
<1> DEFINE a == SyncAgent[s]
<1>1. a \in Agents
  BY SlotAssumption
<1> HIDE DEF a
<1>2. \A r \in Syncs : r # s => sync'[r] = sync[r]
  BY DEF SyncNext, SyncBegin, SyncHit, SyncMiss, SyncLoad, SyncStore, SyncStoreFail,
         SyncReply, SyncGiveUp
<1>3. Fits(sync'[s].got, a)
  <2>1. CASE SyncBegin(s) \/ SyncReply(s)
    <3>1. sync'[s].got = IdleSync.got
      <4>1. CASE SyncBegin(s)
        BY <4>1, IdleTypes DEF SyncBegin, SyncSlot
      <4>2. CASE SyncReply(s)
        BY <4>2 DEF SyncReply
      <4> QED BY <2>1, <4>1, <4>2
    <3>2. Fits(IdleSync.got, a)
      BY BuiltFits DEF IdleSync
    <3> QED BY <3>1, <3>2
  <2>2. CASE SyncHit(s)
    <3>1. sync'[s].got = bundles[a].bundle
      BY <2>2 DEF SyncHit, SyncSlot, a
    <3> QED BY <1>1, <3>1 DEF AllFit
  <2>3. CASE SyncLoad(s)
    <3>1. sync'[s].got = BundleFor(EnabledPolicies(table), a)
      BY <2>3 DEF SyncLoad, SyncSlot, a
    <3> QED BY <3>1, BuiltFits
  <2>4. CASE SyncMiss(s) \/ SyncStore(s) \/ SyncStoreFail(s) \/ SyncGiveUp(s)
    <3>1. sync'[s].got = sync[s].got
      BY <2>4 DEF SyncMiss, SyncStore, SyncStoreFail, SyncGiveUp, SyncSlot
    <3> QED BY <3>1 DEF AllFit, a
  <2> QED BY <2>1, <2>2, <2>3, <2>4 DEF SyncNext
<1>4. \A b \in Agents : Fits(bundles'[b].bundle, b)
  <2>1. CASE SyncStore(s)
    <3>1. bundles' = [bundles EXCEPT ![a] =
            [bundle |-> sync[s].got, left |-> BundleTTL,
             seq |-> sync[s].seq, raced |-> sync[s].raced]]
      BY <2>1 DEF SyncStore, a
    <3>2. bundles'[a].bundle = sync[s].got /\ \A b \in Agents : b # a => bundles'[b] = bundles[b]
      BY <1>1, <3>1
    <3> QED BY <3>2 DEF AllFit, a
  <2>2. CASE UNCHANGED bundles
    BY <2>2 DEF AllFit
  <2> QED BY <2>1, <2>2 DEF SyncNext, SyncBegin, SyncHit, SyncMiss, SyncLoad, SyncStoreFail,
                            SyncReply, SyncGiveUp
<1>5. \A b \in Agents : installed'[b] # NoBundle => Fits(installed'[b], b)
  <2>1. CASE installed' = [installed EXCEPT ![a] = sync[s].got]
    <3>1. installed'[a] = sync[s].got /\ \A b \in Agents : b # a => installed'[b] = installed[b]
      BY <1>1, <2>1
    <3> QED BY <3>1 DEF AllFit, a
  <2>2. CASE UNCHANGED installed
    BY <2>2 DEF AllFit
  <2> QED BY <2>1, <2>2 DEF SyncNext, SyncBegin, SyncHit, SyncMiss, SyncLoad, SyncStore,
                            SyncStoreFail, SyncReply, SyncGiveUp, a
<1> QED BY <1>2, <1>3, <1>4, <1>5 DEF AllFit, a

LEMMA FitStep == TypeInv /\ AllFit /\ [Next]_vars => AllFit'
<1> SUFFICES ASSUME TypeInv, AllFit, [Next]_vars PROVE AllFit'
  OBVIOUS
<1> USE DEF TypeInv, TypeOK
\* Steps that move no bundle but to age or to delete it.
<1>1. ASSUME UNCHANGED installed,
             \A s \in Syncs : sync'[s].got = sync[s].got,
             \A a \in Agents : bundles'[a].bundle \in {bundles[a].bundle, {}}
      PROVE  AllFit'
  BY <1>1, BuiltFits DEF AllFit
<1>2. CASE UNCHANGED vars \/ (\E e \in Evals : EvalNext(e)) \/ \E w \in Workers : WorkerRestart(w)
  <2>1. UNCHANGED <<installed, sync, bundles>>
    BY <1>2 DEF vars, EvalNext, EvalHit, EvalMiss, EvalLoad, EvalStore, EvalFail, WorkerRestart
  <2> QED BY <1>1, <2>1
<1>3. CASE Tick
  <2>1. UNCHANGED <<installed, sync>> /\ \A a \in Agents : bundles'[a].bundle = bundles[a].bundle
    BY <1>3 DEF Tick, Older, BundleKey
  <2> QED BY <1>1, <2>1
<1>4. ASSUME NEW x \in Admins, AdminNext(x) PROVE AllFit'
  <2>1. CASE FlushBegin(x)
    <3>1. UNCHANGED <<installed, bundles>> /\ \A s \in Syncs : sync'[s].got = sync[s].got
      BY <2>1 DEF FlushBegin, SyncSlot
    <3> QED BY <1>1, <3>1
  <2>2. ASSUME NEW k \in Agents, FlushKey(x, k) PROVE AllFit'
    <3>1. UNCHANGED <<installed, sync>>
          /\ \A a \in Agents : bundles'[a].bundle \in {bundles[a].bundle, {}}
      BY <2>2 DEF FlushKey, NoKey
    <3> QED BY <1>1, <3>1
  <2>3. CASE UNCHANGED <<installed, sync, bundles>>
    BY <1>1, <2>3
  <2> QED BY <1>4, <2>1, <2>2, <2>3 DEF AdminNext, AdminLoad, AdminCommit, AdminBump,
                                        AdminRefresh, FlushEnd, AdminAbort
<1> QED BY <1>2, <1>3, <1>4, FitSync DEF Next

\* No agent ever installs a policy scoped to others or not for its platform,
\* whichever fills, hits and flushes of the shared cache overlap.
THEOREM BundleIsForAgentHolds == Spec => []BundleIsForAgent
<1>1. Init => AllFit
  <2>1. \A a : Fits(NoKey.bundle, a) /\ Fits(IdleSync.got, a)
    BY BuiltFits DEF NoKey, IdleSync
  <2> QED BY <2>1 DEF Init, AllFit
<1>2. AllFit => BundleIsForAgent
  BY DEF AllFit, Fits, BundleIsForAgent
<1> QED BY TypeInit, TypeStep, FitStep, <1>1, <1>2, PTL DEF Spec

-----------------------------------------------------------------------------
(* A soft delete is final *)

\* A deleted row was created once, and who is about to commit has loaded a row
\* that was not deleted: one to create, or a live one.
LoadedAlive ==
  /\ \A p \in Policies : table[p].deleted => table[p].created
  /\ \A x \in Admins : admin[x].pc = "loaded" =>
       ~admin[x].row.deleted /\ (admin[x].op # "create" => admin[x].row.created)

\* A write keeps a deletion it did not see, and what it writes exists.
LEMMA WrittenKeepsDeletion ==
  ASSUME NEW now \in Row, NEW loaded \in Row, NEW op \in Ops \ {"refresh"},
         NEW scope \in SUBSET Agents, NEW active \in BOOLEAN, NEW stamp \in Nat,
         ~loaded.deleted, op # "create" => loaded.created
  PROVE  LET w == Written(now, loaded, Wanted(op, loaded, scope, active), stamp)
         IN  w.created /\ (now.deleted => w.deleted)
<1>1. CASE op = "create"
  BY <1>1 DEF Wanted, Written, Row
<1>2. CASE op = "update"
  BY <1>2 DEF Wanted, Written, Row
<1>3. CASE op = "delete"
  BY <1>3 DEF Wanted, Written, Row
<1>4. CASE op = "enable"
  BY <1>4 DEF Wanted, Written, Row
<1>5. CASE op = "disable"
  BY <1>5 DEF Wanted, Written, Row
<1> QED BY <1>1, <1>2, <1>3, <1>4, <1>5 DEF Ops

\* What a commit does to the table.
LEMMA CommitKeepsDeletions ==
  ASSUME TypeInv, LoadedAlive, NEW x \in Admins, AdminCommit(x)
  PROVE  \A p \in Policies : \/ table'[p] = table[p]
                             \/ /\ table'[p].created
                                /\ table[p].deleted => table'[p].deleted
<1> USE DEF TypeInv, TypeOK, LoadedNamesPolicy
<1> DEFINE q == admin[x].policy
           op == admin[x].op
           row == admin[x].row
<1>1. /\ q \in Policies /\ op \in Ops \ {"refresh"} /\ row \in Row
      /\ ~row.deleted /\ (op # "create" => row.created)
  BY DEF AdminCommit, AdminSlot, LoadedAlive
<1>2. PICK scope \in SUBSET Agents, active \in BOOLEAN :
        \/ UNCHANGED table
        \/ table' = [table EXCEPT ![q] =
             Written(table[q], row, Wanted(op, row, scope, active), commits + 1)]
  BY DEF AdminCommit
<1> HIDE DEF q, op, row
<1>3. table[q] \in Row /\ commits + 1 \in Nat
  BY <1>1
<1> DEFINE w == Written(table[q], row, Wanted(op, row, scope, active), commits + 1)
<1>4. w.created /\ (table[q].deleted => w.deleted)
  BY <1>1, <1>3, WrittenKeepsDeletion
<1> HIDE DEF w
<1>5. UNCHANGED table \/ table' = [table EXCEPT ![q] = w]
  BY <1>2 DEF w
<1> QED BY <1>1, <1>4, <1>5

LEMMA AliveStep == TypeInv /\ LoadedAlive /\ [Next]_vars => LoadedAlive'
<1> SUFFICES ASSUME TypeInv, LoadedAlive, [Next]_vars PROVE LoadedAlive'
  OBVIOUS
<1> USE DEF TypeInv, TypeOK, LoadedNamesPolicy
<1>1. ASSUME UNCHANGED table,
             \A x \in Admins : admin'[x].pc = "loaded" => admin'[x] = admin[x]
      PROVE  LoadedAlive'
  BY <1>1 DEF LoadedAlive
<1>2. CASE \/ UNCHANGED vars \/ Tick
           \/ \E e \in Evals : EvalNext(e)
           \/ \E s \in Syncs : SyncNext(s)
  <2>1. UNCHANGED <<table, admin>>
    BY <1>2 DEF vars, Tick, EvalNext, EvalHit, EvalMiss, EvalLoad, EvalStore, EvalFail,
                SyncNext, SyncBegin, SyncHit, SyncMiss, SyncLoad, SyncStore, SyncStoreFail,
                SyncReply, SyncGiveUp
  <2> QED BY <1>1, <2>1
<1>3. ASSUME NEW w \in Workers, WorkerRestart(w) PROVE LoadedAlive'
  BY <1>1, <1>3 DEF WorkerRestart, IdleAdmin
<1>4. ASSUME NEW x \in Admins, AdminLoad(x) PROVE LoadedAlive'
  <2>1. PICK op \in Ops \ {"refresh"}, p \in Policies :
          /\ IF op = "create" THEN ~table[p].created ELSE Live(table[p])
          /\ admin' = [admin EXCEPT ![x] = [IdleAdmin EXCEPT !.pc = "loaded", !.op = op,
                                              !.policy = p, !.row = table[p]]]
    BY <1>4 DEF AdminLoad
  <2>2. ~table[p].deleted /\ (op # "create" => table[p].created)
    BY <2>1 DEF LoadedAlive, Live, Row
  <2>3. admin'[x].row = table[p] /\ admin'[x].op = op
    BY <2>1 DEF IdleAdmin
  <2>4. UNCHANGED table /\ \A y \in Admins : y # x => admin'[y] = admin[y]
    BY <1>4, <2>1 DEF AdminLoad
  <2> QED BY <2>2, <2>3, <2>4 DEF LoadedAlive
<1>5. ASSUME NEW x \in Admins, AdminCommit(x) PROVE LoadedAlive'
  <2>1. \A y \in Admins : admin'[y].pc = "loaded" => admin'[y] = admin[y]
    BY <1>5 DEF AdminCommit, AdminSlot
  <2>2. \A p \in Policies : table'[p].deleted => table'[p].created
    BY <1>5, CommitKeepsDeletions DEF LoadedAlive
  <2> QED BY <2>1, <2>2 DEF LoadedAlive
<1>6. ASSUME NEW x \in Admins, AdminBump(x) \/ FlushBegin(x) \/ \E a \in Agents : FlushKey(x, a)
      PROVE  LoadedAlive'
  <2>1. UNCHANGED table /\ \A y \in Admins : y # x => admin'[y] = admin[y]
    BY <1>6 DEF AdminBump, FlushBegin, FlushKey
  <2>2. CASE AdminBump(x)
    BY <1>1, <2>1, <2>2 DEF AdminBump, AdminSlot
  <2>3. CASE FlushBegin(x)
    <3>1. admin'[x].pc = "flushing"
      BY <2>3 DEF FlushBegin, AdminSlot
    <3> QED BY <1>1, <2>1, <3>1
  <2>4. ASSUME NEW a \in Agents, FlushKey(x, a) PROVE LoadedAlive'
    BY <1>1, <2>1, <2>4 DEF FlushKey, AdminSlot
  <2> QED BY <1>6, <2>2, <2>3, <2>4
<1>7. ASSUME NEW x \in Admins, AdminRefresh(x) \/ FlushEnd(x) \/ AdminAbort(x) PROVE LoadedAlive'
  <2>1. UNCHANGED table /\ \A y \in Admins : admin'[y].pc = "loaded" => admin'[y] = admin[y]
    BY <1>7 DEF AdminRefresh, FlushEnd, AdminAbort, IdleAdmin
  <2> QED BY <1>1, <2>1
<1> QED BY <1>2, <1>3, <1>4, <1>5, <1>6, <1>7 DEF Next, AdminNext

\* A soft delete is final: no create, enable or update that loaded the row
\* before brings the policy back to a reader of the enabled policies.
THEOREM DeleteIsFinalHolds == Spec => DeleteIsFinal
<1> DEFINE Gone == \A p \in Policies : table[p].deleted =>
                     \A i \in EnabledPolicies(table') : i.id # p
<1>1. Init => LoadedAlive
  BY DEF Init, LoadedAlive, NoRow, IdleAdmin
<1>2. ASSUME TypeInv, LoadedAlive, [Next]_vars
      PROVE  Gone
  <2>1. \A p \in Policies : table[p].deleted => table'[p].deleted
    <3>1. CASE \E x \in Admins : AdminCommit(x)
      BY <1>2, <3>1, CommitKeepsDeletions
    <3>2. CASE UNCHANGED table
      BY <3>2
    <3> QED
      BY <1>2, <3>1, <3>2
      DEF Next, vars, Tick, WorkerRestart, AdminNext, AdminLoad, AdminBump, AdminRefresh,
          FlushBegin, FlushEnd, FlushKey, AdminAbort, EvalNext, EvalHit, EvalMiss, EvalLoad,
          EvalStore, EvalFail, SyncNext, SyncBegin, SyncHit, SyncMiss, SyncLoad, SyncStore,
          SyncStoreFail, SyncReply, SyncGiveUp
  <2>2. \A i \in EnabledPolicies(table') : i.id \in Policies /\ ~table'[i.id].deleted
    BY DEF EnabledPolicies, Live
  <2> QED BY <2>1, <2>2
<1>3. TypeInv /\ LoadedAlive /\ [Next]_vars => [Gone]_vars
  BY <1>2
<1>4. Spec => [][Gone]_vars
  BY TypeInit, TypeStep, AliveStep, <1>1, <1>3, PTL DEF Spec
<1> QED BY <1>4 DEF DeleteIsFinal
=============================================================================
