------------------------- MODULE PolicyDistribution -------------------------
(***************************************************************************)
(* How a policy change reaches the two places that enforce it: the event   *)
(* evaluators inside the uvicorn worker processes and the bundles that     *)
(* endpoint agents pull.                                                   *)
(*                                                                         *)
(*   admin request -> PostgreSQL commit -> bump of the worker's generation *)
(*                 -> SCAN/DEL of the Redis bundle keys                    *)
(*   evaluator     -> cached policies of its worker, valid for EvalTTL     *)
(*                    while the generation it captured is still current    *)
(*   agent sync    -> Redis bundle (BundleTTL) or a bundle built from a    *)
(*                    fresh read, compared with the installed version      *)
(*                                                                         *)
(* Every await of a handler is a step boundary.  A policy's contents are   *)
(* abstracted to rev, the stamp of its last UPDATE (updated_at), which is  *)
(* what the bundle version hashes.  The fields seq, raced and floor and    *)
(* the variables bumped and flushed are history: no guard reads them.      *)
(***************************************************************************)
EXTENDS Integers, FiniteSets

CONSTANTS
  Workers,     \* uvicorn worker processes, each with its own generation
  Agents,      \* endpoint agents
  Policies,    \* policy ids that may ever be created
  Admins,      \* slots for concurrent policy mutation requests
  Evals,       \* slots for concurrent evaluator calls
  Syncs,       \* slots for concurrent sync requests
  AdminWorker, \* [Admins -> Workers]: the worker that serves the slot
  EvalWorker,  \* [Evals -> Workers]
  SyncAgent,   \* [Syncs -> Agents]: the agent that calls
  Supported,   \* [Agents -> SUBSET Policies]: platform and capability filter
  EvalTTL,     \* evaluator cache lifetime, in ticks
  BundleTTL,   \* Redis bundle lifetime, in ticks
  MaxCommits,  \* bound: commits of mutation requests
  MaxFaults,   \* bound: failed calls, timeouts, aborted requests, restarts
  NoBundle,    \* what an agent has installed before its first sync
  NoPolicy     \* the policy of a slot that serves none

ASSUME SlotAssumption == /\ AdminWorker \in [Admins -> Workers]
                         /\ EvalWorker \in [Evals -> Workers]
                         /\ SyncAgent \in [Syncs -> Agents]
ASSUME SupportedAssumption == Supported \in [Agents -> SUBSET Policies]
ASSUME TTLAssumption == EvalTTL \in Nat \ {0} /\ BundleTTL \in Nat \ {0}
ASSUME BoundAssumption == MaxCommits \in Nat /\ MaxFaults \in Nat

VARIABLES
  table,       \* PostgreSQL: the policies table
  commits,     \* commits so far; the clock of updated_at
  generation,  \* per worker: _policy_cache_generation
  cached,      \* per worker: the evaluator's cached policies
  bundles,     \* Redis: one bundle key per agent
  admin,       \* in-flight mutation requests
  eval,        \* in-flight evaluator calls
  sync,        \* in-flight sync requests
  installed,   \* per agent: the bundle it enforces
  bumped,      \* history, per worker: commits when it last bumped
  flushed,     \* history: commits when the last complete flush began
  faults       \* faults so far

vars == <<table, commits, generation, cached, bundles, admin, eval, sync,
          installed, bumped, flushed, faults>>

-----------------------------------------------------------------------------
(* The policies table *)

Ops == {"create", "update", "delete", "enable", "disable", "refresh"}

Row == [created : BOOLEAN, deleted : BOOLEAN, active : BOOLEAN,
        scope : SUBSET Agents, rev : Nat]

\* What a reader of the enabled policies gets of one policy.
Issued == [id : Policies, scope : SUBSET Agents, rev : Nat]

\* Mutant: a soft-deleted row still counts.
LiveIgnoresDeletion(row) == row.created

Live(row) == row.created /\ ~row.deleted

\* get_enabled_policies: neither soft-deleted nor inactive.
EnabledPolicies(t) ==
  {[id |-> p, scope |-> t[p].scope, rev |-> t[p].rev] :
      p \in {q \in Policies : Live(t[q]) /\ t[q].active}}

\* build_bundle: the enabled policies this agent is in the scope of and
\* whose type its platform and capabilities support.
BundleFor(policies, a) ==
  {i \in policies : (i.scope = {} \/ a \in i.scope) /\ i.id \in Supported[a]}

\* The row a mutation wants, from the row its handler loaded.
Wanted(op, row, scope, active) ==
  CASE op = "create"  -> [row EXCEPT !.created = TRUE, !.scope = scope, !.active = active]
    [] op = "update"  -> [row EXCEPT !.scope = scope, !.active = active]
    [] op = "delete"  -> [row EXCEPT !.deleted = TRUE, !.active = FALSE]
    [] op = "enable"  -> [row EXCEPT !.active = TRUE]
    [] op = "disable" -> [row EXCEPT !.active = FALSE]

\* The ORM writes the columns that differ from the loaded ones and leaves the
\* others to whoever wrote them in the meantime; a write stamps the row.
Written(now, loaded, wanted, stamp) ==
  [created |-> wanted.created,
   deleted |-> IF wanted.deleted = loaded.deleted THEN now.deleted ELSE wanted.deleted,
   active  |-> IF wanted.active = loaded.active THEN now.active ELSE wanted.active,
   scope   |-> IF wanted.scope = loaded.scope THEN now.scope ELSE wanted.scope,
   rev     |-> stamp]

-----------------------------------------------------------------------------
(* Requests and caches *)

AdminSlot == [pc : {"idle", "loaded", "committed", "bumped", "flushing"},
              op : Ops, policy : Policies \cup {NoPolicy}, row : Row,
              seq : Nat, keys : SUBSET Agents]

EvalSlot == [pc : {"idle", "load", "store"}, gen : Nat,
             policies : SUBSET Issued, seq : Nat, floor : [Workers -> Nat]]

SyncSlot == [pc : {"idle", "get", "load", "store", "reply"}, waiting : BOOLEAN,
             have : (SUBSET Issued) \cup {NoBundle}, got : SUBSET Issued,
             seq : Nat, raced : BOOLEAN, floor : Nat]

EvalCache == [policies : SUBSET Issued, gen : Nat, left : 0 .. EvalTTL, seq : Nat]

BundleKey == [bundle : SUBSET Issued, left : 0 .. BundleTTL, seq : Nat, raced : BOOLEAN]

NoRow == [created |-> FALSE, deleted |-> FALSE, active |-> FALSE, scope |-> {}, rev |-> 0]
NoCache == [policies |-> {}, gen |-> 0, left |-> 0, seq |-> 0]
NoKey == [bundle |-> {}, left |-> 0, seq |-> 0, raced |-> FALSE]

IdleAdmin == [pc |-> "idle", op |-> "refresh", policy |-> NoPolicy,
              row |-> NoRow, seq |-> 0, keys |-> {}]
IdleEval == [pc |-> "idle", gen |-> 0, policies |-> {}, seq |-> 0,
             floor |-> [w \in Workers |-> 0]]
IdleSync == [pc |-> "idle", waiting |-> FALSE, have |-> NoBundle, got |-> {},
             seq |-> 0, raced |-> FALSE, floor |-> 0]

Init ==
  /\ table = [p \in Policies |-> NoRow]
  /\ commits = 0
  /\ generation = [w \in Workers |-> 0]
  /\ cached = [w \in Workers |-> NoCache]
  /\ bundles = [a \in Agents |-> NoKey]
  /\ admin = [x \in Admins |-> IdleAdmin]
  /\ eval = [e \in Evals |-> IdleEval]
  /\ sync = [s \in Syncs |-> IdleSync]
  /\ installed = [a \in Agents |-> NoBundle]
  /\ bumped = [w \in Workers |-> 0]
  /\ flushed = 0
  /\ faults = 0

Fault == faults < MaxFaults /\ faults' = faults + 1

-----------------------------------------------------------------------------
(* A mutation request: load, commit, bump, flush the bundle keys *)

\* The handler loads the policy: a free id to create, a live row otherwise
\* (404 changes nothing).
AdminLoad(x) ==
  /\ admin[x].pc = "idle"
  /\ commits + Cardinality({y \in Admins : admin[y].pc = "loaded"}) < MaxCommits
  /\ \E op \in Ops \ {"refresh"}, p \in Policies :
       /\ IF op = "create" THEN ~table[p].created ELSE Live(table[p])
       /\ op = "create" => \A y \in Admins : admin[y].policy # p
       /\ admin' = [admin EXCEPT ![x] = [IdleAdmin EXCEPT !.pc = "loaded", !.op = op,
                                           !.policy = p, !.row = table[p]]]
  /\ UNCHANGED <<table, commits, generation, cached, bundles, eval, sync,
                 installed, bumped, flushed, faults>>

\* db.commit().  No UPDATE is sent when no column changed; an update request
\* is taken to change some column that the bundle carries.
AdminCommit(x) ==
  /\ admin[x].pc = "loaded"
  /\ \E scope \in SUBSET Agents, active \in BOOLEAN :
       LET p      == admin[x].policy
           row    == admin[x].row
           wanted == Wanted(admin[x].op, row, scope, active)
       IN IF wanted = row /\ admin[x].op # "update"
          THEN UNCHANGED table
          ELSE table' = [table EXCEPT ![p] = Written(table[p], row, wanted, commits + 1)]
  /\ commits' = commits + 1
  /\ admin' = [admin EXCEPT ![x].pc = "committed"]
  /\ UNCHANGED <<generation, cached, bundles, eval, sync, installed,
                 bumped, flushed, faults>>

\* bump_policy_cache(): a module global of this worker process.
AdminBump(x) ==
  LET w == AdminWorker[x] IN
  /\ admin[x].pc = "committed"
  /\ generation' = [generation EXCEPT ![w] = @ + 1]
  /\ bumped' = [bumped EXCEPT ![w] = commits]
  /\ admin' = [admin EXCEPT ![x].pc = "bumped"]
  /\ UNCHANGED <<table, commits, cached, bundles, eval, sync, installed,
                 flushed, faults>>

\* POST /policies/cache/refresh goes straight to the flush.
AdminRefresh(x) ==
  /\ admin[x].pc = "idle"
  /\ admin' = [admin EXCEPT ![x] = [IdleAdmin EXCEPT !.pc = "bumped"]]
  /\ UNCHANGED <<table, commits, generation, cached, bundles, eval, sync,
                 installed, bumped, flushed, faults>>

\* Mutant: the prefix matches no key.
FlushBeginWrongPrefix(x) ==
  /\ admin[x].pc = "bumped"
  /\ admin' = [admin EXCEPT ![x] = [@ EXCEPT !.pc = "flushing", !.seq = commits]]
  /\ sync' = [s \in Syncs |->
                IF sync[s].pc = "store" /\ sync[s].seq < commits
                THEN [sync[s] EXCEPT !.raced = TRUE] ELSE sync[s]]
  /\ UNCHANGED <<table, commits, generation, cached, bundles, eval, installed,
                 bumped, flushed, faults>>

\* delete_prefix begins its SCAN: the keys present now are all returned.
FlushBegin(x) ==
  /\ admin[x].pc = "bumped"
  /\ admin' = [admin EXCEPT ![x] = [@ EXCEPT !.pc = "flushing", !.seq = commits,
                                         !.keys = {a \in Agents : bundles[a].left > 0}]]
  /\ sync' = [s \in Syncs |->
                IF sync[s].pc = "store" /\ sync[s].seq < commits
                THEN [sync[s] EXCEPT !.raced = TRUE] ELSE sync[s]]
  /\ UNCHANGED <<table, commits, generation, cached, bundles, eval, installed,
                 bumped, flushed, faults>>

\* One DEL.  SCAN may or may not return a key set after it began.
FlushKey(x, a) ==
  /\ admin[x].pc = "flushing"
  /\ a \in admin[x].keys \/ bundles[a].left > 0
  /\ bundles' = [bundles EXCEPT ![a] = NoKey]
  /\ admin' = [admin EXCEPT ![x].keys = @ \ {a}]
  /\ UNCHANGED <<table, commits, generation, cached, eval, sync, installed,
                 bumped, flushed, faults>>

FlushEnd(x) ==
  /\ admin[x].pc = "flushing"
  /\ admin[x].keys = {}
  /\ flushed' = IF admin[x].seq > flushed THEN admin[x].seq ELSE flushed
  /\ admin' = [admin EXCEPT ![x] = IdleAdmin]
  /\ UNCHANGED <<table, commits, generation, cached, bundles, eval, sync,
                 installed, bumped, faults>>

\* The request ends early: a failed commit or refresh, an exception in the
\* cloud-folder sync, or a Redis error, which delete_prefix swallows.
AdminAbort(x) ==
  /\ admin[x].pc # "idle"
  /\ Fault
  /\ admin' = [admin EXCEPT ![x] = IdleAdmin]
  /\ UNCHANGED <<table, commits, generation, cached, bundles, eval, sync,
                 installed, bumped, flushed>>

-----------------------------------------------------------------------------
(* An evaluator call: _get_cached_policies of the worker's evaluator *)

CacheValid(w) == /\ cached[w].left > 0
                 /\ cached[w].policies # {}
                 /\ cached[w].gen = generation[w]

\* A slot that is idle again keeps the seq its last call used, and its floor.
EvalHit(e) ==
  LET w == EvalWorker[e] IN
  /\ eval[e].pc = "idle"
  /\ CacheValid(w)
  /\ eval' = [eval EXCEPT ![e] = [IdleEval EXCEPT !.seq = cached[w].seq, !.floor = bumped]]
  /\ UNCHANGED <<table, commits, generation, cached, bundles, admin, sync,
                 installed, bumped, flushed, faults>>

\* The generation is captured before the session is opened.
EvalMiss(e) ==
  LET w == EvalWorker[e] IN
  /\ eval[e].pc = "idle"
  /\ ~CacheValid(w)
  /\ eval' = [eval EXCEPT ![e] = [IdleEval EXCEPT !.pc = "load",
                                    !.gen = generation[w], !.floor = bumped]]
  /\ UNCHANGED <<table, commits, generation, cached, bundles, admin, sync,
                 installed, bumped, flushed, faults>>

EvalLoad(e) ==
  /\ eval[e].pc = "load"
  /\ eval' = [eval EXCEPT ![e] = [@ EXCEPT !.pc = "store", !.policies = EnabledPolicies(table),
                                       !.seq = commits]]
  /\ UNCHANGED <<table, commits, generation, cached, bundles, admin, sync,
                 installed, bumped, flushed, faults>>

\* Mutant: the generation is read when the result is stored.
EvalStoreGenerationAtStore(e) ==
  LET w == EvalWorker[e] IN
  /\ eval[e].pc = "store"
  /\ cached' = [cached EXCEPT ![w] = [policies |-> eval[e].policies, gen |-> generation[w],
                                      left |-> EvalTTL, seq |-> eval[e].seq]]
  /\ eval' = [eval EXCEPT ![e] = [IdleEval EXCEPT !.seq = eval[e].seq, !.floor = eval[e].floor]]
  /\ UNCHANGED <<table, commits, generation, bundles, admin, sync, installed,
                 bumped, flushed, faults>>

EvalStore(e) ==
  LET w == EvalWorker[e] IN
  /\ eval[e].pc = "store"
  /\ cached' = [cached EXCEPT ![w] = [policies |-> eval[e].policies, gen |-> eval[e].gen,
                                      left |-> EvalTTL, seq |-> eval[e].seq]]
  /\ eval' = [eval EXCEPT ![e] = [IdleEval EXCEPT !.seq = eval[e].seq, !.floor = eval[e].floor]]
  /\ UNCHANGED <<table, commits, generation, bundles, admin, sync, installed,
                 bumped, flushed, faults>>

\* The load raises and so does the evaluation; the cache stays as it was.
EvalFail(e) ==
  /\ eval[e].pc = "load"
  /\ eval' = [eval EXCEPT ![e] = IdleEval]
  /\ UNCHANGED <<table, commits, generation, cached, bundles, admin, sync,
                 installed, bumped, flushed, faults>>

-----------------------------------------------------------------------------
(* A sync request: POST /agents/{agent_id}/policies/sync *)

\* The agent's sync loop has one call at a time; a call it gave up on may
\* still be running on the server.
SyncBegin(s) ==
  LET a == SyncAgent[s] IN
  /\ sync[s].pc = "idle"
  /\ \A r \in Syncs : SyncAgent[r] = a => ~sync[r].waiting
  /\ sync' = [sync EXCEPT ![s] = [IdleSync EXCEPT !.pc = "get", !.waiting = TRUE,
                                    !.have = installed[a], !.floor = flushed]]
  /\ UNCHANGED <<table, commits, generation, cached, bundles, admin, eval,
                 installed, bumped, flushed, faults>>

\* Mutant: the cache key does not name the agent.
SyncHitSharedKey(s) ==
  \E a \in Agents :
    /\ sync[s].pc = "get"
    /\ bundles[a].left > 0
    /\ sync' = [sync EXCEPT ![s] = [@ EXCEPT !.pc = "reply", !.got = bundles[a].bundle,
                                         !.seq = bundles[a].seq, !.raced = bundles[a].raced]]
    /\ UNCHANGED <<table, commits, generation, cached, bundles, admin, eval,
                   installed, bumped, flushed, faults>>

SyncHit(s) ==
  LET key == bundles[SyncAgent[s]] IN
  /\ sync[s].pc = "get"
  /\ key.left > 0
  /\ sync' = [sync EXCEPT ![s] = [@ EXCEPT !.pc = "reply", !.got = key.bundle,
                                       !.seq = key.seq, !.raced = key.raced]]
  /\ UNCHANGED <<table, commits, generation, cached, bundles, admin, eval,
                 installed, bumped, flushed, faults>>

\* No key, or a Redis error that CacheService.get turns into None.
SyncMiss(s) ==
  /\ sync[s].pc = "get"
  /\ IF bundles[SyncAgent[s]].left > 0 THEN Fault ELSE UNCHANGED faults
  /\ sync' = [sync EXCEPT ![s].pc = "load"]
  /\ UNCHANGED <<table, commits, generation, cached, bundles, admin, eval,
                 installed, bumped, flushed>>

SyncLoad(s) ==
  /\ sync[s].pc = "load"
  /\ sync' = [sync EXCEPT ![s] = [@ EXCEPT !.pc = "store", !.seq = commits,
                                       !.got = BundleFor(EnabledPolicies(table), SyncAgent[s])]]
  /\ UNCHANGED <<table, commits, generation, cached, bundles, admin, eval,
                 installed, bumped, flushed, faults>>

SyncStore(s) ==
  /\ sync[s].pc = "store"
  /\ bundles' = [bundles EXCEPT ![SyncAgent[s]] =
                   [bundle |-> sync[s].got, left |-> BundleTTL,
                    seq |-> sync[s].seq, raced |-> sync[s].raced]]
  /\ sync' = [sync EXCEPT ![s].pc = "reply"]
  /\ UNCHANGED <<table, commits, generation, cached, admin, eval, installed,
                 bumped, flushed, faults>>

\* CacheService.set swallows a Redis error: the reply is sent all the same.
SyncStoreFail(s) ==
  /\ sync[s].pc = "store"
  /\ Fault
  /\ sync' = [sync EXCEPT ![s].pc = "reply"]
  /\ UNCHANGED <<table, commits, generation, cached, bundles, admin, eval,
                 installed, bumped, flushed>>

\* "up_to_date" leaves the agent as it is, "updated" carries the bundle; a
\* reply nobody waits for is dropped.
SyncReply(s) ==
  LET a == SyncAgent[s] IN
  /\ sync[s].pc = "reply"
  /\ installed' = IF sync[s].waiting /\ sync[s].have # sync[s].got
                  THEN [installed EXCEPT ![a] = sync[s].got] ELSE installed
  /\ sync' = [sync EXCEPT ![s] = IdleSync]
  /\ UNCHANGED <<table, commits, generation, cached, bundles, admin, eval,
                 bumped, flushed, faults>>

\* The agent's HTTP timeout: the handler carries on.
SyncGiveUp(s) ==
  /\ sync[s].waiting
  /\ Fault
  /\ sync' = [sync EXCEPT ![s].waiting = FALSE]
  /\ UNCHANGED <<table, commits, generation, cached, bundles, admin, eval,
                 installed, bumped, flushed>>

-----------------------------------------------------------------------------
(* Environment *)

\* A worker process dies and is replaced: its memory, its mutations and its
\* evaluations go.  What becomes of its syncs is SyncGiveUp and SyncStoreFail.
WorkerRestart(w) ==
  /\ Fault
  /\ generation' = [generation EXCEPT ![w] = 0]
  /\ cached' = [cached EXCEPT ![w] = NoCache]
  /\ admin' = [x \in Admins |-> IF AdminWorker[x] = w THEN IdleAdmin ELSE admin[x]]
  /\ eval' = [e \in Evals |-> IF EvalWorker[e] = w THEN IdleEval ELSE eval[e]]
  /\ UNCHANGED <<table, commits, bundles, sync, installed, bumped, flushed>>

\* Mutant: an expired entry goes on counting down.
OlderUnbounded(entry) == [entry EXCEPT !.left = @ - 1]

Older(entry) == IF entry.left > 0 THEN [entry EXCEPT !.left = @ - 1] ELSE entry

\* Mutant: bundle keys are set without an expiry.
TickNoBundleExpiry ==
  /\ \E w \in Workers : cached[w].left > 0
  /\ cached' = [w \in Workers |-> Older(cached[w])]
  /\ UNCHANGED <<table, commits, generation, bundles, admin, eval, sync, installed,
                 bumped, flushed, faults>>

Tick ==
  /\ \/ \E w \in Workers : cached[w].left > 0
     \/ \E a \in Agents : bundles[a].left > 0
  /\ cached' = [w \in Workers |-> Older(cached[w])]
  /\ bundles' = [a \in Agents |-> Older(bundles[a])]
  /\ UNCHANGED <<table, commits, generation, admin, eval, sync, installed,
                 bumped, flushed, faults>>

AdminNext(x) ==
  \/ AdminLoad(x) \/ AdminCommit(x) \/ AdminBump(x) \/ AdminRefresh(x)
  \/ FlushBegin(x) \/ FlushEnd(x) \/ AdminAbort(x)
  \/ \E a \in Agents : FlushKey(x, a)

EvalNext(e) ==
  EvalHit(e) \/ EvalMiss(e) \/ EvalLoad(e) \/ EvalStore(e) \/ EvalFail(e)

SyncNext(s) ==
  \/ SyncBegin(s) \/ SyncHit(s) \/ SyncMiss(s) \/ SyncLoad(s)
  \/ SyncStore(s) \/ SyncStoreFail(s) \/ SyncReply(s) \/ SyncGiveUp(s)

Next ==
  \/ \E x \in Admins : AdminNext(x)
  \/ \E e \in Evals : EvalNext(e)
  \/ \E s \in Syncs : SyncNext(s)
  \/ \E w \in Workers : WorkerRestart(w)
  \/ Tick

Spec == Init /\ [][Next]_vars

\* A started request runs on (asyncio), agents keep syncing (their sync loop)
\* and time passes.  Nobody has to start a mutation or an evaluation.
Fairness ==
  /\ WF_vars(Tick)
  /\ \A x \in Admins : /\ WF_vars(AdminCommit(x) \/ AdminBump(x))
                       /\ WF_vars(FlushBegin(x) \/ FlushEnd(x))
                       /\ \A a \in Agents : WF_vars(a \in admin[x].keys /\ FlushKey(x, a))
  /\ \A e \in Evals : WF_vars(EvalLoad(e) \/ EvalStore(e))
  /\ \A s \in Syncs : /\ WF_vars(SyncHit(s) \/ SyncMiss(s) \/ SyncLoad(s))
                      /\ WF_vars(SyncStore(s) \/ SyncReply(s))
  /\ \A a \in Agents : WF_vars(\E s \in Syncs : SyncAgent[s] = a /\ SyncBegin(s))

FairSpec == Spec /\ Fairness

-----------------------------------------------------------------------------
(* Properties *)

\* Types of every variable.
TypeOK ==
  /\ table \in [Policies -> Row]
  /\ commits \in Nat
  /\ generation \in [Workers -> Nat]
  /\ cached \in [Workers -> EvalCache]
  /\ bundles \in [Agents -> BundleKey]
  /\ admin \in [Admins -> AdminSlot]
  /\ eval \in [Evals -> EvalSlot]
  /\ sync \in [Syncs -> SyncSlot]
  /\ installed \in [Agents -> (SUBSET Issued) \cup {NoBundle}]
  /\ bumped \in [Workers -> Nat]
  /\ flushed \in Nat
  /\ faults \in 0 .. MaxFaults

\* An evaluation never uses policies older than the last bump its own worker
\* had made when the evaluation began, however loads, stores, commits and bumps
\* of concurrent coroutines interleave: the generation captured before the load
\* keeps a slow load from passing for current.
EvalSeesOwnWrites ==
  \A e \in Evals : eval[e].pc = "idle" => eval[e].seq >= eval[e].floor[EvalWorker[e]]

\* What a completed flush is said to do: "Agents will pull a fresh bundle on
\* their next sync" - a sync begun after it replies with nothing older.
PullsFreshBundle ==
  \A s \in Syncs : sync[s].pc = "reply" => sync[s].seq >= sync[s].floor

\* The only way a sync begun after a completed flush is answered with a bundle
\* older than that flush: a fill that had read the table before the flush began
\* and had not stored its bundle yet.
StaleOnlyByOverlap ==
  \A s \in Syncs : sync[s].pc = "reply" /\ sync[s].seq < sync[s].floor => sync[s].raced

\* No agent enforces a policy scoped to other agents, or one whose type its
\* platform does not support: the shared cache never crosses agents.
BundleIsForAgent ==
  \A a \in Agents : installed[a] # NoBundle =>
    installed[a] = BundleFor(installed[a], a)

\* A soft delete is final: a concurrent enable or update, working from the row
\* it loaded before, may write the deleted row but never makes a reader of the
\* enabled policies see the policy again.
DeleteIsFinal ==
  [][\A p \in Policies : table[p].deleted =>
       \A i \in EnabledPolicies(table') : i.id # p]_vars

\* Once mutations and faults are over, every agent comes to enforce exactly the
\* bundle of the final table: a stale key cannot outlive its TTL, nor can a
\* slow fill write one for ever.
AgentsConverge ==
  <>[](\A a \in Agents : installed[a] = BundleFor(EnabledPolicies(table), a))
=============================================================================
