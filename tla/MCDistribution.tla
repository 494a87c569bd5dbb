-------------------------- MODULE MCDistribution --------------------------
(***************************************************************************)
(* Two instances of PolicyDistribution in one: two admins on two workers   *)
(* and an evaluator, without agents; or one admin, one policy that only a1 *)
(* supports, and the syncs of two agents, with a fault.  A behaviour picks *)
(* one of them and the slots of the other stay idle.                       *)
(***************************************************************************)
EXTENDS PolicyDistribution, TLC

CONSTANTS w1, w2, a1, a2, p1, p2, x1, x2, e1, e2, e3, s1, s2, s3

\* Evaluators: two coroutines on w1, one on w2; the admins are on different
\* workers, so that w1 bumps and w2 does not hear of it.
MCAdminWorker == [x \in Admins |-> IF x = x1 THEN w1 ELSE w2]
MCEvalWorker == [e \in Evals |-> IF e = e3 THEN w2 ELSE w1]

\* Syncs: s1 and s2 are calls of a1 (one of them may be a call it gave up on).
MCSyncAgent == [s \in Syncs |-> IF s = s3 THEN a2 ELSE a1]

\* Every agent supports p1; only a1 supports p2.
MCSupported == [a \in Agents |-> IF a = a1 THEN Policies ELSE Policies \cap {p1}]

-----------------------------------------------------------------------------
VARIABLE focus                                  \* what this behaviour is about

InFlight == Cardinality({x \in Admins : admin[x].pc = "loaded"})

\* Mutations for every agent of one policy, no refresh beside them (there is no
\* bundle to flush), and evaluations beside two of them and after three.
Evaluations ==
  /\ \A x \in Admins : admin[x].policy = p1 \/ admin[x] = IdleAdmin
  /\ \A p \in Policies : table[p].scope = {}
  /\ \/ commits + InFlight <= 2
     \/ commits = 3 /\ admin = [x \in Admins |-> IdleAdmin]
     \/ eval = [e \in Evals |-> IdleEval]
  /\ faults = 0
  /\ sync = [s \in Syncs |-> IdleSync]

\* One commit by x1 and any refresh, while the agents sync and one thing fails.
Synchronisations ==
  /\ admin[x1].policy \in {p2, NoPolicy} /\ commits + InFlight <= 1
  /\ admin[x2] = IdleAdmin
  /\ eval = [e \in Evals |-> IdleEval]

Within == CASE focus = "evaluations" -> Evaluations [] focus = "syncs" -> Synchronisations

FocusInit == Init /\ focus \in {"evaluations", "syncs"}
FocusNext == Next /\ UNCHANGED focus /\ Within'
FocusSpec == FocusInit /\ [][FocusNext]_<<vars, focus>>
=============================================================================
