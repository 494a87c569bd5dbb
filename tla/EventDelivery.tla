---------------------------- MODULE EventDelivery ----------------------------
(***************************************************************************)
(* What the Windows agent promises of the events it emits, seen from the   *)
(* server's event collection and without spool, threads or batches: an     *)
(* emitted event is open until it is stored or given up, a stored event    *)
(* stays stored, and no event stays open for ever.                         *)
(***************************************************************************)

CONSTANT Events

VARIABLE status

Init == status = [e \in Events |-> "new"]

Emit(e) == status[e] = "new" /\ status' = [status EXCEPT ![e] = "open"]

\* No active policy asks for events: the agent discards it unsent.
Mute(e) == status[e] = "new" /\ status' = [status EXCEPT ![e] = "muted"]

\* Also of an event given up: a request the agent took for failed may arrive.
Store(e) == status[e] \in {"open", "lost"} /\ status' = [status EXCEPT ![e] = "stored"]

\* A crash may cost several events at once.
Lose(S) == /\ \A e \in S : status[e] = "open"
           /\ status' = [e \in Events |-> IF e \in S THEN "lost" ELSE status[e]]

Next == \/ \E e \in Events : Emit(e) \/ Mute(e) \/ Store(e)
        \/ \E S \in SUBSET Events : Lose(S)

SafeSpec == Init /\ [][Next]_status

Settles == \A e \in Events : status[e] = "open" ~> status[e] # "open"

Spec == SafeSpec /\ Settles
=============================================================================
