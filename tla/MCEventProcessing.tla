-------------------------- MODULE MCEventProcessing --------------------------
(* Instances of EventProcessing for TLC. *)
EXTENDS EventProcessing, TLC

CONSTANTS e1, e2, e3, u1, u2

\* A burst of one user: a blocked transfer rule 1 ranks 4, one it ranks 3, and a
\* high-severity event the agent failed to block though the policy said so.
MCBurstUser     == [e \in Events |-> u1]
MCBurstLevel    == [e \in Events |-> IF e = e2 THEN 4 ELSE 3]
MCBurstReported == [e \in Events |-> IF e = e3 THEN "failed" ELSE "blocked"]

\* Mixed: e2 is another user's, and e3 is blocked by policy but no rule selects it.
MCMixedUser     == [e \in Events |-> IF e = e2 THEN u2 ELSE u1]
MCMixedLevel    == [e \in Events |-> IF e = e3 THEN 0 ELSE 3]
MCMixedReported == [e \in Events |-> IF e = e2 THEN "failed" ELSE "logged"]
=============================================================================
