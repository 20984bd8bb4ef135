------------------------------ MODULE MCArbiter -----------------------------
(***************************************************************************)
(* The constants of the Arbiter's run.                                     *)
(***************************************************************************)
EXTENDS Arbiter

CONSTANTS w1, w2, w3, shared, own, none

\* The first Worker of the plan and the one that a replan adds share a
\* worker_id, as two nested Arbiters with the default name do.
SharedIds == [w \in Worker |-> IF w = w2 THEN own ELSE shared]

ThePlan == <<w1, w2>>

\* The evaluator replans with no Workers at all, or with one or two.
TheReplans == {<<>>, <<w3>>, <<w3, w2>>}
=============================================================================
