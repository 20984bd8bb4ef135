------------------------- MODULE MCFleetCoordinator -------------------------
(* Small instances of the coordinator and its refinement for TLC.          *)
EXTENDS FleetRefinement, TLC

MCRegistration ==
  {[implementation |-> "i", capabilities |-> {"c"}, lease_seconds |-> 2]}

OneSecondLease ==
  {[implementation |-> "i", capabilities |-> {"c"}, lease_seconds |-> 1]}

Attempts(n, deadline) ==
  [execution |-> "e", requires |-> {"c"}, max_attempts |-> n,
   deadline |-> deadline]

TwoAttempts   == {Attempts(2, NoDeadline)}
DeadlineOrNot == {Attempts(2, NoDeadline), Attempts(2, 2)}
LateDeadline  == {Attempts(2, 2)}
\* The second one is never for the one worker there is.
Mixed         == {Attempts(1, NoDeadline),
                  [Attempts(1, NoDeadline) EXCEPT !.requires = {"d"}],
                  [Attempts(2, 1) EXCEPT !.requires = {}]}

AllResults ==
  {[outcome |-> "succeeded", retryable |-> FALSE],
   [outcome |-> "failed", retryable |-> TRUE],
   [outcome |-> "policy_denied", retryable |-> TRUE],
   [outcome |-> "cancelled", retryable |-> FALSE]}

SuccessOrRetry ==
  {[outcome |-> "succeeded", retryable |-> FALSE],
   [outcome |-> "failed", retryable |-> TRUE]}

RetryOnly     == {[outcome |-> "failed", retryable |-> TRUE]}

WorkerSymmetry == Permutations(Worker)
=============================================================================
