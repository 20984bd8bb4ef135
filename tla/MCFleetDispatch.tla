--------------------------- MODULE MCFleetDispatch --------------------------
(* A small fleet for TLC: its agents, and what is dispatched to them.      *)
EXTENDS DispatchRefinement

TheRegistration ==
  [implementation |-> "i", capabilities |-> {"c"}, lease_seconds |-> 1]

TheOffer == [w \in Worker |-> TheRegistration]

TheRegistrations == {TheRegistration}

TwoAttempts(deadline) ==
  [execution |-> "e", requires |-> {"c"}, max_attempts |-> 2,
   deadline |-> deadline]

TheSubmissions == {TwoAttempts(NoDeadline), TwoAttempts(1)}

TheResults ==
  {[outcome |-> "succeeded", retryable |-> FALSE],
   [outcome |-> "failed", retryable |-> TRUE]}
=============================================================================
