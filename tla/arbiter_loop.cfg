SPECIFICATION FairSpec
CONSTANTS
  w1 = w1
  w2 = w2
  w3 = w3
  shared = shared
  own = own
  none = none
  Worker = {w1, w2, w3}
  WorkerId = {shared, own}
  IdOf <- SharedIds
  Plan <- ThePlan
  Replan <- TheReplans
  MaxRetries = 1
  MaxReplans = 1
  NoAnswer = none
INVARIANTS
  TypeOK
  DecisiveResultsStand
  RetriesBounded
  OnlyRetryableRetried
  
  PlanIsKept
  FailureIsNotMasked
PROPERTY Terminates
CHECK_DEADLOCK FALSE
