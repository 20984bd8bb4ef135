CONSTANTS
  Execution = {e1, e2}
  Deadline <- DeadlineOrNot
  Result <- FourResults
  SaveMayFail = FALSE
  MaxTime = 2
  MaxRuns = 3
  MaxCrashes = 0
  MaxLateCancels = 1
  MaxEvaluations = 1
  NoDeadline = NoDeadline
  NoToken = NoToken
  NoTime = NoTime
  NoCancellation = NoCancellation
  NoResult = NoResult
SPECIFICATION FairSpec
INVARIANTS
  IInv
  RunsAreOwned
PROPERTIES
  DeadlineBinds
  EvidenceOnlyGrows
  CancellationStopsWork
CHECK_DEADLOCK FALSE
