CONSTANTS
  Execution = {e1}
  Deadline <- None
  Result <- AllResults
  SaveMayFail = FALSE
  MaxTime = 0
  MaxRuns = 2
  MaxCrashes = 0
  MaxLateCancels = 1
  MaxEvaluations = 1
  NoDeadline = NoDeadline
  NoToken = NoToken
  NoTime = NoTime
  NoCancellation = NoCancellation
  NoResult = NoResult
SPECIFICATION Spec
INVARIANTS
  ConfirmedCancellationIsTerminal
CHECK_DEADLOCK FALSE
