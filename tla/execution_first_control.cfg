CONSTANTS
  Execution = {e1}
  Deadline <- OneDeadline
  Result <- EndOrInterrupt
  SaveMayFail = FALSE
  MaxTime = 1
  MaxRuns = 2
  MaxCrashes = 0
  MaxLateCancels = 1
  MaxEvaluations = 1
  NoDeadline = NoDeadline
  NoToken = NoToken
  NoTime = NoTime
  NoCancellation = NoCancellation
  NoResult = NoResult
SPECIFICATION Spec
INVARIANTS
  FirstRecordedControlWins
CHECK_DEADLOCK FALSE
