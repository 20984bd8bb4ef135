CONSTANTS
  Execution = {e1}
  Deadline <- DeadlineOrNot
  Result <- AllResults
  SaveMayFail = TRUE
  MaxTime = 2
  MaxRuns = 2
  MaxCrashes = 2
  MaxLateCancels = 1
  MaxEvaluations = 1
  NoDeadline = NoDeadline
  NoToken = NoToken
  NoTime = NoTime
  NoCancellation = NoCancellation
  NoResult = NoResult
SPECIFICATION Spec
INVARIANTS
  AcceptedIsHonoured
  EvaluationsFitResult
PROPERTIES
  TerminalIsFinal
  ImplementsControlledExecution
CHECK_DEADLOCK FALSE
