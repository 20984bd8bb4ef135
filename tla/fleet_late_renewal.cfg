CONSTANTS
  Worker = {w1}
  Task = {1}
  Key = {}
  Registration <- MCRegistration
  Submission <- DeadlineOrNot
  Result <- SuccessOrRetry
  HeartbeatTimeout = 1
  SaveMayFail = FALSE
  MaxTime = 3
  MaxStall = 0
  MaxRestarts = 0
  NoDeadline = NoDeadline
  NoLease = NoLease
  NoRegistration = NoRegistration
  NoSubmission = NoSubmission
  NoKey = NoKey
  NoResult = NoResult
SPECIFICATION Spec
PROPERTIES
  CommittedResultImmutable
