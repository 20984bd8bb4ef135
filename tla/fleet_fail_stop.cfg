CONSTANTS
  Worker = {w1}
  Task = {1}
  Key = {}
  Registration <- MCRegistration
  Submission <- TwoAttempts
  Result <- SuccessOrRetry
  HeartbeatTimeout = 1
  SaveMayFail = TRUE
  MaxTime = 1
  MaxStall = 0
  MaxRestarts = 1
  NoDeadline = NoDeadline
  NoLease = NoLease
  NoRegistration = NoRegistration
  NoSubmission = NoSubmission
  NoKey = NoKey
  NoResult = NoResult
SPECIFICATION Spec
INVARIANTS
  ToldOutcomeIsDurable
