CONSTANTS
  Worker = {w1}
  Task = {1}
  Key = {}
  Registration <- OneSecondLease
  Submission <- LateDeadline
  Result <- SuccessOrRetry
  HeartbeatTimeout = 1
  SaveMayFail = TRUE
  MaxTime = 2
  MaxStall = 0
  MaxRestarts = 2
  NoDeadline = NoDeadline
  NoLease = NoLease
  NoRegistration = NoRegistration
  NoSubmission = NoSubmission
  NoKey = NoKey
  NoResult = NoResult
SPECIFICATION Spec
INVARIANTS
  IInv
  UpIsDurable
  FencingTokensUnique
PROPERTIES
  TerminalChangesOnlyByDeadline
  ImplementsFencedDelivery
