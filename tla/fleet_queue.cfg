CONSTANTS
  Worker = {w1}
  Task = {1, 2}
  Key = {k}
  Registration <- OneSecondLease
  Submission <- Mixed
  Result <- RetryOnly
  HeartbeatTimeout = 1
  SaveMayFail = FALSE
  MaxTime = 2
  MaxStall = 0
  MaxRestarts = 0
  NoDeadline = NoDeadline
  NoLease = NoLease
  NoRegistration = NoRegistration
  NoSubmission = NoSubmission
  NoKey = NoKey
  NoResult = NoResult
SPECIFICATION FairSpec
INVARIANTS
  OneTaskPerKey
PROPERTIES
  OldestFirst
  
