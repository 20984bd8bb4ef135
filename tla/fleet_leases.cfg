CONSTANTS
  Worker = {w1, w2}
  Task = {1}
  Key = {}
  Registration <- MCRegistration
  Submission <- DeadlineOrNot
  Result <- AllResults
  HeartbeatTimeout = 1
  SaveMayFail = FALSE
  MaxTime = 3
  MaxStall = 1
  MaxRestarts = 1
  NoDeadline = NoDeadline
  NoLease = NoLease
  NoRegistration = NoRegistration
  NoSubmission = NoSubmission
  NoKey = NoKey
  NoResult = NoResult
SYMMETRY WorkerSymmetry
SPECIFICATION Spec
INVARIANTS
  RetryBudget
  AttemptsAccountedFor
  ReportedStands

  
