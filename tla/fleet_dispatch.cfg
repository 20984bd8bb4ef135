CONSTANTS
  Worker = {w1}
  Task = {1}
  Key = {}
  Registration <- TheRegistrations
  Submission <- TheSubmissions
  Result <- TheResults
  HeartbeatTimeout = 1
  SaveMayFail = FALSE
  MaxTime = 2
  MaxStall = 0
  MaxRestarts = 1
  Offer <- TheOffer
  MaxLate = 1
  WaitTimeout = 2
  NoDeadline = NoDeadline
  NoLease = NoLease
  NoRegistration = NoRegistration
  NoSubmission = NoSubmission
  NoKey = NoKey
  NoResult = NoResult
  Never = Never
SPECIFICATION FairDispatchSpec
INVARIANTS
  ExecutionsWithinBudget
  AnswersAreEarned
  NothingLeftBehind
CHECK_DEADLOCK FALSE
PROPERTIES
  ImplementsRemoteInvocation
  DispatchEnds
