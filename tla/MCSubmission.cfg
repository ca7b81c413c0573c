\* Two callers, two tries, two connections.  The machine stops when every submission
\* has returned and the provider is disposed of.
SPECIFICATION SubmissionFairSpec
CONSTANTS
  Caller = {p1, p2}
  MaxConn = 2
  RetryCount = 2
  Providers = {"http", "cats", "cli", "gouroboros"}
INVARIANTS
  SharedConnection
  SubmittedMeansAccepted
  RejectedAfterRetry
PROPERTIES
  LoopEnds
  SubmissionReturns
CHECK_DEADLOCK FALSE
