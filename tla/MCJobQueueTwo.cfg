CONSTANTS
  WorkerIds = {w1}
  Keys = {k1, k2}
  JobIds = {1, 2}
  MaxAttempts = 1
  MaxPending = 1
  ClaimLimit = 1
  LeaseSeconds = 1
  BackoffSeconds = 0
  BackoffCap = 3
  RecoveryDelay = 1
  HandlerTimeout = 2
  Skew = 0
  AnswerKinds = {"none", "defer", "continue"}
  Horizon = 1
  MaxVersion = 0
SPECIFICATION FairSpec
PROPERTIES
  ExpiredIsRecovered
  DueIsClaimed
CHECK_DEADLOCK FALSE
