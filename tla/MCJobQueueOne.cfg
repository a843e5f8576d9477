CONSTANTS
  WorkerIds = {w1, w2}
  Keys = {k1, k2}
  JobIds = {1}
  MaxAttempts = 2
  MaxPending = 1
  ClaimLimit = 1
  LeaseSeconds = 1
  BackoffSeconds = 1
  BackoffCap = 3
  RecoveryDelay = 1
  HandlerTimeout = 2
  Skew = 1
  AnswerKinds = {"none", "defer", "continue", "published", "cancelled"}
  Horizon = 2
  MaxVersion = 3
SPECIFICATION Spec
INVARIANTS
  TypeOK
  EveryRowDecodes
  DeadLetterJustified
  LeaseIffRunning
  OnlyNewestLeasePasses
  AuditTrailComplete
PROPERTIES
  LiveLeaseUndisturbed
  AttemptHistoryImmutable
  SettledIsFinal
  ImplementsLifecycle
SYMMETRY Symmetry
CHECK_DEADLOCK FALSE
