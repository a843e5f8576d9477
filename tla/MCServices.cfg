SPECIFICATION ServicesSpec
CONSTANTS
  Jobs = {"j1"}
  MaxConcurrency = 2
  MaxErrors = 2
  MaxClaims = 2
  Poison = {}
  Events = {"deadline", "shutdown", "lease", "cancel", "stop"}
  MaxIds = 2
  MaxJobs = 1
  MaxRetries = 1
  Documents = {"d1"}
  Calls = {"submit", "upload", "retry", "reindex", "delete", "cancel", "reconcile", "shutdown"}
  Faults = {"unlink", "write", "store"}
  MaxRestarts = 1
  Turns = {"t1", "t2"}
  Interval = 2
  OpTimeout = 1
  MaxTries = 2
  Threshold = 2
  Cooldown = 1
  Accounts = {"a", "b"}
  Admins = {"a"}
  Slots = {"s1"}
  Backends = {"b1", "b2"}
  SnapshotReads = TRUE
  MaxPasswords = 2
  MaxRoleVersion = 2
  Clients = {"c1", "c2"}
  Keys = {"k1"}
  Texts = {"x", "y"}
  Modes = {"chat", "live", "buffered"}
  Stores = {"postgres", "sqlite", "memory"}
  ChatFaults = {"generate", "database", "lost", "cancel", "crash"}
INVARIANT OneReportPerLease
INVARIANT OneThreadPerJob
INVARIANT SuccessIsDurable
INVARIANT RowAgreesWithReceipt
INVARIANT QuietAfterShutdown
INVARIANT TurnsExclude
INVARIANT ProbeIsHeld
INVARIANT AdminRemains
INVARIANT SessionsKnowPassword
INVARIANT AnswerIsStored
INVARIANT OutcomeIsDurable
PROPERTY SourceNeverForgotten
CHECK_DEADLOCK FALSE
