SPECIFICATION OperationsSpec
CONSTANTS
  Workflows = {"w1"}
  Atomics = {"a1"}
  Requests = {r1, r2}
  Processes = {p1, p2}
  LedgerFaults = {"session", "journal", "callback", "crash", "batch"}
  Unprojectable = {"a1"}
  BatchSize = 2
  MaxAttempts = 2
  MaxManual = 1
  Streams = {"p1"}
  Unaries = {"q1", "q2", "q3"}
  Workloads = {{"p1", "q1"}, {"q1", "q2", "q3"}}
  ProviderKinds = {"openai", "gateway", "anthropic"}
  ProviderAttempts = 2
  MaxTools = 1
  FailureThreshold = 2
  MaxChatFrames = 4
  MaxMessageFrames = 7
  Carries <- MCCarries
  Floor = 2
  Services = {"api", "worker"}
  Containers = {1, 2}
  MaxPlans = 3
  MaxPolicies = 1
INVARIANT AtMostOnce
INVARIANT OutcomeIsTrue
INVARIANT TrailMatchesLedger
INVARIANT OneWholeResponse
INVARIANT CircuitCountsFailures
PROPERTY DeploysAsReviewed
SYMMETRY Symmetry
CHECK_DEADLOCK FALSE
