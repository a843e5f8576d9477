SPECIFICATION LedgerSpec
CONSTANTS
  Workflows = {"w1"}
  Atomics = {}
  Requests = {"r1", "r2"}
  Processes = {"p1", "p2"}
  LedgerFaults = {"admission", "crash"}
  Unprojectable = {}
  BatchSize = 1
  MaxAttempts = 1
  MaxManual = 0
INVARIANT OutcomeIsTrue
CHECK_DEADLOCK FALSE
