CONSTANTS
  Jobs = {j1}
  Handlers = {h1, h2}
  MaxTries = 1
  Batches = 1
  MaxGrants = 2
  Calls = {"expired"}
  Maintenance = {}
  Prompt = TRUE
  Failures = {"heartbeat", "step"}
SPECIFICATION Spec
INVARIANTS
  PublishedIsWhole
SYMMETRY Symmetry
CHECK_DEADLOCK FALSE
