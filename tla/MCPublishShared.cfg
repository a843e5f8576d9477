CONSTANTS
  Jobs = {j1, j2}
  Handlers = {h1, h2}
  MaxTries = 1
  Batches = 1
  MaxGrants = 1
  Calls = {"cancel"}
  Maintenance = {}
  Prompt = TRUE
  Failures = {"step"}
SPECIFICATION Spec
INVARIANTS
  PublishedIsWhole
SYMMETRY Symmetry
CHECK_DEADLOCK FALSE
