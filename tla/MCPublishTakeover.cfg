CONSTANTS
  Jobs = {j1}
  Handlers = {h1, h2}
  MaxTries = 1
  Batches = 1
  MaxGrants = 2
  Calls = {"expired", "cancel"}
  Maintenance = {}
  Prompt = FALSE
  Failures = {"step", "crash", "heartbeat", "publish"}
SPECIFICATION Spec
INVARIANTS
  SucceededIsPublished
PROPERTIES
  ImplementsLifecycle
SYMMETRY Symmetry
CHECK_DEADLOCK FALSE
