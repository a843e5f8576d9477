CONSTANTS
  Jobs = {j1}
  Handlers = {h1, h2}
  MaxTries = 2
  Batches = 1
  MaxGrants = 2
  Calls = {"poll", "cancel", "timeout", "release"}
  Maintenance = {"archive", "delete"}
  Prompt = TRUE
  Failures = {"step", "crash", "heartbeat", "publish", "cleanup"}
SPECIFICATION Spec
INVARIANTS
  SettledIsUnpublished
  CommittedIsKept
  CancelledLeavesNothing
PROPERTIES
  DecisionIsFinal
  CommitWasNotCancelled
SYMMETRY Symmetry
CHECK_DEADLOCK FALSE
