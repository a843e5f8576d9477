SPECIFICATION FairSpec
CONSTANTS
  Jobs = {"j1", "j2"}
  MaxConcurrency = 1
  MaxErrors = 2
  MaxClaims = 2
  Poison = {"j2"}
  Events = {"lease", "fault", "stop", "cancel", "deadline"}
INVARIANT CapacityHeld
PROPERTY RegisteredSettles
CHECK_DEADLOCK FALSE
