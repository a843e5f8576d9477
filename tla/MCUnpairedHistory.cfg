SPECIFICATION ChatSpec
CONSTANTS
  Clients = {"c1", "c2"}
  Keys = {"k1"}
  Texts = {"x"}
  Modes = {"chat"}
  Stores = {"postgres"}
  ChatFaults = {}
INVARIANT HistoryIsPaired
CHECK_DEADLOCK FALSE
