SPECIFICATION AccountSpec
CONSTANTS
  Accounts = {"a", "b"}
  Admins = {"a"}
  Slots = {"s1"}
  Backends = {"b1", "b2"}
  SnapshotReads = TRUE
  MaxPasswords = 2
  MaxRoleVersion = 2
PROPERTY PasswordStaysReplaced
CHECK_DEADLOCK FALSE
