CONSTANTS
  Rounds = {"r1"}
  Requests = {"q1"}
  Shares = {"s1", "s2"}
SPECIFICATION Spec
CHECK_DEADLOCK FALSE
PROPERTIES
  SettledInFull
