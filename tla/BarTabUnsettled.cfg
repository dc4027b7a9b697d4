CONSTANTS
  Rounds = {"r1"}
  Requests = {"q1", "q2"}
  Shares = {"s1"}
SPECIFICATION Spec
CHECK_DEADLOCK FALSE
PROPERTIES
  SettledIsFinal
