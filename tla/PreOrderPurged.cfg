CONSTANTS
  Rows = {"p1"}
  Requests = {"q1"}
  MaxDeaths = 0
SPECIFICATION Spec
CHECK_DEADLOCK FALSE
PROPERTIES
  PaidIsNotPurged
