CONSTANTS
  None = None
  Checkouts = {"c1"}
  References = {"order"}
  Requests = {"q1"}
  Reconcilers = {"w"}
  Refunders = {}
  RateLimit = 3
  MaxPosts = 1
  MaxCalls = 0
SPECIFICATION ReliableSpec
CHECK_DEADLOCK FALSE
PROPERTIES
  PaidIsConfirmed
