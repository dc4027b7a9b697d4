CONSTANTS
  None = None
  Checkouts = {"c1", "c2"}
  References = {"order"}
  Requests = {"q1", "q2"}
  Reconcilers = {}
  Refunders = {}
  RateLimit = 3
  MaxPosts = 1
  MaxCalls = 0
SPECIFICATION Spec
CHECK_DEADLOCK FALSE
INVARIANTS
  OnePush
