CONSTANTS
  None = None
  Checkouts = {c1, c2, c3}
  References = {"order"}
  Requests = {q1, q2}
  Reconcilers = {}
  Refunders = {"f1"}
  RateLimit = 1
  MaxPosts = 1
  MaxCalls = 1
  Sessions = {"t1"}
  Orders = {"o1"}
  Shares = {"x1"}
  Reservations = {"r1"}
  Rows = {p1, p2}
  MaxDeaths = 1
  Takeaways = {"z1", "z2", "z3"}
SPECIFICATION RestaurantSpec
SYMMETRY Symmetry
CHECK_DEADLOCK FALSE
INVARIANTS
  RestaurantTypeOK
  RateLimitOvershoot
  PushOvershoot
  TicketMirrorsOrder
  LateOrders
  ConvertBound
  PaidIsKept
PROPERTIES
  ImplementsLedger
  NeverReopened
