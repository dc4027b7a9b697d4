CONSTANTS
  None = None
  Checkouts = {"c1", "c2"}
  References = {"order"}
  Requests = {"q1"}
  Reconcilers = {"w"}
  Refunders = {"f1", "f2"}
  RateLimit = 1
  MaxPosts = 2
  MaxCalls = 1
SPECIFICATION FairSpec
CHECK_DEADLOCK FALSE
INVARIANTS
  TypeOK
  ConfirmedWasPaid
  AnnouncedOnce
  AnnouncedStaysPaid
  ReversalWasDue
PROPERTIES
  OpenPushSettles
