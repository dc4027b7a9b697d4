CONSTANTS
  Orders = {"o1", "o2", "o3", "o4"}
  Variants = {"a", "b"}
  Cart <- MCCart
  Quantity <- MCQuantity
  WithCoupon = {"o1", "o3", "o4"}
  InitStock <- MCStock
  MaxUses = 1
  Workers = 2
  Staff = {"s"}
  Pushes <- MCPushes
  Rounds = {"r1", "r2"}
  Requests = {"q1", "q2"}
  Shares = {"s1", "s2"}
SPECIFICATION FairSaleSpec
CHECK_DEADLOCK FALSE
INVARIANTS
  SaleTypeOK
  OversellBound
  CouponBound
  AnnouncedIsConfirmed
  ConfirmedHasCause
  SettledWasPaid
  LateRounds
  RoundsInSequence
  UnsettledBound
PROPERTIES
  CheckoutEnds
  PaidTabSettles
