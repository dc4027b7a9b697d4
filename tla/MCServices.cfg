CONSTANTS
  Late = {g1}
  Early = {g2}
  Children = {c1, c2}
  MaxRetries = 2
  DlqCap = 1
  MaxCrashes = 2
  Slots = {s1}
  Works = {j1}
  Clerks = {k1, k2}
  TrialDays = 1
  BillingDays = 1
  NoticeDays = 1
  GraceDays = 1
  EraseDays = 2
  LastDay = 2
  Purchases = {b1, b2, b3}
  Required = 2
  Redemptions = 2
  Repeats = 1
  Callers = {l1, l2, l3}
  Limit = 2
  FileRows = 2
  Receipts = {e1}
  TillTasks = {w1, w2, w3, w4}
  Sales = {o1, o2}
  HoursPerDay = 2
  LastHour = 4
  Variants = {v1}
  Shoppers = {n1, n2}
  MaxItems = 2
  Editors = {d1, d2}
  MaxStock = 2
  Threshold = 1
  Intents = {i1}
  Hooks = {h1, h2}
  MaxEvents = 3
  Tokens = {u1, u2, u3}
  Devices = {m1, m2}
  Managers = {a1, a2, a3}
  Processes = {y1, y2, y3}
  MaxOverruns = 2
SPECIFICATION ServicesSpec
CHECK_DEADLOCK FALSE
INVARIANTS
  ServicesTypeOK
  NeverLost
  WorkWasDecided
  ErasedWasCancelled
  LedgerAddsUp
  LimitBound
  ReceiptAnnouncedOnce
  DaysAddUp
  ItemsAddUp
  StockAddsUp
  SuccessIsSeen
  SessionsBound
  OneFetcher
