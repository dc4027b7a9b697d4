CONSTANTS
  Receipts = {e1}
  TillTasks = {w1, w2}
SPECIFICATION Spec
INVARIANT
  ReceiptIsApplied
CHECK_DEADLOCK FALSE
