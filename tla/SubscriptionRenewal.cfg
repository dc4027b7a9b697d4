CONSTANTS
  TrialDays = 1
  BillingDays = 1
  NoticeDays = 1
  GraceDays = 1
  EraseDays = 2
  LastDay = 3
SPECIFICATION Spec
INVARIANT
  RenewalIsPushed
CHECK_DEADLOCK FALSE
