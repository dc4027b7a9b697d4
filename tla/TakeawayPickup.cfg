CONSTANTS
  Takeaways = {o1, o2}
SPECIFICATION Spec
INVARIANT
  PickupReferenceUnique
CHECK_DEADLOCK FALSE
