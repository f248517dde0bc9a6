CONSTANTS
  item = item
  Attempts = {1, 2}
  Foreign = {item}
  Lease = 2
  MaxTime = 2
SPECIFICATION Spec
INVARIANTS
  LockTypeOK
  OneHolderUnlessMissedOrLapsed
  NothingLeftBehind
PROPERTIES
  LeaseEndsOnce
CHECK_DEADLOCK FALSE
