CONSTANTS
  item = item
  Attempts = {1, 2}
  Foreign = {item}
  Lease = 2
  MaxTime = 1
SPECIFICATION Spec
INVARIANTS
  OneHolder
CHECK_DEADLOCK FALSE
