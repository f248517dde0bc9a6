CONSTANTS
  k1 = k1
  k2 = k2
  k3 = k3
  v1 = v1
  v2 = v2
  p1 = p1
  p2 = p2
  Callers = {p1, p2}
  Keys = {k1, k2, k3}
  Values = {v1, v2}
  TTLs = {0, 1, 2}
  Limit = 2
  MaxTime = 3
SYMMETRY Symmetry
SPECIFICATION Spec
INVARIANTS
  TypeOK
  WithinCapacity
PROPERTIES
  ReadsLoseNothing
  KeepsItsPromise
CHECK_DEADLOCK FALSE
