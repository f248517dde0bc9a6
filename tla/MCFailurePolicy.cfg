CONSTANTS
  c1 = c1
  q1 = q1
  q2 = q2
  m1 = m1
  key1 = key1
  key2 = key2
  t1 = t1
  t2 = t2
  cred = cred
  a1 = a1
  a2 = a2
  None = None
  Appliers = {c1}
  MappingKeys = {key1, key2}
  KnownTypes = {t1, t2}
  UnknownTypes = {}
  InputTTLs = {0, 2}
  MinTTL = 1
  MaxTTL = 2
  DefaultTTL = 2
  Arriving <- RacingChanges
  Queries = {q1, q2}
  Manuals = {}
  Batches <- RacingBatches
  MaxSlots = 1
  CacheLimit = 2
  FailureTTL <- RacingFailures
  MaxTime = 2
SPECIFICATION Spec
INVARIANTS
  FailureWithinPolicy
CHECK_DEADLOCK FALSE
