CONSTANTS
  c1 = c1
  q1 = q1
  q2 = q2
  m1 = m1
  key1 = key1
  key2 = key2
  t1 = t1
  t2 = t2
  cred = cred
  a1 = a1
  a2 = a2
  None = None
  Appliers = {c1}
  MappingKeys = {key1, key2}
  KnownTypes = {t1, t2}
  UnknownTypes = {}
  InputTTLs = {1, 2}
  MinTTL = 1
  MaxTTL = 2
  DefaultTTL = 2
  Arriving <- PairedChanges
  Queries = {q1}
  Manuals = {m1}
  Batches <- PairedBatches
  MaxSlots = 1
  CacheLimit = 1
  FailureTTL <- PairedFailures
  MaxTime = 1
SPECIFICATION FairSpec
PROPERTIES
  QueriesAnswered
  ManualsAnswered
CHECK_DEADLOCK FALSE
