CONSTANTS
  a = a
  b = b
  ttl = ttl
  g1 = g1
  g2 = g2
  None = None
  Invalid = Invalid
  Pages <- ThePages
  TTL <- ttl
  Providers = {g1, g2}
  Domain <- TheDomain
  AtFirst <- TheStart
  Bound <- TheBound
  MaxMishaps = 0
  MaxEdits = 1
  MaxLoads = 2
  MaxFaults = 1
  MaxForeign = 1
  MaxLosses = 1
  MaxLate = 0
SPECIFICATION Spec
INVARIANTS
  SavedIsInEffect
CHECK_DEADLOCK FALSE
