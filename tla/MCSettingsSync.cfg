CONSTANTS
  a = a
  b = b
  ttl = ttl
  g1 = g1
  g2 = g2
  None = None
  Invalid = Invalid
  Pages <- ThePages
  TTL <- ttl
  Providers = {g1, g2}
  Domain <- TheDomain
  AtFirst <- TheStart
  Bound <- TheBound
  MaxMishaps = 2
  MaxEdits = 2
  MaxLoads = 2
  MaxFaults = 1
  MaxForeign = 1
  MaxLosses = 1
  MaxLate = 1
SPECIFICATION Spec
INVARIANTS
  SyncTypeOK
  OnlyOutsidersInterfere
  EditsSurvive
  BusyIsSaving
PROPERTIES
  WritesOnlyWhatItsUserSaw
  SuccessIsNotOutdated
CHECK_DEADLOCK FALSE
