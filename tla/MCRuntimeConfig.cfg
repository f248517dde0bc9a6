CONSTANTS
  c1 = c1
  c2 = c2
  key1 = key1
  known = known
  unknown = unknown
  Appliers = {c1, c2}
  None = None
  MappingKeys = {key1}
  KnownTypes = {known}
  UnknownTypes = {unknown}
  InputTTLs <- TTLInputs
  MinTTL = 2
  MaxTTL = 5
  DefaultTTL = 3
  Arriving <- Offered
SPECIFICATION FairConfigSpec
INVARIANTS
  ConfigTypeOK
  PolicyAligned
  AnswerIsOwn
  ErrorIsOfLastCall
PROPERTIES
  OnlyTargetsPublished
  CallsReturn
