CONSTANTS
  c1 = c1
  c2 = c2
  x = x
  y = y
  t = t
  u = u
  None = None
  Connections = {c1, c2}
  Accounts = {x, y}
  Types = {t, u}
  AtFirst <- BothMapped
  MaxLoads = 3
  MaxFaults = 2
  MaxChanges = 1
  MaxQueries = 1
SPECIFICATION Spec
INVARIANTS
  SessionTypeOK
  ResultsAreOfTheirConnection
  ResultsFollowMapping
  NothingForgotten
PROPERTIES
  SuccessesSurviveQueries
SYMMETRY Symmetry
CHECK_DEADLOCK FALSE
