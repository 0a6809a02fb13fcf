SPECIFICATION Spec
CONSTANTS
  w1 = w1
  v1 = v1
  Watchers = {w1}
  Viewers = {v1}
  LastEvent = 4
  Order <- MCOrder
  Identity <- MCIdentity
  MaxConnections = 2
  MaxSocketErrors = 2
  MaxCuts = 2
  MaxLost = 1
INVARIANTS
  MissingWasUnwritten
  SlotsCounted
PROPERTIES
  PollingStopsForAReason
CHECK_DEADLOCK FALSE
