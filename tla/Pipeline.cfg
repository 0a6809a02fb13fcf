SPECIFICATION FairSpec
CONSTANTS
  Tasks = {t1}
  NoTask = notask
  ApiSlots = {a1, a2}
  WorkerSlots = {w1}
  NoSlot = noslot
  Concurrency <- MCConcurrency
  Sessions = {t1}
  MaxStalls = 1
  ResultCacheLimit = 1
  MaxTroubles = 2
  MaxFaults = 2
CHECK_DEADLOCK FALSE
INVARIANTS
  NoneForgotten
  EventsNeverAhead
  RerunOnlyForStall
PROPERTIES
  LifeSpec
  AcceptedTasksEnd
