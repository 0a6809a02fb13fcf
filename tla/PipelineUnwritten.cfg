SPECIFICATION Spec
CONSTANTS
  Tasks = {t1}
  NoTask = notask
  ApiSlots = {a1}
  WorkerSlots = {}
  NoSlot = noslot
  Concurrency <- MCConcurrency
  Sessions = {t1}
  MaxStalls = 1
  ResultCacheLimit = 1
  MaxTroubles = 0
  MaxFaults = 1
CHECK_DEADLOCK FALSE
INVARIANTS
  FailurePersisted
