SPECIFICATION Spec
CONSTANTS
  t1 = t1
  t2 = t2
  p1 = p1
  p2 = p2
  p3 = p3
  r1 = r1
  r2 = r2
  r3 = r3
  r4 = r4
  m1 = m1
  m2 = m2
  Requests = {r1, r2, r3, r4}
  Runs = {t1, t2}
  Ensembles = {t1}
  Models = {m1, m2}
  Prompts = {p1, p2, p3}
  PromptOf <- MCPromptOf
  Similar <- MCSimilar
  Keys <- MCKeys
  Counter = Counter
  Session = Session
  Health = Health
  Former = Former
  Nothing = Nothing
  Limit = 1
  Window = 2
  MaxEntries = 2
  MemoryTtl = 2
  CacheTtl = 1
  HealthWindow = 1
  MaxTime = 2
  MaxFaults = 1
SYMMETRY Symmetry
INVARIANTS
  StoresAgree
  BurstBounded
  CounterExpires
  ConversationKept
  SamplesCounted
CHECK_DEADLOCK FALSE
