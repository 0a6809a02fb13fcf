SPECIFICATION Spec
CONSTANTS
  n1 = n1
  n2 = n2
  a1 = a1
  a2 = a2
  Nodes = {n1, n2}
  MaxRuns = 2
  Admins = {a1, a2}
  MaxTelemetry = 4
  Dropped = 2
  Period = 2
  c1 = c1
  c2 = c2
  CacheKeys = {c1, c2}
  ScanLimit = 1
  CacheTtl = 2
  MaxTime = 4
  MaxPuts = 3
  MaxRecords = 9
  Null = Null
INVARIANTS
  ReadersSeeTheSame
  SummariesAgree
  SubtasksDifferOnlyWhereUnwritten
CHECK_DEADLOCK FALSE
