SPECIFICATION Spec
CONSTANTS
  c1 = c1
  c2 = c2
  k1 = k1
  k2 = k2
  real = real
  mock = mock
  m1 = m1
  m2 = m2
  mm = mm
  Limit = 1
  Callers = {c1, c2}
  Keys <- MCKeys
  EnvKeys <- MCEnvKeys
  Provider <- MCProvider
  Priority <- MCPriority
  QuotaLimit <- MCQuotaLimit
  ModelProvider <- MCModelProvider
  Fit <- MCFit
  Relaxed <- MCRelaxed
  Mock = mock
  MockKey = mockkey
  HealthWindow = 1
  MaxAttempts <- MCMaxAttempts
  MaxTroubles = 2
CHECK_DEADLOCK FALSE
INVARIANTS
  QuotaNeverOverstated
  ActiveKeysIndexed
PROPERTIES
  BarredKeyRests
  InvocationsEnd
