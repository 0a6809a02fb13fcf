SPECIFICATION Spec
CONSTANTS
  a = a
  b = b
  syn = syn
  crit = crit
  Nodes <- MCNodes
  Plans <- MCPlans
  MaxAttempts = 2
  MaxFaults = 1
INVARIANTS
  VerdictsExclusive
  EveryNodeAccountedFor
  DependenciesDecidedFirst
  CancelledOnlyByUpstream
  RowsTellVerdict
PROPERTIES
  TwoRunsAtMost
  LedgerSpec
  Terminates
