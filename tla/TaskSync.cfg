SPECIFICATION FairSpec
CONSTANTS
  Tasks = {1, 2}
  Forgettable = {1}
  MaxPerRun = 1
  MaxScreens = 1
  MaxTroubles = 1
INVARIANTS
  PlaceholderMeansPending
PROPERTIES
  RowsCatchUp
CHECK_DEADLOCK FALSE
