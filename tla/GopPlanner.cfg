SPECIFICATION Spec
CONSTANTS
  NBs = {1, 2}
  GopSizes <- MCGopSizes
  MaxSources = 12
INVARIANTS
  EverySourceOnce
  NumbersFollowDisplay
  ReferenceGrid
  ReferencesExist
  NoBBeforeIdr
CHECK_DEADLOCK FALSE
