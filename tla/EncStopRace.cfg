SPECIFICATION Spec
CONSTANTS
  BFrames = {0}
  GopSizes = {0}
  NOut = 2
  NCap = 2
  MaxSources = 2
  MaxStarts = 2
  MaxForced = 0
  MaxDrains = 1
  QbufInDrain = {0}
  StopInCompletion = TRUE
  Faults = {}
INVARIANTS
  DrainHasLast
CHECK_DEADLOCK FALSE
