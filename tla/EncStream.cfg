\* One-frame and B streams, open-ended and GOPs of 3, every fault.
SPECIFICATION Spec
CONSTANTS
  BFrames = {0, 2}
  GopSizes = {0, 3}
  NOut = 4
  NCap = 3
  MaxSources = 4
  MaxStarts = 3
  MaxForced = 1
  MaxDrains = 1
  QbufInDrain = {0}
  StopInCompletion = FALSE
  Faults = {"error", "hang", "busy", "sleep"}
INVARIANTS
  BuffersConserved DrainHasLast KeysInPlace ReorderBounded
PROPERTIES
  LastIsFinal NoLostWakeup
CHECK_DEADLOCK FALSE
