SPECIFICATION FairSpec
CONSTANTS
  BFrames = {0, 2}
  GopSizes = {0}
  NOut = 4
  NCap = 3
  MaxSources = 4
  MaxStarts = 3
  MaxForced = 0
  MaxDrains = 1
  QbufInDrain = {0}
  StopInCompletion = FALSE
  Faults = {"error", "hang", "sleep"}
PROPERTIES
  DrainEnds SourceTaken
CHECK_DEADLOCK FALSE
