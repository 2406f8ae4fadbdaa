SPECIFICATION Spec
CONSTANTS
  Sizes <- SomeSizes
  Floors <- SomeFloors
  Settings <- SomeSettings
  Labs = {"none", "mp", "bufs"}
  TwoRefsWork = TRUE
  Denied <- SomeDenied
  MaxSets = 3
  MaxBufs = 1
  MaxStarts = 2
  MaxFaults = 1
  MaxFrames = 1
INVARIANTS PublishedIsLive SessionGeometry NegotiatedStarts FirmwareTakesIt
CHECK_DEADLOCK FALSE
