\* One allocation of the second stream refused: the SrcNeighbor arena.
SPECIFICATION Spec
CONSTANTS
  Sizes <- Nothing
  Floors <- NoFloor
  Settings <- Nothing
  Labs = {"none"}
  TwoRefsWork = TRUE
  Denied <- Neighbours
  MaxSets = 1
  MaxBufs = 1
  MaxStarts = 2
  MaxFaults = 1
  MaxFrames = 1
INVARIANT PublishedIsLive
CHECK_DEADLOCK FALSE
