\* One-frame (H.264) and B streams (HEVC) with every fault.
SPECIFICATION Spec
CONSTANTS
  BFrames = {0, 2}
  Hevc = {2}
  MaxCalls = 5
  MaxBatches = 3
  MaxSessions = 2
  MaxFaults = 2
  Faults = {"reject", "drop", "garble", "idr", "hang", "send"}
INVARIANTS
  ResultsOwn StreamIsPicture FreedIsQuiet HungIsTrue CleanNeverFails
CHECK_DEADLOCK FALSE
