\* One encoder, one file, a hang; a remove() whoever holds the file.
SPECIFICATION FairSpec
CONSTANTS
  Encs = {1}
  Files = {1}
  OpenBalance = TRUE
  Faults = {}
  Races = {"open"}
  MaxHangs = 1
  MaxSleeps = 0
INVARIANTS
  ReprobeIdle
CHECK_DEADLOCK FALSE
