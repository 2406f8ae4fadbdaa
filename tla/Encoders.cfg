\* Two encoders, two files: every fault, a hang and a system sleep.  No
\* remove() under an open file: ReprobeRace has that one.
SPECIFICATION FairSpec
CONSTANTS
  Encs = {1, 2}
  Files = {1, 2}
  OpenBalance = TRUE
  Faults = {"stop", "halt", "boot", "probe"}
  Races = {}
  MaxHangs = 1
  MaxSleeps = 1
INVARIANTS
  UsersCounted OwnerHasClient NeverGatesLive
  AsleepMeansStopped
PROPERTIES
  HungIsRecovered
CHECK_DEADLOCK FALSE
