CONSTANTS
  Sites <- SomeSites
  Params <- SomeParams
  MaxLoads = 3
  MaxSleeps = 2
  MaxFaults = 2
SPECIFICATION Spec
INVARIANT StartsRight
INVARIANT IrqSafe
INVARIANT SleepsStopped
INVARIANT BlobSuffices
PROPERTY LiveCoreKept
CHECK_DEADLOCK FALSE
