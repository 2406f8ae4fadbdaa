SPECIFICATION Spec
CONSTANTS
  Slots = 2
  TermSlots = 1
  Blocks = {b1, b2}
  ShmMax = 1
  Lenient = FALSE
  Speaks <- SmallSpeaks
  MaxBoots = 2
INVARIANTS MailboxOnce FailsOnlyOnFault NoLostDoorbell ShmAgrees
SYMMETRY Symmetry
CHECK_DEADLOCK FALSE
