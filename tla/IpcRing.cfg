\* Three slots, gone round twice and a bit; two messages tell tearing apart.
SPECIFICATION Spec
CONSTANTS
  N = 3
  Msgs = {m1, m2}
  MaxSends = 7
INVARIANT Cursors
PROPERTIES ImplementsChannel
CHECK_DEADLOCK FALSE
