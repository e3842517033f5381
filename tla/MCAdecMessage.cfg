SPECIFICATION Spec
CONSTANTS
  MESSAGE_NUM_MAX = 4
  Patience = 1
  Senders = {s1, s2}
  MaxSends = 8
INVARIANT Accounted
PROPERTIES RingIsQueue SendReturns
CHECK_DEADLOCK FALSE
