SPECIFICATION Spec
CONSTANTS
  USEC = 20
  CLOCK = 20
  MaxEvents = 2
  Start <- EndOfSecond
  MaxTime = 22
  Delays = {100}
  Stamps = {0, 1}
  EosGap = 1
  Carry = TRUE
INVARIANT Sorted
CHECK_DEADLOCK FALSE
