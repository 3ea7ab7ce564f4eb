SPECIFICATION Spec
CONSTANTS
  USEC = 4
  CLOCK = 2
  MaxEvents = 3
  Start <- FullSecond
  MaxTime = 4
  Delays = {100, 1000}
  Stamps = {0, 3}
  EosGap = 1
  Carry = FALSE
INVARIANT WellFormed
INVARIANT TimeoutValid
PROPERTY ImplementsTimerQueue
CHECK_DEADLOCK FALSE
