SPECIFICATION FairSpec
CONSTANTS
  QUEUESIZE = 4
  MaxThreads = 3
  MaxOps = 7
  Pts <- Increasing
  Env = {"teardown"}
  Prompt = TRUE
INVARIANT TeardownStops
INVARIANT SessionIsolated
INVARIANT NoSelfDeadlock
INVARIANT NoQueueRace
INVARIANT NoLostWakeup
PROPERTY StreamCompletes
CHECK_DEADLOCK FALSE
