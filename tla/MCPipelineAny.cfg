SPECIFICATION Spec
CONSTANTS
  QUEUESIZE = 4
  MaxThreads = 2
  MaxOps = 3
  Pts <- Short
  Env = {"repeat_play", "fast_download", "disconnect", "teardown", "spurious"}
  Prompt = FALSE
INVARIANT CtxSafe
INVARIANT TimerArmed
INVARIANT FramesBounded
INVARIANT StreamInOrder
CHECK_DEADLOCK FALSE
