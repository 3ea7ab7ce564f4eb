SPECIFICATION FairSpec
CONSTANTS
  MaxFd = 2
  MaxAddrs = 3
  MaxSize = 3
  Env = {"nosocket", "nobind", "inuse", "noconnect", "nolisten", "short", "eintr", "sendfail"}
INVARIANT HeldReady
INVARIANT Delivered
PROPERTY CallReturns
CHECK_DEADLOCK FALSE
