SPECIFICATION FairSpec
CONSTANTS
  MaxConns = 3
  MaxAlive = 1
  Env = {"segment", "no_options", "keepalive", "disconnect"}
INVARIANT NoForeignSession
INVARIANT CSeqMatches
PROPERTY EveryRequestAnswered
CHECK_DEADLOCK FALSE
