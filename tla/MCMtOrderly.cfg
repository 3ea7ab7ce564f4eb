SPECIFICATION MtFairSpec
CONSTANTS
  c1 = c1
  c2 = c2
  Variant = "mt_server"
  MaxFd = 10
  MaxConns = 2
  Chunks = 2
  Env = {}
  MAXCLIENTS = 2
  Calls <- TwoCalls
  NULL = NULL
  NoCallId = NoCallId
  MaxInFlight = 1
  MaxStreams = 2
  Net = {}
  WatchToEnd = TRUE
INVARIANT SipSocketsOwned
INVARIANT SessionSockets
INVARIANT SocketsClosed
INVARIANT FileWhole
PROPERTY AudienceDismissed
PROPERTY ImplementsSipServer
CHECK_DEADLOCK FALSE
