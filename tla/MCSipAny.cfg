SPECIFICATION Spec
CONSTANTS
  c1 = c1
  c2 = c2
  MAXCLIENTS = 2
  Sockets = {1, 2, 3}
  MaxStreams = 1
  Calls <- TwoCalls
  MaxInFlight = 2
  NULL = NULL
  NoCallId = NoCallId
  Net = {"lose", "duplicate", "retransmit", "unknown"}
SYMMETRY CallSymmetry
INVARIANT CountExact
INVARIANT SocketsOwned
INVARIANT AudioOnlyToCalls
INVARIANT NoOrphanSlot
CHECK_DEADLOCK FALSE
