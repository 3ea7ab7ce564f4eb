SPECIFICATION Spec
CONSTANTS
  Variant = "server"
  MaxFd = 9
  MaxConns = 3
  Chunks = 2
  Env = {"any_request", "disconnect", "fast_download", "short_download", "split_header", "aborted", "refused", "reset"}
INVARIANT MasterOpen
INVARIANT ClientConnected
INVARIANT RememberedOpen
INVARIANT TeardownHasFiller
CHECK_DEADLOCK FALSE
