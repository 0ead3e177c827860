CONSTANTS
  N = 2
  Capacity = 2
  Sockets <- MCSockets
  Programs <- MCClosed
SPECIFICATION RpcSpec
INVARIANTS SessionsEndQuietly
CHECK_DEADLOCK FALSE
