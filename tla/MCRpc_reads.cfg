CONSTANTS
  N = 2
  Capacity = 2
  Sockets <- MCSockets
  Programs <- MCOrdinary
SPECIFICATION RpcSpec
INVARIANTS ReadsUntilEnough
CHECK_DEADLOCK FALSE
