CONSTANTS
  N = 2
  Capacity = 2
  Sockets <- MCSockets
  Programs <- MCPrograms
  Workers = {}
  Main = main
  MaxPushes = 8
  Senders = {s1, s2}
  Receivers = {r1, r2}
  Bound = 3
  MaxSend = 3
  Window = 2
  Modulus = 256
  Base = 8
  SizeModulus = 4
  Shape <- MCShape
  Hash <- MCHash
  Values <- MCValues
  Transfers <- MCTransfers
  Walked = 28
  Networks <- MCNetworks
  SixBytes <- MCSixBytes
  MaxScope = 3
  Directory <- MCDirectory
  Yielded = {1, 2, 3, 4, 5, 6, 7}
  Bodies <- MCBodies
  Sources = {0, 1, 2, 3}
  Scripts <- MCScripts
SPECIFICATION MCFairSpec
INVARIANTS AnswersMatch WaitersWatched BlocksOnlyShared OrderKept NothingStranded NothingLost PostedOnce SenderOrder DecodesToItself AddressesAgreeWithBits YieldsInOrder CallsNest
PROPERTIES EveryCallEnds EveryFramePopped EveryMessageReceived
CHECK_DEADLOCK FALSE
