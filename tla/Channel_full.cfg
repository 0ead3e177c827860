CONSTANTS
  Senders = {s1, s2}
  Receivers = {r1, r2}
  Bound = 3
  MaxSend = 3
  Window = 3
SPECIFICATION ChannelSpec
CHECK_DEADLOCK TRUE
INVARIANTS NothingLost
