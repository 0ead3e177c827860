CONSTANTS
  Modulus = 256
  Base = 8
  SizeModulus = 4
  Shape <- MCShape
  Hash <- MCHash
  Values <- MCValues
  Transfers <- MCTransfers
SPECIFICATION CodecSpec
INVARIANTS Reversible
CHECK_DEADLOCK FALSE
