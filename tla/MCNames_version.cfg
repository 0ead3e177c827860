CONSTANTS
  Walked = 28
  Networks <- MCNetworks
  SixBytes <- MCSixBytes
  MaxScope = 3
  Directory <- MCDirectory
SPECIFICATION AddressesSpec
INVARIANTS VersionIndependent
CHECK_DEADLOCK FALSE
