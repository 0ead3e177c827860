CONSTANTS
  Workers = {w1}
  Main = main
  MaxPushes = 4
SPECIFICATION QueueSpec
INVARIANTS NothingStranded
CHECK_DEADLOCK TRUE
