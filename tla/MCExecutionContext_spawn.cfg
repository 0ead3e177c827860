CONSTANTS
  g1 = g1
  g2 = g2
  g3 = g3
  g4 = g4
  Groups = {g1, g2, g3, g4}
  Programs <- MCSpawning
SPECIFICATION Spec
INVARIANTS LoopEndsLast
CHECK_DEADLOCK TRUE
