CONSTANTS
  Thieves = {t1, t2}
  InitialCapacity = 2
  MaxPush = 4
  g1 = g1
  g2 = g2
  g3 = g3
  g4 = g4
  Groups = {g1, g2, g3, g4}
  Programs <- MCPrograms
SPECIFICATION MCFairSpec
INVARIANTS AtMostOnce NothingLost Inv OneThreadPerGroup ResumesSuspended OneHandle LoopEndsLast
PROPERTIES ImplementsDeque EveryFrameTaken EveryLoopEnds
CHECK_DEADLOCK TRUE
