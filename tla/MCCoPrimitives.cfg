CONSTANTS
  Concurrencies = {0, 2}
  Acquirers = {a1, a2, a3}
  Triers = {t1}
  r1 = r1
  r2 = r2
  Update <- MCUpdate
  Counters = {c1, c2}
  Arrivers = {b1}
  Waiters = {w1, w2}
  Coroutines <- MCCoroutines
  Desired = 1
SPECIFICATION FairSpec
INVARIANTS MutualExclusion OnePlace PredicateHeld WakeupsCover Barrier
PROPERTIES EveryAcquireReturnsInLoop EveryonePasses
CHECK_DEADLOCK TRUE
