CONSTANTS
  Concurrencies = {2}
  Acquirers = {a1, a2}
  Triers = {}
  r1 = r1
  r2 = r2
  Update <- MCUpdate
  Counters = {}
  Arrivers = {}
  Waiters = {}
  Coroutines <- MCCoroutines
  Desired = 0
SPECIFICATION FairSpec
PROPERTIES EveryAcquireReturns
CHECK_DEADLOCK TRUE
