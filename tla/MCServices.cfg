CONSTANTS
  p1 = p1
  p2 = p2
  Loop = loop
  Posters <- MCPosters
  Threads <- MCThreads
  Locks <- MCPosters
  Types <- MCTypes
  Coroutines <- MCCoroutines
  Programs <- MCPrograms
  Concurrencies = {0, 2}
  Duration <- MCDuration
  MaxRaise = 2
SPECIFICATION MCFairSpec
INVARIANTS OneInstance Exclusive AllOrErrors FirstOrError FiredOrCancelled CancelsItsOwn
PROPERTIES EveryPostArrives EverythingEnds
CHECK_DEADLOCK TRUE
