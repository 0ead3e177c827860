----------------------------- MODULE CoSemaphore -----------------------------
(***************************************************************************)
(* co_counting_semaphore: co_semaphore.hpp on top of CoMonitor.  Each      *)
(* coroutine performs one operation, whose steps under the mutex are those *)
(* below; CoPrimitives adds the steps of the mutex.                        *)
(***************************************************************************)
EXTENDS CoMonitor

CONSTANTS
  Acquirers,  \* coroutines that call acquire
  Triers,     \* coroutines that call try_release, which takes a permit if there is one
  Update,     \* the argument of release, for each coroutine that calls it
  Desired     \* the initial count

Releasers == DOMAIN Update

SemaphoreUsers == Acquirers \cup Triers \cup Releasers

\* A coroutine performs one operation.
ASSUME SemaphoreAssumption ==
  /\ SemaphoreUsers \subseteq Coroutines
  /\ Acquirers \cap Triers = {} /\ (Acquirers \cup Triers) \cap Releasers = {}
  /\ \A r \in Releasers : Update[r] \in Nat \ {0}
  /\ Desired \in Nat

VARIABLE count  \* _M_count of the semaphore

-----------------------------------------------------------------------------
\* Bug: off by one.
AcquireCheckNotNegative(c) ==
  /\ At(c, "inside")
  /\ c \in Acquirers
  /\ Goto(c, IF count >= 0 THEN "take" ELSE "wait")
  /\ UNCHANGED <<locked, notify, ready, running, count>>

\* The predicate of acquire.
AcquireCheck(c) ==
  /\ At(c, "inside")
  /\ c \in Acquirers
  /\ Goto(c, IF count > 0 THEN "take" ELSE "wait")
  /\ UNCHANGED <<locked, notify, ready, running, count>>

Acquire(c) ==
  /\ At(c, "take")
  /\ count' = count - 1
  /\ Goto(c, "unlock")
  /\ UNCHANGED <<locked, notify, ready, running>>

TryRelease(c) ==
  /\ At(c, "inside")
  /\ c \in Triers
  /\ count' = IF count # 0 THEN count - 1 ELSE count
  /\ Goto(c, "unlock")
  /\ UNCHANGED <<locked, notify, ready, running>>

Release(c) ==
  /\ At(c, "inside")
  /\ c \in Releasers
  /\ count' = count + Update[c]
  /\ Goto(c, "notify")
  /\ UNCHANGED <<locked, notify, ready, running>>

\* Bug: one coroutine is woken for any number of permits.
ReleaseNotifyOne(c) ==
  /\ At(c, "notify")
  /\ c \in Releasers
  /\ NotifyOne
  /\ Goto(c, "unlock")
  /\ UNCHANGED <<locked, running, count>>

ReleaseNotify(c) ==
  /\ At(c, "notify")
  /\ c \in Releasers
  /\ IF Update[c] > 1 THEN NotifyAll ELSE NotifyOne
  /\ Goto(c, "unlock")
  /\ UNCHANGED <<locked, running, count>>

SemaphoreStep(c) ==
  AcquireCheck(c) \/ Acquire(c) \/ TryRelease(c) \/ Release(c) \/ ReleaseNotify(c)

-----------------------------------------------------------------------------
\* acquire takes a permit only if there is one, also when it was woken and
\* somebody else came first: COASYNC_TERMINATE at co_condition_variable.hpp:72
\* is not reached.
PredicateHeld == \A c \in Coroutines : pc[c] = "take" => count > 0

\* The acquirers that will evaluate the predicate without a further wakeup.
Coming ==
  {c \in Acquirers : pc[c] \in {"lock", "spin", "inside", "take"}} \ ToSet(notify)

\* While somebody is registered, every free permit has an acquirer that is on
\* its way to take it: no wakeup is lost, although release wakes one coroutine
\* for one permit and newcomers may overtake the one woken (lines 57-62).
\* Without workers only: see EveryAcquireReturns.
WakeupsCover ==
  /\ concurrency = 0
  /\ ToSet(notify) \cap Acquirers # {}
  /\ \A c \in Coroutines : pc[c] # "notify"
  => count <= Cardinality(Coming)

\* When there are permits for all, every acquire returns, as the comment at
\* co_condition_variable.hpp:20-22 promises.
EveryAcquireReturns == \A c \in Acquirers : <>(pc[c] = "done")

\* The part of it that the code keeps: on the loop thread no coroutine runs
\* between the unlock and the registration of a waiter.
EveryAcquireReturnsInLoop == concurrency = 0 => EveryAcquireReturns
=============================================================================
