-------------------------- MODULE PrimitivesProofs --------------------------
(***************************************************************************)
(* Theorems about the mutex, the condition variable, the semaphore and the *)
(* latch, for any coroutines, any operations they perform and any number   *)
(* of threads; and about the channel, for any senders and receivers, any   *)
(* bound and any number of messages.                                       *)
(***************************************************************************)
EXTENDS CoPrimitives, Channel, ListFacts, FiniteSetTheorems, TLAPS

\* What the proofs need of the types.
Typed ==
  /\ locked \in BOOLEAN
  /\ pc \in [Coroutines -> Labels]
  /\ count \in Int
  /\ remaining \in Int
  /\ phase \in [Coroutines -> {"count", "wait"}]

-----------------------------------------------------------------------------
(* The mutex *)

HoldLabels == {"inside", "wait", "take", "notify", "unlock"}

\* What a step of c does to the mutex: c takes it if it is free, c gives it back,
\* or nobody comes to hold it and nobody ceases to.
Taken(c) ==
  /\ pc[c] = "lock" /\ locked' = TRUE
  /\ pc' = [pc EXCEPT ![c] = IF locked THEN "spin" ELSE "inside"]
Given(c) ==
  /\ pc[c] \in HoldLabels /\ locked' = FALSE
  /\ \E label \in Labels \ HoldLabels : pc' = [pc EXCEPT ![c] = label]
Passed(c) ==
  /\ locked' = locked
  /\ \/ pc' = pc
     \/ \E label \in Labels :
          pc' = [pc EXCEPT ![c] = label] /\ (label \in HoldLabels <=> pc[c] \in HoldLabels)

LEMMA InitExcludes == Init => Typed /\ MutualExclusion
<1> SUFFICES ASSUME Init PROVE Typed /\ MutualExclusion
  OBVIOUS
<1>1. PICK users \in {SemaphoreUsers, LatchUsers} : MonitorInit(users)
  BY DEF Init
<1>2. count \in Int /\ phase \in [Coroutines -> {"count", "wait"}]
  BY SemaphoreAssumption DEF Init, LatchInit
<1>3. remaining \in Int
  <2>1. IsFiniteSet(Counters \cup Arrivers)
    BY MonitorAssumption, LatchAssumption, FS_Subset DEF LatchUsers
  <2> QED
    BY <2>1, FS_CardinalityType DEF Init, LatchInit
<1>4. /\ locked = FALSE
      /\ pc = [c \in Coroutines |-> IF c \in users THEN "lock" ELSE "done"]
  BY <1>1 DEF MonitorInit
<1>5. \A c \in Coroutines : pc[c] \in {"lock", "done"}
  BY <1>4
<1>6. Typed
  BY <1>2, <1>3, <1>4 DEF Typed, Labels
<1>7. \A c \in Coroutines : ~Holds(c)
  BY <1>5 DEF Holds
<1> QED
  BY <1>4, <1>6, <1>7 DEF MutualExclusion

LEMMA ExclusionKept ==
  ASSUME Typed, MutualExclusion, NEW c \in Coroutines,
         Taken(c) \/ Given(c) \/ Passed(c)
  PROVE  MutualExclusion'
<1>1. CASE Taken(c) /\ locked
  <2>1. \A e \in Coroutines : Holds(e)' <=> Holds(e)
    BY <1>1 DEF Taken, Holds, Typed
  <2> QED
    BY <1>1, <2>1 DEF Taken, MutualExclusion
<1>2. CASE Taken(c) /\ ~locked
  <2>1. \A e \in Coroutines : Holds(e)' <=> e = c
    BY <1>2 DEF Taken, Holds, Typed, MutualExclusion
  <2> QED
    BY <1>2, <2>1 DEF Taken, MutualExclusion
<1>3. CASE Given(c)
  <2>1. Holds(c)
    BY <1>3 DEF Given, Holds, HoldLabels
  <2>2. \A e \in Coroutines : ~Holds(e)'
    BY <1>3, <2>1 DEF Given, Holds, HoldLabels, Typed, MutualExclusion
  <2> QED
    BY <1>3, <2>2 DEF Given, MutualExclusion
<1>4. CASE Passed(c)
  <2>1. \A e \in Coroutines : Holds(e)' <=> Holds(e)
    BY <1>4 DEF Passed, Holds, HoldLabels, Typed
  <2> QED
    BY <1>4, <2>1 DEF Passed, MutualExclusion
<1> QED
  BY <1>1, <1>2, <1>3, <1>4

LEMMA StepTyped ==
  ASSUME Typed, NEW c \in Coroutines, Step(c)
  PROVE  Typed' /\ (Taken(c) \/ Given(c) \/ Passed(c))
<1> USE DEF Typed, Labels, HoldLabels, At, Goto
<1>1. CASE TryLock(c) /\ UNCHANGED <<count, remaining, phase>>
  BY <1>1 DEF TryLock, Taken
<1>2. CASE SpinEnd(c) /\ UNCHANGED <<count, remaining, phase>>
  BY <1>2 DEF SpinEnd, Passed
<1>3. CASE SpinYield(c) /\ UNCHANGED <<count, remaining, phase>>
  BY <1>3 DEF SpinYield, Passed
<1>4. CASE WaitUnlock(c) /\ UNCHANGED <<count, remaining, phase>>
  BY <1>4 DEF WaitUnlock, Given
<1>5. CASE WaitRegister(c) /\ UNCHANGED <<count, remaining, phase>>
  BY <1>5 DEF WaitRegister, Passed
<1>6. CASE WaitSuspend(c) /\ UNCHANGED <<count, remaining, phase>>
  BY <1>6 DEF WaitSuspend, Passed
<1>7. CASE AcquireCheck(c) /\ UNCHANGED <<remaining, phase>>
  BY <1>7 DEF AcquireCheck, Passed
<1>8. CASE Acquire(c) /\ UNCHANGED <<remaining, phase>>
  BY <1>8 DEF Acquire, Passed
<1>9. CASE TryRelease(c) /\ UNCHANGED <<remaining, phase>>
  BY <1>9 DEF TryRelease, Passed
<1>10. CASE Release(c) /\ UNCHANGED <<remaining, phase>>
  BY <1>10, SemaphoreAssumption DEF Release, Passed
<1>11. CASE ReleaseNotify(c) /\ UNCHANGED <<remaining, phase>>
  BY <1>11 DEF ReleaseNotify, Passed
<1>12. CASE CountDown(c) /\ UNCHANGED count
  <2>1. PICK label \in {"notify", "unlock"} : pc' = [pc EXCEPT ![c] = label]
    BY <1>12 DEF CountDown
  <2>2. Passed(c)
    BY <1>12, <2>1 DEF CountDown, Passed
  <2> QED
    BY <1>12, <2>1, <2>2 DEF CountDown
<1>13. CASE CountNotify(c) /\ UNCHANGED count
  BY <1>13 DEF CountNotify, Passed
<1>14. CASE WaitCheck(c) /\ UNCHANGED count
  BY <1>14 DEF WaitCheck, Passed
<1>15. CASE ThenWait(c) /\ UNCHANGED count
  BY <1>15 DEF ThenWait, Unlock, Given
<1>16. CASE Finish(c)
  BY <1>16 DEF Finish, Leave, Unlock, Given
<1> QED
  BY <1>1, <1>2, <1>3, <1>4, <1>5, <1>6, <1>7, <1>8, <1>9, <1>10, <1>11, <1>12,
     <1>13, <1>14, <1>15, <1>16
  DEF Step, MonitorStep, SemaphoreStep, LatchStep

LEMMA ExclusionNext ==
  ASSUME Typed, MutualExclusion, [Next]_vars
  PROVE  Typed' /\ MutualExclusion'
<1>1. CASE \E c \in Coroutines : Step(c)
  BY <1>1, StepTyped, ExclusionKept
<1>2. CASE /\ UNCHANGED <<count, remaining, phase>>
           /\ UNCHANGED <<locked, pc>>
  BY <1>2 DEF Typed, MutualExclusion, Holds
<1>3. ASSUME NEW c \in Coroutines, ResumeAny(c)
      PROVE  UNCHANGED <<count, remaining, phase, locked, pc>>
  BY <1>3 DEF ResumeAny, Resume
<1>4. Idle /\ UNCHANGED <<count, remaining, phase>>
     => UNCHANGED <<count, remaining, phase, locked, pc>>
  BY DEF Idle, monitorVars
<1> QED
  BY <1>1, <1>2, <1>3, <1>4 DEF Next, vars, monitorVars

\* At most one coroutine is between lock() and unlock(), and the mutex is locked
\* exactly while there is one, also across wait() (co_mutex.hpp:56-77,
\* co_condition_variable.hpp:59,68).
THEOREM Exclusion == Spec => []MutualExclusion
<1>1. Typed /\ MutualExclusion /\ [Next]_vars => (Typed /\ MutualExclusion)'
  BY ExclusionNext
<1> QED
  BY <1>1, InitExcludes, PTL DEF Spec

-----------------------------------------------------------------------------
(* The semaphore *)

LEMMA OthersStay ==
  ASSUME Typed, NEW c \in Coroutines, Step(c), NEW d \in Coroutines, d # c
  PROVE  pc'[d] = pc[d]
<1>1. Taken(c) \/ Given(c) \/ Passed(c)
  BY StepTyped
<1> QED
  BY <1>1 DEF Taken, Given, Passed, Typed

\* Every action by what it does to the count and to who takes a permit.
LEMMA StepPermits ==
  ASSUME Typed, PredicateHeld, NEW c \in Coroutines, Step(c)
  PROVE  /\ pc'[c] = "take" => count' > 0
         /\ count' >= count \/ Holds(c)
<1> USE DEF Typed, Labels, Holds, At, Goto
<1>1. CASE MonitorStep(c) /\ UNCHANGED <<count, remaining, phase>>
  BY <1>1
  DEF MonitorStep, TryLock, SpinEnd, SpinYield, WaitUnlock, WaitRegister, WaitSuspend,
      PredicateHeld
<1>2. CASE AcquireCheck(c)
  BY <1>2 DEF AcquireCheck
<1>3. CASE Acquire(c)
  BY <1>3 DEF Acquire
<1>4. CASE TryRelease(c)
  BY <1>4 DEF TryRelease
<1>5. CASE Release(c)
  BY <1>5, SemaphoreAssumption DEF Release
<1>6. CASE ReleaseNotify(c)
  BY <1>6 DEF ReleaseNotify
<1>7. CASE CountDown(c) /\ UNCHANGED count
  <2>1. PICK label \in {"notify", "unlock"} : pc' = [pc EXCEPT ![c] = label]
    BY <1>7 DEF CountDown
  <2> QED
    BY <1>7, <2>1
<1>8. CASE (CountNotify(c) \/ WaitCheck(c) \/ ThenWait(c)) /\ UNCHANGED count
  BY <1>8 DEF CountNotify, WaitCheck, ThenWait
<1>9. CASE Finish(c)
  BY <1>9 DEF Finish, Leave
<1> QED
  BY <1>1, <1>2, <1>3, <1>4, <1>5, <1>6, <1>7, <1>8, <1>9
  DEF Step, SemaphoreStep, LatchStep

LEMMA PredicateKept ==
  ASSUME Typed, MutualExclusion, PredicateHeld, [Next]_vars
  PROVE  PredicateHeld'
<1>1. ASSUME NEW c \in Coroutines, Step(c)
      PROVE  PredicateHeld'
  <2>1. pc'[c] = "take" => count' > 0
    BY <1>1, StepPermits
  <2>2. ASSUME NEW d \in Coroutines, d # c, pc'[d] = "take"
        PROVE  count' > 0
    <3>1. pc[d] = "take" /\ count > 0
      BY <1>1, <2>2, OthersStay DEF PredicateHeld
    <3>2. ~Holds(c)
      BY <2>2, <3>1 DEF MutualExclusion, Holds
    <3>3. count' >= count
      BY <1>1, <3>2, StepPermits
    <3>4. Typed'
      BY <1>1, StepTyped
    <3> QED
      BY <3>1, <3>3, <3>4 DEF Typed
  <2> QED
    BY <2>1, <2>2 DEF PredicateHeld
<1>2. CASE UNCHANGED <<count, pc>>
  BY <1>2 DEF PredicateHeld
<1> QED
  BY <1>1, <1>2 DEF Next, ResumeAny, Resume, Idle, vars, monitorVars

\* acquire takes a permit only if there is one, although the check and the
\* decrement are two steps and other coroutines take and give permits
\* (co_semaphore.hpp:44-49): COASYNC_TERMINATE of co_condition_variable.hpp:72
\* is never reached.
THEOREM PermitExists == Spec => []PredicateHeld
<1>1. Init => PredicateHeld
  BY DEF Init, MonitorInit, PredicateHeld
<1> QED
  BY <1>1, InitExcludes, ExclusionNext, PredicateKept, PTL DEF Spec

-----------------------------------------------------------------------------
(* The latch *)

\* The coroutines that still have to count down.
Missing ==
  {d \in Counters \cup Arrivers :
     phase[d] = "count" /\ pc[d] \notin {"notify", "unlock", "done"}}

\* c has found the latch open.
Passes(c) == phase[c] = "wait" /\ pc[c] \in {"unlock", "done"}

\* What a coroutine may do follows from the operation it calls.
Role(c) ==
  /\ phase[c] = "wait" => c \in LatchUsers
  /\ phase[c] = "count" /\ c \in LatchUsers => c \in Counters \cup Arrivers
  /\ pc[c] = "notify" => phase[c] = "count"
  /\ pc[c] = "take" => c \in Acquirers

\* The count covers those that are missing, and nobody passes before it is zero.
LatchInv ==
  /\ \A c \in Coroutines : Role(c)
  /\ Cardinality(Missing) <= remaining
  /\ \A c \in Coroutines : Passes(c) => Missing = {}

LEMMA MissingFinite == IsFiniteSet(Missing)
<1>1. Missing \subseteq Coroutines
  BY LatchAssumption DEF Missing, LatchUsers
<1> QED
  BY <1>1, MonitorAssumption, FS_Subset

LEMMA InitLatch == Init => LatchInv
<1> SUFFICES ASSUME Init PROVE LatchInv
  OBVIOUS
<1>1. PICK users \in {SemaphoreUsers, LatchUsers} : MonitorInit(users)
  BY DEF Init
<1>2. /\ pc = [c \in Coroutines |-> IF c \in users THEN "lock" ELSE "done"]
      /\ phase = [c \in Coroutines |-> IF c \in Waiters THEN "wait" ELSE "count"]
      /\ remaining = Cardinality(Counters \cup Arrivers)
  BY <1>1 DEF MonitorInit, Init, LatchInit
<1>3. \A c \in Coroutines : Role(c)
  BY <1>2 DEF Role, LatchUsers
<1>4. Cardinality(Missing) <= remaining
  <2>1. IsFiniteSet(Counters \cup Arrivers)
    BY MonitorAssumption, LatchAssumption, FS_Subset DEF LatchUsers
  <2>2. Missing \subseteq Counters \cup Arrivers
    BY DEF Missing
  <2> QED
    BY <1>2, <2>1, <2>2, FS_Subset
<1>5. ASSUME NEW c \in Coroutines, Passes(c) PROVE Missing = {}
  <2>1. users = SemaphoreUsers
    BY <1>2, <1>5 DEF Passes, LatchUsers
  <2> QED
    BY <1>2, <2>1, UsersAssumption, LatchAssumption DEF Missing, LatchUsers
<1> QED
  BY <1>3, <1>4, <1>5 DEF LatchInv

\* Every action by what it does to the coroutine that takes it and to the count.
LEMMA StepLatch ==
  ASSUME Typed, LatchInv, NEW c \in Coroutines, Step(c)
  PROVE  /\ Role(c)'
         /\ \A d \in Coroutines \ {c} : phase'[d] = phase[d]
         /\ c \notin Missing => c \notin Missing'
         /\ \/ remaining' = remaining
            \/ remaining' = remaining - 1 /\ c \in Missing /\ c \notin Missing'
         /\ Passes(c)' => Passes(c) \/ (remaining = 0 /\ remaining' = 0)
<1> USE DEF Typed, Labels, At, Goto, Role, Passes, Missing
<1>1. Role(c)
  BY DEF LatchInv
<1>2. c \in SemaphoreUsers => c \notin LatchUsers /\ phase[c] = "count"
  BY <1>1, UsersAssumption
<1>3. CASE MonitorStep(c) /\ UNCHANGED <<count, remaining, phase>>
  BY <1>1, <1>3
  DEF MonitorStep, TryLock, SpinEnd, SpinYield, WaitUnlock, WaitRegister, WaitSuspend
<1>4. CASE SemaphoreStep(c) /\ UNCHANGED <<remaining, phase>>
  BY <1>1, <1>2, <1>4
  DEF SemaphoreStep, AcquireCheck, Acquire, TryRelease, Release, ReleaseNotify,
      SemaphoreUsers, LatchUsers
<1>5. CASE CountDown(c)
  <2>1. PICK label \in {"notify", "unlock"} : pc' = [pc EXCEPT ![c] = label]
    BY <1>5 DEF CountDown
  <2> QED
    BY <1>1, <1>5, <2>1 DEF CountDown
<1>6. CASE CountNotify(c)
  BY <1>1, <1>6 DEF CountNotify
<1>7. CASE WaitCheck(c)
  <2>1. PICK label \in {"wait", "unlock"} :
          pc' = [pc EXCEPT ![c] = label] /\ (label = "unlock" => remaining = 0)
    BY <1>7 DEF WaitCheck
  <2> QED
    BY <1>1, <1>7, <2>1 DEF WaitCheck
<1>8. CASE ThenWait(c)
  BY <1>1, <1>8 DEF ThenWait, Unlock, LatchUsers
<1>9. CASE Finish(c)
  BY <1>1, <1>9 DEF Finish, Leave, Unlock
<1> QED
  BY <1>3, <1>4, <1>5, <1>6, <1>7, <1>8, <1>9 DEF Step, LatchStep

LEMMA LatchKept ==
  ASSUME Typed, LatchInv, NEW c \in Coroutines, Step(c)
  PROVE  LatchInv'
<1>1. \A d \in Coroutines \ {c} : pc'[d] = pc[d] /\ phase'[d] = phase[d]
  BY OthersStay, StepLatch
<1>2. \A d \in Coroutines : Role(d)'
  BY <1>1, StepLatch DEF LatchInv, Role
<1>3. Missing' \subseteq Missing
  <2> SUFFICES ASSUME NEW d \in Missing' PROVE d \in Missing
    OBVIOUS
  <2>1. CASE d = c
    BY <2>1, StepLatch
  <2>2. CASE d # c
    BY <1>1, <2>2, LatchAssumption DEF Missing, LatchUsers
  <2> QED
    BY <2>1, <2>2
<1>4. IsFiniteSet(Missing) /\ IsFiniteSet(Missing')
  BY <1>3, MissingFinite, FS_Subset
<1>5. Cardinality(Missing) \in Nat /\ Cardinality(Missing') \in Nat
  BY <1>4, FS_CardinalityType
<1>6. Cardinality(Missing') <= remaining'
  <2>1. CASE remaining' = remaining
    <3>1. Cardinality(Missing') <= Cardinality(Missing)
      BY <1>3, <1>4, FS_Subset
    <3> QED
      BY <1>5, <2>1, <3>1 DEF LatchInv, Typed
  <2>2. CASE remaining' = remaining - 1 /\ c \in Missing /\ c \notin Missing'
    <3>1. Cardinality(Missing \ {c}) = Cardinality(Missing) - 1
      BY <1>4, <2>2, FS_RemoveElement
    <3>2. IsFiniteSet(Missing \ {c}) /\ Missing' \subseteq Missing \ {c}
      BY <1>3, <1>4, <2>2, FS_Subset
    <3>3. Cardinality(Missing') <= Cardinality(Missing \ {c})
      BY <3>2, FS_Subset
    <3> QED
      BY <1>5, <2>2, <3>1, <3>3 DEF LatchInv, Typed
  <2> QED
    BY <2>1, <2>2, StepLatch
<1>7. ASSUME NEW d \in Coroutines, Passes(d)' PROVE Missing' = {}
  <2>1. CASE Passes(d)
    BY <1>3, <2>1 DEF LatchInv
  <2>2. CASE ~Passes(d)
    <3>1. d = c
      BY <1>1, <1>7, <2>2 DEF Passes
    <3>2. remaining' = 0
      BY <1>7, <2>2, <3>1, StepLatch
    <3>3. Cardinality(Missing') = 0
      BY <1>5, <1>6, <3>2
    <3> QED
      BY <1>4, <3>3, FS_EmptySet
  <2> QED
    BY <2>1, <2>2
<1> QED
  BY <1>2, <1>6, <1>7 DEF LatchInv

LEMMA LatchNext ==
  ASSUME Typed, LatchInv, [Next]_vars
  PROVE  LatchInv'
<1>1. CASE \E c \in Coroutines : Step(c)
  BY <1>1, LatchKept
<1>2. CASE UNCHANGED <<pc, remaining, phase>>
  BY <1>2 DEF LatchInv, Role, Missing, Passes
<1> QED
  BY <1>1, <1>2 DEF Next, ResumeAny, Resume, Idle, vars, monitorVars

\* Nobody passes the latch before everybody has counted down, however counting,
\* waiting and the wakeups interleave (co_latch.hpp:27-63).
THEOREM LatchBarrier == Spec => []Barrier
<1>1. Typed /\ MutualExclusion /\ LatchInv /\ [Next]_vars
        => (Typed /\ MutualExclusion /\ LatchInv)'
  BY ExclusionNext, LatchNext
<1>2. Typed /\ LatchInv => Barrier
  BY LatchAssumption DEF Typed, LatchInv, Passes, Missing, Barrier, LatchUsers
<1> QED
  BY <1>1, <1>2, InitExcludes, InitLatch, PTL DEF Spec

-----------------------------------------------------------------------------
(* Handles *)

\* The inductive form of OnePlace.
Placed ==
  /\ Typed
  /\ notify \in Seq(Coroutines)
  /\ ready \subseteq Coroutines
  /\ OnePlace

LEMMA NotifyOnePlaced ==
  ASSUME Placed, NotifyOne
  PROVE  /\ notify' \in Seq(Coroutines) /\ IsInjective(notify')
         /\ ready' \subseteq Coroutines
         /\ ready' \cup ToSet(notify') = ready \cup ToSet(notify)
         /\ ToSet(notify') \cap ready' = {}
<1>1. CASE UNCHANGED <<notify, ready>>
  BY <1>1 DEF Placed, OnePlace
<1>2. CASE notify # <<>> /\ ready' = ready \cup {Head(notify)} /\ notify' = Tail(notify)
  <2>1. /\ Head(notify) \in ToSet(notify) \cap Coroutines
        /\ Tail(notify) \in Seq(Coroutines)
        /\ ToSet(Tail(notify)) = ToSet(notify) \ {Head(notify)}
        /\ IsInjective(Tail(notify))
    BY <1>2, ListTail DEF Placed, OnePlace
  <2> QED
    BY <1>2, <2>1 DEF Placed, OnePlace
<1> QED
  BY <1>1, <1>2 DEF NotifyOne

LEMMA NotifyAllPlaced ==
  ASSUME Placed, NotifyAll
  PROVE  /\ notify' \in Seq(Coroutines) /\ IsInjective(notify')
         /\ ready' \subseteq Coroutines
         /\ ready' \cup ToSet(notify') = ready \cup ToSet(notify)
         /\ ToSet(notify') \cap ready' = {}
<1>1. ToSet(notify) \subseteq Coroutines
  BY DEF Placed, ToSet
<1> QED
  BY <1>1, ListEmpty DEF NotifyAll, Placed, OnePlace

\* A step that leaves ready and the list as a whole alone keeps the order if it is
\* made by a coroutine that runs, does not finish and does not suspend.
LEMMA PlacedStay ==
  ASSUME Placed, Typed', NEW c \in running, pc[c] \notin {"suspend", "done"},
         pc'[c] \notin {"suspend", "done"},
         \A d \in Coroutines \ {c} : pc'[d] = pc[d],
         notify' \in Seq(Coroutines), IsInjective(notify'),
         ready' \subseteq Coroutines, running' = running,
         ready' \cup ToSet(notify') = ready \cup ToSet(notify),
         ToSet(notify') \cap ready' = {}
  PROVE  Placed'
BY DEF Placed, OnePlace

LEMMA PlacedStep ==
  ASSUME Placed, NEW c \in Coroutines, Step(c)
  PROVE  Placed'
<1> USE DEF At, Goto
<1>1. Typed /\ Typed' /\ \A d \in Coroutines \ {c} : pc'[d] = pc[d]
  BY StepTyped, OthersStay DEF Placed
<1>2. CASE UNCHANGED <<notify, ready, running>> /\ c \in running
           /\ pc[c] \notin {"suspend", "done"} /\ pc'[c] \notin {"suspend", "done"}
  BY <1>1, <1>2, PlacedStay DEF Placed, OnePlace
<1>3. CASE SpinYield(c)
  BY <1>1, <1>3 DEF SpinYield, Placed, OnePlace
<1>4. CASE WaitRegister(c)
  <2>1. c \notin ToSet(notify) \cup ready
    BY <1>4 DEF WaitRegister, Placed, OnePlace
  <2>2. /\ notify' \in Seq(Coroutines) /\ IsInjective(notify')
        /\ ToSet(notify') = {c} \cup ToSet(notify)
    BY <1>4, <2>1, ListPrepend DEF WaitRegister, Placed, OnePlace
  <2>3. pc'[c] = "suspend"
    BY <1>1, <1>4 DEF WaitRegister, Typed
  <2> QED
    BY <1>1, <1>4, <2>1, <2>2, <2>3 DEF WaitRegister, Placed, OnePlace
<1>5. CASE WaitSuspend(c)
  <2>1. pc'[c] = "lock"
    BY <1>1, <1>5 DEF WaitSuspend, Typed
  <2> QED
    BY <1>1, <1>5, <2>1 DEF WaitSuspend, Placed, OnePlace
<1>6. CASE ReleaseNotify(c) \/ CountNotify(c)
  <2>1. /\ c \in running /\ running' = running
        /\ pc[c] = "notify" /\ pc'[c] = "unlock"
        /\ NotifyOne \/ NotifyAll
    BY <1>1, <1>6 DEF ReleaseNotify, CountNotify, Typed
  <2> QED
    BY <1>1, <2>1, NotifyOnePlaced, NotifyAllPlaced, PlacedStay
<1>7. CASE Finish(c)
  <2>1. pc'[c] = "done"
    BY <1>1, <1>7 DEF Finish, Leave, Typed
  <2> QED
    BY <1>1, <1>7, <2>1 DEF Finish, Leave, Unlock, Placed, OnePlace
<1>8. CASE TryLock(c) \/ SpinEnd(c) \/ WaitUnlock(c)
  BY <1>1, <1>2, <1>8 DEF TryLock, SpinEnd, WaitUnlock, Typed
<1>9. CASE AcquireCheck(c) \/ Acquire(c) \/ TryRelease(c) \/ Release(c)
  BY <1>1, <1>2, <1>9 DEF AcquireCheck, Acquire, TryRelease, Release, Typed
<1>10. CASE CountDown(c)
  <2>1. PICK label \in {"notify", "unlock"} : pc' = [pc EXCEPT ![c] = label]
    BY <1>10 DEF CountDown
  <2> QED
    BY <1>1, <1>2, <1>10, <2>1 DEF CountDown, Typed
<1>11. CASE WaitCheck(c) \/ ThenWait(c)
  BY <1>1, <1>2, <1>11 DEF WaitCheck, ThenWait, Unlock, Typed
<1> QED
  BY <1>3, <1>4, <1>5, <1>6, <1>7, <1>8, <1>9, <1>10, <1>11
  DEF Step, MonitorStep, SemaphoreStep, LatchStep

LEMMA PlacedNext ==
  ASSUME Placed, [Next]_vars
  PROVE  Placed'
<1>1. CASE \E c \in Coroutines : Step(c)
  BY <1>1, PlacedStep
<1>2. ASSUME NEW c \in Coroutines, ResumeAny(c)
      PROVE  Placed'
  BY <1>2 DEF ResumeAny, Resume, Placed, OnePlace, Typed
<1>3. CASE UNCHANGED <<locked, pc, count, remaining, phase, notify, ready, running>>
  BY <1>3 DEF Placed, OnePlace, Typed
<1> QED
  BY <1>1, <1>2, <1>3 DEF Next, Idle, vars, monitorVars

LEMMA InitPlaced == Init => Placed
<1> SUFFICES ASSUME Init PROVE Placed
  OBVIOUS
<1>1. PICK users \in {SemaphoreUsers, LatchUsers} : MonitorInit(users)
  BY DEF Init
<1>2. users \subseteq Coroutines
  BY SemaphoreAssumption, LatchAssumption
<1>3. \A c \in Coroutines : pc[c] \in {"lock", "done"} /\ (pc[c] = "done" <=> c \notin users)
  BY <1>1 DEF MonitorInit
<1> QED
  BY <1>1, <1>2, <1>3, InitExcludes, ListEmpty DEF MonitorInit, Placed, OnePlace

\* A coroutine that has not finished has one handle, in the executor or in the list
\* of the condition variable, or it runs: no handle is lost or resumed twice by any
\* order of registering, notifying and suspending (co_condition_variable.hpp:54-109,
\* co_mutex.hpp:56-77).
THEOREM NoHandleLost == Spec => []OnePlace
<1>1. Placed => OnePlace
  BY DEF Placed
<1> QED
  BY <1>1, InitPlaced, PlacedNext, PTL DEF Spec

-----------------------------------------------------------------------------
(* Wakeups, on the loop thread *)

\* Without workers one coroutine runs at a time and keeps the thread until it waits or
\* finishes, so lock() never spins: the mutex is free whenever a coroutine asks for it.
Single ==
  concurrency = 0 =>
    /\ running \subseteq Coroutines /\ \A c, d \in running : c = d
    /\ \A c \in Coroutines :
         pc[c] \in {"lock", "done"} \/ (c \in running /\ pc[c] # "spin")

\* Either the semaphore is used or the latch; acquirers wait and take, releasers notify.
Sides ==
  /\ (\A c \in SemaphoreUsers : pc[c] = "done") \/ (\A c \in LatchUsers : pc[c] = "done")
  /\ \A c \in Coroutines :
       /\ pc[c] \in {"wait", "register", "suspend"} \/ c \in ToSet(notify) =>
            c \in Acquirers \cup LatchUsers
       /\ pc[c] = "notify" => c \in Releasers \cup LatchUsers
       /\ pc[c] = "take" => c \in Acquirers

Waiting == ToSet(notify) \cap Acquirers

\* WakeupsCover, with the permits for which a release is about to notify, and with the
\* count that an acquirer has seen before it registers.
Covered ==
  concurrency = 0 =>
    /\ \A c \in Acquirers : pc[c] \in {"wait", "register"} => count <= 0
    /\ Waiting # {} =>
         \/ count <= Cardinality(Coming)
         \/ \E c \in Releasers : pc[c] = "notify" /\ count - Update[c] <= Cardinality(Coming)

LEMMA SingleStep ==
  ASSUME Placed, MutualExclusion, Single, NEW c \in Coroutines, Step(c)
  PROVE  Single'
<1> SUFFICES ASSUME concurrency = 0 PROVE Single'
  BY DEF Step, Single
<1>1. Typed /\ \A d \in Coroutines \ {c} : pc'[d] = pc[d]
  BY OthersStay DEF Placed
<1>2. /\ running \subseteq Coroutines /\ \A d, e \in running : d = e
      /\ \A d \in Coroutines : pc[d] \in {"lock", "done"} \/ (d \in running /\ pc[d] # "spin")
  BY DEF Single
<1>3. pc[c] # "spin"
  BY <1>2
<1>4. pc[c] = "lock" /\ c \in running => ~locked
  BY <1>2 DEF MutualExclusion, Holds
<1> USE DEF At, Goto, Typed
<1>5. \/ running' = running /\ c \in running /\ pc'[c] # "spin"
      \/ running' \subseteq running /\ running \subseteq running' \cup {c}
         /\ pc'[c] \in {"lock", "done"}
  <2>1. CASE TryLock(c) \/ SpinEnd(c) \/ SpinYield(c)
    BY <1>1, <1>3, <1>4, <2>1 DEF TryLock, SpinEnd, SpinYield
  <2>2. CASE WaitUnlock(c) \/ WaitRegister(c) \/ WaitSuspend(c)
    BY <1>1, <2>2 DEF WaitUnlock, WaitRegister, WaitSuspend
  <2>3. CASE SemaphoreStep(c)
    BY <1>1, <2>3
    DEF SemaphoreStep, AcquireCheck, Acquire, TryRelease, Release, ReleaseNotify
  <2>4. CASE CountDown(c)
    <3>1. PICK label \in {"notify", "unlock"} : pc' = [pc EXCEPT ![c] = label]
      BY <2>4 DEF CountDown
    <3> QED
      BY <1>1, <2>4, <3>1 DEF CountDown
  <2>5. CASE CountNotify(c) \/ WaitCheck(c) \/ ThenWait(c)
    BY <1>1, <2>5 DEF CountNotify, WaitCheck, ThenWait, Unlock
  <2>6. CASE Finish(c)
    BY <1>1, <2>6 DEF Finish, Leave, Unlock
  <2> QED
    BY <2>1, <2>2, <2>3, <2>4, <2>5, <2>6 DEF Step, MonitorStep, LatchStep
<1> QED
  BY <1>1, <1>2, <1>5 DEF Single

LEMMA SingleResume ==
  ASSUME Placed, Single, NEW c \in Coroutines, ResumeAny(c)
  PROVE  Single'
<1> SUFFICES ASSUME concurrency = 0 PROVE Single'
  BY DEF ResumeAny, Single
<1>1. running \subseteq Coroutines /\ Cardinality(running) < 1
  BY DEF ResumeAny, Resume, NumThreads, Single
<1>2. IsFiniteSet(running)
  BY <1>1, MonitorAssumption, FS_Subset
<1>3. running = {}
  BY <1>1, <1>2, FS_CardinalityType, FS_EmptySet
<1> QED
  BY <1>3 DEF ResumeAny, Resume, Single

\* Every action by the labels between which it takes the coroutine.
LEMMA StepSides ==
  ASSUME Placed, Sides, NEW c \in Coroutines, Step(c)
  PROVE  /\ c \in running /\ pc[c] # "done"
         /\ pc'[c] \in {"wait", "register", "suspend"} => c \in Acquirers \cup LatchUsers
         /\ pc'[c] = "notify" => c \in Releasers \cup LatchUsers
         /\ pc'[c] = "take" => c \in Acquirers
         /\ \/ ToSet(notify') \subseteq ToSet(notify)
            \/ pc[c] = "register" /\ ToSet(notify') = ToSet(notify) \cup {c}
<1> USE DEF At, Goto, Typed
<1>1. Typed
  BY DEF Placed
<1>2. CASE TryLock(c) \/ SpinEnd(c) \/ SpinYield(c) \/ WaitUnlock(c) \/ WaitSuspend(c)
  BY <1>1, <1>2 DEF TryLock, SpinEnd, SpinYield, WaitUnlock, WaitSuspend, Sides
<1>3. CASE WaitRegister(c)
  <2>1. c \notin ToSet(notify)
    BY <1>3 DEF WaitRegister, Placed, OnePlace
  <2>2. ToSet(notify') = {c} \cup ToSet(notify)
    BY <1>3, <2>1, ListPrepend DEF WaitRegister, Placed, OnePlace
  <2> QED
    BY <1>1, <1>3, <2>2 DEF WaitRegister, Sides
<1>4. CASE AcquireCheck(c) \/ Acquire(c) \/ TryRelease(c) \/ Release(c)
  BY <1>1, <1>4 DEF AcquireCheck, Acquire, TryRelease, Release
<1>5. CASE ReleaseNotify(c) \/ CountNotify(c)
  <2>1. NotifyOne \/ NotifyAll
    BY <1>5 DEF ReleaseNotify, CountNotify
  <2>2. ready' \cup ToSet(notify') = ready \cup ToSet(notify) /\ ready \subseteq ready'
    BY <2>1, NotifyOnePlaced, NotifyAllPlaced DEF NotifyOne, NotifyAll
  <2>3. ToSet(notify') \cap ready' = {}
    BY <2>1, NotifyOnePlaced, NotifyAllPlaced
  <2> QED
    BY <1>1, <1>5, <2>2, <2>3 DEF ReleaseNotify, CountNotify
<1>6. CASE CountDown(c)
  <2>1. PICK label \in {"notify", "unlock"} : pc' = [pc EXCEPT ![c] = label]
    BY <1>6 DEF CountDown
  <2> QED
    BY <1>1, <1>6, <2>1 DEF CountDown
<1>7. CASE WaitCheck(c) \/ ThenWait(c)
  BY <1>1, <1>7 DEF WaitCheck, ThenWait, Unlock
<1>8. CASE Finish(c)
  BY <1>1, <1>8 DEF Finish, Leave, Unlock
<1> QED
  BY <1>2, <1>3, <1>4, <1>5, <1>6, <1>7, <1>8 DEF Step, MonitorStep, SemaphoreStep, LatchStep

LEMMA SidesStep ==
  ASSUME Placed, Sides, NEW c \in Coroutines, Step(c)
  PROVE  Sides'
<1>1. \A d \in Coroutines \ {c} : pc'[d] = pc[d]
  BY OthersStay DEF Placed
<1>2. pc[c] # "done"
  BY StepSides
<1>3. (\A d \in SemaphoreUsers : pc'[d] = "done") \/ (\A d \in LatchUsers : pc'[d] = "done")
  BY <1>1, <1>2, UsersAssumption, SemaphoreAssumption, LatchAssumption DEF Sides
<1>4. ASSUME NEW d \in Coroutines,
             pc'[d] \in {"wait", "register", "suspend"} \/ d \in ToSet(notify')
      PROVE  d \in Acquirers \cup LatchUsers
  BY <1>1, <1>4, StepSides DEF Sides
<1>5. ASSUME NEW d \in Coroutines
      PROVE  /\ pc'[d] = "notify" => d \in Releasers \cup LatchUsers
             /\ pc'[d] = "take" => d \in Acquirers
  BY <1>1, StepSides DEF Sides
<1> QED
  BY <1>3, <1>4, <1>5 DEF Sides

LEMMA ComingFinite == IsFiniteSet(Coming) /\ Cardinality(Coming) \in Nat
<1>1. Coming \subseteq Coroutines
  BY SemaphoreAssumption DEF Coming, SemaphoreUsers
<1> QED
  BY <1>1, MonitorAssumption, FS_Subset, FS_CardinalityType

\* A step of c that registers nobody, frees no permit and takes no acquirer off its way.
LEMMA CoveredStay ==
  ASSUME Covered, Typed, Typed', NEW c \in Coroutines,
         \A d \in Coroutines \ {c} : pc'[d] = pc[d],
         pc[c] # "notify", concurrency' = concurrency,
         c \in Acquirers /\ pc'[c] \in {"wait", "register"} => pc[c] \in {"wait", "register"},
         ToSet(notify') \cap Acquirers \subseteq Waiting, count' <= count, Coming \subseteq Coming'
  PROVE  Covered'
<1> SUFFICES ASSUME concurrency = 0 PROVE Covered'
  BY DEF Covered
<1>1. IsFiniteSet(Coming') /\ Cardinality(Coming) <= Cardinality(Coming')
  <2>1. Coming' \subseteq Coroutines
    BY SemaphoreAssumption DEF Coming, SemaphoreUsers
  <2>2. IsFiniteSet(Coming')
    BY <2>1, MonitorAssumption, FS_Subset
  <2> QED
    BY <2>2, FS_Subset
<1>2. Cardinality(Coming) \in Nat /\ Cardinality(Coming') \in Nat
  BY <1>1, ComingFinite, FS_CardinalityType
<1>3. /\ count \in Int /\ count' \in Int
      /\ Acquirers \subseteq Coroutines /\ Releasers \subseteq Coroutines
      /\ \A d \in Releasers : Update[d] \in Int
  BY SemaphoreAssumption DEF Typed, SemaphoreUsers
<1>4. \A d \in Acquirers : pc'[d] \in {"wait", "register"} => count' <= 0
  BY <1>3 DEF Covered
<1>5. ASSUME Waiting' # {}
      PROVE  \/ count' <= Cardinality(Coming')
             \/ \E d \in Releasers : pc'[d] = "notify" /\ count' - Update[d] <= Cardinality(Coming')
  <2>1. Waiting # {}
    BY <1>5 DEF Waiting
  <2>2. CASE count <= Cardinality(Coming)
    BY <1>1, <1>2, <1>3, <2>2
  <2>3. ASSUME NEW d \in Releasers, pc[d] = "notify", count - Update[d] <= Cardinality(Coming)
        PROVE  pc'[d] = "notify" /\ count' - Update[d] <= Cardinality(Coming')
    BY <1>1, <1>2, <1>3, <2>3
  <2> QED
    BY <2>1, <2>2, <2>3 DEF Covered
<1> QED
  BY <1>4, <1>5 DEF Covered

LEMMA ReleaseNotifyCovered ==
  ASSUME Placed, MutualExclusion, Single, Sides, Covered, concurrency = 0,
         NEW c \in Coroutines, ReleaseNotify(c), \A d \in Coroutines \ {c} : pc'[d] = pc[d]
  PROVE  Waiting' # {} => count' <= Cardinality(Coming')
<1> SUFFICES ASSUME Waiting' # {} PROVE count <= Cardinality(Coming')
  BY DEF ReleaseNotify
<1>1. /\ c \in running /\ pc[c] = "notify" /\ c \in Releasers
      /\ NotifyOne \/ (Update[c] > 1 /\ NotifyAll)
  BY DEF ReleaseNotify, At
<1>2. ~NotifyAll
  BY ListEmpty DEF NotifyAll, Waiting
<1>3. notify # <<>> /\ notify' = Tail(notify)
  BY <1>1, <1>2, ListEmpty DEF NotifyOne, Waiting
<1>4. /\ Head(notify) \in ToSet(notify) \cap Coroutines
      /\ ToSet(notify') = ToSet(notify) \ {Head(notify)}
  BY <1>3, ListTail DEF Placed, OnePlace
<1> SUFFICES ASSUME NEW h \in Coroutines, h = Head(notify) PROVE count <= Cardinality(Coming')
  BY <1>4
<1>5. PICK a \in Acquirers : a \in ToSet(notify)
  BY <1>4 DEF Waiting
<1>6. h \in Acquirers
  <2>1. pc[a] # "done" /\ pc[h] # "done" /\ a \in SemaphoreUsers /\ a \in Coroutines
    BY <1>4, <1>5, SemaphoreAssumption DEF Placed, OnePlace, SemaphoreUsers
  <2> QED
    BY <1>4, <2>1 DEF Sides
<1>7. pc[h] = "lock"
  <2>1. h # c
    BY <1>1, <1>4 DEF Placed, OnePlace
  <2>2. h \notin running
    BY <1>1, <2>1 DEF Single
  <2> QED
    BY <1>4, <2>2 DEF Single, Placed, OnePlace
<1>8. c \notin Acquirers
  BY <1>1, SemaphoreAssumption
<1>9. h \notin Coming /\ Coming' = Coming \cup {h}
  BY <1>4, <1>6, <1>7, <1>8, SemaphoreAssumption DEF Coming, SemaphoreUsers
<1>10. Cardinality(Coming') = Cardinality(Coming) + 1
  BY <1>9, ComingFinite, FS_AddElement
<1>11. count - 1 <= Cardinality(Coming)
  <2>1. Waiting # {} /\ count \in Int /\ Update[c] \in Nat
    BY <1>5, <1>1, SemaphoreAssumption DEF Waiting, Placed, Typed
  <2>2. CASE count <= Cardinality(Coming)
    BY <2>1, <2>2, ComingFinite
  <2>3. ASSUME NEW d \in Releasers, pc[d] = "notify", count - Update[d] <= Cardinality(Coming)
        PROVE  count - 1 <= Cardinality(Coming)
    <3>1. d = c
      BY <1>1, <2>3, SemaphoreAssumption DEF MutualExclusion, Holds, SemaphoreUsers
    <3>2. Update[c] = 1
      BY <1>1, <1>2, SemaphoreAssumption DEF ReleaseNotify
    <3> QED
      BY <2>3, <3>1, <3>2
  <2> QED
    BY <2>1, <2>2, <2>3 DEF Covered
<1> QED
  BY <1>10, <1>11, ComingFinite DEF Placed, Typed

LEMMA CoveredStep ==
  ASSUME Placed, MutualExclusion, Single, Sides, Covered, NEW c \in Coroutines, Step(c)
  PROVE  Covered'
<1>1. Typed /\ Typed' /\ \A d \in Coroutines \ {c} : pc'[d] = pc[d]
  BY StepTyped, OthersStay DEF Placed
<1>2. concurrency' = concurrency
  BY DEF Step
<1> SUFFICES ASSUME concurrency = 0 PROVE Covered'
  BY <1>2 DEF Covered
<1>3. /\ Acquirers \subseteq Coroutines /\ Releasers \subseteq Coroutines
      /\ Triers \cap Acquirers = {} /\ Releasers \cap Acquirers = {}
      /\ LatchUsers \cap Acquirers = {} /\ \A r \in Releasers : Update[r] \in Nat
  BY SemaphoreAssumption, UsersAssumption DEF SemaphoreUsers
<1>4. Cardinality(Coming) \in Nat /\ Cardinality(Coming') \in Nat /\ count \in Int /\ count' \in Int
  <2>1. Coming' \subseteq Coroutines
    BY <1>3 DEF Coming
  <2>2. IsFiniteSet(Coming')
    BY <2>1, MonitorAssumption, FS_Subset
  <2> QED
    BY <1>1, <2>2, ComingFinite, FS_CardinalityType DEF Typed
<1>5. c \in running => c \notin ToSet(notify) \/ pc[c] = "suspend"
  BY DEF Placed, OnePlace
<1>6. \A d \in Coroutines : d # c /\ c \in running => pc[d] \in {"lock", "done"}
  BY DEF Single
<1> USE DEF At, Goto
<1>7. CASE /\ notify' = notify /\ count' <= count /\ c \in running /\ pc[c] # "notify"
           /\ c \in Acquirers =>
                /\ pc'[c] \in {"wait", "register"} => pc[c] \in {"wait", "register"}
                /\ c \in Coming => c \in Coming'
  <2>1. Coming \subseteq Coming'
    BY <1>1, <1>3, <1>7 DEF Coming
  <2>2. ToSet(notify') \cap Acquirers \subseteq Waiting
    BY <1>7 DEF Waiting
  <2> QED
    BY <1>1, <1>2, <1>7, <2>1, <2>2, CoveredStay
<1>8. CASE /\ TryLock(c) \/ SpinEnd(c) \/ SpinYield(c) \/ WaitUnlock(c) \/ WaitSuspend(c)
           /\ UNCHANGED count
  BY <1>1, <1>4, <1>7, <1>8
  DEF TryLock, SpinEnd, SpinYield, WaitUnlock, WaitSuspend, Coming, Typed
<1>9. CASE WaitRegister(c) /\ UNCHANGED count
  <2>1. ToSet(notify') = {c} \cup ToSet(notify)
    BY <1>5, <1>9, ListPrepend DEF WaitRegister, Placed, OnePlace
  <2>2. CASE c \in Acquirers
    <3>1. count <= 0
      BY <1>9, <2>2 DEF WaitRegister, Covered
    <3> QED
      BY <1>4, <1>9, <3>1 DEF Covered
  <2>3. CASE c \notin Acquirers
    <3>1. ToSet(notify') \cap Acquirers = Waiting /\ Coming' = Coming
      BY <1>1, <1>3, <2>1, <2>3 DEF Waiting, Coming
    <3> QED
      BY <1>1, <1>2, <1>4, <1>9, <2>3, <3>1, CoveredStay DEF WaitRegister
  <2> QED
    BY <2>2, <2>3
<1>10. CASE AcquireCheck(c)
  <2>1. CASE count > 0
    BY <1>1, <1>4, <1>7, <1>10, <2>1 DEF AcquireCheck, Coming, Typed
  <2>2. CASE ~(count > 0)
    BY <1>4, <1>10, <2>2 DEF AcquireCheck, Covered
  <2> QED
    BY <2>1, <2>2
<1>11. CASE Acquire(c)
  <2>1. /\ c \in running /\ pc[c] = "take" /\ pc'[c] = "unlock" /\ c \in Acquirers
        /\ notify' = notify /\ count' = count - 1
    BY <1>1, <1>11 DEF Acquire, Sides, Typed
  <2>2. c \in Coming /\ Coming' = Coming \ {c}
    BY <1>1, <1>3, <1>5, <2>1 DEF Coming
  <2>3. Cardinality(Coming') = Cardinality(Coming) - 1
    BY <2>2, ComingFinite, FS_RemoveElement
  <2>4. \A d \in Coroutines : pc[d] # "notify" /\ pc[d] \notin {"wait", "register"}
    BY <1>6, <2>1
  <2>5. \A d \in Coroutines : pc'[d] \notin {"wait", "register"}
    BY <1>1, <2>1, <2>4
  <2>6. Waiting # {} => count <= Cardinality(Coming)
    BY <1>3, <2>4 DEF Covered
  <2>7. Waiting' = Waiting
    BY <2>1 DEF Waiting
  <2>8. Waiting' # {} => count' <= Cardinality(Coming')
    BY <1>4, <2>1, <2>3, <2>6, <2>7
  <2> QED
    BY <1>3, <2>5, <2>8 DEF Covered
<1>12. CASE TryRelease(c)
  BY <1>1, <1>3, <1>4, <1>7, <1>12 DEF TryRelease, Typed
<1>13. CASE Release(c)
  <2>1. /\ c \in running /\ pc[c] = "inside" /\ pc'[c] = "notify" /\ c \in Releasers
        /\ notify' = notify /\ count' = count + Update[c]
    BY <1>1, <1>13 DEF Release, Typed
  <2>2. Coming' = Coming /\ Waiting' = Waiting
    BY <1>1, <1>3, <2>1 DEF Coming, Waiting
  <2>3. \A d \in Coroutines : pc[d] # "notify" /\ pc'[d] \notin {"wait", "register"}
    BY <1>1, <1>6, <2>1
  <2>4. Waiting # {} => count <= Cardinality(Coming)
    BY <1>3, <2>3 DEF Covered
  <2>5. Waiting' # {} => pc'[c] = "notify" /\ count' - Update[c] <= Cardinality(Coming')
    BY <1>3, <1>4, <2>1, <2>2, <2>4
  <2> QED
    BY <1>3, <2>1, <2>3, <2>5 DEF Covered
<1>14. CASE ReleaseNotify(c)
  <2>1. \A d \in Coroutines : pc'[d] \notin {"wait", "register"}
    BY <1>1, <1>6, <1>14 DEF ReleaseNotify, Typed
  <2>2. Waiting' # {} => count' <= Cardinality(Coming')
    BY <1>1, <1>14, ReleaseNotifyCovered
  <2> QED
    BY <1>3, <2>1, <2>2 DEF Covered
<1>15. CASE CountNotify(c)
  <2>1. \A d \in Coroutines : pc'[d] \notin {"wait", "register"}
    BY <1>1, <1>6, <1>15 DEF CountNotify, Typed
  <2>2. Waiting' = {}
    BY <1>15, ListEmpty DEF CountNotify, NotifyAll, Waiting
  <2> QED
    BY <1>3, <2>1, <2>2 DEF Covered
<1>16. CASE (CountDown(c) \/ WaitCheck(c) \/ ThenWait(c)) /\ UNCHANGED count
  <2>1. /\ c \in running /\ pc[c] \in {"inside", "unlock"} /\ c \in LatchUsers
        /\ notify' = notify
    BY <1>16 DEF CountDown, WaitCheck, ThenWait, Unlock, LatchUsers
  <2> QED
    BY <1>3, <1>4, <1>7, <1>16, <2>1
<1>17. CASE Finish(c)
  BY <1>1, <1>4, <1>7, <1>17 DEF Finish, Leave, Unlock, Coming, Typed
<1> QED
  BY <1>8, <1>9, <1>10, <1>11, <1>12, <1>13, <1>14, <1>15, <1>16, <1>17
  DEF Step, MonitorStep, SemaphoreStep, LatchStep

LEMMA WakeupsNext ==
  ASSUME Placed, MutualExclusion, Single, Sides, Covered, [Next]_vars
  PROVE  Single' /\ Sides' /\ Covered'
<1>1. CASE \E c \in Coroutines : Step(c)
  BY <1>1, SingleStep, SidesStep, CoveredStep
<1>2. UNCHANGED <<concurrency, pc, notify, count>> => Sides' /\ Covered'
  BY DEF Sides, Covered, Waiting, Coming
<1>3. UNCHANGED <<concurrency, pc, running>> => Single'
  BY DEF Single
<1>4. ASSUME NEW c \in Coroutines, ResumeAny(c) PROVE Single' /\ Sides' /\ Covered'
  BY <1>2, <1>4, SingleResume DEF ResumeAny, Resume
<1> QED
  BY <1>1, <1>2, <1>3, <1>4 DEF Next, Idle, vars, monitorVars

\* On the loop thread no wakeup is lost: while an acquirer is registered every free
\* permit has another one on its way, although release wakes one coroutine for one permit
\* and newcomers overtake the one woken (co_semaphore.hpp:40-65,
\* co_condition_variable.hpp:54-109).
THEOREM NoWakeupLost == Spec => []WakeupsCover
<1>1. Init => Single /\ Sides /\ Covered
  <2> SUFFICES ASSUME Init PROVE Single /\ Sides /\ Covered
    OBVIOUS
  <2>1. PICK users \in {SemaphoreUsers, LatchUsers} : MonitorInit(users)
    BY DEF Init
  <2>2. /\ \A c \in Coroutines : pc[c] = IF c \in users THEN "lock" ELSE "done"
        /\ running = {} /\ notify = <<>> /\ ToSet(notify) = {}
    BY <2>1, ListEmpty DEF MonitorInit
  <2>3. \A c \in SemaphoreUsers \cup LatchUsers : c \in Coroutines
    BY SemaphoreAssumption, LatchAssumption
  <2>4. \A c \in Acquirers : c \in Coroutines
    BY <2>3 DEF SemaphoreUsers
  <2>5. Single
    BY <2>2 DEF Single
  <2>6. Sides
    BY <2>2, <2>3, UsersAssumption DEF Sides
  <2>7. Covered
    BY <2>2, <2>4 DEF Covered, Waiting
  <2> QED
    BY <2>5, <2>6, <2>7
<1>2. Covered => WakeupsCover
  BY SemaphoreAssumption DEF Covered, WakeupsCover, Waiting, SemaphoreUsers
<1>3. Placed => Typed
  BY DEF Placed
<1> QED
  BY <1>1, <1>2, <1>3, InitExcludes, InitPlaced, ExclusionNext, PlacedNext, WakeupsNext, PTL
  DEF Spec

-----------------------------------------------------------------------------
(* The channel *)

Posts == [coroutine : Senders, message : Messages]

-----------------------------------------------------------------------------
(* Arithmetic of the ring *)

LEMMA ModUnique ==
  ASSUME NEW n \in Nat, n >= 1, NEW q \in Int, NEW t \in 0..(n - 1)
  PROVE  ((n * q) + t) % n = t
<1> DEFINE x == (n * q) + t
           p == x \div n
           u == x % n
<1>1. x \in Int /\ n * q \in Int /\ x = (n * q) + t
  OBVIOUS
<1> HIDE DEF x
<1>2. p \in Int /\ u \in 0..(n - 1) /\ x = (n * p) + u /\ n * p \in Int
  BY <1>1
<1> HIDE DEF p, u
<1>3. n * (q - p) = u - t
  <2>1. n * (q - p) = (n * q) - (n * p)
    BY <1>2
  <2> QED
    BY <1>1, <1>2, <2>1
<1>4. q - p = 0
  <2>1. q - p >= 1 => n * (q - p) >= n
    BY <1>2
  <2>2. q - p <= -1 => n * (q - p) <= -n
    BY <1>2
  <2> QED
    BY <1>2, <1>3, <2>1, <2>2
<1>5. n * (q - p) = 0
  BY <1>4
<1> QED
  BY <1>2, <1>3, <1>5 DEF u, x

LEMMA ModAdd ==
  ASSUME NEW n \in Nat, n >= 1, NEW i \in Int, NEW j \in Int
  PROVE  ((i % n) + j) % n = (i + j) % n
<1> DEFINE p == i \div n
           q == (i + j) \div n
           t == (i + j) % n
<1>1. p \in Int /\ i % n \in Int /\ i = (n * p) + (i % n)
  OBVIOUS
<1>2. q \in Int /\ t \in 0..(n - 1) /\ i + j = (n * q) + t
  OBVIOUS
<1> HIDE DEF p, q, t
<1>3. n * (q - p) = (n * q) - (n * p) /\ n * q \in Int /\ n * p \in Int
  BY <1>1, <1>2
<1>4. (i % n) + j = (n * (q - p)) + t
  BY <1>1, <1>2, <1>3
<1>5. q - p \in Int
  BY <1>1, <1>2
<1>6. ((n * (q - p)) + t) % n = t
  BY <1>2, <1>5, ModUnique
<1> QED
  BY <1>4, <1>6 DEF t

LEMMA NextPlace ==
  ASSUME NEW n \in Nat, n >= 1, NEW i \in Nat
  PROVE  ((i % n) + 1) % n = (i + 1) % n
<1>1. i \in Int /\ 1 \in Int
  OBVIOUS
<1> QED
  BY <1>1, ModAdd

\* The size that is computed from the places of two counters.
LEMMA ModDifference ==
  ASSUME NEW n \in Nat, n >= 1, NEW i \in Int, NEW j \in Int, 0 <= j - i, j - i < n
  PROVE  ((j % n) + n - (i % n)) % n = j - i
<1> DEFINE p == i \div n
           q == j \div n
           u == i % n
           v == j % n
<1>1. p \in Int /\ u \in Int /\ i = (n * p) + u
  OBVIOUS
<1>2. q \in Int /\ v \in Int /\ j = (n * q) + v
  OBVIOUS
<1> HIDE DEF p, q, u, v
<1>3. n * ((1 + p) - q) = n + (n * p) - (n * q) /\ n * q \in Int /\ n * p \in Int
  BY <1>1, <1>2
<1>4. v + n - u = (n * ((1 + p) - q)) + (j - i)
  BY <1>1, <1>2, <1>3
<1>5. (1 + p) - q \in Int /\ j - i \in 0..(n - 1)
  BY <1>1, <1>2
<1>6. ((n * ((1 + p) - q)) + (j - i)) % n = j - i
  BY <1>5, ModUnique
<1> QED
  BY <1>4, <1>6 DEF u, v

\* Two counters less than a round apart are at different places.
LEMMA ModDiffer ==
  ASSUME NEW n \in Nat, n >= 1, NEW i \in Int, NEW j \in Int, i < j, j - i < n
  PROVE  i % n # j % n
<1> SUFFICES ASSUME i % n = j % n PROVE FALSE
  OBVIOUS
<1>1. ((j % n) + n - (i % n)) % n = j - i
  <2>1. 0 <= j - i
    OBVIOUS
  <2> QED
    BY <2>1, ModDifference
<1>2. j % n \in Int /\ (j % n) + n - (i % n) = n
  OBVIOUS
<1>3. ((n * 1) + 0) % n = 0
  BY ModUnique
<1> QED
  BY <1>1, <1>2, <1>3

-----------------------------------------------------------------------------
(* Types *)

LEMMA InitTyped == ChannelInit => ChannelTypeOK
BY BoundAssumption, SendAssumption DEF ChannelInit, ChannelTypeOK

\* The coroutine that a commit tries next.
LEMMA TriedPost ==
  ASSUME ChannelTypeOK, passed < Len(sending)
  PROVE  /\ Tried \in 1..Len(sending) /\ Tried \in Nat
         /\ sending \in Seq(Posts) /\ sending[Tried] \in Posts
         /\ sending[Tried].message \in Messages /\ sending[Tried].coroutine \in Senders
<1>1. passed \in Nat /\ sending \in Seq(Posts) /\ Len(sending) \in Nat
  BY DEF ChannelTypeOK, Posts
<1>2. Tried \in 1..Len(sending) /\ Tried \in Nat
  BY <1>1 DEF Tried
<1>3. sending[Tried] \in Posts
  BY <1>1, <1>2
<1> QED
  BY <1>1, <1>2, <1>3 DEF Posts

LEMMA TriedReceiver ==
  ASSUME ChannelTypeOK, passed < Len(receiving)
  PROVE  /\ Tried \in 1..Len(receiving) /\ Tried \in Nat
         /\ receiving \in Seq(Receivers) /\ receiving[Tried] \in Receivers
<1>1. passed \in Nat /\ receiving \in Seq(Receivers) /\ Len(receiving) \in Nat
  BY DEF ChannelTypeOK
<1>2. Tried \in 1..Len(receiving) /\ Tried \in Nat
  BY <1>1 DEF Tried
<1> QED
  BY <1>1, <1>2

LEMMA TypedNext ==
  ASSUME ChannelTypeOK, [ChannelNext]_channelVars
  PROVE  ChannelTypeOK'
<1>1. ASSUME NEW s \in Senders, SendMessage(s) PROVE ChannelTypeOK'
  <2>1. posted[s] + 1 \in 1..MaxSend /\ <<s, posted[s] + 1>> \in Messages
    BY <1>1, SendAssumption DEF SendMessage, Messages, ChannelTypeOK
  <2>2. sending' \in Seq([coroutine : Senders, message : Messages])
    BY <1>1, <2>1 DEF SendMessage, PostEnqueue, ChannelTypeOK
  <2>3. posted' \in [Senders -> 0..MaxSend] /\ suspended' \subseteq Senders \cup Receivers
    BY <1>1, <2>1 DEF SendMessage, PostEnqueue, ChannelTypeOK
  <2> QED
    BY <1>1, <2>2, <2>3 DEF SendMessage, ChannelTypeOK
<1>2. ASSUME NEW r \in Receivers, ReceiveMessage(r) PROVE ChannelTypeOK'
  BY <1>2 DEF ReceiveMessage, PostDequeue, ChannelTypeOK
<1>3. ASSUME TryEnqueue PROVE ChannelTypeOK'
  <2>1. /\ Tried \in 1..Len(sending) /\ Tried \in Nat /\ sending[Tried] \in Posts
        /\ sending \in Seq(Posts)
    BY <1>3, TriedPost DEF TryEnqueue
  <2>2. CASE RingSize(head, tail) < Bound
    <3>1. /\ accepted' = Append(accepted, sending[Tried].message)
          /\ outstanding' = <<sending[Tried].coroutine>> \o outstanding
          /\ sending' = RemoveAt(sending, Tried) /\ passed' = passed
          /\ slots' = [slots EXCEPT ![tail] = sending[Tried].message]
          /\ tail' = (tail + 1) % Bound
          /\ UNCHANGED <<head, receiving, suspended, turn, posted, received>>
      BY <1>3, <2>2 DEF TryEnqueue, EmplaceBack
    <3>2. sending[Tried].message \in Messages /\ sending[Tried].coroutine \in Senders \cup Receivers
      BY <1>3, TriedPost DEF TryEnqueue
    <3>3. tail' \in 0..(Bound - 1)
      BY <3>1, BoundAssumption DEF ChannelTypeOK
    <3>4. slots' \in [0..(Bound - 1) -> Messages \cup {NoMessage}]
      BY <3>1, <3>2 DEF ChannelTypeOK
    <3>5. accepted' \in Seq(Messages)
      BY <3>1, <3>2 DEF ChannelTypeOK
    <3>6. outstanding' \in Seq(Senders \cup Receivers)
      BY <3>1, <3>2 DEF ChannelTypeOK
    <3>7. sending' \in Seq(Posts)
      BY <2>1, <3>1, ListRemoveAt
    <3> QED
      BY <3>1, <3>3, <3>4, <3>5, <3>6, <3>7 DEF ChannelTypeOK, Posts
  <2>3. CASE ~(RingSize(head, tail) < Bound)
    BY <1>3, <2>1, <2>3 DEF TryEnqueue, ChannelTypeOK
  <2> QED
    BY <2>2, <2>3
<1>4. ASSUME TryDequeue PROVE ChannelTypeOK'
  <2>1. Tried \in 1..Len(receiving) /\ Tried \in Nat /\ receiving[Tried] \in Receivers
    BY <1>4, TriedReceiver DEF TryDequeue
  <2>2. CASE RingEmpty(head, tail)
    BY <1>4, <2>1, <2>2 DEF TryDequeue, ChannelTypeOK
  <2>3. CASE ~RingEmpty(head, tail)
    <3>1. /\ received' = Append(received, slots[head])
          /\ outstanding' = <<receiving[Tried]>> \o outstanding
          /\ receiving' = RemoveAt(receiving, Tried) /\ passed' = passed
          /\ head' = (head + 1) % Bound
          /\ UNCHANGED <<slots, tail, sending, suspended, turn, posted, accepted>>
      BY <1>4, <2>3 DEF TryDequeue, PopFront
    <3>2. head' \in 0..(Bound - 1)
      BY <3>1, BoundAssumption DEF ChannelTypeOK
    <3>3. slots[head] \in Messages \cup {NoMessage}
      BY DEF ChannelTypeOK
    <3>4. received' \in Seq(Messages \cup {NoMessage})
      BY <3>1, <3>3 DEF ChannelTypeOK
    <3>5. outstanding' \in Seq(Senders \cup Receivers)
      BY <2>1, <3>1 DEF ChannelTypeOK
    <3>6. receiving' \in Seq(Receivers)
      BY <2>1, <3>1, ListRemoveAt DEF ChannelTypeOK
    <3> QED
      BY <3>1, <3>2, <3>4, <3>5, <3>6 DEF ChannelTypeOK
  <2> QED
    BY <2>2, <2>3
<1>5. ASSUME NEW service, NEW list, NEW next \in {"enqueue", "dequeue"},
             EndCommit(service, list, next)
      PROVE  ChannelTypeOK'
  BY <1>5 DEF EndCommit, ChannelTypeOK
<1>6. UNCHANGED channelVars => ChannelTypeOK'
  BY DEF channelVars, ChannelTypeOK
<1> QED
  BY <1>1, <1>2, <1>3, <1>4, <1>5, <1>6 DEF ChannelNext, CommitService

-----------------------------------------------------------------------------
(* The ring *)

\* Head and tail are the numbers of messages taken and put, round the ring, the ring
\* holds the messages between, and there are never as many as it has slots.
Ring ==
  /\ Len(received) <= Len(accepted) /\ UnderWay <= Window
  /\ head = Len(received) % Bound /\ tail = Len(accepted) % Bound
  /\ \A k \in 1..Len(received) : received[k] = accepted[k]
  /\ \A k \in (Len(received) + 1)..Len(accepted) : slots[(k - 1) % Bound] = accepted[k]

LEMMA InitRing == ChannelInit => Ring
<1>1. 0 % Bound = 0
  BY BoundAssumption, ModUnique, ((Bound * 0) + 0) % Bound = 0
<1> QED
  BY <1>1, SendAssumption DEF ChannelInit, Ring, UnderWay

LEMMA RingNext ==
  ASSUME Window < Bound, ChannelTypeOK, Ring, [ChannelNext]_channelVars
  PROVE  Ring'
<1>1. /\ Bound \in Nat /\ Bound >= 1 /\ Window \in Nat
      /\ Len(accepted) \in Nat /\ Len(received) \in Nat /\ Len(sending) \in Nat
      /\ \A i \in Int : i % Bound \in 0..(Bound - 1)
  BY BoundAssumption, SendAssumption DEF ChannelTypeOK
<1>2. ASSUME NEW s \in Senders, SendMessage(s) PROVE Ring'
  <2>1. Len(sending') = Len(sending) + 1
    BY <1>2 DEF SendMessage, PostEnqueue, ChannelTypeOK
  <2> QED
    BY <1>1, <1>2, <2>1 DEF SendMessage, Ring, UnderWay
<1>3. ASSUME NEW r \in Receivers, ReceiveMessage(r) PROVE Ring'
  BY <1>3 DEF ReceiveMessage, Ring, UnderWay
<1>4. ASSUME TryEnqueue PROVE Ring'
  <2>1. RingSize(head, tail) < Bound
    <3>1. tail + Bound - head \in Int
      BY <1>1 DEF ChannelTypeOK
    <3> QED
      BY <1>1, <3>1 DEF RingSize
  <2>2. /\ Tried \in 1..Len(sending) /\ sending \in Seq(Posts) /\ sending[Tried] \in Posts
        /\ sending' = RemoveAt(sending, Tried)
        /\ accepted' = Append(accepted, sending[Tried].message)
        /\ slots' = [slots EXCEPT ![tail] = sending[Tried].message]
        /\ tail' = (tail + 1) % Bound /\ UNCHANGED <<head, received>>
    BY <1>4, <2>1, TriedPost DEF TryEnqueue, EmplaceBack
  <2>3. Len(sending') = Len(sending) - 1
    BY <2>2, ListRemoveAt
  <2>4. /\ accepted \in Seq(Messages) /\ Len(accepted') = Len(accepted) + 1
        /\ accepted'[Len(accepted) + 1] = sending[Tried].message
        /\ \A k \in 1..Len(accepted) : accepted'[k] = accepted[k]
    BY <2>2 DEF ChannelTypeOK, Posts
  <2>5. Len(accepted) - Len(received) < Bound
    BY <1>1 DEF Ring, UnderWay
  <2>6. tail' = Len(accepted') % Bound
    <3>1. ((Len(accepted) % Bound) + 1) % Bound = (Len(accepted) + 1) % Bound
      BY <1>1, NextPlace
    <3> QED
      BY <2>2, <2>4, <3>1 DEF Ring
  <2>7. slots'[Len(accepted) % Bound] = sending[Tried].message
    BY <1>1, <2>2 DEF Ring, ChannelTypeOK
  <2>8. ASSUME NEW k \in (Len(received) + 1)..Len(accepted)
        PROVE  slots'[(k - 1) % Bound] = accepted'[k]
    <3> DEFINE a == Len(accepted)
               r == Len(received)
    <3>1. k - 1 \in Int /\ a \in Int /\ k - 1 < a /\ a - (k - 1) < Bound
      <4>1. a \in Nat /\ r \in Nat /\ a - r < Bound /\ k \in (r + 1)..a /\ Bound \in Nat
        BY <1>1, <2>5
      <4> HIDE DEF a, r
      <4> QED
        BY <4>1
    <3>2. (k - 1) % Bound # Len(accepted) % Bound
      BY <1>1, <3>1, ModDiffer
    <3>3. (k - 1) % Bound \in 0..(Bound - 1)
      BY <1>1, <3>1
    <3>4. slots'[(k - 1) % Bound] = slots[(k - 1) % Bound]
      BY <2>2, <3>2, <3>3 DEF Ring, ChannelTypeOK
    <3>5. k \in 1..Len(accepted)
      BY <1>1
    <3>6. slots[(k - 1) % Bound] = accepted[k]
      BY DEF Ring
    <3> QED
      BY <2>4, <3>4, <3>5, <3>6
  <2>9. ASSUME NEW k \in (Len(received') + 1)..Len(accepted')
        PROVE  slots'[(k - 1) % Bound] = accepted'[k]
    <3>1. CASE k = Len(accepted) + 1
      <4>1. k - 1 = Len(accepted)
        BY <1>1, <3>1
      <4> QED
        BY <2>4, <2>7, <3>1, <4>1
    <3>2. CASE k # Len(accepted) + 1
      <4>1. Len(received') = Len(received) /\ Len(accepted') = Len(accepted) + 1
        BY <2>2, <2>4
      <4>2. k \in (Len(received) + 1)..Len(accepted)
        BY <1>1, <3>2, <4>1
      <4> QED
        BY <2>8, <4>2
    <3> QED
      BY <3>1, <3>2
  <2>10. ASSUME NEW k \in 1..Len(received') PROVE received'[k] = accepted'[k]
    <3>1. k \in 1..Len(received) /\ k \in 1..Len(accepted)
      BY <1>1, <2>2 DEF Ring
    <3> QED
      BY <2>2, <2>4, <3>1 DEF Ring
  <2>11. UnderWay' <= Window /\ Len(received') <= Len(accepted')
    <3>1. Len(received') = Len(received)
      BY <2>2
    <3>2. Len(sending) + Len(accepted) - Len(received) <= Window /\ Len(received) <= Len(accepted)
      BY DEF Ring, UnderWay
    <3>3. Len(accepted') = Len(accepted) + 1
      BY <2>4
    <3>4. Len(sending') + Len(accepted') - Len(received') <= Window
      BY <1>1, <2>3, <3>1, <3>2, <3>3
    <3>5. Len(received') <= Len(accepted')
      BY <1>1, <3>1, <3>2, <3>3
    <3> QED
      BY <3>4, <3>5 DEF UnderWay
  <2> QED
    BY <2>2, <2>6, <2>9, <2>10, <2>11 DEF Ring
<1>5. ASSUME TryDequeue PROVE Ring'
  <2>1. CASE RingEmpty(head, tail)
    BY <1>5, <2>1 DEF TryDequeue, Ring, UnderWay
  <2>2. CASE ~RingEmpty(head, tail)
    <3>1. /\ received' = Append(received, slots[head]) /\ head' = (head + 1) % Bound
          /\ UNCHANGED <<slots, tail, sending, accepted>>
      BY <1>5, <2>2 DEF TryDequeue, PopFront
    <3>2. Len(received) + 1 \in (Len(received) + 1)..Len(accepted)
      <4>1. Len(received) # Len(accepted) /\ Len(received) <= Len(accepted)
        BY <2>2 DEF RingEmpty, Ring
      <4> QED
        BY <1>1, <4>1
    <3>3. slots[head] = accepted[Len(received) + 1]
      <4>1. (Len(received) + 1) - 1 = Len(received)
        BY <1>1
      <4> QED
        BY <3>2, <4>1 DEF Ring
    <3>4. /\ Len(received') = Len(received) + 1
          /\ received'[Len(received) + 1] = slots[head]
          /\ \A k \in 1..Len(received) : received'[k] = received[k]
      <4>1. slots[head] \in Messages \cup {NoMessage}
        BY DEF ChannelTypeOK
      <4> QED
        BY <3>1, <4>1 DEF ChannelTypeOK
    <3>5. head' = Len(received') % Bound
      <4>1. ((Len(received) % Bound) + 1) % Bound = (Len(received) + 1) % Bound
        BY <1>1, NextPlace
      <4> QED
        BY <3>1, <3>4, <4>1 DEF Ring
    <3>6. ASSUME NEW k \in 1..Len(received') PROVE received'[k] = accepted'[k]
      <4>1. k \in 1..Len(received) \/ k = Len(received) + 1
        BY <1>1, <3>4
      <4> QED
        BY <3>1, <3>3, <3>4, <4>1 DEF Ring
    <3>7. UnderWay' <= Window /\ Len(received') <= Len(accepted')
      BY <1>1, <3>1, <3>2, <3>4 DEF Ring, UnderWay
    <3>8. ASSUME NEW k \in (Len(received') + 1)..Len(accepted')
          PROVE  slots'[(k - 1) % Bound] = accepted'[k]
      <4>1. k \in (Len(received) + 1)..Len(accepted)
        BY <1>1, <3>1, <3>4
      <4> QED
        BY <3>1, <4>1 DEF Ring
    <3> QED
      BY <3>1, <3>5, <3>6, <3>7, <3>8 DEF Ring
  <2> QED
    BY <2>1, <2>2
<1>6. ASSUME UNCHANGED <<slots, head, tail, sending, accepted, received>> PROVE Ring'
  BY <1>6 DEF Ring, UnderWay
<1> QED
  BY <1>2, <1>3, <1>4, <1>5, <1>6 DEF ChannelNext, CommitService, EndCommit, channelVars

LEMMA ListsEqual ==
  ASSUME NEW S, NEW s \in Seq(S), NEW t \in Seq(S), Len(s) = Len(t),
         \A k \in 1..Len(s) : t[k] = s[k]
  PROVE  s = t
<1>1. s = [k \in 1..Len(s) |-> s[k]] /\ t = [k \in 1..Len(s) |-> t[k]]
  OBVIOUS
<1> QED
  BY <1>1

LEMMA RingIsQueue == ASSUME Window < Bound, ChannelTypeOK, Ring PROVE NothingLost
<1> DEFINE a == Len(accepted)
           r == Len(received)
<1>1. /\ Bound \in Nat /\ Bound >= 1 /\ Window \in Nat /\ a \in Nat /\ r \in Nat /\ r <= a
      /\ a - r < Bound
  BY BoundAssumption, SendAssumption DEF ChannelTypeOK, Ring, UnderWay
<1>2. RingSize(head, tail) = a - r
  <2>1. a \in Int /\ r \in Int /\ 0 <= a - r
    BY <1>1
  <2>2. ((a % Bound) + Bound - (r % Bound)) % Bound = a - r
    <3> HIDE DEF a, r
    <3> QED
      BY <1>1, <2>1, ModDifference
  <2> QED
    BY <2>2 DEF RingSize, Ring
<1>3. ASSUME NEW i \in 1..(a - r) PROVE Contents[i] = accepted[r + i]
  <2>1. i - 1 \in Int /\ (r + i) - 1 = r + (i - 1) /\ head + i - 1 = head + (i - 1)
    BY <1>1 DEF ChannelTypeOK
  <2>2. (head + i - 1) % Bound = ((r + i) - 1) % Bound
    <3>1. ((r % Bound) + (i - 1)) % Bound = (r + (i - 1)) % Bound
      <4>1. r \in Int
        BY <1>1
      <4> HIDE DEF r
      <4> QED
        BY <1>1, <2>1, <4>1, ModAdd
    <3> QED
      BY <2>1, <3>1 DEF Ring
  <2>3. r + i \in (r + 1)..a
    BY <1>1
  <2>4. Contents[i] = slots[(head + i - 1) % Bound]
    BY <1>2 DEF Contents
  <2> QED
    BY <2>2, <2>3, <2>4 DEF Ring
<1>4. Contents \in Seq(Messages) /\ Len(Contents) = a - r
  <2>1. ASSUME NEW i \in 1..(a - r) PROVE Contents[i] \in Messages
    <3>1. r + i \in 1..a
      BY <1>1
    <3>2. accepted[r + i] \in Messages
      BY <3>1 DEF ChannelTypeOK
    <3> QED
      BY <1>3, <3>2
  <2>2. Contents = [i \in 1..(a - r) |-> Contents[i]]
    BY <1>2 DEF Contents
  <2> HIDE DEF a, r
  <2> QED
    BY <1>1, <2>1, <2>2
<1>5. /\ received \o Contents \in Seq(Messages \cup {NoMessage})
      /\ Len(received \o Contents) = a
      /\ \A k \in 1..r : (received \o Contents)[k] = received[k]
      /\ \A i \in 1..(a - r) : (received \o Contents)[r + i] = Contents[i]
  <2>1. /\ received \in Seq(Messages \cup {NoMessage}) /\ Len(received) = r
        /\ Contents \in Seq(Messages \cup {NoMessage}) /\ Len(Contents) = a - r
    BY <1>4 DEF ChannelTypeOK
  <2> HIDE DEF a, r
  <2> QED
    BY <1>1, <2>1
<1>6. ASSUME NEW k \in 1..a PROVE (received \o Contents)[k] = accepted[k]
  <2>1. CASE k <= r
    BY <1>1, <1>5, <2>1 DEF Ring
  <2>2. CASE ~(k <= r)
    <3>1. k - r \in 1..(a - r) /\ r + (k - r) = k
      BY <1>1, <2>2
    <3> QED
      BY <1>3, <1>5, <3>1
  <2> QED
    BY <2>1, <2>2
<1>7. accepted \in Seq(Messages \cup {NoMessage}) /\ Len(accepted) = a
  BY DEF ChannelTypeOK
<1> QED
  BY <1>5, <1>6, <1>7, ListsEqual DEF NothingLost

\* Nothing that was sent is lost, repeated or reordered in the channel, as long as the
\* program never has as many messages under way as the ring has slots.
THEOREM EverythingDelivered ==
  ASSUME Window < Bound
  PROVE  ChannelSpec => []NothingLost
<1>1. ChannelInit => ChannelTypeOK /\ Ring
  BY InitTyped, InitRing
<1>2. ChannelTypeOK /\ Ring /\ [ChannelNext]_channelVars => ChannelTypeOK' /\ Ring'
  BY TypedNext, RingNext
<1>3. ChannelTypeOK /\ Ring => NothingLost
  BY RingIsQueue
<1> QED
  BY <1>1, <1>2, <1>3, PTL DEF ChannelSpec

-----------------------------------------------------------------------------
(* The coroutines *)

Users == Senders \cup Receivers

\* The coroutines of the enqueue service.
Posted == [i \in 1..Len(sending) |-> sending[i].coroutine]

\* A suspended coroutine is in one place.
ChannelPlaced ==
  /\ IsInjective(Posted) /\ IsInjective(receiving) /\ IsInjective(outstanding)
  /\ ToSet(Posted) \cap ToSet(receiving) = {}
  /\ ToSet(Posted) \cap ToSet(outstanding) = {}
  /\ ToSet(receiving) \cap ToSet(outstanding) = {}
  /\ suspended = ToSet(Posted) \cup ToSet(receiving) \cup ToSet(outstanding)

LEMMA ListsTyped ==
  ASSUME ChannelTypeOK
  PROVE  /\ Posted \in Seq(Users) /\ Len(Posted) = Len(sending)
         /\ receiving \in Seq(Users) /\ outstanding \in Seq(Users)
<1>1. sending \in Seq(Posts) /\ Len(sending) \in Nat
  BY DEF ChannelTypeOK, Posts
<1>2. \A i \in 1..Len(sending) : sending[i].coroutine \in Users
  <2> SUFFICES ASSUME NEW i \in 1..Len(sending) PROVE sending[i].coroutine \in Users
    OBVIOUS
  <2>1. sending[i] \in Posts
    BY <1>1
  <2> QED
    BY <2>1 DEF Posts, Users
<1>3. Posted \in Seq(Users) /\ Len(Posted) = Len(sending)
  BY <1>1, <1>2 DEF Posted
<1> QED
  BY <1>3 DEF ChannelTypeOK, Users

LEMMA ChannelInitPlaced == ChannelInit => ChannelPlaced
<1> SUFFICES ASSUME ChannelInit PROVE ChannelPlaced
  OBVIOUS
<1>1. Posted = <<>> /\ receiving = <<>> /\ outstanding = <<>> /\ suspended = {}
  BY DEF ChannelInit, Posted
<1> QED
  BY <1>1, ListEmpty DEF ChannelPlaced

LEMMA PostedPrepended ==
  ASSUME ChannelTypeOK, ChannelTypeOK', NEW s \in Senders, NEW m \in Messages,
         sending' = <<[coroutine |-> s, message |-> m]>> \o sending
  PROVE  Posted' = <<s>> \o Posted
<1>1. /\ sending \in Seq(Posts) /\ Len(sending) \in Nat /\ Posted \in Seq(Users)
      /\ Len(Posted) = Len(sending) /\ s \in Users
  <2>1. sending \in Seq(Posts) /\ s \in Users
    BY DEF ChannelTypeOK, Posts, Users
  <2> QED
    BY <2>1, ListsTyped
<1>2. /\ Len(sending') = Len(sending) + 1 /\ sending'[1].coroutine = s
      /\ \A k \in 1..Len(sending) : sending'[k + 1] = sending[k]
  BY <1>1 DEF Posts
<1>3. Posted' = [k \in 1..(Len(sending) + 1) |-> sending'[k].coroutine]
  BY <1>2 DEF Posted
<1>4. /\ <<s>> \o Posted \in Seq(Users) /\ Len(<<s>> \o Posted) = Len(sending) + 1
      /\ (<<s>> \o Posted)[1] = s
      /\ \A k \in 1..Len(sending) : (<<s>> \o Posted)[k + 1] = Posted[k]
  BY <1>1
<1>5. ASSUME NEW k \in 1..(Len(sending) + 1)
      PROVE  sending'[k].coroutine = (<<s>> \o Posted)[k]
  <2>1. CASE k = 1
    BY <1>2, <1>4, <2>1
  <2>2. CASE k # 1
    <3>1. k - 1 \in 1..Len(sending) /\ (k - 1) + 1 = k
      BY <1>1, <2>2
    <3>2. sending'[k] = sending[k - 1] /\ (<<s>> \o Posted)[k] = Posted[k - 1]
      BY <1>2, <1>4, <3>1
    <3> QED
      BY <3>1, <3>2 DEF Posted
  <2> QED
    BY <2>1, <2>2
<1>6. <<s>> \o Posted = [k \in 1..(Len(sending) + 1) |-> (<<s>> \o Posted)[k]]
  BY <1>4
<1> QED
  BY <1>3, <1>5, <1>6

\* What a successful try of the enqueue service does to the list.
LEMMA PostedRemoved ==
  ASSUME ChannelTypeOK, ChannelTypeOK', passed < Len(sending), sending' = RemoveAt(sending, Tried)
  PROVE  /\ Posted' = RemoveAt(Posted, Tried)
         /\ Tried \in 1..Len(Posted) /\ Posted[Tried] = sending[Tried].coroutine
<1>1. /\ Tried \in 1..Len(sending) /\ sending \in Seq(Posts) /\ Posted \in Seq(Users)
      /\ Len(Posted) = Len(sending) /\ Len(sending) \in Nat /\ Tried \in Nat
  BY TriedPost, ListsTyped
<1>2. /\ Len(sending') = Len(sending) - 1
      /\ \A k \in 1..(Len(sending) - 1) :
           sending'[k] = IF k < Tried THEN sending[k] ELSE sending[k + 1]
  <2>1. /\ Len(RemoveAt(sending, Tried)) = Len(sending) - 1
        /\ \A k \in 1..(Len(sending) - 1) :
             RemoveAt(sending, Tried)[k] = IF k < Tried THEN sending[k] ELSE sending[k + 1]
    <3>1. Tried \in 1..Len(sending) /\ sending \in Seq(Posts)
      BY <1>1
    <3> QED
      BY <3>1, ListRemoveAt
  <2> QED
    BY <2>1
<1>3. /\ RemoveAt(Posted, Tried) \in Seq(Users)
      /\ Len(RemoveAt(Posted, Tried)) = Len(sending) - 1
      /\ \A k \in 1..(Len(sending) - 1) :
           RemoveAt(Posted, Tried)[k] = IF k < Tried THEN Posted[k] ELSE Posted[k + 1]
  BY <1>1, ListRemoveAt
<1>4. Posted' \in Seq(Users) /\ Len(Posted') = Len(sending) - 1
  <2>1. ASSUME NEW k \in 1..(Len(sending) - 1) PROVE sending'[k].coroutine \in Users
    <3>1. k \in 1..Len(sending) /\ k + 1 \in 1..Len(sending)
      BY <1>1
    <3>2. sending[k] \in Posts /\ sending[k + 1] \in Posts
      BY <1>1, <3>1
    <3>3. sending'[k] = sending[k] \/ sending'[k] = sending[k + 1]
      BY <1>2
    <3> QED
      BY <3>2, <3>3 DEF Posts, Users
  <2>2. Posted' = [k \in 1..(Len(sending) - 1) |-> sending'[k].coroutine]
    BY <1>2 DEF Posted
  <2>3. Len(sending) - 1 \in Nat
    BY <1>1
  <2> QED
    BY <2>1, <2>2, <2>3
<1>5. ASSUME NEW k \in 1..(Len(sending) - 1)
      PROVE  Posted'[k] = RemoveAt(Posted, Tried)[k]
  <2>1. Posted'[k] = sending'[k].coroutine
    BY <1>2 DEF Posted
  <2>2. k \in 1..Len(sending) /\ k + 1 \in 1..Len(sending)
    BY <1>1
  <2>3. Posted[k] = sending[k].coroutine /\ Posted[k + 1] = sending[k + 1].coroutine
    BY <2>2 DEF Posted
  <2> QED
    BY <1>2, <1>3, <2>1, <2>3
<1>6. Posted' = RemoveAt(Posted, Tried)
  BY <1>3, <1>4, <1>5, ListsEqual
<1> QED
  BY <1>1, <1>6 DEF Posted

LEMMA ChannelPlacedNext ==
  ASSUME ChannelTypeOK, ChannelTypeOK', ChannelPlaced, [ChannelNext]_channelVars
  PROVE  ChannelPlaced'
<1>1. /\ Posted \in Seq(Users) /\ receiving \in Seq(Users)
      /\ outstanding \in Seq(Users)
  BY ListsTyped
<1>2. ASSUME NEW s \in Senders, SendMessage(s) PROVE ChannelPlaced'
  <2>1. /\ sending' = <<[coroutine |-> s, message |-> <<s, posted[s] + 1>>]>> \o sending
        /\ suspended' = suspended \cup {s} /\ s \notin suspended
        /\ UNCHANGED <<receiving, outstanding>>
    BY <1>2 DEF SendMessage, PostEnqueue
  <2>2. Posted' = <<s>> \o Posted
    <3>1. <<s, posted[s] + 1>> \in Messages
      BY <1>2, SendAssumption DEF SendMessage, Messages, ChannelTypeOK
    <3> QED
      BY <2>1, <3>1, PostedPrepended
  <2>3. s \in Users /\ s \notin ToSet(Posted)
    BY <2>1 DEF ChannelPlaced, Users
  <2>4. ToSet(Posted') = {s} \cup ToSet(Posted) /\ IsInjective(Posted')
    BY <1>1, <2>2, <2>3, ListPrepend DEF ChannelPlaced
  <2> QED
    BY <2>1, <2>4 DEF ChannelPlaced
<1>3. ASSUME NEW r \in Receivers, ReceiveMessage(r) PROVE ChannelPlaced'
  <2>1. /\ receiving' = <<r>> \o receiving /\ suspended' = suspended \cup {r} /\ r \notin suspended
        /\ UNCHANGED <<sending, outstanding>>
    BY <1>3 DEF ReceiveMessage, PostDequeue
  <2>2. r \in Users /\ r \notin ToSet(receiving) /\ Posted' = Posted
    BY <2>1 DEF ChannelPlaced, Users, Posted
  <2>3. ToSet(receiving') = {r} \cup ToSet(receiving) /\ IsInjective(receiving')
    BY <1>1, <2>1, <2>2, ListPrepend DEF ChannelPlaced
  <2> QED
    BY <2>1, <2>2, <2>3 DEF ChannelPlaced
<1>4. ASSUME TryEnqueue PROVE ChannelPlaced'
  <2>1. CASE RingSize(head, tail) < Bound
    <3>1. /\ sending' = RemoveAt(sending, Tried) /\ passed < Len(sending)
          /\ outstanding' = <<sending[Tried].coroutine>> \o outstanding
          /\ UNCHANGED <<receiving, suspended>>
      BY <1>4, <2>1 DEF TryEnqueue
    <3>2. /\ Posted' = RemoveAt(Posted, Tried) /\ Tried \in 1..Len(Posted)
          /\ Posted[Tried] = sending[Tried].coroutine
      BY <3>1, PostedRemoved
    <3>3. ToSet(Posted') = ToSet(Posted) \ {Posted[Tried]} /\ IsInjective(Posted')
      <4>1. IsInjective(Posted)
        BY DEF ChannelPlaced
      <4>2. /\ ToSet(RemoveAt(Posted, Tried)) = ToSet(Posted) \ {Posted[Tried]}
            /\ IsInjective(RemoveAt(Posted, Tried))
        BY <1>1, <3>2, <4>1, ListRemoveAt
      <4> QED
        BY <3>2, <4>2
    <3>4. Posted[Tried] \in Users /\ Posted[Tried] \in ToSet(Posted)
      BY <1>1, <3>2 DEF ToSet
    <3>5. Posted[Tried] \notin ToSet(outstanding)
      BY <3>4 DEF ChannelPlaced
    <3>6. /\ ToSet(outstanding') = {Posted[Tried]} \cup ToSet(outstanding)
          /\ IsInjective(outstanding')
      BY <1>1, <3>1, <3>2, <3>4, <3>5, ListPrepend DEF ChannelPlaced
    <3> QED
      BY <3>1, <3>3, <3>4, <3>6 DEF ChannelPlaced
  <2>2. CASE ~(RingSize(head, tail) < Bound)
    BY <1>4, <2>2 DEF TryEnqueue, ChannelPlaced, Posted
  <2> QED
    BY <2>1, <2>2
<1>5. ASSUME TryDequeue PROVE ChannelPlaced'
  <2>1. CASE RingEmpty(head, tail)
    BY <1>5, <2>1 DEF TryDequeue, ChannelPlaced, Posted
  <2>2. CASE ~RingEmpty(head, tail)
    <3>1. /\ receiving' = RemoveAt(receiving, Tried) /\ passed < Len(receiving)
          /\ outstanding' = <<receiving[Tried]>> \o outstanding
          /\ UNCHANGED <<sending, suspended>>
      BY <1>5, <2>2 DEF TryDequeue
    <3>2. Tried \in 1..Len(receiving) /\ Posted' = Posted
      BY <3>1, TriedReceiver DEF Posted
    <3>3. ToSet(receiving') = ToSet(receiving) \ {receiving[Tried]} /\ IsInjective(receiving')
      <4>1. IsInjective(receiving)
        BY DEF ChannelPlaced
      <4>2. /\ ToSet(RemoveAt(receiving, Tried)) = ToSet(receiving) \ {receiving[Tried]}
            /\ IsInjective(RemoveAt(receiving, Tried))
        BY <1>1, <3>2, <4>1, ListRemoveAt
      <4> QED
        BY <3>1, <4>2
    <3>4. receiving[Tried] \in Users /\ receiving[Tried] \in ToSet(receiving)
      BY <1>1, <3>2 DEF ToSet
    <3>5. receiving[Tried] \notin ToSet(outstanding)
      BY <3>4 DEF ChannelPlaced
    <3>6. /\ ToSet(outstanding') = {receiving[Tried]} \cup ToSet(outstanding)
          /\ IsInjective(outstanding')
      BY <1>1, <3>1, <3>4, <3>5, ListPrepend DEF ChannelPlaced
    <3> QED
      BY <3>1, <3>2, <3>3, <3>4, <3>6 DEF ChannelPlaced
  <2> QED
    BY <2>1, <2>2
<1>6. ASSUME NEW service, NEW list, NEW next, EndCommit(service, list, next) PROVE ChannelPlaced'
  <2>1. /\ outstanding' = <<>> /\ suspended' = suspended \ ToSet(outstanding)
        /\ UNCHANGED <<receiving, sending>>
    BY <1>6 DEF EndCommit
  <2>2. Posted' = Posted /\ ToSet(outstanding') = {} /\ IsInjective(outstanding')
    BY <2>1, ListEmpty DEF Posted
  <2> QED
    BY <2>1, <2>2 DEF ChannelPlaced
<1>7. UNCHANGED channelVars => ChannelPlaced'
  BY DEF channelVars, ChannelPlaced, Posted
<1> QED
  BY <1>2, <1>3, <1>4, <1>5, <1>6, <1>7 DEF ChannelNext, CommitService

LEMMA PlacedOnce == ASSUME ChannelTypeOK, ChannelPlaced PROVE PostedOnce
<1> DEFINE both == Posted \o receiving
           all == both \o outstanding
<1>1. /\ Posted \in Seq(Users) /\ Len(Posted) = Len(sending)
      /\ receiving \in Seq(Users) /\ outstanding \in Seq(Users)
  BY ListsTyped
<1>2. /\ both \in Seq(Users) /\ Len(both) = Len(Posted) + Len(receiving)
      /\ ToSet(both) = ToSet(Posted) \cup ToSet(receiving) /\ IsInjective(both)
  BY <1>1, ListConcat DEF ChannelPlaced
<1> HIDE DEF both, all
<1>3. /\ all \in Seq(Users) /\ Len(all) = Len(both) + Len(outstanding)
      /\ ToSet(all) = ToSet(both) \cup ToSet(outstanding)
      /\ ToSet(both) \cap ToSet(outstanding) = {} => IsInjective(all)
  <2>1. Len(both \o outstanding) = Len(both) + Len(outstanding)
    <3>1. both \in Seq(Users) /\ outstanding \in Seq(Users)
      BY <1>1, <1>2
    <3> QED
      BY <3>1
  <2>2. IsInjective(outstanding)
    BY DEF ChannelPlaced
  <2>3. /\ both \o outstanding \in Seq(Users)
        /\ ToSet(both \o outstanding) = ToSet(both) \cup ToSet(outstanding)
        /\ ToSet(both) \cap ToSet(outstanding) = {} => IsInjective(both \o outstanding)
    BY <1>1, <1>2, <2>2, ListConcat
  <2> QED
    BY <2>1, <2>3 DEF all
<1>4. IsInjective(all) /\ ToSet(all) = suspended
  BY <1>2, <1>3 DEF ChannelPlaced
<1>5. Cardinality(suspended) = Len(sending) + Len(receiving) + Len(outstanding)
  <2>1. Cardinality(suspended) = Len(all)
    BY <1>3, <1>4, ListCardinality
  <2> QED
    BY <1>1, <1>2, <1>3, <2>1
<1>6. ToSet(Posted) = {sending[i].coroutine : i \in DOMAIN sending}
  <2>1. DOMAIN sending = 1..Len(sending)
    BY DEF ChannelTypeOK
  <2> QED
    BY <2>1 DEF ToSet, Posted
<1> QED
  BY <1>5, <1>6 DEF PostedOnce, ChannelPlaced

\* A coroutine that is suspended in send or receive can be reached from one place only,
\* so it is neither resumed twice nor forgotten.
THEOREM ReachedOnce == ChannelSpec => []PostedOnce
<1>1. ChannelInit => ChannelTypeOK /\ ChannelPlaced
  BY InitTyped, ChannelInitPlaced
<1>2. ChannelTypeOK /\ ChannelPlaced /\ [ChannelNext]_channelVars => ChannelTypeOK' /\ ChannelPlaced'
  BY TypedNext, ChannelPlacedNext
<1>3. ChannelTypeOK /\ ChannelPlaced => PostedOnce
  BY PlacedOnce
<1> QED
  BY <1>1, <1>2, <1>3, PTL DEF ChannelSpec

-----------------------------------------------------------------------------
(* The order of each sender *)

\* A sender numbers its messages, has at most the last of them in the enqueue service,
\* and the ring has accepted the others in the order of their numbers.
Ordered ==
  /\ \A i \in DOMAIN accepted : accepted[i][2] <= posted[accepted[i][1]]
  /\ \A i, j \in DOMAIN accepted :
       i < j /\ accepted[i][1] = accepted[j][1] => accepted[i][2] < accepted[j][2]
  /\ \A i \in DOMAIN sending :
       sending[i].message = <<sending[i].coroutine, posted[sending[i].coroutine]>>
  /\ \A i \in DOMAIN sending, k \in DOMAIN accepted :
       accepted[k][1] = sending[i].coroutine => accepted[k][2] < posted[accepted[k][1]]

LEMMA OrderedNext ==
  ASSUME ChannelTypeOK, ChannelTypeOK', ChannelPlaced, Ordered, [ChannelNext]_channelVars
  PROVE  Ordered'
<1>1. /\ accepted \in Seq(Messages) /\ Len(accepted) \in Nat
      /\ sending \in Seq(Posts) /\ Len(sending) \in Nat
      /\ DOMAIN accepted = 1..Len(accepted) /\ DOMAIN sending = 1..Len(sending)
      /\ posted \in [Senders -> Nat] /\ MaxSend \in Nat
  BY SendAssumption DEF ChannelTypeOK, Posts
<1>2. \A i \in DOMAIN accepted : accepted[i][1] \in Senders /\ accepted[i][2] \in Nat
  <2> SUFFICES ASSUME NEW i \in DOMAIN accepted
               PROVE  accepted[i][1] \in Senders /\ accepted[i][2] \in Nat
    OBVIOUS
  <2>1. accepted[i] \in Messages
    BY <1>1
  <2> QED
    BY <1>1, <2>1 DEF Messages
<1>3. ASSUME NEW s \in Senders, SendMessage(s) PROVE Ordered'
  <2>1. /\ sending' = <<[coroutine |-> s, message |-> <<s, posted[s] + 1>>]>> \o sending
        /\ posted' = [posted EXCEPT ![s] = @ + 1] /\ s \notin suspended /\ accepted' = accepted
    BY <1>3 DEF SendMessage, PostEnqueue
  <2>2. posted'[s] = posted[s] + 1 /\ \A q \in Senders \ {s} : posted'[q] = posted[q]
    BY <1>1, <2>1
  <2>3. \A i \in DOMAIN sending : sending[i].coroutine # s
    BY <1>1, <2>1 DEF ChannelPlaced, Posted, ToSet
  <2>4. <<s, posted[s] + 1>> \in Messages
    BY <1>3, SendAssumption DEF SendMessage, Messages, ChannelTypeOK
  <2>5. [coroutine |-> s, message |-> <<s, posted[s] + 1>>] \in Posts
    BY <2>4 DEF Posts
  <2>6. /\ DOMAIN sending' = 1..(Len(sending) + 1)
        /\ sending'[1] = [coroutine |-> s, message |-> <<s, posted[s] + 1>>]
        /\ \A i \in DOMAIN sending' : i # 1 => /\ i - 1 \in DOMAIN sending
                                              /\ sending'[i] = sending[i - 1]
    <3> DEFINE post == [coroutine |-> s, message |-> <<s, posted[s] + 1>>]
    <3>1. post \in Posts /\ sending' = <<post>> \o sending
      BY <2>1, <2>5
    <3> HIDE DEF post
    <3>2. /\ Len(<<post>> \o sending) = Len(sending) + 1 /\ (<<post>> \o sending)[1] = post
          /\ \A i \in 1..(Len(sending) + 1) :
                i # 1 => (<<post>> \o sending)[i] = sending[i - 1]
      BY <1>1, <3>1
    <3>3. <<post>> \o sending \in Seq(Posts)
      BY <1>1, <3>1
    <3>4. \A i \in 1..(Len(sending) + 1) : i # 1 => i - 1 \in 1..Len(sending)
      BY <1>1
    <3> QED
      BY <1>1, <3>1, <3>2, <3>3, <3>4 DEF post
  <2>7. \A i \in DOMAIN accepted : accepted'[i][2] <= posted'[accepted[i][1]]
    BY <1>1, <1>2, <2>1, <2>2 DEF Ordered
  <2>8. ASSUME NEW i \in DOMAIN sending'
        PROVE  /\ sending'[i].message = <<sending'[i].coroutine, posted'[sending'[i].coroutine]>>
               /\ \A k \in DOMAIN accepted : accepted[k][1] = sending'[i].coroutine
                                            => accepted[k][2] < posted'[accepted[k][1]]
    <3>1. CASE i = 1
      <4>1. sending'[i].coroutine = s /\ sending'[i].message = <<s, posted'[s]>>
        BY <2>2, <2>6, <3>1
      <4>2. \A k \in DOMAIN accepted : accepted[k][1] = s => accepted[k][2] < posted[s] + 1
        BY <1>1, <1>2 DEF Ordered
      <4> QED
        BY <2>2, <4>1, <4>2
    <3>2. CASE i # 1
      <4>1. i - 1 \in DOMAIN sending /\ sending'[i] = sending[i - 1]
        BY <2>6, <3>2
      <4>2. sending[i - 1].coroutine \in Senders \ {s}
        <5>1. sending[i - 1] \in Posts
          BY <1>1, <4>1
        <5> QED
          BY <2>3, <4>1, <5>1 DEF Posts
      <4>3. posted'[sending[i - 1].coroutine] = posted[sending[i - 1].coroutine]
        BY <2>2, <4>2
      <4> QED
        BY <4>1, <4>3 DEF Ordered
    <3> QED
      BY <3>1, <3>2
  <2> QED
    BY <2>1, <2>7, <2>8 DEF Ordered
<1>4. ASSUME TryEnqueue PROVE Ordered'
  <2>1. CASE RingSize(head, tail) < Bound
    <3> DEFINE c == sending[Tried].coroutine
               m == sending[Tried].message
    <3>1. /\ sending' = RemoveAt(sending, Tried) /\ passed < Len(sending)
          /\ accepted' = Append(accepted, m) /\ posted' = posted
      BY <1>4, <2>1 DEF TryEnqueue
    <3>2. Tried \in 1..Len(sending) /\ Tried \in Nat /\ m \in Messages /\ c \in Senders
      BY <3>1, TriedPost
    <3>3. m = <<c, posted[c]>>
      BY <1>1, <3>2 DEF Ordered
    <3> HIDE DEF c, m
    <3>4. /\ DOMAIN accepted' = 1..(Len(accepted) + 1)
          /\ accepted'[Len(accepted) + 1] = m
          /\ \A k \in DOMAIN accepted : accepted'[k] = accepted[k]
      BY <1>1, <3>1, <3>2
    <3>5. \A k \in DOMAIN accepted : accepted[k][1] = c => accepted[k][2] < posted[c]
      BY <1>1, <3>2 DEF Ordered, c
    <3>6. ASSUME NEW i \in DOMAIN sending'
          PROVE  sending'[i].coroutine # c /\ \E k \in DOMAIN sending : sending'[i] = sending[k]
      <4> DEFINE at == IF i < Tried THEN i ELSE i + 1
      <4>1. /\ DOMAIN sending' = 1..(Len(sending) - 1)
            /\ \A k \in 1..(Len(sending) - 1) :
                 sending'[k] = IF k < Tried THEN sending[k] ELSE sending[k + 1]
        <5>1. /\ RemoveAt(sending, Tried) \in Seq(Posts)
              /\ Len(RemoveAt(sending, Tried)) = Len(sending) - 1
              /\ \A k \in 1..(Len(sending) - 1) :
                   RemoveAt(sending, Tried)[k] = IF k < Tried THEN sending[k] ELSE sending[k + 1]
          BY <1>1, <3>2, ListRemoveAt
        <5> QED
          BY <3>1, <5>1
      <4>2. at \in 1..Len(sending) /\ at # Tried /\ sending'[i] = sending[at]
        BY <1>1, <3>2, <4>1
      <4> HIDE DEF at
      <4>3. IsInjective(Posted) /\ DOMAIN Posted = 1..Len(sending)
        BY DEF ChannelPlaced, Posted
      <4>4. Posted[at] # Posted[Tried]
        BY <3>2, <4>2, <4>3 DEF IsInjective
      <4>5. sending[at].coroutine # c
        BY <3>2, <4>2, <4>4 DEF Posted, c
      <4> QED
        BY <1>1, <4>2, <4>5
    <3>7. m[1] = c /\ m[2] = posted[c] /\ posted[c] \in Nat
      BY <1>1, <3>2, <3>3
    <3>8. ASSUME NEW i \in DOMAIN accepted' PROVE accepted'[i][2] <= posted'[accepted'[i][1]]
      <4>1. CASE i \in DOMAIN accepted
        BY <3>1, <3>4, <4>1 DEF Ordered
      <4>2. CASE i = Len(accepted) + 1
        BY <3>1, <3>4, <3>7, <4>2
      <4> QED
        BY <1>1, <3>4, <4>1, <4>2
    <3>9. ASSUME NEW i \in DOMAIN accepted', NEW j \in DOMAIN accepted',
                 i < j, accepted'[i][1] = accepted'[j][1]
          PROVE  accepted'[i][2] < accepted'[j][2]
      <4>1. i \in DOMAIN accepted /\ (j \in DOMAIN accepted \/ j = Len(accepted) + 1)
        BY <1>1, <3>4, <3>9
      <4>2. CASE j \in DOMAIN accepted
        BY <3>4, <3>9, <4>1, <4>2 DEF Ordered
      <4>3. CASE j = Len(accepted) + 1
        BY <3>4, <3>5, <3>7, <3>9, <4>1, <4>3
      <4> QED
        BY <4>1, <4>2, <4>3
    <3>10. ASSUME NEW i \in DOMAIN sending'
           PROVE  /\ sending'[i].message
                       = <<sending'[i].coroutine, posted'[sending'[i].coroutine]>>
                  /\ \A k \in DOMAIN accepted' : accepted'[k][1] = sending'[i].coroutine
                                               => accepted'[k][2] < posted'[accepted'[k][1]]
      <4>1. PICK k \in DOMAIN sending : sending'[i] = sending[k]
        BY <3>6
      <4>2. sending[k].coroutine # c
        BY <3>6, <4>1
      <4>3. sending'[i].message = <<sending'[i].coroutine, posted'[sending'[i].coroutine]>>
        BY <3>1, <4>1 DEF Ordered
      <4>4. ASSUME NEW n \in DOMAIN accepted', accepted'[n][1] = sending'[i].coroutine
            PROVE  accepted'[n][2] < posted'[accepted'[n][1]]
        <5>1. n # Len(accepted) + 1
          BY <3>4, <3>7, <4>1, <4>2, <4>4
        <5>2. n \in DOMAIN accepted
          BY <1>1, <3>4, <5>1
        <5> QED
          BY <3>1, <3>4, <4>1, <4>4, <5>2 DEF Ordered
      <4> QED
        BY <4>3, <4>4
    <3> QED
      BY <3>8, <3>9, <3>10 DEF Ordered
  <2>2. CASE ~(RingSize(head, tail) < Bound)
    BY <1>4, <2>2 DEF TryEnqueue, Ordered
  <2> QED
    BY <2>1, <2>2
<1>5. ASSUME UNCHANGED <<sending, posted, accepted>> PROVE Ordered'
  BY <1>5 DEF Ordered
<1> QED
  BY <1>3, <1>4, <1>5 DEF ChannelNext, CommitService, ReceiveMessage, TryDequeue, EndCommit, channelVars

LEMMA InitOrdered == ChannelInit => Ordered
BY DEF ChannelInit, Ordered

\* The messages of one sender are received in the order in which it sent them, as long
\* as the ring is not overrun.
THEOREM SendersInOrder ==
  ASSUME Window < Bound
  PROVE  ChannelSpec => []SenderOrder
<1>1. ChannelInit => ChannelTypeOK /\ Ring /\ ChannelPlaced /\ Ordered
  BY InitTyped, InitRing, ChannelInitPlaced, InitOrdered
<1>2. ChannelTypeOK /\ Ring /\ ChannelPlaced /\ Ordered /\ [ChannelNext]_channelVars
        => ChannelTypeOK' /\ Ring' /\ ChannelPlaced' /\ Ordered'
  BY TypedNext, RingNext, ChannelPlacedNext, OrderedNext
<1>3. ChannelTypeOK /\ Ring /\ Ordered => SenderOrder
  <2> SUFFICES ASSUME ChannelTypeOK, Ring, Ordered PROVE SenderOrder
    OBVIOUS
  <2>1. DOMAIN received = 1..Len(received) /\ DOMAIN accepted = 1..Len(accepted)
    BY DEF ChannelTypeOK
  <2>2. \A k \in DOMAIN received : k \in DOMAIN accepted /\ received[k] = accepted[k]
    <3>1. Len(received) \in Nat /\ Len(accepted) \in Nat /\ Len(received) <= Len(accepted)
      BY DEF ChannelTypeOK, Ring
    <3> QED
      BY <2>1, <3>1 DEF Ring
  <2> QED
    BY <2>2 DEF SenderOrder, Ordered
<1> QED
  BY <1>1, <1>2, <1>3, PTL DEF ChannelSpec

=============================================================================
