------------------------------ MODULE CoMonitor ------------------------------
(***************************************************************************)
(* co_mutex and co_condition_variable, as co_semaphore and co_latch use    *)
(* them: a coroutine locks the mutex, waits in a loop for its predicate,   *)
(* changes the protected state, notifies and unlocks.                      *)
(*                                                                         *)
(* Coroutines run on the threads of the context and keep theirs until they *)
(* suspend, which they do in two places only: in lock(), after spinning in *)
(* vain, through the yield service, and in wait(), after they have         *)
(* registered.  ready holds the coroutines the executor will resume; its   *)
(* queues are the subject of ExecutionContext.                             *)
(*                                                                         *)
(* The list of the condition variable has a lock of its own that is held   *)
(* across one registration or one notification.                            *)
(***************************************************************************)
EXTENDS Integers, Sequences, FiniteSets, SequencesExt

CONSTANTS
  Coroutines,    \* the coroutines that use the primitive
  Concurrencies  \* the contexts considered, by their number of threads

ASSUME MonitorAssumption == IsFiniteSet(Coroutines) /\ Concurrencies \subseteq Nat

VARIABLES
  concurrency, \* _M_concurrency of the context, which never changes
  locked,      \* _M_locked of the mutex
  notify,      \* _M_notify of the condition variable, newest first
  ready,       \* the coroutines handed to the executor
  running,     \* the coroutines that occupy a thread
  pc           \* where each coroutine is in the operation it performs

monitorVars == <<concurrency, locked, notify, ready, running, pc>>

\* users are the coroutines that share the monitor in this behaviour.
MonitorInit(users) ==
  /\ concurrency \in Concurrencies
  /\ locked = FALSE
  /\ notify = <<>>
  /\ ready = users
  /\ running = {}
  /\ pc = [c \in Coroutines |-> IF c \in users THEN "lock" ELSE "done"]

\* Without workers the coroutines run on the loop thread.
NumThreads == IF concurrency = 0 THEN 1 ELSE concurrency

At(c, label) == c \in running /\ pc[c] = label

Goto(c, label) == pc' = [pc EXCEPT ![c] = label]

-----------------------------------------------------------------------------
(* The executor: a coroutine notified before it has suspended is resumed   *)
(* once it has (the semaphore of its group)                                *)

Resume(c) ==
  /\ c \in ready \ running
  /\ Cardinality(running) < NumThreads
  /\ ready' = ready \ {c}
  /\ running' = running \cup {c}
  /\ UNCHANGED <<locked, notify, pc>>

\* The loop goes on polling when no coroutine can run.
Idle == ready = {} /\ running = {} /\ UNCHANGED monitorVars

-----------------------------------------------------------------------------
(* lock() *)

\* Bug: the result of the exchange is ignored.
TryLockAlways(c) ==
  /\ At(c, "lock")
  /\ locked' = TRUE
  /\ Goto(c, "inside")
  /\ UNCHANGED <<notify, ready, running>>

TryLock(c) ==
  /\ At(c, "lock")
  /\ locked' = TRUE
  /\ Goto(c, IF locked THEN "spin" ELSE "inside")
  /\ UNCHANGED <<notify, ready, running>>

SpinEnd(c) ==
  /\ At(c, "spin")
  /\ ~locked
  /\ Goto(c, "lock")
  /\ UNCHANGED <<locked, notify, ready, running>>

\* The spin count is used up; after the yield the coroutine goes on spinning.
SpinYield(c) ==
  /\ At(c, "spin")
  /\ locked
  /\ ready' = ready \cup {c}
  /\ running' = running \ {c}
  /\ UNCHANGED <<locked, notify, pc>>

-----------------------------------------------------------------------------
(* wait() with a predicate that is false *)

WaitUnlock(c) ==
  /\ At(c, "wait")
  /\ locked' = FALSE
  /\ Goto(c, "register")
  /\ UNCHANGED <<notify, ready, running>>

WaitRegister(c) ==
  /\ At(c, "register")
  /\ notify' = <<c>> \o notify
  /\ Goto(c, "suspend")
  /\ UNCHANGED <<locked, ready, running>>

\* Once resumed it locks the mutex and evaluates its predicate again.
WaitSuspend(c) ==
  /\ At(c, "suspend")
  /\ running' = running \ {c}
  /\ Goto(c, "lock")
  /\ UNCHANGED <<locked, notify, ready>>

-----------------------------------------------------------------------------
(* notify_one, notify_all and the end of the operation *)

\* Bug: the coroutine is taken off the list and not resumed.
NotifyOneDrops == notify' = SubSeq(notify, 2, Len(notify)) /\ UNCHANGED ready

NotifyOne ==
  \/ notify = <<>> /\ UNCHANGED <<notify, ready>>
  \/ /\ notify # <<>>
     /\ ready' = ready \cup {Head(notify)}
     /\ notify' = Tail(notify)

\* Bug: the list is not cleared.
NotifyAllKeeps == ready' = ready \cup ToSet(notify) /\ UNCHANGED notify

\* Bug: the list is cleared first.
NotifyAllDrops == notify' = <<>> /\ UNCHANGED ready

NotifyAll ==
  /\ ready' = ready \cup ToSet(notify)
  /\ notify' = <<>>

Unlock(c) == At(c, "unlock") /\ locked' = FALSE

\* The coroutine has finished and leaves its thread.
Leave(c) ==
  /\ Unlock(c)
  /\ running' = running \ {c}
  /\ Goto(c, "done")
  /\ UNCHANGED <<notify, ready>>

MonitorStep(c) ==
  \/ TryLock(c) \/ SpinEnd(c) \/ SpinYield(c)
  \/ WaitUnlock(c) \/ WaitRegister(c) \/ WaitSuspend(c)

-----------------------------------------------------------------------------
Labels == {"lock", "spin", "inside", "wait", "register", "suspend", "take", "notify",
           "unlock", "done"}

MonitorTypeOK ==
  /\ concurrency \in Concurrencies
  /\ locked \in BOOLEAN
  /\ notify \in Seq(Coroutines)
  /\ ready \subseteq Coroutines
  /\ running \subseteq Coroutines /\ Cardinality(running) <= NumThreads
  /\ pc \in [Coroutines -> Labels]

Holds(c) == pc[c] \in {"inside", "wait", "take", "notify", "unlock"}

\* At most one coroutine is between lock() and unlock(), also after it has
\* waited, and the mutex is locked exactly while there is one (co_mutex.hpp:56-77,
\* co_condition_variable.hpp:59,68).
MutualExclusion ==
  /\ \A c, d \in Coroutines : Holds(c) /\ Holds(d) => c = d
  /\ locked <=> \E c \in Coroutines : Holds(c)

\* A coroutine that has not finished occupies a thread, is handed to the
\* executor, or is registered: it is in one place, so no handle is lost or
\* resumed twice.  Between registering and suspending it has two.
OnePlace ==
  /\ IsInjective(notify)
  /\ ToSet(notify) \cap ready = {}
  /\ \A c \in Coroutines :
       /\ pc[c] = "done" <=> c \notin ready \cup running \cup ToSet(notify)
       /\ c \in running /\ c \in ready \cup ToSet(notify) <=> pc[c] = "suspend"
=============================================================================
