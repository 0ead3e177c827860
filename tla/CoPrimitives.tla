---------------------------- MODULE CoPrimitives ----------------------------
(***************************************************************************)
(* The programs that use the primitives built on CoMonitor: in each        *)
(* behaviour the coroutines either share a semaphore or share a latch.     *)
(***************************************************************************)
EXTENDS CoSemaphore, CoLatch

ASSUME UsersAssumption == SemaphoreUsers \cap LatchUsers = {}

vars == <<monitorVars, count, remaining, phase>>

Init ==
  /\ \E users \in {SemaphoreUsers, LatchUsers} : MonitorInit(users)
  /\ count = Desired
  /\ LatchInit

\* The operation ends, unless arrive_and_wait has still to wait.
Finish(c) ==
  /\ Leave(c)
  /\ ~(c \in Arrivers /\ phase[c] = "count")
  /\ UNCHANGED <<count, remaining, phase>>

Step(c) ==
  /\ \/ MonitorStep(c) /\ UNCHANGED <<count, remaining, phase>>
     \/ SemaphoreStep(c) /\ UNCHANGED <<remaining, phase>>
     \/ LatchStep(c) /\ UNCHANGED count
     \/ Finish(c)
  /\ UNCHANGED concurrency

ResumeAny(c) == Resume(c) /\ UNCHANGED <<count, remaining, phase, concurrency>>

Next ==
  \/ \E c \in Coroutines : ResumeAny(c) \/ Step(c)
  \/ Idle /\ UNCHANGED <<count, remaining, phase>>

Spec == Init /\ [][Next]_vars

(***************************************************************************)
(* A coroutine that has a thread runs, and one handed to the executor gets *)
(* a thread although others compete for it: the executor's queue is FIFO   *)
(* and each pass of the loop appends what has yielded (ExecutionContext).  *)
(***************************************************************************)
Fairness == \A c \in Coroutines : WF_vars(Step(c)) /\ SF_vars(ResumeAny(c))

FairSpec == Spec /\ Fairness

-----------------------------------------------------------------------------
\* The type of every variable; neither count goes below zero.
TypeOK ==
  /\ MonitorTypeOK
  /\ count \in Nat
  /\ remaining \in Nat
  /\ phase \in [Coroutines -> {"count", "wait"}]
=============================================================================
