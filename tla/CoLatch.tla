------------------------------- MODULE CoLatch -------------------------------
(***************************************************************************)
(* co_latch: co_latch.hpp on top of CoMonitor.  A coroutine counts down,   *)
(* waits, or arrives: counts down and then waits.  CoPrimitives adds the   *)
(* steps of the mutex.                                                     *)
(***************************************************************************)
EXTENDS CoMonitor

CONSTANTS
  Counters,  \* coroutines that call count_down()
  Arrivers,  \* coroutines that call arrive_and_wait()
  Waiters    \* coroutines that call wait()

LatchUsers == Counters \cup Arrivers \cup Waiters

ASSUME LatchAssumption == LatchUsers \subseteq Coroutines

VARIABLES
  remaining,  \* _M_count of the latch, initially the number of coroutines that count down
  phase       \* what each coroutine does: "count" or "wait"

LatchInit ==
  /\ remaining = Cardinality(Counters \cup Arrivers)
  /\ phase = [c \in Coroutines |-> IF c \in Waiters THEN "wait" ELSE "count"]

-----------------------------------------------------------------------------
CountDown(c) ==
  /\ At(c, "inside")
  /\ c \in LatchUsers
  /\ phase[c] = "count"
  /\ remaining' = remaining - 1
  /\ Goto(c, IF remaining' = 0 THEN "notify" ELSE "unlock")
  /\ UNCHANGED <<locked, notify, ready, running, phase>>

CountNotify(c) ==
  /\ At(c, "notify")
  /\ c \in LatchUsers
  /\ NotifyAll
  /\ Goto(c, "unlock")
  /\ UNCHANGED <<locked, running, remaining, phase>>

\* Bug: off by one.
WaitCheckAtOne(c) ==
  /\ At(c, "inside")
  /\ c \in LatchUsers
  /\ phase[c] = "wait"
  /\ Goto(c, IF remaining <= 1 THEN "unlock" ELSE "wait")
  /\ UNCHANGED <<locked, notify, ready, running, remaining, phase>>

\* The predicate of wait().
WaitCheck(c) ==
  /\ At(c, "inside")
  /\ c \in LatchUsers
  /\ phase[c] = "wait"
  /\ Goto(c, IF remaining = 0 THEN "unlock" ELSE "wait")
  /\ UNCHANGED <<locked, notify, ready, running, remaining, phase>>

\* arrive_and_wait goes on with wait().
ThenWait(c) ==
  /\ Unlock(c)
  /\ c \in Arrivers
  /\ phase[c] = "count"
  /\ phase' = [phase EXCEPT ![c] = "wait"]
  /\ Goto(c, "lock")
  /\ UNCHANGED <<notify, ready, running, remaining>>

LatchStep(c) == CountDown(c) \/ CountNotify(c) \/ WaitCheck(c) \/ ThenWait(c)

-----------------------------------------------------------------------------
\* Nobody passes the latch before everybody has counted down.
Barrier ==
  \A c, d \in Coroutines :
    pc[c] = "done" /\ phase[c] = "wait" /\ d \in Counters \cup Arrivers =>
      phase[d] = "wait" \/ pc[d] \in {"notify", "unlock", "done"}

\* Without workers every coroutine passes the latch; with workers a waiter may
\* miss the last count_down as in CoSemaphore.
EveryonePasses == concurrency = 0 => \A c \in LatchUsers : <>(pc[c] = "done")
=============================================================================
