---------------------------- MODULE BasicLockable ----------------------------
(***************************************************************************)
(* detail/basic_lockable.hpp: a lock that waits on an atomic boolean.      *)
(* wait(true) blocks a thread only while the value is true; notify_one     *)
(* lets one blocked thread look again.  The compare and exchange is one    *)
(* that fails only if the value is true, as on x86.                        *)
(***************************************************************************)
EXTENDS Integers, Sequences, FiniteSets, SequencesExt

CONSTANTS Threads, Locks

VARIABLES
  locked,   \* _M_locked of each lock
  blocked,  \* the threads that block in wait(true) on each lock
  stage     \* where each thread is

lockVars == <<locked, blocked>>

LockInit ==
  /\ locked = [l \in Locks |-> FALSE]
  /\ blocked = [l \in Locks |-> {}]

ToStage(t, label) == stage' = [stage EXCEPT ![t] = label]

\* wait(true) returns if the value is false, also when it is looked at again.
LockWait(t, l) ==
  /\ stage[t] = "wait"
  /\ t \notin blocked[l]
  /\ IF locked[l]
     THEN blocked' = [blocked EXCEPT ![l] = @ \cup {t}] /\ UNCHANGED stage
     ELSE ToStage(t, "exchange") /\ UNCHANGED blocked
  /\ UNCHANGED locked

\* Bug: the value is not compared.
LockExchangeBlind(t, l) ==
  /\ stage[t] = "exchange"
  /\ locked' = [locked EXCEPT ![l] = TRUE]
  /\ ToStage(t, "inside")
  /\ UNCHANGED blocked

LockExchange(t, l) ==
  /\ stage[t] = "exchange"
  /\ locked' = [locked EXCEPT ![l] = TRUE]
  /\ ToStage(t, IF locked[l] THEN "wait" ELSE "inside")
  /\ UNCHANGED blocked

Unlock(t, l) ==
  /\ stage[t] = "unlock"
  /\ locked' = [locked EXCEPT ![l] = FALSE]
  /\ ToStage(t, "notify")
  /\ UNCHANGED blocked

\* Bug: nobody is notified.
NotifyNot(t, l, next) ==
  /\ stage[t] = "notify"
  /\ ToStage(t, next)
  /\ UNCHANGED lockVars

Notify(t, l, next) ==
  /\ stage[t] = "notify"
  /\ IF blocked[l] = {} THEN UNCHANGED blocked
     ELSE \E u \in blocked[l] : blocked' = [blocked EXCEPT ![l] = @ \ {u}]
  /\ ToStage(t, next)
  /\ UNCHANGED locked
=============================================================================
