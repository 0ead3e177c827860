-------------------------- MODULE ExecutionContext --------------------------
(***************************************************************************)
(* The event loop and the thread pool: execution_context.hpp, detail/      *)
(* frame_executor.hpp, detail/frame_lifetime.hpp, the detached co_spawn    *)
(* and detail/service/yield_service.hpp, through which a running coroutine *)
(* suspends and is scheduled again.                                        *)
(*                                                                         *)
(* A group is a spawned coroutine with the coroutines it awaits: they      *)
(* share one semaphore and one entry of the lifetime list, and one frame   *)
(* handle stands for whichever of them is suspended.                       *)
(*                                                                         *)
(* The remote queue and the deques of the workers are the atomic queues    *)
(* that RemoteQueue and WorkStealing refine (RemoteQueue only when no      *)
(* worker pushes, see there).  The service locks are held across whole     *)
(* actions.                                                                *)
(*                                                                         *)
(* The context is constructed with _M_lifetime(concurrency == 0), and the  *)
(* lifetime list takes its lock only if that argument is true.  With no    *)
(* worker nobody contends for the lock, with workers nobody takes it: the  *)
(* list is modelled link by link and without a lock.                       *)
(***************************************************************************)
EXTENDS Integers, Sequences, FiniteSets, SequencesExt

CONSTANTS
  Groups,   \* the coroutine groups
  Programs  \* the programs considered, see ProgramAssumption

(***************************************************************************)
(* A program constructs the context with a number of threads, spawns the   *)
(* groups of initial before loop() and lets coroutines spawn those of      *)
(* spawned.  maxYield bounds how often a group yields.                     *)
(***************************************************************************)
ASSUME ProgramAssumption ==
  \A p \in Programs :
    /\ p.concurrency \in Nat /\ p.maxYield \in Nat
    /\ p.initial \subseteq Groups /\ p.spawned \subseteq Groups \ p.initial

First == "head"    \* before_begin of the lifetime list
Null == "null"

\* The head of the list and the null pointer are no nodes.
ASSUME NodeAssumption == First \notin Groups /\ Null \notin Groups

VARIABLE program  \* the program that runs, which never changes

Concurrency == program.concurrency  \* _M_concurrency
Initial == program.initial
MaxYield == program.maxYield

Workers == 0..(Concurrency - 1)
AllWorkers == UNION {0..(p.concurrency - 1) : p \in Programs}
Main == -1         \* the thread that calls loop()
Threads == Workers \cup {Main}

VARIABLES
  remote,      \* _M_remote_queue, oldest first
  local,       \* _M_workstealing of each worker, bottom last
  rotation,    \* _M_rotation
  forward,     \* _M_forward of the yield service, newest first
  outstanding, \* what commit_frame still has to push
  link,        \* the lifetime list: successor of First and of each group
  cursor,      \* where remove_frame is in the list
  sem,         \* the binary semaphore of each group
  state,       \* the coroutine: unborn, suspended, running, done, destroyed
  yields,      \* how often each group has yielded
  pc,          \* what each thread does
  cur,         \* the group whose frame each thread handles
  child,       \* the group each thread is spawning
  stop,        \* request_stop was called on the workers
  victim       \* stealing_victim of each worker

vars == <<program, remote, local, rotation, forward, outstanding, link, cursor, sem, state,
          yields, pc, cur, child, stop, victim>>

Init ==
  /\ program \in Programs
  /\ remote = <<>>
  /\ local = [w \in Workers |-> <<>>]
  /\ rotation = 0
  /\ forward = <<>>
  /\ outstanding = <<>>
  /\ link = [n \in Groups \cup {First} |-> Null]
  /\ cursor = First
  /\ sem = [g \in Groups |-> 0]
  /\ state = [g \in Groups |-> "unborn"]
  /\ yields = [g \in Groups |-> 0]
  /\ pc = [t \in Threads |-> IF t = Main THEN "program" ELSE "off"]
  /\ cur = [t \in Threads |-> Null]
  /\ child = [t \in Threads |-> Null]
  /\ stop = FALSE
  /\ victim = [w \in Workers |-> 0]

Goto(t, label) == pc' = [pc EXCEPT ![t] = label]

-----------------------------------------------------------------------------
(* The program: co_spawn before loop(), then loop() *)

ProgramSpawn(g) ==
  /\ pc[Main] = "program"
  /\ g \in Initial
  /\ state[g] = "unborn"
  /\ link' = [link EXCEPT ![g] = link[First], ![First] = g]
  /\ sem' = [sem EXCEPT ![g] = 1]
  /\ state' = [state EXCEPT ![g] = "suspended"]
  /\ remote' = Append(remote, g)
  /\ UNCHANGED <<local, rotation, forward, outstanding, cursor, yields, pc, cur, child, stop, victim>>

\* loop() launches the workers.
Launch ==
  /\ pc[Main] = "program"
  /\ \A g \in Initial : state[g] # "unborn"
  /\ pc' = [t \in Threads |-> IF t = Main THEN "empty" ELSE "pop"]
  /\ UNCHANGED <<remote, local, rotation, forward, outstanding, link, cursor, sem, state,
                 yields, cur, child, stop, victim>>

-----------------------------------------------------------------------------
(* The loop thread *)

\* Bug: the loop ends when nothing is scheduled, though coroutines live.
CheckQueueEmpty ==
  /\ pc[Main] = "empty"
  /\ Goto(Main, IF remote = <<>> THEN "stop" ELSE "dispatch")
  /\ UNCHANGED <<remote, local, rotation, forward, outstanding, link, cursor, sem, state,
                 yields, cur, child, stop, victim>>

CheckEmpty ==
  /\ pc[Main] = "empty"
  /\ Goto(Main, IF link[First] = Null THEN "stop" ELSE "dispatch")
  /\ UNCHANGED <<remote, local, rotation, forward, outstanding, link, cursor, sem, state,
                 yields, cur, child, stop, victim>>

\* dispatch_frame hands the next frame to the deque whose turn it is ...
DispatchLocal ==
  /\ pc[Main] = "dispatch"
  /\ remote # <<>>
  /\ Concurrency > 0
  /\ local' = [local EXCEPT ![rotation] = Append(@, Head(remote))]
  /\ rotation' = (rotation + 1) % Concurrency
  /\ remote' = Tail(remote)
  /\ UNCHANGED <<forward, outstanding, link, cursor, sem, state, yields, pc, cur, child, stop, victim>>

\* ... or, when there are no workers, resumes it in place.
DispatchInPlace ==
  /\ pc[Main] = "dispatch"
  /\ remote # <<>>
  /\ Concurrency = 0
  /\ cur' = [cur EXCEPT ![Main] = Head(remote)]
  /\ remote' = Tail(remote)
  /\ Goto(Main, "acquire")
  /\ UNCHANGED <<local, rotation, forward, outstanding, link, cursor, sem, state, yields,
                 child, stop, victim>>

DispatchEnd ==
  /\ pc[Main] = "dispatch"
  /\ remote = <<>>
  /\ Goto(Main, "commit")
  /\ UNCHANGED <<remote, local, rotation, forward, outstanding, link, cursor, sem, state,
                 yields, cur, child, stop, victim>>

\* Bug: the list is committed but not cleared.
CommitKeeps ==
  /\ pc[Main] = "commit"
  /\ outstanding' = forward
  /\ Goto(Main, "push")
  /\ UNCHANGED <<remote, local, rotation, forward, link, cursor, sem, state, yields, cur,
                 child, stop, victim>>

\* commit_frame of the yield service takes the whole list ...
Commit ==
  /\ pc[Main] = "commit"
  /\ outstanding' = forward
  /\ forward' = <<>>
  /\ Goto(Main, "push")
  /\ UNCHANGED <<remote, local, rotation, link, cursor, sem, state, yields, cur, child, stop, victim>>

\* ... and pushes its frames one by one.
CommitPush ==
  /\ pc[Main] = "push"
  /\ outstanding # <<>>
  /\ remote' = Append(remote, Head(outstanding))
  /\ outstanding' = Tail(outstanding)
  /\ UNCHANGED <<local, rotation, forward, link, cursor, sem, state, yields, pc, cur, child, stop, victim>>

CommitEnd ==
  /\ pc[Main] = "push"
  /\ outstanding = <<>>
  /\ cursor' = First
  /\ Goto(Main, "remove")
  /\ UNCHANGED <<remote, local, rotation, forward, outstanding, link, sem, state, yields,
                 cur, child, stop, victim>>

\* remove_frame: past a coroutine that is not done.
RemoveSkip ==
  /\ pc[Main] = "remove"
  /\ link[cursor] # Null
  /\ state[link[cursor]] # "done"
  /\ cursor' = link[cursor]
  /\ UNCHANGED <<remote, local, rotation, forward, outstanding, link, sem, state, yields, pc,
                 cur, child, stop, victim>>

\* Bug: a coroutine that can be locked is taken for one that is done.
RemoveSuspended ==
  /\ pc[Main] = "remove"
  /\ link[cursor] # Null
  /\ sem[link[cursor]] = 1
  /\ sem' = [sem EXCEPT ![link[cursor]] = 0]
  /\ state' = [state EXCEPT ![link[cursor]] = "destroyed"]
  /\ link' = [link EXCEPT ![cursor] = link[link[cursor]]]
  /\ UNCHANGED <<remote, local, rotation, forward, outstanding, cursor, yields, pc, cur,
                 child, stop, victim>>

\* remove_frame: a coroutine that is done is destroyed once its last
\* resumption has released the semaphore.
RemoveDone ==
  /\ pc[Main] = "remove"
  /\ link[cursor] # Null
  /\ state[link[cursor]] = "done"
  /\ sem[link[cursor]] = 1
  /\ sem' = [sem EXCEPT ![link[cursor]] = 0]
  /\ state' = [state EXCEPT ![link[cursor]] = "destroyed"]
  /\ link' = [link EXCEPT ![cursor] = link[link[cursor]]]
  /\ UNCHANGED <<remote, local, rotation, forward, outstanding, cursor, yields, pc, cur,
                 child, stop, victim>>

RemoveEnd ==
  /\ pc[Main] = "remove"
  /\ link[cursor] = Null
  /\ Goto(Main, "empty")
  /\ UNCHANGED <<remote, local, rotation, forward, outstanding, link, cursor, sem, state,
                 yields, cur, child, stop, victim>>

\* Bug: the workers are joined but not stopped.
RequestStopNot ==
  /\ pc[Main] = "stop"
  /\ Goto(Main, "join")
  /\ UNCHANGED <<remote, local, rotation, forward, outstanding, link, cursor, sem, state,
                 yields, cur, child, stop, victim>>

RequestStop ==
  /\ pc[Main] = "stop"
  /\ stop' = TRUE
  /\ Goto(Main, "join")
  /\ UNCHANGED <<remote, local, rotation, forward, outstanding, link, cursor, sem, state,
                 yields, cur, child, victim>>

Join ==
  /\ pc[Main] = "join"
  /\ \A w \in Workers : pc[w] = "off"
  /\ Goto(Main, "ended")
  /\ UNCHANGED <<remote, local, rotation, forward, outstanding, link, cursor, sem, state,
                 yields, cur, child, stop, victim>>

Ended == pc[Main] = "ended" /\ UNCHANGED vars

-----------------------------------------------------------------------------
(* A worker: local_thread_invoke *)

WorkerStop(w) ==
  /\ pc[w] = "pop"
  /\ stop
  /\ Goto(w, "off")
  /\ UNCHANGED <<remote, local, rotation, forward, outstanding, link, cursor, sem, state,
                 yields, cur, child, stop, victim>>

TryPopLocal(w) ==
  /\ pc[w] = "pop"
  /\ ~stop
  /\ IF local[w] = <<>>
     THEN Goto(w, "steal") /\ UNCHANGED <<local, cur>>
     ELSE /\ cur' = [cur EXCEPT ![w] = Last(local[w])]
          /\ local' = [local EXCEPT ![w] = Front(local[w])]
          /\ Goto(w, "acquire")
  /\ UNCHANGED <<remote, rotation, forward, outstanding, link, cursor, sem, state, yields,
                 child, stop, victim>>

\* try_steal of the next victim that is not the worker itself ...
TrySteal(w) ==
  /\ pc[w] = "steal"
  /\ victim[w] \in Workers \ {w}
  /\ local[victim[w]] # <<>>
  /\ cur' = [cur EXCEPT ![w] = Head(local[victim[w]])]
  /\ local' = [local EXCEPT ![victim[w]] = Tail(@)]
  /\ victim' = [victim EXCEPT ![w] = 0]
  /\ Goto(w, "acquire")
  /\ UNCHANGED <<remote, rotation, forward, outstanding, link, cursor, sem, state, yields,
                 child, stop>>

\* ... which fails if its deque is empty, or another thread took the frame first.
StealNext(w) ==
  /\ pc[w] = "steal"
  /\ victim[w] \in Workers
  /\ victim' = [victim EXCEPT ![w] = @ + 1]
  /\ UNCHANGED <<remote, local, rotation, forward, outstanding, link, cursor, sem, state,
                 yields, pc, cur, child, stop>>

StealNothing(w) ==
  /\ pc[w] = "steal"
  /\ victim[w] = Concurrency
  /\ victim' = [victim EXCEPT ![w] = 0]
  /\ Goto(w, "pop")
  /\ UNCHANGED <<remote, local, rotation, forward, outstanding, link, cursor, sem, state,
                 yields, cur, child, stop>>

-----------------------------------------------------------------------------
(* resume_to, on a worker or, without workers, on the loop thread *)

\* Bug: the frame is resumed without the semaphore.
AcquireNot(t) ==
  /\ pc[t] = "acquire"
  /\ state' = [state EXCEPT ![cur[t]] = "running"]
  /\ Goto(t, "run")
  /\ UNCHANGED <<remote, local, rotation, forward, outstanding, link, cursor, sem, yields,
                 cur, child, stop, victim>>

Acquire(t) ==
  /\ pc[t] = "acquire"
  /\ sem[cur[t]] = 1
  /\ sem' = [sem EXCEPT ![cur[t]] = 0]
  /\ state' = [state EXCEPT ![cur[t]] = "running"]
  /\ Goto(t, "run")
  /\ UNCHANGED <<remote, local, rotation, forward, outstanding, link, cursor, yields, cur,
                 child, stop, victim>>

\* The coroutine posts its frame to the yield service; it still runs.
YieldPost(t) ==
  /\ pc[t] = "run"
  /\ yields[cur[t]] < MaxYield
  /\ yields' = [yields EXCEPT ![cur[t]] = @ + 1]
  /\ forward' = <<cur[t]>> \o forward
  /\ Goto(t, "suspend")
  /\ UNCHANGED <<remote, local, rotation, outstanding, link, cursor, sem, state, cur, child, stop, victim>>

Suspend(t) ==
  /\ pc[t] = "suspend"
  /\ state' = [state EXCEPT ![cur[t]] = "suspended"]
  /\ Goto(t, "release")
  /\ UNCHANGED <<remote, local, rotation, forward, outstanding, link, cursor, sem, yields,
                 cur, child, stop, victim>>

\* The coroutine spawns another one: the node of the lifetime list is linked
\* to the first one it sees, ...
SpawnNode(t, g) ==
  /\ pc[t] = "run"
  /\ g \in program.spawned
  /\ state[g] = "unborn"
  /\ child' = [child EXCEPT ![t] = g]
  /\ state' = [state EXCEPT ![g] = "suspended"]
  /\ sem' = [sem EXCEPT ![g] = 1]
  /\ link' = [link EXCEPT ![g] = link[First]]
  /\ Goto(t, "link")
  /\ UNCHANGED <<remote, local, rotation, forward, outstanding, cursor, yields, cur, stop, victim>>

\* ... it becomes the first one, ...
SpawnLink(t) ==
  /\ pc[t] = "link"
  /\ link' = [link EXCEPT ![First] = child[t]]
  /\ Goto(t, "spawn")
  /\ UNCHANGED <<remote, local, rotation, forward, outstanding, cursor, sem, state, yields,
                 cur, child, stop, victim>>

\* ... and the frame is pushed to the executor.
SpawnPush(t) ==
  /\ pc[t] = "spawn"
  /\ remote' = Append(remote, child[t])
  /\ Goto(t, "run")
  /\ UNCHANGED <<local, rotation, forward, outstanding, link, cursor, sem, state, yields,
                 cur, child, stop, victim>>

Finish(t) ==
  /\ pc[t] = "run"
  /\ state' = [state EXCEPT ![cur[t]] = "done"]
  /\ Goto(t, "release")
  /\ UNCHANGED <<remote, local, rotation, forward, outstanding, link, cursor, sem, yields,
                 cur, child, stop, victim>>

Release(t) ==
  /\ pc[t] = "release"
  /\ sem' = [sem EXCEPT ![cur[t]] = 1]
  /\ Goto(t, IF t = Main THEN "dispatch" ELSE "pop")
  /\ UNCHANGED <<remote, local, rotation, forward, outstanding, link, cursor, state, yields,
                 cur, child, stop, victim>>

-----------------------------------------------------------------------------
MainStep ==
  \/ CheckEmpty
  \/ DispatchLocal \/ DispatchInPlace \/ DispatchEnd
  \/ Commit \/ CommitPush \/ CommitEnd
  \/ RemoveSkip \/ RemoveDone \/ RemoveEnd
  \/ RequestStop \/ Join

WorkerStep(w) == WorkerStop(w) \/ TryPopLocal(w) \/ TrySteal(w) \/ StealNext(w) \/ StealNothing(w)

ResumeStep(t) ==
  \/ Acquire(t)
  \/ YieldPost(t) \/ Suspend(t)
  \/ \E g \in Groups : SpawnNode(t, g)
  \/ SpawnLink(t) \/ SpawnPush(t)
  \/ Finish(t) \/ Release(t)

Next ==
  /\ \/ \E g \in Groups : ProgramSpawn(g)
     \/ Launch
     \/ MainStep
     \/ \E w \in Workers : WorkerStep(w)
     \/ \E t \in Threads : ResumeStep(t)
     \/ Ended
  /\ UNCHANGED program

Spec == Init /\ [][Next]_vars

(***************************************************************************)
(* Every thread runs, and a coroutine that runs finishes: it yields and    *)
(* spawns a bounded number of times.  Steals may fail for ever; the owner  *)
(* of a deque then pops it.                                                *)
(***************************************************************************)
Keep(A) == A /\ UNCHANGED program

Fairness ==
  /\ WF_vars(Keep(\E g \in Groups : ProgramSpawn(g))) /\ WF_vars(Keep(Launch))
  /\ WF_vars(Keep(MainStep))
  /\ \A w \in AllWorkers : WF_vars(Keep(w \in Workers /\ WorkerStep(w)))
  /\ \A t \in AllWorkers \cup {Main} : WF_vars(Keep(t \in Threads /\ ResumeStep(t)))

FairSpec == Spec /\ Fairness

-----------------------------------------------------------------------------
States == {"unborn", "suspended", "running", "done", "destroyed"}

\* The type of every variable.
TypeOK ==
  /\ remote \in Seq(Groups) /\ forward \in Seq(Groups) /\ outstanding \in Seq(Groups)
  /\ local \in [Workers -> Seq(Groups)]
  /\ rotation \in Workers \cup {0}
  /\ link \in [Groups \cup {First} -> Groups \cup {Null}]
  /\ cursor \in Groups \cup {First}
  /\ sem \in [Groups -> {0, 1}]
  /\ state \in [Groups -> States]
  /\ yields \in [Groups -> 0..MaxYield]
  /\ pc \in [Threads -> {"program", "off", "empty", "dispatch", "commit", "push", "remove",
                         "stop", "join", "ended", "pop", "steal", "acquire", "run",
                         "suspend", "link", "spawn", "release"}]
  /\ cur \in [Threads -> Groups \cup {Null}]
  /\ child \in [Threads -> Groups \cup {Null}]
  /\ stop \in BOOLEAN
  /\ victim \in [Workers -> 0..Concurrency]

Inside(t) == pc[t] \in {"run", "suspend", "link", "spawn", "release"}

\* A coroutine group runs on one thread at a time although its frame is
\* scheduled again before it has suspended (the semaphore of resume_to, lines
\* 125-137).
OneThreadPerGroup ==
  \A t, u \in Threads : Inside(t) /\ Inside(u) /\ cur[t] = cur[u] => t = u

\* What resume_to is about to resume is suspended, neither running nor done, and
\* remove_frame has not destroyed it; nor does it destroy a group whose
\* semaphore a thread has still to release (frame_executor.hpp:127-136,
\* frame_lifetime.hpp:38).
ResumesSuspended ==
  \A t \in Threads :
    /\ pc[t] = "acquire" =>
         /\ state[cur[t]] \notin {"done", "destroyed"}
         /\ sem[cur[t]] = 1 => state[cur[t]] = "suspended"
    /\ Inside(t) => state[cur[t]] # "destroyed"

\* How many handles of g wait to be resumed, wherever they wait.
Handles(g) ==
  LET In(s) == Cardinality({i \in DOMAIN s : s[i] = g})
  IN In(remote) + In(forward) + In(outstanding)
     + Cardinality(UNION {{w} \X {i \in DOMAIN local[w] : local[w][i] = g} : w \in Workers})
     + Cardinality({t \in Threads : pc[t] = "acquire" /\ cur[t] = g})
     + Cardinality({t \in Threads : pc[t] \in {"link", "spawn"} /\ child[t] = g})

\* A suspended coroutine has exactly one handle in the queues and services: it
\* is neither forgotten nor resumed twice.
OneHandle ==
  \A g \in Groups :
    /\ state[g] = "suspended" => Handles(g) = 1
    /\ state[g] \in {"done", "destroyed"} => Handles(g) = 0

\* loop() returns only when every coroutine spawned so far has been destroyed
\* (execution_context.hpp:43, frame_lifetime.hpp:83).
LoopEndsLast ==
  pc[Main] \in {"stop", "join", "ended"} =>
    \A g \in Groups : state[g] \in {"unborn", "destroyed"}

\* loop() returns, with every worker joined; with LoopEndsLast, every coroutine
\* that was spawned has then finished and been destroyed.
LoopEnds == <>(pc[Main] = "ended")
=============================================================================
