------------------------------ MODULE Services ------------------------------
(***************************************************************************)
(* The services of a context with workers: detail/service_registry.hpp, a  *)
(* list to which a thread appends the service it needs and does not find,  *)
(* while the loop thread walks it; and the pattern of the services         *)
(* themselves, as flag, latch and future service have it: post_frame puts  *)
(* a frame into a list under the lock of the service, commit_frame takes   *)
(* out the frames whose condition holds and pushes them after unlocking.   *)
(*                                                                         *)
(* Each poster is a thread that runs one coroutine, which awaits a         *)
(* condition at a service of its type.  The entry of a service in the list *)
(* is named after the thread that has prepared it.  There is no spurious   *)
(* failure of the compare and exchange (x86); with one, find_from would    *)
(* follow the null pointer it has found.                                   *)
(***************************************************************************)
EXTENDS BasicLockable

CONSTANTS
  Posters,  \* threads that await a condition
  Loop,     \* the thread that calls commit_after
  Types     \* the types of services

ASSUME ServicesAssumption ==
  Loop \notin Posters /\ Threads = Posters \cup {Loop} /\ Locks = Posters

Head0 == "head"   \* the null service at the head of the list
Null == "null"

ASSUME NodeAssumption == Head0 \notin Posters /\ Null \notin Posters

VARIABLES
  type,       \* the type of the service each poster uses (rigid)
  next,       \* _M_next of the head and of each entry
  built,      \* _M_service of each entry is not null
  position,   \* where each thread is in the list
  forward,    \* _M_forward of each service, newest first
  condition,  \* whether the condition of each poster holds
  outstanding,\* the frames the loop has taken
  pushed      \* the frames pushed to the executor, in order

servicesVars == <<lockVars, stage, type, next, built, position, forward, condition, outstanding, pushed>>
registry == <<type, next, built>>
frames == <<forward, outstanding, pushed>>

ServicesInit ==
  /\ LockInit
  /\ type \in [Posters -> Types]
  /\ stage = [t \in Threads |-> IF t = Loop THEN "pass" ELSE "find"]
  /\ next = [n \in Posters \cup {Head0} |-> Null]
  /\ built = [n \in Posters |-> FALSE]
  /\ position = [t \in Threads |-> Head0]
  /\ forward = [n \in Posters |-> <<>>]
  /\ condition = [t \in Posters |-> FALSE]
  /\ outstanding = <<>>
  /\ pushed = <<>>

Move(t, n) == position' = [position EXCEPT ![t] = n]

-----------------------------------------------------------------------------
(* find_from *)

\* The entry has the right type, or the thread goes on to the next, if there is
\* one; a null next that is not null any more is read by the next action.
Find(t) ==
  /\ stage[t] = "find"
  /\ LET here == position[t]
     IN IF here # Head0 /\ type[here] = type[t] THEN ToStage(t, "built") /\ UNCHANGED position
        ELSE IF next[here] = Null THEN ToStage(t, "append") /\ UNCHANGED position
        ELSE Move(t, next[here]) /\ UNCHANGED stage
  /\ UNCHANGED <<lockVars, registry, frames, condition>>

\* Bug: the entry is stored over one that came in between.
AppendBlind(t) ==
  /\ stage[t] = "append"
  /\ next' = [next EXCEPT ![position[t]] = t]
  /\ ToStage(t, "build")
  /\ UNCHANGED <<lockVars, type, built, position, frames, condition>>

\* The exchange that appends the prepared entry; if another came first, the
\* search goes on there.
AppendEntry(t) ==
  /\ stage[t] = "append"
  /\ IF next[position[t]] = Null
     THEN next' = [next EXCEPT ![position[t]] = t] /\ ToStage(t, "build")
          /\ UNCHANGED position
     ELSE Move(t, next[position[t]]) /\ ToStage(t, "find") /\ UNCHANGED next
  /\ UNCHANGED <<lockVars, type, built, frames, condition>>

\* Op_new: the service is constructed after its entry has become visible.
Build(t) ==
  /\ stage[t] = "build"
  /\ built' = [built EXCEPT ![t] = TRUE]
  /\ Move(t, t)
  /\ ToStage(t, "wait")
  /\ UNCHANGED <<lockVars, type, next, frames, condition>>

\* Op_wait
AwaitBuilt(t) ==
  /\ stage[t] = "built"
  /\ built[position[t]]
  /\ ToStage(t, "wait")
  /\ UNCHANGED <<lockVars, registry, position, frames, condition>>

-----------------------------------------------------------------------------
(* post_frame *)

Post(t) ==
  /\ stage[t] = "inside"
  /\ t # Loop
  /\ forward' = [forward EXCEPT ![position[t]] = <<t>> \o @]
  /\ ToStage(t, "unlock")
  /\ UNCHANGED <<lockVars, registry, position, outstanding, pushed, condition>>

\* The flag is set, the latch opened, the promise kept.
Satisfy(t) ==
  /\ ~condition[t]
  /\ condition' = [condition EXCEPT ![t] = TRUE]
  /\ UNCHANGED <<lockVars, stage, registry, position, frames>>

-----------------------------------------------------------------------------
(* commit_after, and commit_frame of each service *)

\* The entry after the head, or after the one just committed.
CommitNext ==
  /\ stage[Loop] = "pass"
  /\ IF next[position[Loop]] = Null
     THEN Move(Loop, Head0) /\ UNCHANGED stage
     ELSE Move(Loop, next[position[Loop]]) /\ ToStage(Loop, "built")
  /\ UNCHANGED <<lockVars, registry, frames, condition>>

\* The elements of s at the positions in I, in their order.
Selected(s, I) ==
  [k \in 1..Cardinality(I) |-> s[CHOOSE i \in I : Cardinality({j \in I : j <= i}) = k]]

\* remove_if takes the frames whose condition holds.
Take ==
  /\ stage[Loop] = "inside"
  /\ LET list == forward[position[Loop]]
         ready == {i \in DOMAIN list : condition[list[i]]}
     IN /\ outstanding' = Reverse(Selected(list, ready))
        /\ forward' = [forward EXCEPT ![position[Loop]] = Selected(list, DOMAIN list \ ready)]
  /\ ToStage(Loop, "unlock")
  /\ UNCHANGED <<lockVars, registry, position, pushed, condition>>

Push ==
  /\ stage[Loop] = "push"
  /\ pushed' = pushed \o outstanding
  /\ outstanding' = <<>>
  /\ ToStage(Loop, "pass")
  /\ UNCHANGED <<lockVars, registry, position, forward, condition>>

-----------------------------------------------------------------------------
LockStep(t) ==
  /\ stage[t] \in {"wait", "exchange", "unlock", "notify"}
  /\ \/ LockWait(t, position[t]) \/ LockExchange(t, position[t])
     \/ Unlock(t, position[t])
     \/ Notify(t, position[t], IF t = Loop THEN "push" ELSE "suspended")
  /\ UNCHANGED <<registry, position, frames, condition>>

PosterStep(t) ==
  Find(t) \/ AppendEntry(t) \/ Build(t) \/ AwaitBuilt(t) \/ Post(t) \/ LockStep(t)

LoopStep == CommitNext \/ AwaitBuilt(Loop) \/ Take \/ Push \/ LockStep(Loop)

ServicesNext == (\E t \in Posters : PosterStep(t) \/ Satisfy(t)) \/ LoopStep

ServicesSpec == ServicesInit /\ [][ServicesNext]_servicesVars

(***************************************************************************)
(* Threads run.  The lock is not fair: a thread gets it only if, among the *)
(* times it finds the lock free, it is once quick enough (strong fairness  *)
(* of the two steps that need a free lock).                                *)
(***************************************************************************)
FreeLock(t) == ~locked[position[t]] /\ LockStep(t)

ServicesFairness ==
  /\ WF_servicesVars(LoopStep)
  /\ \A t \in Posters : WF_servicesVars(PosterStep(t)) /\ WF_servicesVars(Satisfy(t))
  /\ \A t \in Threads :
       /\ SF_servicesVars(stage[t] = "wait" /\ FreeLock(t))
       /\ SF_servicesVars(stage[t] = "exchange" /\ FreeLock(t))

ServicesFairSpec == ServicesSpec /\ ServicesFairness

-----------------------------------------------------------------------------
Entries == {n \in Posters : \E m \in Posters \cup {Head0} : next[m] = n}

\* There is one service of each type, though threads that look for it at the same
\* time each prepare one; no entry drops out of the list, and nobody uses a
\* service that is not constructed (service_registry.hpp:111-131).
OneInstance ==
  /\ \A m, n \in Entries : type[m] = type[n] => m = n
  /\ \A t \in Posters : stage[t] = "build" => t \in Entries
  /\ \A t \in Threads :
       stage[t] \in {"wait", "exchange", "inside", "unlock", "notify"} =>
         position[t] \in Entries /\ built[position[t]]

\* One thread at a time changes the list of a service, and a frame is in one place
\* only from post_frame until it has been pushed: a commit that races it neither
\* loses nor doubles it (flag_service.hpp:54-80).
Exclusive ==
  /\ \A t, u \in Threads :
       /\ stage[t] \in {"inside", "unlock"} /\ stage[u] \in {"inside", "unlock"}
       /\ position[t] = position[u]
       => t = u
  /\ LET all == pushed \o outstanding
     IN /\ IsInjective(all)
        /\ \A t \in Posters :
             stage[t] \in {"unlock", "notify", "suspended"} =>
               (t \notin ToSet(all) <=> \E n \in Entries : t \in ToSet(forward[n]))

\* No thread sleeps on a lock for ever, and every frame is pushed once its
\* condition holds, also one posted to a service that was appended during a pass.
EveryFramePushed == \A t \in Posters : <>(t \in ToSet(pushed))
=============================================================================
