--------------------------- MODULE CombinatorsProofs ---------------------------
(***************************************************************************)
(* Theorems about the combinators, for any programs, numbers of workers,   *)
(* orders of the services and durations.                                   *)
(***************************************************************************)
EXTENDS Combinators, ListFacts, FiniteSetTheorems, TLAPS

Lists == {"yield", "flag", "latch", "future"}

Labels == {"unborn", "install", "spawn", "run", "post", "asleep", "caught", "count", "arrive",
           "store", "set", "awaiting", "cancel", "spin", "restore", "clear", "done"}

\* The timers that have not been cancelled.
Live == {e \in timers : e.token # Cancelled}

Timers ==
  /\ now \in Nat /\ counter \in Nat
  /\ IsFiniteSet(timers)
  /\ timers \subseteq [frame : Branches, due : Nat, token : Nat \cup {Cancelled}]
  /\ token \in [Coroutines -> Nat \cup {Unset}]
  /\ \A d, e \in Live : d.frame = e.frame => d = e

Threads ==
  /\ program \in Programs
  /\ ready \in Seq(Coroutines) /\ IsInjective(ready)
  /\ waiting \in [Lists -> Seq(Coroutines)]
  /\ \A s \in Lists : IsInjective(waiting[s])
  /\ running \subseteq Coroutines
  /\ pc \in [Coroutines -> Labels]

\* The branches are spawned in order.
Births ==
  /\ spawned \in 0..Len(program.ends)
  /\ \A b \in Branches : pc[b] = "unborn" <=> b \notin 1..spawned
  /\ pc[Main] # "unborn"

-----------------------------------------------------------------------------
(* Places *)

Places == Lists \cup {"ready", "running", "time"}

\* Who is where.
Held == [p \in Places |-> CASE p = "ready" -> ToSet(ready)
                            [] p = "running" -> running
                            [] p = "time" -> {e.frame : e \in Live}
                            [] OTHER -> ToSet(waiting[p])]

Active == {c \in Coroutines : pc[c] \notin {"unborn", "done"}}

\* The members of A are in one place each, and nobody else is in any.
Partition(places, A) ==
  /\ \A p, q \in Places : p # q => places[p] \cap places[q] = {}
  /\ \A c \in Coroutines : c \in A <=> \E p \in Places : c \in places[p]

Placed == Partition(Held, Active)

\* Some move from one place to another.
LEMMA Moved ==
  ASSUME NEW H, NEW G, NEW A, Partition(H, A),
         NEW p \in Places, NEW q \in Places, p # q, NEW M \in SUBSET H[p],
         G[p] = H[p] \ M, G[q] = H[q] \cup M, \A o \in Places \ {p, q} : G[o] = H[o]
  PROVE  Partition(G, A)
<1>1. ASSUME NEW o \in Places, NEW n \in Places, o # n PROVE G[o] \cap G[n] = {}
  <2>1. \A c \in M : c \in H[p] /\ \A m \in Places \ {p} : c \notin H[m]
    BY DEF Partition
  <2>2. \A m \in Places : \A c \in G[m] : c \in H[m] \/ (m = q /\ c \in M)
    OBVIOUS
  <2>3. H[o] \cap H[n] = {}
    BY <1>1 DEF Partition
  <2> QED
    BY <1>1, <2>1, <2>2, <2>3
<1>2. ASSUME NEW c \in Coroutines PROVE c \in A <=> \E o \in Places : c \in G[o]
  <2>1. (\E o \in Places : c \in H[o]) <=> (\E o \in Places : c \in G[o])
    OBVIOUS
  <2> QED
    BY <2>1 DEF Partition
<1> QED
  BY <1>1, <1>2 DEF Partition

\* One moves.
LEMMA MovedOne ==
  ASSUME NEW H, NEW G, NEW A, Partition(H, A),
         NEW p \in Places, NEW q \in Places, p # q, NEW c \in H[p],
         G[p] = H[p] \ {c}, G[q] = H[q] \cup {c}, \A o \in Places \ {p, q} : G[o] = H[o]
  PROVE  Partition(G, A)
<1>1. {c} \in SUBSET H[p]
  OBVIOUS
<1> DEFINE M == {c}
<1> HIDE DEF M
<1>2. M \in SUBSET H[p] /\ G[p] = H[p] \ M /\ G[q] = H[q] \cup M
  BY <1>1 DEF M
<1> QED
  BY <1>2, Moved

\* One leaves its place and is no longer a member.
LEMMA Parted ==
  ASSUME NEW H, NEW G, NEW A, Partition(H, A), NEW p \in Places, NEW c \in H[p],
         G[p] = H[p] \ {c}, \A o \in Places \ {p} : G[o] = H[o]
  PROVE  Partition(G, A \ {c})
<1>1. \A o \in Places \ {p} : c \notin H[o]
  BY DEF Partition
<1>2. ASSUME NEW d \in Coroutines PROVE d \in A \ {c} <=> \E o \in Places : d \in G[o]
  BY <1>1 DEF Partition
<1> QED
  BY <1>2 DEF Partition

\* A new member comes to a place.
LEMMA Joined ==
  ASSUME NEW H, NEW G, NEW A, Partition(H, A), NEW p \in Places,
         NEW c \in Coroutines, c \notin A,
         G[p] = H[p] \cup {c}, \A o \in Places \ {p} : G[o] = H[o]
  PROVE  Partition(G, A \cup {c})
<1>1. \A o \in Places : c \notin H[o]
  BY DEF Partition
<1>2. ASSUME NEW d \in Coroutines PROVE d \in A \cup {c} <=> \E o \in Places : d \in G[o]
  BY DEF Partition
<1> QED
  BY <1>1, <1>2 DEF Partition

LEMMA SamePlaces ==
  ASSUME NEW H, NEW G, NEW A, Partition(H, A), \A o \in Places : G[o] = H[o]
  PROVE  Partition(G, A)
BY DEF Partition

LEMMA Helds ==
  /\ Held["ready"] = ToSet(ready) /\ Held["running"] = running
  /\ Held["time"] = {e.frame : e \in Live}
  /\ \A s \in Lists : Held[s] = ToSet(waiting[s])
BY DEF Held, Places, Lists

-----------------------------------------------------------------------------
(* What the steps do to the coroutines *)

Going == Labels \ {"unborn", "done"}

Stays(c) ==
  /\ c \in running /\ \E l \in Going : Goto(c, l)
  /\ UNCHANGED <<program, ready, waiting, running, timeVars, spawned>>

Quits(c) ==
  /\ c \in running /\ Goto(c, "done") /\ Leaves(c)
  /\ UNCHANGED <<program, ready, waiting, timeVars, spawned>>

Waits(c) ==
  /\ c \in running /\ (\E l \in Going : Goto(c, l)) /\ \E s \in Lists : Suspend(c, s)
  /\ UNCHANGED <<program, ready, timeVars, spawned>>

Nothing ==
  /\ now' \in Nat
  /\ UNCHANGED <<program, ready, waiting, running, pc, timers, counter, token, spawned>>

Pushes(s) ==
  /\ \/ ready' = ready \o waiting[s]
     \/ ready' = ready \o Reverse(waiting[s])
  /\ waiting' = [waiting EXCEPT ![s] = <<>>]
  /\ UNCHANGED <<program, running, pc, timeVars, spawned>>

Cancels ==
  /\ Main \in running /\ Return(outcome')
  /\ \E id \in Nat : CancelFrame(id)
  /\ UNCHANGED <<program, waiting, spawned>>

Sound == Timers /\ Threads /\ Births /\ Placed

Programme ==
  /\ Kind \in Kinds
  /\ program.ends \in Seq({"value", "throw", "stopped", "timer"})
  /\ Used = 1..Len(program.ends) /\ Used \subseteq Branches /\ Len(program.ends) \in Nat
  /\ IsFiniteSet(Used) /\ Cardinality(Used) = Len(program.ends)
  /\ \A b \in Used : program.ends[b] = "timer" <=> Kind = "timer" \/ (Kind = "timeout" /\ b = 2)
  /\ Kind = "timeout" => Len(program.ends) = 2
  /\ Kind \in {"await", "bind", "bindVoid"} => Len(program.ends) = 1
  /\ Kind = "signal" => Len(program.ends) = 0

LEMMA ProgramFacts == Threads => Programme
<1> SUFFICES ASSUME Threads PROVE Programme
  OBVIOUS
<1>1. program \in Programs
  BY DEF Threads
<1>2. program.ends \in Seq({"value", "throw", "stopped", "timer"})
  BY <1>1, ProgramAssumption
<1>3. Len(program.ends) \in Nat /\ DOMAIN program.ends = 1..Len(program.ends)
  BY <1>2
<1>4. IsFiniteSet(Used) /\ Cardinality(Used) = Len(program.ends)
  BY <1>3, FS_Interval DEF Used
<1> QED
  BY <1>1, <1>2, <1>3, <1>4, ProgramAssumption DEF Programme, Kind, Used

LEMMA BranchEffects ==
  ASSUME Sound, NEW b \in Branches, BranchStep(b), UNCHANGED rigid
  PROVE  Stays(b) \/ Quits(b) \/ Waits(b) \/ TimerToken(b) \/ TimerPost(b)
<1>1. pc[b] \in Labels /\ running \subseteq Coroutines /\ program' = program
      /\ pc \in [Coroutines -> Labels] /\ b \in Coroutines
  BY DEF Sound, Threads, rigid, Branches
<1>2. CASE Yield(b)
  BY <1>1, <1>2 DEF Yield, At, Waits, Goto, Going, Lists
<1>3. CASE End(b)
  <2>1. pc[b] = "run" /\ program.ends[b] # "timer"
    BY <1>3 DEF End, At
  <2>2. b \in Used
    <3>1. b \in 1..spawned /\ spawned \in 0..Len(program.ends)
      BY <2>1 DEF Sound, Births
    <3> QED
      BY <3>1, ProgramFacts DEF Sound, Programme
  <2>3. Kind \in {"all", "any", "anyGroup", "timeout", "await", "bind", "bindVoid"}
    BY <2>1, <2>2, ProgramFacts DEF Sound, Programme, Kinds
  <2>4. \A end : After(end) \in Going
    BY <2>3 DEF After, Going, Labels
  <2> QED
    BY <1>1, <1>3, <2>4 DEF End, At, Stays
<1>4. CASE TimerEnd(b)
  BY <1>1, <1>4 DEF TimerEnd, At, Stays, Quits, Going, Labels
<1>5. CASE Caught(b)
  BY <1>1, <1>5 DEF Caught, At, Stays, Going, Labels
<1>6. CASE CountDown(b)
  BY <1>1, <1>6 DEF CountDown, At, Quits
<1>7. CASE Arrive(b)
  BY <1>1, <1>7 DEF Arrive, At, Stays, Quits, Going, Labels
<1>8. CASE Store(b)
  BY <1>1, <1>8 DEF Store, At, Quits
<1>9. CASE SetPromise(b)
  BY <1>1, <1>9 DEF SetPromise, At, Quits
<1> QED
  BY <1>2, <1>3, <1>4, <1>5, <1>6, <1>7, <1>8, <1>9 DEF BranchStep

LEMMA MainEffects ==
  ASSUME Sound, MainStep, UNCHANGED rigid
  PROVE  Stays(Main) \/ Quits(Main) \/ Waits(Main) \/ SpawnBranch \/ Cancels
<1>1. /\ running \subseteq Coroutines /\ program' = program
      /\ pc \in [Coroutines -> Labels] /\ Main \in Coroutines
  BY MainAssumption DEF Sound, Threads, rigid
<1>2. CASE AwaitAll \/ AwaitAny \/ AwaitFuture \/ AwaitNothing
  BY <1>1, <1>2 DEF AwaitAll, AwaitAny, AwaitFuture, AwaitNothing, AwaitAt, At, Waits, Going,
                    Labels, Lists
<1>3. CASE ReturnAll \/ ReturnFuture
  BY <1>1, <1>3 DEF ReturnAll, ReturnFuture, Return, At, Quits
<1>4. CASE RequestStop
  BY <1>1, <1>4 DEF RequestStop, At, Stays, Going, Labels
<1>5. CASE ReturnAny
  BY <1>1, <1>5 DEF ReturnAny, Return, At, Stays, Quits, Going, Labels
<1>6. CASE TimeoutCancel
  <2>1. TokenValues(2) \subseteq Nat
    <3>1. 2 \in Branches
      <4>1. Kind = "timeout"
        BY <1>6 DEF TimeoutCancel
      <4>2. Len(program.ends) = 2 /\ Used = 1..Len(program.ends) /\ Used \subseteq Branches
        BY <4>1, ProgramFacts DEF Sound, Programme
      <4> QED
        BY <4>2
    <3> QED
      BY <3>1 DEF TokenValues, Sound, Timers, Branches
  <2>2. Main \in running /\ Return(outcome')
    BY <1>6 DEF TimeoutCancel, At, Return
  <2> QED
    BY <1>1, <1>6, <2>1, <2>2 DEF TimeoutCancel, Cancels
<1>7. ASSUME NEW b \in Used, TimerCancel(b) PROVE Cancels
  <2>1. b \in Coroutines
    BY ProgramFacts DEF Sound, Programme, Branches
  <2>2. token[b] \in Nat
    BY <1>7, <2>1 DEF TimerCancel, Sound, Timers
  <2>3. Main \in running /\ Return(outcome')
    BY <1>7 DEF TimerCancel, At, Return
  <2> QED
    BY <1>1, <1>7, <2>2, <2>3 DEF TimerCancel, Cancels
<1>8. CASE TimerLater
  BY <1>1, <1>8 DEF TimerLater, At, Waits, Goto, Going, Labels, Lists
<1>9. CASE Install \/ Callback \/ Restore
  BY <1>1, <1>9 DEF Install, Callback, Restore, At, Stays, Going, Labels
<1>10. CASE SignalWait
  BY <1>1, <1>10 DEF SignalWait, At, Waits, Going, Labels, Lists
<1>11. CASE Clear
  BY <1>1, <1>11 DEF Clear, Return, At, Quits
<1> QED
  BY <1>2, <1>3, <1>4, <1>5, <1>6, <1>7, <1>8, <1>9, <1>10, <1>11 DEF MainStep

LEMMA LoopEffects ==
  ASSUME Sound, Commit \/ Tick \/ Raise, UNCHANGED rigid
  PROVE  Nothing \/ (\E s \in Lists : Pushes(s)) \/ CommitTime
<1>1. program' = program /\ now \in Nat
  BY DEF Sound, Timers, rigid
<1>2. CASE PassStart
  BY <1>1, <1>2 DEF PassStart, Nothing, timeVars
<1>3. ASSUME NEW s \in Lists, NEW condition, CommitList(s, condition) PROVE Nothing \/ Pushes(s)
  BY <1>1, <1>3 DEF CommitList, Nothing, Pushes, timeVars
<1>4. CASE Tick
  BY <1>1, <1>4 DEF Tick, Nothing
<1>5. CASE Raise
  BY <1>1, <1>5 DEF Raise, Nothing, timeVars
<1> QED
  BY <1>2, <1>3, <1>4, <1>5 DEF Commit, CommitYield, CommitFlag, CommitLatch, CommitFuture, Lists

-----------------------------------------------------------------------------
(* Each effect keeps everybody in one place *)

\* A step of a coroutine that is running does not change who has been born.
LEMMA BirthsKept ==
  ASSUME Sound, NEW c \in running, NEW l \in Labels \ {"unborn"}, Goto(c, l),
         UNCHANGED <<program, spawned>>
  PROVE  Births' /\ pc' \in [Coroutines -> Labels]
<1>1. /\ pc \in [Coroutines -> Labels] /\ c \in Coroutines /\ pc[c] # "unborn"
  <2>1. c \in Held["running"] /\ "running" \in Places /\ c \in Coroutines
    BY Helds DEF Sound, Threads, Places
  <2>2. c \in Active
    BY <2>1 DEF Sound, Placed, Partition
  <2> QED
    BY <2>1, <2>2 DEF Active, Sound, Threads
<1>2. pc' = [pc EXCEPT ![c] = l]
  BY DEF Goto
<1>3. \A d \in Coroutines : pc'[d] = "unborn" <=> pc[d] = "unborn"
  BY <1>1, <1>2
<1>4. Main \in Coroutines /\ \A b \in Branches : b \in Coroutines
  BY MainAssumption DEF Branches
<1> QED
  BY <1>1, <1>2, <1>3, <1>4 DEF Births, Sound

\* Who goes on running is still active, who has ended is not.
LEMMA ActiveKept ==
  ASSUME Sound, NEW c \in running, NEW l \in Labels \ {"unborn"}, Goto(c, l)
  PROVE  Active' = IF l = "done" THEN Active \ {c} ELSE Active
<1>1. c \in Held["running"] /\ "running" \in Places /\ c \in Coroutines
  BY Helds DEF Sound, Threads, Places
<1>2. c \in Active /\ pc \in [Coroutines -> Labels]
  BY <1>1 DEF Sound, Placed, Partition, Threads
<1>3. pc' = [pc EXCEPT ![c] = l]
  BY DEF Goto
<1> QED
  BY <1>1, <1>2, <1>3 DEF Active

LEMMA StaysSound == ASSUME Sound, NEW c, Stays(c) PROVE Sound'
<1>1. PICK l \in Going : Goto(c, l)
  BY DEF Stays
<1>2. l \in Labels \ {"unborn"} /\ l # "done" /\ c \in running
  BY DEF Stays, Going
<1>3. Births' /\ pc' \in [Coroutines -> Labels] /\ Active' = Active
  BY <1>1, <1>2, BirthsKept, ActiveKept DEF Stays
<1>4. Threads' /\ Timers'
  BY <1>3 DEF Stays, Sound, Threads, Timers, Live, timeVars
<1>5. Held' = Held
  BY DEF Stays, Held, Live, timeVars
<1> QED
  BY <1>3, <1>4, <1>5 DEF Sound, Placed

LEMMA QuitsSound == ASSUME Sound, NEW c, Quits(c) PROVE Sound'
<1>1. c \in running /\ Goto(c, "done") /\ "done" \in Labels \ {"unborn"}
  BY DEF Quits, Labels
<1>2. Births' /\ pc' \in [Coroutines -> Labels] /\ Active' = Active \ {c}
  BY <1>1, BirthsKept, ActiveKept DEF Quits
<1>3. Threads' /\ Timers'
  BY <1>2 DEF Quits, Leaves, Sound, Threads, Timers, Live, timeVars
<1>4. Held'["running"] = Held["running"] \ {c} /\ \A o \in Places \ {"running"} : Held'[o] = Held[o]
  BY DEF Quits, Leaves, Held, Live, timeVars, Places
<1>5. c \in Held["running"] /\ "running" \in Places
  BY <1>1, Helds DEF Places
<1>6. Partition(Held', Active \ {c})
  BY <1>4, <1>5, Parted DEF Sound, Placed
<1> QED
  BY <1>2, <1>3, <1>6 DEF Sound, Placed

LEMMA WaitsSound == ASSUME Sound, NEW c, Waits(c) PROVE Sound'
<1>1. PICK l \in Going : Goto(c, l)
  BY DEF Waits
<1>2. l \in Labels \ {"unborn"} /\ l # "done" /\ c \in running
  BY DEF Waits, Going
<1>3. Births' /\ pc' \in [Coroutines -> Labels] /\ Active' = Active
  BY <1>1, <1>2, BirthsKept, ActiveKept DEF Waits
<1>4. PICK s \in Lists : Suspend(c, s)
  BY DEF Waits
<1>5. /\ running' = running \ {c} /\ waiting' = [waiting EXCEPT ![s] = <<c>> \o @]
      /\ waiting \in [Lists -> Seq(Coroutines)] /\ waiting[s] \in Seq(Coroutines)
      /\ c \in Coroutines /\ IsInjective(waiting[s])
  BY <1>2, <1>4 DEF Suspend, Leaves, Sound, Threads
<1>6. c \notin ToSet(waiting[s])
  <2>1. c \in Held["running"] /\ "running" \in Places /\ s \in Places /\ s # "running"
    BY <1>2, Helds DEF Places, Lists
  <2>2. c \notin Held[s]
    BY <2>1 DEF Sound, Placed, Partition
  <2> QED
    BY <2>2, Helds
<1>7. /\ <<c>> \o waiting[s] \in Seq(Coroutines) /\ IsInjective(<<c>> \o waiting[s])
      /\ ToSet(<<c>> \o waiting[s]) = {c} \cup ToSet(waiting[s])
  BY <1>5, <1>6, ListPrepend
<1>8. /\ waiting'[s] = <<c>> \o waiting[s] /\ \A o \in Lists \ {s} : waiting'[o] = waiting[o]
      /\ waiting' \in [Lists -> Seq(Coroutines)] /\ \A o \in Lists : IsInjective(waiting'[o])
  BY <1>5, <1>7 DEF Sound, Threads
<1>9. Threads' /\ Timers'
  BY <1>3, <1>5, <1>8 DEF Waits, Sound, Threads, Timers, Live, timeVars
<1>10. /\ Held'["running"] = Held["running"] \ {c} /\ Held'[s] = Held[s] \cup {c}
       /\ \A o \in Places \ {"running", s} : Held'[o] = Held[o]
  <2>1. ToSet(waiting'[s]) = ToSet(waiting[s]) \cup {c}
    BY <1>7, <1>8
  <2>2. ready' = ready /\ timers' = timers
    BY DEF Waits, timeVars
  <2> QED
    BY <1>5, <1>8, <2>1, <2>2 DEF Held, Live, Places, Lists
<1>11. "running" \in Places /\ s \in Places /\ s # "running" /\ c \in Held["running"]
  BY <1>2, Helds DEF Places, Lists
<1>12. Partition(Held', Active)
  <2>1. Partition(Held, Active)
    BY DEF Sound, Placed
  <2> QED
    BY <1>10, <1>11, <2>1, MovedOne
<1> QED
  BY <1>3, <1>9, <1>12 DEF Sound, Placed

LEMMA NothingSound == ASSUME Sound, Nothing PROVE Sound'
<1>1. Threads' /\ Timers' /\ Births'
  BY DEF Nothing, Sound, Threads, Timers, Births, Live
<1>2. Held' = Held /\ Active' = Active
  BY DEF Nothing, Held, Live, Active
<1> QED
  BY <1>1, <1>2 DEF Sound, Placed

LEMMA PushesSound == ASSUME Sound, NEW s \in Lists, Pushes(s) PROVE Sound'
<1> DEFINE list == waiting[s]
<1>1. /\ list \in Seq(Coroutines) /\ IsInjective(list)
      /\ ready \in Seq(Coroutines) /\ IsInjective(ready)
      /\ waiting \in [Lists -> Seq(Coroutines)] /\ \A o \in Lists : IsInjective(waiting[o])
  BY DEF Sound, Threads
<1>2. /\ Reverse(list) \in Seq(Coroutines) /\ IsInjective(Reverse(list))
      /\ ToSet(Reverse(list)) = ToSet(list)
  BY <1>1, ListReverse
<1>3. ToSet(ready) \cap ToSet(list) = {}
  <2>1. "ready" \in Places /\ s \in Places /\ s # "ready"
    BY DEF Places, Lists
  <2>2. Held["ready"] \cap Held[s] = {}
    BY <2>1 DEF Sound, Placed, Partition
  <2> QED
    BY <2>2, Helds
<1> HIDE DEF list
<1>4. /\ ready \o list \in Seq(Coroutines) /\ IsInjective(ready \o list)
      /\ ToSet(ready \o list) = ToSet(ready) \cup ToSet(list)
  BY <1>1, <1>3, ListConcat
<1>5. /\ ready \o Reverse(list) \in Seq(Coroutines) /\ IsInjective(ready \o Reverse(list))
      /\ ToSet(ready \o Reverse(list)) = ToSet(ready) \cup ToSet(list)
  BY <1>1, <1>2, <1>3, ListConcat
<1>6. /\ ready' \in Seq(Coroutines) /\ IsInjective(ready')
      /\ ToSet(ready') = ToSet(ready) \cup ToSet(list)
  BY <1>4, <1>5 DEF Pushes, list
<1>7. /\ waiting' \in [Lists -> Seq(Coroutines)] /\ \A o \in Lists : IsInjective(waiting'[o])
      /\ ToSet(waiting'[s]) = {} /\ \A o \in Lists \ {s} : waiting'[o] = waiting[o]
  <2>1. waiting' = [waiting EXCEPT ![s] = <<>>]
    BY DEF Pushes
  <2>2. <<>> \in Seq(Coroutines)
    OBVIOUS
  <2> QED
    BY <1>1, <2>1, <2>2, ListEmpty
<1>8. Threads' /\ Timers' /\ Births'
  BY <1>6, <1>7 DEF Pushes, Sound, Threads, Timers, Births, Live, timeVars
<1>9. Active' = Active
  BY DEF Pushes, Active
<1>10. /\ Held'["ready"] = Held["ready"] \cup Held[s] /\ Held'[s] = Held[s] \ Held[s]
       /\ \A o \in Places \ {"ready", s} : Held'[o] = Held[o]
  <2>1. running' = running /\ timers' = timers
    BY DEF Pushes, timeVars
  <2> QED
    BY <1>6, <1>7, <2>1 DEF Held, Live, Places, Lists, list
<1>11. "ready" \in Places /\ s \in Places /\ s # "ready"
  BY DEF Places, Lists
<1>12. Partition(Held', Active)
  <2>1. Partition(Held, Active)
    BY DEF Sound, Placed
  <2>2. Held[s] \in SUBSET Held[s]
    OBVIOUS
  <2> QED
    BY <1>10, <1>11, <2>1, <2>2, Moved
<1> QED
  BY <1>8, <1>9, <1>12 DEF Sound, Placed

LEMMA ResumeSound == ASSUME Sound, NEW c \in Coroutines, Resume(c), UNCHANGED rigid PROVE Sound'
<1>1. PICK i \in DOMAIN ready : ready[i] = c /\ ready' = RemoveAt(ready, i)
  BY DEF Resume
<1>2. /\ running' = running \cup {c} /\ program' = program
      /\ UNCHANGED <<timeVars, waiting, pc, spawned>>
  BY DEF Resume, rigid
<1>3. ready \in Seq(Coroutines) /\ IsInjective(ready) /\ i \in 1..Len(ready)
  BY <1>1 DEF Sound, Threads
<1>4. /\ ready' \in Seq(Coroutines) /\ IsInjective(ready') /\ ToSet(ready') = ToSet(ready) \ {c}
  BY <1>1, <1>3, ListRemoveAt
<1>5. c \in ToSet(ready)
  BY <1>1 DEF ToSet
<1>6. Threads' /\ Timers' /\ Births'
  BY <1>2, <1>4 DEF Sound, Threads, Timers, Births, Live, timeVars
<1>7. Active' = Active
  BY <1>2 DEF Active
<1>8. /\ Held'["ready"] = Held["ready"] \ {c} /\ Held'["running"] = Held["running"] \cup {c}
      /\ \A o \in Places \ {"ready", "running"} : Held'[o] = Held[o]
  BY <1>2, <1>4 DEF Held, Live, Places, Lists, timeVars
<1>9. "ready" \in Places /\ "running" \in Places /\ c \in Held["ready"]
  BY <1>5, Helds DEF Places
<1>10. Partition(Held', Active)
  <2>1. Partition(Held, Active)
    BY DEF Sound, Placed
  <2> QED
    BY <1>8, <1>9, <2>1, MovedOne
<1> QED
  BY <1>6, <1>7, <1>10 DEF Sound, Placed

LEMMA SpawnSound == ASSUME Sound, SpawnBranch, UNCHANGED rigid PROVE Sound'
<1> DEFINE b == spawned + 1
<1>1. /\ spawned < Cardinality(Used) /\ spawned' = b /\ ready' = Append(ready, b)
      /\ pc' = [pc EXCEPT ![b] = "run"] /\ program' = program
      /\ UNCHANGED <<timeVars, running, waiting>>
  BY DEF SpawnBranch, Goto, rigid
<1>2. spawned \in Nat /\ spawned \in 0..Len(program.ends) /\ Len(program.ends) \in Nat
  BY ProgramFacts DEF Sound, Births, Programme
<1>3. b \in Used /\ b \in Branches /\ b \in 0..Len(program.ends)
  <2>1. Cardinality(Used) = Len(program.ends) /\ Used = 1..Len(program.ends)
        /\ Used \subseteq Branches
    BY ProgramFacts DEF Sound, Programme
  <2> QED
    BY <1>1, <1>2, <2>1
<1>4. b \in Coroutines /\ b # Main /\ Branches \subseteq Coroutines /\ Main \in Coroutines
  BY <1>3, MainAssumption DEF Branches
<1>5. pc[b] = "unborn" /\ pc \in [Coroutines -> Labels]
  BY <1>2, <1>3 DEF Sound, Births, Threads
<1> HIDE DEF b
<1>6. b \notin Active
  BY <1>5 DEF Active
<1>7. b \notin ToSet(ready)
  <2>1. "ready" \in Places /\ b \notin Held["ready"]
    BY <1>4, <1>6 DEF Sound, Placed, Partition, Places
  <2> QED
    BY <2>1, Helds
<1>8. ready \in Seq(Coroutines) /\ IsInjective(ready)
  BY DEF Sound, Threads
<1>9. /\ ready' \in Seq(Coroutines) /\ IsInjective(ready') /\ ToSet(ready') = ToSet(ready) \cup {b}
  BY <1>1, <1>4, <1>7, <1>8, ListAppend
<1>10. pc' \in [Coroutines -> Labels] /\ Active' = Active \cup {b}
  BY <1>1, <1>4, <1>5 DEF Labels, Active
<1>11. Births'
  <2>1. 1..b = (1..spawned) \cup {b}
    BY <1>2 DEF b
  <2>2. \A d \in Branches : pc'[d] = "unborn" <=> pc[d] = "unborn" /\ d # b
    BY <1>1, <1>4, <1>5
  <2>3. pc'[Main] = pc[Main]
    BY <1>1, <1>4, <1>5
  <2> QED
    BY <1>1, <1>3, <2>1, <2>2, <2>3 DEF Births, Sound
<1>12. Threads' /\ Timers'
  BY <1>1, <1>9, <1>10 DEF Sound, Threads, Timers, Live, timeVars
<1>13. /\ Held'["ready"] = Held["ready"] \cup {b}
       /\ \A o \in Places \ {"ready"} : Held'[o] = Held[o]
  BY <1>1, <1>9 DEF Held, Live, Places, Lists, timeVars
<1>14. "ready" \in Places
  BY DEF Places
<1>15. Partition(Held', Active \cup {b})
  BY <1>4, <1>6, <1>13, <1>14, Joined DEF Sound, Placed
<1> QED
  BY <1>10, <1>11, <1>12, <1>15 DEF Sound, Placed

LEMMA TimerTokenSound ==
  ASSUME Sound, NEW b \in Branches, TimerToken(b), UNCHANGED rigid PROVE Sound'
<1>1. /\ b \in running /\ Goto(b, "post") /\ token' = [token EXCEPT ![b] = counter]
      /\ program' = program
      /\ UNCHANGED <<now, timers, counter, ready, running, waiting, spawned>>
  BY DEF TimerToken, At, TokenRead, rigid
<1>2. "post" \in Labels \ {"unborn"}
  BY DEF Labels
<1>3. Births' /\ pc' \in [Coroutines -> Labels] /\ Active' = Active
  BY <1>1, <1>2, BirthsKept, ActiveKept
<1>4. Threads' /\ Timers'
  BY <1>1, <1>3 DEF Sound, Threads, Timers, Live
<1>5. Held' = Held
  BY <1>1 DEF Held, Live
<1> QED
  BY <1>3, <1>4, <1>5 DEF Sound, Placed

LEMMA TimerPostSound ==
  ASSUME Sound, NEW b \in Branches, TimerPost(b), UNCHANGED rigid PROVE Sound'
<1> DEFINE e == Entry(b, now + Duration[b], counter)
<1>1. /\ b \in running /\ Goto(b, "asleep") /\ running' = running \ {b} /\ program' = program
      /\ timers' = timers \cup {e} /\ counter' = counter + 1
      /\ UNCHANGED <<now, token, ready, waiting, spawned>>
  BY DEF TimerPost, At, TimePost, Leaves, rigid
<1>2. "asleep" \in Labels \ {"unborn"}
  BY DEF Labels
<1>3. Births' /\ pc' \in [Coroutines -> Labels] /\ Active' = Active
  BY <1>1, <1>2, BirthsKept, ActiveKept
<1>4. e \in [frame : Branches, due : Nat, token : Nat \cup {Cancelled}] /\ e.frame = b
      /\ e.token # Cancelled
  BY DurationAssumption DEF Entry, Cancelled, Sound, Timers
<1> HIDE DEF e
<1>5. Live' = Live \cup {e}
  BY <1>1, <1>4 DEF Live
<1>6. b \in Held["running"] /\ "running" \in Places /\ "time" \in Places
  BY <1>1, Helds DEF Places
<1>7. \A d \in Live : d.frame # b
  <2>1. b \notin Held["time"]
    BY <1>6 DEF Sound, Placed, Partition
  <2> QED
    BY <2>1, Helds
<1>8. Timers'
  <2>1. IsFiniteSet(timers') /\ counter' \in Nat
    BY <1>1, FS_AddElement DEF Sound, Timers
  <2>2. \A c, d \in Live' : c.frame = d.frame => c = d
    BY <1>4, <1>5, <1>7 DEF Sound, Timers
  <2> QED
    BY <1>1, <1>4, <2>1, <2>2 DEF Sound, Timers
<1>9. Threads'
  BY <1>1, <1>3 DEF Sound, Threads
<1>10. /\ Held'["running"] = Held["running"] \ {b} /\ Held'["time"] = Held["time"] \cup {b}
       /\ \A o \in Places \ {"running", "time"} : Held'[o] = Held[o]
  BY <1>1, <1>4, <1>5 DEF Held, Places, Lists
<1>11. Partition(Held', Active)
  <2>1. Partition(Held, Active)
    BY DEF Sound, Placed
  <2> QED
    BY <1>6, <1>10, <2>1, MovedOne
<1> QED
  BY <1>3, <1>8, <1>9, <1>11 DEF Sound, Placed

\* A list of a finite set holds each of its elements once.
LEMMA ListsOfSets ==
  ASSUME NEW S, IsFiniteSet(S), NEW s \in SetToSeqs(S)
  PROVE  s \in Seq(S) /\ IsInjective(s) /\ ToSet(s) = S
<1> DEFINE n == Cardinality(S)
<1>1. n \in Nat
  BY FS_CardinalityType
<1> HIDE DEF n
<1>2. s \in [1..n -> S] /\ \A i, j \in 1..n : i # j => s[i] # s[j]
  BY DEF SetToSeqs, n
<1>3. s \in Seq(S) /\ IsInjective(s) /\ DOMAIN s = 1..n
  BY <1>1, <1>2 DEF IsInjective
<1>4. IsFiniteSet(1..n) /\ Cardinality(1..n) = n
  BY <1>1, FS_Interval
<1>5. s \in Injection(1..n, S)
  BY <1>2 DEF Injection, IsInjective
<1>6. s \in Surjection(1..n, S)
  BY <1>4, <1>5, FS_Injection DEF n
<1>7. ToSet(s) = S
  BY <1>2, <1>3, <1>6 DEF Surjection, ToSet
<1> QED
  BY <1>3, <1>7

\* What a commit of the time service pushes.
LEMMA FiredFrames ==
  ASSUME Sound, NEW outstanding \in TimeOutstanding
  PROVE  /\ outstanding \in Seq(Coroutines) /\ IsInjective(outstanding)
         /\ ToSet(outstanding) = {e.frame : e \in Fired}
<1>1. PICK s \in LatestFirst(Fired) : outstanding = Frames(s)
  BY DEF TimeOutstanding
<1>2. /\ Fired \subseteq Live /\ IsFiniteSet(Fired)
      /\ timers \subseteq [frame : Branches, due : Nat, token : Nat \cup {Cancelled}]
      /\ \A d, e \in Live : d.frame = e.frame => d = e
  BY FS_Subset DEF Fired, Due, Live, Sound, Timers
<1>3. s \in Seq(Fired) /\ IsInjective(s) /\ ToSet(s) = Fired
  BY <1>1, <1>2, ListsOfSets DEF LatestFirst
<1>4. Len(s) \in Nat /\ DOMAIN s = 1..Len(s) /\ \A i \in 1..Len(s) : s[i] \in Fired
  BY <1>3
<1>5. \A e \in Live : e.frame \in Coroutines
  BY <1>2 DEF Live, Branches
<1>6. outstanding = [i \in 1..Len(s) |-> s[i].frame]
  BY <1>1, <1>4 DEF Frames
<1>7. outstanding \in Seq(Coroutines) /\ DOMAIN outstanding = 1..Len(s)
  BY <1>2, <1>4, <1>5, <1>6
<1>8. IsInjective(outstanding)
  BY <1>2, <1>3, <1>4, <1>6, <1>7 DEF IsInjective
<1>9. ToSet(outstanding) = {e.frame : e \in Fired}
  BY <1>3, <1>4, <1>6, <1>7 DEF ToSet
<1> QED
  BY <1>7, <1>8, <1>9

LEMMA CommitTimeSound == ASSUME Sound, CommitTime, UNCHANGED rigid PROVE Sound'
<1>1. PICK outstanding \in TimeOutstanding : ready' = ready \o outstanding
  BY DEF CommitTime
<1>2. /\ timers' = timers \ Due /\ program' = program
      /\ UNCHANGED <<now, counter, token, running, waiting, pc, spawned>>
  BY DEF CommitTime, TimeCommit, rigid
<1>3. /\ outstanding \in Seq(Coroutines) /\ IsInjective(outstanding)
      /\ ToSet(outstanding) = {e.frame : e \in Fired}
  BY FiredFrames
<1>4. Fired \subseteq Live /\ Live' = Live \ Fired
  BY <1>2 DEF Fired, Live, Due
<1>5. ToSet(outstanding) \in SUBSET Held["time"] /\ "time" \in Places /\ "ready" \in Places
  BY <1>3, <1>4, Helds DEF Places
<1>6. ready \in Seq(Coroutines) /\ IsInjective(ready)
  BY DEF Sound, Threads
<1>7. ToSet(ready) \cap ToSet(outstanding) = {}
  <2>1. Held["ready"] \cap Held["time"] = {}
    BY <1>5 DEF Sound, Placed, Partition
  <2> QED
    BY <1>5, <2>1, Helds
<1>8. /\ ready' \in Seq(Coroutines) /\ IsInjective(ready')
      /\ ToSet(ready') = ToSet(ready) \cup ToSet(outstanding)
  BY <1>1, <1>3, <1>6, <1>7, ListConcat
<1>9. Timers'
  <2>1. IsFiniteSet(timers')
    BY <1>2, FS_Subset DEF Sound, Timers
  <2> QED
    BY <1>2, <1>4, <2>1 DEF Sound, Timers
<1>10. Threads' /\ Births' /\ Active' = Active
  BY <1>2, <1>8 DEF Sound, Threads, Births, Active
<1>11. {e.frame : e \in Live'} = {e.frame : e \in Live} \ ToSet(outstanding)
  <2>1. \A d, e \in Live : d.frame = e.frame => d = e
    BY DEF Sound, Timers
  <2> QED
    BY <1>3, <1>4, <2>1
<1>12. /\ Held'["time"] = Held["time"] \ ToSet(outstanding)
       /\ Held'["ready"] = Held["ready"] \cup ToSet(outstanding)
       /\ \A o \in Places \ {"time", "ready"} : Held'[o] = Held[o]
  BY <1>2, <1>8, <1>11 DEF Held, Places, Lists
<1>13. Partition(Held', Active)
  <2>1. Partition(Held, Active)
    BY DEF Sound, Placed
  <2> QED
    BY <1>5, <1>12, <2>1, Moved
<1> QED
  BY <1>9, <1>10, <1>13 DEF Sound, Placed

\* A call of cancel_frame, without the step of its caller.
LEMMA CancelledFrame ==
  ASSUME Sound, NEW id \in Nat, CancelFrame(id), UNCHANGED waiting
  PROVE  /\ Timers' /\ ready' \in Seq(Coroutines) /\ IsInjective(ready')
         /\ Partition([Held' EXCEPT !["running"] = running], Active)
<1> DEFINE H == [Held' EXCEPT !["running"] = running]
<1>1. DOMAIN Held' = Places /\ DOMAIN Held = Places /\ "running" \in Places
  BY DEF Held, Places
<1>2. H["running"] = running /\ \A o \in Places \ {"running"} : H[o] = Held'[o]
  BY <1>1
<1>3. Partition(Held, Active) /\ ready \in Seq(Coroutines) /\ IsInjective(ready)
  BY DEF Sound, Placed, Threads
<1> HIDE DEF H
<1>4. CASE UNCHANGED <<timeVars, ready>>
  <2>1. \A o \in Places : H[o] = Held[o]
    BY <1>2, <1>4 DEF Held, Live, timeVars
  <2>2. Partition(H, Active)
    BY <1>3, <2>1, SamePlaces
  <2> QED
    BY <1>3, <1>4, <2>2 DEF Sound, Timers, Live, timeVars, H
<1>5. ASSUME NEW e \in Found(id), TimeCancel(e), ready' = Append(ready, e.frame)
      PROVE  /\ Timers' /\ ready' \in Seq(Coroutines) /\ IsInjective(ready')
             /\ Partition(H, Active)
  <2> DEFINE d == [e EXCEPT !.token = Cancelled]
             Entries == [frame : Branches, due : Nat, token : Nat \cup {Cancelled}]
  <2>1. /\ e \in timers /\ e \in Entries /\ e.token # Cancelled
        /\ timers' = (timers \ {e}) \cup {d} /\ UNCHANGED <<now, counter, token>>
    BY <1>5 DEF Found, TimeCancel, Cancelled, Sound, Timers
  <2>2. d \in Entries /\ d.token = Cancelled
    BY <2>1
  <2> HIDE DEF d
  <2>3. Live' = Live \ {e} /\ e \in Live
    BY <2>1, <2>2 DEF Live
  <2>4. Timers'
    <3>1. IsFiniteSet(timers')
      <4>1. IsFiniteSet(timers \ {e})
        BY FS_Subset DEF Sound, Timers
      <4> QED
        BY <2>1, <4>1, FS_AddElement
    <3> QED
      BY <2>1, <2>2, <2>3, <3>1 DEF Sound, Timers
  <2>5. e.frame \in Held["time"] /\ e.frame \in Coroutines
    BY <2>1, <2>3, Helds DEF Branches
  <2>6. "time" \in Places /\ "ready" \in Places /\ "time" # "ready"
    BY DEF Places
  <2>7. e.frame \notin ToSet(ready)
    <3>1. e.frame \notin Held["ready"]
      BY <1>3, <2>5, <2>6 DEF Partition
    <3> QED
      BY <3>1, Helds
  <2>8. /\ ready' \in Seq(Coroutines) /\ IsInjective(ready')
        /\ ToSet(ready') = ToSet(ready) \cup {e.frame}
    BY <1>3, <1>5, <2>5, <2>7, ListAppend
  <2>9. {c.frame : c \in Live'} = {c.frame : c \in Live} \ {e.frame}
    <3>1. \A b, c \in Live : b.frame = c.frame => b = c
      BY DEF Sound, Timers
    <3> QED
      BY <2>3, <3>1
  <2>10. /\ H["time"] = Held["time"] \ {e.frame} /\ H["ready"] = Held["ready"] \cup {e.frame}
         /\ \A o \in Places \ {"time", "ready"} : H[o] = Held[o]
    BY <1>2, <2>8, <2>9 DEF Held, Places, Lists
  <2>11. Partition(H, Active)
    BY <1>3, <2>5, <2>6, <2>10, MovedOne
  <2> QED
    BY <2>4, <2>8, <2>11
<1> QED
  BY <1>4, <1>5 DEF CancelFrame, H

LEMMA CancelsSound == ASSUME Sound, Cancels PROVE Sound'
<1>1. PICK id \in Nat : CancelFrame(id)
  BY DEF Cancels
<1>2. /\ Main \in running /\ Goto(Main, "done") /\ running' = running \ {Main}
      /\ UNCHANGED <<program, waiting, spawned>>
  BY DEF Cancels, Return, Leaves
<1> DEFINE H == [Held' EXCEPT !["running"] = running]
<1>3. Timers' /\ ready' \in Seq(Coroutines) /\ IsInjective(ready') /\ Partition(H, Active)
  BY <1>1, <1>2, CancelledFrame
<1>4. "done" \in Labels \ {"unborn"}
  BY DEF Labels
<1>5. Births' /\ pc' \in [Coroutines -> Labels] /\ Active' = Active \ {Main}
  BY <1>2, <1>4, BirthsKept, ActiveKept
<1>6. Threads'
  BY <1>2, <1>3, <1>5 DEF Sound, Threads
<1>7. DOMAIN Held' = Places /\ "running" \in Places
  BY DEF Held, Places
<1>8. /\ Main \in H["running"] /\ Held'["running"] = H["running"] \ {Main}
      /\ \A o \in Places \ {"running"} : Held'[o] = H[o]
  BY <1>2, <1>7, Helds DEF Held
<1> HIDE DEF H
<1>9. Partition(Held', Active \ {Main})
  BY <1>3, <1>7, <1>8, Parted
<1> QED
  BY <1>3, <1>5, <1>6, <1>9 DEF Sound, Placed

LEMMA InitSound == Init => Sound
<1> SUFFICES ASSUME Init PROVE Sound
  OBVIOUS
<1>1. /\ program \in Programs /\ ready = <<Main>> /\ running = {} /\ timers = {}
      /\ waiting = [s \in Lists |-> <<>>] /\ spawned = 0 /\ now = 0 /\ counter = 0
      /\ token = [c \in Coroutines |-> Unset]
      /\ \A c \in Branches : pc[c] = "unborn"
      /\ pc[Main] \in {"install", "spawn"} /\ pc \in [Coroutines -> Labels]
  BY MainAssumption DEF Init, TimeInit, Lists, Branches, Labels
<1>2. Main \in Coroutines /\ <<>> \in Seq(Coroutines) /\ IsInjective(<<>>) /\ ToSet(<<>>) = {}
  BY MainAssumption, ListEmpty
<1>3. <<Main>> \in Seq(Coroutines) /\ IsInjective(<<Main>>) /\ ToSet(<<Main>>) = {Main}
  BY <1>2 DEF IsInjective, ToSet
<1>4. Threads
  BY <1>1, <1>2, <1>3 DEF Threads
<1>5. Timers
  BY <1>1, FS_EmptySet DEF Timers, Live
<1>6. Births
  <2>1. Len(program.ends) \in Nat
    BY <1>4, ProgramFacts DEF Programme
  <2> QED
    BY <1>1, <2>1 DEF Births
<1>7. Active = {Main}
  BY <1>1, <1>2 DEF Active, Branches
<1>8. /\ Held["ready"] = {Main} /\ \A o \in Places \ {"ready"} : Held[o] = {}
  BY <1>1, <1>2, <1>3 DEF Held, Places, Lists, Live
<1>9. Placed
  BY <1>2, <1>7, <1>8, "ready" \in Places DEF Placed, Partition, Places
<1> QED
  BY <1>4, <1>5, <1>6, <1>9 DEF Sound

LEMMA SoundNext == ASSUME Sound, [Next]_vars PROVE Sound'
<1>1. ASSUME NEW c \in Coroutines, Run(Step(c)) PROVE Sound'
  <2>1. CASE c = Main
    <3>1. MainStep /\ UNCHANGED rigid
      BY <1>1, <2>1 DEF Run, Step
    <3>2. Stays(Main) \/ Quits(Main) \/ Waits(Main) \/ SpawnBranch \/ Cancels
      BY <3>1, MainEffects
    <3> QED
      BY <3>1, <3>2, StaysSound, QuitsSound, WaitsSound, SpawnSound, CancelsSound
  <2>2. CASE c # Main
    <3>1. BranchStep(c) /\ UNCHANGED rigid /\ c \in Branches
      BY <1>1, <2>2 DEF Run, Step, Branches
    <3>2. Stays(c) \/ Quits(c) \/ Waits(c) \/ TimerToken(c) \/ TimerPost(c)
      BY <3>1, BranchEffects
    <3> QED
      BY <3>1, <3>2, StaysSound, QuitsSound, WaitsSound, TimerTokenSound, TimerPostSound
  <2> QED
    BY <2>1, <2>2
<1>2. ASSUME NEW c \in Coroutines, Run(Resume(c)) PROVE Sound'
  BY <1>2, ResumeSound DEF Run
<1>3. ASSUME Run(Commit) \/ Run(Tick) \/ Run(Raise) PROVE Sound'
  <2>1. (Commit \/ Tick \/ Raise) /\ UNCHANGED rigid
    BY <1>3 DEF Run
  <2> QED
    BY <2>1, LoopEffects, NothingSound, PushesSound, CommitTimeSound
<1>4. ASSUME UNCHANGED vars PROVE Sound'
  <2>1. Nothing
    BY <1>4 DEF Nothing, vars, rigid, timeVars, Sound, Timers
  <2> QED
    BY <2>1, NothingSound
<1> QED
  BY <1>1, <1>2, <1>3, <1>4 DEF Next, Escaped

LEMMA ListCount ==
  ASSUME NEW S, NEW s \in Seq(S), IsInjective(s), NEW c
  PROVE  Cardinality({i \in DOMAIN s : s[i] = c}) = IF c \in ToSet(s) THEN 1 ELSE 0
<1>1. CASE c \in ToSet(s)
  <2>1. PICK i \in DOMAIN s : s[i] = c
    BY <1>1 DEF ToSet
  <2>2. {j \in DOMAIN s : s[j] = c} = {i}
    BY <2>1 DEF IsInjective
  <2> QED
    BY <1>1, <2>2, FS_Singleton
<1>2. CASE c \notin ToSet(s)
  <2>1. {j \in DOMAIN s : s[j] = c} = {}
    BY <1>2 DEF ToSet
  <2> QED
    BY <1>2, <2>1, FS_EmptySet
<1> QED
  BY <1>1, <1>2

LEMMA OneHandleEach == Sound => FiredOrCancelled
<1> SUFFICES ASSUME Sound, NEW c \in Coroutines
             PROVE  Handles(c) + (IF c \in running THEN 1 ELSE 0)
                      = IF Ended(c) \/ pc[c] = "unborn" THEN 0 ELSE 1
  BY DEF FiredOrCancelled
<1> DEFINE In(s) == Cardinality({i \in DOMAIN s : s[i] = c})
           Asleep == {e \in timers : e.frame = c /\ e.token # Cancelled}
           At1(p) == IF c \in Held[p] THEN 1 ELSE 0
<1>1. In(ready) = At1("ready")
  BY ListCount, Helds DEF Sound, Threads
<1>2. \A s \in Lists : In(waiting[s]) = At1(s)
  BY ListCount, Helds DEF Sound, Threads
<1>3. Cardinality(Asleep) = At1("time")
  <2>1. CASE c \in Held["time"]
    <3>1. PICK e \in Live : e.frame = c
      BY <2>1, Helds
    <3>2. Asleep = {e}
      BY <3>1 DEF Live, Sound, Timers
    <3> QED
      BY <2>1, <3>2, FS_Singleton
  <2>2. CASE c \notin Held["time"]
    <3>1. Asleep = {}
      BY <2>2, Helds DEF Live
    <3> QED
      BY <2>2, <3>1, FS_EmptySet
  <2> QED
    BY <2>1, <2>2
<1>4. Handles(c) = At1("ready") + At1("yield") + At1("flag") + At1("latch") + At1("future")
                   + At1("time")
  BY <1>1, <1>2, <1>3 DEF Handles, Lists
<1>5. (IF c \in running THEN 1 ELSE 0) = At1("running")
  BY Helds
<1>6. c \in Active <=> ~(Ended(c) \/ pc[c] = "unborn")
  BY DEF Active, Ended
<1>7. /\ c \in Active <=> \E p \in Places : c \in Held[p]
      /\ \A p, q \in Places : p # q => ~(c \in Held[p] /\ c \in Held[q])
  BY DEF Sound, Placed, Partition
<1> DEFINE Total == At1("ready") + At1("yield") + At1("flag") + At1("latch") + At1("future")
                    + At1("time") + At1("running")
<1>8. Total = IF c \in Active THEN 1 ELSE 0
  <2>1. CASE c \notin Active
    <3>1. \A p \in Places : At1(p) = 0
      BY <1>7, <2>1
    <3> QED
      BY <2>1, <3>1 DEF Places, Lists
  <2>2. CASE c \in Active
    <3>1. PICK p \in Places : c \in Held[p]
      BY <1>7, <2>2
    <3>2. At1(p) = 1 /\ \A q \in Places \ {p} : At1(q) = 0
      BY <1>7, <3>1
    <3> HIDE DEF At1
    <3> QED
      BY <2>2, <3>2 DEF Places, Lists
  <2> QED
    BY <2>1, <2>2
<1> HIDE DEF At1
<1> QED
  BY <1>4, <1>5, <1>6, <1>8

\* A coroutine that has been spawned and has not ended runs or has exactly one handle, in
\* the executor, a service or a timer: no cancellation, commit or expiry loses a coroutine
\* or schedules it twice (time_service.hpp:113-121, 134-147).
THEOREM OneHandlePerCoroutine == Spec => []FiredOrCancelled
<1>1. Init => Sound
  BY InitSound
<1>2. Sound /\ [Next]_vars => Sound'
  BY SoundNext
<1>3. Sound => FiredOrCancelled
  BY OneHandleEach
<1> QED
  BY <1>1, <1>2, <1>3, PTL DEF Spec

-----------------------------------------------------------------------------
(* Where the coroutines are in their code, and what they have left behind *)

AnyKinds == {"any", "anyGroup", "timeout"}
Futures == {"await", "bind", "bindVoid"}

\* The labels of the branches of each kind, and those of Main.
Flow ==
  /\ \A b \in Branches :
       /\ pc[b] \in {"unborn", "run", "post", "asleep", "done"}
             \/ (Kind = "all" /\ pc[b] \in {"caught", "count"})
             \/ (Kind \in AnyKinds /\ pc[b] \in {"arrive", "store"})
             \/ (Kind \in Futures /\ pc[b] = "set")
       /\ pc[b] \in {"post", "asleep"} => program.ends[b] = "timer"
  /\ pc[Main] \in {"install", "post", "restore", "clear"} => Kind = "signal"
  /\ pc[Main] = "spin" => Kind \in AnyKinds
  /\ pc[Main] = "spawn" \/ Kind = "signal" \/ spawned = Len(program.ends)

Results ==
  /\ result \in [Branches -> {None, "value", "throw", "expired", "cancelled"}]
  /\ Kind # "timer" =>
       \A b \in Branches :
         /\ result[b] \in {None, "value", "throw"}
         /\ result[b] = None <=> pc[b] \in {"unborn", "run", "post", "asleep"}

\* A timer tells why it has ended.
Causes ==
  /\ cause \in [Coroutines -> {"none", "expired", "cancelled"}]
  /\ \A e \in Live : pc[e.frame] = "asleep"
  /\ \A e \in timers : e.due >= Duration[e.frame]
  /\ \A b \in Branches :
       /\ pc[b] = "asleep" /\ (\A e \in Live : e.frame # b) => cause[b] # "none"
       /\ cause[b] = "expired" => now > Duration[b]
       /\ Kind = "timeout" /\ b = 2 /\ result[b] = "value" => cause[b] = "expired"

Storing == {b \in Branches : pc[b] = "store"}

\* The first branch sets the flag, then stores, and nobody stores after it.
First ==
  /\ flag \in BOOLEAN /\ arrived \in [by : Coroutines, threw : BOOLEAN]
  /\ \A b, c \in Storing : b = c
  /\ Storing # {} => flag /\ arrived = Nobody
  /\ arrived # Nobody => /\ flag /\ Kind \in AnyKinds
                         /\ arrived.by \in Branches /\ arrived.threw \in BOOLEAN
                         /\ result[arrived.by] = IF arrived.threw THEN "throw" ELSE "value"
  /\ pc[Main] = "cancel" /\ Kind = "timeout" => arrived = [by |-> 1, threw |-> FALSE]

\* The future holds what the branch has returned or thrown.
Promised ==
  /\ promise # None => /\ Kind \in Futures /\ promise = result[1]
                       /\ promise \in {"value", "throw"}
                       /\ Kind = "await" => promise = "value"
  /\ pc[Main] = "awaiting" /\ Kind \in Futures /\ Main \notin ToSet(waiting["future"])
       => promise # None
  /\ escaped => Kind = "await" /\ result[1] = "throw"

\* What has been returned came from a branch that has ended so.
Outcome ==
  /\ pc[Main] # "done" => outcome = <<None>>
  /\ outcome[1] \in {"value", "error"} => outcome[2] \in Branches /\ Kind # "timer"
  /\ outcome[1] = "value" => result[outcome[2]] = "value" \/ Kind = "bindVoid"
  /\ outcome[1] = "error" => result[outcome[2]] = "throw"
  /\ outcome[1] = "nullopt" => Kind = "timeout" /\ result[2] = "value"

Undone == {b \in Used : pc[b] # "done"}

\* The branches that have thrown and told it.
Threw == {b \in Used : program.ends[b] = "throw" /\ pc[b] \in {"count", "done"}}

\* The latch counts the branches that have not ended, the list of exceptions those that threw.
Counted ==
  Kind = "all" =>
    /\ latch = Cardinality(Undone)
    /\ errors \in Seq(Branches) /\ IsInjective(errors) /\ ToSet(errors) = Threw
    /\ \A b \in Used : pc[b] = "caught" => program.ends[b] = "throw"
    /\ pc[Main] = "awaiting" /\ Main \notin ToSet(waiting["latch"]) => latch = 0
    /\ pc[Main] = "done" =>
         latch = 0 /\ outcome = IF errors # <<>> THEN <<"errors", errors>> ELSE <<"values">>

\* Who waits at a service: no timer, and not Main before it has spawned its branches.
Queued ==
  /\ \A s \in Lists : \A b \in Branches : b \in ToSet(waiting[s]) => program.ends[b] # "timer"
  /\ pc[Main] = "spawn" => \A s \in Lists : Main \notin ToSet(waiting[s])

\* On the loop thread one coroutine runs at a time and nothing is committed meanwhile, so
\* that a timer has the token which was read before it was numbered.
Alone ==
  concurrency = 0 =>
    /\ \A c, d \in running : c = d
    /\ running # {} => committing = <<>>
    /\ \A b \in Branches : pc[b] = "post" => token[b] = counter /\ b \in running
    /\ \A b \in Branches : token[b] # Unset => token[b] <= counter
    /\ \A b \in Branches : token[b] = counter => pc[b] = "post"
    /\ \A b, c \in Branches : token[b] = token[c] /\ token[b] # Unset => b = c
    /\ \A e \in Live : token[e.frame] = e.token

\* On the loop thread the timer of a timeout has been started before its Main goes on.
Started ==
  concurrency = 0 /\ Kind = "timeout" /\ pc[2] \in {"unborn", "run", "post"} =>
    /\ committing = <<>>
    /\ \/ pc[Main] = "spawn"
       \/ pc[Main] = "awaiting" /\ Main \in ToSet(waiting["flag"])

\* Nobody has been cancelled but the timer that Main meant.
Meant ==
  concurrency = 0 =>
    /\ \A b \in Branches : cause[b] = "cancelled" =>
         (Kind = "timeout" /\ b = 2) \/ outcome = <<"cancelled", b>>
    /\ Kind = "timeout" /\ outcome[1] = "value" => Live = {}

\* Facts that every case below needs.
LEMMA Basics ==
  ASSUME Sound
  PROVE  /\ pc \in [Coroutines -> Labels] /\ running \subseteq Coroutines /\ Programme
         /\ Main \in Coroutines /\ Main \notin Branches /\ Branches \subseteq Coroutines
         /\ Main = 0
         /\ \A c \in running : pc[c] # "unborn" /\ pc[c] # "done"
         /\ \A b \in Branches : pc[b] # "unborn" => b \in Used
<1>1. pc \in [Coroutines -> Labels] /\ running \subseteq Coroutines /\ Programme
  BY ProgramFacts DEF Sound, Threads
<1>2. Main \in Coroutines /\ Main \notin Branches /\ Branches \subseteq Coroutines /\ Main = 0
  BY MainAssumption DEF Branches, Main
<1>3. ASSUME NEW c \in running PROVE pc[c] # "unborn" /\ pc[c] # "done"
  <2>1. c \in Held["running"] /\ "running" \in Places /\ c \in Coroutines
    BY <1>1, Helds DEF Places
  <2>2. c \in Active
    BY <2>1 DEF Sound, Placed, Partition
  <2> QED
    BY <2>2 DEF Active
<1>4. ASSUME NEW b \in Branches, pc[b] # "unborn" PROVE b \in Used
  <2>1. b \in 1..spawned /\ spawned \in 0..Len(program.ends)
    BY <1>4 DEF Sound, Births
  <2> QED
    BY <1>1, <2>1 DEF Programme
<1> QED
  BY <1>1, <1>2, <1>3, <1>4

LEMMA Gone ==
  ASSUME Sound, NEW c \in running, NEW l, Goto(c, l)
  PROVE  pc'[c] = l /\ \A d \in Coroutines \ {c} : pc'[d] = pc[d]
BY Basics DEF Goto

LEMMA Steps ==
  ASSUME Sound, [Next]_vars
  PROVE  /\ UNCHANGED rigid
         /\ \/ UNCHANGED vars
            \/ Commit \/ Tick \/ Raise \/ \E c \in Coroutines : Resume(c)
            \/ \E b \in Branches : BranchStep(b)
            \/ MainStep
BY DEF Next, Run, Escaped, Step, vars, Branches

LEMMA LoopLeaves ==
  ASSUME UNCHANGED vars \/ Commit \/ Tick \/ Raise \/ \E c \in Coroutines : Resume(c)
  PROVE  UNCHANGED <<pc, left, spawned, result, latch, errors, arrived, stop, promise, escaped, outcome>>
BY DEF vars, Commit, PassStart, CommitYield, CommitFlag, CommitLatch, CommitFuture, CommitList,
       CommitTime, Tick, Raise, Resume, sync

LEMMA MainLeaves ==
  ASSUME MainStep
  PROVE  UNCHANGED <<committing, left, result, latch, errors, arrived, promise, escaped>>
BY DEF MainStep, SpawnBranch, AwaitAll, AwaitAny, AwaitFuture, AwaitNothing, AwaitAt, ReturnAll,
       RequestStop, ReturnAny, TimeoutCancel, TimerCancel, TimerLater, ReturnFuture, Install,
       SignalWait, Callback, Restore, Clear, sync

LEMMA BranchLeaves ==
  ASSUME NEW b, BranchStep(b)
  PROVE  UNCHANGED <<committing, ready, spawned, stop, signal, outcome>>
BY DEF BranchStep, Yield, End, TimerToken, TimerPost, TimerEnd, Caught, CountDown, Arrive, Store,
       SetPromise, sync

\* What a step of Main does to the branches.
LEMMA MainBranches ==
  ASSUME Sound, MainStep, UNCHANGED rigid
  PROVE  /\ \A b \in Branches : pc'[b] = pc[b] \/ (pc[b] = "unborn" /\ pc'[b] = "run")
         /\ pc' \in [Coroutines -> Labels]
<1>1. /\ pc \in [Coroutines -> Labels] /\ running \subseteq Coroutines
      /\ Main \in Coroutines /\ Main \notin Branches /\ Branches \subseteq Coroutines
      /\ \A c \in running : \A l :
           Goto(c, l) => pc'[c] = l /\ \A d \in Coroutines \ {c} : pc'[d] = pc[d]
  BY Basics, Gone
<1>2. CASE SpawnBranch
  <2> DEFINE b == spawned + 1
  <2>1. pc' = [pc EXCEPT ![b] = "run"]
    BY <1>2 DEF SpawnBranch, Goto
  <2>2. b \in Branches /\ pc[b] = "unborn"
    <3>1. spawned \in 0..Len(program.ends) /\ spawned < Len(program.ends)
      BY <1>2, Basics DEF SpawnBranch, Sound, Births, Programme
    <3>2. b \in Used /\ Used \subseteq Branches /\ b \notin 1..spawned
      BY <3>1, Basics DEF Programme
    <3> QED
      BY <3>2 DEF Sound, Births
  <2> HIDE DEF b
  <2> QED
    BY <1>1, <2>1, <2>2 DEF Labels
<1>3. CASE Stays(Main) \/ Quits(Main) \/ Waits(Main) \/ Cancels
  <2>1. \A d \in Branches : pc'[d] = pc[d]
    BY <1>1, <1>3 DEF Stays, Quits, Waits, Cancels, Return
  <2>2. pc' \in [Coroutines -> Labels]
    BY <1>1, <1>3 DEF Stays, Quits, Waits, Cancels, Return, Goto, Going, Labels
  <2> QED
    BY <2>1, <2>2
<1> QED
  BY <1>2, <1>3, MainEffects

\* What a step of a branch does to the others, and which way the branch goes.
LEMMA BranchMoves ==
  ASSUME Sound, NEW b \in Branches, BranchStep(b)
  PROVE  /\ b \in running /\ pc[b] # "done" /\ b \in Used
         /\ running' = running \/ running' = running \ {b}
         /\ \A d \in Coroutines \ {b} : pc'[d] = pc[d]
         /\ pc'[b] \in {"unborn", "run", "post"} => pc[b] \in {"run", "post"}
         /\ pc[b] = "post" => TimerPost(b)
         /\ pc'[b] = "post" => TimerToken(b)
<1>1. b \in running /\ b \in Coroutines /\ (running' = running \/ running' = running \ {b})
  BY DEF BranchStep, Yield, End, TimerToken, TimerPost, TimerEnd, Caught, CountDown,
     Arrive, Store, SetPromise, At, Suspend, Leaves, Branches
<1>2. pc[b] # "done" /\ b \in Used
  BY <1>1, Basics
<1>3. pc \in [Coroutines -> Labels]
  BY Basics
<1>4. ASSUME NEW l \in Labels, Goto(b, l), l \notin {"unborn", "run", "post"} \/ pc[b] = "run"
      PROVE  /\ \A d \in Coroutines \ {b} : pc'[d] = pc[d]
             /\ pc'[b] \in {"unborn", "run", "post"} => pc[b] \in {"run", "post"}
  BY <1>1, <1>4, Gone
<1>8. pc[b] = "post" => TimerPost(b)
  BY DEF BranchStep, Yield, End, TimerToken, TimerEnd, Caught, CountDown, Arrive, Store, SetPromise, At
<1>9. ASSUME pc'[b] = "post" PROVE TimerToken(b)
  <2>1. CASE End(b)
    <3>1. Kind \in {"all", "any", "anyGroup", "timeout", "await", "bind", "bindVoid"}
      BY <1>2, <2>1, Basics DEF End, Programme, Kinds
    <3>2. PICK end : Goto(b, After(end))
      BY <2>1 DEF End
    <3>3. After(end) # "post"
      BY <3>1 DEF After
    <3> QED
      BY <1>1, <1>9, <3>2, <3>3, Gone
  <2>2. CASE Yield(b)
    BY <1>9, <2>2 DEF Yield, At
  <2>3. CASE TimerPost(b) \/ TimerEnd(b) \/ Caught(b) \/ CountDown(b) \/ Arrive(b) \/ Store(b)
             \/ SetPromise(b)
    <3>1. \E l \in {"asleep", "done", "arrive", "count", "store"} : Goto(b, l)
      BY <2>3 DEF TimerPost, TimerEnd, Caught, CountDown, Arrive, Store, SetPromise
    <3> QED
      BY <1>1, <1>9, <3>1, Gone
  <2> QED
    BY <2>1, <2>2, <2>3 DEF BranchStep
<1>5. CASE End(b)
  <2>1. Kind \in {"all", "any", "anyGroup", "timeout", "await", "bind", "bindVoid"}
    BY <1>2, <1>5, Basics DEF End, Programme, Kinds
  <2>2. PICK end : Goto(b, After(end))
    BY <1>5 DEF End
  <2>3. After(end) \in Labels \ {"unborn", "run", "post"}
    BY <2>1 DEF After, Labels
  <2> QED
    BY <1>1, <1>2, <1>4, <1>8, <1>9, <2>2, <2>3
<1>6. CASE Yield(b) \/ TimerToken(b)
  BY <1>1, <1>2, <1>3, <1>4, <1>6, <1>8, <1>9 DEF Yield, TimerToken, At, Labels
<1>7. CASE TimerPost(b) \/ TimerEnd(b) \/ Caught(b) \/ CountDown(b) \/ Arrive(b) \/ Store(b)
           \/ SetPromise(b)
  <2>1. \E l \in {"asleep", "done", "arrive", "count", "store"} : Goto(b, l)
    BY <1>7 DEF TimerPost, TimerEnd, Caught, CountDown, Arrive, Store, SetPromise
  <2> QED
    BY <1>1, <1>2, <1>4, <1>8, <1>9, <2>1 DEF Labels
<1> QED
  BY <1>5, <1>6, <1>7 DEF BranchStep

\* A cancelled timer is not live any more.
LEMMA CancelledTimer ==
  ASSUME Sound, NEW id \in Nat, NEW e \in Found(id), TimeCancel(e)
  PROVE  e \in Live /\ e.frame \in Branches /\ e.token = id /\ Live' = Live \ {e}
<1> DEFINE d == [e EXCEPT !.token = Cancelled]
<1>1. /\ e \in timers /\ e.token = id /\ e \in Live /\ timers' = (timers \ {e}) \cup {d}
  BY DEF Found, TimeCancel, Live, Cancelled
<1>2. e \in [frame : Branches, due : Nat, token : Nat \cup {Cancelled}]
  BY <1>1 DEF Sound, Timers
<1>3. d.token = Cancelled
  BY <1>2
<1> HIDE DEF d
<1> QED
  BY <1>1, <1>2, <1>3 DEF Live

\* A step of Main starts no timer.
LEMMA MainTimers ==
  ASSUME Sound, MainStep, UNCHANGED rigid
  PROVE  /\ Main \in running /\ pc[Main] # "done" /\ running' \subseteq running
         /\ Live' \subseteq Live /\ UNCHANGED <<token, counter>>
<1>1. Main \in running /\ UNCHANGED <<token, counter>>
  BY DEF MainStep, SpawnBranch, AwaitAll, AwaitAny, AwaitFuture, AwaitNothing, AwaitAt, ReturnAll,
     RequestStop, ReturnAny, TimeoutCancel, TimerCancel, TimerLater, ReturnFuture, Install,
     SignalWait, Callback, Restore, Clear, At, CancelFrame, TimeCancel, timeVars
<1>2. running' \subseteq running
  BY MainEffects DEF Stays, Quits, Waits, SpawnBranch, Cancels, Return, Leaves, Suspend
<1>3. CASE UNCHANGED timers
  BY <1>1, <1>2, <1>3, Basics DEF Live
<1>4. CASE Cancels
  <2>1. PICK id \in Nat : CancelFrame(id)
    BY <1>4 DEF Cancels
  <2>2. Live' \subseteq Live
    BY <1>3, <2>1, CancelledTimer DEF CancelFrame, timeVars
  <2> QED
    BY <1>1, <1>2, <2>2, Basics
<1> QED
  BY <1>3, <1>4, MainEffects DEF Stays, Quits, Waits, SpawnBranch, timeVars

LEMMA Awake ==
  ASSUME Sound, NEW c \in running
  PROVE  /\ \A e \in Live : e.frame # c
         /\ \A s \in Lists : c \notin ToSet(waiting[s])
<1>1. c \in Held["running"] /\ "running" \in Places /\ "time" \in Places
  BY Helds DEF Places
<1>2. c \notin Held["time"] /\ \A s \in Lists : c \notin Held[s]
  BY <1>1 DEF Sound, Placed, Partition, Places, Lists
<1> QED
  BY <1>2, Helds

\* Who waits at a service goes on waiting, unless the service is committed.
LEMMA Waiting ==
  ASSUME Sound, NEW c \in running, Stays(c) \/ Quits(c) \/ Waits(c)
  PROVE  \A s \in Lists : ToSet(waiting[s]) \subseteq ToSet(waiting'[s])
<1>1. CASE Stays(c) \/ Quits(c)
  BY <1>1 DEF Stays, Quits
<1>2. ASSUME NEW t \in Lists, Suspend(c, t)
      PROVE  \A s \in Lists : ToSet(waiting[s]) \subseteq ToSet(waiting'[s])
  <2>1. /\ waiting \in [Lists -> Seq(Coroutines)] /\ c \in Coroutines
        /\ waiting' = [waiting EXCEPT ![t] = <<c>> \o @]
    BY <1>2 DEF Suspend, Sound, Threads
  <2>2. ToSet(waiting[t]) \subseteq ToSet(<<c>> \o waiting[t])
    BY <2>1, ListContents
  <2> QED
    BY <2>1, <2>2
<1> QED
  BY <1>1, <1>2 DEF Waits

LEMMA Kept ==
  ASSUME Sound, [Next]_vars, UNCHANGED vars \/ ~(CommitFuture \/ CommitLatch)
  PROVE  /\ ToSet(waiting["future"]) \subseteq ToSet(waiting'["future"])
         /\ ToSet(waiting["latch"]) \subseteq ToSet(waiting'["latch"])
<1> SUFFICES ASSUME waiting' # waiting
             PROVE  /\ ToSet(waiting["future"]) \subseteq ToSet(waiting'["future"])
                    /\ ToSet(waiting["latch"]) \subseteq ToSet(waiting'["latch"])
  OBVIOUS
<1>1. "future" \in Lists /\ "latch" \in Lists /\ waiting \in [Lists -> Seq(Coroutines)]
  BY DEF Lists, Sound, Threads
<1>2. ASSUME NEW c \in Coroutines, Stays(c) \/ Quits(c) \/ Waits(c)
      PROVE  /\ ToSet(waiting["future"]) \subseteq ToSet(waiting'["future"])
             /\ ToSet(waiting["latch"]) \subseteq ToSet(waiting'["latch"])
  <2>1. c \in running
    BY <1>2 DEF Stays, Quits, Waits
  <2> QED
    BY <1>1, <1>2, <2>1, Waiting
<1>3. ASSUME MainStep PROVE Stays(Main) \/ Quits(Main) \/ Waits(Main)
  BY <1>3, MainEffects, Steps DEF SpawnBranch, Cancels
<1>4. ASSUME NEW b \in Branches, BranchStep(b) PROVE Stays(b) \/ Quits(b) \/ Waits(b)
  BY <1>4, BranchEffects, Steps DEF TimerToken, TimerPost
<1>5. ASSUME CommitYield \/ CommitFlag
      PROVE  waiting'["future"] = waiting["future"] /\ waiting'["latch"] = waiting["latch"]
  BY <1>1, <1>5 DEF CommitYield, CommitFlag, CommitList
<1>6. ~(Tick \/ Raise \/ PassStart \/ CommitTime \/ \E c \in Coroutines : Resume(c))
  BY DEF Tick, Raise, PassStart, CommitTime, Resume
<1> QED
  BY <1>2, <1>3, <1>4, <1>5, <1>6, Steps, Basics DEF Commit, vars

LEMMA FlowNext == ASSUME Sound, Flow, [Next]_vars PROVE Flow'
<1>1. /\ pc \in [Coroutines -> Labels] /\ running \subseteq Coroutines
      /\ Main \in Coroutines /\ Main \notin Branches /\ Branches \subseteq Coroutines
      /\ \A c \in running : \A l :
           Goto(c, l) => pc'[c] = l /\ \A d \in Coroutines \ {c} : pc'[d] = pc[d]
  BY Basics, Gone
<1>2. program' = program /\ Kind' = Kind
  BY Steps DEF rigid, Kind
<1>3. CASE UNCHANGED <<pc, spawned>>
  BY <1>2, <1>3 DEF Flow
<1>4. ASSUME NEW b \in Branches, BranchStep(b) PROVE Flow'
  <2>1. CASE UNCHANGED <<pc, spawned>>
    BY <1>3, <2>1
  <2>2. CASE End(b)
    <3>1. b \in Used /\ Kind \in {"all", "any", "anyGroup", "timeout", "await", "bind", "bindVoid"}
      BY <2>2, Basics DEF End, At, Programme, Kinds
    <3>2. PICK end : Goto(b, After(end)) /\ b \in running /\ spawned' = spawned
      BY <2>2 DEF End, At
    <3>3. /\ pc'[b] = After(end) /\ \A d \in Coroutines \ {b} : pc'[d] = pc[d]
      BY <1>1, <3>2
    <3>4. \/ Kind = "all" /\ After(end) \in {"caught", "count"}
          \/ Kind \in AnyKinds /\ After(end) = "arrive"
          \/ Kind \in Futures /\ After(end) = "set"
      BY <3>1 DEF After, AnyKinds, Futures
    <3> QED
      BY <1>1, <1>2, <3>2, <3>3, <3>4 DEF Flow
  <2>3. CASE TimerToken(b) \/ TimerPost(b)
    BY <1>1, <1>2, <2>3 DEF TimerToken, TimerPost, At, Flow
  <2>4. CASE TimerEnd(b)
    <3>1. b \in Used /\ program.ends[b] = "timer"
      BY <2>4, Basics DEF TimerEnd, At, Flow
    <3>2. Kind = "timer" \/ Kind \in AnyKinds
      BY <3>1, Basics DEF Programme, AnyKinds
    <3> QED
      BY <1>1, <1>2, <2>4, <3>2 DEF TimerEnd, At, Flow
  <2>5. CASE Caught(b) \/ CountDown(b)
    BY <1>1, <1>2, <2>5 DEF Caught, CountDown, At, Flow
  <2>6. CASE Arrive(b) \/ Store(b)
    BY <1>1, <1>2, <2>6 DEF Arrive, Store, At, Flow
  <2>7. CASE SetPromise(b)
    BY <1>1, <1>2, <2>7 DEF SetPromise, At, Flow
  <2> QED
    BY <1>4, <2>1, <2>2, <2>3, <2>4, <2>5, <2>6, <2>7 DEF BranchStep, Yield
<1>5. ASSUME MainStep PROVE Flow'
  <2>1. CASE UNCHANGED <<pc, spawned>>
    BY <1>3, <2>1
  <2>2. CASE SpawnBranch
    <3> DEFINE b == spawned + 1
    <3>1. /\ pc' = [pc EXCEPT ![b] = "run"] /\ spawned' = b /\ pc[Main] = "spawn"
      BY <2>2 DEF SpawnBranch, Goto, At
    <3>2. b # Main
      BY Basics DEF Sound, Births
    <3> HIDE DEF b
    <3> QED
      BY <1>1, <1>2, <3>1, <3>2 DEF Flow
  <2>3. ASSUME NEW service, NEW kinds, NEW label \in {"awaiting", "cancel"},
               AwaitAt(service, kinds, label)
        PROVE  Flow'
    <3>1. spawned = Len(program.ends)
      BY <2>3, Basics DEF AwaitAt, Programme
    <3> QED
      BY <1>1, <1>2, <2>3, <3>1 DEF AwaitAt, At, Flow
  <2>4. CASE ReturnAll \/ ReturnFuture \/ TimeoutCancel \/ \E b \in Used : TimerCancel(b)
    BY <1>1, <1>2, <2>4 DEF ReturnAll, ReturnFuture, TimeoutCancel, TimerCancel, Return, At, Flow
  <2>5. CASE RequestStop \/ ReturnAny
    BY <1>1, <1>2, <2>5 DEF RequestStop, ReturnAny, Return, At, Flow, AnyKinds
  <2>6. CASE Install \/ SignalWait \/ Callback \/ Restore \/ Clear
    BY <1>1, <1>2, <2>6 DEF Install, SignalWait, Callback, Restore, Clear, Return, At, Flow
  <2> QED
    BY <1>5, <2>1, <2>2, <2>3, <2>4, <2>5, <2>6
       DEF MainStep, AwaitAll, AwaitAny, AwaitFuture, AwaitNothing, TimerLater
<1> QED
  BY <1>3, <1>4, <1>5, Steps, LoopLeaves

LEMMA ResultsNext == ASSUME Sound, Flow, Causes, Results, [Next]_vars PROVE Results'
<1>1. /\ pc \in [Coroutines -> Labels] /\ running \subseteq Coroutines
      /\ Main \in Coroutines /\ Main \notin Branches /\ Branches \subseteq Coroutines
      /\ \A c \in running : \A l :
           Goto(c, l) => pc'[c] = l /\ \A d \in Coroutines \ {c} : pc'[d] = pc[d]
  BY Basics, Gone
<1>2. program' = program /\ Kind' = Kind
  BY Steps DEF rigid, Kind
<1>3. CASE UNCHANGED <<pc, result>>
  BY <1>2, <1>3 DEF Results
<1>4. ASSUME NEW b \in Branches, BranchStep(b) PROVE Results'
  <2>1. CASE UNCHANGED <<pc, result>>
    BY <1>3, <2>1
  <2>2. CASE End(b)
    <3>1. b \in Used /\ Kind \in {"all", "any", "anyGroup", "timeout", "await", "bind", "bindVoid"}
      BY <2>2, Basics DEF End, At, Programme, Kinds
    <3>2. PICK end \in {"throw", "value"} : /\ Goto(b, After(end)) /\ b \in running
                                            /\ result' = [result EXCEPT ![b] = end]
      BY <2>2 DEF End, At
    <3>3. /\ pc'[b] = After(end) /\ \A d \in Coroutines \ {b} : pc'[d] = pc[d]
      BY <1>1, <3>2
    <3>4. After(end) \notin {"unborn", "run", "post", "asleep"}
      BY <3>1 DEF After
    <3> QED
      BY <1>1, <1>2, <3>2, <3>3, <3>4 DEF Results, None
  <2>3. CASE TimerToken(b) \/ TimerPost(b)
    BY <1>1, <1>2, <2>3 DEF TimerToken, TimerPost, At, Results
  <2>4. CASE TimerEnd(b)
    <3>1. cause[b] \in {"none", "expired", "cancelled"} /\ b \in Coroutines
      BY <1>1 DEF Causes
    <3> QED
      BY <1>1, <1>2, <2>4, <3>1 DEF TimerEnd, At, Results, None
  <2>5. CASE Caught(b) \/ CountDown(b)
    BY <1>1, <1>2, <2>5 DEF Caught, CountDown, At, Results
  <2>6. CASE Arrive(b) \/ Store(b)
    BY <1>1, <1>2, <2>6 DEF Arrive, Store, At, Results
  <2>7. CASE SetPromise(b)
    BY <1>1, <1>2, <2>7 DEF SetPromise, At, Results
  <2> QED
    BY <1>4, <2>1, <2>2, <2>3, <2>4, <2>5, <2>6, <2>7 DEF BranchStep, Yield
<1>5. ASSUME MainStep PROVE Results'
  <2>1. /\ \A b \in Branches : pc'[b] = pc[b] \/ (pc[b] = "unborn" /\ pc'[b] = "run")
        /\ result' = result
    BY <1>5, MainBranches, MainLeaves, Steps
  <2> QED
    BY <1>2, <2>1 DEF Results
<1> QED
  BY <1>3, <1>4, <1>5, Steps, LoopLeaves

LEMMA CausesNext == ASSUME Sound, Sound', Flow, Causes, Results, [Next]_vars PROVE Causes'
<1>1. /\ pc \in [Coroutines -> Labels] /\ running \subseteq Coroutines /\ Programme
      /\ Main \in Coroutines /\ Main \notin Branches /\ Branches \subseteq Coroutines
      /\ \A c \in running : \A l :
           Goto(c, l) => pc'[c] = l /\ \A d \in Coroutines \ {c} : pc'[d] = pc[d]
  BY Basics, Gone
<1>2. program' = program /\ Kind' = Kind
  BY Steps DEF rigid, Kind
<1>3. /\ now \in Nat /\ timers \subseteq [frame : Branches, due : Nat, token : Nat \cup {Cancelled}]
      /\ Live \subseteq timers /\ \A b \in Branches : Duration[b] \in Nat
      /\ \A d, e \in Live : d.frame = e.frame => d = e
  BY DurationAssumption DEF Sound, Timers, Live
<1>4. /\ \A b \in running : \A e \in Live : e.frame # b
      /\ result \in [Branches -> {None, "value", "throw", "expired", "cancelled"}]
  BY Awake DEF Results
<1>5. CASE /\ UNCHANGED <<timers, cause, pc, result>> /\ now' \in Nat /\ now <= now'
  <2>1. Live' = Live
    BY <1>5 DEF Live
  <2>2. ASSUME NEW b \in Branches, cause'[b] = "expired" PROVE now' > Duration[b]
    BY <1>3, <1>5, <2>2 DEF Causes
  <2> QED
    BY <1>2, <1>5, <2>1, <2>2 DEF Causes
<1>6. CASE CommitTime
  <2>1. /\ timers' = timers \ Due /\ UNCHANGED <<now, pc, result>>
        /\ cause' = [c \in Coroutines |->
                       IF \E e \in Fired : e.frame = c THEN "expired" ELSE cause[c]]
    BY <1>6 DEF CommitTime, TimeCommit
  <2>2. Live' = Live \ Fired /\ Fired \subseteq Live
    BY <2>1 DEF Live, Fired, Due
  <2>3. \A e \in Fired : e.due < now
    BY DEF Fired, Due
  <2>4. cause' \in [Coroutines -> {"none", "expired", "cancelled"}]
    BY <2>1 DEF Causes
  <2>5. ASSUME NEW b \in Branches
        PROVE  /\ pc[b] = "asleep" /\ (\A e \in Live' : e.frame # b) => cause'[b] # "none"
               /\ cause'[b] = "expired" => now > Duration[b]
               /\ Kind = "timeout" /\ b = 2 /\ result[b] = "value" => cause'[b] = "expired"
    <3>1. CASE \E e \in Fired : e.frame = b
      <4>1. PICK e \in Fired : e.frame = b
        BY <3>1
      <4>2. cause'[b] = "expired" /\ e.due \in Nat /\ Duration[b] \in Nat
        BY <1>1, <1>3, <2>1, <2>2, <4>1
      <4>3. e.due >= Duration[b] /\ e.due < now
        BY <1>3, <2>2, <2>3, <4>1 DEF Causes
      <4> QED
        BY <1>3, <4>2, <4>3
    <3>2. CASE ~ \E e \in Fired : e.frame = b
      <4>1. cause'[b] = cause[b]
        BY <1>1, <2>1, <3>2
      <4>2. (\A e \in Live' : e.frame # b) => (\A e \in Live : e.frame # b)
        BY <2>2, <3>2
      <4> QED
        BY <4>1, <4>2 DEF Causes
    <3> QED
      BY <3>1, <3>2
  <2> QED
    BY <1>2, <2>1, <2>2, <2>4, <2>5 DEF Causes
<1>7. ASSUME NEW b \in Branches, BranchStep(b) PROVE Causes'
  <2>1. ASSUME UNCHANGED <<now, timers, cause>>, NEW l \in Labels \ {"asleep"}, Goto(b, l),
               b \in running,
               \/ result' = result
               \/ End(b)
               \/ TimerEnd(b)
        PROVE  Causes'
    <3>1. Live' = Live /\ pc'[b] = l /\ \A d \in Coroutines \ {b} : pc'[d] = pc[d]
      BY <1>1, <2>1 DEF Live
    <3>2. \A d \in Branches \ {b} : result'[d] = result[d]
      BY <1>4, <2>1 DEF End, TimerEnd
    <3>3. Kind = "timeout" /\ b = 2 /\ result'[b] = "value" => cause[b] = "expired"
      <4>1. CASE result' = result
        BY <4>1 DEF Causes
      <4>2. CASE End(b)
        <5>1. b \in Used /\ program.ends[b] # "timer"
          BY <4>2, Basics DEF End, At
        <5> QED
          BY <1>1, <5>1 DEF Programme
      <4>3. CASE TimerEnd(b)
        <5>1. pc[b] = "asleep" /\ cause[b] # "none" /\ cause[b] \in {"none", "expired", "cancelled"}
          BY <1>1, <1>4, <2>1, <4>3 DEF TimerEnd, At, Causes
        <5> QED
          BY <1>4, <4>3, <5>1 DEF TimerEnd
      <4> QED
        BY <2>1, <4>1, <4>2, <4>3
    <3>4. \A e \in Live : pc'[e.frame] = "asleep"
      BY <1>1, <1>3, <1>4, <2>1, <3>1 DEF Causes
    <3> QED
      BY <1>1, <1>2, <2>1, <3>1, <3>2, <3>3, <3>4 DEF Causes
  <2>2. CASE Yield(b)
    <3>1. Goto(b, pc[b]) /\ b \in running /\ pc[b] = "run"
      BY <1>1, <2>2 DEF Yield, At, Goto
    <3> QED
      BY <2>1, <2>2, <3>1 DEF Yield, Labels, timeVars
  <2>3. CASE End(b)
    <3>1. b \in Used /\ Kind \in {"all", "any", "anyGroup", "timeout", "await", "bind", "bindVoid"}
      BY <2>3, Basics DEF End, At, Programme, Kinds
    <3>2. PICK end : /\ Goto(b, After(end)) /\ b \in running
                     /\ UNCHANGED <<now, timers, cause>>
      BY <2>3 DEF End, At, timeVars
    <3>3. After(end) \in Labels \ {"asleep"}
      BY <3>1 DEF After, Labels
    <3> QED
      BY <2>1, <2>3, <3>2, <3>3
  <2>4. CASE TimerToken(b)
    BY <2>1, <2>4 DEF TimerToken, TokenRead, At, Labels
  <2>5. CASE TimerPost(b)
    <3> DEFINE e == Entry(b, now + Duration[b], counter)
    <3>1. /\ b \in running /\ Goto(b, "asleep") /\ timers' = timers \cup {e}
          /\ UNCHANGED <<now, cause, result>>
      BY <2>5 DEF TimerPost, At, TimePost
    <3>2. e.frame = b /\ e.due = now + Duration[b] /\ e.token # Cancelled
      BY DEF Entry, Cancelled, Sound, Timers
    <3>3. e.due >= Duration[b]
      BY <1>3, <3>2
    <3> HIDE DEF e
    <3>4. Live' = Live \cup {e}
      BY <3>1, <3>2 DEF Live
    <3>5. pc'[b] = "asleep" /\ \A d \in Coroutines \ {b} : pc'[d] = pc[d]
      BY <1>1, <3>1
    <3>6. \A d \in Live' : pc'[d.frame] = "asleep"
      BY <1>1, <1>3, <3>2, <3>4, <3>5 DEF Causes
    <3>7. \A d \in timers' : d.due >= Duration[d.frame]
      BY <3>1, <3>2, <3>3 DEF Causes
    <3>8. \A d \in Branches : (\A c \in Live' : c.frame # d) => d # b /\ \A c \in Live : c.frame # d
      BY <3>2, <3>4
    <3> QED
      BY <1>1, <1>2, <3>1, <3>5, <3>6, <3>7, <3>8 DEF Causes
  <2>6. CASE TimerEnd(b)
    BY <2>1, <2>6 DEF TimerEnd, At, Labels, timeVars
  <2>7. CASE Caught(b) \/ CountDown(b) \/ Arrive(b) \/ Store(b) \/ SetPromise(b)
    BY <2>1, <2>7 DEF Caught, CountDown, Arrive, Store, SetPromise, At, Labels, timeVars
  <2> QED
    BY <1>7, <2>2, <2>3, <2>4, <2>5, <2>6, <2>7 DEF BranchStep
<1>8. ASSUME MainStep PROVE Causes'
  <2>1. /\ \A b \in Branches : pc'[b] = pc[b] \/ (pc[b] = "unborn" /\ pc'[b] = "run")
        /\ result' = result
    BY <1>8, MainBranches, MainLeaves, Steps
  <2>2. \A e \in Live : pc'[e.frame] = "asleep"
    BY <1>3, <2>1 DEF Causes
  <2>3. CASE UNCHANGED timeVars
    <3>1. Live' = Live
      BY <2>3 DEF timeVars, Live
    <3> QED
      BY <1>2, <2>1, <2>2, <2>3, <3>1 DEF Causes, timeVars
  <2>4. CASE Cancels
    <3>1. PICK id \in Nat : CancelFrame(id)
      BY <2>4 DEF Cancels
    <3>2. ASSUME NEW e \in Found(id), TimeCancel(e) PROVE Causes'
      <4> DEFINE d == [e EXCEPT !.token = Cancelled]
      <4>1. /\ e \in timers /\ e \in Live /\ timers' = (timers \ {e}) \cup {d} /\ now' = now
            /\ cause' = [cause EXCEPT ![e.frame] = "cancelled"]
        BY <3>2 DEF Found, TimeCancel, Live, Cancelled
      <4>2. e \in [frame : Branches, due : Nat, token : Nat \cup {Cancelled}]
        BY <1>3, <4>1
      <4>3. d.frame = e.frame /\ d.due = e.due /\ d.token = Cancelled
        BY <4>2
      <4> HIDE DEF d
      <4>4. Live' = Live \ {e}
        BY <4>1, <4>3 DEF Live
      <4>5. \A c \in timers' : c.due >= Duration[c.frame]
        BY <4>1, <4>3 DEF Causes
      <4>6. /\ e.frame \in Branches /\ cause'[e.frame] = "cancelled"
            /\ \A c \in Coroutines \ {e.frame} : cause'[c] = cause[c]
            /\ cause' \in [Coroutines -> {"none", "expired", "cancelled"}]
        BY <1>1, <4>1, <4>2 DEF Causes
      <4>7. \A b \in Branches \ {e.frame} :
              (\A c \in Live' : c.frame # b) => \A c \in Live : c.frame # b
        BY <4>4
      <4>8. Kind = "timeout" => result[e.frame] = None
        <5>1. pc[e.frame] = "asleep"
          BY <4>1 DEF Causes
        <5> QED
          BY <4>6, <5>1 DEF Results
      <4>9. ASSUME NEW b \in Branches
            PROVE  /\ pc'[b] = "asleep" /\ (\A c \in Live' : c.frame # b) => cause'[b] # "none"
                   /\ cause'[b] = "expired" => now' > Duration[b]
                   /\ Kind = "timeout" /\ b = 2 /\ result'[b] = "value" => cause'[b] = "expired"
        <5>1. CASE b = e.frame
          BY <2>1, <4>6, <4>8, <5>1 DEF None
        <5>2. CASE b # e.frame
          BY <1>1, <2>1, <4>1, <4>6, <4>7, <5>2 DEF Causes
        <5> QED
          BY <5>1, <5>2
      <4> QED
        BY <1>2, <2>2, <4>4, <4>5, <4>6, <4>9 DEF Causes
    <3> QED
      BY <2>3, <3>1, <3>2 DEF CancelFrame
  <2> QED
    BY <1>8, <2>3, <2>4, MainEffects, Steps DEF Stays, Quits, Waits, SpawnBranch
<1>9. ASSUME PassStart \/ CommitYield \/ CommitFlag \/ CommitLatch \/ CommitFuture \/ Raise
             \/ (\E c \in Coroutines : Resume(c)) \/ UNCHANGED vars
      PROVE  UNCHANGED timeVars
  BY <1>9 DEF PassStart, CommitYield, CommitFlag, CommitLatch, CommitFuture, CommitList, Raise, Resume, vars
<1>10. CASE Tick
  BY <1>3, <1>5, <1>10, LoopLeaves DEF Tick
<1>11. CASE UNCHANGED <<timeVars, pc, result>>
  BY <1>3, <1>5, <1>11 DEF timeVars
<1> QED
  BY <1>6, <1>7, <1>8, <1>9, <1>10, <1>11, Steps, LoopLeaves DEF Commit

\* A branch that has ended does not end again.
LEMMA ResultStays ==
  ASSUME Sound, Flow, Results, [Next]_vars, Kind # "timer",
         NEW b \in Branches, result[b] # None
  PROVE  result'[b] = result[b]
<1>1. pc[b] \notin {"unborn", "run", "post", "asleep"}
  BY DEF Results
<1>2. ASSUME NEW c \in Branches, BranchStep(c) PROVE result'[b] = result[b]
  <2>1. CASE c = b
    BY <1>1, <1>2, <2>1 DEF BranchStep, Yield, End, TimerToken, TimerPost, TimerEnd, Caught, CountDown,
       Arrive, Store, SetPromise, At
  <2>2. CASE c # b
    BY <1>2, <2>2 DEF Results, BranchStep, Yield, End, TimerToken, TimerPost, TimerEnd, Caught,
       CountDown, Arrive, Store, SetPromise
  <2> QED
    BY <2>1, <2>2
<1> QED
  BY <1>2, Steps, LoopLeaves, MainLeaves

LEMMA FirstNext == ASSUME Sound, Flow, Results, First, [Next]_vars PROVE First'
<1>1. /\ pc \in [Coroutines -> Labels] /\ running \subseteq Coroutines /\ Programme
      /\ Main \in Coroutines /\ Main \notin Branches /\ Branches \subseteq Coroutines
      /\ \A c \in running : \A l :
           Goto(c, l) => pc'[c] = l /\ \A d \in Coroutines \ {c} : pc'[d] = pc[d]
  BY Basics, Gone
<1>2. program' = program /\ Kind' = Kind
  BY Steps DEF rigid, Kind
<1>3. arrived # Nobody => result'[arrived.by] = result[arrived.by]
  BY ResultStays DEF First, AnyKinds, None
<1>4. ASSUME flag' \in {flag, TRUE}, arrived' = arrived, Storing' \subseteq Storing,
             pc'[Main] = "cancel" /\ Kind = "timeout" => arrived = [by |-> 1, threw |-> FALSE]
      PROVE  First'
  <2>1. flag' \in BOOLEAN /\ (flag => flag')
    <3>1. flag \in BOOLEAN
      BY DEF First
    <3>2. CASE flag' = flag
      BY <3>1, <3>2
    <3>3. CASE flag' = TRUE
      BY <3>3
    <3> QED
      BY <1>4, <3>2, <3>3
  <2>4. /\ \A b, c \in Storing' : b = c
        /\ Storing' # {} => flag /\ arrived = Nobody
    <3>1. /\ \A b, c \in Storing : b = c
          /\ Storing # {} => flag /\ arrived = Nobody
      BY DEF First
    <3> QED
      BY <1>4, <3>1
  <2>2. arrived # Nobody =>
           /\ flag /\ Kind \in AnyKinds /\ arrived.by \in Branches /\ arrived.threw \in BOOLEAN
           /\ result'[arrived.by] = IF arrived.threw THEN "throw" ELSE "value"
    BY <1>3 DEF First
  <2>3. arrived \in [by : Coroutines, threw : BOOLEAN]
    BY DEF First
  <2> QED
    BY <1>2, <1>4, <2>1, <2>2, <2>3, <2>4 DEF First
<1>5. ASSUME NEW b \in Branches, BranchStep(b) PROVE First'
  <2>1. pc'[Main] = pc[Main]
    BY <1>1, <1>5, BranchMoves
  <2>2. CASE Arrive(b)
    <3>1. CASE flag
      <4>1. Storing' \subseteq Storing
        BY <1>1, <2>2, <3>1 DEF Arrive, At, Storing
      <4> QED
        BY <1>4, <2>1, <2>2, <4>1 DEF Arrive, First
    <3>2. CASE ~flag
      <4>1. Storing = {} /\ arrived = Nobody
        BY <3>2 DEF First
      <4>2. Storing' \subseteq {b}
        BY <1>1, <2>2, <4>1 DEF Arrive, At, Storing
      <4> QED
        BY <1>2, <2>1, <2>2, <4>1, <4>2 DEF Arrive, First
    <3> QED
      BY <3>1, <3>2
  <2>3. CASE Store(b)
    <3>1. b \in Storing /\ Storing = {b} /\ arrived = Nobody /\ flag /\ Kind \in AnyKinds
      BY <1>1, <2>3 DEF Store, At, Storing, First, Flow, AnyKinds
    <3>2. Storing' = {}
      BY <1>1, <2>3, <3>1 DEF Store, At, Storing
    <3>3. result[b] \in {"value", "throw"}
      BY <3>1 DEF Results, Storing, AnyKinds
    <3>4. arrived' = [by |-> b, threw |-> result[b] = "throw"] /\ result' = result /\ flag' = flag
      BY <2>3 DEF Store
    <3>5. ~(pc[Main] = "cancel" /\ Kind = "timeout")
      BY <3>1 DEF First, Nobody, Main
    <3>6. /\ arrived'.by = b /\ arrived'.threw \in BOOLEAN
          /\ arrived' \in [by : Coroutines, threw : BOOLEAN]
          /\ result[b] = IF arrived'.threw THEN "throw" ELSE "value"
      BY <1>1, <3>3, <3>4
    <3> QED
      BY <1>2, <2>1, <3>1, <3>2, <3>4, <3>5, <3>6 DEF First
  <2>4. CASE ~Arrive(b) /\ ~Store(b)
    <3>1. pc'[b] # "store" \/ pc' = pc
      <4>1. CASE End(b)
        <5>1. b \in Used /\ Kind \in {"all", "any", "anyGroup", "timeout", "await", "bind", "bindVoid"}
          BY <4>1, Basics DEF End, At, Programme, Kinds
        <5>2. PICK end : Goto(b, After(end)) /\ b \in running
          BY <4>1 DEF End, At
        <5>3. After(end) # "store"
          BY <5>1 DEF After
        <5> QED
          BY <1>1, <5>2, <5>3
      <4>2. CASE ~End(b)
        BY <1>1, <1>5, <2>4, <4>2 DEF BranchStep, Yield, TimerToken, TimerPost, TimerEnd, Caught,
           CountDown, SetPromise, At
      <4> QED
        BY <4>1, <4>2
    <3>2. flag' = flag /\ arrived' = arrived
      BY <1>5, <2>4 DEF BranchStep, Yield, End, TimerToken, TimerPost, TimerEnd, Caught, CountDown,
         SetPromise, sync
    <3>3. \A d \in Branches \ {b} : pc'[d] = pc[d]
      BY <1>1, <1>5, BranchMoves
    <3>4. Storing' \subseteq Storing
      BY <3>1, <3>3 DEF Storing
    <3> QED
      BY <1>4, <2>1, <3>2, <3>4 DEF First
  <2> QED
    BY <2>2, <2>3, <2>4
<1>6. ASSUME MainStep PROVE First'
  <2>1. Storing' \subseteq Storing /\ arrived' = arrived /\ result' = result
    BY <1>6, MainBranches, MainLeaves, Steps DEF Storing
  <2>2. CASE Clear
    <3>1. Kind = "signal" /\ Used = {}
      BY <1>1, <2>2 DEF Clear, At, Flow, Programme
    <3>2. \A b \in Branches : pc[b] = "unborn"
      BY <3>1, Basics
    <3>3. Storing = {} /\ arrived = Nobody /\ flag' = FALSE
      BY <2>2, <3>1, <3>2 DEF Clear, Storing, First, AnyKinds
    <3> QED
      BY <1>2, <2>1, <3>1, <3>3 DEF First
  <2>3. CASE ReturnAny
    <3>1. /\ flag' = flag
          /\ pc'[Main] = "cancel" => /\ arrived # Nobody /\ ~arrived.threw
                                     /\ Kind = "timeout" /\ arrived.by = 1
      BY <1>1, <2>3 DEF ReturnAny, Return, At, sync
    <3>2. arrived \in [by : Coroutines, threw : BOOLEAN]
      BY DEF First
    <3> QED
      BY <1>4, <2>1, <3>1, <3>2 DEF First
  <2>4. CASE ~Clear /\ ~ReturnAny
    <3>1. flag' = flag
      BY <1>6, <2>4 DEF MainStep, SpawnBranch, AwaitAll, AwaitAny, AwaitFuture, AwaitNothing, AwaitAt,
         ReturnAll, RequestStop, TimeoutCancel, TimerCancel, TimerLater, ReturnFuture, Install,
         SignalWait, Callback, Restore, sync
    <3>2. pc'[Main] = "cancel" => pc[Main] = "cancel" \/ Kind = "timer"
      <4>1. CASE SpawnBranch
        <5>1. spawned + 1 # Main /\ pc' = [pc EXCEPT ![spawned + 1] = "run"]
          BY <4>1, Basics DEF SpawnBranch, Goto, Sound, Births
        <5> QED
          BY <1>1, <5>1
      <4>2. CASE ~SpawnBranch
        BY <1>1, <1>6, <2>4, <4>2 DEF MainStep, AwaitAll, AwaitAny, AwaitFuture, AwaitNothing, AwaitAt,
           ReturnAll, RequestStop, TimeoutCancel, TimerCancel, TimerLater, ReturnFuture, Install,
           SignalWait, Callback, Restore, Return, At
      <4> QED
        BY <4>1, <4>2
    <3> QED
      BY <1>4, <2>1, <3>1, <3>2 DEF First
  <2> QED
    BY <2>2, <2>3, <2>4
<1>7. ASSUME UNCHANGED vars \/ Commit \/ Tick \/ Raise \/ \E c \in Coroutines : Resume(c)
      PROVE  First'
  <2>1. flag' \in {flag, TRUE}
    BY <1>7 DEF vars, Commit, PassStart, CommitYield, CommitFlag, CommitLatch, CommitFuture, CommitList,
       CommitTime, Tick, Raise, Resume, sync, First
  <2>2. pc' = pc /\ arrived' = arrived
    BY <1>7, LoopLeaves
  <2>3. Storing' = Storing
    BY <2>2 DEF Storing
  <2> QED
    BY <1>4, <2>1, <2>2, <2>3 DEF First
<1> QED
  BY <1>5, <1>6, <1>7, Steps

\* A wait for a future is resumed only by a commit that has seen the promise.
LEMMA PromisedNext == ASSUME Sound, Flow, Results, Promised, [Next]_vars PROVE Promised'
<1>1. /\ pc \in [Coroutines -> Labels] /\ running \subseteq Coroutines /\ Programme
      /\ Main \in Coroutines /\ Main \notin Branches /\ Branches \subseteq Coroutines /\ Main = 0
      /\ \A c \in running : \A l :
           Goto(c, l) => pc'[c] = l /\ \A d \in Coroutines \ {c} : pc'[d] = pc[d]
  BY Basics, Gone
<1>2. program' = program /\ Kind' = Kind
  BY Steps DEF rigid, Kind
<1>3. Kind \in Futures => Used = {1} /\ 1 \in Branches
  BY <1>1 DEF Programme, Futures
<1>4. Kind \in Futures /\ result[1] # None => result'[1] = result[1]
  <2>1. Kind \in Futures => Kind # "timer"
    BY DEF Futures
  <2> QED
    BY <1>3, <2>1, ResultStays
<1>5. ASSUME UNCHANGED <<promise, escaped>>
      PROVE  /\ promise' # None => /\ Kind \in Futures /\ promise' = result'[1]
                                   /\ promise' \in {"value", "throw"}
                                   /\ Kind = "await" => promise' = "value"
             /\ escaped' => Kind = "await" /\ result'[1] = "throw"
  BY <1>4, <1>5 DEF Promised, None, Futures
<1>6. ASSUME pc'[Main] = pc[Main],
             ToSet(waiting["future"]) \subseteq ToSet(waiting'["future"]),
             promise # None => promise' # None
      PROVE  pc'[Main] = "awaiting" /\ Kind \in Futures /\ Main \notin ToSet(waiting'["future"])
               => promise' # None
  BY <1>6 DEF Promised
<1>7. ASSUME NEW b \in Branches, BranchStep(b) PROVE Promised'
  <2>1. pc'[Main] = pc[Main]
    BY <1>1, <1>7, BranchMoves
  <2>2. ToSet(waiting["future"]) \subseteq ToSet(waiting'["future"])
    <3>1. (b \in running /\ (Stays(b) \/ Quits(b) \/ Waits(b))) \/ waiting' = waiting
      BY <1>7, BranchEffects, Steps DEF TimerToken, TimerPost, Stays, Quits, Waits
    <3> QED
      BY <3>1, Waiting DEF Lists
  <2>3. CASE SetPromise(b)
    <3>1. pc[b] = "set" /\ b \in running
      BY <2>3 DEF SetPromise, At
    <3>2. Kind \in Futures /\ b = 1
      <4>1. Kind \in Futures
        BY <3>1 DEF Flow
      <4>2. b \in Used
        BY <1>1, <3>1, Basics
      <4> QED
        BY <1>3, <4>1, <4>2
    <3>3. result[1] \in {"value", "throw"}
      BY <3>1, <3>2 DEF Results, Futures
    <3>4. result' = result
      BY <2>3 DEF SetPromise
    <3>5. CASE Kind = "await" /\ result[b] = "throw"
      <4>1. escaped' = TRUE /\ promise' = promise
        BY <2>3, <3>5 DEF SetPromise
      <4> QED
        BY <1>2, <1>6, <2>1, <2>2, <3>2, <3>4, <3>5, <4>1 DEF Promised
    <3>6. CASE ~(Kind = "await" /\ result[b] = "throw")
      <4>1. promise' = result[1] /\ escaped' = escaped
        BY <2>3, <3>2, <3>6 DEF SetPromise
      <4>2. promise' # None
        BY <3>3, <4>1 DEF None
      <4> QED
        BY <1>2, <3>2, <3>3, <3>4, <3>6, <4>1, <4>2 DEF Promised
    <3> QED
      BY <3>5, <3>6
  <2>4. CASE ~SetPromise(b)
    <3>1. UNCHANGED <<promise, escaped>>
      BY <1>7, <2>4 DEF BranchStep, Yield, End, TimerToken, TimerPost, TimerEnd, Caught, CountDown,
         Arrive, Store, sync
    <3> QED
      BY <1>2, <1>5, <1>6, <2>1, <2>2, <3>1 DEF Promised
  <2> QED
    BY <2>3, <2>4
<1>8. ASSUME MainStep PROVE Promised'
  <2>1. UNCHANGED <<promise, escaped>>
    BY <1>8, MainLeaves
  <2>2. pc'[Main] = "awaiting" /\ Kind \in Futures /\ Main \notin ToSet(waiting'["future"])
          => promise' # None
    <3>1. CASE AwaitFuture
      <4>1. waiting' = [waiting EXCEPT !["future"] = <<Main>> \o @] /\ "future" \in Lists
        BY <3>1 DEF AwaitFuture, AwaitAt, Suspend, Lists
      <4>2. waiting["future"] \in Seq(Coroutines) /\ waiting'["future"] = <<Main>> \o waiting["future"]
        BY <4>1 DEF Sound, Threads
      <4>3. Main \in ToSet(waiting'["future"])
        BY <1>1, <4>2, ListContents
      <4> QED
        BY <4>3
    <3>2. CASE SpawnBranch
      <4>1. spawned + 1 # Main /\ pc' = [pc EXCEPT ![spawned + 1] = "run"] /\ pc[Main] = "spawn"
        BY <3>2, Basics DEF SpawnBranch, Goto, Sound, Births, At
      <4> QED
        BY <1>1, <4>1
    <3>3. CASE AwaitAll \/ AwaitAny \/ SignalWait
      BY <3>3 DEF AwaitAll, AwaitAny, AwaitAt, SignalWait, At, Flow, Futures
    <3>4. CASE ~AwaitFuture /\ ~SpawnBranch /\ ~AwaitAll /\ ~AwaitAny /\ ~SignalWait
      <4>1. pc'[Main] # "awaiting"
        BY <1>1, <1>8, <3>4 DEF MainStep, AwaitNothing, AwaitAt, ReturnAll, RequestStop, ReturnAny,
           TimeoutCancel, TimerCancel, TimerLater, ReturnFuture, Install, Callback, Restore, Clear,
           Return, At
      <4> QED
        BY <4>1
    <3> QED
      BY <3>1, <3>2, <3>3, <3>4
  <2> QED
    BY <1>2, <1>5, <2>1, <2>2 DEF Promised
<1>9. ASSUME UNCHANGED vars \/ Commit \/ Tick \/ Raise \/ \E c \in Coroutines : Resume(c)
      PROVE  Promised'
  <2>1. UNCHANGED <<pc, promise, escaped>>
    BY <1>9, LoopLeaves
  <2>2. pc'[Main] = "awaiting" /\ Kind \in Futures /\ Main \notin ToSet(waiting'["future"])
          => promise' # None
    <3>1. CASE CommitFuture /\ promise # None
      BY <2>1, <3>1
    <3>2. CASE CommitFuture /\ promise = None
      BY <1>6, <2>1, <3>2 DEF CommitFuture, CommitList
    <3>3. CASE CommitLatch
      <4>1. waiting'["future"] = waiting["future"]
        BY <3>3 DEF CommitLatch, CommitList, Sound, Threads, Lists
      <4> QED
        BY <1>6, <2>1, <4>1
    <3>4. CASE ~(CommitFuture \/ CommitLatch)
      BY <1>6, <2>1, <3>4, Kept
    <3> QED
      BY <3>1, <3>2, <3>3, <3>4
  <2> QED
    BY <1>2, <1>5, <2>1, <2>2 DEF Promised
<1> QED
  BY <1>7, <1>8, <1>9, Steps

LEMMA OutcomeNext ==
  ASSUME Sound, Flow, Results, First, Promised, Outcome, [Next]_vars
  PROVE  Outcome'
<1>1. /\ pc \in [Coroutines -> Labels] /\ running \subseteq Coroutines /\ Programme
      /\ Main \in Coroutines /\ Main \notin Branches /\ Branches \subseteq Coroutines /\ Main = 0
      /\ \A c \in running : \A l :
           Goto(c, l) => pc'[c] = l /\ \A d \in Coroutines \ {c} : pc'[d] = pc[d]
  BY Basics, Gone
<1>2. program' = program /\ Kind' = Kind
  BY Steps DEF rigid, Kind
<1>3. ASSUME outcome' = outcome, pc'[Main] # "done" => pc[Main] # "done" PROVE Outcome'
  <2>1. ASSUME outcome[1] \in {"value", "error"}, result[outcome[2]] # None
        PROVE  result'[outcome[2]] = result[outcome[2]]
    BY <2>1, ResultStays DEF Outcome
  <2>2. Kind = "timeout" /\ result[2] = "value" => result'[2] = "value"
    <3>1. Kind = "timeout" => 2 \in Branches /\ Kind # "timer"
      BY <1>1 DEF Programme
    <3> QED
      BY <3>1, ResultStays DEF None
  <2> QED
    BY <1>2, <1>3, <2>1, <2>2 DEF Outcome, None
<1>4. ASSUME NEW b \in Branches, BranchStep(b) PROVE Outcome'
  <2>1. pc'[Main] = pc[Main]
    BY <1>1, <1>4, BranchMoves
  <2> QED
    BY <1>3, <1>4, <2>1, BranchLeaves
<1>5. ASSUME MainStep PROVE Outcome'
  <2>1. result' = result
    BY <1>5, MainLeaves
  <2>2. CASE SpawnBranch
    <3>1. spawned + 1 # Main /\ pc' = [pc EXCEPT ![spawned + 1] = "run"] /\ outcome' = outcome
      BY <2>2, Basics DEF SpawnBranch, Goto, Sound, Births
    <3> QED
      BY <1>1, <1>3, <3>1
  <2>3. ASSUME NEW v, Return(v), Main \in running,
               v[1] \in {"value", "error"} => v[2] \in Branches /\ Kind # "timer",
               v[1] = "value" => result[v[2]] = "value" \/ Kind = "bindVoid",
               v[1] = "error" => result[v[2]] = "throw",
               v[1] = "nullopt" => Kind = "timeout" /\ result[2] = "value"
        PROVE  Outcome'
    <3>1. outcome' = v /\ pc'[Main] = "done"
      BY <1>1, <2>3 DEF Return
    <3> QED
      BY <1>2, <2>1, <2>3, <3>1 DEF Outcome
  <2>4. CASE ReturnAll \/ Clear \/ \E b \in Used : TimerCancel(b)
    <3>1. PICK v : Return(v) /\ Main \in running /\ v[1] \in {"errors", "values", "called", "cancelled"}
      <4>1. CASE ReturnAll
        BY <4>1 DEF ReturnAll, At
      <4>2. CASE Clear
        BY <4>2 DEF Clear, At
      <4>3. CASE \E b \in Used : TimerCancel(b)
        BY <4>3 DEF TimerCancel, At
      <4> QED
        BY <2>4, <4>1, <4>2, <4>3
    <3> QED
      BY <2>3, <3>1
  <2>5. CASE ReturnAny
    <3>1. /\ arrived # Nobody /\ arrived.by \in Branches /\ arrived.threw \in BOOLEAN
          /\ result[arrived.by] = IF arrived.threw THEN "throw" ELSE "value"
          /\ Kind \in AnyKinds /\ Kind # "timer" /\ Kind # "bindVoid" /\ Main \in running
      BY <2>5 DEF ReturnAny, First, At, AnyKinds
    <3>2. CASE arrived.threw
      <4>1. Return(<<"error", arrived.by>>)
        BY <2>5, <3>2 DEF ReturnAny
      <4> QED
        BY <2>3, <3>1, <3>2, <4>1
    <3>3. CASE ~arrived.threw /\ Kind = "timeout" /\ arrived.by = 2
      <4>1. Return(<<"nullopt">>)
        BY <2>5, <3>1, <3>3 DEF ReturnAny
      <4> QED
        BY <2>3, <3>1, <3>3, <4>1
    <3>4. CASE ~arrived.threw /\ Kind = "timeout" /\ arrived.by = 1
      <4>1. Goto(Main, "cancel") /\ outcome' = outcome
        BY <2>5, <3>1, <3>4 DEF ReturnAny
      <4>2. pc[Main] # "done"
        BY <3>1, Basics
      <4> QED
        BY <1>3, <4>1, <4>2
    <3>5. CASE ~arrived.threw /\ ~(Kind = "timeout" /\ arrived.by \in {1, 2})
      <4>1. Return(<<"value", arrived.by>>)
        BY <2>5, <3>1, <3>5 DEF ReturnAny
      <4> QED
        BY <2>3, <3>1, <3>5, <4>1
    <3> QED
      BY <3>1, <3>2, <3>3, <3>4, <3>5
  <2>6. CASE TimeoutCancel
    <3>1. Return(<<"value", 1>>) /\ Main \in running /\ Kind = "timeout" /\ pc[Main] = "cancel"
      BY <2>6 DEF TimeoutCancel, At
    <3>2. arrived = [by |-> 1, threw |-> FALSE]
      BY <3>1 DEF First
    <3>3. arrived # Nobody /\ arrived.by = 1 /\ ~arrived.threw
      BY <1>1, <3>2 DEF Nobody
    <3>4. result[1] = "value" /\ 1 \in Branches
      BY <3>3 DEF First
    <3> QED
      BY <2>3, <3>1, <3>4
  <2>7. CASE ReturnFuture
    <3>1. /\ pc[Main] = "awaiting" /\ Main \in running /\ Kind \in Futures
          /\ Return(IF promise = "throw" /\ Kind = "bind" THEN <<"error", 1>> ELSE <<"value", 1>>)
      BY <2>7 DEF ReturnFuture, At, Futures
    <3>2. Main \notin ToSet(waiting["future"])
      BY <3>1, Awake DEF Lists
    <3>3. /\ promise = result[1] /\ promise \in {"value", "throw"}
          /\ Kind = "await" => promise = "value"
      BY <3>1, <3>2 DEF Promised
    <3>4. 1 \in Branches /\ Kind # "timer"
      BY <1>1, <3>1 DEF Programme, Futures
    <3>5. CASE promise = "throw" /\ Kind = "bind"
      <4>1. Return(<<"error", 1>>)
        BY <3>1, <3>5
      <4> QED
        BY <2>3, <3>1, <3>3, <3>4, <3>5, <4>1
    <3>6. CASE ~(promise = "throw" /\ Kind = "bind")
      <4>1. Return(<<"value", 1>>)
        BY <3>1, <3>6
      <4>2. result[1] = "value" \/ Kind = "bindVoid"
        BY <3>1, <3>3, <3>6 DEF Futures
      <4> QED
        BY <2>3, <3>1, <3>4, <4>1, <4>2
    <3> QED
      BY <3>5, <3>6
  <2>8. CASE AwaitAll \/ AwaitAny \/ AwaitFuture \/ AwaitNothing \/ RequestStop \/ TimerLater
             \/ Install \/ SignalWait \/ Callback \/ Restore
    <3>1. outcome' = outcome
      BY <2>8 DEF AwaitAll, AwaitAny, AwaitFuture, AwaitNothing, AwaitAt, RequestStop, TimerLater,
         Install, SignalWait, Callback, Restore
    <3>2. Main \in running /\ pc[Main] # "done"
      BY <2>8, Basics DEF AwaitAll, AwaitAny, AwaitFuture, AwaitNothing, AwaitAt, RequestStop, TimerLater,
         Install, SignalWait, Callback, Restore, At
    <3> QED
      BY <1>3, <3>1, <3>2
  <2> QED
    BY <1>5, <2>2, <2>4, <2>5, <2>6, <2>7, <2>8 DEF MainStep
<1> QED
  BY <1>3, <1>4, <1>5, Steps, LoopLeaves

Answered == Sound /\ Flow /\ Results /\ Causes /\ First /\ Promised /\ Outcome

LEMMA InitAnswered == Init => Answered
<1> SUFFICES ASSUME Init PROVE Answered
  OBVIOUS
<1>1. Sound
  BY InitSound
<1>2. /\ Main \in Coroutines /\ Main \notin Branches /\ Branches \subseteq Coroutines /\ Main = 0
      /\ Programme
  BY <1>1, Basics
<1>3. /\ \A b \in Branches : pc[b] = "unborn" /\ result[b] = None
      /\ result = [b \in Branches |-> None]
      /\ cause = [c \in Coroutines |-> "none"]
      /\ pc[Main] = IF Kind = "signal" THEN "install" ELSE "spawn"
      /\ timers = {} /\ flag = FALSE /\ arrived = Nobody /\ promise = None /\ outcome = <<None>>
      /\ escaped = FALSE
  BY <1>2 DEF Init, TimeInit
<1>4. Flow
  BY <1>3 DEF Flow
<1>5. Results
  BY <1>3 DEF Results, None
<1>6. Causes
  <2>1. Live = {}
    BY <1>3 DEF Live
  <2>2. \A c \in Coroutines : cause[c] = "none"
    BY <1>3
  <2> QED
    BY <1>2, <1>3, <2>1, <2>2 DEF Causes, None
<1>7. First
  <2>1. Storing = {}
    BY <1>3 DEF Storing
  <2>2. arrived \in [by : Coroutines, threw : BOOLEAN]
    BY <1>2, <1>3 DEF Nobody
  <2> QED
    BY <1>3, <2>1, <2>2 DEF First
<1>8. Promised
  BY <1>3 DEF Promised
<1>9. Outcome
  BY <1>3 DEF Outcome, None
<1> QED
  BY <1>1, <1>4, <1>5, <1>6, <1>7, <1>8, <1>9 DEF Answered

LEMMA AnsweredNext == Answered /\ [Next]_vars => Answered'
<1> SUFFICES ASSUME Answered, [Next]_vars PROVE Answered'
  OBVIOUS
<1>1. Sound'
  BY SoundNext DEF Answered
<1>2. Flow'
  BY FlowNext DEF Answered
<1>3. Results'
  BY ResultsNext DEF Answered
<1>4. Causes'
  BY <1>1, CausesNext DEF Answered
<1>5. First'
  BY FirstNext DEF Answered
<1>6. Promised'
  BY PromisedNext DEF Answered
<1>7. Outcome'
  BY OutcomeNext DEF Answered
<1> QED
  BY <1>1, <1>2, <1>3, <1>4, <1>5, <1>6, <1>7 DEF Answered

LEMMA AnsweredFirst == Answered => FirstOrError
<1> SUFFICES ASSUME Answered PROVE FirstOrError
  OBVIOUS
<1>1. Sound /\ Flow /\ Results /\ Causes /\ First /\ Promised /\ Outcome
  BY DEF Answered
<1>2. Used \subseteq Branches /\ (Kind = "timeout" => 2 \in Branches)
  BY <1>1, Basics DEF Programme
<1>3. Cardinality({b \in Used : pc[b] = "store"} \cup
                  IF arrived = Nobody THEN {} ELSE {arrived.by}) <= 1
  <2> DEFINE S == {b \in Used : pc[b] = "store"} \cup
                  IF arrived = Nobody THEN {} ELSE {arrived.by}
  <2>1. \A x, y \in S : x = y
    <3>1. /\ \A b, c \in Storing : b = c
          /\ Storing # {} => arrived = Nobody
      BY <1>1 DEF First
    <3>2. {b \in Used : pc[b] = "store"} \subseteq Storing
      BY <1>2 DEF Storing
    <3>3. CASE arrived = Nobody
      BY <3>1, <3>2, <3>3
    <3>4. CASE arrived # Nobody
      <4>1. S = {arrived.by}
        BY <3>1, <3>2, <3>4
      <4> QED
        BY <4>1
    <3> QED
      BY <3>3, <3>4
  <2> HIDE DEF S
  <2>2. S = {} \/ \E x : S = {x}
    BY <2>1
  <2>3. Cardinality(S) \in {0, 1}
    BY <2>2, FS_EmptySet, FS_Singleton
  <2> QED
    BY <2>3 DEF S
<1>4. outcome[1] = "nullopt" => cause[2] = "expired" /\ now > Duration[2]
  BY <1>1, <1>2 DEF Outcome, Causes
<1> QED
  BY <1>1, <1>3, <1>4 DEF FirstOrError, Outcome, Promised

\* when_any, timeout and the futures answer for one branch that has ended, with what that
\* branch returned or threw, and only one branch ever stores a result; a timeout says
\* nullopt only after its time; an exception is lost only by co_bind to a void function, and
\* leaves loop() only out of a co_spawn with a future (when_any.hpp:41-47, 72-77,
\* functional.hpp:123-131).
THEOREM OneBranchAnswers == Spec => []FirstOrError
<1> QED
  BY InitAnswered, AnsweredNext, AnsweredFirst, PTL DEF Spec

LEMMA CountedNext == ASSUME Sound, Flow, Counted, [Next]_vars PROVE Counted'
<1>1. /\ pc \in [Coroutines -> Labels] /\ running \subseteq Coroutines /\ Programme
      /\ Main \in Coroutines /\ Main \notin Branches /\ Branches \subseteq Coroutines /\ Main = 0
      /\ \A c \in running : \A l :
           Goto(c, l) => pc'[c] = l /\ \A d \in Coroutines \ {c} : pc'[d] = pc[d]
  BY Basics, Gone
<1>2. program' = program /\ Kind' = Kind /\ Used' = Used
  BY Steps DEF rigid, Kind, Used
<1> SUFFICES ASSUME Kind = "all" PROVE Counted'
  BY <1>2 DEF Counted
<1>3. /\ latch = Cardinality(Undone) /\ IsFiniteSet(Undone) /\ (latch = 0 => Undone = {})
      /\ errors \in Seq(Branches) /\ IsInjective(errors) /\ ToSet(errors) = Threw
      /\ \A b \in Used : pc[b] = "caught" => program.ends[b] = "throw"
  <2>1. Undone \subseteq Used /\ IsFiniteSet(Used)
    BY <1>1 DEF Undone, Programme
  <2>2. IsFiniteSet(Undone)
    BY <2>1, FS_Subset
  <2> QED
    BY <2>2, FS_EmptySet DEF Counted
<1>4. Used \subseteq Branches /\ \A b \in Used : program.ends[b] # "timer"
  BY <1>1 DEF Programme
<1>5. ASSUME NEW b \in Branches, BranchStep(b) PROVE Counted'
  <2>1. b \in running /\ b \in Used /\ pc[b] # "done"
    BY <1>5, BranchMoves
  <2>2. latch # 0
    BY <1>3, <2>1 DEF Undone
  <2>3. pc'[Main] = pc[Main]
    BY <1>1, <1>5, BranchMoves
  <2>4. ToSet(waiting["latch"]) \subseteq ToSet(waiting'["latch"])
    <3>1. Stays(b) \/ Quits(b) \/ Waits(b) \/ waiting' = waiting
      BY <1>5, BranchEffects, Steps DEF TimerToken, TimerPost
    <3> QED
      BY <2>1, <3>1, Waiting DEF Lists
  <2>5. /\ ~(pc'[Main] = "awaiting" /\ Main \notin ToSet(waiting'["latch"]))
        /\ pc'[Main] # "done"
    BY <2>2, <2>3, <2>4 DEF Counted
  <2>6. ASSUME latch' = latch, errors' = errors, Undone' = Undone, Threw' = Threw,
               pc'[b] = "caught" => program.ends[b] = "throw",
               \A d \in Coroutines \ {b} : pc'[d] = pc[d]
        PROVE  Counted'
    <3>1. \A d \in Used : pc'[d] = "caught" => program.ends[d] = "throw"
      BY <1>1, <1>3, <1>4, <2>6
    <3> QED
      BY <1>2, <1>3, <2>5, <2>6, <3>1 DEF Counted
  <2>7. CASE Yield(b)
    <3>1. pc' = pc /\ latch' = latch /\ errors' = errors
      BY <2>7 DEF Yield, sync
    <3>2. Undone' = Undone /\ Threw' = Threw
      BY <1>2, <3>1 DEF Undone, Threw
    <3> QED
      BY <1>3, <2>1, <2>6, <3>1, <3>2
  <2>8. CASE End(b)
    <3>1. /\ latch' = latch /\ errors' = errors /\ pc[b] = "run"
          /\ Goto(b, IF program.ends[b] = "throw" THEN "caught" ELSE "count")
      BY <2>8 DEF End, At, After, sync
    <3>2. /\ \A d \in Coroutines \ {b} : pc'[d] = pc[d]
          /\ program.ends[b] = "throw" => pc'[b] = "caught"
          /\ program.ends[b] # "throw" => pc'[b] = "count"
      BY <1>1, <2>1, <3>1
    <3>3. Undone' = Undone
      BY <1>1, <1>2, <1>4, <2>1, <3>1, <3>2 DEF Undone
    <3>4. Threw' = Threw
      BY <1>1, <1>2, <1>4, <2>1, <3>1, <3>2 DEF Threw
    <3> QED
      BY <2>6, <3>1, <3>2, <3>3, <3>4
  <2>9. CASE Caught(b)
    <3>1. latch' = latch /\ errors' = Append(errors, b) /\ pc[b] = "caught" /\ Goto(b, "count")
      BY <2>9 DEF Caught, At
    <3>2. pc'[b] = "count" /\ \A d \in Coroutines \ {b} : pc'[d] = pc[d]
      BY <1>1, <2>1, <3>1
    <3>3. Undone' = Undone
      BY <1>1, <1>2, <1>4, <2>1, <3>1, <3>2 DEF Undone
    <3>4. program.ends[b] = "throw" /\ b \notin Threw
      BY <1>3, <2>1, <3>1 DEF Threw
    <3>5. Threw' = {b} \cup Threw
      BY <1>1, <1>2, <1>4, <2>1, <3>2, <3>4 DEF Threw
    <3>6. errors' \in Seq(Branches) /\ IsInjective(errors') /\ ToSet(errors') = Threw'
      <4>1. b \notin ToSet(errors) /\ errors \in Seq(Branches) /\ IsInjective(errors)
        BY <1>3, <3>4
      <4>2. /\ Append(errors, b) \in Seq(Branches)
            /\ ToSet(Append(errors, b)) = {b} \cup ToSet(errors)
            /\ IsInjective(Append(errors, b))
        BY <4>1, ListAppend
      <4> QED
        BY <1>3, <3>1, <3>5, <4>2
    <3>7. \A d \in Used : pc'[d] = "caught" => program.ends[d] = "throw"
      BY <1>1, <1>3, <1>4, <3>2
    <3> QED
      BY <1>2, <1>3, <2>5, <3>1, <3>3, <3>6, <3>7 DEF Counted
  <2>10. CASE CountDown(b)
    <3>1. latch' = latch - 1 /\ errors' = errors /\ pc[b] = "count" /\ Goto(b, "done")
      BY <2>10 DEF CountDown, At
    <3>2. pc'[b] = "done" /\ \A d \in Coroutines \ {b} : pc'[d] = pc[d]
      BY <1>1, <2>1, <3>1
    <3>3. Undone' = Undone \ {b} /\ b \in Undone
      BY <1>1, <1>2, <1>4, <2>1, <3>2 DEF Undone
    <3>4. Threw' = Threw
      BY <1>1, <1>2, <1>4, <2>1, <3>1, <3>2 DEF Threw
    <3>5. latch' = Cardinality(Undone')
      BY <1>3, <3>1, <3>3, FS_RemoveElement
    <3>6. \A d \in Used : pc'[d] = "caught" => program.ends[d] = "throw"
      BY <1>1, <1>3, <1>4, <3>2
    <3> QED
      BY <1>2, <1>3, <2>5, <3>1, <3>4, <3>5, <3>6 DEF Counted
  <2>11. ~(TimerToken(b) \/ TimerPost(b) \/ TimerEnd(b) \/ Arrive(b) \/ Store(b) \/ SetPromise(b))
    <3>1. pc[b] \notin {"post", "asleep", "arrive", "store", "set"}
      BY <1>4, <2>1 DEF Flow, AnyKinds, Futures
    <3> QED
      BY <1>4, <2>1, <3>1 DEF TimerToken, TimerPost, TimerEnd, Arrive, Store, SetPromise, At
  <2> QED
    BY <1>5, <2>7, <2>8, <2>9, <2>10, <2>11 DEF BranchStep
<1>6. ASSUME \A b \in Branches : pc'[b] = pc[b] \/ (pc[b] = "unborn" /\ pc'[b] = "run"),
             latch' = latch, errors' = errors,
             pc'[Main] = "awaiting" /\ Main \notin ToSet(waiting'["latch"]) => latch = 0,
             pc'[Main] = "done" => latch = 0 /\ outcome' = IF errors # <<>> THEN <<"errors", errors>>
                                                             ELSE <<"values">>
      PROVE  Counted'
  <2>1. Undone' = Undone
    BY <1>2, <1>4, <1>6 DEF Undone
  <2>2. Threw' = Threw
    BY <1>2, <1>4, <1>6 DEF Threw
  <2>3. \A d \in Used : pc'[d] = "caught" => program.ends[d] = "throw"
    BY <1>3, <1>4, <1>6
  <2> QED
    BY <1>2, <1>3, <1>6, <2>1, <2>2, <2>3 DEF Counted
<1>7. ASSUME MainStep PROVE Counted'
  <2>1. /\ \A b \in Branches : pc'[b] = pc[b] \/ (pc[b] = "unborn" /\ pc'[b] = "run")
        /\ latch' = latch /\ errors' = errors
    BY <1>7, MainBranches, MainLeaves, Steps
  <2>2. CASE AwaitAll
    <3>1. waiting' = [waiting EXCEPT !["latch"] = <<Main>> \o @] /\ "latch" \in Lists
          /\ Goto(Main, "awaiting") /\ Main \in running
      BY <2>2 DEF AwaitAll, AwaitAt, Suspend, Lists, At
    <3>2. waiting["latch"] \in Seq(Coroutines) /\ waiting'["latch"] = <<Main>> \o waiting["latch"]
      BY <3>1 DEF Sound, Threads
    <3>3. Main \in ToSet(waiting'["latch"])
      BY <1>1, <3>2, ListContents
    <3>4. pc'[Main] = "awaiting"
      BY <1>1, <3>1
    <3> QED
      BY <1>6, <2>1, <3>3, <3>4
  <2>3. CASE ReturnAll
    <3>1. /\ pc[Main] = "awaiting" /\ Main \in running /\ Goto(Main, "done")
          /\ outcome' = IF errors # <<>> THEN <<"errors", errors>> ELSE <<"values">>
      BY <2>3 DEF ReturnAll, At, Return
    <3>2. Main \notin ToSet(waiting["latch"])
      BY <3>1, Awake DEF Lists
    <3>3. latch = 0 /\ pc'[Main] = "done"
      BY <1>1, <3>1, <3>2 DEF Counted
    <3> QED
      BY <1>6, <2>1, <3>1, <3>3
  <2>4. CASE SpawnBranch
    <3>1. spawned + 1 # Main /\ pc' = [pc EXCEPT ![spawned + 1] = "run"] /\ pc[Main] = "spawn"
      BY <2>4, Basics DEF SpawnBranch, Goto, Sound, Births, At
    <3>2. pc'[Main] = "spawn"
      BY <1>1, <3>1
    <3> QED
      BY <1>6, <2>1, <3>2
  <2>5. ASSUME Install \/ SignalWait \/ Callback \/ Restore \/ Clear PROVE FALSE
    BY <1>1, <2>5 DEF Install, SignalWait, Callback, Restore, Clear, At, Flow
  <2>6. ASSUME AwaitAny \/ AwaitFuture \/ AwaitNothing \/ RequestStop \/ ReturnAny \/ TimeoutCancel
               \/ (\E b \in Used : TimerCancel(b)) \/ TimerLater \/ ReturnFuture
        PROVE  FALSE
    BY <2>6 DEF AwaitAny, AwaitFuture, AwaitNothing, AwaitAt, RequestStop, ReturnAny, TimeoutCancel,
       TimerCancel, TimerLater, ReturnFuture, At, Flow, AnyKinds
  <2> QED
    BY <1>7, <2>2, <2>3, <2>4, <2>5, <2>6 DEF MainStep
<1>8. ASSUME UNCHANGED vars \/ Commit \/ Tick \/ Raise \/ \E c \in Coroutines : Resume(c)
      PROVE  Counted'
  <2>1. UNCHANGED <<pc, latch, errors, outcome>>
    BY <1>8, LoopLeaves
  <2>2. pc[Main] = "awaiting" /\ Main \notin ToSet(waiting'["latch"]) => latch = 0
    <3>1. CASE CommitLatch
      BY <3>1 DEF CommitLatch, CommitList, Counted
    <3>2. CASE CommitFuture
      <4>1. waiting'["latch"] = waiting["latch"]
        BY <3>2 DEF CommitFuture, CommitList, Sound, Threads, Lists
      <4> QED
        BY <4>1 DEF Counted
    <3>3. CASE ~(CommitFuture \/ CommitLatch)
      BY <3>3, Kept DEF Counted
    <3> QED
      BY <3>1, <3>2, <3>3
  <2> QED
    BY <1>6, <2>1, <2>2 DEF Counted
<1> QED
  BY <1>5, <1>7, <1>8, Steps

LEMMA InitCounted == Init => Counted
<1> SUFFICES ASSUME Init PROVE Counted
  OBVIOUS
<1>1. /\ Main \in Coroutines /\ Main \notin Branches /\ Branches \subseteq Coroutines
      /\ Used \subseteq Branches
  BY InitSound, Basics DEF Programme
<1>2. /\ \A b \in Branches : pc[b] = "unborn"
      /\ pc[Main] \in {"install", "spawn"}
      /\ latch = Cardinality(Used) /\ errors = <<>>
  BY <1>1 DEF Init
<1>3. Undone = Used /\ Threw = {}
  BY <1>1, <1>2 DEF Undone, Threw
<1> QED
  BY <1>1, <1>2, <1>3, ListEmpty DEF Counted

\* when_all goes on only after all its branches have ended; it throws the exceptions of
\* exactly those that threw, each once, and returns if none did (when_all.hpp:33-38, 54-57).
THEOREM AllAccountedFor == Spec => []AllOrErrors
<1> DEFINE Inv == Answered /\ Counted
<1>1. Init => Inv
  BY InitAnswered, InitCounted
<1>2. Inv /\ [Next]_vars => Inv'
  <2> SUFFICES ASSUME Answered, Counted, [Next]_vars PROVE Inv'
    OBVIOUS
  <2>1. Answered'
    BY AnsweredNext
  <2>2. Counted'
    BY CountedNext DEF Answered
  <2> QED
    BY <2>1, <2>2
<1>3. Inv => AllOrErrors
  <2> SUFFICES ASSUME Answered, Counted, Kind = "all", Ended(Main)
               PROVE  /\ \A b \in Used : result[b] # None
                      /\ LET threw == {b \in Used : program.ends[b] = "throw"}
                         IN IF threw = {} THEN outcome = <<"values">>
                            ELSE /\ outcome[1] = "errors" /\ ToSet(outcome[2]) = threw
                                 /\ Len(outcome[2]) = Cardinality(threw)
    BY DEF AllOrErrors
  <2> DEFINE threw == {b \in Used : program.ends[b] = "throw"}
  <2>1. Used \subseteq Branches /\ IsFiniteSet(Used)
    BY Basics DEF Answered, Programme
  <2>2. Undone = {}
    <3>1. latch = 0 /\ latch = Cardinality(Undone)
      BY DEF Counted, Ended
    <3>2. IsFiniteSet(Undone)
      BY <2>1, FS_Subset DEF Undone
    <3> QED
      BY <3>1, <3>2, FS_EmptySet
  <2>3. \A b \in Used : pc[b] = "done"
    BY <2>2 DEF Undone
  <2>4. \A b \in Used : result[b] # None
    BY <2>1, <2>3 DEF Answered, Results
  <2>5. ToSet(errors) = threw /\ errors \in Seq(Branches) /\ IsInjective(errors)
    BY <2>3 DEF Counted, Threw
  <2>6. Len(errors) = Cardinality(threw)
    BY <2>5, ListCardinality
  <2>7. errors # <<>> <=> threw # {}
    <3>1. errors # <<>> => Head(errors) \in ToSet(errors)
      BY <2>5, ListTail
    <3>2. ToSet(<<>>) = {}
      BY ListEmpty
    <3> QED
      BY <2>5, <3>1, <3>2
  <2>8. outcome = IF errors # <<>> THEN <<"errors", errors>> ELSE <<"values">>
    BY DEF Counted, Ended
  <2> QED
    BY <2>4, <2>5, <2>6, <2>7, <2>8
<1> HIDE DEF Inv
<1> QED
  BY <1>1, <1>2, <1>3, PTL DEF Spec

-----------------------------------------------------------------------------
(* The timers on the loop thread *)

LEMMA QueuedNext == ASSUME Sound, Flow, Queued, [Next]_vars PROVE Queued'
<1>1. /\ pc \in [Coroutines -> Labels] /\ running \subseteq Coroutines /\ Programme
      /\ Main \in Coroutines /\ Main \notin Branches /\ Branches \subseteq Coroutines /\ Main = 0
      /\ \A c \in running : \A l :
           Goto(c, l) => pc'[c] = l /\ \A d \in Coroutines \ {c} : pc'[d] = pc[d]
  BY Basics, Gone
<1>2. /\ program' = program /\ waiting \in [Lists -> Seq(Coroutines)]
      /\ \A s \in Lists : IsInjective(waiting[s])
  BY Steps DEF rigid, Sound, Threads
<1>3. ASSUME NEW c \in running, NEW t \in Lists, Suspend(c, t),
             pc'[Main] = "spawn" => pc[Main] = "spawn" /\ c # Main,
             c # Main => program.ends[c] # "timer"
      PROVE  Queued'
  <2>1. c \notin ToSet(waiting[t]) /\ c \in Coroutines
    BY <1>1, Awake
  <2>2. waiting' = [waiting EXCEPT ![t] = <<c>> \o @]
    BY <1>3 DEF Suspend
  <2>3. ToSet(<<c>> \o waiting[t]) = {c} \cup ToSet(waiting[t])
    BY <1>2, <2>1, ListPrepend
  <2>4. \A s \in Lists : ToSet(waiting'[s]) \subseteq {c} \cup ToSet(waiting[s])
    BY <1>2, <2>2, <2>3
  <2> QED
    BY <1>1, <1>2, <1>3, <2>4 DEF Queued
<1>4. ASSUME \A s \in Lists : ToSet(waiting'[s]) \subseteq ToSet(waiting[s]),
             pc'[Main] = "spawn" => pc[Main] = "spawn"
      PROVE  Queued'
  BY <1>2, <1>4 DEF Queued
<1>5. ASSUME NEW b \in Branches, BranchStep(b) PROVE Queued'
  <2>1. pc'[Main] = pc[Main] /\ b \in running /\ b # Main
    BY <1>1, <1>5, BranchMoves
  <2>2. CASE Yield(b)
    BY <1>3, <2>1, <2>2 DEF Yield, Lists
  <2>3. CASE ~Yield(b)
    <3>1. waiting' = waiting
      BY <1>5, <2>3 DEF BranchStep, End, TimerToken, TimerPost, TimerEnd, Caught, CountDown,
         Arrive, Store, SetPromise
    <3> QED
      BY <1>4, <2>1, <3>1
  <2> QED
    BY <2>2, <2>3
<1>6. ASSUME MainStep PROVE Queued'
  <2>1. Main \in running
    BY <1>6, MainTimers, Steps
  <2>2. ASSUME NEW service \in Lists, NEW kinds, NEW label \in {"awaiting", "cancel"},
               AwaitAt(service, kinds, label)
        PROVE  Queued'
    BY <1>1, <1>3, <2>1, <2>2 DEF AwaitAt
  <2>3. CASE TimerLater \/ SignalWait
    BY <1>1, <1>3, <2>1, <2>3 DEF TimerLater, SignalWait, At, Lists
  <2>4. CASE SpawnBranch
    BY <1>4, <2>4 DEF SpawnBranch, At
  <2>5. CASE ReturnAll \/ RequestStop \/ ReturnAny \/ TimeoutCancel \/ (\E b \in Used : TimerCancel(b))
             \/ ReturnFuture \/ Install \/ Callback \/ Restore \/ Clear
    <3>1. /\ waiting' = waiting
          /\ \E l \in {"done", "spin", "cancel", "post", "restore", "clear"} : Goto(Main, l)
      BY <2>5 DEF ReturnAll, RequestStop, ReturnAny, TimeoutCancel, TimerCancel, ReturnFuture, Install,
         Callback, Restore, Clear, Return
    <3> QED
      BY <1>1, <1>4, <2>1, <3>1
  <2> QED
    BY <1>6, <2>2, <2>3, <2>4, <2>5 DEF MainStep, AwaitAll, AwaitAny, AwaitFuture, AwaitNothing, Lists
<1>7. ASSUME UNCHANGED vars \/ Commit \/ Tick \/ Raise \/ \E c \in Coroutines : Resume(c)
      PROVE  Queued'
  <2>1. pc' = pc
    BY <1>7, LoopLeaves
  <2>2. waiting' = waiting \/ \E t \in Lists : waiting' = [waiting EXCEPT ![t] = <<>>]
    BY <1>7 DEF vars, Commit, PassStart, CommitYield, CommitFlag, CommitLatch, CommitFuture, CommitList,
       CommitTime, Tick, Raise, Resume, Lists
  <2>3. \A s \in Lists : ToSet(waiting'[s]) \subseteq ToSet(waiting[s])
    BY <1>2, <2>2, ListEmpty
  <2> QED
    BY <1>4, <2>1, <2>3
<1> QED
  BY <1>5, <1>6, <1>7, Steps

LEMMA AloneNext == ASSUME Sound, Alone, [Next]_vars PROVE Alone'
<1>1. /\ pc \in [Coroutines -> Labels] /\ running \subseteq Coroutines
      /\ Main \in Coroutines /\ Main \notin Branches /\ Branches \subseteq Coroutines
  BY Basics
<1>2. concurrency' = concurrency
  BY Steps DEF rigid
<1> SUFFICES ASSUME concurrency = 0 PROVE Alone'
  BY <1>2 DEF Alone
<1>3. /\ \A c, d \in running : c = d
      /\ running # {} => committing = <<>>
      /\ \A b \in Branches : pc[b] = "post" => token[b] = counter /\ b \in running
      /\ \A b \in Branches : token[b] # Unset => token[b] <= counter
      /\ \A b \in Branches : token[b] = counter => pc[b] = "post"
      /\ \A b, c \in Branches : token[b] = token[c] /\ token[b] # Unset => b = c
      /\ \A e \in Live : token[e.frame] = e.token
  BY DEF Alone
<1>4. /\ counter \in Nat /\ token \in [Coroutines -> Nat \cup {Unset}]
      /\ \A e \in Live : e.frame \in Branches
  BY DEF Sound, Timers, Live
<1>5. ASSUME UNCHANGED <<token, counter>>, Live' \subseteq Live,
             \A c, d \in running' : c = d, running' # {} => committing' = <<>>,
             \A b \in Branches : pc'[b] = "post" <=> pc[b] = "post",
             \A b \in Branches : pc[b] = "post" => b \in running'
      PROVE  Alone'
  BY <1>3, <1>5 DEF Alone
<1>6. ASSUME NEW b \in Branches, BranchStep(b) PROVE Alone'
  <2>1. /\ b \in running /\ (running' = running \/ running' = running \ {b})
        /\ \A d \in Coroutines \ {b} : pc'[d] = pc[d]
        /\ pc[b] = "post" => TimerPost(b)
        /\ pc'[b] = "post" => TimerToken(b)
        /\ committing' = committing
    BY <1>6, BranchMoves, BranchLeaves
  <2>2. /\ \A c, d \in running' : c = d
        /\ running' # {} => committing' = <<>>
        /\ \A d \in Branches : pc[d] = "post" => d = b
    BY <1>3, <2>1
  <2>3. CASE TimerToken(b)
    <3>1. /\ token' = [token EXCEPT ![b] = counter] /\ counter' = counter /\ timers' = timers
          /\ running' = running /\ Goto(b, "post") /\ pc[b] = "run"
      BY <2>3 DEF TimerToken, TokenRead, At
    <3>2. /\ pc'[b] = "post" /\ Live' = Live /\ token'[b] = counter
          /\ \A d \in Coroutines \ {b} : token'[d] = token[d]
      BY <1>1, <1>4, <2>1, <3>1, Gone DEF Live
    <3>3. \A d \in Branches : pc[d] # "post" /\ token[d] # counter
      BY <1>3, <2>2, <3>1
    <3>4. \A e \in Live : e.frame # b
      BY <2>1, Awake
    <3>5. \A e \in Live' : token'[e.frame] = e.token
      BY <1>1, <1>3, <1>4, <3>2, <3>4
    <3>6. \A d \in Branches : /\ pc'[d] = "post" => token'[d] = counter' /\ d \in running'
                              /\ token'[d] # Unset => token'[d] <= counter'
                              /\ token'[d] = counter' => pc'[d] = "post"
      BY <1>1, <1>3, <1>4, <2>1, <3>1, <3>2, <3>3
    <3>7. \A d, c \in Branches : token'[d] = token'[c] /\ token'[d] # Unset => d = c
      BY <1>1, <1>3, <1>4, <3>2, <3>3
    <3> QED
      BY <2>2, <3>5, <3>6, <3>7 DEF Alone
  <2>4. CASE TimerPost(b)
    <3> DEFINE e == Entry(b, now + Duration[b], counter)
    <3>1. /\ token' = token /\ counter' = counter + 1 /\ timers' = timers \cup {e}
          /\ Goto(b, "asleep") /\ pc[b] = "post"
      BY <2>4 DEF TimerPost, TimePost, At
    <3>2. e.frame = b /\ e.token = counter
      BY DEF Entry
    <3> HIDE DEF e
    <3>3. Live' \subseteq Live \cup {e}
      BY <3>1 DEF Live
    <3>4. token[b] = counter
      BY <1>3, <3>1
    <3>5. \A d \in Live' : token'[d.frame] = d.token
      BY <1>3, <3>1, <3>2, <3>3, <3>4
    <3>6. pc'[b] = "asleep" /\ \A d \in Branches : pc'[d] # "post"
      BY <1>1, <2>1, <2>2, <3>1, Gone
    <3>7. \A d \in Branches : /\ token'[d] # Unset => token'[d] <= counter'
                              /\ token'[d] # counter'
      BY <1>1, <1>3, <1>4, <3>1 DEF Unset
    <3> QED
      BY <1>3, <2>2, <3>1, <3>5, <3>6, <3>7 DEF Alone
  <2>5. CASE ~TimerToken(b) /\ ~TimerPost(b)
    <3>1. UNCHANGED <<token, counter, timers>>
      BY <1>6, <2>5 DEF BranchStep, Yield, End, TimerEnd, Caught, CountDown, Arrive, Store, SetPromise,
         timeVars
    <3>2. Live' = Live
      BY <3>1 DEF Live
    <3>3. \A d \in Branches : pc'[d] # "post" /\ pc[d] # "post"
      BY <1>1, <2>1, <2>2, <2>5
    <3> QED
      BY <1>5, <2>2, <3>1, <3>2, <3>3
  <2> QED
    BY <2>3, <2>4, <2>5
<1>7. ASSUME MainStep PROVE Alone'
  <2>1. /\ \A b \in Branches : pc'[b] = pc[b] \/ (pc[b] = "unborn" /\ pc'[b] = "run")
        /\ Main \in running /\ running' \subseteq running /\ committing' = committing
        /\ Live' \subseteq Live /\ UNCHANGED <<token, counter>>
    BY <1>7, MainBranches, MainLeaves, MainTimers, Steps
  <2>2. \A b \in Branches : pc[b] # "post"
    BY <1>1, <1>3, <2>1
  <2>3. \A b \in Branches : pc'[b] # "post"
    BY <2>1, <2>2
  <2>4. (\A c, d \in running' : c = d) /\ (running' # {} => committing' = <<>>)
    BY <1>3, <2>1
  <2> QED
    BY <1>5, <2>1, <2>2, <2>3, <2>4
<1>8. ASSUME UNCHANGED vars \/ Commit \/ Tick \/ Raise \/ \E c \in Coroutines : Resume(c)
      PROVE  Alone'
  <2>1. pc' = pc /\ UNCHANGED <<token, counter>>
    BY <1>8, LoopLeaves DEF vars, Commit, PassStart, CommitYield, CommitFlag, CommitLatch, CommitFuture,
       CommitList, CommitTime, TimeCommit, Tick, Raise, Resume, timeVars
  <2>2. Live' \subseteq Live
    <3>1. timers' \subseteq timers
      BY <1>8 DEF vars, Commit, PassStart, CommitYield, CommitFlag, CommitLatch, CommitFuture,
         CommitList, CommitTime, TimeCommit, Tick, Raise, Resume, timeVars
    <3> QED
      BY <3>1 DEF Live
  <2>3. CASE \E c \in Coroutines : Resume(c)
    <3>1. PICK c \in Coroutines : running = {} /\ committing = <<>> /\ running' = {c} /\ committing' = committing
      BY <2>3 DEF Resume
    <3> QED
      BY <1>3, <1>5, <2>1, <2>2, <3>1
  <2>4. CASE Commit
    <3>1. running = {} /\ running' = {}
      <4>1. CASE PassStart
        BY <4>1 DEF PassStart
      <4>2. CASE ~PassStart
        BY <1>3, <2>4, <4>2 DEF Commit, CommitYield, CommitFlag, CommitLatch, CommitFuture, CommitList,
           CommitTime
      <4> QED
        BY <4>1, <4>2
    <3> QED
      BY <1>3, <1>5, <2>1, <2>2, <3>1
  <2>5. CASE UNCHANGED vars \/ Tick \/ Raise
    <3>1. UNCHANGED <<running, committing>>
      BY <2>5 DEF vars, Tick, Raise
    <3> QED
      BY <1>3, <1>5, <2>1, <2>2, <3>1
  <2> QED
    BY <1>8, <2>3, <2>4, <2>5
<1> QED
  BY <1>6, <1>7, <1>8, Steps

LEMMA StartedNext ==
  ASSUME Sound, Flow, Causes, Queued, Alone, Started, [Next]_vars
  PROVE  Started'
<1>1. /\ pc \in [Coroutines -> Labels] /\ running \subseteq Coroutines /\ Programme
      /\ Main \in Coroutines /\ Main \notin Branches /\ Branches \subseteq Coroutines /\ Main = 0
      /\ \A c \in running : \A l :
           Goto(c, l) => pc'[c] = l /\ \A d \in Coroutines \ {c} : pc'[d] = pc[d]
  BY Basics, Gone
<1>2. program' = program /\ Kind' = Kind /\ concurrency' = concurrency
  BY Steps DEF rigid, Kind
<1> SUFFICES ASSUME concurrency = 0, Kind = "timeout", pc'[2] \in {"unborn", "run", "post"}
             PROVE  /\ committing' = <<>>
                    /\ \/ pc'[Main] = "spawn"
                       \/ pc'[Main] = "awaiting" /\ Main \in ToSet(waiting'["flag"])
  BY <1>2 DEF Started
<1>3. 2 \in Branches /\ program.ends[2] = "timer" /\ Len(program.ends) = 2
  BY <1>1 DEF Programme
<1>4. ASSUME pc[2] \in {"unborn", "run", "post"}
      PROVE  /\ committing = <<>>
             /\ \/ pc[Main] = "spawn"
                \/ pc[Main] = "awaiting" /\ Main \in ToSet(waiting["flag"])
  BY <1>4 DEF Started
<1>5. ASSUME NEW b \in Branches, BranchStep(b)
      PROVE  /\ committing' = <<>>
             /\ \/ pc'[Main] = "spawn"
                \/ pc'[Main] = "awaiting" /\ Main \in ToSet(waiting'["flag"])
  <2>1. /\ b \in running /\ pc'[Main] = pc[Main] /\ committing' = committing
        /\ pc[2] \in {"unborn", "run", "post"}
    <3>1. CASE b = 2
      BY <1>1, <1>5, <3>1, BranchMoves, BranchLeaves
    <3>2. CASE b # 2
      BY <1>1, <1>3, <1>5, <3>2, BranchMoves, BranchLeaves
    <3> QED
      BY <3>1, <3>2
  <2>2. ToSet(waiting["flag"]) \subseteq ToSet(waiting'["flag"])
    <3>1. Stays(b) \/ Quits(b) \/ Waits(b) \/ waiting' = waiting
      BY <1>5, BranchEffects, Steps DEF TimerToken, TimerPost
    <3> QED
      BY <2>1, <3>1, Waiting DEF Lists
  <2> QED
    BY <1>4, <2>1, <2>2
<1>6. ASSUME MainStep
      PROVE  /\ committing' = <<>>
             /\ \/ pc'[Main] = "spawn"
                \/ pc'[Main] = "awaiting" /\ Main \in ToSet(waiting'["flag"])
  <2>1. pc[2] \in {"unborn", "run", "post"} /\ committing' = committing /\ Main \in running
    BY <1>3, <1>6, MainBranches, MainLeaves, MainTimers, Steps
  <2>2. pc[Main] = "spawn" /\ committing = <<>>
    BY <1>4, <2>1, Awake DEF Lists
  <2>3. CASE SpawnBranch
    <3>1. spawned + 1 # Main /\ pc' = [pc EXCEPT ![spawned + 1] = "run"]
      BY <2>3, Basics DEF SpawnBranch, Goto, Sound, Births
    <3> QED
      BY <1>1, <2>1, <2>2, <3>1
  <2>4. CASE AwaitAny
    <3>1. /\ waiting' = [waiting EXCEPT !["flag"] = <<Main>> \o @] /\ "flag" \in Lists
          /\ Goto(Main, "awaiting")
      BY <2>4 DEF AwaitAny, AwaitAt, Suspend, Lists
    <3>2. waiting["flag"] \in Seq(Coroutines) /\ waiting'["flag"] = <<Main>> \o waiting["flag"]
      BY <3>1 DEF Sound, Threads
    <3>3. Main \in ToSet(waiting'["flag"]) /\ pc'[Main] = "awaiting"
      BY <1>1, <2>1, <3>1, <3>2, ListContents
    <3> QED
      BY <2>1, <2>2, <3>3
  <2>5. SpawnBranch \/ AwaitAny
    BY <1>6, <2>2 DEF MainStep, AwaitAll, AwaitFuture, AwaitNothing, AwaitAt, ReturnAll,
       RequestStop, ReturnAny, TimeoutCancel, TimerCancel, TimerLater, ReturnFuture, Install,
       SignalWait, Callback, Restore, Clear, At
  <2> QED
    BY <2>3, <2>4, <2>5
<1>7. ASSUME UNCHANGED vars \/ Commit \/ Tick \/ Raise \/ \E c \in Coroutines : Resume(c)
      PROVE  /\ committing' = <<>>
             /\ \/ pc'[Main] = "spawn"
                \/ pc'[Main] = "awaiting" /\ Main \in ToSet(waiting'["flag"])
  <2>1. /\ pc' = pc /\ committing = <<>>
        /\ \/ pc[Main] = "spawn"
           \/ pc[Main] = "awaiting" /\ Main \in ToSet(waiting["flag"])
    BY <1>4, <1>7, LoopLeaves
  <2>2. CASE UNCHANGED vars \/ Tick \/ Raise \/ \E c \in Coroutines : Resume(c)
    <3>1. UNCHANGED <<committing, waiting>>
      BY <2>2 DEF vars, Tick, Raise, Resume
    <3> QED
      BY <2>1, <3>1
  <2>3. ~PassStart
    <3> SUFFICES ASSUME PassStart PROVE FALSE
      OBVIOUS
    <3>1. ready = <<>> /\ running = {}
      BY DEF PassStart
    <3>2. Held["ready"] = {} /\ Held["running"] = {}
      BY <3>1, Helds, ListEmpty
    <3>3. ASSUME NEW c \in Active PROVE c \in Held["time"] \/ \E s \in Lists : c \in Held[s]
      <4>1. \E p \in Places : c \in Held[p]
        BY DEF Sound, Placed, Partition, Active
      <4> QED
        BY <3>2, <4>1 DEF Places
    <3>4. CASE pc[2] \in {"run", "post"}
      <4>1. 2 \in Active
        BY <1>1, <1>3, <3>4 DEF Active
      <4>2. 2 \notin Held["time"]
        BY <3>4, Helds DEF Causes
      <4>3. PICK s \in Lists : 2 \in ToSet(waiting[s])
        BY <3>3, <4>1, <4>2, Helds
      <4> QED
        BY <1>3, <4>3 DEF Queued
    <3>5. CASE pc[2] = "unborn"
      <4>1. spawned # 2
        <5>1. 2 \notin 1..spawned
          BY <1>3, <3>5 DEF Sound, Births
        <5> QED
          BY <5>1
      <4>2. pc[Main] = "spawn"
        BY <1>3, <4>1 DEF Flow
      <4>3. Main \in Active
        BY <1>1, <4>2 DEF Active
      <4>4. Main \notin Held["time"]
        BY <1>1, Helds DEF Sound, Timers, Live
      <4>5. PICK s \in Lists : Main \in ToSet(waiting[s])
        BY <3>3, <4>3, <4>4, Helds
      <4> QED
        BY <4>2, <4>5 DEF Queued
    <3> QED
      BY <2>1, <3>4, <3>5
  <2>4. Commit => PassStart
    BY <2>1 DEF Commit, CommitYield, CommitFlag, CommitLatch, CommitFuture, CommitList, CommitTime
  <2> QED
    BY <1>7, <2>2, <2>3, <2>4
<1> QED
  BY <1>5, <1>6, <1>7, Steps

LEMMA MeantNext ==
  ASSUME Sound, Flow, Results, Causes, First, Outcome, Alone, Started, Meant, [Next]_vars
  PROVE  Meant'
<1>1. /\ pc \in [Coroutines -> Labels] /\ running \subseteq Coroutines /\ Programme
      /\ Main \in Coroutines /\ Main \notin Branches /\ Branches \subseteq Coroutines /\ Main = 0
      /\ \A c \in running : \A l :
           Goto(c, l) => pc'[c] = l /\ \A d \in Coroutines \ {c} : pc'[d] = pc[d]
  BY Basics, Gone
<1>2. program' = program /\ Kind' = Kind /\ concurrency' = concurrency
  BY Steps DEF rigid, Kind
<1> SUFFICES ASSUME concurrency = 0 PROVE Meant'
  BY <1>2 DEF Meant
<1>3. Kind = "timeout" => 2 \in Branches /\ \A b \in Used : program.ends[b] = "timer" <=> b = 2
  BY <1>1 DEF Programme
<1>4. ASSUME outcome' = outcome, \A b \in Branches : cause'[b] = "cancelled" => cause[b] = "cancelled",
             Kind = "timeout" /\ outcome[1] = "value" => Live' \subseteq Live
      PROVE  Meant'
  BY <1>2, <1>4 DEF Meant
<1>5. ASSUME NEW b \in Branches, BranchStep(b) PROVE Meant'
  <2>1. outcome' = outcome /\ cause' = cause
    BY <1>5, BranchLeaves DEF BranchStep, Yield, End, TimerToken, TokenRead, TimerPost, TimePost, TimerEnd,
       Caught, CountDown, Arrive, Store, SetPromise, timeVars
  <2>2. CASE TimerPost(b)
    <3>1. b \in Used /\ pc[b] = "post" /\ program.ends[b] = "timer"
      BY <1>5, <2>2, BranchMoves DEF TimerPost, At, Flow
    <3>2. Kind = "timeout" => b = 2 /\ pc[Main] # "done"
      BY <1>3, <3>1 DEF Started
    <3>3. Kind = "timeout" => outcome[1] # "value"
      BY <3>2 DEF Outcome, None
    <3> QED
      BY <1>4, <2>1, <3>3
  <2>3. CASE ~TimerPost(b)
    <3>1. timers' = timers
      BY <1>5, <2>3 DEF BranchStep, Yield, End, TimerToken, TokenRead, TimerEnd, Caught, CountDown,
         Arrive, Store, SetPromise, timeVars
    <3>2. Live' = Live
      BY <3>1 DEF Live
    <3> QED
      BY <1>4, <2>1, <3>2
  <2> QED
    BY <2>2, <2>3
<1>6. ASSUME MainStep PROVE Meant'
  <2>1. Main \in running /\ pc[Main] # "done" /\ Live' \subseteq Live /\ outcome = <<None>>
    BY <1>6, MainTimers, Steps DEF Outcome
  <2>2. \A b \in Branches : cause[b] = "cancelled" => Kind = "timeout" /\ b = 2
    BY <2>1 DEF Meant, None
  <2>3. ASSUME cause' = cause, Kind = "timeout" => outcome'[1] # "value" PROVE Meant'
    BY <1>2, <2>2, <2>3 DEF Meant
  <2>4. cause \in [Coroutines -> {"none", "expired", "cancelled"}]
    BY DEF Causes
  <2>5. \A e \in Live : e.frame \in Branches /\ token[e.frame] = e.token
    BY DEF Alone, Sound, Timers, Live
  <2>6. CASE TimeoutCancel
    <3>1. Kind = "timeout" /\ \E id \in TokenValues(2) : CancelFrame(id)
      BY <2>6 DEF TimeoutCancel
    <3>2. \A e \in Live : e.frame = 2 /\ token[2] = e.token /\ e.token \in Nat
      <4>1. ASSUME NEW e \in Live PROVE e.frame = 2 /\ e.token \in Nat
        <5>1. pc[e.frame] = "asleep" /\ e.frame \in Branches
          BY <2>5 DEF Causes
        <5>2. e.frame \in Used /\ program.ends[e.frame] = "timer"
          BY <5>1, Basics DEF Flow
        <5> QED
          BY <1>3, <3>1, <5>2 DEF Live, Sound, Timers
      <4> QED
        BY <2>5, <4>1
    <3>3. PICK id \in Nat : CancelFrame(id) /\ (token[2] = Unset \/ id = token[2])
      <4>1. token[2] \in Nat \cup {Unset} /\ counter \in Nat
        BY <1>1, <1>3, <3>1 DEF Sound, Timers
      <4> QED
        BY <3>1, <4>1 DEF TokenValues
    <3>4. CASE Found(id) = {} /\ UNCHANGED <<timeVars, ready>>
      <4>1. Live = {}
        <5>1. \A e \in Live : token[2] = Unset
          BY <3>2, <3>3, <3>4 DEF Found, Live
        <5> QED
          BY <3>2, <5>1 DEF Unset
      <4>2. cause' = cause /\ Live' = {}
        BY <2>1, <3>4, <4>1 DEF timeVars
      <4> QED
        BY <1>2, <2>2, <4>2 DEF Meant
    <3>5. ASSUME NEW e \in Found(id), TimeCancel(e) PROVE Meant'
      <4>1. e \in Live /\ Live' = Live \ {e} /\ e.frame = 2
        BY <3>2, <3>5, CancelledTimer
      <4>2. Live' = {}
        BY <3>2, <4>1 DEF Sound, Timers
      <4>3. cause' = [cause EXCEPT ![2] = "cancelled"]
        BY <3>5, <4>1 DEF TimeCancel
      <4>4. \A b \in Branches : cause'[b] = "cancelled" => b = 2
        BY <1>1, <2>2, <2>4, <4>3
      <4> QED
        BY <1>2, <3>1, <4>2, <4>4 DEF Meant
    <3> QED
      BY <3>3, <3>4, <3>5 DEF CancelFrame
  <2>7. ASSUME NEW b \in Used, TimerCancel(b) PROVE Meant'
    <3>1. /\ Kind = "timer" /\ token[b] # Unset /\ CancelFrame(token[b]) /\ outcome' = <<"cancelled", b>>
          /\ b \in Branches
      BY <1>1, <2>7 DEF TimerCancel, Return, Programme
    <3>2. token[b] \in Nat
      BY <1>1, <3>1 DEF Sound, Timers
    <3>3. CASE UNCHANGED timeVars
      BY <2>3, <3>1, <3>3 DEF timeVars
    <3>4. ASSUME NEW e \in Found(token[b]), TimeCancel(e) PROVE Meant'
      <4>1. e \in Live /\ e.frame \in Branches /\ e.token = token[b]
        BY <3>2, <3>4, CancelledTimer
      <4>2. e.frame = b
        <5>1. token[e.frame] = token[b]
          BY <2>5, <4>1
        <5> QED
          BY <3>1, <4>1, <5>1 DEF Alone
      <4>3. cause' = [cause EXCEPT ![b] = "cancelled"]
        BY <3>4, <4>2 DEF TimeCancel
      <4>4. \A c \in Branches : cause'[c] = "cancelled" => c = b
        BY <1>1, <2>2, <2>4, <3>1, <4>3
      <4> QED
        BY <1>2, <3>1, <4>4 DEF Meant
    <3> QED
      BY <3>1, <3>3, <3>4 DEF CancelFrame
  <2>8. CASE ReturnAny
    <3>1. cause' = cause
      BY <2>8 DEF ReturnAny, timeVars
    <3>2. Kind = "timeout" => outcome'[1] # "value"
      <4> SUFFICES ASSUME Kind = "timeout" PROVE outcome'[1] # "value"
        OBVIOUS
      <4>1. /\ arrived # Nobody /\ arrived.by \in Branches /\ arrived.threw \in BOOLEAN
            /\ result[arrived.by] \in {"throw", "value"}
        BY <2>8 DEF ReturnAny, First
      <4>2. arrived.by \in Used
        <5>1. pc[arrived.by] # "unborn"
          BY <4>1 DEF Results, None
        <5> QED
          BY <4>1, <5>1, Basics
      <4>3. arrived.by \in {1, 2}
        BY <1>1, <4>2 DEF Programme
      <4>4. CASE arrived.threw
        <5>1. outcome' = <<"error", arrived.by>>
          BY <2>8, <4>4 DEF ReturnAny, Return
        <5> QED
          BY <5>1
      <4>5. CASE ~arrived.threw /\ arrived.by = 2
        <5>1. outcome' = <<"nullopt">>
          BY <2>8, <4>1, <4>5 DEF ReturnAny, Return
        <5> QED
          BY <5>1
      <4>6. CASE ~arrived.threw /\ arrived.by = 1
        <5>1. outcome' = outcome
          BY <2>8, <4>1, <4>6 DEF ReturnAny
        <5> QED
          BY <2>1, <5>1 DEF None
      <4> QED
        BY <4>1, <4>3, <4>4, <4>5, <4>6
    <3> QED
      BY <2>3, <3>1, <3>2
  <2>9. CASE SpawnBranch \/ AwaitAll \/ AwaitAny \/ AwaitFuture \/ AwaitNothing \/ RequestStop
             \/ TimerLater \/ Install \/ SignalWait \/ Callback \/ Restore
    <3>1. cause' = cause /\ outcome' = outcome
      BY <2>9 DEF SpawnBranch, AwaitAll, AwaitAny, AwaitFuture, AwaitNothing, AwaitAt, RequestStop,
         TimerLater, Install, SignalWait, Callback, Restore, timeVars
    <3> QED
      BY <2>1, <2>3, <3>1 DEF None
  <2>10. CASE ReturnAll \/ ReturnFuture \/ Clear
    <3>1. cause' = cause /\ Kind # "timeout"
      BY <2>10 DEF ReturnAll, ReturnFuture, Clear, At, Flow, timeVars
    <3> QED
      BY <2>3, <3>1
  <2> QED
    BY <1>6, <2>6, <2>7, <2>8, <2>9, <2>10 DEF MainStep
<1>7. ASSUME UNCHANGED vars \/ Commit \/ Tick \/ Raise \/ \E c \in Coroutines : Resume(c)
      PROVE  Meant'
  <2>1. outcome' = outcome
    BY <1>7, LoopLeaves
  <2>2. timers' \subseteq timers
    BY <1>7 DEF vars, Commit, PassStart, CommitYield, CommitFlag, CommitLatch, CommitFuture,
       CommitList, CommitTime, TimeCommit, Tick, Raise, Resume, timeVars
  <2>3. CASE CommitTime
    <3>1. \A b \in Branches : cause'[b] = "cancelled" => cause[b] = "cancelled"
      BY <1>1, <2>3 DEF CommitTime, TimeCommit
    <3> QED
      BY <1>4, <2>1, <2>2, <3>1 DEF Live
  <2>4. CASE ~CommitTime
    <3>1. cause' = cause
      BY <1>7, <2>4 DEF vars, Commit, PassStart, CommitYield, CommitFlag, CommitLatch, CommitFuture,
         CommitList, Tick, Raise, Resume, timeVars
    <3> QED
      BY <1>4, <2>1, <2>2, <3>1 DEF Live
  <2> QED
    BY <2>3, <2>4
<1> QED
  BY <1>5, <1>6, <1>7, Steps

LEMMA InitMeant == Init => Queued /\ Alone /\ Started /\ Meant
<1> SUFFICES ASSUME Init PROVE Queued /\ Alone /\ Started /\ Meant
  OBVIOUS
<1>1. /\ Main \in Coroutines /\ Main \notin Branches /\ Branches \subseteq Coroutines /\ Programme
  BY InitSound, Basics
<1>2. /\ \A b \in Branches : pc[b] = "unborn" /\ token[b] = Unset /\ cause[b] = "none"
      /\ counter = 0 /\ timers = {} /\ running = {} /\ committing = <<>>
      /\ \A s \in Lists : waiting[s] = <<>>
      /\ pc[Main] = IF Kind = "signal" THEN "install" ELSE "spawn"
      /\ outcome = <<None>>
  BY <1>1 DEF Init, TimeInit, Lists
<1>3. Live = {}
  BY <1>2 DEF Live
<1>4. Queued
  BY <1>2, ListEmpty DEF Queued
<1>5. Alone
  BY <1>2, <1>3 DEF Alone, Unset
<1>6. Started
  BY <1>2 DEF Started
<1>7. Meant
  BY <1>2, <1>3 DEF Meant, None
<1> QED
  BY <1>4, <1>5, <1>6, <1>7

\* On the loop thread a cancellation reaches the timer it was meant for and no other, and a
\* timeout that returns a value leaves no timer behind (time_service.hpp:89-94,
\* functional.hpp:123-131).
THEOREM CancelledIsMeant == Spec => []CancelsItsOwn
<1> DEFINE Inv == Answered /\ Queued /\ Alone /\ Started /\ Meant
<1>1. Init => Inv
  BY InitAnswered, InitMeant
<1>2. Inv /\ [Next]_vars => Inv'
  <2> SUFFICES ASSUME Answered, Queued, Alone, Started, Meant, [Next]_vars PROVE Inv'
    OBVIOUS
  <2>1. Answered'
    BY AnsweredNext
  <2>2. Queued'
    BY QueuedNext DEF Answered
  <2>3. Alone'
    BY AloneNext DEF Answered
  <2>4. Started'
    BY StartedNext DEF Answered
  <2>5. Meant'
    BY MeantNext DEF Answered
  <2> QED
    BY <2>1, <2>2, <2>3, <2>4, <2>5
<1>3. Inv => CancelsItsOwn
  <2> SUFFICES ASSUME Answered, Meant PROVE CancelsItsOwn
    OBVIOUS
  <2>1. Used \subseteq Branches
    BY Basics DEF Answered, Programme
  <2>2. Live = {} => \A e \in timers : e.token = Cancelled
    BY DEF Live
  <2> QED
    BY <2>1, <2>2 DEF CancelsItsOwn, Meant
<1> HIDE DEF Inv
<1> QED
  BY <1>1, <1>2, <1>3, PTL DEF Spec
=============================================================================
