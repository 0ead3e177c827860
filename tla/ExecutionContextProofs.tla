----------------------- MODULE ExecutionContextProofs -----------------------
(***************************************************************************)
(* Theorems about the event loop and the thread pool, for any programs:    *)
(* any number of workers and groups, spawned before or by coroutines.      *)
(* The types and the semaphores come first.  Then the handles of the       *)
(* coroutine groups: what a thread resumes is suspended, and a group has a *)
(* handle, and one only, as long as it is suspended.  Last the lifetime    *)
(* list: the loop ends when every group is destroyed.                      *)
(***************************************************************************)
EXTENDS ExecutionContext, ListFacts, FiniteSetTheorems, TLAPS

\* Every group in the sequence s has been spawned.
Born(s) == \A i \in DOMAIN s : s[i] \in Groups /\ state[s[i]] # "unborn"

Spawned(g) == g \in Groups /\ state[g] # "unborn"

\* What is scheduled, resumed or handed over has been spawned.
Scheduled ==
  /\ Born(remote) /\ Born(forward) /\ Born(outstanding)
  /\ \A w \in Workers : Born(local[w])
  /\ \A t \in Threads :
       /\ pc[t] = "acquire" \/ Inside(t) => Spawned(cur[t])
       /\ pc[t] \in {"link", "spawn"} => Spawned(child[t])

\* A thread inside a group holds its semaphore.
Guarded ==
  /\ \A t \in Threads : Inside(t) => sem[cur[t]] = 0
  /\ OneThreadPerGroup

IInv == program \in Programs /\ TypeOK /\ Scheduled /\ Guarded

-----------------------------------------------------------------------------
(* Types *)

LEMMA ProgramTypes ==
  ASSUME program \in Programs
  PROVE  /\ Concurrency \in Nat /\ MaxYield \in Nat
         /\ Initial \subseteq Groups /\ program.spawned \subseteq Groups
         /\ Main \in Threads /\ Main \notin Workers /\ Workers \subseteq Threads
         /\ Workers \subseteq Nat
BY ProgramAssumption DEF Concurrency, MaxYield, Initial, Main, Threads, Workers

LEMMA RigidProgram ==
  ASSUME UNCHANGED program
  PROVE  /\ Concurrency' = Concurrency /\ MaxYield' = MaxYield /\ Initial' = Initial
         /\ Workers' = Workers /\ Threads' = Threads
BY DEF Concurrency, MaxYield, Initial, Workers, Threads

LEMMA InitTypes == Init => program \in Programs /\ TypeOK
<1> SUFFICES ASSUME Init PROVE program \in Programs /\ TypeOK
  OBVIOUS
<1>1. program \in Programs
  BY DEF Init
<1>2. Concurrency \in Nat /\ MaxYield \in Nat
  BY <1>1, ProgramTypes
<1>3. pc \in [Threads -> {"program", "off"}]
  BY DEF Init
<1>4. victim \in [Workers -> 0..Concurrency] /\ yields \in [Groups -> 0..MaxYield]
  BY <1>2 DEF Init
<1>5. /\ remote = <<>> /\ forward = <<>> /\ outstanding = <<>>
      /\ local \in [Workers -> Seq(Groups)]
      /\ link \in [Groups \cup {First} -> {Null}]
      /\ sem \in [Groups -> {0, 1}]
      /\ state \in [Groups -> {"unborn"}]
      /\ cur \in [Threads -> {Null}] /\ child \in [Threads -> {Null}]
  BY DEF Init
<1>6. rotation \in Workers \cup {0} /\ cursor \in Groups \cup {First} /\ stop \in BOOLEAN
  BY DEF Init
<1>7. remote \in Seq(Groups) /\ forward \in Seq(Groups) /\ outstanding \in Seq(Groups)
  BY <1>5
<1>8. link \in [Groups \cup {First} -> Groups \cup {Null}]
  BY <1>5
<1>9. sem \in [Groups -> {0, 1}] /\ state \in [Groups -> States]
  BY <1>5 DEF States
<1>10. /\ cur \in [Threads -> Groups \cup {Null}]
       /\ child \in [Threads -> Groups \cup {Null}]
  BY <1>5
<1>11. pc \in [Threads -> {"program", "off", "empty", "dispatch", "commit", "push", "remove",
                           "stop", "join", "ended", "pop", "steal", "acquire", "run",
                           "suspend", "link", "spawn", "release"}]
  BY <1>3
<1> QED
  BY <1>1, <1>4, <1>5, <1>6, <1>7, <1>8, <1>9, <1>10, <1>11 DEF TypeOK

\* TypeOK in three parts.
QueueTypes ==
  /\ remote \in Seq(Groups) /\ forward \in Seq(Groups) /\ outstanding \in Seq(Groups)
  /\ local \in [Workers -> Seq(Groups)]
  /\ rotation \in Workers \cup {0}

GroupTypes ==
  /\ link \in [Groups \cup {First} -> Groups \cup {Null}]
  /\ cursor \in Groups \cup {First}
  /\ sem \in [Groups -> {0, 1}]
  /\ state \in [Groups -> States]
  /\ yields \in [Groups -> 0..MaxYield]

Labels == {"program", "off", "empty", "dispatch", "commit", "push", "remove", "stop", "join",
           "ended", "pop", "steal", "acquire", "run", "suspend", "link", "spawn", "release"}

ThreadTypes ==
  /\ pc \in [Threads -> Labels]
  /\ cur \in [Threads -> Groups \cup {Null}]
  /\ child \in [Threads -> Groups \cup {Null}]
  /\ stop \in BOOLEAN
  /\ victim \in [Workers -> 0..Concurrency]

LEMMA TypeParts == TypeOK <=> QueueTypes /\ GroupTypes /\ ThreadTypes
BY DEF TypeOK, QueueTypes, GroupTypes, ThreadTypes, Labels

LEMMA TypePartsPrime == TypeOK' <=> QueueTypes' /\ GroupTypes' /\ ThreadTypes'
BY DEF TypeOK, QueueTypes, GroupTypes, ThreadTypes, Labels

\* What a step leaves alone keeps its type.
LEMMA TypesUnchanged ==
  ASSUME TypeOK, UNCHANGED program
  PROVE  /\ UNCHANGED <<remote, forward, outstanding, local, rotation>> => QueueTypes'
         /\ UNCHANGED <<link, cursor, sem, state, yields>> => GroupTypes'
         /\ UNCHANGED <<pc, cur, child, stop, victim>> => ThreadTypes'
<1>1. QueueTypes /\ GroupTypes /\ ThreadTypes
  BY TypeParts
<1> QED
  BY <1>1, RigidProgram DEF QueueTypes, GroupTypes, ThreadTypes

\* A thread that only moves on.
LEMMA TypesGoto ==
  ASSUME TypeOK, UNCHANGED <<program, cur, child, stop, victim>>, NEW t,
         \E label \in Labels : pc' = [pc EXCEPT ![t] = label]
  PROVE  ThreadTypes'
BY TypeParts, RigidProgram DEF ThreadTypes

LEMMA MainTypes ==
  ASSUME program \in Programs, TypeOK, UNCHANGED program,
         MainStep \/ Launch \/ Ended \/ \E g \in Groups : ProgramSpawn(g)
  PROVE  TypeOK'
<1>1. ASSUME NEW g \in Groups, ProgramSpawn(g) PROVE TypeOK'
  <2>1. QueueTypes'
    BY <1>1, TypeParts, RigidProgram DEF QueueTypes, ProgramSpawn
  <2>2. GroupTypes'
    BY <1>1, TypeParts, RigidProgram DEF States, GroupTypes, ProgramSpawn
  <2>3. ThreadTypes'
    BY <1>1, TypesUnchanged DEF ProgramSpawn
  <2> QED
    BY <2>1, <2>2, <2>3, TypePartsPrime
<1>2. CASE Launch
  <2>1. QueueTypes'
    BY <1>2, TypesUnchanged DEF Launch
  <2>2. GroupTypes'
    BY <1>2, TypesUnchanged DEF Launch
  <2>3. ThreadTypes'
    BY <1>2, TypeParts, RigidProgram, ProgramTypes DEF Labels, ThreadTypes, Launch
  <2> QED
    BY <2>1, <2>2, <2>3, TypePartsPrime
<1>3. CASE Ended
  BY <1>3, TypesUnchanged, TypePartsPrime DEF Ended, vars
<1>4. CASE CheckEmpty
  BY <1>4, TypesUnchanged, TypesGoto, TypePartsPrime DEF CheckEmpty, Goto, Labels
<1>5. CASE DispatchLocal
  <2>1. rotation \in Workers /\ (rotation + 1) % Concurrency \in Workers
    <3>1. Concurrency \in Nat /\ Concurrency > 0
      BY <1>5, ProgramTypes DEF DispatchLocal
    <3>2. rotation \in Nat /\ rotation \in Workers
      BY <3>1, TypeParts DEF QueueTypes, Workers
    <3>3. (rotation + 1) % Concurrency \in 0..(Concurrency - 1)
      BY <3>1, <3>2
    <3> QED
      BY <3>2, <3>3 DEF Workers
  <2>2. QueueTypes'
    BY <1>5, <2>1, TypeParts, RigidProgram DEF QueueTypes, DispatchLocal
  <2>3. GroupTypes'
    BY <1>5, TypesUnchanged DEF DispatchLocal
  <2>4. ThreadTypes'
    BY <1>5, TypesUnchanged DEF DispatchLocal
  <2> QED
    BY <2>2, <2>3, <2>4, TypePartsPrime
<1>6. CASE DispatchInPlace
  <2>1. Head(remote) \in Groups
    BY <1>6, TypeParts DEF DispatchInPlace, QueueTypes
  <2>2. QueueTypes'
    BY <1>6, TypeParts, RigidProgram DEF QueueTypes, DispatchInPlace
  <2>3. GroupTypes'
    BY <1>6, TypesUnchanged DEF DispatchInPlace
  <2>4. ThreadTypes'
    BY <1>6, <2>1, TypeParts, RigidProgram DEF ThreadTypes, DispatchInPlace, Goto, Labels
  <2> QED
    BY <2>2, <2>3, <2>4, TypePartsPrime
<1>7. CASE DispatchEnd
  BY <1>7, TypesUnchanged, TypesGoto, TypePartsPrime DEF DispatchEnd, Goto, Labels
<1>8. CASE Commit
  <2>1. QueueTypes'
    BY <1>8, TypeParts, RigidProgram DEF QueueTypes, Commit
  <2>2. GroupTypes'
    BY <1>8, TypesUnchanged DEF Commit
  <2>3. ThreadTypes'
    BY <1>8, TypesGoto DEF Commit, Goto, Labels
  <2> QED
    BY <2>1, <2>2, <2>3, TypePartsPrime
<1>9. CASE CommitPush
  <2>1. QueueTypes'
    BY <1>9, TypeParts, RigidProgram DEF QueueTypes, CommitPush
  <2>2. GroupTypes'
    BY <1>9, TypesUnchanged DEF CommitPush
  <2>3. ThreadTypes'
    BY <1>9, TypesUnchanged DEF CommitPush
  <2> QED
    BY <2>1, <2>2, <2>3, TypePartsPrime
<1>10. CASE CommitEnd
  <2>1. QueueTypes'
    BY <1>10, TypesUnchanged DEF CommitEnd
  <2>2. GroupTypes'
    BY <1>10, TypeParts, RigidProgram DEF GroupTypes, CommitEnd
  <2>3. ThreadTypes'
    BY <1>10, TypesGoto DEF CommitEnd, Goto, Labels
  <2> QED
    BY <2>1, <2>2, <2>3, TypePartsPrime
<1>11. CASE RemoveSkip
  <2>1. QueueTypes'
    BY <1>11, TypesUnchanged DEF RemoveSkip
  <2>2. GroupTypes'
    BY <1>11, TypeParts, RigidProgram DEF GroupTypes, RemoveSkip
  <2>3. ThreadTypes'
    BY <1>11, TypesUnchanged DEF RemoveSkip
  <2> QED
    BY <2>1, <2>2, <2>3, TypePartsPrime
<1>12. CASE RemoveDone
  <2>1. link[cursor] \in Groups /\ link[link[cursor]] \in Groups \cup {Null}
    BY <1>12, TypeParts DEF RemoveDone, GroupTypes
  <2>2. QueueTypes'
    BY <1>12, TypesUnchanged DEF RemoveDone
  <2>3. GroupTypes'
    BY <1>12, <2>1, TypeParts, RigidProgram DEF States, GroupTypes, RemoveDone
  <2>4. ThreadTypes'
    BY <1>12, TypesUnchanged DEF RemoveDone
  <2> QED
    BY <2>2, <2>3, <2>4, TypePartsPrime
<1>13. CASE RemoveEnd
  BY <1>13, TypesUnchanged, TypesGoto, TypePartsPrime DEF RemoveEnd, Goto, Labels
<1>14. CASE RequestStop
  <2>1. QueueTypes'
    BY <1>14, TypesUnchanged DEF RequestStop
  <2>2. GroupTypes'
    BY <1>14, TypesUnchanged DEF RequestStop
  <2>3. ThreadTypes'
    BY <1>14, TypeParts, RigidProgram, ProgramTypes DEF Goto, Labels, ThreadTypes, RequestStop
  <2> QED
    BY <2>1, <2>2, <2>3, TypePartsPrime
<1>15. CASE Join
  BY <1>15, TypesUnchanged, TypesGoto, TypePartsPrime DEF Join, Goto, Labels
<1> QED
  BY <1>1, <1>2, <1>3, <1>4, <1>5, <1>6, <1>7, <1>8, <1>9, <1>10, <1>11, <1>12, <1>13, <1>14, <1>15
  DEF MainStep

LEMMA WorkerTypes ==
  ASSUME program \in Programs, TypeOK, UNCHANGED program,
         NEW w \in Workers, WorkerStep(w)
  PROVE  TypeOK'
<1>1. CASE WorkerStop(w)
  BY <1>1, TypesUnchanged, TypesGoto, TypePartsPrime DEF WorkerStop, Goto, Labels
<1>2. CASE TryPopLocal(w) /\ local[w] = <<>>
  BY <1>2, TypesUnchanged, TypesGoto, TypePartsPrime DEF TryPopLocal, Goto, Labels
<1>3. CASE TryPopLocal(w) /\ local[w] # <<>>
  <2>1. Last(local[w]) \in Groups /\ Front(local[w]) \in Seq(Groups)
    BY <1>3, TypeParts DEF QueueTypes, Last, Front
  <2>2. QueueTypes'
    BY <1>3, <2>1, TypeParts, RigidProgram DEF QueueTypes, TryPopLocal
  <2>3. GroupTypes'
    BY <1>3, TypesUnchanged DEF TryPopLocal
  <2>4. ThreadTypes'
    BY SMTT(30), <1>3, <2>1, TypeParts, RigidProgram, ProgramTypes DEF Goto, Labels, ThreadTypes, TryPopLocal
  <2> QED
    BY <2>2, <2>3, <2>4, TypePartsPrime
<1>4. CASE TrySteal(w)
  <2>1. /\ Head(local[victim[w]]) \in Groups
        /\ Tail(local[victim[w]]) \in Seq(Groups)
    BY <1>4, TypeParts DEF TrySteal, QueueTypes
  <2>2. QueueTypes'
    BY <1>4, <2>1, TypeParts, RigidProgram DEF QueueTypes, TrySteal
  <2>3. GroupTypes'
    BY <1>4, TypesUnchanged DEF TrySteal
  <2>4. ThreadTypes'
    BY <1>4, <2>1, TypeParts, RigidProgram, ProgramTypes DEF Goto, Labels, ThreadTypes, TrySteal
  <2> QED
    BY <2>2, <2>3, <2>4, TypePartsPrime
<1>5. CASE StealNext(w)
  <2>1. victim[w] + 1 \in 0..Concurrency
    BY <1>5, ProgramTypes DEF StealNext, Workers
  <2>2. QueueTypes'
    BY <1>5, TypesUnchanged DEF StealNext
  <2>3. GroupTypes'
    BY <1>5, TypesUnchanged DEF StealNext
  <2>4. ThreadTypes'
    BY <1>5, <2>1, TypeParts, RigidProgram DEF ThreadTypes, StealNext
  <2> QED
    BY <2>2, <2>3, <2>4, TypePartsPrime
<1>6. CASE StealNothing(w)
  <2>1. QueueTypes'
    BY <1>6, TypesUnchanged DEF StealNothing
  <2>2. GroupTypes'
    BY <1>6, TypesUnchanged DEF StealNothing
  <2>3. ThreadTypes'
    BY <1>6, TypeParts, RigidProgram, ProgramTypes DEF Goto, Labels, ThreadTypes, StealNothing
  <2> QED
    BY <2>1, <2>2, <2>3, TypePartsPrime
<1> QED
  BY <1>1, <1>2, <1>3, <1>4, <1>5, <1>6
  DEF WorkerStep

LEMMA ResumeTypes ==
  ASSUME program \in Programs, TypeOK, Scheduled, UNCHANGED program,
         NEW t \in Threads, ResumeStep(t)
  PROVE  TypeOK'
<1>1. CASE Acquire(t)
  <2>1. QueueTypes'
    BY <1>1, TypesUnchanged DEF Acquire
  <2>2. GroupTypes'
    BY <1>1, TypeParts, RigidProgram DEF States, GroupTypes, Acquire
  <2>3. ThreadTypes'
    BY <1>1, TypesGoto DEF Acquire, Goto, Labels
  <2> QED
    BY <2>1, <2>2, <2>3, TypePartsPrime
<1>2. CASE YieldPost(t)
  <2>1. cur[t] \in Groups
    BY <1>2 DEF YieldPost, Inside, Scheduled, Spawned
  <2>2. QueueTypes'
    BY <1>2, <2>1, TypeParts, RigidProgram DEF QueueTypes, YieldPost
  <2>3. GroupTypes'
    BY <1>2, <2>1, TypeParts, RigidProgram, ProgramTypes DEF GroupTypes, YieldPost
  <2>4. ThreadTypes'
    BY <1>2, TypesGoto DEF YieldPost, Goto, Labels
  <2> QED
    BY <2>2, <2>3, <2>4, TypePartsPrime
<1>3. CASE Suspend(t)
  <2>1. QueueTypes'
    BY <1>3, TypesUnchanged DEF Suspend
  <2>2. GroupTypes'
    BY <1>3, TypeParts, RigidProgram DEF States, GroupTypes, Suspend
  <2>3. ThreadTypes'
    BY <1>3, TypesGoto DEF Suspend, Goto, Labels
  <2> QED
    BY <2>1, <2>2, <2>3, TypePartsPrime
<1>4. ASSUME NEW g \in Groups, SpawnNode(t, g) PROVE TypeOK'
  <2>1. QueueTypes'
    BY <1>4, TypesUnchanged DEF SpawnNode
  <2>2. GroupTypes'
    BY <1>4, TypeParts, RigidProgram DEF States, GroupTypes, SpawnNode
  <2>3. ThreadTypes'
    BY <1>4, TypeParts, RigidProgram, ProgramTypes DEF Goto, Labels, ThreadTypes, SpawnNode
  <2> QED
    BY <2>1, <2>2, <2>3, TypePartsPrime
<1>5. CASE SpawnLink(t)
  <2>1. child[t] \in Groups
    BY <1>5 DEF SpawnLink, Scheduled, Spawned
  <2>2. QueueTypes'
    BY <1>5, TypesUnchanged DEF SpawnLink
  <2>3. GroupTypes'
    BY <1>5, <2>1, TypeParts, RigidProgram DEF GroupTypes, SpawnLink
  <2>4. ThreadTypes'
    BY <1>5, TypesGoto DEF SpawnLink, Goto, Labels
  <2> QED
    BY <2>2, <2>3, <2>4, TypePartsPrime
<1>6. CASE SpawnPush(t)
  <2>1. child[t] \in Groups
    BY <1>6 DEF SpawnPush, Scheduled, Spawned
  <2>2. QueueTypes'
    BY <1>6, <2>1, TypeParts, RigidProgram DEF QueueTypes, SpawnPush
  <2>3. GroupTypes'
    BY <1>6, TypesUnchanged DEF SpawnPush
  <2>4. ThreadTypes'
    BY <1>6, TypesGoto DEF SpawnPush, Goto, Labels
  <2> QED
    BY <2>2, <2>3, <2>4, TypePartsPrime
<1>7. CASE Finish(t)
  <2>1. QueueTypes'
    BY <1>7, TypesUnchanged DEF Finish
  <2>2. GroupTypes'
    BY <1>7, TypeParts, RigidProgram DEF States, GroupTypes, Finish
  <2>3. ThreadTypes'
    BY <1>7, TypesGoto DEF Finish, Goto, Labels
  <2> QED
    BY <2>1, <2>2, <2>3, TypePartsPrime
<1>8. CASE Release(t)
  <2>1. QueueTypes'
    BY <1>8, TypesUnchanged DEF Release
  <2>2. GroupTypes'
    BY <1>8, TypeParts, RigidProgram DEF GroupTypes, Release
  <2>3. ThreadTypes'
    BY <1>8, TypesGoto DEF Release, Goto, Labels
  <2> QED
    BY <2>1, <2>2, <2>3, TypePartsPrime
<1> QED
  BY <1>1, <1>2, <1>3, <1>4, <1>5, <1>6, <1>7, <1>8
  DEF ResumeStep

-----------------------------------------------------------------------------
(* Scheduling *)

LEMMA InitScheduled == Init => Scheduled /\ Guarded
<1> SUFFICES ASSUME Init PROVE Scheduled /\ Guarded
  OBVIOUS
<1>1. \A t \in Threads : pc[t] \in {"program", "off"}
  BY DEF Init
<1>2. Born(remote) /\ Born(forward) /\ Born(outstanding) /\ \A w \in Workers : Born(local[w])
  BY DEF Init, Born
<1> QED
  BY <1>1, <1>2 DEF Scheduled, Guarded, Inside, OneThreadPerGroup

\* No step unspawns a group.
LEMMA StateKept ==
  ASSUME IInv, Next, NEW g, Spawned(g)
  PROVE  Spawned(g)'
<1> USE DEF IInv, TypeOK, Spawned
<1>1. CASE UNCHANGED state
  BY <1>1
<1>2. ASSUME NEW h \in Groups, NEW st \in States, st # "unborn",
             state' = [state EXCEPT ![h] = st]
      PROVE  Spawned(g)'
  BY <1>2
<1>3. ASSUME NEW h \in Groups, ProgramSpawn(h) PROVE Spawned(g)'
  BY <1>2, <1>3 DEF ProgramSpawn, States
<1>4. CASE MainStep
  <2>1. CASE RemoveDone
    <3>1. link[cursor] \in Groups
      BY <2>1 DEF RemoveDone
    <3> QED
      BY <1>2, <2>1, <3>1 DEF RemoveDone, States
  <2> QED
    BY <1>1, <1>4, <2>1
    DEF MainStep, CheckEmpty, DispatchLocal, DispatchInPlace, DispatchEnd, Commit, CommitPush,
        CommitEnd, RemoveSkip, RemoveEnd, RequestStop, Join
<1>5. ASSUME NEW w \in Workers, WorkerStep(w) PROVE Spawned(g)'
  BY <1>1, <1>5 DEF WorkerStep, WorkerStop, TryPopLocal, TrySteal, StealNext, StealNothing
<1>6. ASSUME NEW t \in Threads, ResumeStep(t) PROVE Spawned(g)'
  <2>1. pc[t] = "acquire" \/ Inside(t) => cur[t] \in Groups
    BY DEF Scheduled
  <2>2. CASE Acquire(t) \/ Suspend(t) \/ Finish(t)
    BY <1>2, <2>1, <2>2 DEF Acquire, Suspend, Finish, States, Inside
  <2>3. ASSUME NEW h \in Groups, SpawnNode(t, h) PROVE Spawned(g)'
    BY <1>2, <2>3 DEF SpawnNode, States
  <2>4. CASE YieldPost(t) \/ SpawnLink(t) \/ SpawnPush(t) \/ Release(t)
    BY <1>1, <2>4 DEF YieldPost, SpawnLink, SpawnPush, Release
  <2> QED
    BY <1>6, <2>2, <2>3, <2>4 DEF ResumeStep
<1> QED
  BY <1>1, <1>3, <1>4, <1>5, <1>6 DEF Next, Launch, Ended, vars

\* Sequences keep to spawned groups.
LEMMA BornLonger ==
  ASSUME NEW s \in Seq(Groups), Born(s), NEW g \in Groups, Spawned(g)
  PROVE  Born(Append(s, g)) /\ Born(<<g>> \o s)
BY DEF Born, Spawned

LEMMA BornShorter ==
  ASSUME NEW s \in Seq(Groups), Born(s), s # <<>>
  PROVE  /\ Spawned(Head(s)) /\ Born(Tail(s))
         /\ Spawned(Last(s)) /\ Born(Front(s))
<1>1. Spawned(Head(s)) /\ Born(Tail(s))
  BY DEF Born, Spawned
<1>2. Spawned(Last(s)) /\ Born(Front(s))
  BY DEF Born, Spawned, Last, Front
<1> QED
  BY <1>1, <1>2

LEMMA BornKept ==
  ASSUME IInv, Next, NEW s, Born(s)
  PROVE  \A i \in DOMAIN s : s[i] \in Groups /\ state'[s[i]] # "unborn"
<1> SUFFICES ASSUME NEW i \in DOMAIN s PROVE s[i] \in Groups /\ state'[s[i]] # "unborn"
  OBVIOUS
<1>1. Spawned(s[i])
  BY DEF Born, Spawned
<1> QED
  BY <1>1, StateKept DEF Spawned

\* The sequences after a step, if they were already made of spawned groups.
LEMMA QueuesKept ==
  ASSUME IInv, Next,
         Born(remote'), Born(forward'), Born(outstanding'), \A w \in Workers : Born(local'[w])
  PROVE  /\ Born(remote)' /\ Born(forward)' /\ Born(outstanding)'
         /\ \A w \in Workers' : Born(local[w])'
<1>1. Workers' = Workers
  BY RigidProgram DEF Next
<1> QED
  BY <1>1, BornKept DEF Born

\* The threads after a step of t: the others stay as they are.
LEMMA ThreadsKept ==
  ASSUME IInv, Next, NEW t \in Threads,
         \A u \in Threads \ {t} : pc'[u] = pc[u] /\ cur'[u] = cur[u] /\ child'[u] = child[u],
         pc'[t] = "acquire" \/ Inside(t)' => Spawned(cur'[t]),
         pc'[t] \in {"link", "spawn"} => Spawned(child[t]) /\ child'[t] = child[t]
  PROVE  \A u \in Threads' :
           /\ pc'[u] = "acquire" \/ Inside(u)' => Spawned(cur[u])'
           /\ pc'[u] \in {"link", "spawn"} => Spawned(child[u])'
<1>1. Threads' = Threads
  BY RigidProgram DEF Next
<1> SUFFICES ASSUME NEW u \in Threads
             PROVE  /\ pc'[u] = "acquire" \/ Inside(u)' => Spawned(cur[u])'
                    /\ pc'[u] \in {"link", "spawn"} => Spawned(child[u])'
  BY <1>1
<1>2. pc'[u] = "acquire" \/ Inside(u)' => Spawned(cur'[u])
  BY DEF IInv, Scheduled, Inside
<1>3. pc'[u] \in {"link", "spawn"} => Spawned(child[u]) /\ child'[u] = child[u]
  BY DEF IInv, Scheduled
<1>4. \A g : Spawned(g) => g \in Groups /\ state'[g] # "unborn"
  BY StateKept DEF Spawned
<1> QED
  BY <1>2, <1>3, <1>4 DEF Spawned

LEMMA MainScheduled ==
  ASSUME IInv, Next, MainStep
  PROVE  Scheduled'
<1> USE ProgramTypes DEF IInv, Goto
<1>1. /\ Born(remote) /\ Born(forward) /\ Born(outstanding)
      /\ \A w \in Workers : Born(local[w])
      /\ TypeOK /\ Main \in Threads
  BY DEF Scheduled
<1>2. CASE UNCHANGED <<remote, local, forward, outstanding, cur, child>>
           /\ \E label \in {"stop", "dispatch", "commit", "remove", "empty", "join", "ended"} :
                pc' = [pc EXCEPT ![Main] = label]
  <2>1. pc'[Main] \notin {"acquire", "run", "suspend", "link", "spawn", "release"}
    BY <1>1, <1>2 DEF TypeOK
  <2>2. \A u \in Threads \ {Main} : pc'[u] = pc[u]
    BY <1>1, <1>2 DEF TypeOK
  <2> QED
    BY <1>1, <1>2, <2>1, <2>2, QueuesKept, ThreadsKept DEF Scheduled, Inside
<1>3. CASE DispatchLocal
  <2>1. rotation \in Workers /\ remote # <<>> /\ Spawned(Head(remote)) /\ Born(Tail(remote))
    <3>1. Concurrency # 0 /\ remote # <<>>
      BY <1>3 DEF DispatchLocal
    <3>2. rotation \in Workers
      BY <1>1, <3>1 DEF Workers, TypeOK
    <3>3. Spawned(Head(remote)) /\ Born(Tail(remote))
      BY <1>1, <3>1, BornShorter DEF TypeOK
    <3> QED
      BY <3>1, <3>2, <3>3
  <2>2. Born(Append(local[rotation], Head(remote)))
    BY <1>1, <2>1, BornLonger DEF TypeOK, Spawned
  <2>3. \A w \in Workers : Born(local'[w])
    BY <1>1, <1>3, <2>1, <2>2 DEF DispatchLocal, TypeOK
  <2>4. Born(remote') /\ Born(forward') /\ Born(outstanding')
    BY <1>1, <1>3, <2>1 DEF DispatchLocal
  <2>5. UNCHANGED <<pc, cur, child>> /\ pc[Main] = "dispatch"
    BY <1>3 DEF DispatchLocal
  <2> QED
    BY <1>1, <2>3, <2>4, <2>5, QueuesKept, ThreadsKept DEF Scheduled, Inside
<1>4. CASE DispatchInPlace
  <2>1. remote # <<>> /\ Spawned(Head(remote)) /\ Born(Tail(remote))
    BY <1>1, <1>4, BornShorter DEF DispatchInPlace, TypeOK
  <2>2. /\ pc'[Main] = "acquire" /\ cur'[Main] = Head(remote)
        /\ \A u \in Threads \ {Main} : pc'[u] = pc[u] /\ cur'[u] = cur[u]
        /\ UNCHANGED child
    BY <1>1, <1>4 DEF DispatchInPlace, TypeOK
  <2>3. /\ Born(remote') /\ Born(forward') /\ Born(outstanding')
        /\ \A w \in Workers : Born(local'[w])
    BY <1>1, <1>4, <2>1 DEF DispatchInPlace
  <2> QED
    BY <1>1, <2>1, <2>2, <2>3, QueuesKept, ThreadsKept DEF Scheduled, Inside
<1>5. CASE Commit
  <2>1. /\ pc'[Main] = "push" /\ \A u \in Threads \ {Main} : pc'[u] = pc[u]
        /\ UNCHANGED <<cur, child>>
    BY <1>1, <1>5 DEF Commit, TypeOK
  <2>2. /\ Born(remote') /\ Born(forward') /\ Born(outstanding')
        /\ \A w \in Workers : Born(local'[w])
    BY <1>1, <1>5 DEF Commit, Born
  <2> QED
    BY <1>1, <2>1, <2>2, QueuesKept, ThreadsKept DEF Scheduled, Inside
<1>6. CASE CommitPush
  <2>1. /\ Spawned(Head(outstanding)) /\ Born(Tail(outstanding))
    BY <1>1, <1>6, BornShorter DEF CommitPush, TypeOK
  <2>2. Born(Append(remote, Head(outstanding)))
    BY <1>1, <2>1, BornLonger DEF TypeOK, Spawned
  <2>3. /\ Born(remote') /\ Born(forward') /\ Born(outstanding')
        /\ \A w \in Workers : Born(local'[w])
    BY <1>1, <1>6, <2>1, <2>2 DEF CommitPush
  <2>4. UNCHANGED <<pc, cur, child>> /\ pc[Main] = "push"
    BY <1>6 DEF CommitPush
  <2> QED
    BY <1>1, <2>3, <2>4, QueuesKept, ThreadsKept DEF Scheduled, Inside
<1>7. CASE RemoveSkip \/ RemoveDone
  <2>1. UNCHANGED <<remote, local, forward, outstanding, pc, cur, child>> /\ pc[Main] = "remove"
    BY <1>7 DEF RemoveSkip, RemoveDone
  <2> QED
    BY <1>1, <2>1, QueuesKept, ThreadsKept DEF Scheduled, Inside
<1>8. CASE CheckEmpty
  BY <1>2, <1>8 DEF CheckEmpty
<1>9. CASE DispatchEnd \/ CommitEnd \/ RemoveEnd
  BY <1>2, <1>9 DEF DispatchEnd, CommitEnd, RemoveEnd
<1>10. CASE RequestStop \/ Join
  BY <1>2, <1>10 DEF RequestStop, Join
<1> QED
  BY <1>3, <1>4, <1>5, <1>6, <1>7, <1>8, <1>9, <1>10 DEF MainStep

LEMMA WorkerScheduled ==
  ASSUME IInv, Next, NEW w \in Workers, WorkerStep(w)
  PROVE  Scheduled'
<1> USE DEF IInv, Goto
<1>1. /\ Born(remote) /\ Born(forward) /\ Born(outstanding)
      /\ \A x \in Workers : Born(local[x])
      /\ TypeOK /\ w \in Threads
  BY DEF Scheduled, Threads
<1>2. /\ UNCHANGED <<remote, forward, outstanding, child>>
      /\ \A u \in Threads \ {w} : pc'[u] = pc[u] /\ cur'[u] = cur[u]
      /\ pc'[w] \in {"off", "steal", "acquire", "pop"}
  BY <1>1
  DEF WorkerStep, WorkerStop, TryPopLocal, TrySteal, StealNext, StealNothing, TypeOK
<1>3. (\A x \in Workers : Born(local'[x])) /\ (pc'[w] = "acquire" => Spawned(cur'[w]))
  <2>1. CASE TryPopLocal(w) /\ local[w] # <<>>
    <3>1. Spawned(Last(local[w])) /\ Born(Front(local[w]))
      BY <1>1, <2>1, BornShorter DEF TypeOK
    <3> QED
      BY <1>1, <2>1, <3>1 DEF TryPopLocal, TypeOK
  <2>2. CASE TrySteal(w)
    <3>1. /\ victim[w] \in Workers
          /\ Spawned(Head(local[victim[w]])) /\ Born(Tail(local[victim[w]]))
      BY <1>1, <2>2, BornShorter DEF TrySteal, TypeOK
    <3> QED
      BY <1>1, <2>2, <3>1 DEF TrySteal, TypeOK
  <2>3. CASE TryPopLocal(w) /\ local[w] = <<>>
    BY <1>1, <2>3 DEF TryPopLocal, TypeOK
  <2>4. CASE WorkerStop(w) \/ StealNext(w) \/ StealNothing(w)
    BY <1>1, <2>4 DEF WorkerStop, StealNext, StealNothing, TypeOK
  <2> QED
    BY <2>1, <2>2, <2>3, <2>4 DEF WorkerStep
<1>4. Born(remote') /\ Born(forward') /\ Born(outstanding')
  BY <1>1, <1>2
<1> QED
  BY <1>1, <1>2, <1>3, <1>4, QueuesKept, ThreadsKept DEF Scheduled, Inside

LEMMA ResumeScheduled ==
  ASSUME IInv, Next, NEW t \in Threads, ResumeStep(t)
  PROVE  Scheduled'
<1> USE DEF IInv, Goto
<1>1. /\ Born(remote) /\ Born(forward) /\ Born(outstanding)
      /\ \A x \in Workers : Born(local[x])
      /\ TypeOK
      /\ pc[t] = "acquire" \/ Inside(t) => Spawned(cur[t])
      /\ pc[t] \in {"link", "spawn"} => Spawned(child[t])
  BY DEF Scheduled
<1>2. UNCHANGED <<local, outstanding, cur>>
  BY DEF ResumeStep, Acquire, YieldPost, Suspend, SpawnNode, SpawnLink, SpawnPush, Finish, Release
<1>3. ASSUME NEW label, pc' = [pc EXCEPT ![t] = label]
      PROVE  pc'[t] = label /\ \A u \in Threads \ {t} : pc'[u] = pc[u]
  BY <1>1, <1>3 DEF TypeOK
<1>4. CASE Acquire(t) \/ Suspend(t) \/ Finish(t)
  <2>1. /\ UNCHANGED <<remote, forward, child>>
        /\ pc[t] = "acquire" \/ Inside(t)
        /\ \E label \in {"run", "release"} : pc' = [pc EXCEPT ![t] = label]
    BY <1>4 DEF Acquire, Suspend, Finish, Inside
  <2> QED
    BY <1>1, <1>2, <1>3, <2>1, QueuesKept, ThreadsKept DEF Scheduled
<1>5. CASE YieldPost(t)
  <2>1. Spawned(cur[t])
    BY <1>1, <1>5 DEF YieldPost, Inside
  <2>2. Born(forward')
    BY <1>1, <1>5, <2>1, BornLonger DEF YieldPost, TypeOK, Spawned
  <2>3. /\ UNCHANGED <<remote, child>>
        /\ pc' = [pc EXCEPT ![t] = "suspend"]
    BY <1>5 DEF YieldPost
  <2> QED
    BY <1>1, <1>2, <1>3, <2>1, <2>2, <2>3, QueuesKept, ThreadsKept DEF Scheduled
<1>6. ASSUME NEW g \in Groups, SpawnNode(t, g) PROVE Scheduled'
  <2>1. /\ UNCHANGED <<remote, forward>>
        /\ pc' = [pc EXCEPT ![t] = "link"]
        /\ child' = [child EXCEPT ![t] = g]
        /\ state' = [state EXCEPT ![g] = "suspended"]
        /\ Spawned(cur[t])
    BY <1>1, <1>6 DEF SpawnNode, Inside
  <2>2. /\ Born(remote)' /\ Born(forward)' /\ Born(outstanding)'
        /\ \A x \in Workers' : Born(local[x])'
    BY <1>1, <1>2, <2>1, QueuesKept
  <2>3. Threads' = Threads
    BY RigidProgram DEF Next
  <2>4. Spawned(child[t])' /\ Spawned(cur[t])'
    BY <1>1, <1>2, <2>1, StateKept DEF Spawned, TypeOK, States
  <2>5. ASSUME NEW u \in Threads \ {t}
        PROVE  /\ pc'[u] = "acquire" \/ Inside(u)' => Spawned(cur[u])'
               /\ pc'[u] \in {"link", "spawn"} => Spawned(child[u])'
    <3>1. pc'[u] = pc[u] /\ cur'[u] = cur[u] /\ child'[u] = child[u]
      BY <1>1, <1>2, <2>1 DEF TypeOK
    <3>2. \A h : Spawned(h) => h \in Groups /\ state'[h] # "unborn"
      BY StateKept DEF Spawned
    <3> QED
      BY <3>1, <3>2 DEF Scheduled, Inside, Spawned
  <2> QED
    BY <2>2, <2>3, <2>4, <2>5 DEF Scheduled
<1>7. CASE SpawnLink(t)
  <2>1. /\ UNCHANGED <<remote, forward, child>>
        /\ pc' = [pc EXCEPT ![t] = "spawn"] /\ Spawned(child[t]) /\ Spawned(cur[t])
    BY <1>1, <1>7 DEF SpawnLink, Inside
  <2> QED
    BY <1>1, <1>2, <1>3, <2>1, QueuesKept, ThreadsKept DEF Scheduled
<1>8. CASE SpawnPush(t)
  <2>1. Spawned(cur[t]) /\ Spawned(child[t])
    BY <1>1, <1>8 DEF SpawnPush, Inside
  <2>2. Born(remote')
    BY <1>1, <1>8, <2>1, BornLonger DEF SpawnPush, TypeOK, Spawned
  <2>3. UNCHANGED <<forward, child>> /\ pc' = [pc EXCEPT ![t] = "run"]
    BY <1>8 DEF SpawnPush
  <2> QED
    BY <1>1, <1>2, <1>3, <2>1, <2>2, <2>3, QueuesKept, ThreadsKept DEF Scheduled
<1>9. CASE Release(t)
  <2>1. /\ UNCHANGED <<remote, forward, child>>
        /\ \E label \in {"dispatch", "pop"} : pc' = [pc EXCEPT ![t] = label]
    BY <1>9 DEF Release
  <2>2. pc'[t] \in {"dispatch", "pop"} /\ \A u \in Threads \ {t} : pc'[u] = pc[u]
    BY <1>3, <2>1
  <2> QED
    BY <1>1, <1>2, <2>1, <2>2, QueuesKept, ThreadsKept DEF Scheduled, Inside
<1> QED
  BY <1>4, <1>5, <1>6, <1>7, <1>8, <1>9 DEF ResumeStep

LEMMA ProgramScheduled ==
  ASSUME IInv, Next, Launch \/ Ended \/ \E g \in Groups : ProgramSpawn(g)
  PROVE  Scheduled'
<1> USE DEF IInv
<1>1. /\ Born(remote) /\ Born(forward) /\ Born(outstanding)
      /\ \A x \in Workers : Born(local[x])
      /\ TypeOK
  BY DEF Scheduled
<1>2. Threads' = Threads /\ Workers' = Workers
  BY RigidProgram DEF Next
<1>3. CASE Launch
  <2>1. UNCHANGED <<remote, local, forward, outstanding>>
    BY <1>3 DEF Launch
  <2>2. \A u \in Threads : pc'[u] \in {"empty", "pop"}
    BY <1>3 DEF Launch
  <2> QED
    BY <1>1, <1>2, <2>1, <2>2, QueuesKept DEF Scheduled, Inside
<1>4. CASE Ended
  BY <1>2, <1>4 DEF Ended, vars, Scheduled, Born, Spawned, Inside
<1>5. ASSUME NEW g \in Groups, ProgramSpawn(g) PROVE Scheduled'
  <2>1. /\ remote' = Append(remote, g) /\ state' = [state EXCEPT ![g] = "suspended"]
        /\ UNCHANGED <<local, forward, outstanding, pc, cur, child>>
    BY <1>5 DEF ProgramSpawn
  <2>2. Spawned(g)'
    BY <1>1, <2>1 DEF Spawned, TypeOK, States
  <2>3. /\ \A i \in DOMAIN remote : remote[i] \in Groups /\ state'[remote[i]] # "unborn"
        /\ \A i \in DOMAIN forward : forward[i] \in Groups /\ state'[forward[i]] # "unborn"
        /\ \A i \in DOMAIN outstanding :
             outstanding[i] \in Groups /\ state'[outstanding[i]] # "unborn"
        /\ \A x \in Workers : \A i \in DOMAIN local[x] :
             local[x][i] \in Groups /\ state'[local[x][i]] # "unborn"
    BY <1>1, BornKept
  <2>4. Born(remote)'
    BY <1>1, <2>1, <2>2, <2>3 DEF Born, Spawned, TypeOK
  <2>5. Born(forward)' /\ Born(outstanding)' /\ \A x \in Workers' : Born(local[x])'
    BY <1>2, <2>1, <2>3 DEF Born
  <2>6. \A h : Spawned(h) => h \in Groups /\ state'[h] # "unborn"
    BY StateKept DEF Spawned
  <2>7. \A u \in Threads :
          /\ pc'[u] = "acquire" \/ Inside(u)' => Spawned(cur[u])'
          /\ pc'[u] \in {"link", "spawn"} => Spawned(child[u])'
    BY <2>1, <2>6 DEF Scheduled, Inside, Spawned
  <2> QED
    BY <1>2, <2>4, <2>5, <2>7 DEF Scheduled
<1> QED
  BY <1>3, <1>4, <1>5

-----------------------------------------------------------------------------
(* The semaphore *)

\* A step that lets nobody in keeps the semaphores of those inside.
LEMMA GuardedStay ==
  ASSUME IInv, Next,
         \A u \in Threads : Inside(u)' => Inside(u) /\ cur'[u] = cur[u] /\ sem'[cur[u]] = 0
  PROVE  Guarded'
<1>1. Threads' = Threads
  BY RigidProgram DEF Next
<1> QED
  BY <1>1 DEF IInv, Guarded, OneThreadPerGroup

LEMMA AcquireGuarded ==
  ASSUME IInv, Next, NEW t \in Threads, Acquire(t)
  PROVE  Guarded'
<1> USE DEF IInv, TypeOK, Goto
<1>1. Threads' = Threads
  BY RigidProgram DEF Next
<1>2. cur[t] \in Groups /\ sem[cur[t]] = 1
  BY DEF Acquire, Scheduled, Spawned
<1>3. /\ \A u \in Threads \ {t} : pc'[u] = pc[u]
      /\ cur' = cur
      /\ sem' = [sem EXCEPT ![cur[t]] = 0]
  BY DEF Acquire
<1>4. \A u \in Threads : Inside(u) => cur[u] # cur[t]
  BY <1>2 DEF Guarded
<1>5. \A u \in Threads \ {t} : Inside(u)' <=> Inside(u)
  BY <1>3 DEF Inside
<1>6. \A u \in Threads : Inside(u)' => sem'[cur'[u]] = 0
  BY <1>2, <1>3, <1>5 DEF Guarded, Scheduled, Spawned
<1>7. \A u, v \in Threads : Inside(u)' /\ Inside(v)' /\ cur'[u] = cur'[v] => u = v
  BY <1>3, <1>4, <1>5 DEF Guarded, OneThreadPerGroup
<1> QED
  BY <1>1, <1>6, <1>7 DEF Guarded, OneThreadPerGroup

LEMMA GuardedKept ==
  ASSUME IInv, Next
  PROVE  Guarded'
<1> USE ProgramTypes DEF IInv, Goto
<1>1. /\ TypeOK /\ Main \in Threads /\ Workers \subseteq Threads
      /\ \A u \in Threads : Inside(u) => Spawned(cur[u]) /\ sem[cur[u]] = 0
  BY DEF Scheduled, Guarded
<1>2. ASSUME NEW t \in Threads, NEW label,
             ~Inside(t) => label \notin {"run", "suspend", "link", "spawn", "release"},
             pc' = [pc EXCEPT ![t] = label],
             UNCHANGED sem,
             Inside(t) => cur'[t] = cur[t],
             \A u \in Threads \ {t} : cur'[u] = cur[u]
      PROVE  Guarded'
  <2>1. \A u \in Threads : Inside(u)' => Inside(u) /\ cur'[u] = cur[u]
    BY <1>1, <1>2 DEF TypeOK, Inside
  <2> QED
    BY <1>1, <1>2, <2>1, GuardedStay
<1>3. CASE UNCHANGED <<pc, cur, sem>>
  BY <1>1, <1>3, GuardedStay DEF Inside
<1>4. CASE Launch
  <2>1. \A u \in Threads : pc'[u] \in {"empty", "pop"}
    BY <1>4 DEF Launch
  <2> QED
    BY <2>1, GuardedStay DEF Inside
<1>5. ASSUME NEW g \in Groups, NEW k \in {0, 1},
             \A u \in Threads : Inside(u) => cur[u] # g \/ k = 0,
             sem' = [sem EXCEPT ![g] = k], UNCHANGED cur,
             \A u \in Threads : Inside(u)' => Inside(u)
      PROVE  Guarded'
  <2>1. \A u \in Threads : Inside(u)' => sem'[cur[u]] = 0
    BY <1>1, <1>5 DEF TypeOK, Spawned
  <2> QED
    BY <1>5, <2>1, GuardedStay
<1>6. ASSUME NEW g \in Groups, ProgramSpawn(g) PROVE Guarded'
  <2>1. \A u \in Threads : Inside(u)' => Inside(u)
    BY <1>6 DEF ProgramSpawn, Inside
  <2>2. \A u \in Threads : Inside(u) => cur[u] # g
    BY <1>1, <1>6 DEF ProgramSpawn, Spawned
  <2>3. sem' = [sem EXCEPT ![g] = 1] /\ UNCHANGED cur
    BY <1>6 DEF ProgramSpawn
  <2> QED
    BY <1>5, <2>1, <2>2, <2>3
<1>7. CASE MainStep
  <2>1. CASE DispatchLocal \/ CommitPush \/ RemoveSkip
    BY <1>3, <2>1 DEF DispatchLocal, CommitPush, RemoveSkip
  <2>2. CASE RemoveDone
    <3>1. link[cursor] \in Groups
      BY <1>1, <2>2 DEF RemoveDone, TypeOK
    <3> QED
      BY <1>5, <2>2, <3>1 DEF RemoveDone, Inside
  <2>3. CASE DispatchInPlace
    <3>1. ~Inside(Main) /\ \A u \in Threads \ {Main} : cur'[u] = cur[u]
      BY <1>1, <2>3 DEF DispatchInPlace, Inside, TypeOK
    <3> QED
      BY <1>1, <1>2, <2>3, <3>1 DEF DispatchInPlace
  <2>4. CASE CheckEmpty \/ DispatchEnd \/ Commit \/ CommitEnd \/ RemoveEnd \/ RequestStop \/ Join
    <3>1. /\ \E label \in {"stop", "dispatch", "commit", "push", "remove", "empty", "join",
                           "ended"} : pc' = [pc EXCEPT ![Main] = label]
          /\ UNCHANGED <<cur, sem>>
      BY <2>4
      DEF CheckEmpty, DispatchEnd, Commit, CommitEnd, RemoveEnd, RequestStop, Join
    <3> QED
      BY <1>1, <1>2, <3>1
  <2> QED
    BY <1>7, <2>1, <2>2, <2>3, <2>4 DEF MainStep
<1>8. ASSUME NEW w \in Workers, WorkerStep(w) PROVE Guarded'
  <2>1. /\ \A u \in Threads \ {w} : pc'[u] = pc[u] /\ cur'[u] = cur[u]
        /\ UNCHANGED sem
        /\ pc'[w] \in {"off", "steal", "acquire", "pop"}
    BY <1>1, <1>8
    DEF WorkerStep, WorkerStop, TryPopLocal, TrySteal, StealNext, StealNothing, TypeOK
  <2>2. \A u \in Threads : Inside(u)' => Inside(u) /\ cur'[u] = cur[u]
    BY <2>1 DEF Inside
  <2> QED
    BY <1>1, <2>1, <2>2, GuardedStay
<1>9. ASSUME NEW t \in Threads, ResumeStep(t) PROVE Guarded'
  <2>1. CASE YieldPost(t) \/ Suspend(t) \/ SpawnLink(t) \/ SpawnPush(t) \/ Finish(t)
    <3>1. /\ \E label \in {"suspend", "release", "spawn", "run"} : pc' = [pc EXCEPT ![t] = label]
          /\ UNCHANGED <<cur, sem>> /\ Inside(t)
      BY <2>1 DEF YieldPost, Suspend, SpawnLink, SpawnPush, Finish, Inside
    <3> QED
      BY <1>2, <3>1
  <2>2. ASSUME NEW g \in Groups, SpawnNode(t, g) PROVE Guarded'
    <3>1. \A u \in Threads : Inside(u)' => Inside(u)
      BY <1>1, <2>2 DEF SpawnNode, Inside, TypeOK
    <3>2. \A u \in Threads : Inside(u) => cur[u] # g
      BY <1>1, <2>2 DEF SpawnNode, Spawned
    <3> QED
      BY <1>5, <2>2, <3>1, <3>2 DEF SpawnNode
  <2>3. CASE Release(t)
    <3>1. Inside(t) /\ cur[t] \in Groups /\ sem' = [sem EXCEPT ![cur[t]] = 1] /\ cur' = cur
      BY <1>1, <2>3 DEF Release, Inside, Spawned
    <3>2. pc'[t] \in {"dispatch", "pop"} /\ \A u \in Threads \ {t} : pc'[u] = pc[u]
      BY <1>1, <2>3 DEF Release, TypeOK
    <3>3. \A u \in Threads : Inside(u)' => Inside(u) /\ u # t
      BY <3>2 DEF Inside
    <3>4. \A u \in Threads \ {t} : Inside(u) => cur[u] # cur[t]
      BY <3>1 DEF Guarded, OneThreadPerGroup
    <3>5. \A u \in Threads : Inside(u)' => sem'[cur[u]] = 0
      BY <1>1, <3>1, <3>3, <3>4 DEF TypeOK, Spawned
    <3> QED
      BY <3>1, <3>3, <3>5, GuardedStay
  <2> QED
    BY <1>9, <2>1, <2>2, <2>3, AcquireGuarded DEF ResumeStep
<1> QED
  BY <1>3, <1>4, <1>6, <1>7, <1>8, <1>9 DEF Next, Ended, vars

-----------------------------------------------------------------------------
LEMMA Invariance == Spec => []IInv
<1>1. Init => IInv
  BY InitTypes, InitScheduled DEF IInv
<1>2. IInv /\ [Next]_vars => IInv'
  <2>1. ASSUME IInv, Next PROVE IInv'
    <3>1. program \in Programs /\ TypeOK /\ Scheduled /\ UNCHANGED program
      BY <2>1 DEF IInv, Next
    <3>2. TypeOK'
      BY <2>1, <3>1, MainTypes, WorkerTypes, ResumeTypes DEF Next
    <3>3. Scheduled'
      BY <2>1, MainScheduled, WorkerScheduled, ResumeScheduled, ProgramScheduled DEF Next
    <3>4. Guarded'
      BY <2>1, GuardedKept
    <3> QED
      BY <3>1, <3>2, <3>3, <3>4 DEF IInv
  <2>2. ASSUME IInv, UNCHANGED vars PROVE IInv'
    <3>1. UNCHANGED <<program, remote, local, rotation, forward, outstanding, link, cursor, sem>>
          /\ UNCHANGED <<state, yields, pc, cur, child, stop, victim>>
      BY <2>2 DEF vars
    <3>2. /\ Concurrency' = Concurrency /\ MaxYield' = MaxYield
          /\ Workers' = Workers /\ Threads' = Threads
      BY <3>1, RigidProgram
    <3>3. TypeOK'
      BY <2>2, <3>1, <3>2 DEF IInv, TypeOK
    <3>4. Scheduled' /\ Guarded'
      BY <2>2, <3>1, <3>2
      DEF IInv, Scheduled, Guarded, OneThreadPerGroup, Born, Spawned, Inside
    <3> QED
      BY <2>2, <3>1, <3>3, <3>4 DEF IInv
  <2> QED
    BY <2>1, <2>2
<1> QED
  BY <1>1, <1>2, PTL DEF Spec

\* Every variable keeps its type; in particular the cursor of remove_frame and the
\* victim of a steal stay within their lists (frame_lifetime.hpp:75-82,
\* frame_executor.hpp:177-181).
THEOREM TypesKept == Spec => []TypeOK
<1>1. IInv => TypeOK
  BY DEF IInv
<1> QED
  BY <1>1, Invariance, PTL

\* No thread resumes a group that another one is still inside, however often its
\* frame is scheduled while it runs: the semaphore of resume_to keeps the others out
\* (frame_executor.hpp:125-137), for any number of workers and groups.
THEOREM GroupExclusion == Spec => []OneThreadPerGroup
<1>1. IInv => OneThreadPerGroup
  BY DEF IInv, Guarded
<1> QED
  BY <1>1, Invariance, PTL

-----------------------------------------------------------------------------
(* Handles *)

\* The handle a thread has taken and not yet resumed, or not yet pushed.
Carried(t) ==
  IF pc[t] = "acquire" THEN {cur[t]}
  ELSE IF pc[t] \in {"link", "spawn"} THEN {child[t]} ELSE {}

\* g has a handle in a queue, in the yield service or with a thread.
Somewhere(g) ==
  \/ g \in ToSet(remote) \cup ToSet(forward) \cup ToSet(outstanding)
  \/ \E w \in Workers : g \in ToSet(local[w])
  \/ \E t \in Threads : g \in Carried(t)

\* No list holds a handle twice ...
Injective ==
  /\ IsInjective(remote) /\ IsInjective(forward) /\ IsInjective(outstanding)
  /\ \A w \in Workers : IsInjective(local[w])

\* ... and no two places hold the same one.
Apart ==
  /\ ToSet(remote) \cap ToSet(forward) = {}
  /\ ToSet(remote) \cap ToSet(outstanding) = {}
  /\ ToSet(forward) \cap ToSet(outstanding) = {}
  /\ \A w \in Workers :
       /\ ToSet(local[w]) \cap (ToSet(remote) \cup ToSet(forward) \cup ToSet(outstanding)) = {}
       /\ \A v \in Workers \ {w} : ToSet(local[w]) \cap ToSet(local[v]) = {}
  /\ \A t \in Threads :
       /\ Carried(t) \cap (ToSet(remote) \cup ToSet(forward) \cup ToSet(outstanding)) = {}
       /\ \A w \in Workers : Carried(t) \cap ToSet(local[w]) = {}
       /\ \A u \in Threads \ {t} : Carried(t) \cap Carried(u) = {}

\* Only a group that is suspended, or about to be, has a handle; and the semaphore is
\* free only between two resumptions.
GroupState ==
  \A g \in Groups :
    /\ state[g] \in {"unborn", "done", "destroyed"} => ~Somewhere(g)
    /\ sem[g] = 1 => state[g] \in {"suspended", "done"}

\* The group a thread is inside, by where the thread is.
ThreadState ==
  \A t \in Threads :
    /\ pc[t] \in {"run", "link", "spawn"} => state[cur[t]] = "running" /\ ~Somewhere(cur[t])
    /\ pc[t] = "suspend" => state[cur[t]] = "running"
    /\ pc[t] = "release" => state[cur[t]] \in {"suspended", "done"}

Committed == pc[Main] # "push" => outstanding = <<>>

Handled == Injective /\ Apart /\ GroupState /\ ThreadState /\ Committed

-----------------------------------------------------------------------------
(* Moving a handle *)

\* Every place holds what it held, but for the handle g.
Shrunk(g) ==
  /\ ToSet(remote') \subseteq ToSet(remote) \cup {g}
  /\ ToSet(forward') \subseteq ToSet(forward) \cup {g}
  /\ ToSet(outstanding') \subseteq ToSet(outstanding) \cup {g}
  /\ \A w \in Workers : ToSet(local'[w]) \subseteq ToSet(local[w]) \cup {g}
  /\ \A t \in Threads : Carried(t)' \subseteq Carried(t) \cup {g}

\* g is in one place at most after the step.
OnePlaceNext(g) ==
  \/ /\ g \notin ToSet(forward') \cup ToSet(outstanding')
     /\ \A w \in Workers : g \notin ToSet(local'[w])
     /\ \A t \in Threads : g \notin Carried(t)'
  \/ /\ g \notin ToSet(remote') \cup ToSet(outstanding')
     /\ \A w \in Workers : g \notin ToSet(local'[w])
     /\ \A t \in Threads : g \notin Carried(t)'
  \/ \E v \in Workers :
     /\ g \notin ToSet(remote') \cup ToSet(forward') \cup ToSet(outstanding')
     /\ \A w \in Workers \ {v} : g \notin ToSet(local'[w])
     /\ \A t \in Threads : g \notin Carried(t)'
  \/ \E u \in Threads :
     /\ g \notin ToSet(remote') \cup ToSet(forward') \cup ToSet(outstanding')
     /\ \A w \in Workers : g \notin ToSet(local'[w])
     /\ \A t \in Threads \ {u} : g \notin Carried(t)'

LEMMA Moved ==
  ASSUME Apart, UNCHANGED program, NEW g, Shrunk(g), OnePlaceNext(g)
  PROVE  /\ Apart'
         /\ \A h : h # g /\ Somewhere(h)' => Somewhere(h)
<1>1. Workers' = Workers /\ Threads' = Threads
  BY RigidProgram
<1>2. \A h : h # g /\ Somewhere(h)' => Somewhere(h)
  BY <1>1 DEF Shrunk, Somewhere
<1>3. /\ ToSet(remote') \cap ToSet(forward') = {}
      /\ ToSet(remote') \cap ToSet(outstanding') = {}
      /\ ToSet(forward') \cap ToSet(outstanding') = {}
  BY DEF Apart, Shrunk, OnePlaceNext
<1>4. ASSUME NEW w \in Workers
      PROVE  /\ ToSet(local'[w]) \cap
                  (ToSet(remote') \cup ToSet(forward') \cup ToSet(outstanding')) = {}
             /\ \A v \in Workers \ {w} : ToSet(local'[w]) \cap ToSet(local'[v]) = {}
  BY DEF Apart, Shrunk, OnePlaceNext
<1>5. ASSUME NEW t \in Threads
      PROVE  /\ Carried(t)' \cap
                  (ToSet(remote') \cup ToSet(forward') \cup ToSet(outstanding')) = {}
             /\ \A w \in Workers : Carried(t)' \cap ToSet(local'[w]) = {}
             /\ \A u \in Threads \ {t} : Carried(t)' \cap Carried(u)' = {}
  BY DEF Apart, Shrunk, OnePlaceNext
<1> QED
  BY <1>1, <1>2, <1>3, <1>4, <1>5 DEF Apart

-----------------------------------------------------------------------------
(* Steps that leave the groups as they are *)

LEMMA StatesStay ==
  ASSUME Handled, UNCHANGED <<program, state, sem>>,
         \A h : Somewhere(h)' => Somewhere(h),
         \A t \in Threads :
           /\ Inside(t)' => cur'[t] = cur[t]
           /\ pc'[t] \in {"run", "link", "spawn"} => pc[t] \in {"run", "link", "spawn"}
           /\ pc'[t] \in {"suspend", "release"} => pc'[t] = pc[t]
  PROVE  GroupState' /\ ThreadState'
<1>1. Threads' = Threads
  BY RigidProgram
<1>2. GroupState'
  BY DEF Handled, GroupState
<1>3. ThreadState'
  BY <1>1 DEF Handled, ThreadState, Inside
<1> QED
  BY <1>2, <1>3

\* No handle moves.
LEMMA NothingMoved ==
  ASSUME Handled,
         UNCHANGED <<program, state, sem, remote, forward, outstanding, local>>,
         \A t \in Threads :
           /\ Carried(t)' \subseteq Carried(t)
           /\ Inside(t)' => cur'[t] = cur[t]
           /\ pc'[t] \in {"run", "link", "spawn"} => pc[t] \in {"run", "link", "spawn"}
           /\ pc'[t] \in {"suspend", "release"} => pc'[t] = pc[t],
         pc'[Main] # "push" => pc[Main] # "push" \/ outstanding = <<>>
  PROVE  Handled'
<1>1. Workers' = Workers /\ Threads' = Threads
  BY RigidProgram
<1>2. Injective' /\ Apart' /\ Committed'
  BY <1>1 DEF Handled, Injective, Apart, Committed
<1>3. \A h : Somewhere(h)' => Somewhere(h)
  BY <1>1 DEF Somewhere
<1> QED
  BY <1>2, <1>3, StatesStay DEF Handled

\* The handle g moves from one place to another.
LEMMA HandleMoved ==
  ASSUME Handled, UNCHANGED <<program, state, sem>>,
         NEW g, Somewhere(g), Shrunk(g), OnePlaceNext(g), Injective',
         \A t \in Threads :
           /\ Inside(t)' => cur'[t] = cur[t]
           /\ pc'[t] \in {"run", "link", "spawn"} => pc[t] \in {"run", "link", "spawn"}
           /\ pc'[t] \in {"suspend", "release"} => pc'[t] = pc[t],
         Committed'
  PROVE  Handled'
<1>1. Apart' /\ \A h : Somewhere(h)' => Somewhere(h)
  BY Moved DEF Handled
<1> QED
  BY <1>1, StatesStay DEF Handled

\* A thread that moves on between labels with which it carries nothing.
LEMMA MovesOn ==
  ASSUME program \in Programs, TypeOK, NEW t \in Threads, UNCHANGED <<cur, child>>,
         NEW label \in {"stop", "dispatch", "commit", "push", "remove", "empty", "join", "ended",
                        "off", "steal", "pop"},
         pc' = [pc EXCEPT ![t] = label]
  PROVE  \A u \in Threads :
           /\ Carried(u)' \subseteq Carried(u)
           /\ Inside(u)' => cur'[u] = cur[u]
           /\ pc'[u] \in {"run", "link", "spawn"} => pc[u] \in {"run", "link", "spawn"}
           /\ pc'[u] \in {"suspend", "release"} => pc'[u] = pc[u]
<1>1. pc'[t] = label /\ \A u \in Threads \ {t} : pc'[u] = pc[u]
  BY DEF TypeOK
<1> QED
  BY <1>1 DEF Carried

LEMMA MainQuiet ==
  ASSUME IInv, Handled, UNCHANGED program,
         \/ CheckEmpty \/ DispatchEnd \/ CommitEnd \/ RemoveSkip \/ RemoveEnd
         \/ RequestStop \/ Join \/ Launch \/ Ended
  PROVE  Handled'
<1>1. program \in Programs /\ TypeOK /\ Main \in Threads
  BY ProgramTypes DEF IInv
<1>2. CASE RemoveSkip \/ Ended
  <2>1. /\ UNCHANGED <<program, state, sem, remote, forward, outstanding, local>>
        /\ UNCHANGED <<pc, cur, child>>
    BY <1>2 DEF RemoveSkip, Ended, vars
  <2>2. \A t \in Threads : Carried(t)' = Carried(t)
    BY <2>1 DEF Carried
  <2> QED
    BY <2>1, <2>2, NothingMoved
<1>3. CASE Launch
  <2>1. /\ UNCHANGED <<program, state, sem, remote, forward, outstanding, local, cur, child>>
        /\ pc[Main] = "program"
        /\ \A t \in Threads : pc'[t] \in {"empty", "pop"}
    BY <1>3 DEF Launch
  <2>2. \A t \in Threads : Carried(t)' = {}
    BY <2>1 DEF Carried
  <2> QED
    BY <2>1, <2>2, NothingMoved
<1>4. CASE CheckEmpty \/ DispatchEnd \/ CommitEnd \/ RemoveEnd \/ RequestStop \/ Join
  <2>1. /\ UNCHANGED <<program, state, sem, remote, forward, outstanding, local, cur, child>>
        /\ \E label \in {"stop", "dispatch", "commit", "push", "remove", "empty", "join",
                         "ended"} : pc' = [pc EXCEPT ![Main] = label]
        /\ pc[Main] # "push" \/ outstanding = <<>>
    BY <1>4 DEF CheckEmpty, DispatchEnd, CommitEnd, RemoveEnd, RequestStop, Join, Goto
  <2> QED
    BY <1>1, <2>1, MovesOn, NothingMoved
<1> QED
  BY <1>2, <1>3, <1>4

LEMMA WorkerQuiet ==
  ASSUME IInv, Handled, UNCHANGED program, NEW w \in Workers,
         \/ WorkerStop(w) \/ StealNext(w) \/ StealNothing(w)
         \/ TryPopLocal(w) /\ local[w] = <<>>
  PROVE  Handled'
<1>1. program \in Programs /\ TypeOK /\ w \in Threads /\ w # Main
  BY ProgramTypes DEF IInv
<1>2. CASE StealNext(w)
  <2>1. /\ UNCHANGED <<program, state, sem, remote, forward, outstanding, local>>
        /\ UNCHANGED <<pc, cur, child>>
    BY <1>2 DEF StealNext
  <2>2. \A t \in Threads : Carried(t)' = Carried(t)
    BY <2>1 DEF Carried
  <2> QED
    BY <2>1, <2>2, NothingMoved
<1>3. CASE WorkerStop(w) \/ StealNothing(w) \/ (TryPopLocal(w) /\ local[w] = <<>>)
  <2>1. /\ UNCHANGED <<program, state, sem, remote, forward, outstanding, local, cur, child>>
        /\ \E label \in {"off", "steal", "pop"} : pc' = [pc EXCEPT ![w] = label]
    BY <1>3 DEF WorkerStop, StealNothing, TryPopLocal, Goto
  <2>2. pc'[Main] = pc[Main]
    BY <1>1, <2>1, ProgramTypes DEF TypeOK
  <2> QED
    BY <1>1, <2>1, <2>2, MovesOn, NothingMoved
<1> QED
  BY <1>2, <1>3

-----------------------------------------------------------------------------
(* Steps that move a handle *)

\* Where else a handle is not.
LEMMA InOnePlace ==
  ASSUME Handled, NEW g
  PROVE  /\ g \in ToSet(remote) =>
              /\ g \notin ToSet(forward) \cup ToSet(outstanding)
              /\ \A w \in Workers : g \notin ToSet(local[w])
              /\ \A t \in Threads : g \notin Carried(t)
         /\ g \in ToSet(outstanding) =>
              /\ g \notin ToSet(remote) \cup ToSet(forward)
              /\ \A w \in Workers : g \notin ToSet(local[w])
              /\ \A t \in Threads : g \notin Carried(t)
         /\ \A v \in Workers : g \in ToSet(local[v]) =>
              /\ g \notin ToSet(remote) \cup ToSet(forward) \cup ToSet(outstanding)
              /\ \A w \in Workers \ {v} : g \notin ToSet(local[w])
              /\ \A t \in Threads : g \notin Carried(t)
         /\ \A u \in Threads : g \in Carried(u) =>
              /\ g \notin ToSet(remote) \cup ToSet(forward) \cup ToSet(outstanding)
              /\ \A w \in Workers : g \notin ToSet(local[w])
              /\ \A t \in Threads \ {u} : g \notin Carried(t)
BY DEF Handled, Apart

LEMMA DispatchMoves ==
  ASSUME IInv, Handled, UNCHANGED program, DispatchLocal
  PROVE  Handled'
<1> DEFINE g == Head(remote)
<1>1. Workers' = Workers /\ Threads' = Threads
  BY RigidProgram
<1>2. /\ g \in ToSet(remote) /\ g \in Groups
      /\ ToSet(Tail(remote)) = ToSet(remote) \ {g} /\ IsInjective(Tail(remote))
  <2>1. remote \in Seq(Groups) /\ remote # <<>> /\ IsInjective(remote)
    BY DEF DispatchLocal, IInv, TypeOK, Handled, Injective
  <2> QED
    BY <2>1, ListTail
<1>3. rotation \in Workers
  BY ProgramTypes DEF DispatchLocal, IInv, TypeOK, Workers
<1>4. g \notin ToSet(local[rotation])
  BY <1>2, <1>3, InOnePlace
<1>5. /\ ToSet(Append(local[rotation], g)) = {g} \cup ToSet(local[rotation])
      /\ IsInjective(Append(local[rotation], g))
  <2>1. local[rotation] \in Seq(Groups) /\ IsInjective(local[rotation])
    BY <1>3 DEF IInv, TypeOK, Handled, Injective
  <2> QED
    BY <1>2, <1>4, <2>1, ListAppend
<1>6. /\ remote' = Tail(remote)
      /\ local'[rotation] = Append(local[rotation], g)
      /\ \A w \in Workers \ {rotation} : local'[w] = local[w]
      /\ UNCHANGED <<forward, outstanding, state, sem, pc, cur, child>>
  BY <1>3 DEF DispatchLocal, IInv, TypeOK
<1>7. \A t \in Threads : Carried(t)' = Carried(t)
  BY <1>6 DEF Carried
<1> HIDE DEF g
<1>8. Shrunk(g) /\ Somewhere(g)
  BY <1>2, <1>5, <1>6, <1>7 DEF Shrunk, Somewhere
<1>9. OnePlaceNext(g)
  BY <1>2, <1>3, <1>6, <1>7, InOnePlace DEF OnePlaceNext
<1>10. Injective' /\ Committed'
  BY <1>1, <1>2, <1>5, <1>6 DEF Handled, Injective, Committed
<1> QED
  BY <1>6, <1>8, <1>9, <1>10, HandleMoved

LEMMA DispatchInPlaceMoves ==
  ASSUME IInv, Handled, UNCHANGED program, DispatchInPlace
  PROVE  Handled'
<1> DEFINE g == Head(remote)
<1>1. Workers' = Workers /\ Threads' = Threads /\ Main \in Threads
  BY RigidProgram, ProgramTypes DEF IInv
<1>2. /\ g \in ToSet(remote) /\ g \in Groups
      /\ ToSet(Tail(remote)) = ToSet(remote) \ {g} /\ IsInjective(Tail(remote))
  <2>1. remote \in Seq(Groups) /\ remote # <<>> /\ IsInjective(remote)
    BY DEF DispatchInPlace, IInv, TypeOK, Handled, Injective
  <2> QED
    BY <2>1, ListTail
<1>3. /\ remote' = Tail(remote)
      /\ pc'[Main] = "acquire" /\ cur'[Main] = g
      /\ \A t \in Threads \ {Main} : pc'[t] = pc[t] /\ cur'[t] = cur[t]
      /\ pc[Main] = "dispatch"
      /\ UNCHANGED <<forward, outstanding, local, state, sem, child>>
  BY <1>1 DEF DispatchInPlace, Goto, IInv, TypeOK
<1> HIDE DEF g
<1>4. Carried(Main)' = {g} /\ \A t \in Threads \ {Main} : Carried(t)' = Carried(t)
  BY <1>3 DEF Carried
<1>5. Shrunk(g) /\ Somewhere(g)
  BY <1>1, <1>2, <1>3, <1>4 DEF Shrunk, Somewhere
<1>6. OnePlaceNext(g)
  BY <1>1, <1>2, <1>3, <1>4, InOnePlace DEF OnePlaceNext
<1>7. Injective' /\ Committed'
  BY <1>1, <1>2, <1>3 DEF Handled, Injective, Committed
<1>8. \A t \in Threads :
        /\ Inside(t)' => cur'[t] = cur[t]
        /\ pc'[t] \in {"run", "link", "spawn"} => pc[t] \in {"run", "link", "spawn"}
        /\ pc'[t] \in {"suspend", "release"} => pc'[t] = pc[t]
  BY <1>3 DEF Inside
<1> QED
  BY <1>3, <1>5, <1>6, <1>7, <1>8, HandleMoved

\* The whole list changes its owner.
LEMMA CommitMoves ==
  ASSUME IInv, Handled, UNCHANGED program, Commit
  PROVE  Handled'
<1>1. Workers' = Workers /\ Threads' = Threads /\ Main \in Threads
  BY RigidProgram, ProgramTypes DEF IInv
<1>2. outstanding = <<>> /\ ToSet(outstanding) = {}
  BY ListEmpty DEF Commit, Handled, Committed
<1>3. /\ outstanding' = forward /\ forward' = <<>>
      /\ pc'[Main] = "push" /\ \A t \in Threads \ {Main} : pc'[t] = pc[t]
      /\ pc[Main] = "commit"
      /\ UNCHANGED <<remote, local, state, sem, cur, child>>
  BY <1>1 DEF Commit, Goto, IInv, TypeOK
<1>4. \A t \in Threads : Carried(t)' = Carried(t)
  BY <1>3 DEF Carried
<1>5. ToSet(outstanding') = ToSet(forward) /\ ToSet(forward') = {} /\ IsInjective(forward')
  BY <1>3, ListEmpty
<1>6. Apart'
  BY <1>1, <1>2, <1>3, <1>4, <1>5 DEF Handled, Apart
<1>7. Injective' /\ Committed'
  BY <1>1, <1>3, <1>5 DEF Handled, Injective, Committed
<1>8. \A h : Somewhere(h)' => Somewhere(h)
  BY <1>1, <1>3, <1>4, <1>5 DEF Somewhere
<1>9. \A t \in Threads :
        /\ Inside(t)' => cur'[t] = cur[t]
        /\ pc'[t] \in {"run", "link", "spawn"} => pc[t] \in {"run", "link", "spawn"}
        /\ pc'[t] \in {"suspend", "release"} => pc'[t] = pc[t]
  BY <1>3 DEF Inside
<1> QED
  BY <1>3, <1>6, <1>7, <1>8, <1>9, StatesStay DEF Handled

LEMMA CommitPushMoves ==
  ASSUME IInv, Handled, UNCHANGED program, CommitPush
  PROVE  Handled'
<1> DEFINE g == Head(outstanding)
<1>1. Workers' = Workers /\ Threads' = Threads
  BY RigidProgram
<1>2. /\ g \in ToSet(outstanding) /\ g \in Groups
      /\ ToSet(Tail(outstanding)) = ToSet(outstanding) \ {g} /\ IsInjective(Tail(outstanding))
  <2>1. outstanding \in Seq(Groups) /\ outstanding # <<>> /\ IsInjective(outstanding)
    BY DEF CommitPush, IInv, TypeOK, Handled, Injective
  <2> QED
    BY <2>1, ListTail
<1>3. /\ ToSet(Append(remote, g)) = {g} \cup ToSet(remote)
      /\ IsInjective(Append(remote, g))
  <2>1. remote \in Seq(Groups) /\ IsInjective(remote) /\ g \notin ToSet(remote)
    BY <1>2, InOnePlace DEF IInv, TypeOK, Handled, Injective
  <2> QED
    BY <1>2, <2>1, ListAppend
<1>4. /\ remote' = Append(remote, g) /\ outstanding' = Tail(outstanding)
      /\ pc[Main] = "push"
      /\ UNCHANGED <<forward, local, state, sem, pc, cur, child>>
  BY DEF CommitPush
<1>5. \A t \in Threads : Carried(t)' = Carried(t)
  BY <1>4 DEF Carried
<1> HIDE DEF g
<1>6. Shrunk(g) /\ Somewhere(g)
  BY <1>2, <1>3, <1>4, <1>5 DEF Shrunk, Somewhere
<1>7. OnePlaceNext(g)
  BY <1>2, <1>4, <1>5, InOnePlace DEF OnePlaceNext
<1>8. Injective' /\ Committed'
  BY <1>1, <1>2, <1>3, <1>4 DEF Handled, Injective, Committed
<1> QED
  BY <1>4, <1>6, <1>7, <1>8, HandleMoved

\* A worker takes a frame from its own deque or from another one.
LEMMA TakeMoves ==
  ASSUME IInv, Handled, UNCHANGED program, NEW w \in Workers, NEW v \in Workers,
         local[v] # <<>>, pc[w] \in {"pop", "steal"},
         UNCHANGED <<remote, forward, outstanding, state, sem, child>>,
         pc' = [pc EXCEPT ![w] = "acquire"],
         NEW g \in ToSet(local[v]),
         cur' = [cur EXCEPT ![w] = g],
         NEW rest, local' = [local EXCEPT ![v] = rest],
         ToSet(rest) = ToSet(local[v]) \ {g}, IsInjective(rest)
  PROVE  Handled'
<1>1. Workers' = Workers /\ Threads' = Threads /\ w \in Threads /\ w # Main
  BY RigidProgram, ProgramTypes DEF IInv
<1>2. /\ pc'[w] = "acquire" /\ cur'[w] = g
      /\ \A t \in Threads \ {w} : pc'[t] = pc[t] /\ cur'[t] = cur[t]
      /\ local'[v] = rest /\ \A x \in Workers \ {v} : local'[x] = local[x]
  BY <1>1 DEF IInv, TypeOK
<1>3. Carried(w)' = {g} /\ \A t \in Threads \ {w} : Carried(t)' = Carried(t)
  BY <1>2 DEF Carried
<1>4. Shrunk(g) /\ Somewhere(g)
  BY <1>1, <1>2, <1>3 DEF Shrunk, Somewhere
<1>5. OnePlaceNext(g)
  BY <1>1, <1>2, <1>3, InOnePlace DEF OnePlaceNext
<1>6. Injective'
  BY <1>1, <1>2 DEF Handled, Injective
<1>7. Committed'
  <2>1. Main \in Threads
    BY ProgramTypes DEF IInv
  <2> QED
    BY <1>1, <1>2, <2>1 DEF Handled, Committed
<1>8. \A t \in Threads :
        /\ Inside(t)' => cur'[t] = cur[t]
        /\ pc'[t] \in {"run", "link", "spawn"} => pc[t] \in {"run", "link", "spawn"}
        /\ pc'[t] \in {"suspend", "release"} => pc'[t] = pc[t]
  BY <1>2 DEF Inside
<1> QED
  BY <1>4, <1>5, <1>6, <1>7, <1>8, HandleMoved

LEMMA WorkerMoves ==
  ASSUME IInv, Handled, UNCHANGED program, NEW w \in Workers, WorkerStep(w)
  PROVE  Handled'
<1>1. CASE TryPopLocal(w) /\ local[w] # <<>>
  <2>1. /\ Last(local[w]) \in ToSet(local[w])
        /\ ToSet(Front(local[w])) = ToSet(local[w]) \ {Last(local[w])}
        /\ IsInjective(Front(local[w]))
    BY <1>1, ListFront DEF IInv, TypeOK, Handled, Injective
  <2> QED
    BY <1>1, <2>1, TakeMoves DEF TryPopLocal, Goto
<1>2. CASE TrySteal(w)
  <2>1. victim[w] \in Workers /\ local[victim[w]] # <<>>
    BY <1>2 DEF TrySteal
  <2>2. /\ Head(local[victim[w]]) \in ToSet(local[victim[w]])
        /\ ToSet(Tail(local[victim[w]])) =
             ToSet(local[victim[w]]) \ {Head(local[victim[w]])}
        /\ IsInjective(Tail(local[victim[w]]))
    BY <2>1, ListTail DEF IInv, TypeOK, Handled, Injective
  <2> QED
    BY <1>2, <2>1, <2>2, TakeMoves DEF TrySteal, Goto
<1> QED
  BY <1>1, <1>2, WorkerQuiet DEF WorkerStep

-----------------------------------------------------------------------------
(* Steps that change a group *)

LEMMA InitHandled == Init => Handled
<1> SUFFICES ASSUME Init PROVE Handled
  OBVIOUS
<1>1. /\ remote = <<>> /\ forward = <<>> /\ outstanding = <<>>
      /\ \A w \in Workers : local[w] = <<>>
      /\ \A t \in Threads : pc[t] \in {"program", "off"}
      /\ \A g \in Groups : sem[g] = 0
  BY DEF Init
<1>2. /\ ToSet(remote) = {} /\ ToSet(forward) = {} /\ ToSet(outstanding) = {}
      /\ \A w \in Workers : ToSet(local[w]) = {}
  BY <1>1, ListEmpty
<1>3. \A t \in Threads : Carried(t) = {}
  BY <1>1 DEF Carried
<1>4. Injective
  BY <1>1, ListEmpty DEF Injective
<1>5. Apart
  BY <1>2, <1>3 DEF Apart
<1>6. GroupState
  BY <1>1, <1>2, <1>3 DEF GroupState, Somewhere
<1>7. ThreadState /\ Committed
  BY <1>1 DEF ThreadState, Committed
<1> QED
  BY <1>4, <1>5, <1>6, <1>7 DEF Handled

\* Only the group g changes; the others, and the threads inside them, stay.
LEMMA StatesMove ==
  ASSUME Handled, UNCHANGED program, NEW g \in Groups,
         \A h \in Groups \ {g} :
           state'[h] = state[h] /\ sem'[h] = sem[h] /\ (Somewhere(h)' => Somewhere(h)),
         state'[g] \in {"unborn", "done", "destroyed"} => ~Somewhere(g)',
         sem'[g] = 1 => state'[g] \in {"suspended", "done"},
         \A t \in Threads : Inside(t)' /\ cur'[t] # g =>
           /\ cur'[t] = cur[t] /\ cur[t] \in Groups
           /\ pc'[t] \in {"run", "link", "spawn"} => pc[t] \in {"run", "link", "spawn"}
           /\ pc'[t] \in {"suspend", "release"} => pc'[t] = pc[t],
         \A t \in Threads : Inside(t)' /\ cur'[t] = g =>
           /\ pc'[t] \in {"run", "link", "spawn"} => state'[g] = "running" /\ ~Somewhere(g)'
           /\ pc'[t] = "suspend" => state'[g] = "running"
           /\ pc'[t] = "release" => state'[g] \in {"suspended", "done"}
  PROVE  GroupState' /\ ThreadState'
<1>1. Threads' = Threads
  BY RigidProgram
<1>2. GroupState'
  BY DEF Handled, GroupState
<1>3. ASSUME NEW t \in Threads
      PROVE  /\ pc'[t] \in {"run", "link", "spawn"} =>
                  state'[cur'[t]] = "running" /\ ~Somewhere(cur[t])'
             /\ pc'[t] = "suspend" => state'[cur'[t]] = "running"
             /\ pc'[t] = "release" => state'[cur'[t]] \in {"suspended", "done"}
  <2>1. CASE ~Inside(t)'
    BY <2>1 DEF Inside
  <2>2. CASE Inside(t)' /\ cur'[t] = g
    BY <2>2
  <2>3. CASE Inside(t)' /\ cur'[t] # g
    BY <2>3 DEF Handled, ThreadState
  <2> QED
    BY <2>1, <2>2, <2>3
<1> QED
  BY <1>1, <1>2, <1>3 DEF ThreadState

LEMMA ProgramSpawnHandled ==
  ASSUME IInv, Handled, UNCHANGED program, NEW g \in Groups, ProgramSpawn(g)
  PROVE  Handled'
<1>1. Workers' = Workers /\ Threads' = Threads
  BY RigidProgram
<1>2. /\ state[g] = "unborn"
      /\ state' = [state EXCEPT ![g] = "suspended"]
      /\ sem' = [sem EXCEPT ![g] = 1]
      /\ remote' = Append(remote, g)
      /\ UNCHANGED <<local, forward, outstanding, pc, cur, child>>
  BY DEF ProgramSpawn
<1>3. ~Somewhere(g)
  BY <1>2 DEF Handled, GroupState
<1>4. ToSet(remote') = {g} \cup ToSet(remote) /\ IsInjective(remote')
  <2>1. remote \in Seq(Groups) /\ IsInjective(remote) /\ g \notin ToSet(remote)
    BY <1>3 DEF IInv, TypeOK, Handled, Injective, Somewhere
  <2> QED
    BY <1>2, <2>1, ListAppend
<1>5. \A t \in Threads : Carried(t)' = Carried(t)
  BY <1>2 DEF Carried
<1>6. Shrunk(g) /\ OnePlaceNext(g)
  BY <1>2, <1>3, <1>4, <1>5 DEF Shrunk, OnePlaceNext, Somewhere
<1>7. Apart' /\ \A h : h # g /\ Somewhere(h)' => Somewhere(h)
  BY <1>6, Moved DEF Handled
<1>8. Injective' /\ Committed'
  BY <1>1, <1>2, <1>4 DEF Handled, Injective, Committed
<1>9. \A t \in Threads :
        Inside(t)' => pc'[t] = pc[t] /\ cur'[t] = cur[t] /\ cur[t] \in Groups /\ cur'[t] # g
  BY <1>2 DEF IInv, Scheduled, Spawned, Inside
<1>10. /\ state'[g] = "suspended"
       /\ \A h \in Groups \ {g} : state'[h] = state[h] /\ sem'[h] = sem[h]
  BY <1>2 DEF IInv, TypeOK
<1>11. GroupState' /\ ThreadState'
  BY <1>7, <1>9, <1>10, StatesMove
<1> QED
  BY <1>7, <1>8, <1>11 DEF Handled

\* Lists and handles stay where they are.
LEMMA Unmoved ==
  ASSUME Handled, UNCHANGED <<program, remote, forward, outstanding, local>>,
         \A t \in Threads : Carried(t)' \subseteq Carried(t)
  PROVE  Injective' /\ Apart' /\ \A h : Somewhere(h)' => Somewhere(h)
<1>1. Workers' = Workers /\ Threads' = Threads
  BY RigidProgram
<1> QED
  BY <1>1 DEF Handled, Injective, Apart, Somewhere

LEMMA RemoveDoneHandled ==
  ASSUME IInv, Handled, UNCHANGED program, RemoveDone
  PROVE  Handled'
<1> SUFFICES ASSUME NEW g, g = link[cursor] PROVE Handled'
  OBVIOUS
<1>1. /\ g \in Groups
      /\ state[g] = "done" /\ sem[g] = 1
      /\ state' = [state EXCEPT ![g] = "destroyed"]
      /\ sem' = [sem EXCEPT ![g] = 0]
      /\ UNCHANGED <<remote, local, forward, outstanding, pc, cur, child>>
  BY DEF RemoveDone, IInv, TypeOK
<1>2. \A t \in Threads : Carried(t)' = Carried(t)
  BY <1>1 DEF Carried
<1>3. Injective' /\ Apart' /\ \A h : Somewhere(h)' => Somewhere(h)
  BY <1>1, <1>2, Unmoved
<1>4. ~Somewhere(g)'
  BY <1>1, <1>3 DEF Handled, GroupState
<1>5. \A t \in Threads :
        Inside(t)' => pc'[t] = pc[t] /\ cur'[t] = cur[t] /\ cur[t] \in Groups /\ cur'[t] # g
  BY <1>1 DEF IInv, Scheduled, Spawned, Guarded, Inside
<1>6. /\ sem'[g] # 1
      /\ \A h \in Groups \ {g} : state'[h] = state[h] /\ sem'[h] = sem[h]
  BY <1>1 DEF IInv, TypeOK
<1>7. GroupState' /\ ThreadState'
  BY <1>1, <1>3, <1>4, <1>5, <1>6, StatesMove
<1>8. Committed'
  BY <1>1 DEF Handled, Committed
<1> QED
  BY <1>3, <1>7, <1>8 DEF Handled

\* What every step of resume_to leaves alone.
LEMMA ResumeLeaves ==
  ASSUME IInv, Handled, UNCHANGED program, NEW t \in Threads, ResumeStep(t)
  PROVE  /\ UNCHANGED <<local, outstanding, cur>>
         /\ \A u \in Threads \ {t} : pc'[u] = pc[u] /\ child'[u] = child[u]
         /\ \A u \in Threads \ {t} : Carried(u)' = Carried(u)
         /\ Committed'
<1>1. program \in Programs /\ TypeOK /\ Main \in Threads
  BY ProgramTypes DEF IInv
<1>2. UNCHANGED <<local, outstanding, cur>> /\ pc[t] # "push"
  BY DEF ResumeStep, Acquire, YieldPost, Suspend, SpawnNode, SpawnLink, SpawnPush, Finish, Release
<1>3. \A u \in Threads \ {t} : pc'[u] = pc[u]
  BY <1>1
  DEF ResumeStep, Acquire, YieldPost, Suspend, SpawnNode, SpawnLink, SpawnPush, Finish, Release,
      Goto, TypeOK
<1>4. \A u \in Threads \ {t} : child'[u] = child[u]
  BY <1>1
  DEF ResumeStep, Acquire, YieldPost, Suspend, SpawnNode, SpawnLink, SpawnPush, Finish, Release,
      TypeOK
<1>5. \A u \in Threads \ {t} : Carried(u)' = Carried(u)
  BY <1>2, <1>3, <1>4 DEF Carried
<1>6. Committed'
  BY <1>1, <1>2, <1>3 DEF Handled, Committed
<1> QED
  BY <1>2, <1>3, <1>4, <1>5, <1>6

\* The steps of resume_to that move no handle but g, which t takes or lets go, and that
\* change no group but g.
LEMMA AcquireHandled ==
  ASSUME IInv, Handled, UNCHANGED program, NEW t \in Threads, ResumeStep(t), Acquire(t)
  PROVE  Handled'
<1> SUFFICES ASSUME NEW g, g = cur[t] PROVE Handled'
  OBVIOUS
<1>1. /\ UNCHANGED <<local, outstanding, cur>> /\ Committed'
      /\ \A u \in Threads \ {t} : pc'[u] = pc[u] /\ Carried(u)' = Carried(u)
  BY ResumeLeaves
<1>2. /\ g \in Groups /\ pc[t] = "acquire" /\ sem[g] = 1
      /\ pc'[t] = "run" /\ state'[g] = "running" /\ sem'[g] # 1
      /\ \A h \in Groups \ {g} : state'[h] = state[h] /\ sem'[h] = sem[h]
      /\ UNCHANGED <<remote, forward>>
  BY DEF Acquire, Goto, IInv, TypeOK, Scheduled, Spawned
<1>3. Carried(t) = {g} /\ Carried(t)' = {}
  BY <1>2 DEF Carried
<1>4. Injective' /\ Apart' /\ \A h : Somewhere(h)' => Somewhere(h)
  BY <1>1, <1>2, <1>3, Unmoved
<1>5. ~Somewhere(g)'
  <2>1. Workers' = Workers /\ Threads' = Threads
    BY RigidProgram
  <2> QED
    BY <1>1, <1>2, <1>3, <2>1, InOnePlace DEF Somewhere
<1>6. \A u \in Threads : Inside(u)' /\ cur'[u] # g =>
        pc'[u] = pc[u] /\ cur'[u] = cur[u] /\ cur[u] \in Groups
  BY <1>1 DEF IInv, Scheduled, Spawned, Inside
<1>7. \A u \in Threads : Inside(u)' /\ cur'[u] = g => pc'[u] = "run"
  BY <1>1, <1>2 DEF IInv, Guarded, Inside
<1>8. GroupState' /\ ThreadState'
  BY <1>2, <1>4, <1>5, <1>6, <1>7, StatesMove
<1> QED
  BY <1>1, <1>4, <1>8 DEF Handled

\* Nobody else is inside the group that a thread is inside.
LEMMA AloneInside ==
  ASSUME IInv, NEW t \in Threads, Inside(t)
  PROVE  /\ cur[t] \in Groups /\ sem[cur[t]] = 0
         /\ \A u \in Threads \ {t} : Inside(u) => cur[u] \in Groups /\ cur[u] # cur[t]
BY DEF IInv, Scheduled, Spawned, Guarded, OneThreadPerGroup

LEMMA YieldPostHandled ==
  ASSUME IInv, Handled, UNCHANGED program, NEW t \in Threads, ResumeStep(t), YieldPost(t)
  PROVE  Handled'
<1> SUFFICES ASSUME NEW g, g = cur[t] PROVE Handled'
  OBVIOUS
<1>1. /\ UNCHANGED <<local, outstanding, cur>> /\ Committed'
      /\ \A u \in Threads \ {t} : pc'[u] = pc[u] /\ Carried(u)' = Carried(u)
  BY ResumeLeaves
<1>2. /\ pc[t] = "run" /\ pc'[t] = "suspend"
      /\ forward' = <<g>> \o forward
      /\ UNCHANGED <<remote, state, sem>>
  BY DEF YieldPost, Goto, IInv, TypeOK
<1>3. /\ g \in Groups /\ sem[g] = 0
      /\ \A u \in Threads \ {t} : Inside(u) => cur[u] \in Groups /\ cur[u] # g
  BY <1>2, AloneInside DEF Inside
<1>4. state[g] = "running" /\ ~Somewhere(g)
  BY <1>2 DEF Handled, ThreadState
<1>5. ToSet(forward') = {g} \cup ToSet(forward) /\ IsInjective(forward')
  <2>1. forward \in Seq(Groups) /\ IsInjective(forward) /\ g \notin ToSet(forward)
    BY <1>4 DEF IInv, TypeOK, Handled, Injective, Somewhere
  <2> QED
    BY <1>2, <1>3, <2>1, ListPrepend
<1>6. Carried(t)' = {}
  BY <1>2 DEF Carried
<1>7. Shrunk(g) /\ OnePlaceNext(g)
  BY <1>1, <1>2, <1>4, <1>5, <1>6 DEF Shrunk, OnePlaceNext, Somewhere
<1>8. Apart' /\ \A h : h # g /\ Somewhere(h)' => Somewhere(h)
  BY <1>7, Moved DEF Handled
<1>9. Injective'
  <2>1. Workers' = Workers
    BY RigidProgram
  <2> QED
    BY <1>1, <1>2, <1>5, <2>1 DEF Handled, Injective
<1>10. \A u \in Threads : Inside(u)' /\ cur'[u] # g =>
         pc'[u] = pc[u] /\ cur'[u] = cur[u] /\ cur[u] \in Groups
  BY <1>1, <1>3 DEF Inside
<1>11. \A u \in Threads : Inside(u)' /\ cur'[u] = g => pc'[u] = "suspend"
  BY <1>1, <1>2, <1>3 DEF Inside
<1>12. GroupState' /\ ThreadState'
  <2>1. /\ state'[g] = "running" /\ sem'[g] # 1
        /\ \A h \in Groups \ {g} : state'[h] = state[h] /\ sem'[h] = sem[h]
    BY <1>2, <1>3, <1>4
  <2> QED
    BY <1>3, <1>8, <1>10, <1>11, <2>1, StatesMove
<1> QED
  BY <1>1, <1>8, <1>9, <1>12 DEF Handled

\* The coroutine suspends, finishes, or the semaphore is released.
LEMMA LeaveHandled ==
  ASSUME IInv, Handled, UNCHANGED program, NEW t \in Threads, ResumeStep(t),
         Suspend(t) \/ Finish(t) \/ Release(t)
  PROVE  Handled'
<1> SUFFICES ASSUME NEW g, g = cur[t] PROVE Handled'
  OBVIOUS
<1>1. /\ UNCHANGED <<local, outstanding, cur>> /\ Committed'
      /\ \A u \in Threads \ {t} : pc'[u] = pc[u] /\ Carried(u)' = Carried(u)
  BY ResumeLeaves
<1>2. Inside(t) /\ UNCHANGED <<remote, forward, child>>
  BY DEF Suspend, Finish, Release, Inside
<1>3. /\ g \in Groups /\ sem[g] = 0
      /\ \A u \in Threads \ {t} : Inside(u) => cur[u] \in Groups /\ cur[u] # g
  BY <1>2, AloneInside
<1>4. pc'[t] \in {"release", "dispatch", "pop"}
  BY DEF Suspend, Finish, Release, Goto, IInv, TypeOK
<1>5. \A u \in Threads : Carried(u)' \subseteq Carried(u)
  BY <1>1, <1>4 DEF Carried
<1>6. Injective' /\ Apart' /\ \A h : Somewhere(h)' => Somewhere(h)
  BY <1>1, <1>2, <1>5, Unmoved
<1>7. /\ \A h \in Groups \ {g} : state'[h] = state[h] /\ sem'[h] = sem[h]
      /\ state'[g] \in {"suspended", "done"}
      /\ state'[g] = "done" => ~Somewhere(g)
  <2>1. CASE Suspend(t)
    BY <1>3, <2>1 DEF Suspend, IInv, TypeOK
  <2>2. CASE Finish(t)
    BY <1>3, <2>2 DEF Finish, IInv, TypeOK, Handled, ThreadState
  <2>3. CASE Release(t)
    BY <1>3, <2>3 DEF Release, IInv, TypeOK, Handled, ThreadState, GroupState
  <2> QED
    BY <2>1, <2>2, <2>3
<1>8. \A u \in Threads : Inside(u)' /\ cur'[u] # g =>
        pc'[u] = pc[u] /\ cur'[u] = cur[u] /\ cur[u] \in Groups
  BY <1>1, <1>3 DEF Inside
<1>9. \A u \in Threads : Inside(u)' /\ cur'[u] = g => pc'[u] = "release"
  BY <1>1, <1>3, <1>4 DEF Inside
<1>10. GroupState' /\ ThreadState'
  BY <1>3, <1>6, <1>7, <1>8, <1>9, StatesMove
<1> QED
  BY <1>1, <1>6, <1>10 DEF Handled

LEMMA SpawnNodeHandled ==
  ASSUME IInv, Handled, UNCHANGED program, NEW t \in Threads, ResumeStep(t),
         NEW g \in Groups, SpawnNode(t, g)
  PROVE  Handled'
<1>1. /\ UNCHANGED <<local, outstanding, cur>> /\ Committed'
      /\ \A u \in Threads \ {t} : pc'[u] = pc[u] /\ Carried(u)' = Carried(u)
  BY ResumeLeaves
<1>2. /\ pc[t] = "run" /\ pc'[t] = "link" /\ child'[t] = g
      /\ state[g] = "unborn" /\ state'[g] = "suspended"
      /\ \A h \in Groups \ {g} : state'[h] = state[h] /\ sem'[h] = sem[h]
      /\ UNCHANGED <<remote, forward>>
  BY DEF SpawnNode, Goto, IInv, TypeOK
<1>3. ~Somewhere(g)
  BY <1>2 DEF Handled, GroupState
<1>4. Carried(t)' = {g}
  BY <1>2 DEF Carried
<1>5. Shrunk(g)
  BY <1>1, <1>2, <1>4 DEF Shrunk
<1>6. OnePlaceNext(g)
  BY <1>1, <1>2, <1>3, <1>4 DEF OnePlaceNext, Somewhere
<1>7. Apart' /\ \A h : h # g /\ Somewhere(h)' => Somewhere(h)
  BY <1>5, <1>6, Moved DEF Handled
<1>8. Injective'
  <2>1. Workers' = Workers
    BY RigidProgram
  <2> QED
    BY <1>1, <1>2, <2>1 DEF Handled, Injective
<1>9. \A u \in Threads : Inside(u) => cur[u] \in Groups /\ cur[u] # g
  BY <1>2 DEF IInv, Scheduled, Spawned
<1>10. \A u \in Threads : Inside(u)' =>
         /\ cur'[u] = cur[u] /\ cur[u] \in Groups /\ cur'[u] # g
         /\ pc'[u] \in {"run", "link", "spawn"} => pc[u] \in {"run", "link", "spawn"}
         /\ pc'[u] \in {"suspend", "release"} => pc'[u] = pc[u]
  BY <1>1, <1>2, <1>9 DEF Inside
<1>11. GroupState' /\ ThreadState'
  BY <1>2, <1>7, <1>10, StatesMove
<1> QED
  BY <1>1, <1>7, <1>8, <1>11 DEF Handled

LEMMA SpawnPushHandled ==
  ASSUME IInv, Handled, UNCHANGED program, NEW t \in Threads, ResumeStep(t),
         SpawnLink(t) \/ SpawnPush(t)
  PROVE  Handled'
<1> SUFFICES ASSUME NEW g, g = child[t] PROVE Handled'
  OBVIOUS
<1>1. /\ UNCHANGED <<local, outstanding, cur>> /\ Committed'
      /\ \A u \in Threads \ {t} : pc'[u] = pc[u] /\ Carried(u)' = Carried(u)
  BY ResumeLeaves
<1>2. /\ pc[t] \in {"link", "spawn"} /\ pc'[t] \in {"spawn", "run"}
      /\ UNCHANGED <<program, forward, state, sem, child>>
      /\ g \in Groups
  BY DEF SpawnLink, SpawnPush, Goto, IInv, TypeOK, Scheduled, Spawned
<1>3. Carried(t) = {g}
  BY <1>2 DEF Carried
<1>4. \A u \in Threads :
        /\ Inside(u)' => cur'[u] = cur[u]
        /\ pc'[u] \in {"run", "link", "spawn"} => pc[u] \in {"run", "link", "spawn"}
        /\ pc'[u] \in {"suspend", "release"} => pc'[u] = pc[u]
  BY <1>1, <1>2
<1>5. CASE SpawnLink(t)
  <2>1. UNCHANGED remote /\ \A u \in Threads : Carried(u)' \subseteq Carried(u)
    BY <1>1, <1>2, <1>3, <1>5 DEF Carried, SpawnLink, Goto, IInv, TypeOK
  <2>2. Injective' /\ Apart' /\ \A h : Somewhere(h)' => Somewhere(h)
    BY <1>1, <1>2, <2>1, Unmoved
  <2> QED
    BY <1>1, <1>2, <1>4, <2>2, StatesStay DEF Handled
<1>6. CASE SpawnPush(t)
  <2>1. pc'[t] = "run" /\ remote' = Append(remote, g)
    BY <1>6 DEF SpawnPush, Goto, IInv, TypeOK
  <2>2. Carried(t)' = {}
    BY <2>1 DEF Carried
  <2>3. ToSet(remote') = {g} \cup ToSet(remote) /\ IsInjective(remote')
    <3>1. remote \in Seq(Groups) /\ IsInjective(remote) /\ g \notin ToSet(remote)
      BY <1>3, InOnePlace DEF IInv, TypeOK, Handled, Injective
    <3> QED
      BY <1>2, <2>1, <3>1, ListAppend
  <2>4. Shrunk(g) /\ Somewhere(g)
    BY <1>1, <1>2, <1>3, <2>2, <2>3 DEF Shrunk, Somewhere
  <2>5. OnePlaceNext(g)
    BY <1>1, <1>2, <1>3, <2>2, InOnePlace DEF OnePlaceNext
  <2>6. Injective'
    <3>1. Workers' = Workers
      BY RigidProgram
    <3> QED
      BY <1>1, <1>2, <2>3, <3>1 DEF Handled, Injective
  <2> QED
    BY <1>1, <1>2, <1>4, <2>4, <2>5, <2>6, HandleMoved
<1> QED
  BY <1>5, <1>6

-----------------------------------------------------------------------------
LEMMA HandledNext ==
  ASSUME IInv, Handled, [Next]_vars
  PROVE  Handled'
<1>1. CASE UNCHANGED vars
  <2>1. /\ UNCHANGED <<program, state, sem, remote, forward, outstanding, local>>
        /\ UNCHANGED <<pc, cur, child>>
    BY <1>1 DEF vars
  <2>2. \A t \in Threads : Carried(t)' = Carried(t)
    BY <2>1 DEF Carried
  <2> QED
    BY <2>1, <2>2, NothingMoved
<1>2. CASE Next
  <2>1. UNCHANGED program
    BY <1>2 DEF Next
  <2>2. ASSUME NEW g \in Groups, ProgramSpawn(g) PROVE Handled'
    BY <2>1, <2>2, ProgramSpawnHandled
  <2>3. CASE Launch \/ Ended
    BY <2>1, <2>3, MainQuiet
  <2>4. CASE MainStep
    BY <2>1, <2>4, MainQuiet, DispatchMoves, DispatchInPlaceMoves, CommitMoves,
       CommitPushMoves, RemoveDoneHandled DEF MainStep
  <2>5. ASSUME NEW w \in Workers, WorkerStep(w) PROVE Handled'
    BY <2>1, <2>5, WorkerMoves
  <2>6. ASSUME NEW t \in Threads, ResumeStep(t) PROVE Handled'
    BY <2>1, <2>6, AcquireHandled, YieldPostHandled, LeaveHandled, SpawnNodeHandled,
       SpawnPushHandled DEF ResumeStep
  <2> QED
    BY <1>2, <2>2, <2>3, <2>4, <2>5, <2>6 DEF Next
<1> QED
  BY <1>1, <1>2

\* What a thread resumes is suspended, neither running nor done nor destroyed, and
\* remove_frame destroys no group that a thread is still inside: a group has one handle
\* at most, which a thread takes with it until it holds the semaphore
\* (frame_executor.hpp:125-137, frame_lifetime.hpp:75-82).
THEOREM ResumesRight == Spec => []ResumesSuspended
<1>1. Init => Handled
  BY InitHandled
<1>2. IInv /\ Handled /\ [Next]_vars => Handled'
  BY HandledNext
<1>3. IInv /\ Handled => ResumesSuspended
  <2> SUFFICES ASSUME IInv, Handled, NEW t \in Threads
               PROVE  /\ pc[t] = "acquire" =>
                           /\ state[cur[t]] \notin {"done", "destroyed"}
                           /\ sem[cur[t]] = 1 => state[cur[t]] = "suspended"
                      /\ Inside(t) => state[cur[t]] # "destroyed"
    BY DEF ResumesSuspended
  <2>1. ASSUME pc[t] = "acquire"
        PROVE  /\ state[cur[t]] \notin {"done", "destroyed"}
               /\ sem[cur[t]] = 1 => state[cur[t]] = "suspended"
    <3>1. cur[t] \in Groups /\ Somewhere(cur[t])
      BY <2>1 DEF IInv, Scheduled, Spawned, Carried, Somewhere
    <3> QED
      BY <3>1 DEF Handled, GroupState
  <2>2. Inside(t) => state[cur[t]] # "destroyed"
    BY DEF Inside, Handled, ThreadState
  <2> QED
    BY <2>1, <2>2
<1> QED
  BY <1>1, <1>2, <1>3, Invariance, PTL DEF Spec

-----------------------------------------------------------------------------
(* No handle is lost *)

\* A suspended group has a handle, and so has one that has posted itself and is about
\* to suspend.
Kept ==
  /\ \A g \in Groups : state[g] = "suspended" => Somewhere(g)
  /\ \A t \in Threads : pc[t] = "suspend" => Somewhere(cur[t])
  /\ pc[Main] = "program" => \A w \in Workers : pc[w] = "off"

\* A handle leaves the places only when the thread that carries it resumes the group.
LEMMA HandleStays ==
  ASSUME IInv, Handled, Kept, Next, NEW h \in Groups, Somewhere(h),
         \A t \in Threads : ~(Acquire(t) /\ cur[t] = h)
  PROVE  Somewhere(h)'
<1>1. /\ Workers' = Workers /\ Threads' = Threads /\ Main \in Threads
      /\ program \in Programs /\ Workers \subseteq Threads
  BY RigidProgram, ProgramTypes DEF IInv, Next
<1>2. /\ remote \in Seq(Groups) /\ forward \in Seq(Groups) /\ outstanding \in Seq(Groups)
      /\ local \in [Workers -> Seq(Groups)]
  BY DEF IInv, TypeOK
<1>3. ASSUME /\ ToSet(remote) \subseteq ToSet(remote')
             /\ ToSet(forward) \subseteq ToSet(forward')
             /\ ToSet(outstanding) \subseteq ToSet(outstanding')
             /\ \A w \in Workers : ToSet(local[w]) \subseteq ToSet(local'[w])
             /\ \A t \in Threads : h \in Carried(t) => Somewhere(h)'
      PROVE  Somewhere(h)'
  BY <1>1, <1>3 DEF Somewhere
<1>4. ASSUME NEW t \in Threads, pc[t] \notin {"acquire", "link", "spawn"},
             \A u \in Threads \ {t} : pc'[u] = pc[u] /\ cur'[u] = cur[u] /\ child'[u] = child[u]
      PROVE  \A u \in Threads : h \in Carried(u) => h \in Carried(u)'
  BY <1>4 DEF Carried
<1>5. ASSUME NEW g \in Groups, ProgramSpawn(g) PROVE Somewhere(h)'
  <2>1. ToSet(remote) \subseteq ToSet(remote') /\ UNCHANGED <<forward, outstanding, local, pc, cur, child>>
    BY <1>2, <1>5, ListContents DEF ProgramSpawn
  <2>2. \A u \in Threads : h \in Carried(u) => h \in Carried(u)'
    BY <2>1 DEF Carried
  <2> QED
    BY <1>1, <1>3, <2>1, <2>2 DEF Somewhere
<1>6. CASE Launch
  <2>1. UNCHANGED <<remote, forward, outstanding, local>>
    BY <1>6 DEF Launch
  <2>2. \A u \in Threads : Carried(u) = {}
    BY <1>6 DEF Launch, Kept, Carried, Threads
  <2> QED
    BY <1>3, <2>1, <2>2
<1>7. CASE \/ CheckEmpty \/ DispatchEnd \/ CommitEnd \/ RemoveSkip \/ RemoveDone \/ RemoveEnd
           \/ RequestStop \/ Join \/ Ended
  <2>1. UNCHANGED <<remote, forward, outstanding, local>>
    BY <1>7
    DEF CheckEmpty, DispatchEnd, CommitEnd, RemoveSkip, RemoveDone, RemoveEnd, RequestStop, Join,
        Ended, vars
  <2>2. /\ pc[Main] \notin {"acquire", "link", "spawn"}
        /\ \A u \in Threads \ {Main} : pc'[u] = pc[u] /\ cur'[u] = cur[u] /\ child'[u] = child[u]
    BY <1>7
    DEF CheckEmpty, DispatchEnd, CommitEnd, RemoveSkip, RemoveDone, RemoveEnd, RequestStop, Join,
        Ended, vars, Goto, IInv, TypeOK
  <2> QED
    BY <1>1, <1>3, <1>4, <2>1, <2>2 DEF Somewhere
<1>8. CASE DispatchLocal
  <2>1. rotation \in Workers
    BY <1>8, ProgramTypes DEF DispatchLocal, IInv, TypeOK, Workers
  <2>2. /\ local'[rotation] = Append(local[rotation], Head(remote))
        /\ \A w \in Workers \ {rotation} : local'[w] = local[w]
        /\ remote # <<>> /\ remote' = Tail(remote)
        /\ UNCHANGED <<forward, outstanding, pc, cur, child>>
    BY <1>2, <1>8, <2>1 DEF DispatchLocal
  <2>3. Head(remote) \in Groups /\ local[rotation] \in Seq(Groups)
    BY <1>2, <2>1, <2>2
  <2>4. /\ ToSet(remote) \subseteq ToSet(remote') \cup {Head(remote)}
        /\ ToSet(local[rotation]) \cup {Head(remote)} \subseteq ToSet(local'[rotation])
    BY <1>2, <2>2, <2>3, ListContents
  <2>5. \A u \in Threads : Carried(u)' = Carried(u)
    BY <2>2 DEF Carried
  <2> QED
    BY <1>1, <2>1, <2>2, <2>4, <2>5 DEF Somewhere
<1>9. CASE DispatchInPlace
  <2>1. /\ remote # <<>> /\ remote' = Tail(remote)
        /\ pc'[Main] = "acquire" /\ cur'[Main] = Head(remote) /\ pc[Main] = "dispatch"
        /\ \A u \in Threads \ {Main} : pc'[u] = pc[u] /\ cur'[u] = cur[u] /\ child'[u] = child[u]
        /\ UNCHANGED <<forward, outstanding, local>>
    BY <1>1, <1>9 DEF DispatchInPlace, Goto, IInv, TypeOK
  <2>2. ToSet(remote) \subseteq ToSet(remote') \cup {Head(remote)}
    BY <1>2, <2>1, ListContents
  <2>3. Head(remote) \in Carried(Main)'
    BY <2>1 DEF Carried
  <2> QED
    BY <1>1, <1>4, <2>1, <2>2, <2>3 DEF Somewhere
<1>10. CASE Commit
  <2>1. outstanding = <<>>
    BY <1>10 DEF Commit, Handled, Committed
  <2>2. /\ outstanding' = forward /\ UNCHANGED <<remote, local>>
        /\ pc[Main] \notin {"acquire", "link", "spawn"}
        /\ \A u \in Threads \ {Main} : pc'[u] = pc[u] /\ cur'[u] = cur[u] /\ child'[u] = child[u]
    BY <1>10 DEF Commit, Goto, IInv, TypeOK
  <2> QED
    BY <1>1, <1>4, <2>1, <2>2, ListEmpty DEF Somewhere
<1>11. CASE CommitPush
  <2>1. /\ outstanding # <<>> /\ outstanding' = Tail(outstanding)
        /\ remote' = Append(remote, Head(outstanding))
        /\ UNCHANGED <<forward, local, pc, cur, child>>
    BY <1>11 DEF CommitPush
  <2>2. Head(outstanding) \in Groups
    BY <1>2, <2>1
  <2>3. /\ ToSet(outstanding) \subseteq ToSet(outstanding') \cup {Head(outstanding)}
        /\ ToSet(remote) \cup {Head(outstanding)} \subseteq ToSet(remote')
    BY <1>2, <2>1, <2>2, ListContents
  <2>4. \A u \in Threads : Carried(u)' = Carried(u)
    BY <2>1 DEF Carried
  <2> QED
    BY <1>1, <2>1, <2>3, <2>4 DEF Somewhere
<1>12. ASSUME NEW w \in Workers, NEW v \in Workers, local[v] # <<>>,
              pc[w] \notin {"acquire", "link", "spawn"},
              UNCHANGED <<remote, forward, outstanding, child>>,
              pc' = [pc EXCEPT ![w] = "acquire"],
              NEW g, cur' = [cur EXCEPT ![w] = g],
              NEW rest, local' = [local EXCEPT ![v] = rest],
              ToSet(local[v]) \subseteq ToSet(rest) \cup {g}
       PROVE  Somewhere(h)'
  <2>1. /\ pc'[w] = "acquire" /\ cur'[w] = g /\ local'[v] = rest
        /\ \A u \in Threads \ {w} : pc'[u] = pc[u] /\ cur'[u] = cur[u] /\ child'[u] = child[u]
        /\ \A x \in Workers \ {v} : local'[x] = local[x]
    BY <1>1, <1>12 DEF IInv, TypeOK
  <2>2. g \in Carried(w)'
    BY <2>1 DEF Carried
  <2> QED
    BY <1>1, <1>4, <1>12, <2>1, <2>2 DEF Somewhere
<1>13. ASSUME NEW w \in Workers, TryPopLocal(w), local[w] # <<>> PROVE Somewhere(h)'
  <2>1. ToSet(local[w]) \subseteq ToSet(Front(local[w])) \cup {Last(local[w])}
    BY <1>2, <1>13, ListContents
  <2> QED
    BY <1>12, <1>13, <2>1 DEF TryPopLocal, Goto
<1>14. ASSUME NEW w \in Workers, TrySteal(w) PROVE Somewhere(h)'
  <2>1. victim[w] \in Workers /\ local[victim[w]] # <<>>
    BY <1>14 DEF TrySteal
  <2>2. ToSet(local[victim[w]]) \subseteq ToSet(Tail(local[victim[w]])) \cup {Head(local[victim[w]])}
    BY <1>2, <2>1, ListContents
  <2> QED
    BY <1>12, <1>14, <2>1, <2>2 DEF TrySteal, Goto
<1>15. ASSUME NEW w \in Workers,
              \/ WorkerStop(w) \/ StealNext(w) \/ StealNothing(w)
              \/ TryPopLocal(w) /\ local[w] = <<>>
       PROVE  Somewhere(h)'
  <2>1. UNCHANGED <<remote, forward, outstanding, local>>
    BY <1>15 DEF WorkerStop, StealNext, StealNothing, TryPopLocal
  <2>2. /\ pc[w] \notin {"acquire", "link", "spawn"}
        /\ \A u \in Threads \ {w} : pc'[u] = pc[u] /\ cur'[u] = cur[u] /\ child'[u] = child[u]
    BY <1>15 DEF WorkerStop, StealNext, StealNothing, TryPopLocal, Goto, IInv, TypeOK
  <2> QED
    BY <1>1, <1>3, <1>4, <1>15, <2>1, <2>2 DEF Somewhere
<1>16. ASSUME NEW t \in Threads, ResumeStep(t) PROVE Somewhere(h)'
  <2>1. /\ UNCHANGED <<local, outstanding>>
        /\ \A u \in Threads \ {t} : Carried(u)' = Carried(u)
    BY <1>16, ResumeLeaves DEF Next
  <2>2. ToSet(remote) \subseteq ToSet(remote') /\ ToSet(forward) \subseteq ToSet(forward')
    <3>1. pc[t] \in {"run"} => cur[t] \in Groups
      BY DEF IInv, Scheduled, Spawned, Inside
    <3>2. pc[t] \in {"spawn"} => child[t] \in Groups
      BY DEF IInv, Scheduled, Spawned
    <3> QED
      BY <1>2, <1>16, <3>1, <3>2, ListContents
      DEF ResumeStep, Acquire, YieldPost, Suspend, SpawnNode, SpawnLink, SpawnPush, Finish, Release
  <2>3. h \in Carried(t) => Somewhere(h)'
    <3>1. CASE pc[t] = "acquire"
      BY <1>16, <3>1
      DEF Carried, ResumeStep, Acquire, YieldPost, Suspend, SpawnNode, SpawnLink, SpawnPush,
          Finish, Release
    <3>2. CASE pc[t] = "link"
      <4>1. pc'[t] = "spawn" /\ child'[t] = child[t]
        BY <1>16, <3>2
        DEF ResumeStep, Acquire, YieldPost, Suspend, SpawnNode, SpawnLink, SpawnPush,
            Finish, Release, Goto, IInv, TypeOK
      <4> QED
        BY <1>1, <1>16, <3>2, <4>1 DEF Carried, Somewhere
    <3>3. CASE pc[t] = "spawn"
      <4>1. remote' = Append(remote, child[t]) /\ child[t] \in Groups
        BY <1>16, <3>3
        DEF ResumeStep, Acquire, YieldPost, Suspend, SpawnNode, SpawnLink, SpawnPush,
            Finish, Release, IInv, Scheduled, Spawned
      <4>2. child[t] \in ToSet(remote')
        BY <1>2, <4>1, ListContents
      <4> QED
        BY <3>3, <4>2 DEF Carried, Somewhere
    <3> QED
      BY <3>1, <3>2, <3>3 DEF Carried
  <2> QED
    BY <1>1, <1>16, <2>1, <2>2, <2>3 DEF Somewhere
<1> QED
  BY <1>5, <1>6, <1>7, <1>8, <1>9, <1>10, <1>11, <1>13, <1>14, <1>15, <1>16
  DEF Next, MainStep, WorkerStep

\* Where a thread and a group come from.
LEMMA KeptNext ==
  ASSUME IInv, Handled, Kept, [Next]_vars
  PROVE  Kept'
<1>1. CASE UNCHANGED vars
  <2>1. UNCHANGED <<program, remote, forward, outstanding, local, pc, cur, child, state>>
    BY <1>1 DEF vars
  <2>2. Workers' = Workers /\ Threads' = Threads
    BY <2>1, RigidProgram
  <2> QED
    BY <2>1, <2>2 DEF Kept, Somewhere, Carried
<1> SUFFICES ASSUME Next PROVE Kept'
  BY <1>1
<1>2. /\ Workers' = Workers /\ Threads' = Threads /\ Main \in Threads
      /\ program \in Programs /\ Workers \subseteq Threads /\ Main \notin Workers
      /\ UNCHANGED program
  BY RigidProgram, ProgramTypes DEF IInv, Next
<1>3. ASSUME NEW t \in Threads, Acquire(t)
      PROVE  cur[t] \in Groups /\ state'[cur[t]] = "running" /\ sem[cur[t]] = 1
  BY <1>3 DEF Acquire, IInv, Scheduled, Spawned, TypeOK
<1>4. ASSUME NEW g \in Groups, state'[g] = "suspended" PROVE Somewhere(g)'
  <2>1. CASE Somewhere(g)
    BY <1>3, <1>4, <2>1, HandleStays
  <2>2. CASE ~Somewhere(g)
    <3>1. state[g] # "suspended"
      BY <2>2 DEF Kept
    <3>2. ASSUME ProgramSpawn(g) PROVE Somewhere(g)'
      BY <3>2, ListContents DEF ProgramSpawn, Somewhere, IInv, TypeOK
    <3>3. ASSUME NEW t \in Threads, SpawnNode(t, g) PROVE Somewhere(g)'
      <4>1. pc'[t] = "link" /\ child'[t] = g
        BY <3>3 DEF SpawnNode, Goto, IInv, TypeOK
      <4> QED
        BY <1>2, <4>1 DEF Somewhere, Carried
    <3>4. ASSUME NEW t \in Threads, Suspend(t) PROVE cur[t] # g
      BY <2>2, <3>4 DEF Kept, Suspend
    <3>5. \/ ProgramSpawn(g)
          \/ \E t \in Threads : SpawnNode(t, g) \/ (Suspend(t) /\ cur[t] = g)
      <4>1. state \in [Groups -> States]
        BY DEF IInv, TypeOK
      <4>2. ASSUME UNCHANGED state PROVE FALSE
        BY <1>4, <3>1, <4>2
      <4>3. ASSUME NEW h, NEW label, state' = [state EXCEPT ![h] = label],
                   h # g \/ label # "suspended"
            PROVE  FALSE
        BY <1>4, <3>1, <4>1, <4>3
      <4>4. ASSUME NEW h \in Groups, ProgramSpawn(h) PROVE ProgramSpawn(g)
        BY <4>3, <4>4 DEF ProgramSpawn
      <4>5. ASSUME Launch \/ Ended \/ MainStep PROVE FALSE
        BY <4>2, <4>3, <4>5
        DEF Launch, Ended, MainStep, CheckEmpty, DispatchLocal, DispatchInPlace, DispatchEnd,
            Commit, CommitPush, CommitEnd, RemoveSkip, RemoveDone, RemoveEnd, RequestStop, Join,
            vars
      <4>6. ASSUME NEW w \in Workers, WorkerStep(w) PROVE FALSE
        BY <4>2, <4>6
        DEF WorkerStep, WorkerStop, TryPopLocal, TrySteal, StealNext, StealNothing
      <4>7. ASSUME NEW t \in Threads, ResumeStep(t)
            PROVE  SpawnNode(t, g) \/ (Suspend(t) /\ cur[t] = g)
        <5>1. CASE \/ Acquire(t) \/ YieldPost(t) \/ SpawnLink(t) \/ SpawnPush(t) \/ Finish(t)
                   \/ Release(t)
          BY <4>2, <4>3, <5>1 DEF Acquire, YieldPost, SpawnLink, SpawnPush, Finish, Release
        <5>2. CASE Suspend(t)
          BY <4>3, <5>2 DEF Suspend
        <5>3. ASSUME NEW h \in Groups, SpawnNode(t, h) PROVE SpawnNode(t, g)
          BY <4>3, <5>3 DEF SpawnNode
        <5> QED
          BY <4>7, <5>1, <5>2, <5>3 DEF ResumeStep
      <4> QED
        BY <4>4, <4>5, <4>6, <4>7 DEF Next
    <3> QED
      BY <3>2, <3>3, <3>4, <3>5
  <2> QED
    BY <2>1, <2>2
<1>5. ASSUME NEW t \in Threads, pc'[t] = "suspend" PROVE Somewhere(cur[t])'
  <2>1. cur'[t] = cur[t] /\ Inside(t) /\ cur[t] \in Groups /\ (pc[t] = "suspend" \/ YieldPost(t))
    <3>1. ASSUME NEW u \in Threads, ResumeStep(u), u # t PROVE pc[t] = "suspend" /\ cur'[t] = cur[t]
      BY <1>2, <1>5, <3>1, ResumeLeaves
    <3>2. ASSUME ResumeStep(t) PROVE YieldPost(t) /\ pc[t] = "run" /\ cur'[t] = cur[t]
      BY <1>5, <3>2
      DEF ResumeStep, Acquire, YieldPost, Suspend, SpawnNode, SpawnLink, SpawnPush, Finish,
          Release, Goto, IInv, TypeOK
    <3>3. ASSUME Ended \/ MainStep PROVE pc[t] = "suspend" /\ cur'[t] = cur[t]
      BY <1>5, <3>3
      DEF Ended, MainStep, CheckEmpty, DispatchLocal, DispatchInPlace, DispatchEnd,
          Commit, CommitPush, CommitEnd, RemoveSkip, RemoveDone, RemoveEnd, RequestStop, Join,
          vars, Goto, IInv, TypeOK
    <3>4. ASSUME NEW w \in Workers, WorkerStep(w) PROVE pc[t] = "suspend" /\ cur'[t] = cur[t]
      BY <1>5, <3>4
      DEF WorkerStep, WorkerStop, TryPopLocal, TrySteal, StealNext, StealNothing, Goto,
          IInv, TypeOK
    <3>5. ASSUME Launch \/ \E g \in Groups : ProgramSpawn(g)
          PROVE pc[t] = "suspend" /\ cur'[t] = cur[t]
      BY <1>5, <3>5 DEF Launch, ProgramSpawn
    <3>6. pc[t] \in {"suspend", "run"} => Inside(t) /\ cur[t] \in Groups
      BY DEF Inside, IInv, Scheduled, Spawned
    <3> QED
      BY <3>1, <3>2, <3>3, <3>4, <3>5, <3>6 DEF Next, YieldPost
  <2>2. CASE YieldPost(t)
    <3>1. forward' = <<cur[t]>> \o forward /\ forward \in Seq(Groups)
      BY <2>2 DEF YieldPost, IInv, TypeOK
    <3>2. cur[t] \in ToSet(forward')
      BY <2>1, <3>1, ListContents
    <3> QED
      BY <2>1, <3>2 DEF Somewhere
  <2>3. CASE pc[t] = "suspend"
    <3>1. Somewhere(cur[t]) /\ sem[cur[t]] # 1
      BY <2>1, <2>3 DEF Kept, IInv, Guarded
    <3>2. Somewhere(cur[t])' <=> \E g : g = cur[t] /\ Somewhere(g)'
      BY <2>1 DEF Somewhere
    <3>3. \A g \in Groups : g = cur[t] => Somewhere(g)'
      BY <1>3, <3>1, HandleStays
    <3> QED
      BY <2>1, <3>2, <3>3
  <2> QED
    BY <2>1, <2>2, <2>3
<1>6. ASSUME pc'[Main] = "program", NEW w \in Workers PROVE pc'[w] = "off"
  <2>1. pc[Main] = "program" => pc[w] = "off"
    BY DEF Kept
  <2>2. ASSUME NEW t \in Threads, ResumeStep(t) PROVE pc'[w] = "off"
    <3>1. t # Main /\ pc'[Main] = pc[Main]
      BY <1>2, <1>6, <2>2, ResumeLeaves
      DEF ResumeStep, Acquire, YieldPost, Suspend, SpawnNode, SpawnLink, SpawnPush, Finish,
          Release, Goto, IInv, TypeOK
    <3>2. pc[t] # "off"
      BY <2>2
      DEF ResumeStep, Acquire, YieldPost, Suspend, SpawnNode, SpawnLink, SpawnPush, Finish, Release
    <3> QED
      BY <1>2, <1>6, <2>1, <2>2, <3>1, <3>2, ResumeLeaves
  <2>3. ASSUME MainStep \/ Launch \/ Ended \/ \E g \in Groups : ProgramSpawn(g)
        PROVE  pc'[w] = "off"
    BY <1>2, <1>6, <2>1, <2>3
    DEF Ended, MainStep, CheckEmpty, DispatchLocal, DispatchInPlace, DispatchEnd,
        Commit, CommitPush, CommitEnd, RemoveSkip, RemoveDone, RemoveEnd, RequestStop, Join,
        vars, Goto, IInv, TypeOK, Launch, ProgramSpawn
  <2>4. ASSUME NEW v \in Workers, WorkerStep(v) PROVE pc'[w] = "off"
    BY <1>2, <1>6, <2>1, <2>4
    DEF WorkerStep, WorkerStop, TryPopLocal, TrySteal, StealNext, StealNothing, Goto,
        IInv, TypeOK, Kept
  <2> QED
    BY <2>2, <2>3, <2>4 DEF Next
<1> QED
  BY <1>2, <1>4, <1>5, <1>6 DEF Kept

-----------------------------------------------------------------------------
(* Counting *)

\* A list without duplicates holds a handle once or not at all.
LEMMA CountIn ==
  ASSUME NEW s, IsInjective(s), NEW g
  PROVE  /\ g \in ToSet(s) => Cardinality({i \in DOMAIN s : s[i] = g}) = 1
         /\ g \notin ToSet(s) => Cardinality({i \in DOMAIN s : s[i] = g}) = 0
<1>1. ASSUME g \in ToSet(s) PROVE Cardinality({i \in DOMAIN s : s[i] = g}) = 1
  <2>1. PICK k \in DOMAIN s : s[k] = g
    BY <1>1 DEF ToSet
  <2>2. {i \in DOMAIN s : s[i] = g} = {k}
    BY <2>1 DEF IsInjective
  <2> QED
    BY <2>2, FS_Singleton
<1>2. ASSUME g \notin ToSet(s) PROVE Cardinality({i \in DOMAIN s : s[i] = g}) = 0
  <2>1. {i \in DOMAIN s : s[i] = g} = {}
    BY <1>2 DEF ToSet
  <2> QED
    BY <2>1, FS_EmptySet
<1> QED
  BY <1>1, <1>2

LEMMA CountLocal ==
  ASSUME Handled, NEW g
  PROVE  LET n == Cardinality(UNION {{w} \X {i \in DOMAIN local[w] : local[w][i] = g} :
                                     w \in Workers})
         IN  /\ (\E w \in Workers : g \in ToSet(local[w])) => n = 1
             /\ (\A w \in Workers : g \notin ToSet(local[w])) => n = 0
<1> DEFINE At(w) == {i \in DOMAIN local[w] : local[w][i] = g}
           All == UNION {{w} \X At(w) : w \in Workers}
<1>1. ASSUME NEW v \in Workers, g \in ToSet(local[v]) PROVE Cardinality(All) = 1
  <2>1. PICK k \in DOMAIN local[v] : local[v][k] = g
    BY <1>1 DEF ToSet
  <2>2. At(v) = {k}
    BY <2>1 DEF Handled, Injective, IsInjective
  <2>3. \A w \in Workers \ {v} : At(w) = {}
    BY <1>1 DEF Handled, Apart, ToSet
  <2> HIDE DEF At
  <2>4. All = {v} \X {k}
    BY <2>2, <2>3
  <2>5. All = {<<v, k>>}
    BY <2>4
  <2> QED
    BY <2>5, FS_Singleton
<1>2. ASSUME \A w \in Workers : g \notin ToSet(local[w]) PROVE Cardinality(All) = 0
  <2>1. \A w \in Workers : At(w) = {}
    BY <1>2 DEF ToSet
  <2> HIDE DEF At
  <2>2. All = {}
    BY <2>1
  <2> QED
    BY <2>2, FS_EmptySet
<1> QED
  BY <1>1, <1>2

LEMMA CountCarried ==
  ASSUME Handled, NEW g
  PROVE  LET a == Cardinality({t \in Threads : pc[t] = "acquire" /\ cur[t] = g})
             s == Cardinality({t \in Threads : pc[t] \in {"link", "spawn"} /\ child[t] = g})
         IN  /\ (\E t \in Threads : g \in Carried(t)) => (a = 1 /\ s = 0) \/ (a = 0 /\ s = 1)
             /\ (\A t \in Threads : g \notin Carried(t)) => a = 0 /\ s = 0
<1> DEFINE A == {t \in Threads : pc[t] = "acquire" /\ cur[t] = g}
           S == {t \in Threads : pc[t] \in {"link", "spawn"} /\ child[t] = g}
<1>1. \A t \in Threads : g \in Carried(t) <=> t \in A \cup S
  BY DEF Carried
<1>2. ASSUME NEW u \in Threads, g \in Carried(u)
      PROVE  (A = {u} /\ S = {}) \/ (A = {} /\ S = {u})
  <2>1. \A t \in Threads \ {u} : g \notin Carried(t)
    BY <1>2 DEF Handled, Apart
  <2>2. pc[u] = "acquire" => u \notin S
    OBVIOUS
  <2> QED
    BY <1>1, <1>2, <2>1, <2>2
<1>3. (\A t \in Threads : g \notin Carried(t)) => A = {} /\ S = {}
  BY <1>1
<1> HIDE DEF A, S
<1>4. ASSUME NEW u, (A = {u} /\ S = {}) \/ (A = {} /\ S = {u})
      PROVE  (Cardinality(A) = 1 /\ Cardinality(S) = 0) \/ (Cardinality(A) = 0 /\ Cardinality(S) = 1)
  BY <1>4, FS_Singleton, FS_EmptySet
<1>5. A = {} /\ S = {} => Cardinality(A) = 0 /\ Cardinality(S) = 0
  BY FS_EmptySet
<1> QED
  BY <1>2, <1>3, <1>4, <1>5 DEF A, S

LEMMA HandleCount ==
  ASSUME Handled, NEW g
  PROVE  Handles(g) = IF Somewhere(g) THEN 1 ELSE 0
<1> DEFINE In(s) == Cardinality({i \in DOMAIN s : s[i] = g})
           l == Cardinality(UNION {{w} \X {i \in DOMAIN local[w] : local[w][i] = g} :
                                   w \in Workers})
           a == Cardinality({t \in Threads : pc[t] = "acquire" /\ cur[t] = g})
           s == Cardinality({t \in Threads : pc[t] \in {"link", "spawn"} /\ child[t] = g})
<1>1. Handles(g) = In(remote) + In(forward) + In(outstanding) + l + a + s
  BY DEF Handles
<1>2. /\ In(remote) = IF g \in ToSet(remote) THEN 1 ELSE 0
      /\ In(forward) = IF g \in ToSet(forward) THEN 1 ELSE 0
      /\ In(outstanding) = IF g \in ToSet(outstanding) THEN 1 ELSE 0
  BY CountIn DEF Handled, Injective
<1>3. /\ (\E w \in Workers : g \in ToSet(local[w])) => l = 1
      /\ (\A w \in Workers : g \notin ToSet(local[w])) => l = 0
  BY CountLocal
<1>4. /\ (\E t \in Threads : g \in Carried(t)) => (a = 1 /\ s = 0) \/ (a = 0 /\ s = 1)
      /\ (\A t \in Threads : g \notin Carried(t)) => a = 0 /\ s = 0
  BY CountCarried
<1> HIDE DEF In, l, a, s
<1>5. /\ g \in ToSet(remote) => g \notin ToSet(forward) \cup ToSet(outstanding)
      /\ g \in ToSet(outstanding) => g \notin ToSet(remote) \cup ToSet(forward)
      /\ (\E w \in Workers : g \in ToSet(local[w])) =>
           g \notin ToSet(remote) \cup ToSet(forward) \cup ToSet(outstanding)
      /\ (\E t \in Threads : g \in Carried(t)) =>
           /\ g \notin ToSet(remote) \cup ToSet(forward) \cup ToSet(outstanding)
           /\ \A w \in Workers : g \notin ToSet(local[w])
  BY InOnePlace
<1> QED
  BY <1>1, <1>2, <1>3, <1>4, <1>5 DEF Somewhere

\* A group that is suspended has exactly one handle in the queues, the yield service
\* and the hands of the threads, and one that is done has none: no step loses a handle
\* or schedules a group twice (workstealing.hpp:121, yield_service.hpp:35-42,
\* frame_executor.hpp:52-66).
THEOREM HandlesCounted == Spec => []OneHandle
<1>1. Init => Handled
  BY InitHandled
<1>2. Init => Kept
  <2> SUFFICES ASSUME Init PROVE Kept
    OBVIOUS
  <2>1. Main \notin Workers /\ Workers \subseteq Threads
    BY ProgramTypes DEF Init
  <2>2. /\ \A g \in Groups : state[g] = "unborn"
        /\ \A t \in Threads : pc[t] = IF t = Main THEN "program" ELSE "off"
    BY DEF Init
  <2> QED
    BY <2>1, <2>2 DEF Kept
<1>3. IInv /\ Handled /\ [Next]_vars => Handled'
  BY HandledNext
<1>4. IInv /\ Handled /\ Kept /\ [Next]_vars => Kept'
  BY KeptNext
<1>5. Handled /\ Kept => OneHandle
  <2> SUFFICES ASSUME Handled, Kept, NEW g \in Groups
               PROVE  /\ state[g] = "suspended" => Handles(g) = 1
                      /\ state[g] \in {"done", "destroyed"} => Handles(g) = 0
    BY DEF OneHandle
  <2>1. Handles(g) = IF Somewhere(g) THEN 1 ELSE 0
    BY HandleCount
  <2> QED
    BY <2>1 DEF Handled, GroupState, Kept
<1> QED
  BY <1>1, <1>2, <1>3, <1>4, <1>5, Invariance, PTL DEF Spec

-----------------------------------------------------------------------------
(* The lifetime list *)

\* The groups whose coroutines exist, ...
Live == {g \in Groups : state[g] \notin {"unborn", "destroyed"}}

\* ... and those of them that the lifetime list should hold: all but one whose node is
\* not linked to yet.
Listed == Live \ {child[t] : t \in {u \in Threads : pc[u] = "link"}}

\* The list is a chain: it leads from the first node through listed groups, two nodes
\* have no successor in common, and every listed group is reached.
Chain ==
  /\ \A n \in Listed \cup {First} : link[n] \in Listed \cup {Null}
  /\ \A m, n \in Listed \cup {First} : link[m] = link[n] /\ link[m] # Null => m = n
  /\ \A S \in SUBSET Listed :
       (link[First] \in S \cup {Null} /\ \A n \in S : link[n] \in S \cup {Null}) => S = Listed

\* Only one thread links nodes, and not while the loop removes some.
OneLinks ==
  \A t \in Threads : pc[t] = "link" =>
    /\ t = Main /\ Threads = {Main}
    /\ child[t] \in Live /\ link[child[t]] = link[First]

LoopList ==
  /\ Chain /\ OneLinks
  /\ pc[Main] = "remove" => cursor \in Listed \cup {First}
  /\ pc[Main] \in {"stop", "join", "ended"} => Live = {}

\* Nobody links nodes to the list while the loop reads it.
Confined == Concurrency = 0 \/ program.spawned = {}

\* The chain has no cycle of one or two nodes.
LEMMA NoCycle ==
  ASSUME Chain, NEW c \in Listed \cup {First}, NEW x \in Listed, link[c] = x
  PROVE  x # c /\ link[x] # c
<1>1. First \notin Listed /\ Null \notin Listed
  BY NodeAssumption DEF Listed, Live
<1>2. ASSUME x = c \/ link[x] = c PROVE FALSE
  <2> DEFINE S == Listed \ {c, x}
  <2>1. c \in Listed
    BY <1>1, <1>2 DEF Chain, First, Null
  <2>2. \A n \in S \cup {First} : link[n] \notin {c, x}
    BY <1>1, <1>2, <2>1 DEF Chain
  <2>3. link[First] \in S \cup {Null} /\ \A n \in S : link[n] \in S \cup {Null}
    BY <2>2 DEF Chain
  <2>4. S \in SUBSET Listed
    OBVIOUS
  <2>5. S = Listed
    BY <2>3, <2>4 DEF Chain
  <2> QED
    BY <2>1, <2>5
<1> QED
  BY <1>2

\* A node g is put in front.
LEMMA ChainPrepend ==
  ASSUME Chain, NEW g \in Groups, g \notin Listed, Listed' = Listed \cup {g},
         link'[g] = link[First], link'[First] = g,
         \A n \in Listed : link'[n] = link[n]
  PROVE  Chain'
<1>1. First \notin Listed /\ First # g /\ Null \notin Listed /\ Null # g
  BY NodeAssumption DEF Listed, Live
<1>2. \A n \in Listed' \cup {First} : link'[n] \in Listed' \cup {Null}
  BY DEF Chain
<1>3. \A m, n \in Listed' \cup {First} : link'[m] = link'[n] /\ link'[m] # Null => m = n
  BY <1>1 DEF Chain
<1>4. ASSUME NEW S \in SUBSET (Listed'),
             link'[First] \in S \cup {Null}, \A n \in S : link'[n] \in S \cup {Null}
      PROVE  S = Listed'
  <2> DEFINE T == S \ {g}
  <2>1. g \in S
    BY <1>1, <1>4
  <2>2. link[First] \in T \cup {Null}
    BY <1>1, <1>4, <2>1 DEF Chain
  <2>3. \A n \in T : link[n] \in T \cup {Null}
    BY <1>1, <1>4 DEF Chain
  <2>4. T \in SUBSET Listed
    OBVIOUS
  <2>5. T = Listed
    BY <2>2, <2>3, <2>4 DEF Chain
  <2> QED
    BY <2>1, <2>5
<1> QED
  BY <1>2, <1>3, <1>4 DEF Chain

\* The node behind c is taken out.
LEMMA ChainRemove ==
  ASSUME Chain, NEW c \in Listed \cup {First}, NEW x \in Listed, link[c] = x,
         Listed' = Listed \ {x}, link'[c] = link[x],
         \A n \in (Listed \cup {First}) \ {c} : link'[n] = link[n]
  PROVE  Chain' /\ c \in Listed' \cup {First}
<1>1. First \notin Listed /\ Null \notin Listed
  BY NodeAssumption DEF Listed, Live
<1>2. x # c /\ link[x] # c /\ link[x] # x
  <2>1. x # c /\ link[x] # c
    BY NoCycle
  <2> QED
    BY <2>1 DEF Chain
<1>3. \A n \in Listed' \cup {First} : link'[n] \in Listed' \cup {Null}
  BY <1>1, <1>2 DEF Chain
<1>4. \A m, n \in Listed' \cup {First} : link'[m] = link'[n] /\ link'[m] # Null => m = n
  BY <1>1, <1>2 DEF Chain
<1>5. ASSUME NEW S \in SUBSET (Listed'),
             link'[First] \in S \cup {Null}, \A n \in S : link'[n] \in S \cup {Null}
      PROVE  S = Listed'
  <2>1. CASE c \in S \cup {First}
    <3> DEFINE T == S \cup {x}
    <3>1. link[First] \in T \cup {Null} /\ \A n \in T : link[n] \in T \cup {Null}
      BY <1>1, <1>5, <2>1
    <3>2. T \in SUBSET Listed
      OBVIOUS
    <3>3. T = Listed
      BY <3>1, <3>2 DEF Chain
    <3> QED
      BY <3>3
  <2>2. CASE c \notin S \cup {First}
    <3>1. link[First] \in S \cup {Null} /\ \A n \in S : link[n] \in S \cup {Null}
      BY <1>1, <1>5, <2>2
    <3>2. S \in SUBSET Listed
      OBVIOUS
    <3>3. S = Listed
      BY <3>1, <3>2 DEF Chain
    <3> QED
      BY <3>3
  <2> QED
    BY <2>1, <2>2
<1> QED
  BY <1>2, <1>3, <1>4, <1>5 DEF Chain

LEMMA ChainStays ==
  ASSUME Chain, Listed' = Listed, \A n \in Listed \cup {First} : link'[n] = link[n]
  PROVE  Chain'
BY DEF Chain

\* A step that neither creates nor destroys a coroutine and does not touch the list.
LEMMA LoopStays ==
  ASSUME LoopList, UNCHANGED <<program, link, child>>, Live' = Live,
         \A t \in Threads : pc'[t] = "link" <=> pc[t] = "link",
         pc'[Main] = "remove" => cursor' \in Listed \cup {First},
         pc'[Main] \in {"stop", "join", "ended"} => Live = {}
  PROVE  LoopList'
<1>1. Threads' = Threads
  BY RigidProgram
<1>2. Listed' = Listed
  BY <1>1 DEF Listed
<1>3. Chain'
  BY <1>2, ChainStays DEF LoopList
<1>4. OneLinks'
  BY <1>1 DEF OneLinks, LoopList
<1> QED
  BY <1>2, <1>3, <1>4 DEF LoopList

\* What nobody but the loop thread can do when the list is confined to it.
LEMMA OnlyMain ==
  ASSUME program \in Programs, Confined
  PROVE  program.spawned # {} => Threads = {Main}
BY ProgramTypes DEF Confined, Threads, Workers

LEMMA ListedLive ==
  ASSUME OneLinks, pc[Main] # "link"
  PROVE  Listed = Live
BY DEF OneLinks, Listed

LEMMA EndsEmpty ==
  ASSUME LoopList, pc[Main] = "empty", link[First] = Null
  PROVE  Live = {}
<1>1. Listed = Live
  BY ListedLive DEF LoopList
<1>2. {} \in SUBSET Listed /\ link[First] \in {} \cup {Null}
  OBVIOUS
<1>3. {} = Listed
  BY <1>2 DEF LoopList, Chain
<1> QED
  BY <1>1, <1>3

\* The steps of the loop thread that leave the groups alone.
LEMMA LoopMain ==
  ASSUME IInv, LoopList, UNCHANGED program,
         \/ CheckEmpty \/ DispatchLocal \/ DispatchInPlace \/ DispatchEnd \/ Commit
         \/ CommitPush \/ CommitEnd \/ RemoveSkip \/ RemoveEnd \/ RequestStop \/ Join
         \/ Launch \/ Ended
  PROVE  LoopList'
<1>1. program \in Programs /\ TypeOK /\ Main \in Threads
  BY ProgramTypes DEF IInv
<1>2. UNCHANGED <<link, child, state>>
  BY DEF CheckEmpty, DispatchLocal, DispatchInPlace, DispatchEnd, Commit, CommitPush, CommitEnd,
         RemoveSkip, RemoveEnd, RequestStop, Join, Launch, Ended, vars
<1>3. Live' = Live
  BY <1>2 DEF Live
<1>4. \A t \in Threads : pc'[t] = "link" <=> pc[t] = "link"
  <2>1. CASE Launch
    <3>1. ASSUME NEW t \in Threads, pc[t] = "link" PROVE FALSE
      BY <2>1, <3>1 DEF Launch, LoopList, OneLinks
    <3> QED
      BY <2>1, <3>1 DEF Launch
  <2>2. CASE ~Launch
    BY <1>1, <2>2
    DEF CheckEmpty, DispatchLocal, DispatchInPlace, DispatchEnd, Commit, CommitPush, CommitEnd,
        RemoveSkip, RemoveEnd, RequestStop, Join, Ended, vars, Goto, TypeOK
  <2> QED
    BY <2>1, <2>2
<1>5. pc'[Main] = "remove" => cursor' \in Listed \cup {First}
  <2>1. CASE RemoveSkip
    <3>1. link[cursor] \in Listed
      BY <2>1 DEF RemoveSkip, LoopList, Chain
    <3> QED
      BY <2>1, <3>1 DEF RemoveSkip
  <2>2. CASE CommitEnd
    BY <2>2 DEF CommitEnd
  <2>3. CASE ~RemoveSkip /\ ~CommitEnd
    BY <1>1, <2>3
    DEF CheckEmpty, DispatchLocal, DispatchInPlace, DispatchEnd, Commit, CommitPush,
        RemoveEnd, RequestStop, Join, Launch, Ended, vars, Goto, TypeOK, LoopList
  <2> QED
    BY <2>1, <2>2, <2>3
<1>6. pc'[Main] \in {"stop", "join", "ended"} => Live = {}
  <2>1. ASSUME CheckEmpty, pc'[Main] = "stop" PROVE Live = {}
    <3>1. pc[Main] = "empty" /\ link[First] = Null
      BY <1>1, <2>1 DEF CheckEmpty, Goto, TypeOK
    <3> QED
      BY <3>1, EndsEmpty
  <2>2. CASE ~CheckEmpty
    BY <1>1, <2>2
    DEF DispatchLocal, DispatchInPlace, DispatchEnd, Commit, CommitPush, CommitEnd,
        RemoveSkip, RemoveEnd, RequestStop, Join, Launch, Ended, vars, Goto, TypeOK, LoopList
  <2>3. CheckEmpty => pc'[Main] \in {"stop", "dispatch"}
    BY <1>1 DEF CheckEmpty, Goto, TypeOK
  <2> QED
    BY <2>1, <2>2, <2>3
<1> QED
  BY <1>2, <1>3, <1>4, <1>5, <1>6, LoopStays

LEMMA LoopWorker ==
  ASSUME IInv, LoopList, UNCHANGED program, NEW w \in Workers, WorkerStep(w)
  PROVE  LoopList'
<1>1. program \in Programs /\ TypeOK /\ Main \in Threads /\ w \in Threads /\ w # Main
  BY ProgramTypes DEF IInv
<1>2. UNCHANGED <<link, child, state, cursor>>
  BY DEF WorkerStep, WorkerStop, TryPopLocal, TrySteal, StealNext, StealNothing
<1>3. Live' = Live
  BY <1>2 DEF Live
<1>4. /\ pc'[w] # "link" /\ pc[w] # "link"
      /\ \A t \in Threads \ {w} : pc'[t] = pc[t]
  BY <1>1
  DEF WorkerStep, WorkerStop, TryPopLocal, TrySteal, StealNext, StealNothing, Goto, TypeOK
<1> QED
  BY <1>1, <1>2, <1>3, <1>4, LoopStays DEF LoopList

LEMMA LoopProgram ==
  ASSUME IInv, LoopList, UNCHANGED program, NEW g \in Groups, ProgramSpawn(g)
  PROVE  LoopList'
<1>1. /\ program \in Programs /\ TypeOK /\ Main \in Threads /\ Threads' = Threads
      /\ First \notin Groups
  BY ProgramTypes, RigidProgram, NodeAssumption DEF IInv
<1>2. /\ link'[g] = link[First] /\ link'[First] = g
      /\ \A n \in Groups \ {g} : link'[n] = link[n]
      /\ UNCHANGED <<pc, child>> /\ pc[Main] = "program"
      /\ state[g] = "unborn" /\ state'[g] = "suspended"
      /\ \A h \in Groups \ {g} : state'[h] = state[h]
  BY <1>1 DEF ProgramSpawn, TypeOK
<1>3. \A t \in Threads : pc[t] # "link"
  BY <1>2 DEF LoopList, OneLinks
<1>4. Live' = Live \cup {g} /\ g \notin Live
  BY <1>2 DEF Live
<1>5. Listed = Live /\ Listed' = Live'
  BY <1>1, <1>2, <1>3 DEF Listed
<1>6. \A n \in Listed : link'[n] = link[n]
  BY <1>2, <1>4, <1>5 DEF Live
<1>7. Chain'
  BY <1>2, <1>4, <1>5, <1>6, ChainPrepend DEF LoopList
<1>8. OneLinks'
  BY <1>1, <1>2, <1>3 DEF OneLinks
<1> QED
  BY <1>2, <1>7, <1>8 DEF LoopList

LEMMA LoopRemove ==
  ASSUME IInv, LoopList, UNCHANGED program, RemoveDone
  PROVE  LoopList'
<1> SUFFICES ASSUME NEW c, c = cursor, NEW x, x = link[cursor] PROVE LoopList'
  OBVIOUS
<1>1. /\ program \in Programs /\ TypeOK /\ Main \in Threads /\ Threads' = Threads
  BY ProgramTypes, RigidProgram DEF IInv
<1>2. /\ pc[Main] = "remove" /\ link[c] = x /\ x # Null
      /\ c \in Listed \cup {First}
  BY DEF RemoveDone, LoopList
<1>3. x \in Listed /\ x \in Live
  BY <1>2 DEF LoopList, Chain, Listed
<1>4. /\ link'[c] = link[x]
      /\ \A n \in (Groups \cup {First}) \ {c} : link'[n] = link[n]
      /\ state'[x] = "destroyed"
      /\ \A h \in Groups \ {x} : state'[h] = state[h]
      /\ UNCHANGED <<pc, child, cursor>>
  BY <1>1, <1>2, <1>3 DEF RemoveDone, TypeOK, Live
<1>5. \A t \in Threads : pc[t] # "link"
  BY <1>2 DEF LoopList, OneLinks
<1>6. Live' = Live \ {x} /\ Listed = Live /\ Listed' = Live'
  BY <1>1, <1>3, <1>4, <1>5 DEF Live, Listed
<1>7. Chain' /\ c \in Listed' \cup {First}
  <2>1. \A n \in (Listed \cup {First}) \ {c} : link'[n] = link[n]
    BY <1>4 DEF Listed, Live
  <2> QED
    BY <1>2, <1>3, <1>4, <1>6, <2>1, ChainRemove DEF LoopList
<1>8. OneLinks'
  BY <1>1, <1>4, <1>5 DEF OneLinks
<1> QED
  BY <1>2, <1>4, <1>7, <1>8 DEF LoopList

LEMMA LoopResume ==
  ASSUME IInv, Handled, Confined, LoopList, UNCHANGED program, NEW t \in Threads, ResumeStep(t)
  PROVE  LoopList'
<1>1. /\ program \in Programs /\ TypeOK /\ Main \in Threads /\ Threads' = Threads
      /\ First \notin Groups
  BY ProgramTypes, RigidProgram, NodeAssumption DEF IInv
<1>2. \A u \in Threads \ {t} : pc'[u] = pc[u] /\ child'[u] = child[u]
  BY ResumeLeaves
<1>3. /\ UNCHANGED cursor
      /\ pc[t] \in {"acquire", "run", "suspend", "link", "spawn", "release"}
      /\ pc'[t] \in {"run", "suspend", "release", "dispatch", "pop", "link", "spawn"}
  BY <1>1
  DEF ResumeStep, Acquire, YieldPost, Suspend, SpawnNode, SpawnLink, SpawnPush, Finish, Release,
      Goto, TypeOK
<1>4. ASSUME Live' = Live, UNCHANGED <<link, child>>, pc'[t] # "link", pc[t] # "link"
      PROVE  LoopList'
  BY <1>1, <1>2, <1>3, <1>4, LoopStays DEF LoopList
<1>5. CASE Acquire(t)
  <2>1. cur[t] \in Groups /\ pc[t] = "acquire" /\ Somewhere(cur[t]) /\ pc'[t] = "run"
    BY <1>1, <1>5 DEF Acquire, Goto, TypeOK, IInv, Scheduled, Spawned, Somewhere, Carried
  <2>2. state[cur[t]] \notin {"unborn", "destroyed"}
    BY <2>1 DEF Handled, GroupState
  <2>3. Live' = Live
    BY <1>1, <1>5, <2>1, <2>2 DEF Live, Acquire, TypeOK
  <2> QED
    BY <1>4, <1>5, <2>1, <2>3 DEF Acquire
<1>6. CASE YieldPost(t) \/ SpawnPush(t) \/ Release(t)
  <2>1. UNCHANGED <<link, child, state>> /\ pc'[t] # "link" /\ pc[t] # "link"
    BY <1>1, <1>6 DEF YieldPost, SpawnPush, Release, Goto, TypeOK
  <2>2. Live' = Live
    BY <2>1 DEF Live
  <2> QED
    BY <1>4, <2>1, <2>2
<1>7. CASE Suspend(t) \/ Finish(t)
  <2>1. /\ UNCHANGED <<link, child>> /\ pc'[t] # "link" /\ pc[t] # "link"
        /\ state[cur[t]] = "running" /\ cur[t] \in Groups
    BY <1>1, <1>7, AloneInside
    DEF Suspend, Finish, Goto, TypeOK, Handled, ThreadState, Inside
  <2>2. Live' = Live
    BY <1>1, <1>7, <2>1 DEF Live, Suspend, Finish, TypeOK
  <2> QED
    BY <1>4, <2>1, <2>2
<1>8. ASSUME NEW g \in Groups, SpawnNode(t, g) PROVE LoopList'
  <2>1. Threads = {Main} /\ t = Main
    BY <1>1, <1>8, OnlyMain DEF SpawnNode
  <2>2. /\ pc[t] = "run" /\ pc'[t] = "link" /\ child'[t] = g
        /\ state[g] = "unborn" /\ state'[g] = "suspended"
        /\ \A h \in Groups \ {g} : state'[h] = state[h]
        /\ link'[g] = link[First]
        /\ \A n \in (Groups \cup {First}) \ {g} : link'[n] = link[n]
    BY <1>1, <1>8 DEF SpawnNode, Goto, TypeOK
  <2>3. Live' = Live \cup {g} /\ g \notin Live
    BY <2>2 DEF Live
  <2>4. Listed = Live /\ Listed' = Live
    BY <1>1, <2>1, <2>2, <2>3 DEF Listed
  <2>5. Chain'
    <3>1. \A n \in Listed \cup {First} : link'[n] = link[n]
      BY <1>1, <2>2, <2>3, <2>4 DEF Live
    <3> QED
      BY <2>4, <3>1, ChainStays DEF LoopList
  <2>6. link'[First] = link[First]
    BY <1>1, <2>2
  <2>7. OneLinks'
    BY <1>1, <2>1, <2>2, <2>3, <2>6 DEF OneLinks
  <2> QED
    BY <2>1, <2>2, <2>5, <2>7 DEF LoopList
<1>9. CASE SpawnLink(t)
  <2>1. t = Main /\ Threads = {Main} /\ child[t] \in Live /\ link[child[t]] = link[First]
    BY <1>9 DEF SpawnLink, LoopList, OneLinks
  <2>2. /\ pc[t] = "link" /\ pc'[t] = "spawn" /\ UNCHANGED <<child, state>>
        /\ link'[First] = child[t]
        /\ \A n \in Groups : link'[n] = link[n]
    BY <1>1, <1>9 DEF SpawnLink, Goto, TypeOK
  <2>3. Live' = Live
    BY <2>2 DEF Live
  <2>4. /\ Listed' = Listed \cup {child[t]} /\ child[t] \notin Listed /\ child[t] \in Groups
    BY <1>1, <2>1, <2>2, <2>3 DEF Listed, Live
  <2>5. Chain'
    <3>1. \A n \in Listed : link'[n] = link[n]
      BY <2>2 DEF Listed, Live
    <3> QED
      BY <2>1, <2>2, <2>4, <3>1, ChainPrepend DEF LoopList, Live
  <2>6. OneLinks'
    BY <1>1, <2>1, <2>2 DEF OneLinks
  <2> QED
    BY <2>1, <2>2, <2>5, <2>6 DEF LoopList
<1> QED
  BY <1>5, <1>6, <1>7, <1>8, <1>9 DEF ResumeStep

LEMMA LoopNext ==
  ASSUME IInv, Handled, Confined, LoopList, [Next]_vars
  PROVE  LoopList' /\ Confined'
<1>1. UNCHANGED program
  BY DEF Next, vars
<1>2. Confined'
  BY <1>1, RigidProgram DEF Confined
<1> SUFFICES LoopList'
  BY <1>2
<1>3. CASE UNCHANGED vars
  <2>1. UNCHANGED <<program, link, child, state, pc, cursor>>
    BY <1>3 DEF vars
  <2>2. Live' = Live
    BY <2>1 DEF Live
  <2> QED
    BY <2>1, <2>2, LoopStays DEF LoopList
<1>4. CASE Next
  <2>1. ASSUME NEW g \in Groups, ProgramSpawn(g) PROVE LoopList'
    BY <1>1, <2>1, LoopProgram
  <2>2. CASE MainStep \/ Launch \/ Ended
    BY <1>1, <2>2, LoopMain, LoopRemove DEF MainStep
  <2>3. ASSUME NEW w \in Workers, WorkerStep(w) PROVE LoopList'
    BY <1>1, <2>3, LoopWorker
  <2>4. ASSUME NEW t \in Threads, ResumeStep(t) PROVE LoopList'
    BY <1>1, <2>4, LoopResume
  <2> QED
    BY <1>4, <2>1, <2>2, <2>3, <2>4 DEF Next
<1> QED
  BY <1>3, <1>4

LEMMA LoopInit == Init => LoopList
<1> SUFFICES ASSUME Init PROVE LoopList
  OBVIOUS
<1>1. Live = {} /\ Listed = {}
  BY DEF Init, Live, Listed
<1>2. link[First] = Null
  BY DEF Init
<1>3. Chain
  BY <1>1, <1>2 DEF Chain
<1>4. OneLinks
  BY DEF Init, OneLinks
<1>5. pc[Main] # "remove"
  BY ProgramTypes DEF Init
<1> QED
  BY <1>1, <1>3, <1>4, <1>5 DEF LoopList

\* loop() returns only when every coroutine spawned so far has been destroyed, if the
\* list is only ever linked by the thread that walks it: without workers, or when no
\* coroutine spawns another (frame_lifetime.hpp:45-85, execution_context.hpp:43-53). With
\* workers that spawn it does not hold, see the run spawn_on_workers.
THEOREM LoopLeavesNobody == Spec => [](Confined => LoopEndsLast)
<1>1. Init => Handled /\ LoopList
  BY InitHandled, LoopInit
<1>2. IInv /\ Handled /\ [Next]_vars => Handled'
  BY HandledNext
<1>3. IInv /\ Handled /\ (Confined => LoopList) /\ [Next]_vars => (Confined => LoopList)'
  <2>1. [Next]_vars => (Confined' => Confined)
    BY RigidProgram DEF Confined, Next, vars
  <2> QED
    BY <2>1, LoopNext
<1>4. (Confined => LoopList) => (Confined => LoopEndsLast)
  BY DEF LoopList, Live, LoopEndsLast
<1> QED
  BY <1>1, <1>2, <1>3, <1>4, Invariance, PTL DEF Spec
=============================================================================
