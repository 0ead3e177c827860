--------------------------- MODULE ServicesProofs ---------------------------
(***************************************************************************)
(* Theorems about the registry of services and the lists of frames in      *)
(* them, for any number of threads and of types of services.               *)
(***************************************************************************)
EXTENDS Services, ListFacts, FiniteSetTheorems, TLAPS

Labels == {"find", "append", "build", "built", "wait", "exchange", "inside", "unlock", "notify",
           "suspended", "pass", "push"}

\* The types of the variables.
Typed ==
  /\ type \in [Posters -> Types]
  /\ next \in [Posters \cup {Head0} -> Posters \cup {Null}]
  /\ built \in [Posters -> BOOLEAN]
  /\ condition \in [Posters -> BOOLEAN]
  /\ stage \in [Threads -> Labels]
  /\ position \in [Threads -> Posters \cup {Head0}]
  /\ locked \in [Posters -> BOOLEAN] /\ blocked \in [Posters -> SUBSET Threads]
  /\ forward \in [Posters -> Seq(Posters)]
  /\ outstanding \in Seq(Posters) /\ pushed \in Seq(Posters)

Nodes == Entries \cup {Head0}

\* A set of entries that holds, with an entry, those that follow it.
Closed(S) == \A n \in S : next[n] \in S \cup {Null}

\* The list ends: it has one last node, and who follows it gets there.
Ends ==
  /\ \A n \in Posters \ Entries : next[n] = Null
  /\ \A m, n \in Nodes : next[m] = Null /\ next[n] = Null => m = n
  /\ \A S \in SUBSET Entries : S # {} /\ Closed(S) => \E n \in S : next[n] = Null

\* The entries from n on, and those behind n, are among S.
From(n, S) == IF n = Head0 THEN next[n] \in S \cup {Null} ELSE n \in S
Behind(n, S) == next[n] \in S \cup {Null}

\* A thread has passed no entry of its type: those there are are ahead of it.
Ahead ==
  \A t \in Posters, S \in SUBSET Entries :
    /\ Closed(S)
    /\ \/ stage[t] = "find" /\ From(position[t], S)
       \/ stage[t] = "append" /\ Behind(position[t], S)
    => \A m \in Entries : type[m] = type[t] => m \in S

\* Where the threads are in the list.
Placed ==
  /\ \A t \in Threads : position[t] \in Nodes
  /\ \A t \in Threads : stage[t] = "built" => position[t] \in Entries
  /\ \A t \in Posters : stage[t] \in {"find", "append"} => t \notin Entries
  /\ stage[Loop] \in {"pass", "built", "wait", "exchange", "inside", "unlock", "notify", "push"}
  /\ \A t \in Posters : stage[t] \notin {"pass", "push"}

\* Who is inside a service holds its lock, alone.
Locked ==
  \A t \in Threads : stage[t] \in {"inside", "unlock"} =>
    /\ locked[position[t]]
    /\ \A u \in Threads \ {t} : stage[u] \in {"inside", "unlock"} => position[u] # position[t]

Posted == {t \in Posters : stage[t] \in {"unlock", "notify", "suspended"}}
All == pushed \o outstanding

\* The frame of each poster that has posted it is in one place, and no other frame is in
\* any.
Frames ==
  /\ IsInjective(pushed) /\ IsInjective(outstanding)
  /\ ToSet(pushed) \cap ToSet(outstanding) = {}
  /\ ToSet(pushed) \cup ToSet(outstanding) \subseteq Posted
  /\ \A n \in Posters :
       /\ IsInjective(forward[n]) /\ ToSet(forward[n]) \subseteq Posted
       /\ ToSet(forward[n]) \cap (ToSet(pushed) \cup ToSet(outstanding)) = {}
       /\ n \notin Entries => forward[n] = <<>>
       /\ \A m \in Posters \ {n} : ToSet(forward[n]) \cap ToSet(forward[m]) = {}
  /\ \A t \in Posted :
       \/ t \in ToSet(pushed) \cup ToSet(outstanding)
       \/ \E n \in Posters : t \in ToSet(forward[n])
  /\ stage[Loop] \notin {"unlock", "notify", "push"} => outstanding = <<>>

-----------------------------------------------------------------------------
(* Lists *)

\* The elements at chosen positions of a list, in order.
LEMMA AtPositions ==
  ASSUME NEW S, NEW s \in Seq(S), NEW I, I \subseteq DOMAIN s
  PROVE  /\ Selected(s, I) \in Seq(S)
         /\ ToSet(Selected(s, I)) = {s[i] : i \in I}
         /\ IsInjective(s) => IsInjective(Selected(s, I))
<1> DEFINE Upto(i) == {j \in I : j <= i}
           n == Cardinality(I)
           rank == [i \in I |-> Cardinality(Upto(i))]
           nth(k) == CHOOSE i \in I : Cardinality(Upto(i)) = k
<1>1. IsFiniteSet(I) /\ n \in Nat /\ I \subseteq Int
  <2>1. DOMAIN s = 1..Len(s) /\ Len(s) \in Nat
    OBVIOUS
  <2>2. IsFiniteSet(1..Len(s))
    BY <2>1, FS_Interval
  <2>3. IsFiniteSet(I)
    BY <2>1, <2>2, FS_Subset
  <2> QED
    BY <2>1, <2>3, FS_CardinalityType
<1>2. \A i \in I : IsFiniteSet(Upto(i)) /\ Cardinality(Upto(i)) \in 1..n
  <2> SUFFICES ASSUME NEW i \in I
               PROVE  IsFiniteSet(Upto(i)) /\ Cardinality(Upto(i)) \in 1..n
    OBVIOUS
  <2>1. Upto(i) \in SUBSET I /\ i \in Upto(i)
    BY <1>1
  <2>2. IsFiniteSet(Upto(i)) /\ Cardinality(Upto(i)) <= n
    BY <1>1, <2>1, FS_Subset
  <2>3. Cardinality(Upto(i)) \in Nat /\ Cardinality(Upto(i)) # 0
    BY <2>1, <2>2, FS_CardinalityType, FS_EmptySet
  <2> QED
    BY <1>1, <2>2, <2>3
<1>3. ASSUME NEW i \in I, NEW j \in I, i < j PROVE Cardinality(Upto(i)) # Cardinality(Upto(j))
  <2>1. Upto(i) \in SUBSET Upto(j) /\ j \in Upto(j) /\ j \notin Upto(i)
    BY <1>1, <1>3
  <2>2. IsFiniteSet(Upto(j)) /\ Upto(i) # Upto(j)
    BY <1>2, <2>1
  <2> QED
    BY <2>1, <2>2, FS_Subset
<1>4. rank \in Injection(I, 1..n)
  <2>1. \A i, j \in I : rank[i] = rank[j] => i = j
    <3> SUFFICES ASSUME NEW i \in I, NEW j \in I, i # j PROVE rank[i] # rank[j]
      OBVIOUS
    <3>1. i < j \/ j < i
      BY <1>1
    <3> HIDE DEF Upto
    <3> QED
      BY <1>3, <3>1
  <2>2. rank \in [I -> 1..n]
    BY <1>2
  <2> HIDE DEF rank
  <2> QED
    BY <2>1, <2>2 DEF Injection, IsInjective
<1>5. rank \in Surjection(I, 1..n)
  <2>1. IsFiniteSet(1..n) /\ Cardinality(1..n) = n
    BY <1>1, FS_Interval
  <2> HIDE DEF rank
  <2> QED
    BY <1>4, <2>1, FS_Injection
<1>6. \A k \in 1..n : \E i \in I : Cardinality(Upto(i)) = k
  BY <1>5 DEF Surjection
<1>7. \A k \in 1..n : nth(k) \in I /\ Cardinality(Upto(nth(k))) = k
  BY <1>6
<1>8. Selected(s, I) = [k \in 1..n |-> s[nth(k)]]
  BY DEF Selected
<1>9. \A i \in I : \E k \in 1..n : nth(k) = i
  <2> SUFFICES ASSUME NEW i \in I PROVE \E k \in 1..n : nth(k) = i
    OBVIOUS
  <2>1. Cardinality(Upto(i)) \in 1..n
    BY <1>2
  <2>2. nth(Cardinality(Upto(i))) \in I
    BY <1>7, <2>1
  <2>3. Cardinality(Upto(nth(Cardinality(Upto(i))))) = Cardinality(Upto(i))
    BY <1>7, <2>1
  <2>4. nth(Cardinality(Upto(i))) = i
    BY <1>4, <2>2, <2>3 DEF Injection, IsInjective
  <2> QED
    BY <2>1, <2>4
<1>10. \A k, m \in 1..n : nth(k) = nth(m) => k = m
  BY <1>7
<1> HIDE DEF nth, rank, Upto, n
<1>11. \A k \in 1..n : nth(k) \in DOMAIN s /\ s[nth(k)] \in S
  BY <1>7
<1>12. Selected(s, I) \in Seq(S) /\ DOMAIN Selected(s, I) = 1..n
  BY <1>1, <1>8, <1>11
<1>13. ToSet(Selected(s, I)) = {s[i] : i \in I}
  BY <1>7, <1>8, <1>9, <1>12 DEF ToSet
<1>14. IsInjective(s) => IsInjective(Selected(s, I))
  BY <1>8, <1>10, <1>11, <1>12 DEF IsInjective
<1> QED
  BY <1>12, <1>13, <1>14

-----------------------------------------------------------------------------
(* Types *)

LEMMA InitTyped == ServicesInit => Typed
<1> SUFFICES ASSUME ServicesInit PROVE Typed
  OBVIOUS
<1>1. /\ locked = [l \in Posters |-> FALSE] /\ blocked = [l \in Posters |-> {}]
      /\ Threads = Posters \cup {Loop}
  BY ServicesAssumption DEF ServicesInit, LockInit
<1>2. stage \in [Threads -> Labels]
  BY DEF ServicesInit, Labels
<1>3. forward \in [Posters -> Seq(Posters)]
  BY DEF ServicesInit
<1>4. outstanding \in Seq(Posters) /\ pushed \in Seq(Posters)
  BY DEF ServicesInit
<1> QED
  BY <1>1, <1>2, <1>3, <1>4 DEF ServicesInit, Typed

\* The lock of the service at hand.
LEMMA LockTyped ==
  ASSUME Typed, NEW t \in Threads, position[t] \in Posters, LockStep(t)
  PROVE  Typed'
<1> DEFINE l == position[t]
<1>1. UNCHANGED <<type, next, built, position, forward, outstanding, pushed, condition>>
  BY DEF LockStep, registry, frames
<1>2. stage' \in [Threads -> Labels]
  BY DEF LockStep, LockWait, LockExchange, Unlock, Notify, ToStage, Typed, Labels
<1>3. locked' \in [Posters -> BOOLEAN]
  BY DEF LockStep, LockWait, LockExchange, Unlock, Notify, Typed, lockVars
<1>4. blocked' \in [Posters -> SUBSET Threads]
  <2>1. CASE UNCHANGED blocked
    BY <2>1 DEF Typed
  <2>2. CASE blocked' = [blocked EXCEPT ![l] = @ \cup {t}]
    BY <2>2 DEF Typed
  <2>3. ASSUME NEW u, blocked' = [blocked EXCEPT ![l] = @ \ {u}]
        PROVE  blocked' \in [Posters -> SUBSET Threads]
    BY <2>3 DEF Typed
  <2> QED
    BY <2>1, <2>2, <2>3 DEF LockStep, LockWait, LockExchange, Unlock, Notify
<1> QED
  BY <1>1, <1>2, <1>3, <1>4 DEF Typed

LEMMA TakeLists ==
  ASSUME Typed, Take, position[Loop] \in Posters
  PROVE  LET n == position[Loop]
         IN  /\ outstanding' \in Seq(Posters) /\ forward'[n] \in Seq(Posters)
             /\ \A m \in Posters \ {n} : forward'[m] = forward[m]
             /\ forward' \in [Posters -> Seq(Posters)]
             /\ ToSet(outstanding') = {t \in ToSet(forward[n]) : condition[t]}
             /\ ToSet(forward'[n]) = {t \in ToSet(forward[n]) : ~condition[t]}
             /\ IsInjective(forward[n]) => IsInjective(outstanding') /\ IsInjective(forward'[n])
<1> SUFFICES ASSUME NEW n \in Posters, n = position[Loop], NEW s \in Seq(Posters), s = forward[n]
             PROVE  /\ outstanding' \in Seq(Posters) /\ forward'[n] \in Seq(Posters)
                    /\ \A m \in Posters \ {n} : forward'[m] = forward[m]
                    /\ forward' \in [Posters -> Seq(Posters)]
                    /\ ToSet(outstanding') = {t \in ToSet(s) : condition[t]}
                    /\ ToSet(forward'[n]) = {t \in ToSet(s) : ~condition[t]}
                    /\ IsInjective(s) => IsInjective(outstanding') /\ IsInjective(forward'[n])
  BY DEF Typed
<1> DEFINE ready == {i \in DOMAIN s : condition[s[i]]}
           rest == DOMAIN s \ ready
<1>1. outstanding' = Reverse(Selected(s, ready)) /\ forward' = [forward EXCEPT ![n] = Selected(s, rest)]
  BY DEF Take
<1>2. /\ {s[i] : i \in ready} = {t \in ToSet(s) : condition[t]}
      /\ {s[i] : i \in rest} = {t \in ToSet(s) : ~condition[t]}
  BY DEF ToSet
<1>3. ready \subseteq DOMAIN s /\ rest \subseteq DOMAIN s
  OBVIOUS
<1> HIDE DEF ready, rest
<1>4. /\ Selected(s, ready) \in Seq(Posters)
      /\ ToSet(Selected(s, ready)) = {s[i] : i \in ready}
      /\ IsInjective(s) => IsInjective(Selected(s, ready))
  BY <1>3, AtPositions
<1>5. /\ Selected(s, rest) \in Seq(Posters)
      /\ ToSet(Selected(s, rest)) = {s[i] : i \in rest}
      /\ IsInjective(s) => IsInjective(Selected(s, rest))
  BY <1>3, AtPositions
<1>6. /\ Reverse(Selected(s, ready)) \in Seq(Posters)
      /\ ToSet(Reverse(Selected(s, ready))) = ToSet(Selected(s, ready))
      /\ IsInjective(s) => IsInjective(Reverse(Selected(s, ready)))
  BY <1>4, ListReverse
<1>7. forward'[n] = Selected(s, rest) /\ \A m \in Posters \ {n} : forward'[m] = forward[m]
  BY <1>1 DEF Typed
<1>8. forward' \in [Posters -> Seq(Posters)]
  BY <1>1, <1>5 DEF Typed
<1> QED
  BY <1>1, <1>2, <1>4, <1>5, <1>6, <1>7, <1>8

LEMMA TypedNext ==
  ASSUME Typed, Placed, OneInstance, [ServicesNext]_servicesVars
  PROVE  Typed'
<1>1. /\ Threads = Posters \cup {Loop} /\ Loop \notin Posters
      /\ Head0 \notin Posters /\ Null \notin Posters
  BY ServicesAssumption, NodeAssumption
<1>2. \A t \in Threads :
        stage[t] \in {"wait", "exchange", "inside", "unlock", "notify"} => position[t] \in Posters
  BY DEF OneInstance, Entries
<1>3. ASSUME NEW t \in Threads, LockStep(t) PROVE Typed'
  BY <1>2, <1>3, LockTyped DEF LockStep
<1>4. ASSUME NEW t \in Threads, AwaitBuilt(t) PROVE Typed'
  BY <1>4 DEF AwaitBuilt, Typed, Labels, ToStage, lockVars, registry, frames
<1>5. ASSUME NEW t \in Posters, Find(t) PROVE Typed'
  <2>1. UNCHANGED <<type, next, built, condition, locked, blocked, forward, outstanding, pushed>>
    BY <1>5 DEF Find, lockVars, registry, frames
  <2>2. stage' \in [Threads -> Labels]
    BY <1>5 DEF Find, Typed, Labels, ToStage
  <2>3. next[position[t]] \in Posters \cup {Null}
    BY <1>1 DEF Typed
  <2>4. position' \in [Threads -> Posters \cup {Head0}]
    BY <1>1, <1>5, <2>3 DEF Find, Typed, Move
  <2> QED
    BY <2>1, <2>2, <2>4 DEF Typed
<1>6. ASSUME NEW t \in Posters, AppendEntry(t) PROVE Typed'
  <2>1. UNCHANGED <<type, built, condition, locked, blocked, forward, outstanding, pushed>>
    BY <1>6 DEF AppendEntry, lockVars, frames
  <2>2. stage' \in [Threads -> Labels]
    <3>1. ToStage(t, "build") \/ ToStage(t, "find")
      BY <1>6 DEF AppendEntry
    <3> QED
      BY <3>1 DEF Typed, Labels, ToStage
  <2>3. next[position[t]] \in Posters \cup {Null}
    BY <1>1 DEF Typed
  <2>4. position' \in [Threads -> Posters \cup {Head0}]
    BY <1>1, <1>6, <2>3 DEF AppendEntry, Typed, Move
  <2>5. next' \in [Posters \cup {Head0} -> Posters \cup {Null}]
    <3>1. UNCHANGED next \/ next' = [next EXCEPT ![position[t]] = t]
      BY <1>6 DEF AppendEntry
    <3> QED
      BY <3>1 DEF Typed
  <2> QED
    BY <2>1, <2>2, <2>4, <2>5 DEF Typed
<1>7. ASSUME NEW t \in Posters, Build(t) PROVE Typed'
  BY <1>1, <1>7 DEF Build, Typed, Labels, ToStage, Move, lockVars, frames
<1>8. ASSUME NEW t \in Posters, Post(t) PROVE Typed'
  <2>1. UNCHANGED <<type, next, built, position, condition, locked, blocked, outstanding, pushed>>
    BY <1>8 DEF Post, lockVars, registry
  <2>2. stage' \in [Threads -> Labels]
    BY <1>8 DEF Post, Typed, Labels, ToStage
  <2>3. position[t] \in Posters
    BY <1>1, <1>2, <1>8 DEF Post
  <2>4. <<t>> \o forward[position[t]] \in Seq(Posters)
    BY <2>3 DEF Typed
  <2>5. forward' \in [Posters -> Seq(Posters)]
    BY <1>8, <2>3, <2>4 DEF Post, Typed
  <2> QED
    BY <2>1, <2>2, <2>5 DEF Typed
<1>9. ASSUME NEW t \in Posters, Satisfy(t) PROVE Typed'
  BY <1>9 DEF Satisfy, Typed, lockVars, registry, frames
<1>10. CASE CommitNext
  <2>1. UNCHANGED <<type, next, built, condition, locked, blocked, forward, outstanding, pushed>>
    BY <1>10 DEF CommitNext, lockVars, registry, frames
  <2>2. stage' \in [Threads -> Labels]
    BY <1>10 DEF CommitNext, Typed, Labels, ToStage
  <2>3. next[position[Loop]] \in Posters \cup {Null}
    BY <1>1 DEF Typed
  <2>4. position' \in [Threads -> Posters \cup {Head0}]
    BY <1>1, <1>10, <2>3 DEF CommitNext, Typed, Move
  <2> QED
    BY <2>1, <2>2, <2>4 DEF Typed
<1>11. CASE Take
  <2>1. UNCHANGED <<type, next, built, condition, locked, blocked, position, pushed>>
    BY <1>11 DEF Take, lockVars, registry
  <2>2. stage' \in [Threads -> Labels]
    BY <1>11 DEF Take, Typed, Labels, ToStage
  <2>3. position[Loop] \in Posters
    BY <1>1, <1>2, <1>11 DEF Take
  <2>4. forward' \in [Posters -> Seq(Posters)] /\ outstanding' \in Seq(Posters)
    BY <1>11, <2>3, TakeLists
  <2> QED
    BY <2>1, <2>2, <2>4 DEF Typed
<1>12. CASE Push
  <2>1. UNCHANGED <<type, next, built, condition, locked, blocked, position, forward>>
    BY <1>12 DEF Push, lockVars, registry
  <2>2. stage' \in [Threads -> Labels]
    BY <1>12 DEF Push, Typed, Labels, ToStage
  <2>3. pushed' \in Seq(Posters) /\ outstanding' \in Seq(Posters)
    BY <1>12 DEF Push, Typed
  <2> QED
    BY <2>1, <2>2, <2>3 DEF Typed
<1>13. CASE UNCHANGED servicesVars
  BY <1>13 DEF servicesVars, lockVars, Typed
<1> QED
  BY <1>1, <1>3, <1>4, <1>5, <1>6, <1>7, <1>8, <1>9, <1>10, <1>11, <1>12, <1>13
  DEF ServicesNext, PosterStep, LoopStep

-----------------------------------------------------------------------------
(* The registry *)

Registry == Ends /\ Ahead /\ Placed /\ OneInstance

Around == {"wait", "exchange", "inside", "unlock", "notify"}

\* What a thread may find ahead of it, for one thread.
AheadOf(t) ==
  \A S \in SUBSET Entries :
    /\ Closed(S)
    /\ \/ stage[t] = "find" /\ From(position[t], S)
       \/ stage[t] = "append" /\ Behind(position[t], S)
    => \A m \in Entries : type[m] = type[t] => m \in S

PlacedAt(t) ==
  /\ position[t] \in Nodes
  /\ stage[t] = "built" => position[t] \in Entries
  /\ t \in Posters => /\ stage[t] \in {"find", "append"} => t \notin Entries
                      /\ stage[t] \notin {"pass", "push"}
                      /\ stage[t] = "build" => t \in Entries
  /\ t = Loop => stage[t] \in {"pass", "built", "push"} \cup Around
  /\ stage[t] \in Around => position[t] \in Entries /\ built[position[t]]

LEMMA RegistryParts ==
  /\ Registry <=> /\ Ends
                  /\ \A t \in Posters : AheadOf(t)
                  /\ \A t \in Threads : PlacedAt(t)
                  /\ \A m, n \in Entries : type[m] = type[n] => m = n
BY ServicesAssumption DEF Registry, Ahead, AheadOf, Placed, PlacedAt, OneInstance, Around

LEMMA RegistryPartsPrime ==
  /\ Registry' <=> /\ Ends'
                   /\ \A t \in Posters : AheadOf(t)'
                   /\ \A t \in Threads : PlacedAt(t)'
                   /\ \A m, n \in Entries' : type'[m] = type'[n] => m = n
BY ServicesAssumption DEF Registry, Ahead, AheadOf, Placed, PlacedAt, OneInstance, Around

\* The list stays as it is and one thread moves.
LEMMA RegistryStays ==
  ASSUME Typed, Registry, UNCHANGED registry, NEW t \in Threads,
         \A u \in Threads \ {t} : stage'[u] = stage[u] /\ position'[u] = position[u],
         t \in Posters => AheadOf(t)', PlacedAt(t)'
  PROVE  Registry'
<1>1. Entries' = Entries /\ Nodes' = Nodes /\ UNCHANGED <<type, next, built>>
  BY DEF registry, Entries, Nodes
<1>2. Ends'
  BY <1>1, RegistryParts DEF Ends, Closed
<1>3. ASSUME NEW u \in Posters, u # t PROVE AheadOf(u)'
  <2>1. AheadOf(u) /\ stage'[u] = stage[u] /\ position'[u] = position[u]
    BY <1>3, RegistryParts, ServicesAssumption
  <2> QED
    BY <1>1, <2>1 DEF AheadOf, Closed, From, Behind
<1>4. ASSUME NEW u \in Threads, u # t PROVE PlacedAt(u)'
  <2>1. PlacedAt(u) /\ stage'[u] = stage[u] /\ position'[u] = position[u]
    BY <1>4, RegistryParts
  <2> QED
    BY <1>1, <2>1 DEF PlacedAt
<1>5. \A m, n \in Entries' : type'[m] = type'[n] => m = n
  BY <1>1, RegistryParts
<1> QED
  BY <1>2, <1>3, <1>4, <1>5, RegistryPartsPrime

LEMMA LockRegistry ==
  ASSUME Typed, Registry, NEW t \in Threads, LockStep(t)
  PROVE  Registry'
<1>1. /\ UNCHANGED <<registry, position>> /\ stage[t] \in Around
      /\ stage'[t] \in Around \cup {IF t = Loop THEN "push" ELSE "suspended"}
      /\ \A u \in Threads \ {t} : stage'[u] = stage[u]
  BY DEF LockStep, LockWait, LockExchange, Unlock, Notify, ToStage, Typed, Around
<1>2. Entries' = Entries /\ Nodes' = Nodes
  BY <1>1 DEF registry, Entries, Nodes
<1>3. AheadOf(t)'
  BY <1>1 DEF AheadOf, Around
<1>4. PlacedAt(t)'
  <2>1. PlacedAt(t) /\ (t = Loop \/ t \in Posters) /\ Loop \notin Posters
    BY RegistryParts, ServicesAssumption
  <2> QED
    BY <1>1, <1>2, <2>1 DEF PlacedAt, Around, registry
<1> QED
  BY <1>1, <1>3, <1>4, RegistryStays

LEMMA SearchRegistry ==
  ASSUME Typed, Registry, NEW t \in Posters,
         Find(t) \/ (AppendEntry(t) /\ next[position[t]] # Null)
  PROVE  Registry'
<1> DEFINE here == position[t]
<1>1. t \in Threads /\ t # Loop /\ Head0 \notin Posters /\ Null \notin Posters
  BY ServicesAssumption, NodeAssumption
<1>2. UNCHANGED <<type, next, built>> /\ Entries' = Entries /\ Nodes' = Nodes
  BY DEF Find, AppendEntry, registry, Entries, Nodes
<1>3. /\ AheadOf(t) /\ PlacedAt(t)
      /\ here \in Nodes /\ next[here] \in Posters \cup {Null} /\ t \notin Entries
      /\ next[here] # Null => next[here] \in Entries
  <2>1. AheadOf(t) /\ PlacedAt(t)
    BY <1>1, RegistryParts
  <2>2. here \in Nodes /\ here \in Posters \cup {Head0}
    BY <2>1 DEF PlacedAt, Nodes, Entries
  <2>3. next[here] \in Posters \cup {Null}
    BY <2>2 DEF Typed
  <2>4. next[here] # Null => next[here] \in Entries
    BY <2>2, <2>3 DEF Entries
  <2>5. t \notin Entries
    BY <2>1 DEF PlacedAt, Find, AppendEntry
  <2> QED
    BY <2>1, <2>2, <2>3, <2>4, <2>5
<1>4. \A u \in Threads \ {t} : stage'[u] = stage[u] /\ position'[u] = position[u]
  BY DEF Find, AppendEntry, ToStage, Move, Typed
<1>5. CASE Find(t) /\ here # Head0 /\ type[here] = type[t]
  <2>1. stage'[t] = "built" /\ position'[t] = here
    BY <1>1, <1>5 DEF Find, ToStage, Typed
  <2>2. here \in Entries
    BY <1>3, <1>5 DEF Nodes
  <2>3. PlacedAt(t)' /\ AheadOf(t)'
    BY <1>1, <1>2, <1>3, <2>1, <2>2 DEF PlacedAt, AheadOf, Around
  <2> QED
    BY <1>1, <1>2, <1>4, <2>3, RegistryStays DEF registry
<1>6. CASE Find(t) /\ (here = Head0 \/ type[here] # type[t]) /\ next[here] = Null
  <2>1. stage[t] = "find" /\ stage'[t] = "append" /\ position'[t] = here
    BY <1>1, <1>6 DEF Find, ToStage, Typed
  <2>2. PlacedAt(t)'
    BY <1>1, <1>2, <1>3, <2>1 DEF PlacedAt, Around
  <2>3. AheadOf(t)'
    <3> SUFFICES ASSUME NEW S \in SUBSET Entries, Closed(S),
                        NEW m \in Entries, type[m] = type[t]
                 PROVE  m \in S
      BY <1>2, <2>1 DEF AheadOf, Closed
    <3>1. CASE here = Head0
      BY <1>3, <1>6, <2>1, <3>1 DEF AheadOf, From
    <3>2. CASE here # Head0
      <4> DEFINE T == S \cup {here}
      <4>1. here \in Entries
        BY <1>3, <3>2 DEF Nodes
      <4>2. T \in SUBSET Entries /\ Closed(T) /\ From(here, T)
        BY <1>6, <3>2, <4>1 DEF Closed, From
      <4>3. m \in T
        BY <1>3, <2>1, <4>2 DEF AheadOf
      <4> QED
        BY <1>6, <3>2, <4>3
    <3> QED
      BY <3>1, <3>2
  <2> QED
    BY <1>1, <1>2, <1>4, <2>2, <2>3, RegistryStays DEF registry
<1>7. CASE Find(t) /\ (here = Head0 \/ type[here] # type[t]) /\ next[here] # Null
  <2>1. stage[t] = "find" /\ stage'[t] = "find" /\ position'[t] = next[here]
    BY <1>1, <1>7 DEF Find, ToStage, Move, Typed
  <2>2. PlacedAt(t)'
    BY <1>1, <1>2, <1>3, <1>7, <2>1 DEF PlacedAt, Around, Nodes
  <2>3. AheadOf(t)'
    <3> SUFFICES ASSUME NEW S \in SUBSET Entries, Closed(S), next[here] \in S,
                        NEW m \in Entries, type[m] = type[t]
                 PROVE  m \in S
      BY <1>1, <1>2, <1>3, <1>7, <2>1 DEF AheadOf, Closed, From
    <3>1. CASE here = Head0
      BY <1>3, <2>1, <3>1 DEF AheadOf, From
    <3>2. CASE here # Head0
      <4> DEFINE T == S \cup {here}
      <4>1. here \in Entries
        BY <1>3, <3>2 DEF Nodes
      <4>2. T \in SUBSET Entries /\ Closed(T) /\ From(here, T)
        BY <3>2, <4>1 DEF Closed, From
      <4>3. m \in T
        BY <1>3, <2>1, <4>2 DEF AheadOf
      <4> QED
        BY <1>7, <3>2, <4>3
    <3> QED
      BY <3>1, <3>2
  <2> QED
    BY <1>1, <1>2, <1>4, <2>2, <2>3, RegistryStays DEF registry
<1>8. CASE AppendEntry(t) /\ next[here] # Null
  <2>1. stage[t] = "append" /\ stage'[t] = "find" /\ position'[t] = next[here]
    BY <1>1, <1>8 DEF AppendEntry, ToStage, Move, Typed
  <2>2. PlacedAt(t)'
    BY <1>1, <1>2, <1>3, <1>8, <2>1 DEF PlacedAt, Around, Nodes
  <2>3. AheadOf(t)'
    <3> SUFFICES ASSUME NEW S \in SUBSET Entries, Closed(S), next[here] \in S,
                        NEW m \in Entries, type[m] = type[t]
                 PROVE  m \in S
      BY <1>1, <1>2, <1>3, <1>8, <2>1 DEF AheadOf, Closed, From
    <3> QED
      BY <1>3, <2>1 DEF AheadOf, Behind
  <2> QED
    BY <1>1, <1>2, <1>4, <2>2, <2>3, RegistryStays DEF registry
<1> QED
  BY <1>5, <1>6, <1>7, <1>8

\* An entry is appended: nobody of its type has been overtaken.
LEMMA AppendRegistry ==
  ASSUME Typed, Registry, NEW t \in Posters, AppendEntry(t), next[position[t]] = Null
  PROVE  Registry'
<1> SUFFICES ASSUME NEW last, last = position[t] PROVE Registry'
  OBVIOUS
<1>1. t \in Threads /\ t # Loop /\ Head0 \notin Posters /\ Null \notin Posters
  BY ServicesAssumption, NodeAssumption
<1>2. /\ Ends /\ AheadOf(t) /\ PlacedAt(t)
      /\ \A m, n \in Entries : type[m] = type[n] => m = n
  BY <1>1, RegistryParts
<1>3. /\ stage[t] = "append" /\ stage'[t] = "build" /\ UNCHANGED <<type, built, position>>
      /\ \A u \in Threads \ {t} : stage'[u] = stage[u]
      /\ last \in Nodes /\ last \in Posters \cup {Head0} /\ next[last] = Null
      /\ t \notin Entries
  BY <1>1, <1>2 DEF AppendEntry, ToStage, Typed, PlacedAt, Nodes, Entries
<1>4. next'[last] = t /\ \A n \in (Posters \cup {Head0}) \ {last} : next'[n] = next[n]
  BY <1>3 DEF AppendEntry, Typed
<1>5. Entries' = Entries \cup {t} /\ Nodes' = Nodes \cup {t}
  BY <1>1, <1>3, <1>4 DEF Entries, Nodes
<1>6. next'[t] = Null /\ last # t
  BY <1>1, <1>2, <1>3, <1>4 DEF Ends, Nodes
<1>7. \A m \in Entries : type[m] # type[t]
  <2>1. {} \in SUBSET Entries /\ Closed({}) /\ Behind(last, {})
    BY <1>3 DEF Closed, Behind
  <2> QED
    BY <1>2, <1>3, <2>1 DEF AheadOf
<1>8. Ends'
  <2>1. \A n \in Posters \ Entries' : next'[n] = Null
    BY <1>1, <1>2, <1>3, <1>4, <1>5, <1>6 DEF Ends, Nodes
  <2>2. \A m, n \in Nodes' : next'[m] = Null /\ next'[n] = Null => m = n
    <3>1. \A n \in Nodes : next'[n] # Null
      BY <1>1, <1>2, <1>3, <1>4 DEF Ends, Nodes, Entries
    <3> QED
      BY <1>5, <3>1
  <2>3. ASSUME NEW S \in SUBSET (Entries'), S # {}, Closed(S)'
        PROVE  \E n \in S : next'[n] = Null
    <3>1. CASE t \in S
      BY <1>6, <3>1
    <3>2. CASE t \notin S
      <4>1. S \in SUBSET Entries /\ last \notin S
        BY <1>3, <1>4, <1>5, <2>3, <3>2, <1>1 DEF Closed
      <4>2. Closed(S)
        BY <1>4, <2>3, <4>1 DEF Closed, Entries
      <4>3. PICK n \in S : next[n] = Null
        BY <1>2, <2>3, <4>1, <4>2 DEF Ends
      <4> QED
        BY <1>4, <4>1, <4>3 DEF Entries
    <3> QED
      BY <3>1, <3>2
  <2> QED
    BY <2>1, <2>2, <2>3 DEF Ends
<1>9. ASSUME NEW u \in Posters PROVE AheadOf(u)'
  <2>1. CASE u = t
    BY <1>3, <2>1 DEF AheadOf
  <2>2. CASE u # t
    <3>1. stage'[u] = stage[u] /\ AheadOf(u) /\ PlacedAt(u)
      BY <1>3, <2>2, RegistryParts, ServicesAssumption
    <3> SUFFICES ASSUME NEW S \in SUBSET (Entries'), Closed(S)',
                        \/ stage[u] = "find" /\ From(position[u], S)'
                        \/ stage[u] = "append" /\ Behind(position[u], S)',
                        NEW m \in Entries', type[m] = type[u]
                 PROVE  m \in S
      BY <1>3, <3>1 DEF AheadOf
    <3>2. position[u] \in Nodes /\ position[u] \in Posters \cup {Head0}
      BY <3>1 DEF PlacedAt, Nodes, Entries
    <3> DEFINE T == S \ {t}
    <3>3. T \in SUBSET Entries /\ Closed(T)
      <4>1. T \in SUBSET Entries
        BY <1>5
      <4>2. \A n \in T : n = last \/ next[n] = next'[n]
        BY <1>4, <4>1 DEF Entries
      <4>3. \A n \in Posters \cup {Head0} : next[n] # t
        BY <1>3 DEF Entries
      <4>4. \A n \in T : next[n] \in T \cup {Null}
        BY <1>3, <4>1, <4>2, <4>3 DEF Closed, Entries
      <4> QED
        BY <4>1, <4>4 DEF Closed
    <3>4. t \in S
      <4>1. CASE last \in S
        BY <1>1, <1>4, <4>1 DEF Closed
      <4>2. CASE last \notin S
        <5>1. T # {} => \E n \in T : next[n] = Null
          BY <1>2, <3>3 DEF Ends
        <5>2. T = {}
          BY <1>2, <1>3, <3>3, <4>2, <5>1 DEF Ends, Nodes
        <5>3. S \subseteq {t}
          BY <5>2
        <5>4. CASE position[u] \in S
          BY <5>3, <5>4
        <5>5. CASE position[u] \notin S
          <6>1. next'[position[u]] \in S \cup {Null}
            BY <1>3, <5>5 DEF From, Behind
          <6>2. next'[position[u]] # Null
            BY <1>1, <1>2, <1>3, <1>4, <3>2 DEF Ends
          <6> QED
            BY <5>3, <6>1, <6>2
        <5> QED
          BY <5>4, <5>5
      <4> QED
        BY <4>1, <4>2
    <3>5. CASE m = t
      BY <3>4, <3>5
    <3>6. CASE m # t
      <4>1. m \in Entries
        BY <1>5, <3>6
      <4>2. CASE stage[u] = "append"
        <5>1. Behind(position[u], T)
          BY <1>3, <1>4, <3>2, <4>2 DEF Behind, Entries
        <5> QED
          BY <3>1, <3>3, <4>1, <4>2, <5>1 DEF AheadOf
      <4>3. CASE stage[u] = "find"
        <5>1. From(position[u], T)
          BY <1>1, <1>3, <1>4, <3>2, <4>3 DEF From, Entries, Nodes
        <5> QED
          BY <3>1, <3>3, <4>1, <4>3, <5>1 DEF AheadOf
      <4> QED
        BY <4>2, <4>3
    <3> QED
      BY <3>5, <3>6
  <2> QED
    BY <2>1, <2>2
<1>10. ASSUME NEW u \in Threads PROVE PlacedAt(u)'
  <2>1. CASE u = t
    BY <1>1, <1>2, <1>3, <1>5, <2>1 DEF PlacedAt, Around
  <2>2. CASE u # t
    <3>1. stage'[u] = stage[u] /\ PlacedAt(u)
      BY <1>3, <2>2, RegistryParts
    <3> QED
      BY <1>3, <1>5, <2>2, <3>1 DEF PlacedAt
  <2> QED
    BY <2>1, <2>2
<1>11. \A m, n \in Entries' : type'[m] = type'[n] => m = n
  BY <1>2, <1>3, <1>5, <1>7
<1> QED
  BY <1>8, <1>9, <1>10, <1>11, RegistryPartsPrime

LEMMA BuildRegistry ==
  ASSUME Typed, Registry, NEW t \in Posters, Build(t)
  PROVE  Registry'
<1>1. t \in Threads /\ t # Loop
  BY ServicesAssumption
<1>2. /\ UNCHANGED <<type, next>> /\ Entries' = Entries /\ Nodes' = Nodes
      /\ stage[t] = "build" /\ stage'[t] = "wait" /\ position'[t] = t
      /\ \A u \in Threads \ {t} : stage'[u] = stage[u] /\ position'[u] = position[u]
      /\ built'[t] /\ \A n \in Posters : built[n] => built'[n]
  BY <1>1 DEF Build, ToStage, Move, Typed, Entries, Nodes
<1>3. Ends' /\ \A m, n \in Entries' : type'[m] = type'[n] => m = n
  BY <1>2, RegistryParts DEF Ends, Closed
<1>4. ASSUME NEW u \in Posters PROVE AheadOf(u)'
  <2>1. CASE u = t
    BY <1>2, <2>1 DEF AheadOf
  <2>2. CASE u # t
    <3>1. AheadOf(u) /\ stage'[u] = stage[u] /\ position'[u] = position[u]
      BY <1>2, <2>2, RegistryParts, ServicesAssumption
    <3> QED
      BY <1>2, <3>1 DEF AheadOf, Closed, From, Behind
  <2> QED
    BY <2>1, <2>2
<1>5. ASSUME NEW u \in Threads PROVE PlacedAt(u)'
  <2>1. PlacedAt(u)
    BY RegistryParts
  <2>2. CASE u = t
    BY <1>1, <1>2, <2>1, <2>2 DEF PlacedAt, Around, Nodes
  <2>3. CASE u # t
    BY <1>2, <2>1, <2>3 DEF PlacedAt, Entries
  <2> QED
    BY <2>2, <2>3
<1> QED
  BY <1>3, <1>4, <1>5, RegistryPartsPrime

\* The steps of a thread that neither search the list nor lock.
LEMMA QuietRegistry ==
  ASSUME Typed, Registry, NEW t \in Threads,
         \/ AwaitBuilt(t) \/ (t \in Posters /\ Post(t))
         \/ t = Loop /\ (CommitNext \/ Take \/ Push)
  PROVE  Registry'
<1>1. /\ Loop \notin Posters /\ (t \in Posters \/ t = Loop)
      /\ Head0 \notin Posters /\ Null \notin Posters
  BY ServicesAssumption, NodeAssumption
<1>2. UNCHANGED <<type, next, built>> /\ Entries' = Entries /\ Nodes' = Nodes
  BY DEF AwaitBuilt, Post, CommitNext, Take, Push, registry, Entries, Nodes
<1>3. \A u \in Threads \ {t} : stage'[u] = stage[u] /\ position'[u] = position[u]
  BY DEF AwaitBuilt, Post, CommitNext, Take, Push, ToStage, Move, Typed
<1>4. PlacedAt(t)
  BY RegistryParts
<1>5. stage'[t] \notin {"find", "append"}
  BY <1>1, <1>4 DEF AwaitBuilt, Post, CommitNext, Take, Push, ToStage, Typed
<1>6. PlacedAt(t)'
  <2>1. CASE AwaitBuilt(t)
    BY <1>1, <1>2, <1>4, <2>1 DEF AwaitBuilt, ToStage, Typed, PlacedAt, Around
  <2>2. CASE Post(t) \/ Take \/ Push
    BY <1>1, <1>2, <1>4, <2>2 DEF Post, Take, Push, ToStage, Typed, PlacedAt, Around
  <2>3. CASE t = Loop /\ CommitNext
    <3>1. position[Loop] \in Posters \cup {Head0}
      BY <2>3 DEF Typed
    <3>2. next[position[Loop]] # Null => next[position[Loop]] \in Entries
      BY <3>1 DEF Typed, Entries
    <3> QED
      BY <1>1, <1>2, <1>4, <2>3, <3>2 DEF CommitNext, ToStage, Move, Typed, PlacedAt, Around, Nodes
  <2> QED
    BY <1>1, <2>1, <2>2, <2>3
<1> QED
  BY <1>2, <1>3, <1>5, <1>6, RegistryStays DEF registry, AheadOf

LEMMA RegistryNext ==
  ASSUME Typed, Registry, [ServicesNext]_servicesVars
  PROVE  Registry'
<1>1. Threads = Posters \cup {Loop}
  BY ServicesAssumption
<1>2. ASSUME UNCHANGED <<registry, stage, position>> PROVE Registry'
  BY <1>2 DEF Registry, registry, Ends, Ahead, Placed, OneInstance, Entries, Nodes, Closed,
              From, Behind
<1>3. ASSUME NEW t \in Posters, PosterStep(t) PROVE Registry'
  BY <1>1, <1>3, SearchRegistry, AppendRegistry, BuildRegistry, QuietRegistry, LockRegistry
  DEF PosterStep
<1>4. ASSUME LoopStep PROVE Registry'
  BY <1>1, <1>4, QuietRegistry, LockRegistry DEF LoopStep
<1>5. ASSUME NEW t \in Posters, Satisfy(t) PROVE Registry'
  BY <1>2, <1>5 DEF Satisfy
<1> QED
  BY <1>2, <1>3, <1>4, <1>5 DEF ServicesNext, servicesVars, registry

LEMMA InitRegistry == ServicesInit => Registry
<1> SUFFICES ASSUME ServicesInit PROVE Registry
  OBVIOUS
<1>1. /\ Threads = Posters \cup {Loop} /\ Loop \notin Posters
      /\ Head0 \notin Posters /\ Null \notin Posters
  BY ServicesAssumption, NodeAssumption
<1>2. Entries = {} /\ Nodes = {Head0}
  BY <1>1 DEF ServicesInit, Entries, Nodes
<1>3. Ends
  BY <1>1, <1>2 DEF ServicesInit, Ends
<1>4. Ahead /\ Placed /\ OneInstance
  BY <1>1, <1>2 DEF ServicesInit, Ahead, Placed, OneInstance
<1> QED
  BY <1>3, <1>4 DEF Registry

-----------------------------------------------------------------------------
(* The locks *)

LEMMA LockedStays ==
  ASSUME Locked, UNCHANGED locked,
         \A t \in Threads : stage'[t] \in {"inside", "unlock"} =>
           stage[t] \in {"inside", "unlock"} /\ position'[t] = position[t]
  PROVE  Locked'
BY DEF Locked

LEMMA LockedNext ==
  ASSUME Typed, Registry, Locked, [ServicesNext]_servicesVars
  PROVE  Locked'
<1>1. Threads = Posters \cup {Loop} /\ Loop \notin Posters
  BY ServicesAssumption
<1>2. ASSUME NEW t \in Threads, LockStep(t) PROVE Locked'
  <2>1. /\ position[t] \in Posters /\ UNCHANGED position
        /\ \A u \in Threads \ {t} : stage'[u] = stage[u]
        /\ \A u \in Threads : stage[u] \in {"inside", "unlock"} => position[u] \in Posters
    BY <1>2, RegistryParts
    DEF LockStep, LockWait, LockExchange, Unlock, Notify, ToStage, Typed, PlacedAt, Around, Entries
  <2>2. CASE LockWait(t, position[t])
    BY <2>1, <2>2, LockedStays DEF LockWait, ToStage, Typed
  <2>3. CASE LockExchange(t, position[t])
    <3>1. /\ locked'[position[t]] /\ \A n \in Posters : locked[n] => locked'[n]
          /\ stage'[t] = IF locked[position[t]] THEN "wait" ELSE "inside"
      BY <2>1, <2>3 DEF LockExchange, ToStage, Typed
    <3>2. CASE locked[position[t]]
      BY <2>1, <3>1, <3>2 DEF Locked
    <3>3. CASE ~locked[position[t]]
      BY <2>1, <3>1, <3>3 DEF Locked
    <3> QED
      BY <3>2, <3>3
  <2>4. CASE Unlock(t, position[t])
    <3>1. /\ stage[t] = "unlock" /\ stage'[t] = "notify"
          /\ \A n \in Posters \ {position[t]} : locked'[n] = locked[n]
      BY <2>1, <2>4 DEF Unlock, ToStage, Typed
    <3> QED
      BY <2>1, <3>1 DEF Locked
  <2>5. CASE Notify(t, position[t], IF t = Loop THEN "push" ELSE "suspended")
    <3>1. UNCHANGED locked /\ stage'[t] \in {"push", "suspended"}
      BY <2>1, <2>5 DEF Notify, ToStage, Typed
    <3> QED
      BY <2>1, <3>1, LockedStays
  <2> QED
    BY <1>2, <2>2, <2>3, <2>4, <2>5 DEF LockStep
<1>3. ASSUME NEW t \in Threads,
             Find(t) \/ AppendEntry(t) \/ Build(t) \/ AwaitBuilt(t) \/ Post(t)
             \/ (t = Loop /\ (CommitNext \/ Take \/ Push))
      PROVE  Locked'
  <2>1. UNCHANGED locked
    BY <1>3 DEF Find, AppendEntry, Build, AwaitBuilt, Post, CommitNext, Take, Push, lockVars
  <2>2. \A u \in Threads \ {t} : stage'[u] = stage[u] /\ position'[u] = position[u]
    BY <1>3
    DEF Find, AppendEntry, Build, AwaitBuilt, Post, CommitNext, Take, Push, ToStage, Move, Typed
  <2>3. stage'[t] \in {"inside", "unlock"} =>
          stage[t] \in {"inside", "unlock"} /\ position'[t] = position[t]
    BY <1>3
    DEF Find, AppendEntry, Build, AwaitBuilt, Post, CommitNext, Take, Push, ToStage, Typed
  <2> QED
    BY <2>1, <2>2, <2>3, LockedStays
<1>4. ASSUME UNCHANGED <<lockVars, stage, position>> PROVE Locked'
  BY <1>4, LockedStays DEF lockVars
<1>5. ASSUME NEW t \in Posters, PosterStep(t) \/ Satisfy(t) PROVE Locked'
  BY <1>1, <1>2, <1>3, <1>4, <1>5 DEF PosterStep, Satisfy
<1>6. ASSUME LoopStep PROVE Locked'
  BY <1>1, <1>2, <1>3, <1>6 DEF LoopStep
<1> QED
  BY <1>4, <1>5, <1>6 DEF ServicesNext, servicesVars

-----------------------------------------------------------------------------
(* The frames *)

LEMMA FramesStay ==
  ASSUME Frames, UNCHANGED frames, Posted' = Posted, Entries \subseteq Entries',
         stage'[Loop] \in {"unlock", "notify", "push"} \/ stage[Loop] \notin {"unlock", "notify", "push"}
  PROVE  Frames'
BY DEF Frames, frames

LEMMA PostFrames ==
  ASSUME Typed, Registry, Frames, NEW t \in Posters, Post(t)
  PROVE  Frames'
<1> SUFFICES ASSUME NEW n, n = position[t] PROVE Frames'
  OBVIOUS
<1>1. t \in Threads /\ t # Loop /\ Loop \notin Posters /\ Loop \in Threads
  BY ServicesAssumption
<1>2. /\ stage[t] = "inside" /\ stage'[t] = "unlock" /\ \A u \in Threads \ {t} : stage'[u] = stage[u]
      /\ forward' = [forward EXCEPT ![n] = <<t>> \o @]
      /\ UNCHANGED <<next, outstanding, pushed>>
  BY <1>1 DEF Post, ToStage, Typed, registry
<1>3. n \in Entries /\ n \in Posters /\ Entries' = Entries
  BY <1>1, <1>2, RegistryParts DEF PlacedAt, Around, Entries
<1>4. Posted' = Posted \cup {t} /\ t \notin Posted
  BY <1>1, <1>2, ServicesAssumption DEF Posted
<1>5. /\ forward'[n] = <<t>> \o forward[n]
      /\ \A m \in Posters \ {n} : forward'[m] = forward[m]
  BY <1>2, <1>3 DEF Typed
<1>6. t \notin ToSet(forward[n]) /\ IsInjective(forward[n]) /\ forward[n] \in Seq(Posters)
  BY <1>3, <1>4 DEF Frames, Typed
<1>7. ToSet(forward'[n]) = {t} \cup ToSet(forward[n]) /\ IsInjective(forward'[n])
  BY <1>5, <1>6, ListPrepend
<1>8. \A m \in Posters : t \notin ToSet(forward[m])
  BY <1>4 DEF Frames
<1>9. t \notin ToSet(pushed) \cup ToSet(outstanding)
  BY <1>4 DEF Frames
<1>10. \A m \in Posters :
         ToSet(forward'[m]) = IF m = n THEN {t} \cup ToSet(forward[n]) ELSE ToSet(forward[m])
  BY <1>5, <1>7
<1>11. ASSUME NEW m \in Posters
       PROVE  /\ IsInjective(forward'[m]) /\ ToSet(forward'[m]) \subseteq Posted'
              /\ ToSet(forward'[m]) \cap (ToSet(pushed) \cup ToSet(outstanding)) = {}
              /\ m \notin Entries' => forward'[m] = <<>>
              /\ \A k \in Posters \ {m} : ToSet(forward'[m]) \cap ToSet(forward'[k]) = {}
  <2>1. IsInjective(forward'[m])
    BY <1>5, <1>7 DEF Frames
  <2>2. ToSet(forward'[m]) \subseteq Posted'
    BY <1>3, <1>4, <1>10 DEF Frames
  <2>3. ToSet(forward'[m]) \cap (ToSet(pushed) \cup ToSet(outstanding)) = {}
    BY <1>3, <1>9, <1>10 DEF Frames
  <2>4. m \notin Entries' => forward'[m] = <<>>
    BY <1>3, <1>5 DEF Frames
  <2>5. ASSUME NEW k \in Posters \ {m} PROVE ToSet(forward'[m]) \cap ToSet(forward'[k]) = {}
    <3>1. ToSet(forward[m]) \cap ToSet(forward[k]) = {}
      BY DEF Frames
    <3>2. t \notin ToSet(forward[m]) /\ t \notin ToSet(forward[k])
      BY <1>8
    <3> QED
      BY <1>10, <3>1, <3>2
  <2> QED
    BY <2>1, <2>2, <2>3, <2>4, <2>5
<1>12. ASSUME NEW u \in Posted'
       PROVE  \/ u \in ToSet(pushed) \cup ToSet(outstanding)
              \/ \E m \in Posters : u \in ToSet(forward'[m])
  BY <1>3, <1>4, <1>10 DEF Frames
<1> QED
  BY <1>1, <1>2, <1>4, <1>11, <1>12 DEF Frames

LEMMA TakeFrames ==
  ASSUME Typed, Registry, Frames, Take
  PROVE  Frames'
<1> SUFFICES ASSUME NEW n, n = position[Loop] PROVE Frames'
  OBVIOUS
<1>1. Loop \notin Posters /\ Loop \in Threads /\ Threads = Posters \cup {Loop}
  BY ServicesAssumption
<1>2. /\ stage[Loop] = "inside" /\ stage'[Loop] = "unlock" /\ \A u \in Posters : stage'[u] = stage[u]
      /\ UNCHANGED <<next, pushed>>
  BY <1>1 DEF Take, ToStage, Typed, registry
<1>3. n \in Entries /\ n \in Posters /\ Entries' = Entries /\ Posted' = Posted
  BY <1>1, <1>2, RegistryParts DEF PlacedAt, Around, Entries, Posted
<1>4. ToSet(outstanding) = {}
  BY <1>2, ListEmpty DEF Frames
<1>5. /\ ToSet(outstanding') \cup ToSet(forward'[n]) = ToSet(forward[n])
      /\ ToSet(outstanding') \cap ToSet(forward'[n]) = {}
      /\ IsInjective(outstanding') /\ IsInjective(forward'[n])
      /\ \A m \in Posters \ {n} : forward'[m] = forward[m]
  BY <1>3, TakeLists DEF Frames
<1>6. \A m \in Posters : ToSet(forward'[m]) \subseteq ToSet(forward[m])
  BY <1>5
<1>7. ASSUME NEW m \in Posters
      PROVE  /\ IsInjective(forward'[m]) /\ ToSet(forward'[m]) \subseteq Posted
             /\ ToSet(forward'[m]) \cap (ToSet(pushed) \cup ToSet(outstanding')) = {}
             /\ m \notin Entries => forward'[m] = <<>>
             /\ \A k \in Posters \ {m} : ToSet(forward'[m]) \cap ToSet(forward'[k]) = {}
  BY <1>3, <1>5, <1>6 DEF Frames
<1>8. /\ ToSet(pushed) \cap ToSet(outstanding') = {}
      /\ ToSet(pushed) \cup ToSet(outstanding') \subseteq Posted
  BY <1>3, <1>5 DEF Frames
<1>9. ASSUME NEW u \in Posted
      PROVE  \/ u \in ToSet(pushed) \cup ToSet(outstanding')
             \/ \E m \in Posters : u \in ToSet(forward'[m])
  BY <1>3, <1>4, <1>5 DEF Frames
<1> QED
  BY <1>2, <1>3, <1>5, <1>7, <1>8, <1>9 DEF Frames

LEMMA PushFrames ==
  ASSUME Typed, Registry, Frames, Push
  PROVE  Frames'
<1>1. Loop \notin Posters /\ Loop \in Threads /\ Threads = Posters \cup {Loop}
  BY ServicesAssumption
<1>2. /\ stage'[Loop] = "pass" /\ \A u \in Posters : stage'[u] = stage[u]
      /\ UNCHANGED <<next, forward>> /\ pushed' = pushed \o outstanding /\ outstanding' = <<>>
  BY <1>1 DEF Push, ToStage, Typed, registry
<1>3. Entries' = Entries /\ Posted' = Posted
  BY <1>2 DEF Entries, Posted
<1>4. ToSet(pushed') = ToSet(pushed) \cup ToSet(outstanding) /\ IsInjective(pushed')
  BY <1>2, ListConcat DEF Frames, Typed
<1>5. ToSet(outstanding') = {} /\ IsInjective(outstanding')
  BY <1>2, ListEmpty
<1> QED
  BY <1>2, <1>3, <1>4, <1>5 DEF Frames

LEMMA FramesNext ==
  ASSUME Typed, Registry, Frames, [ServicesNext]_servicesVars
  PROVE  Frames'
<1>1. Loop \notin Posters /\ Loop \in Threads /\ Threads = Posters \cup {Loop}
  BY ServicesAssumption
<1>2. ASSUME NEW t \in Threads, LockStep(t) PROVE Frames'
  <2>1. /\ UNCHANGED <<frames, next>> /\ \A u \in Threads \ {t} : stage'[u] = stage[u]
        /\ \/ /\ stage[t] \in {"unlock", "notify"}
              /\ stage'[t] \in {"notify", IF t = Loop THEN "push" ELSE "suspended"}
           \/ stage[t] \in {"wait", "exchange"} /\ stage'[t] \in {"wait", "exchange", "inside"}
    BY <1>2 DEF LockStep, LockWait, LockExchange, Unlock, Notify, ToStage, Typed, registry
  <2>2. Posted' = Posted /\ Entries' = Entries
    BY <1>1, <2>1 DEF Posted, Entries
  <2> QED
    BY <1>1, <2>1, <2>2, FramesStay
<1>3. ASSUME NEW t \in Threads,
             (t \in Posters /\ (Find(t) \/ AppendEntry(t) \/ Build(t))) \/ AwaitBuilt(t)
             \/ (t = Loop /\ CommitNext)
      PROVE  Frames'
  <2>1. UNCHANGED frames /\ \A u \in Threads \ {t} : stage'[u] = stage[u]
    BY <1>3 DEF Find, AppendEntry, Build, AwaitBuilt, CommitNext, ToStage, Typed
  <2>2. /\ stage[t] \notin {"unlock", "notify", "push", "suspended"}
        /\ stage'[t] \notin {"unlock", "notify", "push", "suspended"}
    BY <1>1, <1>3 DEF Find, AppendEntry, Build, AwaitBuilt, CommitNext, ToStage, Typed
  <2>3. Posted' = Posted
    BY <1>1, <2>1, <2>2 DEF Posted
  <2>4. Entries \subseteq Entries'
    <3>1. CASE UNCHANGED next
      BY <3>1 DEF Entries
    <3>2. CASE t \in Posters /\ AppendEntry(t) /\ next[position[t]] = Null
      <4>1. \A n \in Posters \cup {Head0} : next[n] # Null => next'[n] = next[n]
        BY <3>2 DEF AppendEntry, Typed
      <4> QED
        BY <4>1, NodeAssumption DEF Entries
    <3> QED
      BY <1>3, <3>1, <3>2 DEF Find, AppendEntry, Build, AwaitBuilt, CommitNext, registry
  <2> QED
    BY <1>1, <2>1, <2>2, <2>3, <2>4, FramesStay
<1>4. ASSUME UNCHANGED <<frames, stage, next>> PROVE Frames'
  <2>1. Posted' = Posted /\ Entries' = Entries
    BY <1>4 DEF Posted, Entries
  <2> QED
    BY <1>4, <2>1, FramesStay
<1>5. ASSUME NEW t \in Posters, PosterStep(t) \/ Satisfy(t) PROVE Frames'
  BY <1>1, <1>2, <1>3, <1>4, <1>5, PostFrames DEF PosterStep, Satisfy, registry
<1>6. ASSUME LoopStep PROVE Frames'
  BY <1>1, <1>2, <1>3, <1>6, TakeFrames, PushFrames DEF LoopStep
<1> QED
  BY <1>4, <1>5, <1>6 DEF ServicesNext, servicesVars, frames

-----------------------------------------------------------------------------
LEMMA InitFrames == ServicesInit => Locked /\ Frames
<1> SUFFICES ASSUME ServicesInit PROVE Locked /\ Frames
  OBVIOUS
<1>1. /\ \A t \in Threads : stage[t] \in {"pass", "find"}
      /\ Threads = Posters \cup {Loop} /\ Loop \notin Posters
      /\ pushed = <<>> /\ outstanding = <<>> /\ \A n \in Posters : forward[n] = <<>>
  BY ServicesAssumption DEF ServicesInit
<1>2. Locked
  BY <1>1 DEF Locked
<1>3. Posted = {}
  BY <1>1 DEF Posted
<1>4. Frames
  BY <1>1, <1>3, ListEmpty DEF Frames
<1> QED
  BY <1>2, <1>4

LEMMA Invariance == ServicesSpec => [](Typed /\ Registry /\ Locked /\ Frames)
<1>1. ServicesInit => Typed /\ Registry /\ Locked /\ Frames
  BY InitTyped, InitRegistry, InitFrames
<1>2. Typed /\ Registry /\ Locked /\ Frames /\ [ServicesNext]_servicesVars
      => (Typed /\ Registry /\ Locked /\ Frames)'
  BY TypedNext, RegistryNext, LockedNext, FramesNext DEF Registry
<1> QED
  BY <1>1, <1>2, PTL DEF ServicesSpec

\* The registry holds one service of each type although threads that miss it prepare one
\* each and append without a lock: who gives up the search at the last entry has passed
\* no entry of its type, and an entry that came in between is found first. None drops
\* out, and nobody uses a service that is not constructed (service_registry.hpp:111-131).
THEOREM OneOfEachType == ServicesSpec => []OneInstance
<1>1. Registry => OneInstance
  BY DEF Registry
<1> QED
  BY <1>1, Invariance, PTL

\* Whatever the order in which threads post to a service and the loop commits it, one
\* thread at a time changes its list, and the frame of a coroutine that waits is in one
\* list until it is pushed, once (flag_service.hpp:54-80, basic_lockable.hpp:26-51).
THEOREM CommitsExclude == ServicesSpec => []Exclusive
<1>1. Typed /\ Locked /\ Frames => Exclusive
  <2> SUFFICES ASSUME Typed, Locked, Frames PROVE Exclusive
    OBVIOUS
  <2>1. IsInjective(All) /\ ToSet(All) = ToSet(pushed) \cup ToSet(outstanding)
    BY ListConcat DEF All, Typed, Frames
  <2>2. ASSUME NEW t \in Posters, stage[t] \in {"unlock", "notify", "suspended"}
        PROVE  t \notin ToSet(All) <=> \E n \in Entries : t \in ToSet(forward[n])
    <3>1. \A n \in Posters : t \in ToSet(forward[n]) => n \in Entries
      BY ListEmpty DEF Frames
    <3>2. t \in Posted /\ Entries \subseteq Posters
      BY <2>2 DEF Posted, Entries
    <3> QED
      BY <2>1, <3>1, <3>2 DEF Frames
  <2> QED
    BY <2>1, <2>2 DEF Exclusive, Locked, All
<1> QED
  BY <1>1, Invariance, PTL
=============================================================================
