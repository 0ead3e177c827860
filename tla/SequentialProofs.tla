-------------------------- MODULE SequentialProofs --------------------------
(***************************************************************************)
(* Theorems about generators, for any bodies, however deep they nest and   *)
(* wherever the consumer stops; about frames that await one another, for   *)
(* any scripts of any number of frames; and about streams, for any values  *)
(* of any types.                                                           *)
(***************************************************************************)
EXTENDS Generator, Frames, Codec, Integers, ListFacts, SequenceTheorems, FiniteSetTheorems, TLAPS

Outcomes == [values : Seq(Yielded), throws : BOOLEAN]

-----------------------------------------------------------------------------
(* The places of bodies *)

\* p is not before q.
NotBefore(p, q) == p[1] > q[1] \/ (p[1] = q[1] /\ p[2] >= q[2])

\* Of some places of bodies one is the last.
LEMMA LastPlace ==
  ASSUME NEW bodies, Len(bodies) \in Nat, DOMAIN bodies = 1..Len(bodies),
         \A g \in DOMAIN bodies : Len(bodies[g]) \in Nat,
         NEW T \in SUBSET Places(bodies), T # {}
  PROVE  \E p \in T : \A q \in T : NotBefore(p, q)
<1>1. \A p \in T : p = <<p[1], p[2]>> /\ p[1] \in 1..Len(bodies) /\ p[2] \in 1..(Len(bodies[p[1]]) + 1)
  BY DEF Places
<1> DEFINE G == {p[1] : p \in T}
<1>2. G \in SUBSET (0..Len(bodies)) /\ G # {}
  BY <1>1
<1>3. PICK g \in G : \A k \in G : k <= g
  <2> HIDE DEF G
  <2> QED BY <1>2, GreatestOf, Zenon
<1> DEFINE I == {p[2] : p \in {q \in T : q[1] = g}}
<1>4. I \in SUBSET (0..(Len(bodies[g]) + 1)) /\ I # {} /\ Len(bodies[g]) + 1 \in Nat
  BY <1>1
<1>5. PICK i \in I : \A k \in I : k <= i
  <2> HIDE DEF I
  <2> QED BY <1>4, GreatestOf, Zenon
<1>6. PICK p \in T : p[1] = g /\ p[2] = i
  BY <1>5
<1>7. ASSUME NEW q \in T PROVE NotBefore(p, q)
  <2>1. q[1] <= g
    BY <1>3
  <2>3. q[1] \in Nat /\ g \in Nat /\ q[2] \in Nat /\ i \in Nat
    <3>1. q[1] \in 1..Len(bodies) /\ q[2] \in 1..(Len(bodies[q[1]]) + 1)
      BY <1>1
    <3>2. p[1] \in 1..Len(bodies) /\ p[2] \in 1..(Len(bodies[p[1]]) + 1)
      BY <1>1
    <3>3. Len(bodies[q[1]]) + 1 \in Nat /\ Len(bodies[p[1]]) + 1 \in Nat
      BY <3>1, <3>2
    <3> HIDE DEF G, I
    <3> QED BY <1>6, <3>1, <3>2, <3>3
  <2>2. q[1] = g => q[2] <= i
    BY <1>5
  <2> HIDE DEF G, I
  <2> QED BY <1>6, <2>1, <2>2, <2>3 DEF NotBefore
<1> QED BY <1>7

\* Places that come later, which those before depend on.
Later(lists) == {x \in Places(lists) \X Places(lists) : ~ NotBefore(x[2], x[1])}

LEMMA PlacesOrdered ==
  ASSUME NEW lists, Len(lists) \in Nat, DOMAIN lists = 1..Len(lists),
         \A g \in DOMAIN lists : Len(lists[g]) \in Nat
  PROVE  \A T \in SUBSET Places(lists) : T # {} => \E x \in T : \A y \in T : <<y, x>> \notin Later(lists)
<1> TAKE T \in SUBSET Places(lists)
<1> HAVE T # {}
<1>1. PICK x \in T : \A y \in T : NotBefore(x, y)
  BY LastPlace
<1> QED BY <1>1 DEF Later

CallEnds == {"none", "thrown", "cancelled"}
CallResults(s) == [results : Seq((DOMAIN s) \X CallEnds), ends : CallEnds]

Resolves(s, cancelled, from) ==
  from \in [Places(s) -> CallResults(s)] /\ \A p \in Places(s) : from[p] = GivenAt(s, cancelled, from, p)
CallSolution(s, cancelled) == CHOOSE from : Resolves(s, cancelled, from)

-----------------------------------------------------------------------------
(* The meaning of bodies *)

\* What the assumption says of one item.
LEMMA ItemFacts ==
  ASSUME NEW bodies \in Bodies
  PROVE  /\ Len(bodies) \in Nat \ {0} /\ DOMAIN bodies = 1..Len(bodies)
         /\ \A g \in DOMAIN bodies :
              /\ Len(bodies[g]) \in Nat /\ DOMAIN bodies[g] = 1..Len(bodies[g])
              /\ \A i \in 1..Len(bodies[g]) :
                   LET item == bodies[g][i]
                   IN \/ item.op = "yield" /\ item.value \in Yielded
                      \/ item.op = "throw"
                      \/ /\ item.op = "nest" /\ item.of \in DOMAIN bodies /\ item.of > g
                         /\ item.catches \in BOOLEAN
<1>1. bodies # <<>> /\ bodies \in Seq(Seq(Items(Len(bodies))))
  BY GeneratorAssumption, Zenon
<1>2. Len(bodies) \in Nat \ {0} /\ DOMAIN bodies = 1..Len(bodies)
  BY <1>1
<1>3. ASSUME NEW g \in DOMAIN bodies, NEW i \in 1..Len(bodies[g])
      PROVE  LET item == bodies[g][i]
             IN \/ item.op = "yield" /\ item.value \in Yielded
                \/ item.op = "throw"
                \/ /\ item.op = "nest" /\ item.of \in DOMAIN bodies /\ item.of > g
                   /\ item.catches \in BOOLEAN
  <2>1. bodies[g] \in Seq(Items(Len(bodies)))
    BY <1>1
  <2>2. i \in DOMAIN bodies[g] /\ bodies[g][i] \in Items(Len(bodies))
    BY <2>1
  <2>3. bodies[g][i].op = "nest" => bodies[g][i].of > g
    BY <2>2, GeneratorAssumption, Zenon
  <2> QED BY <2>2, <2>3, <1>2 DEF Items, Yield, Nest, ThrowError
<1>4. \A g \in DOMAIN bodies : Len(bodies[g]) \in Nat /\ DOMAIN bodies[g] = 1..Len(bodies[g])
  BY <1>1
<1> QED BY <1>2, <1>3, <1>4

\* A generator is nested at one place.
LEMMA NestedOnce ==
  ASSUME NEW bodies \in Bodies,
         NEW g \in DOMAIN bodies, NEW i \in 1..Len(bodies[g]), bodies[g][i].op = "nest",
         NEW h \in DOMAIN bodies, NEW j \in 1..Len(bodies[h]), bodies[h][j].op = "nest",
         bodies[h][j].of = bodies[g][i].of
  PROVE  h = g /\ j = i
<1>1. i \in DOMAIN bodies[g] /\ j \in DOMAIN bodies[h]
  BY ItemFacts
<1> QED BY <1>1, GeneratorAssumption, Zenon

\* The places that the outcome of one depends on come after it.
LEMMA LaterPlaces ==
  ASSUME NEW bodies \in Bodies, NEW p \in Places(bodies)
  PROVE  /\ p = <<p[1], p[2]>> /\ p[1] \in DOMAIN bodies /\ p[2] \in 1..(Len(bodies[p[1]]) + 1)
         /\ p[2] <= Len(bodies[p[1]]) => <<p[1], p[2] + 1>> \in Places(bodies)
         /\ p[2] <= Len(bodies[p[1]]) /\ bodies[p[1]][p[2]].op = "nest" =>
              /\ <<bodies[p[1]][p[2]].of, 1>> \in Places(bodies)
              /\ bodies[p[1]][p[2]].of > p[1]
<1>1. p = <<p[1], p[2]>> /\ p[1] \in DOMAIN bodies /\ p[2] \in 1..(Len(bodies[p[1]]) + 1)
  BY DEF Places
<1>2. Len(bodies[p[1]]) \in Nat
  BY <1>1, ItemFacts
<1>3. p[2] <= Len(bodies[p[1]]) => <<p[1], p[2] + 1>> \in Places(bodies)
  BY <1>1, <1>2 DEF Places
<1>4. ASSUME p[2] <= Len(bodies[p[1]]), bodies[p[1]][p[2]].op = "nest"
      PROVE  /\ <<bodies[p[1]][p[2]].of, 1>> \in Places(bodies)
             /\ bodies[p[1]][p[2]].of > p[1]
  <2> DEFINE n == bodies[p[1]][p[2]].of
  <2>3. p[2] \in 1..Len(bodies[p[1]])
    BY <1>1, <1>2, <1>4
  <2>1. n \in DOMAIN bodies /\ n > p[1]
    BY <1>1, <1>4, <2>3, ItemFacts
  <2>2. Len(bodies[n]) \in Nat
    BY <2>1, ItemFacts
  <2> QED BY <2>1, <2>2 DEF Places
<1> QED BY <1>1, <1>3, <1>4

\* The places an item leads to are later ones.
LEMMA NextLater ==
  ASSUME NEW bodies \in Bodies, NEW p \in Places(bodies), p[2] <= Len(bodies[p[1]])
  PROVE  /\ <<<<p[1], p[2] + 1>>, p>> \in Later(bodies)
         /\ bodies[p[1]][p[2]].op = "nest" => <<<<bodies[p[1]][p[2]].of, 1>>, p>> \in Later(bodies)
<1>1. /\ p = <<p[1], p[2]>> /\ p[1] \in DOMAIN bodies /\ p[2] \in Nat
      /\ DOMAIN bodies \in SUBSET Nat
  <2>1. Len(bodies) \in Nat /\ DOMAIN bodies = 1..Len(bodies) /\ \A g \in DOMAIN bodies : Len(bodies[g]) \in Nat
    BY ItemFacts
  <2>2. p = <<p[1], p[2]>> /\ p[1] \in DOMAIN bodies /\ p[2] \in 1..(Len(bodies[p[1]]) + 1)
    BY LaterPlaces
  <2> QED BY <2>1, <2>2
<1>2. <<p[1], p[2] + 1>> \in Places(bodies) /\ ~ NotBefore(p, <<p[1], p[2] + 1>>)
  <2>1. ~ NotBefore(p, <<p[1], p[2] + 1>>)
    BY <1>1 DEF NotBefore
  <2> QED BY <2>1, LaterPlaces
<1>3. ASSUME bodies[p[1]][p[2]].op = "nest"
      PROVE  <<bodies[p[1]][p[2]].of, 1>> \in Places(bodies) /\ ~ NotBefore(p, <<bodies[p[1]][p[2]].of, 1>>)
  <2> DEFINE n == bodies[p[1]][p[2]].of
  <2>1. <<n, 1>> \in Places(bodies) /\ n > p[1]
    BY <1>3, LaterPlaces
  <2>2. n \in DOMAIN bodies
    <3>1. <<n, 1>>[1] \in DOMAIN bodies
      BY <2>1, LaterPlaces
    <3> QED BY <3>1
  <2>3. ~ NotBefore(p, <<n, 1>>)
    <3> HIDE DEF n
    <3> QED BY <1>1, <2>1, <2>2 DEF NotBefore
  <2> QED BY <2>1, <2>3
<1>4. \A q \in Places(bodies) : ~ NotBefore(p, q) => <<q, p>> \in Later(bodies)
  BY DEF Later
<1> QED BY <1>2, <1>3, <1>4

\* Outcomes put together are an outcome.
LEMMA FollowedTyped ==
  ASSUME NEW a \in Outcomes, NEW b \in Outcomes
  PROVE  /\ Joined(a, b) \in Outcomes
         /\ \A catches \in BOOLEAN : Followed(a, catches, b) \in Outcomes
<1>1. a.values \o b.values \in Seq(Yielded)
  BY ConcatProperties DEF Outcomes
<1> QED BY <1>1 DEF Outcomes, Followed, Joined, Outcome

\* So is what comes from a place on, if what comes from later ones is,
LEMMA OutcomeTyped ==
  ASSUME NEW bodies \in Bodies, NEW p \in Places(bodies), NEW from,
         p[2] <= Len(bodies[p[1]]) => from[<<p[1], p[2] + 1>>] \in Outcomes,
         p[2] <= Len(bodies[p[1]]) /\ bodies[p[1]][p[2]].op = "nest" =>
           from[<<bodies[p[1]][p[2]].of, 1>>] \in Outcomes
  PROVE  OutcomeAt(bodies, from, p) \in Outcomes
<1>1. p[1] \in DOMAIN bodies /\ p[2] \in 1..(Len(bodies[p[1]]) + 1) /\ Len(bodies[p[1]]) \in Nat
  BY LaterPlaces, ItemFacts
<1>2. Silent \in Outcomes /\ Raised \in Outcomes
  BY DEF Outcomes, Outcome, Silent, Raised
<1>3. CASE p[2] > Len(bodies[p[1]])
  BY <1>2, <1>3 DEF OutcomeAt
<1>4. CASE p[2] <= Len(bodies[p[1]])
  <2> DEFINE item == bodies[p[1]][p[2]]
             rest == from[<<p[1], p[2] + 1>>]
  <2>1. p[2] \in 1..Len(bodies[p[1]]) /\ rest \in Outcomes
    BY <1>1, <1>4
  <2>2. CASE item.op = "yield"
    <3>1. item.value \in Yielded
      BY <1>1, <2>1, <2>2, ItemFacts
    <3>2. OutcomeAt(bodies, from, p) = Outcome(<<item.value>> \o rest.values, rest.throws)
      <4>1. ~ (p[2] > Len(bodies[p[1]]))
        BY <1>1, <1>4
      <4> QED BY <4>1, <2>2, Zenon DEF OutcomeAt
    <3>3. <<item.value>> \o rest.values \in Seq(Yielded) /\ rest.throws \in BOOLEAN
      BY <2>1, <3>1 DEF Outcomes
    <3> QED BY <3>2, <3>3 DEF Outcome, Outcomes
  <2>3. CASE item.op = "throw"
    BY <1>1, <1>2, <1>4, <2>3 DEF OutcomeAt
  <2>4. CASE item.op = "nest"
    <3>1. item.catches \in BOOLEAN
      BY <1>1, <2>1, <2>4, ItemFacts
    <3>2. OutcomeAt(bodies, from, p) = Followed(from[<<item.of, 1>>], item.catches, rest)
      BY <1>1, <1>4, <2>4 DEF OutcomeAt
    <3>3. from[<<item.of, 1>>] \in Outcomes
      BY <1>4, <2>4
    <3> QED BY <2>1, <3>1, <3>2, <3>3, FollowedTyped
  <2> QED BY <1>1, <2>1, <2>2, <2>3, <2>4, ItemFacts
<1> QED BY <1>1, <1>3, <1>4

\* and it depends on nothing else.
LEMMA OutcomeSame ==
  ASSUME NEW bodies \in Bodies, NEW p \in Places(bodies), NEW from, NEW other,
         p[2] <= Len(bodies[p[1]]) => from[<<p[1], p[2] + 1>>] = other[<<p[1], p[2] + 1>>],
         p[2] <= Len(bodies[p[1]]) /\ bodies[p[1]][p[2]].op = "nest" =>
           from[<<bodies[p[1]][p[2]].of, 1>>] = other[<<bodies[p[1]][p[2]].of, 1>>]
  PROVE  OutcomeAt(bodies, from, p) = OutcomeAt(bodies, other, p)
<1>1. p[1] \in DOMAIN bodies /\ p[2] \in 1..(Len(bodies[p[1]]) + 1) /\ Len(bodies[p[1]]) \in Nat
  BY LaterPlaces, ItemFacts
<1>2. CASE p[2] > Len(bodies[p[1]])
  BY <1>2 DEF OutcomeAt
<1>3. CASE p[2] <= Len(bodies[p[1]])
  <2>1. ~ (p[2] > Len(bodies[p[1]])) /\ p[2] \in 1..Len(bodies[p[1]])
    BY <1>1, <1>3
  <2>2. bodies[p[1]][p[2]].op \in {"yield", "throw", "nest"}
    BY <1>1, <2>1, ItemFacts
  <2>3. CASE bodies[p[1]][p[2]].op = "yield"
    BY <1>3, <2>1, <2>3 DEF OutcomeAt
  <2>4. CASE bodies[p[1]][p[2]].op = "throw"
    BY <2>1, <2>4 DEF OutcomeAt
  <2>5. CASE bodies[p[1]][p[2]].op = "nest"
    BY <1>3, <2>1, <2>5 DEF OutcomeAt
  <2> QED BY <2>2, <2>3, <2>4, <2>5
<1> QED BY <1>1, <1>2, <1>3

Solves(bodies, from, S) == from \in [S -> Outcomes] /\ \A p \in S : from[p] = OutcomeAt(bodies, from, p)

\* The equations of the places have one solution at most.
LEMMA SolvedOnce ==
  ASSUME NEW bodies \in Bodies, NEW from, NEW other,
         \A p \in Places(bodies) : from[p] = OutcomeAt(bodies, from, p),
         \A p \in Places(bodies) : other[p] = OutcomeAt(bodies, other, p)
  PROVE  \A p \in Places(bodies) : from[p] = other[p]
<1> DEFINE T == {p \in Places(bodies) : from[p] # other[p]}
<1> SUFFICES ASSUME T # {} PROVE FALSE
  OBVIOUS
<1>1. PICK p \in T : \A q \in T : NotBefore(p, q)
  <2>1. T \in SUBSET Places(bodies)
    OBVIOUS
  <2> HIDE DEF T
  <2> QED BY <2>1, LastPlace, ItemFacts
<1>2. p \in Places(bodies) /\ p = <<p[1], p[2]>> /\ p[1] \in DOMAIN bodies /\ p[2] \in 1..(Len(bodies[p[1]]) + 1)
  BY LaterPlaces
<1>3. Len(bodies) \in Nat /\ DOMAIN bodies = 1..Len(bodies) /\ \A g \in DOMAIN bodies : Len(bodies[g]) \in Nat
  BY ItemFacts
<1>4. p[2] <= Len(bodies[p[1]]) => from[<<p[1], p[2] + 1>>] = other[<<p[1], p[2] + 1>>]
  <2>1. ~ NotBefore(p, <<p[1], p[2] + 1>>)
    BY <1>2, <1>3 DEF NotBefore
  <2> QED BY <1>1, <1>2, <2>1, LaterPlaces
<1>5. ASSUME p[2] <= Len(bodies[p[1]]), bodies[p[1]][p[2]].op = "nest"
      PROVE  from[<<bodies[p[1]][p[2]].of, 1>>] = other[<<bodies[p[1]][p[2]].of, 1>>]
  <2> DEFINE n == bodies[p[1]][p[2]].of
  <2>1. <<n, 1>> \in Places(bodies) /\ n > p[1]
    BY <1>2, <1>5, LaterPlaces
  <2>2. n \in Nat /\ p[1] \in Nat
    <3>1. <<n, 1>>[1] \in DOMAIN bodies
      BY <2>1, LaterPlaces
    <3> QED BY <1>2, <1>3, <3>1
  <2>3. ~ NotBefore(p, <<n, 1>>)
    <3> HIDE DEF n
    <3> QED BY <2>1, <2>2 DEF NotBefore
  <2> QED BY <1>1, <2>1, <2>3
<1>6. OutcomeAt(bodies, from, p) = OutcomeAt(bodies, other, p)
  BY <1>2, <1>4, <1>5, OutcomeSame
<1> QED BY <1>2, <1>6

Solution(bodies) == CHOOSE from : Solves(bodies, from, Places(bodies))

\* All equations have a solution, and the meaning is that of the first place.
LEMMA MeaningSolved ==
  ASSUME NEW bodies \in Bodies
  PROVE  /\ Solves(bodies, Solution(bodies), Places(bodies))
         /\ Meaning(bodies) = Solution(bodies)[<<Root, 1>>]
<1>1. Len(bodies) \in Nat \ {0} /\ DOMAIN bodies = 1..Len(bodies) /\ \A g \in DOMAIN bodies : Len(bodies[g]) \in Nat
  BY ItemFacts
<1>2. <<1, 1>> \in Places(bodies)
  BY <1>1 DEF Places
<1>3. PICK P, R : P = Places(bodies) /\ R = Later(bodies)
  OBVIOUS
<1>4. \E from : Solves(bodies, from, Places(bodies))
  <2>1. FirstsIn(P, R)
    <3>1. \A T \in SUBSET P : T # {} => \E x \in T : \A y \in T : <<y, x>> \notin R
      BY <1>1, <1>3, PlacesOrdered
    <3> QED BY <3>1 DEF FirstsIn
  <2>2. PICK Step : Step = [x \in [P -> Outcomes] \X P |-> OutcomeAt(bodies, x[1], x[2])]
    OBVIOUS
  <2>3. ASSUME NEW f \in [P -> Outcomes], NEW p \in P PROVE Step[<<f, p>>] = OutcomeAt(bodies, f, p)
    <3>1. <<f, p>> \in [P -> Outcomes] \X P /\ <<f, p>>[1] = f /\ <<f, p>>[2] = p
      OBVIOUS
    <3> QED BY <2>2, <3>1
  <2>4. \A f \in [P -> Outcomes] : \A p \in P : Step[<<f, p>>] \in Outcomes
    <3> SUFFICES ASSUME NEW f \in [P -> Outcomes], NEW p \in P PROVE OutcomeAt(bodies, f, p) \in Outcomes
      BY <2>3
    <3>1. \A q \in P : f[q] \in Outcomes
      OBVIOUS
    <3>2. p[2] <= Len(bodies[p[1]]) => f[<<p[1], p[2] + 1>>] \in Outcomes
      BY <1>3, <3>1, LaterPlaces
    <3>3. p[2] <= Len(bodies[p[1]]) /\ bodies[p[1]][p[2]].op = "nest" => f[<<bodies[p[1]][p[2]].of, 1>>] \in Outcomes
      BY <1>3, <3>1, LaterPlaces
    <3> QED BY <1>3, <3>2, <3>3, OutcomeTyped
  <2>5. \A f, h \in [P -> Outcomes] : \A p \in P :
          (\A q \in P : <<q, p>> \in R => f[q] = h[q]) => Step[<<f, p>>] = Step[<<h, p>>]
    <3> SUFFICES ASSUME NEW f \in [P -> Outcomes], NEW h \in [P -> Outcomes], NEW p \in P,
                        \A q \in P : <<q, p>> \in R => f[q] = h[q]
                 PROVE  OutcomeAt(bodies, f, p) = OutcomeAt(bodies, h, p)
      BY <2>3
    <3>1. p[2] <= Len(bodies[p[1]]) => f[<<p[1], p[2] + 1>>] = h[<<p[1], p[2] + 1>>]
      BY <1>3, LaterPlaces, NextLater
    <3>2. p[2] <= Len(bodies[p[1]]) /\ bodies[p[1]][p[2]].op = "nest" =>
            f[<<bodies[p[1]][p[2]].of, 1>>] = h[<<bodies[p[1]][p[2]].of, 1>>]
      BY <1>3, LaterPlaces, NextLater
    <3> QED BY <1>3, <3>1, <3>2, OutcomeSame
  <2>6. Recursive(P, R, Outcomes, Step)
    BY <2>4, <2>5 DEF Recursive
  <2>7. Silent \in Outcomes
    BY DEF Outcomes, Outcome, Silent
  <2>8. PICK f \in [P -> Outcomes] : \A p \in P : f[p] = Step[<<f, p>>]
    <3>1. PICK v : v \in Outcomes
      BY <2>7
    <3> QED BY <2>1, <2>6, <3>1, RecursionSolved
  <2>9. \A p \in P : f[p] = OutcomeAt(bodies, f, p)
    BY <2>3, <2>8
  <2> QED BY <1>3, <2>9 DEF Solves
<1>5. Solves(bodies, Solution(bodies), Places(bodies))
  BY <1>4, Zenon DEF Solution
<1> DEFINE f == CHOOSE from : from = [p \in Places(bodies) |-> OutcomeAt(bodies, from, p)]
<1>6. Meaning(bodies) = f[<<Root, 1>>]
  BY DEF Meaning
<1>7. \E from : from = [p \in Places(bodies) |-> OutcomeAt(bodies, from, p)]
  <2> DEFINE s == Solution(bodies)
  <2>1. s = [p \in Places(bodies) |-> OutcomeAt(bodies, s, p)]
    BY <1>5 DEF Solves
  <2> QED BY <2>1
<1>8. f = [p \in Places(bodies) |-> OutcomeAt(bodies, f, p)]
  BY <1>7, Zenon
<1>9. \A p \in Places(bodies) : f[p] = OutcomeAt(bodies, f, p)
  <2> HIDE DEF f
  <2> QED BY <1>8
<1>10. f[<<Root, 1>>] = Solution(bodies)[<<Root, 1>>]
  <2> HIDE DEF f
  <2>1. \A p \in Places(bodies) : Solution(bodies)[p] = OutcomeAt(bodies, Solution(bodies), p)
    BY <1>5 DEF Solves
  <2> QED BY <1>2, <1>9, <2>1, SolvedOnce DEF Root
<1> QED BY <1>5, <1>6, <1>10
-----------------------------------------------------------------------------
(* The inductive invariant *)

Open == {g \in Generators : position[g] # 0 /\ g \notin done}
Leaf == parentOrLeaf[Root]
AtNest(p) == position[p] \in 1..Len(body[p]) /\ ItemOf(p).op = "nest"
Nests(p, g) == AtNest(p) /\ ItemOf(p).of = g
Over == consumer \in {"left", "ended", "failed"}

GeneratorTypes ==
  /\ body \in Bodies
  /\ position \in [Generators -> Nat]
  /\ \A g \in Generators : position[g] <= Len(body[g]) + 1
  /\ rootOf \in [Generators -> Generators]
  /\ parentOrLeaf \in [Generators -> Generators]
  /\ exception \in [Generators -> {"unconstructed", "empty", "error"}]
  /\ value \in [Generators -> Seq(Yielded)]
  /\ live \subseteq Generators /\ done \subseteq Generators
  /\ active \in Generators \cup {Consumer}
  /\ consumer \in {"fresh", "iterating", "threw", "left", "ended", "failed"}
  /\ taken \in Seq(Yielded)

\* Where control is: at the leaf or at the consumer.
Control ==
  /\ consumer = "fresh" <=> position[Root] = 0
  /\ active # Consumer => consumer = "iterating" /\ Root \notin done /\ active = Leaf
  /\ consumer \in {"ended", "threw", "failed"} => Root \in done
  /\ consumer = "left" => Root \notin done

\* The generators that have started and not ended are a stack: each but the root is what the
\* item of its parent nests, and the leaf, the last one, has none upon it.
Stack ==
  /\ \A g \in Generators : position[g] = 0 => g \notin done
  /\ position[Root] = 0 => Leaf = Root /\ \A g \in Generators : position[g] = 0
  /\ position[Root] # 0 /\ Root \notin done => Leaf \in Open
  /\ Root \in done => Open = {}
  /\ \A g \in Open \ {Root} : parentOrLeaf[g] \in Open /\ parentOrLeaf[g] < g /\ Nests(parentOrLeaf[g], g)
  /\ \A g \in Open : ~ Nests(Leaf, g)
  /\ \A g \in Open \ {Leaf} : AtNest(g) /\ ItemOf(g).of \in Open
  /\ \A g \in Generators : \A i \in 1..Len(body[g]) :
       i > position[g] /\ body[g][i].op = "nest" => position[body[g][i].of] = 0
  /\ \A g \in Generators : position[g] # 0 => rootOf[g] = Root
  /\ rootOf[Root] = Root

\* The frames that exist are those of the stack and of what the leaf has nested and not yet
\* destroyed; each but the root's has an exception, which is an error only if it has ended.
Frame ==
  /\ Over => live = {}
  /\ ~ Over => Root \in live
  /\ ~ Over => \A g \in Generators \ {Root} :
       g \in live <=> g \in Open \/ (Root \notin done /\ position[g] # 0 /\ Nests(Leaf, g))
  /\ \A g \in Generators : exception[g] # "unconstructed" <=> g \in live \ {Root}
  /\ \A g \in Generators : exception[g] = "error" => g \in done

OneValue ==
  /\ \A g \in Generators \ {Root} : value[g] = <<>>
  /\ IF active = Consumer /\ consumer = "iterating" /\ Root \notin done
     THEN \E v \in Yielded : value[Root] = <<v>>
     ELSE value[Root] = <<>>

\* What comes once an outcome has come, if what comes next depends on whether it throws.
Continued(o, returned, thrown) == Joined(o, IF o.throws THEN thrown ELSE returned)

From(g, i) == Solution(body)[<<g, i>>]

\* What the leaf has still to give.
AtLeaf ==
  IF Nests(Leaf, ItemOf(Leaf).of) /\ position[ItemOf(Leaf).of] # 0
  THEN IF exception[ItemOf(Leaf).of] = "error" /\ ~ItemOf(Leaf).catches THEN Raised
       ELSE From(Leaf, position[Leaf] + 1)
  ELSE From(Leaf, position[Leaf])

\* What comes after each generator of the stack, if it returns and if it throws.
Continuations(returned, thrown) ==
  /\ returned \in [Generators -> Outcomes] /\ thrown \in [Generators -> Outcomes]
  /\ returned[Root] = Silent /\ thrown[Root] = Raised
  /\ \A g \in Open \ {Root} :
       LET p == parentOrLeaf[g]
       IN /\ returned[g] = Continued(From(p, position[p] + 1), returned[p], thrown[p])
          /\ thrown[g] = IF ItemOf(p).catches THEN returned[g] ELSE thrown[p]

\* What the consumer has seen, the value it is given, and the rest are the meaning.
Rest ==
  /\ \E rest \in Outcomes : Meaning(body) = Outcome(taken \o rest.values, rest.throws)
  /\ consumer = "fresh" => taken = <<>>
  /\ Root \in done =>
       Meaning(body).values = taken /\ (Meaning(body).throws <=> consumer \in {"threw", "failed"})
  /\ consumer = "iterating" /\ Root \notin done =>
       \E returned, thrown :
         /\ Continuations(returned, thrown)
         /\ LET rest == Continued(AtLeaf, returned[Leaf], thrown[Leaf])
            IN Meaning(body) = Outcome((taken \o value[Root]) \o rest.values, rest.throws)

GeneratorInv == GeneratorTypes /\ Control /\ Stack /\ Frame /\ OneValue /\ Rest
-----------------------------------------------------------------------------
(* Putting outcomes together *)

LEMMA ContinuedTyped ==
  ASSUME NEW o \in Outcomes, NEW returned \in Outcomes, NEW thrown \in Outcomes
  PROVE  Continued(o, returned, thrown) \in Outcomes
<1> DEFINE next == IF o.throws THEN thrown ELSE returned
<1>1. next \in Outcomes
  OBVIOUS
<1> QED BY <1>1, FollowedTyped DEF Continued

\* Nothing comes before what follows it.
LEMMA NothingFirst ==
  ASSUME NEW returned \in Outcomes, NEW thrown \in Outcomes
  PROVE  /\ Silent \in Outcomes /\ Raised \in Outcomes
         /\ Continued(Silent, returned, thrown) = returned
         /\ Continued(Raised, returned, thrown) = thrown
<1>1. Silent \in Outcomes /\ Raised \in Outcomes
  BY DEF Silent, Raised, Outcome, Outcomes
<1>2. ASSUME NEW o \in Outcomes PROVE Outcome(<<>> \o o.values, o.throws) = o
  <2>1. <<>> \o o.values = o.values
    BY ConcatEmptySeq DEF Outcomes
  <2> QED BY <2>1 DEF Outcome, Outcomes
<1> QED BY <1>1, <1>2 DEF Continued, Followed, Joined, Silent, Raised, Outcome

\* Sequences of values may be put together in any order of grouping.
LEMMA Regrouped ==
  ASSUME NEW x \in Seq(Yielded), NEW y \in Seq(Yielded), NEW z \in Seq(Yielded)
  PROVE  (x \o y) \o z = x \o (y \o z)
BY ConcatAssociative

\* What comes after one thing and another comes after the other, that after the one.
LEMMA ContinuedInTurn ==
  ASSUME NEW a \in Outcomes, NEW b \in Outcomes, NEW catches \in BOOLEAN,
         NEW returned \in Outcomes, NEW thrown \in Outcomes
  PROVE  LET after == Continued(b, returned, thrown)
         IN Continued(Followed(a, catches, b), returned, thrown) =
              Continued(a, after, IF catches THEN after ELSE thrown)
<1> DEFINE next == IF b.throws THEN thrown ELSE returned
<1>1. next \in Outcomes
  OBVIOUS
<1> HIDE DEF next
<1>2. (a.values \o b.values) \o next.values = a.values \o (b.values \o next.values)
  <2>1. a.values \in Seq(Yielded) /\ b.values \in Seq(Yielded) /\ next.values \in Seq(Yielded)
    BY <1>1 DEF Outcomes
  <2> QED BY <2>1, Regrouped
<1>3. Continued(b, returned, thrown) = Outcome(b.values \o next.values, next.throws)
  BY DEF Continued, Followed, Joined, next
<1>4. CASE a.throws /\ ~ catches
  BY <1>4 DEF Continued, Followed, Joined, Outcome
<1>5. CASE ~ (a.throws /\ ~ catches)
  <2>1. Followed(a, catches, b) = Outcome(a.values \o b.values, b.throws)
    BY <1>5 DEF Followed, Joined
  <2>2. Continued(Followed(a, catches, b), returned, thrown) = Outcome((a.values \o b.values) \o next.values, next.throws)
    <3>1. \A o : Continued(o, returned, thrown) = Outcome(o.values \o (IF o.throws THEN thrown ELSE returned).values,
                                                          (IF o.throws THEN thrown ELSE returned).throws)
      BY DEF Continued, Followed, Joined, Outcome
    <3>2. Outcome(a.values \o b.values, b.throws).throws = b.throws
          /\ Outcome(a.values \o b.values, b.throws).values = a.values \o b.values
      BY DEF Outcome
    <3> QED BY <2>1, <3>1, <3>2 DEF next
  <2>3. Continued(a, Continued(b, returned, thrown), IF catches THEN Continued(b, returned, thrown) ELSE thrown)
          = Outcome(a.values \o (b.values \o next.values), next.throws)
    BY <1>3, <1>5 DEF Continued, Followed, Joined, Outcome
  <2> QED BY <1>2, <2>2, <2>3
<1> QED BY <1>4, <1>5

\* Values come before what follows them.
LEMMA ValuesFirst ==
  ASSUME NEW first \in Seq(Yielded), NEW b \in Outcomes, NEW returned \in Outcomes, NEW thrown \in Outcomes,
         NEW after, after = Continued(b, returned, thrown)
  PROVE  Continued(Outcome(first \o b.values, b.throws), returned, thrown) =
           Outcome(first \o after.values, after.throws)
<1> DEFINE next == IF b.throws THEN thrown ELSE returned
<1>1. next \in Outcomes /\ after \in Outcomes
  BY ContinuedTyped
<1> HIDE DEF next
<1>2. (first \o b.values) \o next.values = first \o (b.values \o next.values)
  <2>1. b.values \in Seq(Yielded) /\ next.values \in Seq(Yielded)
    BY <1>1 DEF Outcomes
  <2> QED BY <2>1, Regrouped
<1>3. after.values = b.values \o next.values /\ after.throws = next.throws
  BY DEF Continued, Joined, Outcome, next
<1>4. Continued(Outcome(first \o b.values, b.throws), returned, thrown)
        = Outcome((first \o b.values) \o next.values, next.throws)
  BY DEF Continued, Joined, Outcome, next
<1> QED BY <1>2, <1>3, <1>4

\* What comes from a place of the body on.
LEMMA FromPlace ==
  ASSUME body \in Bodies, NEW g \in Generators, NEW i \in 1..(Len(body[g]) + 1)
  PROVE  /\ From(g, i) \in Outcomes
         /\ i = Len(body[g]) + 1 => From(g, i) = Silent
         /\ i <= Len(body[g]) =>
              /\ From(g, i + 1) \in Outcomes
              /\ body[g][i].op = "yield" =>
                   From(g, i) = Outcome(<<body[g][i].value>> \o From(g, i + 1).values, From(g, i + 1).throws)
              /\ body[g][i].op = "throw" => From(g, i) = Raised
              /\ body[g][i].op = "nest" =>
                   /\ From(body[g][i].of, 1) \in Outcomes
                   /\ From(g, i) = Followed(From(body[g][i].of, 1), body[g][i].catches, From(g, i + 1))
<1> DEFINE p == <<g, i>>
<1>1. Len(body[g]) \in Nat /\ g \in DOMAIN body
  BY ItemFacts DEF Generators
<1>2. p \in Places(body) /\ p[1] = g /\ p[2] = i
  BY <1>1 DEF Places
<1>3. \A q \in Places(body) : Solution(body)[q] = OutcomeAt(body, Solution(body), q) /\ Solution(body)[q] \in Outcomes
  BY MeaningSolved DEF Solves
<1>4. From(g, i) = OutcomeAt(body, Solution(body), p) /\ From(g, i) \in Outcomes
  BY <1>2, <1>3 DEF From
<1>5. i = Len(body[g]) + 1 => From(g, i) = Silent
  <2>1. i = Len(body[g]) + 1 => i > Len(body[g])
    BY <1>1
  <2> QED BY <1>2, <1>4, <2>1 DEF OutcomeAt
<1>6. ASSUME i <= Len(body[g])
      PROVE  /\ From(g, i + 1) \in Outcomes
             /\ body[g][i].op = "yield" =>
                  From(g, i) = Outcome(<<body[g][i].value>> \o From(g, i + 1).values, From(g, i + 1).throws)
             /\ body[g][i].op = "throw" => From(g, i) = Raised
             /\ body[g][i].op = "nest" =>
                  /\ From(body[g][i].of, 1) \in Outcomes
                  /\ From(g, i) = Followed(From(body[g][i].of, 1), body[g][i].catches, From(g, i + 1))
  <2>1. From(g, i + 1) \in Outcomes
    BY <1>2, <1>3, <1>6, LaterPlaces DEF From
  <2>2. body[g][i].op = "nest" => From(body[g][i].of, 1) \in Outcomes
    BY <1>2, <1>3, <1>6, LaterPlaces DEF From
  <2>3. ~ (i > Len(body[g]))
    BY <1>1, <1>6
  <2>4. body[g][i].op = "yield" =>
          From(g, i) = Outcome(<<body[g][i].value>> \o From(g, i + 1).values, From(g, i + 1).throws)
    BY <1>2, <1>4, <2>3, Zenon DEF OutcomeAt, From
  <2>5. body[g][i].op = "throw" => From(g, i) = Raised
    BY <1>2, <1>4, <2>3 DEF OutcomeAt, Raised
  <2>6. body[g][i].op = "nest" =>
          From(g, i) = Followed(From(body[g][i].of, 1), body[g][i].catches, From(g, i + 1))
    BY <1>2, <1>4, <2>3 DEF OutcomeAt, From
  <2> QED BY <2>1, <2>2, <2>4, <2>5, <2>6
<1> QED BY <1>4, <1>5, <1>6

-----------------------------------------------------------------------------
(* The initial states *)

LEMMA GeneratorInvInit == ASSUME GeneratorInit PROVE GeneratorInv
<1> USE DEF GeneratorInit
<1>1. Len(body) \in Nat \ {0} /\ Generators = 1..Len(body) /\ \A g \in Generators : Len(body[g]) \in Nat
  BY ItemFacts DEF Generators
<1>2. Root \in Generators
  BY <1>1 DEF Root
<1>3. GeneratorTypes
  BY <1>1, <1>2 DEF GeneratorTypes, Consumer
<1>4. Control
  BY <1>2 DEF Control
<1>5. Stack
  <2>1. \A g \in Generators : \A i \in 1..Len(body[g]) : body[g][i].op = "nest" => body[g][i].of \in Generators
    BY ItemFacts DEF Generators
  <2> QED BY <1>1, <1>2, <2>1 DEF Stack, Open, Leaf
<1>6. Frame
  BY <1>1, <1>2 DEF Frame, Over, Open
<1>7. OneValue
  BY <1>1, <1>2 DEF OneValue
<1>8. Rest
  <2>1. 1 \in 1..(Len(body[Root]) + 1)
    BY <1>1, <1>2
  <2>2. From(Root, 1) \in Outcomes /\ Meaning(body) = From(Root, 1)
    BY <1>2, <2>1, FromPlace, MeaningSolved DEF From
  <2>3. taken \o From(Root, 1).values = From(Root, 1).values
    BY <2>2, ConcatEmptySeq DEF Outcomes
  <2>4. Meaning(body) = Outcome(taken \o From(Root, 1).values, From(Root, 1).throws)
    BY <2>2, <2>3 DEF Outcome, Outcomes
  <2> QED BY <2>2, <2>4 DEF Rest
<1> QED BY <1>3, <1>4, <1>5, <1>6, <1>7, <1>8 DEF GeneratorInv

\* What the invariant says of the generator that runs.
LEMMA Running ==
  ASSUME GeneratorInv, NEW g \in Generators, active = g
  PROVE  /\ g = Leaf /\ g \in Open /\ Root \notin done /\ consumer = "iterating" /\ position[Root] # 0
         /\ position[g] \in 1..(Len(body[g]) + 1) /\ Len(body[g]) \in Nat /\ rootOf[g] = Root
         /\ Root \in Generators /\ Generators = 1..Len(body) /\ Len(body) \in Nat
         /\ \A h \in Generators : h \in Nat /\ h # Consumer
         /\ value[Root] = <<>>
<1>1. Len(body) \in Nat \ {0} /\ Generators = 1..Len(body) /\ \A h \in Generators : Len(body[h]) \in Nat
  BY ItemFacts DEF Generators, GeneratorInv, GeneratorTypes
<1>2. Root \in Generators /\ \A h \in Generators : h \in Nat /\ h # Consumer
  BY <1>1 DEF Root, Consumer
<1>3. g = Leaf /\ Root \notin done /\ consumer = "iterating"
  BY <1>2 DEF GeneratorInv, Control
<1>4. position[Root] # 0 /\ g \in Open
  BY <1>3 DEF GeneratorInv, Control, Stack
<1>5. position[g] \in 1..(Len(body[g]) + 1) /\ rootOf[g] = Root
  <2>1. position[g] \in Nat /\ position[g] <= Len(body[g]) + 1 /\ position[g] # 0
    BY <1>4 DEF GeneratorInv, GeneratorTypes, Open
  <2>2. rootOf[g] = Root
    BY <2>1 DEF GeneratorInv, Stack
  <2> QED BY <1>1, <2>1, <2>2
<1>6. value[Root] = <<>>
  BY <1>2 DEF GeneratorInv, OneValue
<1> QED BY <1>1, <1>2, <1>3, <1>4, <1>5, <1>6

\* Shorter names for the facts that the proofs of the steps begin with.
LEMMA Basics ==
  ASSUME GeneratorInv
  PROVE  /\ Root \in Generators /\ Generators = 1..Len(body) /\ Len(body) \in Nat
         /\ \A g \in Generators : g \in Nat /\ g # Consumer /\ Len(body[g]) \in Nat /\ position[g] \in Nat
         /\ position[Root] # 0 => Leaf \in Generators
         /\ body \in Bodies
<1>1. Len(body) \in Nat \ {0} /\ Generators = 1..Len(body) /\ \A h \in Generators : Len(body[h]) \in Nat
  BY ItemFacts DEF Generators, GeneratorInv, GeneratorTypes
<1>2. Root \in Generators /\ \A h \in Generators : h \in Nat /\ h # Consumer
  BY <1>1 DEF Root, Consumer
<1> QED BY <1>1, <1>2 DEF GeneratorInv, GeneratorTypes, Leaf

-----------------------------------------------------------------------------
(* The steps of the consumer *)

LEMMA BeginKeeps == ASSUME GeneratorInv, Begin PROVE GeneratorInv'
<1> USE DEF Begin
<1>1. Root \in Generators /\ Generators = 1..Len(body) /\ Len(body) \in Nat
      /\ \A g \in Generators : g \in Nat /\ g # Consumer /\ Len(body[g]) \in Nat /\ position[g] \in Nat
      /\ body \in Bodies
  BY Basics
<1>2. Generators' = Generators /\ body' = body
  BY DEF Generators
<1>3. /\ Leaf = Root /\ \A g \in Generators : position[g] = 0 /\ g \notin done
      /\ Leaf' = Root
  BY <1>1 DEF GeneratorInv, Control, Stack, Leaf
<1>4. /\ \A g \in Generators : position'[g] = IF g = Root THEN 1 ELSE 0
      /\ Open = {} /\ Open' = {Root}
  BY <1>1, <1>2, <1>3 DEF GeneratorInv, GeneratorTypes, Open
<1>5. GeneratorTypes'
  BY <1>1, <1>2 DEF GeneratorInv, GeneratorTypes
<1>6. Control'
  BY <1>1, <1>3, <1>4 DEF GeneratorInv, Control
<1>7. \A g \in Generators : \A i \in 1..Len(body[g]) : body[g][i].op = "nest" => body[g][i].of \in Generators \ {Root}
  <2>1. ASSUME NEW g \in Generators, NEW i \in 1..Len(body[g]), body[g][i].op = "nest"
        PROVE  body[g][i].of \in Generators \ {Root}
    <3>1. body[g][i].of \in Generators /\ body[g][i].of > g
      BY <1>1, <2>1, ItemFacts DEF Generators
    <3>2. body[g][i].of > 1
      BY <1>1, <3>1
    <3> QED BY <1>1, <3>1, <3>2 DEF Root
  <2> QED BY <2>1
<1>8. Stack'
  <2>1. ~ Nests(Root, Root)'
    BY <1>1, <1>2, <1>7 DEF Nests, AtNest, ItemOf
  <2>2. \A g \in Generators : \A i \in 1..Len(body[g]) : body[g][i].op = "nest" => position'[body[g][i].of] = 0
    BY <1>4, <1>7
  <2> QED BY <1>1, <1>2, <1>3, <1>4, <2>1, <2>2 DEF GeneratorInv, Stack
<1>9. Frame'
  <2>1. \A g \in Generators \ {Root} : g \notin live
    BY <1>1, <1>3, <1>4 DEF GeneratorInv, Frame, Over
  <2> QED BY <1>1, <1>2, <1>3, <1>4, <2>1 DEF GeneratorInv, Frame, Over
<1>10. OneValue'
  BY <1>1, <1>2 DEF GeneratorInv, OneValue
<1>11. Rest'
  <2>1. 1 \in 1..(Len(body[Root]) + 1)
    BY <1>1
  <2>2. From(Root, 1) \in Outcomes /\ Meaning(body) = From(Root, 1)
    BY <1>1, <2>1, FromPlace, MeaningSolved DEF From
  <2>3. AtLeaf' = From(Root, 1)
    <3>1. AtNest(Root)' => ItemOf(Root)'.of \in Generators \ {Root}
      BY <1>1, <1>2, <1>7 DEF AtNest, ItemOf
    <3>2. AtNest(Root)' => position'[ItemOf(Root)'.of] = 0
      BY <1>4, <3>1
    <3> QED BY <1>1, <1>2, <1>3, <1>4, <3>2 DEF AtLeaf, Nests, From
  <2> PICK returned, thrown : returned = [g \in Generators |-> Silent] /\ thrown = [g \in Generators |-> Raised]
    OBVIOUS
  <2>4. Continuations(returned, thrown)'
    BY <1>1, <1>2, <1>4, NothingFirst, <2>2 DEF Continuations
  <2>5. Continued(From(Root, 1), Silent, Raised) = From(Root, 1)
    <3>1. From(Root, 1).values \o <<>> = From(Root, 1).values
      BY <2>2, ConcatEmptySeq DEF Outcomes
    <3> QED BY <2>2, <3>1 DEF Continued, Followed, Joined, Silent, Raised, Outcome, Outcomes
  <2>6. taken = <<>> /\ value[Root] = <<>>
    BY <1>1 DEF GeneratorInv, Rest, OneValue
  <2>7. (taken' \o value'[Root]) \o From(Root, 1).values = From(Root, 1).values
    <3>1. <<>> \o <<>> = <<>>
      OBVIOUS
    <3>2. <<>> \o From(Root, 1).values = From(Root, 1).values
      BY <2>2, ConcatEmptySeq DEF Outcomes
    <3> QED BY <2>6, <3>1, <3>2
  <2>8. Meaning(body)' = Outcome((taken' \o value'[Root]) \o From(Root, 1).values, From(Root, 1).throws)
    BY <1>2, <2>2, <2>7 DEF Outcome, Outcomes
  <2>9. Root \notin done'
    BY <1>1, <1>3
  <2>10. \E r, t : Continuations(r, t)' /\ LET rest == Continued(AtLeaf', r[Leaf'], t[Leaf'])
            IN Meaning(body)' = Outcome((taken' \o value'[Root]) \o rest.values, rest.throws)
    <3>1. returned[Leaf'] = Silent /\ thrown[Leaf'] = Raised
      BY <1>1, <1>3
    <3> QED BY <2>3, <2>4, <2>5, <2>8, <3>1
  <2>11. (\E rest \in Outcomes : Meaning(body) = Outcome(taken \o rest.values, rest.throws))'
    BY <1>2 DEF GeneratorInv, Rest
  <2>12. consumer' = "iterating"
    OBVIOUS
  <2> QED BY <2>9, <2>10, <2>11, <2>12 DEF Rest
<1> QED BY <1>5, <1>6, <1>8, <1>9, <1>10, <1>11 DEF GeneratorInv

\* Operators that depend on what a step leaves alone.
LEMMA Frozen ==
  ASSUME UNCHANGED <<body, position, rootOf, parentOrLeaf, done>>
  PROVE  /\ Generators' = Generators /\ Open' = Open /\ Leaf' = Leaf
         /\ \A p : (AtNest(p)' <=> AtNest(p)) /\ ItemOf(p)' = ItemOf(p)
         /\ \A p, g : Nests(p, g)' <=> Nests(p, g)
         /\ \A g, i : From(g, i)' = From(g, i)
         /\ Meaning(body)' = Meaning(body)
         /\ Stack' <=> Stack
<1>1. Generators' = Generators
  BY DEF Generators
<1>2. Open' = Open /\ Leaf' = Leaf
  BY <1>1 DEF Open, Leaf
<1>3. \A p : (AtNest(p)' <=> AtNest(p)) /\ ItemOf(p)' = ItemOf(p)
  BY DEF AtNest, ItemOf
<1>4. \A p, g : Nests(p, g)' <=> Nests(p, g)
  BY <1>3 DEF Nests
<1>5. \A g, i : From(g, i)' = From(g, i)
  BY DEF From
<1>6. Stack' <=> Stack
  BY <1>1, <1>2, <1>3, <1>4 DEF Stack
<1> QED BY <1>1, <1>2, <1>3, <1>4, <1>5, <1>6

\* What the leaf has still to give is an outcome.
LEMMA LeafOutcome ==
  ASSUME GeneratorInv, position[Root] # 0, Root \notin done
  PROVE  Leaf \in Generators /\ Leaf \in Open /\ AtLeaf \in Outcomes
<1>1. Leaf \in Open /\ Leaf \in Generators /\ body \in Bodies
  BY DEF GeneratorInv, Stack, Open, GeneratorTypes
<1>2. position[Leaf] \in Nat /\ position[Leaf] # 0 /\ position[Leaf] <= Len(body[Leaf]) + 1
      /\ Len(body[Leaf]) \in Nat
  BY <1>1, Basics DEF GeneratorInv, GeneratorTypes, Open
<1> DEFINE g == Leaf
           i == position[g]
<1>6. i \in 1..(Len(body[g]) + 1) /\ g \in Generators /\ body \in Bodies
  BY <1>1, <1>2
<1>3. From(g, i) \in Outcomes
  <2> HIDE DEF g, i
  <2> QED BY <1>6, FromPlace
<1>4. AtNest(g) => From(g, i + 1) \in Outcomes
  <2>1. AtNest(g) => i <= Len(body[g])
    BY <1>2 DEF AtNest
  <2> HIDE DEF g, i
  <2> QED BY <1>6, <2>1, FromPlace
<1>5. Raised \in Outcomes
  BY <1>3, NothingFirst
<1> QED BY <1>1, <1>3, <1>4, <1>5 DEF AtLeaf, Nests

LEMMA IncrementKeeps == ASSUME GeneratorInv, Increment PROVE GeneratorInv'
<1> USE DEF Increment
<1>1. Root \in Generators /\ \A g \in Generators : g \in Nat /\ g # Consumer
  BY Basics
<1>2. /\ Generators' = Generators /\ Open' = Open /\ Leaf' = Leaf
      /\ \A p : (AtNest(p)' <=> AtNest(p)) /\ ItemOf(p)' = ItemOf(p)
      /\ \A p, g : Nests(p, g)' <=> Nests(p, g)
      /\ \A g, i : From(g, i)' = From(g, i)
      /\ Meaning(body)' = Meaning(body)
      /\ Stack' <=> Stack
  BY Frozen
<1>3. PICK v \in Yielded : value[Root] = <<v>>
  BY DEF GeneratorInv, OneValue, Done
<1>4. taken \in Seq(Yielded) /\ taken' = taken \o <<v>> /\ taken' \in Seq(Yielded)
      /\ value'[Root] = <<>>
  BY <1>1, <1>3 DEF GeneratorInv, GeneratorTypes
<1>5. GeneratorTypes'
  <2>1. parentOrLeaf[Root] \in Generators
    BY <1>1 DEF GeneratorInv, GeneratorTypes
  <2> QED BY <1>1, <1>2, <1>4, <2>1 DEF GeneratorInv, GeneratorTypes
<1>6. Control'
  BY <1>2 DEF GeneratorInv, Control, Done, Leaf
<1>7. Stack'
  BY <1>2 DEF GeneratorInv
<1>8. Frame'
  BY <1>2 DEF GeneratorInv, Frame, Over
<1>9. OneValue'
  <2>1. active' # Consumer
    BY <1>1 DEF GeneratorInv, GeneratorTypes
  <2> QED BY <1>1, <1>2, <2>1 DEF GeneratorInv, GeneratorTypes, OneValue
<1>10. Rest'
  <2>1. AtLeaf' = AtLeaf
    BY <1>2 DEF AtLeaf
  <2>2. taken' \o value'[Root] = taken \o value[Root]
    BY <1>3, <1>4, ConcatEmptySeq
  <2>3. PICK returned, thrown :
         /\ Continuations(returned, thrown)
         /\ LET rest == Continued(AtLeaf, returned[Leaf], thrown[Leaf])
            IN Meaning(body) = Outcome((taken \o value[Root]) \o rest.values, rest.throws)
    BY DEF GeneratorInv, Rest, Done
  <2>4. Continuations(returned, thrown)'
    BY <1>2, <2>3 DEF Continuations
  <2>5. Continued(AtLeaf, returned[Leaf], thrown[Leaf]) \in Outcomes
    <3>1. Leaf \in Generators /\ AtLeaf \in Outcomes
      BY LeafOutcome DEF Done, GeneratorInv, Control
    <3> QED BY <3>1, <2>3, ContinuedTyped DEF Continuations
  <2>6. \E rest \in Outcomes : Meaning(body) = Outcome(taken' \o rest.values, rest.throws)
    BY <1>3, <1>4, <2>3, <2>5
  <2> QED BY <1>2, <2>1, <2>2, <2>3, <2>4, <2>6 DEF Rest, Done
<1> QED BY <1>5, <1>6, <1>7, <1>8, <1>9, <1>10 DEF GeneratorInv

LEMMA LeaveLoopKeeps == ASSUME GeneratorInv, LeaveLoop PROVE GeneratorInv'
<1>1. Root \in Generators /\ \A g \in Generators : g \in Nat /\ g # Consumer
  BY Basics
<1>2. PICK how \in {"ended", "left", "failed"} :
        /\ Destroy(how) /\ active = Consumer /\ consumer \in {"iterating", "threw"}
        /\ how = "left" <=> ~ Done(Root)
        /\ how = "failed" <=> consumer = "threw"
  BY DEF LeaveLoop, GeneratorInv, Control, Done
<1> USE DEF Destroy
<1>3. /\ Generators' = Generators /\ Open' = Open /\ Leaf' = Leaf
      /\ Meaning(body)' = Meaning(body)
      /\ Stack' <=> Stack
  BY <1>2, Frozen
<1>4. GeneratorTypes'
  BY <1>1, <1>2, <1>3 DEF GeneratorInv, GeneratorTypes
<1>5. Control'
  BY <1>2, <1>3 DEF GeneratorInv, Control, Done
<1>6. Stack'
  BY <1>3 DEF GeneratorInv
<1>7. Frame'
  <2>1. \A g \in live \ {Root} : rootOf[g] = Root /\ g \in Generators
    BY <1>2 DEF GeneratorInv, Frame, Over, Stack, Open, GeneratorTypes
  <2>2. \A g \in Generators : exception'[g] = "unconstructed"
    BY <1>1, <1>2, <2>1 DEF GeneratorInv, Frame, Stack
  <2> QED BY <1>2, <1>3, <2>2 DEF Frame, Over
<1>8. OneValue'
  BY <1>1, <1>2, <1>3 DEF GeneratorInv, GeneratorTypes, OneValue, Done
<1>9. Rest'
  BY <1>2, <1>3 DEF GeneratorInv, Rest, Done
<1> QED BY <1>4, <1>5, <1>6, <1>7, <1>8, <1>9 DEF GeneratorInv

-----------------------------------------------------------------------------
(* What several steps of a generator have in common *)

\* Nested generators come later than what nests them.
LEMMA NestsLater ==
  ASSUME GeneratorInv, NEW g \in Generators, NEW i \in 1..Len(body[g]), body[g][i].op = "nest"
  PROVE  body[g][i].of \in Generators \ {Root} /\ body[g][i].of > g /\ body[g][i].of # g
<1>1. Generators = 1..Len(body) /\ Len(body) \in Nat /\ body \in Bodies
  BY Basics
<1>2. body[g][i].of \in Generators /\ body[g][i].of > g
  BY <1>1, ItemFacts DEF Generators
<1>3. body[g][i].of \in Nat /\ g \in Nat /\ g >= 1
  BY <1>1, <1>2
<1>4. body[g][i].of # 1 /\ body[g][i].of # g
  BY <1>2, <1>3
<1> QED BY <1>2, <1>4 DEF Root

\* The running generator goes on to its next item, which has nested nothing yet.
LEMMA Advances ==
  ASSUME GeneratorInv, NEW g \in Generators, active = g, ~ AtEnd(g),
         position' = [position EXCEPT ![g] = @ + 1],
         UNCHANGED <<body, rootOf, parentOrLeaf, done>>
  PROVE  /\ Generators' = Generators /\ Open' = Open /\ Leaf' = g
         /\ position'[g] = position[g] + 1 /\ position[g] \in 1..Len(body[g])
         /\ \A h \in Generators : position'[h] = 0 <=> position[h] = 0
         /\ Stack'
         /\ \A h \in Generators : Nests(g, h)' => position'[h] = 0
         /\ AtLeaf' = From(g, position[g] + 1)
         /\ \A returned, thrown : Continuations(returned, thrown) => Continuations(returned, thrown)'
<1>1. /\ g = Leaf /\ g \in Open /\ Root \notin done /\ position[Root] # 0
      /\ position[g] \in 1..(Len(body[g]) + 1) /\ Len(body[g]) \in Nat
      /\ Root \in Generators
  BY Running
<1>2. Generators' = Generators /\ Leaf' = Leaf
  BY DEF Generators, Leaf
<1>3. \A h \in Generators : position[h] \in Nat /\ position'[h] = IF h = g THEN position[g] + 1 ELSE position[h]
  BY DEF GeneratorInv, GeneratorTypes
<1>4. position[g] \in 1..Len(body[g])
  BY <1>1 DEF AtEnd
<1>5. \A h \in Generators : position'[h] = 0 <=> position[h] = 0
  BY <1>3, <1>4
<1>6. Open' = Open
  BY <1>2, <1>5 DEF Open
<1>7. \A h \in Generators : \A i \in 1..Len(body[h]) :
        i > position'[h] /\ body[h][i].op = "nest" => position'[body[h][i].of] = 0
  <2> TAKE h \in Generators
  <2> TAKE i \in 1..Len(body[h])
  <2> HAVE i > position'[h] /\ body[h][i].op = "nest"
  <2>1. i > position[h]
    BY <1>3
  <2>2. position[body[h][i].of] = 0
    BY <2>1 DEF GeneratorInv, Stack
  <2>3. body[h][i].of \in Generators
    BY NestsLater
  <2> QED BY <1>5, <2>2, <2>3
<1>8. \A h \in Generators \ {g} : \A k : (Nests(h, k)' <=> Nests(h, k)) /\ (AtNest(h)' <=> AtNest(h)) /\ ItemOf(h)' = ItemOf(h)
  BY <1>3 DEF Nests, AtNest, ItemOf
<1>9. \A h : Nests(g, h)' => h \in Generators /\ position'[h] = 0
  <2> TAKE h
  <2> HAVE Nests(g, h)'
  <2> DEFINE i == position[g] + 1
  <2>1. position'[g] = i /\ i \in 1..Len(body[g]) /\ body[g][i].op = "nest" /\ h = body[g][i].of
    BY <1>3 DEF Nests, AtNest, ItemOf
  <2>2. i > position[g]
    BY <1>4
  <2>3. position[h] = 0 /\ h \in Generators
    BY <2>1, <2>2, NestsLater DEF GeneratorInv, Stack
  <2> QED BY <1>5, <2>3
<1>10. \A h \in Open \ {Root} : parentOrLeaf[h] \in Generators \ {g} /\ parentOrLeaf[h] \in Open
  BY <1>1 DEF GeneratorInv, Stack, Open
<1>11. Stack'
  <2>1. \A h \in Generators : position'[h] = 0 => h \notin done
    BY <1>5 DEF GeneratorInv, Stack
  <2>2. \A h \in Open \ {Root} : parentOrLeaf[h] < h /\ Nests(parentOrLeaf[h], h)'
    BY <1>8, <1>10 DEF GeneratorInv, Stack
  <2>3. \A h \in Open : ~ Nests(g, h)'
    BY <1>5, <1>9 DEF Open
  <2>4. \A h \in Open \ {g} : AtNest(h)' /\ ItemOf(h)'.of \in Open
    <3>1. \A h \in Open \ {g} : AtNest(h) /\ ItemOf(h).of \in Open /\ h \in Generators \ {g}
      BY <1>1 DEF GeneratorInv, Stack, Open
    <3> QED BY <1>8, <3>1
  <2>5. \A h \in Generators : position'[h] # 0 => rootOf[h] = Root
    BY <1>5 DEF GeneratorInv, Stack
  <2>6. rootOf[Root] = Root
    BY DEF GeneratorInv, Stack
  <2>7. position'[Root] # 0
    BY <1>1, <1>5
  <2> QED BY <1>1, <1>2, <1>6, <1>7, <1>10, <2>1, <2>2, <2>3, <2>4, <2>5, <2>6, <2>7 DEF Stack
<1>12. AtLeaf' = From(g, position[g] + 1)
  BY <1>1, <1>2, <1>3, <1>9 DEF AtLeaf, From
<1>13. ASSUME NEW returned, NEW thrown, Continuations(returned, thrown) PROVE Continuations(returned, thrown)'
  <2>1. ASSUME NEW h \in Open \ {Root}
        PROVE  LET p == parentOrLeaf[h]
               IN position'[p] = position[p] /\ ItemOf(p)' = ItemOf(p)
    BY <1>3, <1>8, <1>10
  <2> QED BY <1>2, <1>6, <1>13, <2>1 DEF Continuations, From
<1> QED BY <1>1, <1>2, <1>3, <1>4, <1>5, <1>6, <1>9, <1>11, <1>12, <1>13

\* A nested generator ends: its parent is the leaf.
LEMMA NestedLeaves ==
  ASSUME GeneratorInv, NEW g \in Generators \ {Root}, active = g, FinalSuspend(g),
         UNCHANGED <<body, position, rootOf>>, NEW p, p = parentOrLeaf[g]
  PROVE  /\ Generators' = Generators /\ Open' = Open \ {g} /\ Leaf' = p
         /\ p \in Open /\ p # g /\ p \in Generators /\ Nests(p, g) /\ Nests(p, g)' /\ ItemOf(p)' = ItemOf(p)
         /\ active' = p
         /\ parentOrLeaf' \in [Generators -> Generators]
         /\ Stack'
         /\ \A returned, thrown : Continuations(returned, thrown) => Continuations(returned, thrown)'
<1>1. /\ g = Leaf /\ g \in Open /\ Root \notin done /\ position[Root] # 0 /\ rootOf[g] = Root
      /\ Root \in Generators /\ \A h \in Generators : h \in Nat
  BY Running
<1>2. /\ done' = done \cup {g} /\ active' = p
      /\ parentOrLeaf' = [parentOrLeaf EXCEPT ![Root] = p]
  BY <1>1 DEF FinalSuspend
<1>3. p \in Open /\ p < g /\ Nests(p, g) /\ p \in Generators /\ p # g
  <2>1. p \in Open /\ p < g /\ Nests(p, g)
    BY <1>1 DEF GeneratorInv, Stack
  <2> QED BY <1>1, <2>1 DEF Open
<1>4. Generators' = Generators /\ Open' = Open \ {g} /\ Leaf' = p
  BY <1>1, <1>2 DEF Generators, Open, Leaf, GeneratorInv, GeneratorTypes
<1>5. \A h, k : (Nests(h, k)' <=> Nests(h, k)) /\ (AtNest(h)' <=> AtNest(h)) /\ ItemOf(h)' = ItemOf(h)
  BY DEF Nests, AtNest, ItemOf
<1>6. parentOrLeaf' \in [Generators -> Generators] /\ \A h \in Generators \ {Root} : parentOrLeaf'[h] = parentOrLeaf[h]
  BY <1>2, <1>3 DEF GeneratorInv, GeneratorTypes
<1>7. Stack'
  <2>1. \A h \in Generators : position[h] = 0 => h \notin done'
    BY <1>1, <1>2 DEF GeneratorInv, Stack, Open
  <2>2. \A h \in Open' \ {Root} : parentOrLeaf'[h] \in Open' /\ parentOrLeaf'[h] < h /\ Nests(parentOrLeaf'[h], h)
    <3> TAKE h \in Open' \ {Root}
    <3>1. h \in Open \ {Root} /\ h \in Generators
      BY <1>4 DEF Open
    <3>2. parentOrLeaf[h] \in Open /\ parentOrLeaf[h] < h /\ Nests(parentOrLeaf[h], h) /\ ~ Nests(g, h)
      BY <1>1, <3>1 DEF GeneratorInv, Stack
    <3> QED BY <1>4, <1>6, <3>1, <3>2
  <2>3. \A h \in Open' : ~ Nests(p, h)
    BY <1>3, <1>4 DEF Nests
  <2>4. \A h \in Open' \ {p} : AtNest(h) /\ ItemOf(h).of \in Open'
    <3> TAKE h \in Open' \ {p}
    <3>1. h \in Open \ {g} /\ h \in Generators
      BY <1>4 DEF Open
    <3>2. AtNest(h) /\ ItemOf(h).of \in Open
      BY <1>1, <3>1 DEF GeneratorInv, Stack
    <3>3. ItemOf(h).of # g
      <4> SUFFICES ASSUME ItemOf(h).of = g PROVE FALSE
        OBVIOUS
      <4>1. position[h] \in 1..Len(body[h]) /\ body[h][position[h]].op = "nest" /\ body[h][position[h]].of = g
        BY <3>2 DEF AtNest, ItemOf
      <4>2. position[p] \in 1..Len(body[p]) /\ body[p][position[p]].op = "nest" /\ body[p][position[p]].of = g
        BY <1>3 DEF Nests, AtNest, ItemOf
      <4>3. h \in DOMAIN body /\ p \in DOMAIN body /\ body \in Bodies
        BY <1>3, <3>1 DEF Generators, GeneratorInv, GeneratorTypes
      <4>4. h = p
        BY <4>1, <4>2, <4>3, NestedOnce
      <4> QED BY <4>4
    <3> QED BY <1>4, <3>2, <3>3
  <2>5. \A h \in Generators : \A i \in 1..Len(body[h]) :
          i > position[h] /\ body[h][i].op = "nest" => position[body[h][i].of] = 0
    BY DEF GeneratorInv, Stack
  <2>6. (\A h \in Generators : position[h] # 0 => rootOf[h] = Root) /\ rootOf[Root] = Root
    BY DEF GeneratorInv, Stack
  <2>7. Root \notin done'
    BY <1>1, <1>2
  <2>8. (\A h \in Open \ {Root} : parentOrLeaf[h] \in Open /\ parentOrLeaf[h] < h /\ Nests(parentOrLeaf[h], h))'
    BY <1>5, <2>2
  <2>9. (\A h \in Open : ~ Nests(Leaf, h))'
    BY <1>4, <1>5, <2>3
  <2>10. (\A h \in Open \ {Leaf} : AtNest(h) /\ ItemOf(h).of \in Open)'
    BY <1>4, <1>5, <2>4
  <2>11. Leaf' \in Open'
    BY <1>3, <1>4
  <2>12. body' = body /\ position' = position /\ rootOf' = rootOf
    OBVIOUS
  <2> QED BY <1>1, <1>4, <2>1, <2>5, <2>6, <2>7, <2>8, <2>9, <2>10, <2>11, <2>12 DEF Stack
<1>8. ASSUME NEW returned, NEW thrown, Continuations(returned, thrown) PROVE Continuations(returned, thrown)'
  <2>1. \A h \in Open' \ {Root} : h \in Open \ {Root} /\ parentOrLeaf'[h] = parentOrLeaf[h]
    BY <1>4, <1>6 DEF Open
  <2> QED BY <1>4, <1>5, <1>8, <2>1 DEF Continuations, From
<1> QED BY <1>2, <1>3, <1>4, <1>5, <1>6, <1>7, <1>8

\* If the root is the leaf, it is the only generator that has not ended.
LEMMA RootAlone ==
  ASSUME GeneratorInv, active = Root
  PROVE  Open = {Root} /\ Leaf = Root
<1>1. /\ Root \in Generators /\ Root = Leaf /\ Root \in Open /\ \A h \in Generators : h \in Nat /\ h # Consumer
  BY Running, Basics
<1> DEFINE T == Open \ {Root}
<1> SUFFICES ASSUME T # {} PROVE FALSE
  BY <1>1
<1>2. T \in SUBSET Nat
  BY <1>1 DEF Open
<1>3. PICK m \in T : \A k \in T : m <= k
  <2> HIDE DEF T
  <2> QED BY <1>2, LeastOf, Zenon
<1>4. parentOrLeaf[m] \in Open /\ parentOrLeaf[m] < m /\ Nests(parentOrLeaf[m], m)
  BY DEF GeneratorInv, Stack
<1>5. parentOrLeaf[m] = Root
  <2> SUFFICES ASSUME parentOrLeaf[m] # Root PROVE FALSE
    OBVIOUS
  <2>1. parentOrLeaf[m] \in T
    BY <1>4
  <2>2. m <= parentOrLeaf[m] /\ m \in Nat /\ parentOrLeaf[m] \in Nat
    BY <1>2, <1>3, <2>1
  <2> QED BY <1>4, <2>2
<1>6. ~ Nests(Root, m)
  BY <1>1 DEF GeneratorInv, Stack
<1> QED BY <1>4, <1>5, <1>6

\* The root ends.
LEMMA RootLeaves ==
  ASSUME GeneratorInv, active = Root, FinalSuspend(Root), UNCHANGED <<body, position, rootOf>>
  PROVE  /\ Generators' = Generators /\ Open' = {} /\ Leaf' = Root
         /\ active' = Consumer /\ parentOrLeaf' = parentOrLeaf
         /\ Stack'
<1>1. /\ Root \in Generators /\ Root \in Open /\ position[Root] # 0 /\ rootOf[Root] = Root
      /\ Open = {Root} /\ Leaf = Root
  BY Running, RootAlone, Basics
<1>2. done' = done \cup {Root} /\ active' = Consumer /\ parentOrLeaf' = parentOrLeaf
  BY <1>1 DEF FinalSuspend
<1>3. Generators' = Generators /\ Open' = {} /\ Leaf' = Root
  BY <1>1, <1>2 DEF Generators, Open, Leaf
<1>4. Stack'
  BY <1>1, <1>2, <1>3 DEF GeneratorInv, Stack, Open
<1> QED BY <1>2, <1>3, <1>4

-----------------------------------------------------------------------------
(* The steps of the generators *)

LEMMA YieldValueKeeps == ASSUME GeneratorInv, NEW g \in Generators, YieldValue(g) PROVE GeneratorInv'
<1> USE DEF YieldValue
<1>1. /\ active = g /\ ~ AtEnd(g) /\ ItemOf(g).op = "yield"
  BY DEF AtItem
<1>2. /\ g = Leaf /\ g \in Open /\ Root \notin done /\ consumer = "iterating" /\ position[Root] # 0
      /\ position[g] \in 1..(Len(body[g]) + 1) /\ Len(body[g]) \in Nat /\ rootOf[g] = Root
      /\ Root \in Generators /\ \A h \in Generators : h \in Nat /\ h # Consumer
      /\ value[Root] = <<>> /\ body \in Bodies
  BY <1>1, Running, Basics
<1>3. /\ Generators' = Generators /\ Open' = Open /\ Leaf' = g
      /\ position'[g] = position[g] + 1 /\ position[g] \in 1..Len(body[g])
      /\ \A h \in Generators : position'[h] = 0 <=> position[h] = 0
      /\ Stack'
      /\ \A h \in Generators : Nests(g, h)' => position'[h] = 0
      /\ AtLeaf' = From(g, position[g] + 1)
      /\ \A returned, thrown : Continuations(returned, thrown) => Continuations(returned, thrown)'
  BY <1>1, Advances
<1> PICK v : v = ItemOf(g).value
  OBVIOUS
<1>4. v \in Yielded
  BY <1>1, <1>2, <1>3, ItemFacts DEF ItemOf, Generators
<1>20. PICK w : w = <<v>>
  OBVIOUS
<1>13. w \in Seq(Yielded)
  BY <1>4, <1>20
<1>5. value' = [value EXCEPT ![Root] = w]
  <2>1. Append(<<>>, v) = <<v>>
    OBVIOUS
  <2> QED BY <1>2, <1>20, <2>1
<1>12. /\ active' = Consumer /\ position' = [position EXCEPT ![g] = @ + 1]
       /\ UNCHANGED <<body, rootOf, parentOrLeaf, exception, live, done, consumer, taken>>
  OBVIOUS
<1> HIDE DEF YieldValue
<1>6. GeneratorTypes'
  <2>1. position' \in [Generators -> Nat] /\ \A h \in Generators : position'[h] <= Len(body[h]) + 1
    BY <1>2, <1>3, <1>12 DEF GeneratorInv, GeneratorTypes
  <2> QED BY <1>2, <1>3, <1>5, <1>12, <1>13, <2>1 DEF GeneratorInv, GeneratorTypes
<1>7. Control'
  BY <1>2, <1>3, <1>12 DEF GeneratorInv, Control
<1>8. Frame'
  <2>1. \A h \in Generators : position[h] # 0 => ~ Nests(g, h)
    BY <1>1 DEF Nests, AtNest
  <2> QED BY <1>2, <1>3, <1>12, <2>1 DEF GeneratorInv, Frame, Over
<1>9. OneValue'
  BY <1>2, <1>3, <1>4, <1>5, <1>12, <1>20 DEF GeneratorInv, OneValue, GeneratorTypes
<1>10. Rest'
  <2>1. PICK returned, thrown :
         /\ Continuations(returned, thrown)
         /\ LET rest == Continued(AtLeaf, returned[Leaf], thrown[Leaf])
            IN Meaning(body) = Outcome((taken \o value[Root]) \o rest.values, rest.throws)
    BY <1>2 DEF GeneratorInv, Rest
  <2>20. PICK r, t, b, rest :
         /\ r = returned[g] /\ t = thrown[g]
         /\ b = From(g, position[g] + 1) /\ rest = Continued(b, r, t)
    OBVIOUS
  <2>2. b \in Outcomes /\ AtLeaf = Outcome(w \o b.values, b.throws)
    <3>1. AtLeaf = From(g, position[g])
      BY <1>1, <1>2 DEF AtLeaf, Nests, AtNest
    <3> PICK i : i = position[g]
      OBVIOUS
    <3>2. i \in 1..(Len(body[g]) + 1) /\ i <= Len(body[g]) /\ body[g][i].op = "yield" /\ v = body[g][i].value
      BY <1>1, <1>2, <1>3 DEF ItemOf
    <3>3. /\ From(g, i + 1) \in Outcomes
          /\ From(g, i) = Outcome(<<body[g][i].value>> \o From(g, i + 1).values, From(g, i + 1).throws)
      BY <1>2, <3>2, FromPlace
    <3> QED BY <1>20, <2>20, <3>1, <3>2, <3>3
  <2>3. r \in Outcomes /\ t \in Outcomes
    BY <2>1, <2>20 DEF Continuations
  <2>4. taken \in Seq(Yielded) /\ rest = Continued(b, r, t)
    BY <2>20 DEF GeneratorInv, GeneratorTypes
  <2>6. /\ Continued(AtLeaf, r, t) = Outcome(w \o rest.values, rest.throws)
        /\ taken \o (w \o rest.values) = (taken \o w) \o rest.values
    <3>1. b \in Outcomes
      BY <2>2
    <3>2. Continued(Outcome(w \o b.values, b.throws), r, t) = Outcome(w \o rest.values, rest.throws)
      BY <1>13, <2>3, <2>4, <3>1, ValuesFirst
    <3>3. taken \o (w \o rest.values) = (taken \o w) \o rest.values
      <4>1. rest.values \in Seq(Yielded)
        BY <2>3, <2>4, <3>1, ContinuedTyped DEF Outcomes
      <4> QED BY <1>13, <2>4, <4>1, Regrouped
    <3> QED BY <2>2, <3>2, <3>3
  <2>7. Meaning(body) = Outcome((taken \o w) \o rest.values, rest.throws)
    <3>1. Continued(AtLeaf, returned[Leaf], thrown[Leaf]) = Outcome(w \o rest.values, rest.throws)
      BY <1>2, <2>6, <2>20
    <3>2. taken \o value[Root] = taken
      BY <1>2, <2>4, ConcatEmptySeq
    <3>3. Meaning(body) = Outcome(taken \o (w \o rest.values), rest.throws)
      BY <2>1, <3>1, <3>2 DEF Outcome
    <3> QED BY <2>6, <3>3
  <2>9. taken' = taken /\ value'[Root] = w /\ Meaning(body)' = Meaning(body) /\ consumer' = consumer /\ done' = done
    BY <1>2, <1>5, <1>12 DEF GeneratorInv, GeneratorTypes
  <2>10. \E rr, tt : Continuations(rr, tt)' /\ LET o == Continued(AtLeaf', rr[Leaf'], tt[Leaf'])
            IN Meaning(body)' = Outcome((taken' \o value'[Root]) \o o.values, o.throws)
    <3>1. Continued(AtLeaf', returned[Leaf'], thrown[Leaf']) = rest
      BY <1>3, <2>20
    <3>2. Continuations(returned, thrown)'
      BY <1>3, <2>1
    <3>3. Meaning(body)' = Outcome((taken' \o value'[Root]) \o rest.values, rest.throws)
      BY <2>7, <2>9
    <3> QED BY <3>1, <3>2, <3>3
  <2>11. (\E o \in Outcomes : Meaning(body) = Outcome(taken \o o.values, o.throws))'
    BY <2>9 DEF GeneratorInv, Rest
  <2> QED BY <1>2, <2>9, <2>10, <2>11 DEF Rest
<1> QED BY <1>3, <1>6, <1>7, <1>8, <1>9, <1>10 DEF GeneratorInv

LEMMA YieldSequenceKeeps == ASSUME GeneratorInv, NEW g \in Generators, YieldSequence(g) PROVE GeneratorInv'
<1> USE DEF YieldSequence
<1> PICK n : n = ItemOf(g).of
  OBVIOUS
<1>1. active = g /\ ~ AtEnd(g) /\ ItemOf(g).op = "nest" /\ position[n] = 0
  BY DEF AtItem
<1>2. /\ g = Leaf /\ g \in Open /\ Root \notin done /\ consumer = "iterating" /\ position[Root] # 0
      /\ position[g] \in 1..(Len(body[g]) + 1) /\ Len(body[g]) \in Nat /\ rootOf[g] = Root
      /\ Root \in Generators /\ \A h \in Generators : h \in Nat /\ h # Consumer
      /\ value[Root] = <<>> /\ body \in Bodies
  BY <1>1, Running, Basics
<1>3. position[g] \in 1..Len(body[g])
  BY <1>1, <1>2 DEF AtEnd
<1>4. n \in Generators \ {Root} /\ n > g /\ n # g
  BY <1>1, <1>3, NestsLater DEF ItemOf
<1>5. n \notin Open /\ n \notin done /\ Nests(g, n)
  BY <1>1, <1>3, <1>4 DEF GeneratorInv, Stack, Open, Nests, AtNest
<1>6. /\ live' = live \cup {n}
      /\ rootOf' = [rootOf EXCEPT ![n] = Root]
      /\ parentOrLeaf' = [parentOrLeaf EXCEPT ![n] = g, ![Root] = n]
      /\ exception' = [exception EXCEPT ![n] = "empty"]
      /\ position' = [position EXCEPT ![n] = 1]
      /\ active' = n
      /\ UNCHANGED <<body, value, done, consumer, taken>>
  BY <1>2
<1> HIDE DEF YieldSequence
<1>7. /\ Generators' = Generators
      /\ \A h \in Generators : position'[h] = IF h = n THEN 1 ELSE position[h]
      /\ \A h \in Generators : parentOrLeaf'[h] = IF h = n THEN g ELSE IF h = Root THEN n ELSE parentOrLeaf[h]
      /\ \A h \in Generators : rootOf'[h] = IF h = n THEN Root ELSE rootOf[h]
      /\ \A h \in Generators : exception'[h] = IF h = n THEN "empty" ELSE exception[h]
  BY <1>2, <1>4, <1>6 DEF Generators, GeneratorInv, GeneratorTypes
<1>8. Open' = Open \cup {n} /\ Leaf' = n
  <2>1. \A h \in Generators : h \in Open' <=> h \in Open \/ h = n
    BY <1>4, <1>5, <1>6, <1>7 DEF Open
  <2>2. Open' \subseteq Generators /\ Open \subseteq Generators
    BY <1>7 DEF Open
  <2>3. Leaf' = n
    BY <1>2, <1>4, <1>7 DEF Leaf
  <2> QED BY <1>4, <2>1, <2>2, <2>3
<1>9. \A h \in Generators \ {n} : \A k : (Nests(h, k)' <=> Nests(h, k)) /\ (AtNest(h)' <=> AtNest(h)) /\ ItemOf(h)' = ItemOf(h)
  BY <1>6, <1>7 DEF Nests, AtNest, ItemOf
<1>10. \A h : Nests(n, h)' => h \in Generators /\ position'[h] = 0 /\ h # n
  <2> TAKE h
  <2> HAVE Nests(n, h)'
  <2>1. position'[n] = 1 /\ 1 \in 1..Len(body[n]) /\ body[n][1].op = "nest" /\ h = body[n][1].of
    BY <1>4, <1>6, <1>7 DEF Nests, AtNest, ItemOf
  <2>2. h \in Generators /\ h # n
    BY <1>4, <2>1, NestsLater
  <2>3. position[h] = 0
    BY <1>1, <1>4, <2>1 DEF GeneratorInv, Stack
  <2> QED BY <1>7, <2>2, <2>3
<1>11. GeneratorTypes'
  <2>1. \A h \in Generators : position'[h] \in Nat /\ position'[h] <= Len(body[h]) + 1
    <3>1. Len(body[n]) \in Nat
      BY <1>4, Basics
    <3>2. \A h \in Generators : position[h] \in Nat /\ position[h] <= Len(body[h]) + 1
      BY DEF GeneratorInv, GeneratorTypes
    <3> QED BY <1>7, <3>1, <3>2
  <2>2. position' \in [Generators -> Nat] /\ rootOf' \in [Generators -> Generators]
        /\ parentOrLeaf' \in [Generators -> Generators]
        /\ exception' \in [Generators -> {"unconstructed", "empty", "error"}]
    BY <1>2, <1>4, <1>6 DEF GeneratorInv, GeneratorTypes
  <2>3. /\ value' \in [Generators -> Seq(Yielded)] /\ live' \subseteq Generators /\ done' \subseteq Generators
        /\ consumer' \in {"fresh", "iterating", "threw", "left", "ended", "failed"}
        /\ taken' \in Seq(Yielded)
    BY <1>4, <1>6 DEF GeneratorInv, GeneratorTypes
  <2> QED BY <1>2, <1>4, <1>6, <1>7, <2>1, <2>2, <2>3 DEF GeneratorTypes
<1>12. Control'
  BY <1>2, <1>4, <1>6, <1>7, <1>8 DEF GeneratorInv, Control
<1>13. Stack'
  <2>1. (\A h \in Generators : position[h] = 0 => h \notin done)'
    BY <1>6, <1>7 DEF GeneratorInv, Stack
  <2>2. (\A h \in Open \ {Root} : parentOrLeaf[h] \in Open /\ parentOrLeaf[h] < h /\ Nests(parentOrLeaf[h], h))'
    <3>1. ASSUME NEW h \in Open', h # Root
          PROVE  parentOrLeaf'[h] \in Open' /\ parentOrLeaf'[h] < h /\ Nests(parentOrLeaf[h], h)'
      <4>1. CASE h = n
        <5>1. parentOrLeaf'[h] = g /\ g < n /\ g \in Generators \ {n}
          BY <1>2, <1>4, <1>7, <4>1
        <5>2. Nests(g, n)'
          BY <1>5, <1>9, <5>1
        <5> QED BY <1>2, <1>8, <4>1, <5>1, <5>2
      <4>2. CASE h # n
        <5>1. h \in Open \ {Root} /\ h \in Generators
          BY <1>8, <3>1, <4>2 DEF Open
        <5>2. parentOrLeaf[h] \in Open /\ parentOrLeaf[h] < h /\ Nests(parentOrLeaf[h], h)
          BY <5>1 DEF GeneratorInv, Stack
        <5>3. parentOrLeaf'[h] = parentOrLeaf[h] /\ parentOrLeaf[h] \in Generators \ {n}
          BY <1>5, <1>7, <3>1, <4>2, <5>1, <5>2 DEF Open
        <5> QED BY <1>8, <1>9, <5>2, <5>3
      <4> QED BY <4>1, <4>2
    <3> QED BY <3>1
  <2>3. (\A h \in Open : ~ Nests(Leaf, h))'
    BY <1>8, <1>10 DEF Open
  <2>4. (\A h \in Open \ {Leaf} : AtNest(h) /\ ItemOf(h).of \in Open)'
    <3>1. ASSUME NEW h \in Open', h # n PROVE AtNest(h)' /\ ItemOf(h)'.of \in Open'
      <4>1. h \in Open /\ h \in Generators \ {n}
        BY <1>8, <3>1 DEF Open
      <4>2. AtNest(h) /\ ItemOf(h).of \in Open \cup {n}
        <5>1. CASE h = g
          BY <1>5, <5>1 DEF Nests
        <5>2. CASE h # g
          BY <1>2, <4>1, <5>2 DEF GeneratorInv, Stack
        <5> QED BY <5>1, <5>2
      <4> QED BY <1>8, <1>9, <4>1, <4>2
    <3> QED BY <1>8, <3>1
  <2>5. (\A h \in Generators : \A i \in 1..Len(body[h]) :
          i > position[h] /\ body[h][i].op = "nest" => position[body[h][i].of] = 0)'
    <3>1. ASSUME NEW h \in Generators, NEW i \in 1..Len(body[h]), i > position'[h], body[h][i].op = "nest"
          PROVE  position'[body[h][i].of] = 0
      <4>1. i > position[h]
        <5>1. position[h] \in Nat /\ i \in Int
          BY DEF GeneratorInv, GeneratorTypes
        <5> QED BY <1>1, <1>7, <3>1, <5>1
      <4>2. position[body[h][i].of] = 0 /\ body[h][i].of \in Generators
        BY <3>1, <4>1, NestsLater DEF GeneratorInv, Stack
      <4>3. body[h][i].of # n
        <5> SUFFICES ASSUME body[h][i].of = n PROVE FALSE
          OBVIOUS
        <5>1. body[g][position[g]].op = "nest" /\ body[g][position[g]].of = n
          BY <1>1 DEF ItemOf
        <5>2. h = g /\ i = position[g]
          BY <1>2, <1>3, <3>1, <5>1, NestedOnce DEF Generators
        <5>3. position[h] \in Int
          BY DEF GeneratorInv, GeneratorTypes
        <5> QED BY <4>1, <5>2, <5>3
      <4> QED BY <1>7, <4>2, <4>3
    <3> QED BY <1>6, <1>7, <3>1
  <2>6. (\A h \in Generators : position[h] # 0 => rootOf[h] = Root)' /\ rootOf'[Root] = Root
    BY <1>2, <1>7 DEF GeneratorInv, Stack
  <2>7. position'[Root] # 0 /\ Root \notin done'
    BY <1>2, <1>6, <1>7
  <2> QED BY <1>8, <2>1, <2>2, <2>3, <2>4, <2>5, <2>6, <2>7 DEF Stack
<1>14. Frame'
  <2>1. \A h \in Generators : position[h] # 0 => ~ Nests(g, h)
    BY <1>1 DEF Nests
  <2>2. \A h \in Generators \ {Root} : h \in live <=> h \in Open
    BY <1>2, <2>1 DEF GeneratorInv, Frame, Over
  <2>3. \A h \in Generators \ {Root} : h \in live' <=> h \in Open'
    BY <1>6, <1>8, <2>2
  <2>4. \A h \in Generators : Nests(n, h)' => position'[h] = 0
    BY <1>10
  <2>5. ~ Over' /\ ~ Over /\ Root \in live'
    BY <1>2, <1>6 DEF GeneratorInv, Frame, Over
  <2> QED BY <1>2, <1>4, <1>6, <1>7, <1>8, <2>3, <2>4, <2>5 DEF GeneratorInv, Frame
<1>15. OneValue'
  BY <1>2, <1>4, <1>6, <1>7 DEF GeneratorInv, OneValue
<1>16. Rest'
  <2>1. PICK returned, thrown :
         /\ Continuations(returned, thrown)
         /\ LET rest == Continued(AtLeaf, returned[Leaf], thrown[Leaf])
            IN Meaning(body) = Outcome((taken \o value[Root]) \o rest.values, rest.throws)
    BY <1>2 DEF GeneratorInv, Rest
  <2> PICK r, t, a, b, c, after, raised :
         /\ r = returned[g] /\ t = thrown[g] /\ a = From(n, 1)
         /\ b = From(g, position[g] + 1) /\ c = ItemOf(g).catches
         /\ after = Continued(b, r, t) /\ raised = IF c THEN after ELSE t
    OBVIOUS
  <2>2. a \in Outcomes /\ b \in Outcomes /\ AtLeaf = Followed(a, c, b) /\ c \in BOOLEAN
    <3>1. AtLeaf = From(g, position[g])
      BY <1>1, <1>2 DEF AtLeaf
    <3>2. a \in Outcomes /\ b \in Outcomes /\ From(g, position[g]) = Followed(a, c, b)
      <4> PICK i : i = position[g]
        OBVIOUS
      <4>1. /\ i \in 1..(Len(body[g]) + 1) /\ i <= Len(body[g])
            /\ body[g][i].op = "nest" /\ n = body[g][i].of /\ c = body[g][i].catches
        BY <1>1, <1>2, <1>3 DEF ItemOf
      <4>2. /\ From(g, i + 1) \in Outcomes /\ From(body[g][i].of, 1) \in Outcomes
            /\ From(g, i) = Followed(From(body[g][i].of, 1), body[g][i].catches, From(g, i + 1))
        BY <1>2, <4>1, FromPlace
      <4> QED BY <4>1, <4>2
    <3>3. c \in BOOLEAN
      BY <1>1, <1>2, <1>3, ItemFacts DEF ItemOf, Generators
    <3> QED BY <3>1, <3>2, <3>3
  <2>3. r \in Outcomes /\ t \in Outcomes
    BY <2>1 DEF Continuations
  <2>4. after \in Outcomes /\ raised \in Outcomes
    BY <2>2, <2>3, ContinuedTyped
  <2>5. Continued(AtLeaf, r, t) = Continued(a, after, raised)
    <3> QED BY <2>2, <2>3, ContinuedInTurn
  <2> PICK rr, tt : rr = [returned EXCEPT ![n] = after] /\ tt = [thrown EXCEPT ![n] = raised]
    OBVIOUS
  <2>6. Continuations(rr, tt)'
    <3>1. rr \in [Generators -> Outcomes] /\ tt \in [Generators -> Outcomes]
      BY <2>1, <2>4 DEF Continuations
    <3>2. rr[Root] = Silent /\ tt[Root] = Raised
      BY <1>2, <1>4, <2>1 DEF Continuations
    <3>3. ASSUME NEW h \in Open', h # Root
          PROVE  \A p : p = parentOrLeaf'[h] =>
                    /\ rr[h] = Continued(From(p, position'[p] + 1), rr[p], tt[p])
                    /\ tt[h] = IF ItemOf(p)'.catches THEN rr[h] ELSE tt[p]
      <4>1. CASE h = n
        <5>1. parentOrLeaf'[h] = g /\ position'[g] = position[g] /\ ItemOf(g)' = ItemOf(g) /\ rr[g] = r /\ tt[g] = t
          BY <1>2, <1>4, <1>7, <1>9, <2>1, <4>1 DEF Continuations
        <5>2. rr[n] = after /\ tt[n] = raised
          BY <1>4, <2>1 DEF Continuations
        <5> QED BY <4>1, <5>1, <5>2
      <4>2. CASE h # n
        <5> PICK p : p = parentOrLeaf[h]
          OBVIOUS
        <5>1. h \in Open \ {Root} /\ h \in Generators
          BY <1>8, <3>3, <4>2 DEF Open
        <5>2. p \in Open
          BY <5>1 DEF GeneratorInv, Stack
        <5>3. parentOrLeaf'[h] = p /\ p \in Generators \ {n} /\ position'[p] = position[p] /\ ItemOf(p)' = ItemOf(p)
          BY <1>5, <1>7, <1>9, <3>3, <4>2, <5>1, <5>2 DEF Open
        <5>4. rr[h] = returned[h] /\ tt[h] = thrown[h] /\ rr[p] = returned[p] /\ tt[p] = thrown[p]
          BY <2>1, <4>2, <5>1, <5>3 DEF Continuations
        <5>5. returned[h] = Continued(From(p, position[p] + 1), returned[p], thrown[p])
              /\ thrown[h] = IF ItemOf(p).catches THEN returned[h] ELSE thrown[p]
          BY <2>1, <5>1 DEF Continuations
        <5> QED BY <5>3, <5>4, <5>5
      <4> QED BY <4>1, <4>2
    <3>4. \A p, i : (Solution(body)[<<p, i>>])' = Solution(body)[<<p, i>>]
      BY <1>6
    <3> QED BY <1>7, <3>1, <3>2, <3>3, <3>4 DEF Continuations, From
  <2>7. AtLeaf' = a
    <3>1. position'[n] = 1
      BY <1>4, <1>7
    <3> QED BY <1>6, <1>8, <1>10, <3>1 DEF AtLeaf, From
  <2>8. taken' = taken /\ value' = value /\ Meaning(body)' = Meaning(body) /\ consumer' = consumer /\ done' = done
    BY <1>6
  <2>9. rr[n] = after /\ tt[n] = raised
    BY <1>4, <2>1 DEF Continuations
  <2>10. \E x, y : Continuations(x, y)' /\ LET o == Continued(AtLeaf', x[Leaf'], y[Leaf'])
            IN Meaning(body)' = Outcome((taken' \o value'[Root]) \o o.values, o.throws)
    <3>1. Continued(AtLeaf', rr[Leaf'], tt[Leaf']) = Continued(AtLeaf, returned[Leaf], thrown[Leaf])
      BY <1>2, <1>8, <2>5, <2>7, <2>9
    <3>2. Meaning(body)' = LET o == Continued(AtLeaf', rr[Leaf'], tt[Leaf'])
                           IN Outcome((taken' \o value'[Root]) \o o.values, o.throws)
      BY <2>1, <2>8, <3>1
    <3> QED BY <2>6, <3>2
  <2>11. (\E o \in Outcomes : Meaning(body) = Outcome(taken \o o.values, o.throws))'
    BY <2>8 DEF GeneratorInv, Rest
  <2> QED BY <1>2, <2>8, <2>10, <2>11 DEF Rest
<1> QED BY <1>11, <1>12, <1>13, <1>14, <1>15, <1>16 DEF GeneratorInv

\* What the running generator g nests, which is destroyed when it ends.
Gone(g, h) == Nests(g, h) /\ position[h] # 0

\* What the end of a generator does to frames and exceptions.
Destroys(g) ==
  /\ \A h \in Generators : h \in live' <=> h \in live /\ ~ Gone(g, h)
  /\ live' \subseteq Generators
  /\ exception' \in [Generators -> {"unconstructed", "empty", "error"}]
  /\ \A h \in Generators : Gone(g, h) => exception'[h] = "unconstructed"
  /\ \A h \in Generators \ {g} : ~ Gone(g, h) => exception'[h] = exception[h]
  /\ IF g = Root THEN exception'[g] = exception[g] ELSE exception'[g] \in {"empty", "error"}

\* When a nested generator ends, its parent finds out how.
LEMMA NestedEnds ==
  ASSUME GeneratorInv, NEW g \in Generators \ {Root}, active = g, FinalSuspend(g), Destroys(g),
         UNCHANGED <<body, position, rootOf, value, consumer, taken>>,
         \/ AtLeaf = Silent /\ exception'[g] # "error"
         \/ AtLeaf = Raised /\ exception'[g] = "error"
  PROVE  GeneratorInv'
<1>1. /\ g = Leaf /\ g \in Open /\ Root \notin done /\ consumer = "iterating" /\ position[Root] # 0
      /\ Root \in Generators /\ \A h \in Generators : h \in Nat /\ h # Consumer
      /\ value[Root] = <<>> /\ body \in Bodies /\ rootOf[g] = Root
  BY Running, Basics
<1>20. PICK p : p = parentOrLeaf[g]
  OBVIOUS
<1>2. /\ Generators' = Generators /\ Open' = Open \ {g} /\ Leaf' = p
      /\ p \in Open /\ p # g /\ p \in Generators /\ Nests(p, g) /\ Nests(p, g)' /\ ItemOf(p)' = ItemOf(p)
      /\ active' = p
      /\ parentOrLeaf' \in [Generators -> Generators]
      /\ Stack'
      /\ \A returned, thrown : Continuations(returned, thrown) => Continuations(returned, thrown)'
  BY <1>20, NestedLeaves
<1>3. done' = done \cup {g}
  BY DEF FinalSuspend
<1>4. GeneratorTypes'
  BY <1>1, <1>2, <1>3 DEF GeneratorInv, GeneratorTypes, Destroys
<1>5. Control'
  BY <1>1, <1>2, <1>3 DEF GeneratorInv, Control
<1>6. Frame'
  <2>1. \A h : Nests(p, h)' <=> h = g
    BY <1>2 DEF Nests
  <2>2. \A h \in Generators \ {Root} : h \in live' <=> h \in Open
    BY <1>1 DEF GeneratorInv, Frame, Over, Stack, Destroys, Gone
  <2>3. \A h \in Generators \ {Root} : h \in live' <=> h \in Open' \/ (Root \notin done' /\ position'[h] # 0 /\ Nests(p, h)')
    BY <1>1, <1>2, <1>3, <2>1, <2>2 DEF Open
  <2>4. Root \in live' /\ ~ Over' /\ ~ Over
    <3>1. ~ Nests(g, Root)
      <4>1. Nests(g, Root) => Root # Root
        BY NestsLater DEF Nests, AtNest, ItemOf
      <4> QED BY <4>1
    <3> QED BY <1>1, <3>1 DEF GeneratorInv, Frame, Over, Destroys, Gone
  <2>5. \A h \in Generators : exception'[h] # "unconstructed" <=> h \in live' \ {Root}
    <3> TAKE h \in Generators
    <3>1. CASE h = g
      BY <1>1, <2>2, <3>1 DEF Destroys
    <3>2. CASE h # g /\ Gone(g, h)
      BY <3>2 DEF Destroys
    <3>3. CASE h # g /\ ~ Gone(g, h)
      BY <3>3 DEF Destroys, GeneratorInv, Frame
    <3> QED BY <3>1, <3>2, <3>3
  <2>6. \A h \in Generators : exception'[h] = "error" => h \in done'
    <3> TAKE h \in Generators
    <3>1. CASE h = g
      BY <1>3, <3>1
    <3>2. CASE h # g /\ Gone(g, h)
      BY <3>2 DEF Destroys
    <3>3. CASE h # g /\ ~ Gone(g, h)
      BY <1>3, <3>3 DEF Destroys, GeneratorInv, Frame
    <3> QED BY <3>1, <3>2, <3>3
  <2> QED BY <1>2, <2>3, <2>4, <2>5, <2>6 DEF Frame
<1>7. OneValue'
  BY <1>1, <1>2 DEF GeneratorInv, OneValue
<1>8. Rest'
  <2>1. PICK returned, thrown :
         /\ Continuations(returned, thrown)
         /\ LET rest == Continued(AtLeaf, returned[Leaf], thrown[Leaf])
            IN Meaning(body) = Outcome((taken \o value[Root]) \o rest.values, rest.throws)
    BY <1>1 DEF GeneratorInv, Rest
  <2>2. /\ returned[g] \in Outcomes /\ thrown[g] \in Outcomes /\ returned[p] \in Outcomes /\ thrown[p] \in Outcomes
        /\ returned[g] = Continued(From(p, position[p] + 1), returned[p], thrown[p])
        /\ thrown[g] = IF ItemOf(p).catches THEN returned[g] ELSE thrown[p]
    BY <1>1, <1>2, <1>20, <2>1 DEF Continuations
  <2>3. AtLeaf' = IF exception'[g] = "error" /\ ~ ItemOf(p).catches THEN Raised ELSE From(p, position[p] + 1)
    <3>1. ItemOf(p)'.of = g
      BY <1>2 DEF Nests
    <3>2. position'[g] # 0
      BY <1>1 DEF Open
    <3> QED BY <1>2, <3>1, <3>2 DEF AtLeaf, From
  <2>4. Continued(AtLeaf', returned[p], thrown[p]) = Continued(AtLeaf, returned[g], thrown[g])
    <3>1. CASE AtLeaf = Silent /\ exception'[g] # "error"
      <4>1. Continued(AtLeaf, returned[g], thrown[g]) = returned[g]
        BY <2>2, <3>1, NothingFirst
      <4> QED BY <2>2, <2>3, <3>1, <4>1
    <3>2. CASE AtLeaf = Raised /\ exception'[g] = "error"
      <4>1. Continued(AtLeaf, returned[g], thrown[g]) = thrown[g]
        BY <2>2, <3>2, NothingFirst
      <4>2. Continued(Raised, returned[p], thrown[p]) = thrown[p]
        BY <2>2, NothingFirst
      <4> QED BY <2>2, <2>3, <3>2, <4>1, <4>2
    <3> QED BY <3>1, <3>2
  <2>5. Continuations(returned, thrown)'
    BY <1>2, <2>1
  <2>6. LET rest == Continued(AtLeaf', returned[Leaf'], thrown[Leaf'])
        IN Meaning(body)' = Outcome((taken' \o value'[Root]) \o rest.values, rest.throws)
    BY <1>1, <1>2, <2>1, <2>4
  <2>7. (\E o \in Outcomes : Meaning(body) = Outcome(taken \o o.values, o.throws))'
    BY DEF GeneratorInv, Rest
  <2>8. Root \notin done'
    BY <1>1, <1>3
  <2> QED BY <1>1, <2>5, <2>6, <2>7, <2>8 DEF Rest
<1> QED BY <1>2, <1>4, <1>5, <1>6, <1>7, <1>8 DEF GeneratorInv

\* When the root ends, the consumer does.
LEMMA RootEnds ==
  ASSUME GeneratorInv, active = Root, FinalSuspend(Root), Destroys(Root),
         UNCHANGED <<body, position, rootOf, value, taken>>,
         \/ AtLeaf = Silent /\ consumer' = consumer
         \/ AtLeaf = Raised /\ consumer' = "threw"
  PROVE  GeneratorInv'
<1>1. /\ Root = Leaf /\ Root \in Open /\ Root \notin done /\ consumer = "iterating" /\ position[Root] # 0
      /\ Root \in Generators /\ \A h \in Generators : h \in Nat /\ h # Consumer
      /\ value[Root] = <<>> /\ body \in Bodies /\ Open = {Root} /\ rootOf[Root] = Root
  BY Running, Basics, RootAlone
<1>2. /\ Generators' = Generators /\ Open' = {} /\ Leaf' = Root
      /\ active' = Consumer /\ parentOrLeaf' = parentOrLeaf
      /\ Stack'
  BY RootLeaves
<1>3. done' = done \cup {Root}
  BY DEF FinalSuspend
<1>4. GeneratorTypes'
  BY <1>1, <1>2, <1>3 DEF GeneratorInv, GeneratorTypes, Destroys
<1>5. Control'
  BY <1>1, <1>2, <1>3 DEF GeneratorInv, Control
<1>6. Frame'
  <2>1. \A h \in Generators \ {Root} : h \notin live'
    BY <1>1 DEF GeneratorInv, Frame, Over, Stack, Destroys, Gone
  <2>2. Root \in live' /\ ~ Over' /\ ~ Over
    <3>1. ~ Nests(Root, Root)
      <4>1. Nests(Root, Root) => Root # Root
        BY <1>1, NestsLater DEF Nests, AtNest, ItemOf
      <4> QED BY <4>1
    <3> QED BY <1>1, <3>1 DEF GeneratorInv, Frame, Over, Destroys, Gone
  <2>3. \A h \in Generators : exception'[h] # "unconstructed" <=> h \in live' \ {Root}
    <3> TAKE h \in Generators
    <3>1. CASE h = Root
      BY <1>1, <3>1 DEF Destroys, GeneratorInv, Frame
    <3>2. CASE h # Root /\ Gone(Root, h)
      BY <2>1, <3>2 DEF Destroys
    <3>3. CASE h # Root /\ ~ Gone(Root, h)
      BY <3>3 DEF Destroys, GeneratorInv, Frame
    <3> QED BY <3>1, <3>2, <3>3
  <2>4. \A h \in Generators : exception'[h] = "error" => h \in done'
    <3> TAKE h \in Generators
    <3>1. CASE h = Root
      BY <1>3, <3>1
    <3>2. CASE h # Root /\ Gone(Root, h)
      BY <3>2 DEF Destroys
    <3>3. CASE h # Root /\ ~ Gone(Root, h)
      BY <1>3, <3>3 DEF Destroys, GeneratorInv, Frame
    <3> QED BY <3>1, <3>2, <3>3
  <2> QED BY <1>2, <1>3, <2>1, <2>2, <2>3, <2>4 DEF Frame
<1>7. OneValue'
  BY <1>1, <1>2, <1>3 DEF GeneratorInv, OneValue
<1>8. Rest'
  <2>1. PICK returned, thrown :
         /\ Continuations(returned, thrown)
         /\ LET rest == Continued(AtLeaf, returned[Leaf], thrown[Leaf])
            IN Meaning(body) = Outcome((taken \o value[Root]) \o rest.values, rest.throws)
    BY <1>1 DEF GeneratorInv, Rest
  <2>2. returned[Root] = Silent /\ thrown[Root] = Raised /\ Silent \in Outcomes /\ Raised \in Outcomes
    BY <1>1, <2>1 DEF Continuations
  <2>3. Continued(AtLeaf, returned[Leaf], thrown[Leaf]) = AtLeaf
    BY <1>1, <2>2, NothingFirst
  <2>4. Meaning(body) = Outcome((taken \o value[Root]) \o AtLeaf.values, AtLeaf.throws)
    BY <2>1, <2>3
  <2>5. (taken \o value[Root]) \o AtLeaf.values = taken
    <3>1. taken \in Seq(Yielded) /\ taken \o <<>> = taken
      BY ConcatEmptySeq DEF GeneratorInv, GeneratorTypes
    <3>2. AtLeaf.values = <<>>
      BY DEF Silent, Raised, Outcome
    <3> QED BY <1>1, <3>1, <3>2
  <2>6. Meaning(body)'.values = taken' /\ (Meaning(body)'.throws <=> consumer' \in {"threw", "failed"})
    <3>1. AtLeaf.throws <=> consumer' \in {"threw", "failed"}
      <4>1. CASE AtLeaf = Silent /\ UNCHANGED consumer
        <5>1. ~ AtLeaf.throws
          BY <4>1 DEF Silent, Outcome
        <5> QED BY <1>1, <4>1, <5>1
      <4>2. CASE AtLeaf = Raised /\ consumer' = "threw"
        <5>1. AtLeaf.throws
          BY <4>2 DEF Raised, Outcome
        <5> QED BY <4>2, <5>1
      <4> QED BY <4>1, <4>2
    <3>2. Meaning(body).values = taken /\ (Meaning(body).throws <=> AtLeaf.throws)
      BY <2>4, <2>5 DEF Outcome
    <3> QED BY <1>2, <3>1, <3>2
  <2>7. (\E o \in Outcomes : Meaning(body) = Outcome(taken \o o.values, o.throws))'
    BY DEF GeneratorInv, Rest
  <2>8. Root \in done' /\ consumer' # "fresh"
    BY <1>1, <1>3
  <2> QED BY <2>6, <2>7, <2>8 DEF Rest
<1> QED BY <1>2, <1>4, <1>5, <1>6, <1>7, <1>8 DEF GeneratorInv

LEMMA EndBodyKeeps == ASSUME GeneratorInv, NEW g \in Generators, EndBody(g) PROVE GeneratorInv'
<1>1. active = g /\ AtEnd(g) /\ FinalSuspend(g)
      /\ UNCHANGED <<body, position, rootOf, exception, value, live, consumer, taken>>
  BY DEF EndBody
<1>2. /\ g = Leaf /\ g \in Open /\ Root \notin done /\ body \in Bodies
      /\ position[g] \in 1..(Len(body[g]) + 1) /\ Len(body[g]) \in Nat
      /\ value[Root] = <<>>
  BY <1>1, Running, Basics
<1>3. position[g] = Len(body[g]) + 1 /\ ~ AtNest(g)
  BY <1>1, <1>2 DEF AtEnd, AtNest
<1>4. AtLeaf = Silent
  <2>1. From(g, position[g]) = Silent
    BY <1>2, <1>3, FromPlace
  <2> QED BY <1>2, <1>3, <2>1 DEF AtLeaf, Nests
<1>5. exception[g] # "error" /\ (g # Root => exception[g] # "unconstructed") /\ exception[g] \in {"unconstructed", "empty", "error"}
  BY <1>1, <1>2, Running DEF GeneratorInv, Frame, Open, Over, GeneratorTypes
<1>6. Destroys(g)
  BY <1>1, <1>3, <1>5 DEF Destroys, Gone, Nests, GeneratorInv, GeneratorTypes
<1>7. CASE g = Root
  BY <1>1, <1>4, <1>6, <1>7, RootEnds
<1>8. CASE g # Root
  BY <1>1, <1>4, <1>5, <1>6, <1>8, NestedEnds
<1> QED BY <1>7, <1>8

LEMMA ThrowKeeps == ASSUME GeneratorInv, NEW g \in Generators, Throw(g) PROVE GeneratorInv'
<1>2. active = g
  BY DEF Throw, AtItem
<1>3. /\ g = Leaf /\ g \in Open /\ Root \notin done /\ body \in Bodies
      /\ position[g] \in 1..(Len(body[g]) + 1) /\ Len(body[g]) \in Nat /\ rootOf[g] = Root
      /\ consumer = "iterating"
  BY <1>2, Running, Basics
<1>1. /\ FinalSuspend(g) /\ ~ AtEnd(g) /\ ItemOf(g).op = "throw"
      /\ consumer' = IF g # Root THEN consumer ELSE "threw"
      /\ exception' = IF g # Root THEN [exception EXCEPT ![g] = "error"] ELSE exception
      /\ UNCHANGED <<body, position, rootOf, value, live, taken>>
  BY <1>3 DEF Throw, AtItem, Unhandled
<1>4. position[g] \in 1..Len(body[g]) /\ ~ AtNest(g)
  BY <1>1, <1>3 DEF AtEnd, AtNest
<1>5. AtLeaf = Raised
  <2> PICK i : i = position[g]
    OBVIOUS
  <2>1. i \in 1..(Len(body[g]) + 1) /\ i <= Len(body[g]) /\ body[g][i].op = "throw"
    BY <1>1, <1>3, <1>4 DEF ItemOf
  <2>2. From(g, i) = Raised
    BY <1>3, <2>1, FromPlace
  <2> QED BY <1>3, <1>4, <2>2 DEF AtLeaf, Nests
<1>6. Destroys(g)
  BY <1>1, <1>4 DEF Destroys, Gone, Nests, GeneratorInv, GeneratorTypes
<1>7. CASE g = Root
  BY <1>1, <1>2, <1>5, <1>6, <1>7, RootEnds
<1>8. CASE g # Root
  <2>1. exception'[g] = "error" /\ consumer' = consumer
    BY <1>1, <1>8 DEF GeneratorInv, GeneratorTypes
  <2> QED BY <1>1, <1>2, <1>5, <1>6, <1>8, <2>1, NestedEnds
<1> QED BY <1>7, <1>8

LEMMA SequenceEndsKeeps == ASSUME GeneratorInv, NEW g \in Generators, SequenceEnds(g) PROVE GeneratorInv'
<1>1. active = g /\ ~ AtEnd(g) /\ ItemOf(g).op = "nest"
  BY DEF SequenceEnds, AtItem
<1>2. /\ g = Leaf /\ g \in Open /\ Root \notin done /\ body \in Bodies
      /\ position[g] \in 1..(Len(body[g]) + 1) /\ Len(body[g]) \in Nat /\ rootOf[g] = Root
      /\ consumer = "iterating" /\ Root \in Generators /\ value[Root] = <<>>
      /\ \A h \in Generators : h \in Nat /\ h # Consumer
  BY <1>1, Running, Basics
<1>20. PICK n, gone : n = ItemOf(g).of /\ gone = [exception EXCEPT ![n] = "unconstructed"]
  OBVIOUS
<1>3. position[g] \in 1..Len(body[g])
  BY <1>1, <1>2 DEF AtEnd
<1>4. n \in Generators \ {Root} /\ n # g /\ Nests(g, n) /\ \A h : Nests(g, h) <=> h = n
  BY <1>1, <1>3, <1>20, NestsLater DEF ItemOf, Nests, AtNest
<1>5. /\ position[n] # 0 /\ live' = live \ {n}
      /\ IF exception[n] = "error" /\ ~ ItemOf(g).catches
         THEN /\ Unhandled(g)
              /\ exception' = IF rootOf[g] # g THEN [gone EXCEPT ![g] = "error"] ELSE gone
              /\ UNCHANGED position
         ELSE /\ position' = [position EXCEPT ![g] = @ + 1]
              /\ exception' = gone
              /\ UNCHANGED <<parentOrLeaf, done, active, consumer>>
      /\ UNCHANGED <<body, rootOf, value, taken>>
  BY <1>20 DEF SequenceEnds
<1>6. AtLeaf = IF exception[n] = "error" /\ ~ ItemOf(g).catches THEN Raised ELSE From(g, position[g] + 1)
  BY <1>2, <1>4, <1>5, <1>20 DEF AtLeaf
<1>7. \A h : Gone(g, h) <=> h = n
  BY <1>4, <1>5 DEF Gone
<1>8. CASE exception[n] = "error" /\ ~ ItemOf(g).catches
  <2>1. /\ Unhandled(g) /\ exception' = IF rootOf[g] # g THEN [gone EXCEPT ![g] = "error"] ELSE gone
        /\ UNCHANGED <<position, body, rootOf, value, taken>> /\ live' = live \ {n}
    BY <1>5, <1>8
  <2>2. FinalSuspend(g) /\ consumer' = IF g # Root THEN consumer ELSE "threw"
    BY <1>2, <2>1 DEF Unhandled
  <2>3. \A h \in Generators : exception'[h] = IF h = g /\ g # Root THEN "error" ELSE IF h = n THEN "unconstructed" ELSE exception[h]
    BY <1>2, <1>4, <1>20, <2>1 DEF GeneratorInv, GeneratorTypes
  <2>4. Destroys(g)
    <3>1. exception' \in [Generators -> {"unconstructed", "empty", "error"}]
      BY <1>4, <1>20, <2>1 DEF GeneratorInv, GeneratorTypes
    <3>2. live' \subseteq Generators /\ \A h \in Generators : h \in live' <=> h \in live /\ ~ Gone(g, h)
      BY <1>7, <2>1 DEF GeneratorInv, GeneratorTypes
    <3> QED BY <1>4, <1>7, <2>3, <3>1, <3>2 DEF Destroys
  <2>5. AtLeaf = Raised
    BY <1>6, <1>8
  <2>6. CASE g = Root
    BY <1>1, <2>1, <2>2, <2>4, <2>5, <2>6, RootEnds
  <2>7. CASE g # Root
    <3>1. exception'[g] = "error" /\ consumer' = consumer
      BY <2>2, <2>3, <2>7
    <3> QED BY <1>1, <2>1, <2>2, <2>4, <2>5, <2>7, <3>1, NestedEnds
  <2> QED BY <2>6, <2>7
<1>9. CASE ~ (exception[n] = "error" /\ ~ ItemOf(g).catches)
  <2>1. /\ position' = [position EXCEPT ![g] = @ + 1] /\ exception' = gone /\ live' = live \ {n}
        /\ UNCHANGED <<parentOrLeaf, done, active, consumer, body, rootOf, value, taken>>
    BY <1>5, <1>9
  <2>2. /\ Generators' = Generators /\ Open' = Open /\ Leaf' = g
        /\ position'[g] = position[g] + 1 /\ position[g] \in 1..Len(body[g])
        /\ \A h \in Generators : position'[h] = 0 <=> position[h] = 0
        /\ Stack'
        /\ \A h \in Generators : Nests(g, h)' => position'[h] = 0
        /\ AtLeaf' = From(g, position[g] + 1)
        /\ \A returned, thrown : Continuations(returned, thrown) => Continuations(returned, thrown)'
    BY <1>1, <2>1, Advances
  <2>3. \A h \in Generators : exception'[h] = IF h = n THEN "unconstructed" ELSE exception[h]
    BY <1>4, <1>20, <2>1 DEF GeneratorInv, GeneratorTypes
  <2>4. GeneratorTypes'
    <3>1. exception' \in [Generators -> {"unconstructed", "empty", "error"}]
      BY <1>4, <1>20, <2>1 DEF GeneratorInv, GeneratorTypes
    <3>2. position' \in [Generators -> Nat] /\ \A h \in Generators : position'[h] <= Len(body[h]) + 1
      <4>1. position \in [Generators -> Nat] /\ \A h \in Generators : position[h] <= Len(body[h]) + 1
        BY DEF GeneratorInv, GeneratorTypes
      <4>2. position' \in [Generators -> Nat] /\ \A h \in Generators \ {g} : position'[h] = position[h]
        BY <1>2, <2>1, <4>1
      <4>3. position'[g] <= Len(body[g]) + 1
        BY <1>2, <2>2
      <4> QED BY <4>1, <4>2, <4>3
    <3> QED BY <2>1, <2>2, <3>1, <3>2 DEF GeneratorInv, GeneratorTypes
  <2>5. Control'
    BY <1>2, <2>1, <2>2 DEF GeneratorInv, Control
  <2>6. Frame'
    <3>1. \A h \in Generators \ {Root} : h \in live' <=> h \in Open
      <4>1. n \notin Open
        BY <1>2, <1>4 DEF GeneratorInv, Stack
      <4>2. \A h \in Generators \ {Root} : h \in live <=> h \in Open \/ (position[h] # 0 /\ Nests(g, h))
        BY <1>2 DEF GeneratorInv, Frame, Over
      <4> QED BY <1>4, <1>5, <2>1, <4>1, <4>2
    <3>2. Root \in live' /\ ~ Over' /\ ~ Over
      BY <1>2, <1>4, <2>1 DEF GeneratorInv, Frame, Over
    <3>3. \A h \in Generators : exception'[h] # "unconstructed" <=> h \in live' \ {Root}
      BY <1>4, <2>1, <2>3 DEF GeneratorInv, Frame
    <3>4. \A h \in Generators : exception'[h] = "error" => h \in done'
      BY <2>1, <2>3 DEF GeneratorInv, Frame
    <3> QED BY <2>1, <2>2, <3>1, <3>2, <3>3, <3>4 DEF Frame
  <2>7. OneValue'
    BY <1>2, <2>1, <2>2 DEF GeneratorInv, OneValue
  <2>8. Rest'
    <3>1. PICK returned, thrown :
           /\ Continuations(returned, thrown)
           /\ LET rest == Continued(AtLeaf, returned[Leaf], thrown[Leaf])
              IN Meaning(body) = Outcome((taken \o value[Root]) \o rest.values, rest.throws)
      BY <1>2 DEF GeneratorInv, Rest
    <3>2. AtLeaf' = AtLeaf
      BY <1>6, <1>9, <2>2
    <3>3. Continuations(returned, thrown)'
      BY <2>2, <3>1
    <3>4. LET rest == Continued(AtLeaf', returned[Leaf'], thrown[Leaf'])
          IN Meaning(body)' = Outcome((taken' \o value'[Root]) \o rest.values, rest.throws)
      BY <1>2, <2>1, <2>2, <3>1, <3>2
    <3>5. (\E o \in Outcomes : Meaning(body) = Outcome(taken \o o.values, o.throws))'
      BY <2>1 DEF GeneratorInv, Rest
    <3>6. consumer' = "iterating" /\ Root \notin done'
      BY <1>2, <2>1
    <3> QED BY <3>3, <3>4, <3>5, <3>6 DEF Rest
  <2> QED BY <2>2, <2>4, <2>5, <2>6, <2>7, <2>8 DEF GeneratorInv
<1> QED BY <1>8, <1>9

-----------------------------------------------------------------------------
(* The theorem *)

LEMMA GeneratorStutters == ASSUME GeneratorInv, UNCHANGED generatorVars PROVE GeneratorInv'
<1>1. UNCHANGED <<body, position, rootOf, parentOrLeaf, done>>
      /\ UNCHANGED <<exception, value, live, active, consumer, taken>>
  BY DEF generatorVars
<1>2. /\ Generators' = Generators /\ Open' = Open /\ Leaf' = Leaf
      /\ \A p : (AtNest(p)' <=> AtNest(p)) /\ ItemOf(p)' = ItemOf(p)
      /\ \A p, g : Nests(p, g)' <=> Nests(p, g)
      /\ \A g, i : From(g, i)' = From(g, i)
      /\ Meaning(body)' = Meaning(body)
      /\ Stack' <=> Stack
  BY <1>1, Frozen
<1>3. GeneratorTypes' /\ Control' /\ Stack' /\ Frame' /\ OneValue'
  BY <1>1, <1>2 DEF GeneratorInv, GeneratorTypes, Control, Frame, OneValue, Over
<1>4. Rest'
  <2>1. AtLeaf' = AtLeaf
    BY <1>1, <1>2 DEF AtLeaf
  <2>2. \A returned, thrown : Continuations(returned, thrown) => Continuations(returned, thrown)'
    BY <1>1, <1>2 DEF Continuations
  <2> QED BY <1>1, <1>2, <2>1, <2>2 DEF GeneratorInv, Rest
<1> QED BY <1>3, <1>4 DEF GeneratorInv

\* What the invariant says of the consumer and of what is destroyed.
LEMMA GeneratorInvYields == ASSUME GeneratorInv PROVE YieldsInOrder
<1>1. Root \in Generators
  BY Basics
<1>20. PICK meaning : meaning = Meaning(body)
  OBVIOUS
<1>2. PICK rest \in Outcomes : meaning = Outcome(taken \o rest.values, rest.throws)
  BY <1>20 DEF GeneratorInv, Rest
<1>3. Len(taken) <= Len(meaning.values) /\ taken = SubSeq(meaning.values, 1, Len(taken))
  <2>1. PICK s : s = rest.values
    OBVIOUS
  <2>2. taken \in Seq(Yielded) /\ s \in Seq(Yielded) /\ meaning.values = taken \o s
    BY <1>2, <2>1 DEF GeneratorInv, GeneratorTypes, Outcomes, Outcome
  <2>3. /\ taken \o s \in Seq(Yielded)
        /\ Len(taken \o s) = Len(taken) + Len(s) /\ Len(taken) \in Nat /\ Len(s) \in Nat
        /\ \A i \in 1 .. Len(taken) + Len(s) : (taken \o s)[i] = IF i <= Len(taken) THEN taken[i] ELSE s[i - Len(taken)]
    BY <2>2, ConcatProperties
  <2>4. PICK w : w = taken \o s
    OBVIOUS
  <2>5. /\ w \in Seq(Yielded) /\ Len(w) = Len(taken) + Len(s)
        /\ \A i \in 1..Len(taken) : w[i] = taken[i]
    BY <2>3, <2>4
  <2>6. taken = SubSeq(w, 1, Len(taken))
    BY <2>2, <2>3, <2>5
  <2> QED BY <2>2, <2>3, <2>4, <2>5, <2>6
<1>4. Root \in done => taken = meaning.values /\ (meaning.throws <=> consumer \in {"threw", "failed"})
  BY <1>20 DEF GeneratorInv, Rest
<1>5. consumer \in {"ended", "threw", "failed"} => Root \in done
  BY DEF GeneratorInv, Control
<1>6. Cardinality({g \in Generators : value[g] # <<>>}) =
        IF active = Consumer /\ consumer = "iterating" /\ ~Done(Root) THEN 1 ELSE 0
  <2>1. CASE active = Consumer /\ consumer = "iterating" /\ ~Done(Root)
    <3>1. \E v \in Yielded : value[Root] = <<v>>
      BY <2>1 DEF GeneratorInv, OneValue, Done
    <3>2. {g \in Generators : value[g] # <<>>} = {Root}
      BY <1>1, <3>1 DEF GeneratorInv, OneValue
    <3> QED BY <2>1, <3>2, FS_Singleton
  <2>2. CASE ~ (active = Consumer /\ consumer = "iterating" /\ ~Done(Root))
    <3>1. {g \in Generators : value[g] # <<>>} = {}
      BY <2>2 DEF GeneratorInv, OneValue, Done
    <3> QED BY <2>2, <3>1, FS_EmptySet
  <2> QED BY <2>1, <2>2
<1>7. Len(value[Root]) <= 1
  <2>1. CASE value[Root] = <<>>
    BY <2>1
  <2>2. CASE value[Root] # <<>>
    <3>1. PICK v : value[Root] = <<v>>
      BY <2>2 DEF GeneratorInv, OneValue
    <3> QED BY <3>1
  <2> QED BY <2>1, <2>2
<1>8. \A g \in Generators : exception[g] # "unconstructed" <=> g \in live \ {Root}
  BY DEF GeneratorInv, Frame
<1> QED BY <1>3, <1>4, <1>5, <1>6, <1>7, <1>8, <1>20 DEF YieldsInOrder

\* Whatever generators nest, throw and catch, and wherever the consumer stops: it sees what
\* they would yield if written out, and exceptions where they belong; values and exceptions are
\* destroyed as often as constructed (generator.hpp:92-97, 105-158, 197-225, 315-323).
THEOREM GeneratorsYieldInOrder == GeneratorSpec => []YieldsInOrder
<1>1. GeneratorInit => GeneratorInv
  BY GeneratorInvInit
<1>2. GeneratorInv /\ [GeneratorNext]_generatorVars => GeneratorInv'
  <2> SUFFICES ASSUME GeneratorInv, [GeneratorNext]_generatorVars PROVE GeneratorInv'
    OBVIOUS
  <2>1. CASE Begin
    BY <2>1, BeginKeeps
  <2>2. CASE Increment
    BY <2>2, IncrementKeeps
  <2>3. CASE LeaveLoop
    BY <2>3, LeaveLoopKeeps
  <2>4. ASSUME NEW g \in Generators,
               YieldValue(g) \/ YieldSequence(g) \/ Throw(g) \/ SequenceEnds(g) \/ EndBody(g)
        PROVE  GeneratorInv'
    BY <2>4, YieldValueKeeps, YieldSequenceKeeps, ThrowKeeps, SequenceEndsKeeps, EndBodyKeeps
  <2>5. CASE UNCHANGED generatorVars
    BY <2>5, GeneratorStutters
  <2> QED BY <2>1, <2>2, <2>3, <2>4, <2>5 DEF GeneratorNext
<1>3. GeneratorInv => YieldsInOrder
  BY GeneratorInvYields
<1> QED BY <1>1, <1>2, <1>3, PTL DEF GeneratorSpec

-----------------------------------------------------------------------------
(* Frames: the inductive invariant *)

Promises ==
  [state : {"absent", "initial", "started", "done", "destroyed"}, position : Nat, previous : Nat,
   control : {"garbage", "group"}, token : Sources \cup {0},
   exception : {"none", "thrown", "cancelled"}, value : BOOLEAN]

FramesTyped ==
  /\ script \in Scripts
  /\ frame \in [FrameIds -> Promises]
  /\ resumed \in FrameIds \cup {NoFrame}
  /\ handle \in [of : FrameIds \cup {NoFrame}, at : {"nowhere", "executor", "service"}]
  /\ results \in Seq(FrameIds \X CallEnds)
  /\ hit \subseteq FrameIds
  /\ thrownOut \in BOOLEAN

\* The frames that have begun and not ended, those that have, and the frame in control.
Begun == {g \in FrameIds : frame[g].state = "started" \/ (g = RootFrame /\ frame[g].state = "initial")}
Ended == {g \in FrameIds : frame[g].state \in {"done", "destroyed"}}
LastFrame == IF resumed # NoFrame THEN resumed ELSE handle.of
AtAwait(p) == frame[p].position \in 1..Len(script[p]) /\ Item(p).op = "await"
Awaits(p, g) == AtAwait(p) /\ Item(p).of = g

\* Until the root ends one frame runs or has its handle in one place.
InControl ==
  /\ RootFrame \in Ended => resumed = NoFrame /\ handle = Nowhere
  /\ RootFrame \notin Ended =>
       /\ LastFrame \in Begun /\ ~thrownOut
       /\ IF resumed # NoFrame THEN handle = Nowhere /\ frame[resumed].state = "started"
          ELSE handle.at # "nowhere"
       /\ handle.at = "service" => frame[handle.of].state = "started"
  /\ frame[RootFrame].state = "initial" => LastFrame = RootFrame /\ handle.at = "executor"
  /\ frame[RootFrame].state # "absent"

\* The frames that have begun and not ended are a stack.
CallStack ==
  /\ RootFrame \in Ended => Begun = {}
  /\ \A g \in FrameIds : frame[g].position \in 1..(Len(script[g]) + 1)
  /\ \A g \in FrameIds : frame[g].previous < g
  /\ frame[RootFrame].previous = NoFrame
  /\ \A g \in Begun \ {RootFrame} : frame[g].previous \in Begun /\ Awaits(frame[g].previous, g)
  /\ \A g \in Begun : ~Awaits(LastFrame, g)
  /\ \A g \in Begun \ {LastFrame} : AtAwait(g) /\ Item(g).of \in Begun
  /\ \A g \in FrameIds : \A i \in 1..Len(script[g]) :
       script[g][i].op = "await" /\ (i > frame[g].position \/ frame[g].state \in {"absent", "initial"}) =>
         frame[script[g][i].of].state = "absent"
  /\ \A g \in FrameIds : frame[g].state \in {"absent", "initial"} => frame[g].position = 1

\* What the promises hold.
Promised ==
  /\ \A g \in FrameIds : frame[g].state \in {"absent", "initial"} /\ g # RootFrame => g \notin hit
  /\ \A g \in FrameIds \ Ended : frame[g].exception = (IF g \in hit THEN "cancelled" ELSE "none") /\ ~frame[g].value
  /\ \A g \in Ended : frame[g].value /\ frame[g].exception # "none" => g \in hit
  /\ \A g \in Ended \ {RootFrame} : frame[g].state = "destroyed" =>
       frame[g].exception = "none" /\ (frame[g].value => g \in hit)
  /\ frame[RootFrame].exception # "none" => RootFrame \in hit
  /\ \A g \in Begun : frame[g].control = "group"

\* The token of a frame is that of its caller, or the one it was given.
Tokens ==
  /\ frame[RootFrame].token = 0
  /\ \A g \in Begun \ {RootFrame} :
       LET p == frame[g].previous
       IN frame[g].token = IF frame[p].token # 0 THEN frame[p].token ELSE Item(p).source
  /\ \A g, p \in FrameIds : frame[g].state = "initial" /\ Awaits(p, g) => frame[g].token = Item(p).source

\* What comes once an outcome has come, if what comes next depends on how it ends.
Then(o, after) == Given(o.results \o after[o.ends].results, after[o.ends].ends)

\* What comes once g, which p awaits, has ended: o and what comes after p, or only that.
Answer(p, g, ends, o, after) ==
  LET next == IF ends = "none" \/ Item(p).catches THEN Then(o, after) ELSE after[ends]
  IN Given(<<<<g, ends>>>> \o next.results, next.ends)

GivenFrom(cancelled, g, i) == CallSolution(script, cancelled)[<<g, i>>]

\* What comes after each frame of the stack, however its body ends.
CallsAfter(cancelled, after) ==
  /\ after \in [FrameIds -> [CallEnds -> CallResults(script)]]
  /\ \A e \in CallEnds : after[RootFrame][e] = Given(<<>>, e)
  /\ \A g \in Begun \ {RootFrame} : \A e \in CallEnds :
       LET p == frame[g].previous
       IN after[g][e] =
            Answer(p, g, EndOf(g, e, cancelled), GivenFrom(cancelled, p, frame[p].position + 1), after[p])

\* What the frame in control has still to give, and what comes then.
ToCome(cancelled, after) ==
  LET g == LastFrame
      child == Item(g).of
  IN IF AtAwait(g) /\ frame[child].state = "done"
     THEN Answer(g, child, frame[child].exception, GivenFrom(cancelled, g, frame[g].position + 1), after[g])
     ELSE Then(GivenFrom(cancelled, g, frame[g].position), after[g])

\* What was given and what has still to be.
Remaining(cancelled, after) ==
  Given(results \o ToCome(cancelled, after).results, ToCome(cancelled, after).ends)

\* Of the frames that have ended the same ones are cancelled.
Agrees(cancelled) == \A g \in Ended : g \in cancelled <=> g \in hit

\* Whichever frames that have not ended may yet be cancelled: what was given and what is to
\* come are what the calls give.
CallRest ==
  \A cancelled \in SUBSET FrameIds : Agrees(cancelled) =>
    /\ RootFrame \in Ended =>
         /\ Called(script, cancelled).results = results
         /\ thrownOut <=> Called(script, cancelled).ends # "none"
    /\ RootFrame \notin Ended =>
         \E after : CallsAfter(cancelled, after) /\ Called(script, cancelled) = Remaining(cancelled, after)

FramesInv == FramesTyped /\ InControl /\ CallStack /\ Promised /\ Tokens /\ CallRest

-----------------------------------------------------------------------------
(* What scripts give *)

\* What the assumption says of one item.
LEMMA ScriptFacts ==
  ASSUME NEW s \in Scripts
  PROVE  /\ Len(s) \in Nat \ {0} /\ DOMAIN s = 1..Len(s)
         /\ \A g \in DOMAIN s :
              /\ Len(s[g]) \in Nat /\ DOMAIN s[g] = 1..Len(s[g])
              /\ \A i \in 1..Len(s[g]) :
                   LET item == s[g][i]
                   IN \/ item.op = "suspend"
                      \/ item.op = "throw"
                      \/ /\ item.op = "await" /\ item.of \in DOMAIN s /\ item.of > g
                         /\ item.catches \in BOOLEAN /\ item.source \in Sources
<1>1. s # <<>> /\ s \in Seq(Seq(ScriptItems(Len(s))))
  BY ScriptsAssumption, Zenon
<1>2. Len(s) \in Nat \ {0} /\ DOMAIN s = 1..Len(s)
  BY <1>1
<1>3. ASSUME NEW g \in DOMAIN s, NEW i \in 1..Len(s[g])
      PROVE  LET item == s[g][i]
             IN \/ item.op = "suspend"
                \/ item.op = "throw"
                \/ /\ item.op = "await" /\ item.of \in DOMAIN s /\ item.of > g
                   /\ item.catches \in BOOLEAN /\ item.source \in Sources
  <2>1. s[g] \in Seq(ScriptItems(Len(s)))
    BY <1>1
  <2>2. i \in DOMAIN s[g] /\ s[g][i] \in ScriptItems(Len(s))
    BY <2>1
  <2>3. s[g][i].op = "await" => s[g][i].of > g
    BY <2>2, ScriptsAssumption, Zenon
  <2> QED BY <2>2, <2>3, <1>2 DEF ScriptItems, AwaitItem, SuspendItem, ThrowItem
<1>4. \A g \in DOMAIN s : Len(s[g]) \in Nat /\ DOMAIN s[g] = 1..Len(s[g])
  BY <1>1
<1> QED BY <1>2, <1>3, <1>4

\* A frame is awaited at one place.
LEMMA AwaitedOnce ==
  ASSUME NEW s \in Scripts,
         NEW g \in DOMAIN s, NEW i \in 1..Len(s[g]), s[g][i].op = "await",
         NEW h \in DOMAIN s, NEW j \in 1..Len(s[h]), s[h][j].op = "await",
         s[h][j].of = s[g][i].of
  PROVE  h = g /\ j = i
<1>1. i \in DOMAIN s[g] /\ j \in DOMAIN s[h]
  BY ScriptFacts
<1> QED BY <1>1, ScriptsAssumption, Zenon

\* The places on which what comes from one depends come after it.
LEMMA LaterCalls ==
  ASSUME NEW s \in Scripts, NEW p \in Places(s)
  PROVE  /\ p = <<p[1], p[2]>> /\ p[1] \in DOMAIN s /\ p[2] \in 1..(Len(s[p[1]]) + 1) /\ Len(s[p[1]]) \in Nat
         /\ p[2] <= Len(s[p[1]]) =>
              /\ p[2] \in 1..Len(s[p[1]]) /\ <<p[1], p[2] + 1>> \in Places(s)
              /\ <<<<p[1], p[2] + 1>>, p>> \in Later(s)
         /\ p[2] <= Len(s[p[1]]) /\ s[p[1]][p[2]].op = "await" =>
              /\ <<s[p[1]][p[2]].of, 1>> \in Places(s)
              /\ <<<<s[p[1]][p[2]].of, 1>>, p>> \in Later(s)
<1>1. p = <<p[1], p[2]>> /\ p[1] \in DOMAIN s /\ p[2] \in 1..(Len(s[p[1]]) + 1)
  BY DEF Places
<1>2. Len(s[p[1]]) \in Nat /\ DOMAIN s = 1..Len(s) /\ Len(s) \in Nat
  BY <1>1, ScriptFacts
<1>20. PICK g, i : g = p[1] /\ i = p[2]
  OBVIOUS
<1>3. g \in Nat /\ i \in Nat /\ p = <<g, i>> /\ g \in DOMAIN s
  BY <1>1, <1>2, <1>20
<1>4. ASSUME i <= Len(s[g])
      PROVE  i \in 1..Len(s[g]) /\ <<g, i + 1>> \in Places(s) /\ <<<<g, i + 1>>, p>> \in Later(s)
  <2>1. <<g, i + 1>> \in Places(s)
    BY <1>1, <1>2, <1>20, <1>4 DEF Places
  <2>2. ~ NotBefore(p, <<g, i + 1>>)
    BY <1>3 DEF NotBefore
  <2>3. i \in 1..Len(s[g])
    BY <1>1, <1>2, <1>20, <1>4
  <2> QED BY <2>1, <2>2, <2>3 DEF Later
<1>5. ASSUME i <= Len(s[g]), s[g][i].op = "await"
      PROVE  <<s[g][i].of, 1>> \in Places(s) /\ <<<<s[g][i].of, 1>>, p>> \in Later(s)
  <2>20. PICK n : n = s[g][i].of
    OBVIOUS
  <2>1. n \in DOMAIN s /\ n > g
    <3>1. i \in 1..Len(s[g])
      BY <1>4, <1>5
    <3> QED BY <1>3, <1>5, <2>20, <3>1, ScriptFacts
  <2>2. Len(s[n]) \in Nat /\ n \in Nat
    BY <1>2, <2>1, ScriptFacts
  <2>3. <<n, 1>> \in Places(s)
    BY <2>1, <2>2 DEF Places
  <2>4. ~ NotBefore(p, <<n, 1>>)
    BY <1>3, <2>1, <2>2 DEF NotBefore
  <2> QED BY <2>3, <2>4, <2>20 DEF Later
<1> QED BY <1>1, <1>2, <1>20, <1>4, <1>5

\* What comes from a place on is a result if what comes from later ones is,
LEMMA GivenTyped ==
  ASSUME NEW s \in Scripts, NEW cancelled, NEW p \in Places(s), NEW from,
         p[2] <= Len(s[p[1]]) => from[<<p[1], p[2] + 1>>] \in CallResults(s),
         p[2] <= Len(s[p[1]]) /\ s[p[1]][p[2]].op = "await" =>
           from[<<s[p[1]][p[2]].of, 1>>] \in CallResults(s)
  PROVE  GivenAt(s, cancelled, from, p) \in CallResults(s)
<1>20. PICK item, rest, inner, ends, here :
         /\ item = s[p[1]][p[2]] /\ rest = from[<<p[1], p[2] + 1>>] /\ inner = from[<<item.of, 1>>]
         /\ ends = EndOf(item.of, inner.ends, cancelled)
         /\ here = Append(inner.results, <<item.of, ends>>)
  OBVIOUS
<1>1. /\ p[1] \in DOMAIN s /\ p[2] \in 1..(Len(s[p[1]]) + 1) /\ Len(s[p[1]]) \in Nat
      /\ p[2] <= Len(s[p[1]]) => p[2] \in 1..Len(s[p[1]])
  BY LaterCalls
<1>2. GivenAt(s, cancelled, from, p) =
        IF p[2] > Len(s[p[1]]) THEN Given(<<>>, "none")
        ELSE IF item.op = "throw" THEN Given(<<>>, "thrown")
        ELSE IF item.op = "suspend" THEN rest
        ELSE IF ends = "none" \/ item.catches THEN Given(here \o rest.results, rest.ends)
        ELSE Given(here, ends)
  BY <1>20 DEF GivenAt
<1>3. Given(<<>>, "none") \in CallResults(s) /\ Given(<<>>, "thrown") \in CallResults(s)
  BY DEF Given, CallResults, CallEnds
<1>4. CASE p[2] > Len(s[p[1]])
  BY <1>2, <1>3, <1>4
<1>5. CASE p[2] <= Len(s[p[1]]) /\ item.op # "await"
  <2>0. p[2] \in 1..Len(s[p[1]]) /\ item = s[p[1]][p[2]]
    BY <1>1, <1>5, <1>20
  <2>1. item.op = "throw" \/ item.op = "suspend"
    BY <1>1, <1>5, <2>0, ScriptFacts
  <2>2. ~ (p[2] > Len(s[p[1]]))
    BY <1>1, <1>5
  <2> QED BY <1>2, <1>3, <1>5, <1>20, <2>1, <2>2
<1>6. CASE p[2] <= Len(s[p[1]]) /\ item.op = "await"
  <2>1. item.of \in DOMAIN s /\ inner \in CallResults(s) /\ rest \in CallResults(s)
    BY <1>1, <1>6, <1>20, ScriptFacts
  <2>2. ends \in CallEnds
    BY <1>20, <2>1 DEF EndOf, CallResults, CallEnds
  <2>3. here \in Seq((DOMAIN s) \X CallEnds)
    <3>1. inner.results \in Seq((DOMAIN s) \X CallEnds) /\ <<item.of, ends>> \in (DOMAIN s) \X CallEnds
      BY <2>1, <2>2 DEF CallResults
    <3> QED BY <1>20, <3>1, AppendProperties
  <2>4. here \o rest.results \in Seq((DOMAIN s) \X CallEnds)
    <3>1. rest.results \in Seq((DOMAIN s) \X CallEnds)
      BY <2>1 DEF CallResults
    <3> QED BY <2>3, <3>1, ConcatProperties
  <2>5. Given(here \o rest.results, rest.ends) \in CallResults(s) /\ Given(here, ends) \in CallResults(s)
    BY <2>1, <2>2, <2>3, <2>4 DEF Given, CallResults
  <2>6. ~ (p[2] > Len(s[p[1]])) /\ item.op # "throw" /\ item.op # "suspend"
    BY <1>1, <1>6
  <2> QED BY <1>2, <2>5, <2>6
<1> QED BY <1>1, <1>4, <1>5, <1>6

\* and it depends on nothing else.
LEMMA GivenSame ==
  ASSUME NEW s \in Scripts, NEW cancelled, NEW p \in Places(s), NEW from, NEW other,
         p[2] <= Len(s[p[1]]) => from[<<p[1], p[2] + 1>>] = other[<<p[1], p[2] + 1>>],
         p[2] <= Len(s[p[1]]) /\ s[p[1]][p[2]].op = "await" =>
           from[<<s[p[1]][p[2]].of, 1>>] = other[<<s[p[1]][p[2]].of, 1>>]
  PROVE  GivenAt(s, cancelled, from, p) = GivenAt(s, cancelled, other, p)
<1>1. /\ p[1] \in DOMAIN s /\ p[2] \in 1..(Len(s[p[1]]) + 1) /\ Len(s[p[1]]) \in Nat
      /\ p[2] <= Len(s[p[1]]) => p[2] \in 1..Len(s[p[1]])
  BY LaterCalls
<1>2. CASE p[2] > Len(s[p[1]])
  BY <1>2 DEF GivenAt
<1>3. CASE p[2] <= Len(s[p[1]])
  <2>1. ~ (p[2] > Len(s[p[1]])) /\ p[2] \in 1..Len(s[p[1]])
    BY <1>1, <1>3
  <2>2. s[p[1]][p[2]].op \in {"suspend", "throw", "await"}
    BY <1>1, <2>1, ScriptFacts
  <2>3. CASE s[p[1]][p[2]].op = "suspend"
    BY <1>3, <2>1, <2>3 DEF GivenAt
  <2>4. CASE s[p[1]][p[2]].op = "throw"
    BY <2>1, <2>4 DEF GivenAt
  <2>5. CASE s[p[1]][p[2]].op = "await"
    BY <1>3, <2>1, <2>5, Zenon DEF GivenAt
  <2> QED BY <2>2, <2>3, <2>4, <2>5
<1> QED BY <1>1, <1>2, <1>3

\* All equations have a solution, and what the script gives is that at the first place.
LEMMA CallsSolved ==
  ASSUME NEW s \in Scripts, NEW cancelled
  PROVE  /\ Resolves(s, cancelled, CallSolution(s, cancelled))
         /\ Called(s, cancelled) = CallSolution(s, cancelled)[<<RootFrame, 1>>]
<1>1. Len(s) \in Nat \ {0} /\ DOMAIN s = 1..Len(s) /\ \A g \in DOMAIN s : Len(s[g]) \in Nat
  BY ScriptFacts
<1>20. PICK P, R, V : P = Places(s) /\ R = Later(s) /\ V = CallResults(s)
  OBVIOUS
<1>2. \A T \in SUBSET P : T # {} => \E x \in T : \A y \in T : <<y, x>> \notin R
  BY <1>1, <1>20, PlacesOrdered
<1>21. PICK Step : Step = [x \in [P -> V] \X P |-> GivenAt(s, cancelled, x[1], x[2])]
  OBVIOUS
<1>3. ASSUME NEW f \in [P -> V], NEW p \in P PROVE Step[<<f, p>>] = GivenAt(s, cancelled, f, p)
  <2>1. <<f, p>> \in [P -> V] \X P /\ <<f, p>>[1] = f /\ <<f, p>>[2] = p
    OBVIOUS
  <2> QED BY <1>21, <2>1
<1>4. \A f \in [P -> V] : \A p \in P : Step[<<f, p>>] \in V
  <2> SUFFICES ASSUME NEW f \in [P -> V], NEW p \in P PROVE GivenAt(s, cancelled, f, p) \in V
    BY <1>3
  <2>1. \A q \in P : f[q] \in V
    OBVIOUS
  <2>2. p[2] <= Len(s[p[1]]) => f[<<p[1], p[2] + 1>>] \in V
    BY <1>20, <2>1, LaterCalls
  <2>3. p[2] <= Len(s[p[1]]) /\ s[p[1]][p[2]].op = "await" => f[<<s[p[1]][p[2]].of, 1>>] \in V
    BY <1>20, <2>1, LaterCalls
  <2> QED BY <1>20, <2>2, <2>3, GivenTyped
<1>5. ASSUME NEW f, NEW h, NEW p \in P, \A q \in P : <<q, p>> \in R => f[q] = h[q]
      PROVE  GivenAt(s, cancelled, f, p) = GivenAt(s, cancelled, h, p)
  <2>1. p[2] <= Len(s[p[1]]) => f[<<p[1], p[2] + 1>>] = h[<<p[1], p[2] + 1>>]
    BY <1>5, <1>20, LaterCalls
  <2>2. p[2] <= Len(s[p[1]]) /\ s[p[1]][p[2]].op = "await" =>
          f[<<s[p[1]][p[2]].of, 1>>] = h[<<s[p[1]][p[2]].of, 1>>]
    BY <1>5, <1>20, LaterCalls
  <2> QED BY <1>20, <2>1, <2>2, GivenSame
<1>6. \A f, h \in [P -> V] : \A p \in P :
        (\A q \in P : <<q, p>> \in R => f[q] = h[q]) => Step[<<f, p>>] = Step[<<h, p>>]
  BY <1>3, <1>5
<1>7. Given(<<>>, "none") \in V
  BY <1>20 DEF Given, CallResults, CallEnds
<1>8. PICK f \in [P -> V] : \A p \in P : f[p] = Step[<<f, p>>]
  <2>1. FirstsIn(P, R) /\ Recursive(P, R, V, Step)
    BY <1>2, <1>4, <1>6 DEF FirstsIn, Recursive
  <2>2. PICK v : v \in V
    BY <1>7
  <2> QED BY <2>1, <2>2, RecursionSolved
<1>9. Resolves(s, cancelled, f)
  <2>1. \A p \in P : f[p] = GivenAt(s, cancelled, f, p)
    BY <1>3, <1>8
  <2> QED BY <1>20, <2>1 DEF Resolves
<1>22. PICK g : g = CallSolution(s, cancelled)
  OBVIOUS
<1>10. Resolves(s, cancelled, g)
  BY <1>9, <1>22, Zenon DEF CallSolution
<1>11. g = [p \in P |-> GivenAt(s, cancelled, g, p)]
  BY <1>10, <1>20 DEF Resolves
<1> DEFINE from == CHOOSE h : h = [p \in P |-> GivenAt(s, cancelled, h, p)]
<1>12. Called(s, cancelled) = from[<<RootFrame, 1>>]
  BY <1>20 DEF Called
<1>13. from = [p \in P |-> GivenAt(s, cancelled, from, p)]
  BY <1>11, Zenon
<1> HIDE DEF from
<1>14. \A p \in P : from[p] = GivenAt(s, cancelled, from, p) /\ g[p] = GivenAt(s, cancelled, g, p)
  BY <1>11, <1>13
<1>15. \A p \in P : from[p] = g[p]
  <2> DEFINE T == {p \in P : from[p] # g[p]}
  <2> SUFFICES ASSUME T # {} PROVE FALSE
    OBVIOUS
  <2>1. PICK x \in T : \A y \in T : <<y, x>> \notin R
    <3>1. T \in SUBSET P
      OBVIOUS
    <3> HIDE DEF T
    <3> QED BY <1>2, <3>1
  <2>2. \A q \in P : <<q, x>> \in R => from[q] = g[q]
    BY <2>1
  <2>3. x \in P /\ from[x] # g[x]
    OBVIOUS
  <2> HIDE DEF T
  <2>4. GivenAt(s, cancelled, from, x) = GivenAt(s, cancelled, g, x)
    BY <1>5, <2>2, <2>3
  <2> QED BY <1>14, <2>3, <2>4
<1>16. <<RootFrame, 1>> \in P
  BY <1>1, <1>20 DEF Places, RootFrame
<1> QED BY <1>10, <1>12, <1>15, <1>16, <1>22


-----------------------------------------------------------------------------
(* Calls in turn *)

\* What an await gives, and what comes after it unless the exception leaves the frame.
Awaited(item, inner, ends, rest) ==
  LET here == Append(inner.results, <<item.of, ends>>)
  IN IF ends = "none" \/ item.catches THEN Given(here \o rest.results, rest.ends) ELSE Given(here, ends)

\* What comes from a place of a frame on.
LEMMA GivenPlace ==
  ASSUME script \in Scripts, NEW cancelled, NEW g \in FrameIds, NEW i \in 1..(Len(script[g]) + 1)
  PROVE  /\ GivenFrom(cancelled, g, i) \in CallResults(script)
         /\ i = Len(script[g]) + 1 => GivenFrom(cancelled, g, i) = Given(<<>>, "none")
         /\ i <= Len(script[g]) =>
              /\ i \in 1..Len(script[g]) /\ i + 1 \in 1..(Len(script[g]) + 1)
              /\ script[g][i].op = "throw" => GivenFrom(cancelled, g, i) = Given(<<>>, "thrown")
              /\ script[g][i].op = "suspend" => GivenFrom(cancelled, g, i) = GivenFrom(cancelled, g, i + 1)
              /\ script[g][i].op = "await" => GivenFrom(cancelled, script[g][i].of, 1) \in CallResults(script)
<1>1. Len(script[g]) \in Nat /\ g \in DOMAIN script
  BY ScriptFacts DEF FrameIds
<1>2. PICK p : p = <<g, i>>
  OBVIOUS
<1>3. p \in Places(script) /\ p[1] = g /\ p[2] = i
  BY <1>1, <1>2 DEF Places
<1>4. PICK from : from = CallSolution(script, cancelled)
  OBVIOUS
<1>5. from \in [Places(script) -> CallResults(script)] /\ \A q \in Places(script) : from[q] = GivenAt(script, cancelled, from, q)
  BY <1>4, CallsSolved DEF Resolves
<1>6. /\ \A h, j : GivenFrom(cancelled, h, j) = from[<<h, j>>]
      /\ GivenFrom(cancelled, g, i) = GivenAt(script, cancelled, from, p)
      /\ GivenFrom(cancelled, g, i) \in CallResults(script)
  BY <1>2, <1>3, <1>4, <1>5 DEF GivenFrom
<1>7. ASSUME i = Len(script[g]) + 1 PROVE GivenFrom(cancelled, g, i) = Given(<<>>, "none")
  <2>1. i > Len(script[g])
    BY <1>1, <1>7
  <2> QED BY <1>3, <1>6, <2>1 DEF GivenAt
<1>8. ASSUME i <= Len(script[g])
      PROVE  /\ i \in 1..Len(script[g]) /\ i + 1 \in 1..(Len(script[g]) + 1)
             /\ script[g][i].op = "throw" => GivenFrom(cancelled, g, i) = Given(<<>>, "thrown")
             /\ script[g][i].op = "suspend" => GivenFrom(cancelled, g, i) = GivenFrom(cancelled, g, i + 1)
             /\ script[g][i].op = "await" => GivenFrom(cancelled, script[g][i].of, 1) \in CallResults(script)
  <2>1. ~ (i > Len(script[g])) /\ i \in 1..Len(script[g]) /\ i + 1 \in 1..(Len(script[g]) + 1)
    BY <1>1, <1>8
  <2>2. script[g][i].op = "throw" => GivenFrom(cancelled, g, i) = Given(<<>>, "thrown")
    BY <1>3, <1>6, <2>1 DEF GivenAt
  <2>3. script[g][i].op = "suspend" => GivenFrom(cancelled, g, i) = GivenFrom(cancelled, g, i + 1)
    BY <1>3, <1>6, <2>1 DEF GivenAt
  <2>4. script[g][i].op = "await" => GivenFrom(cancelled, script[g][i].of, 1) \in CallResults(script)
    <3>1. script[g][i].op = "await" => <<script[g][i].of, 1>> \in Places(script)
      BY <1>3, <1>8, LaterCalls
    <3> QED BY <1>5, <1>6, <3>1
  <2> QED BY <2>1, <2>2, <2>3, <2>4
<1> QED BY <1>6, <1>7, <1>8

\* What comes from an await on.
LEMMA GivenAwait ==
  ASSUME script \in Scripts, NEW cancelled, NEW g \in FrameIds, NEW i \in 1..Len(script[g]),
         script[g][i].op = "await"
  PROVE  GivenFrom(cancelled, g, i) =
           Awaited(script[g][i], GivenFrom(cancelled, script[g][i].of, 1),
                   EndOf(script[g][i].of, GivenFrom(cancelled, script[g][i].of, 1).ends, cancelled),
                   GivenFrom(cancelled, g, i + 1))
<1>1. Len(script[g]) \in Nat /\ g \in DOMAIN script
  BY ScriptFacts DEF FrameIds
<1>2. PICK p, from : p = <<g, i>> /\ from = CallSolution(script, cancelled)
  OBVIOUS
<1>3. p \in Places(script) /\ p[1] = g /\ p[2] = i /\ ~ (i > Len(script[g]))
  BY <1>1, <1>2 DEF Places
<1>4. \A q \in Places(script) : from[q] = GivenAt(script, cancelled, from, q)
  BY <1>2, CallsSolved DEF Resolves
<1>5. PICK inner, rest : inner = from[<<script[g][i].of, 1>>] /\ rest = from[<<g, i + 1>>]
  OBVIOUS
<1>6. /\ GivenFrom(cancelled, g, i) = GivenAt(script, cancelled, from, p)
      /\ GivenFrom(cancelled, script[g][i].of, 1) = inner /\ GivenFrom(cancelled, g, i + 1) = rest
  BY <1>2, <1>3, <1>4, <1>5 DEF GivenFrom
<1>7. GivenAt(script, cancelled, from, p) =
        Awaited(script[g][i], inner, EndOf(script[g][i].of, inner.ends, cancelled), rest)
  BY <1>3, <1>5 DEF GivenAt, Awaited
<1> QED BY <1>6, <1>7

\* Lists of results one after the other.
LEMMA RegroupedItems ==
  ASSUME NEW S, NEW a \in Seq(S), NEW b \in Seq(S), NEW c \in Seq(S)
  PROVE  (a \o b) \o c = a \o (b \o c)
BY ConcatAssociative

LEMMA ResultsInTurn ==
  ASSUME NEW S, NEW a \in Seq(S), NEW x \in S, NEW b \in Seq(S)
  PROVE  Append(a, x) \o b = a \o (<<x>> \o b)
<1>1. Append(a, x) = a \o <<x>> /\ <<x>> \in Seq(S)
  BY AppendIsConcat
<1>2. (a \o <<x>>) \o b = a \o (<<x>> \o b)
  BY <1>1, ConcatAssociative
<1> QED BY <1>1, <1>2

LEMMA GivenParts ==
  ASSUME NEW list, NEW ends
  PROVE  Given(list, ends).results = list /\ Given(list, ends).ends = ends
BY DEF Given

LEMMA ThenTyped ==
  ASSUME NEW S, NEW o \in [results : Seq(S), ends : CallEnds], NEW after \in [CallEnds -> [results : Seq(S), ends : CallEnds]]
  PROVE  Then(o, after) \in [results : Seq(S), ends : CallEnds]
<1>1. after[o.ends].results \in Seq(S) /\ after[o.ends].ends \in CallEnds /\ o.results \in Seq(S)
  OBVIOUS
<1>2. o.results \o after[o.ends].results \in Seq(S)
  BY <1>1, ConcatProperties
<1> QED BY <1>1, <1>2 DEF Then, Given

\* An outcome and what comes next, if only the outcome's own results come before.
LEMMA ThenGiven ==
  ASSUME NEW list, NEW ends, NEW after
  PROVE  Then(Given(list, ends), after) = Given(list \o after[ends].results, after[ends].ends)
BY DEF Then, Given

\* What comes from an await on is what comes from the awaited frame's first item on, if what
\* comes after that frame is its result and what comes after the await.
LEMMA AwaitInTurn ==
  ASSUME script \in Scripts, NEW cancelled, NEW g \in FrameIds, NEW i \in 1..Len(script[g]),
         script[g][i].op = "await", frame[g].position = i,
         NEW child, child = script[g][i].of,
         NEW after \in [CallEnds -> CallResults(script)], NEW deeper,
         \A e \in CallEnds : deeper[e] =
           Answer(g, child, EndOf(child, e, cancelled), GivenFrom(cancelled, g, i + 1), after)
  PROVE  Then(GivenFrom(cancelled, g, i), after) = Then(GivenFrom(cancelled, child, 1), deeper)
<1>1. Len(script[g]) \in Nat /\ g \in DOMAIN script /\ Item(g) = script[g][i] /\ child \in DOMAIN script
  BY ScriptFacts DEF FrameIds, Item
<1>2. i <= Len(script[g]) /\ i \in 1..(Len(script[g]) + 1) /\ i + 1 \in 1..(Len(script[g]) + 1)
  BY <1>1
<1>3. PICK S : S = (DOMAIN script) \X CallEnds
  OBVIOUS
<1>4. CallResults(script) = [results : Seq(S), ends : CallEnds]
  BY <1>3 DEF CallResults
<1>5. PICK inner, rest : inner = GivenFrom(cancelled, child, 1) /\ rest = GivenFrom(cancelled, g, i + 1)
  OBVIOUS
<1>6. PICK e, x : e = inner.ends /\ x = EndOf(child, e, cancelled)
  OBVIOUS
<1>7. PICK here : here = Append(inner.results, <<child, x>>)
  OBVIOUS
<1>8. inner \in [results : Seq(S), ends : CallEnds] /\ rest \in [results : Seq(S), ends : CallEnds]
  BY <1>1, <1>2, <1>4, <1>5, GivenPlace
<1>9. e \in CallEnds /\ x \in CallEnds /\ <<child, x>> \in S
  BY <1>1, <1>3, <1>6, <1>8 DEF EndOf, CallEnds
<1>10. GivenFrom(cancelled, g, i) =
         IF x = "none" \/ script[g][i].catches THEN Given(here \o rest.results, rest.ends) ELSE Given(here, x)
  <2>1. GivenFrom(cancelled, g, i) = Awaited(script[g][i], inner, x, rest)
    BY <1>5, <1>6, GivenAwait
  <2> QED BY <1>7, <2>1 DEF Awaited
<1>11. deeper[e] = Answer(g, child, x, rest, after)
  BY <1>5, <1>6, <1>9
<1>12. Then(inner, deeper) = Given(inner.results \o deeper[e].results, deeper[e].ends)
  BY <1>6 DEF Then
<1>13. CASE x = "none" \/ script[g][i].catches
  <2>1. PICK last : last = after[rest.ends]
    OBVIOUS
  <2>2. last.results \in Seq(S) /\ last \in [results : Seq(S), ends : CallEnds]
    BY <1>4, <1>8, <2>1
  <2>20. PICK list : list = <<<<child, x>>>> \o (rest.results \o last.results)
    OBVIOUS
  <2>3. deeper[e] = Given(list, last.ends)
    BY <1>1, <1>11, <1>13, <2>1, <2>20 DEF Answer, Then, Given
  <2>4. deeper[e].results = list /\ deeper[e].ends = last.ends
    BY <2>3, GivenParts
  <2>5. Then(GivenFrom(cancelled, g, i), after) = Given((here \o rest.results) \o last.results, last.ends)
    <3>1. GivenFrom(cancelled, g, i) = Given(here \o rest.results, rest.ends)
      BY <1>10, <1>13
    <3> QED BY <2>1, <3>1, ThenGiven
  <2>6. (here \o rest.results) \o last.results = inner.results \o list
    <3>1. PICK a, y, b, c : a = inner.results /\ y = <<child, x>> /\ b = rest.results /\ c = last.results
      OBVIOUS
    <3>2. a \in Seq(S) /\ y \in S /\ b \in Seq(S) /\ c \in Seq(S)
      BY <1>8, <1>9, <2>2, <3>1
    <3>3. <<y>> \in Seq(S) /\ <<y>> \o b \in Seq(S) /\ b \o c \in Seq(S)
      BY <3>2, ConcatProperties
    <3>4. Append(a, y) \o b = a \o (<<y>> \o b)
      BY <3>2, ResultsInTurn
    <3>5. (a \o (<<y>> \o b)) \o c = a \o ((<<y>> \o b) \o c)
      BY <3>2, <3>3, RegroupedItems
    <3>6. (<<y>> \o b) \o c = <<y>> \o (b \o c)
      BY <3>2, <3>3, RegroupedItems
    <3> QED BY <1>7, <2>20, <3>1, <3>4, <3>5, <3>6
  <2> QED BY <1>5, <1>12, <2>4, <2>5, <2>6
<1>14. CASE ~ (x = "none" \/ script[g][i].catches)
  <2>1. PICK last : last = after[x]
    OBVIOUS
  <2>2. last.results \in Seq(S) /\ last \in [results : Seq(S), ends : CallEnds]
    BY <1>4, <1>9, <2>1
  <2>20. PICK list : list = <<<<child, x>>>> \o last.results
    OBVIOUS
  <2>3. deeper[e] = Given(list, last.ends)
    BY <1>1, <1>11, <1>14, <2>1, <2>20 DEF Answer
  <2>4. deeper[e].results = list /\ deeper[e].ends = last.ends
    BY <2>3, GivenParts
  <2>5. Then(GivenFrom(cancelled, g, i), after) = Given(here \o last.results, last.ends)
    <3>1. GivenFrom(cancelled, g, i) = Given(here, x)
      BY <1>10, <1>14
    <3> QED BY <2>1, <3>1, ThenGiven
  <2>6. here \o last.results = inner.results \o list
    <3>1. PICK a, y, c : a = inner.results /\ y = <<child, x>> /\ c = last.results
      OBVIOUS
    <3>2. a \in Seq(S) /\ y \in S /\ c \in Seq(S)
      BY <1>8, <1>9, <2>2, <3>1
    <3>3. Append(a, y) \o c = a \o (<<y>> \o c)
      BY <3>2, ResultsInTurn
    <3> QED BY <1>7, <2>20, <3>1, <3>3
  <2> QED BY <1>5, <1>12, <2>4, <2>5, <2>6
<1> QED BY <1>13, <1>14

-----------------------------------------------------------------------------
(* What a step leaves as it is *)

LEMMA ScriptBasics ==
  ASSUME script \in Scripts
  PROVE  /\ RootFrame \in FrameIds /\ NoFrame \notin FrameIds /\ FrameIds \subseteq Nat
         /\ \A g \in FrameIds :
              /\ Len(script[g]) \in Nat
              /\ \A i \in 1..Len(script[g]) :
                   script[g][i].op = "await" =>
                     script[g][i].of \in FrameIds /\ script[g][i].of > g /\ script[g][i].of # RootFrame
<1>1. Len(script) \in Nat \ {0} /\ DOMAIN script = 1..Len(script)
  BY ScriptFacts
<1>2. RootFrame \in FrameIds /\ NoFrame \notin FrameIds /\ FrameIds \subseteq Nat /\ \A g \in FrameIds : g >= 1
  BY <1>1 DEF FrameIds, RootFrame, NoFrame
<1>3. ASSUME NEW g \in FrameIds, NEW i \in 1..Len(script[g]), script[g][i].op = "await"
      PROVE  script[g][i].of \in FrameIds /\ script[g][i].of > g
  BY <1>3, ScriptFacts DEF FrameIds
<1>4. ASSUME NEW g \in FrameIds, NEW i \in 1..Len(script[g]), script[g][i].op = "await"
      PROVE  script[g][i].of # RootFrame
  <2>1. PICK h : h = script[g][i].of
    OBVIOUS
  <2>2. h \in FrameIds /\ h > g
    BY <1>3, <1>4, <2>1
  <2> QED BY <1>2, <2>1, <2>2 DEF RootFrame
<1>5. \A g \in FrameIds : Len(script[g]) \in Nat
  BY ScriptFacts DEF FrameIds
<1> QED BY <1>2, <1>3, <1>4, <1>5

\* The frame in control, and the one whose result it may wait for.
LEMMA ControlFacts ==
  ASSUME FramesInv
  PROVE  /\ script \in Scripts /\ RootFrame \in FrameIds /\ NoFrame \notin FrameIds /\ FrameIds \subseteq Nat
         /\ \A g \in FrameIds : Len(script[g]) \in Nat /\ frame[g] \in Promises
         /\ \A g \in FrameIds : AtAwait(g) =>
              Item(g).of \in FrameIds /\ Item(g).of > g /\ Item(g).of # RootFrame
         /\ RootFrame \notin Ended => LastFrame \in FrameIds /\ LastFrame \in Begun
         /\ handle.at # "nowhere" => RootFrame \notin Ended /\ resumed = NoFrame /\ handle.of = LastFrame
         /\ resumed # NoFrame => RootFrame \notin Ended /\ resumed = LastFrame /\ handle = Nowhere
<1>1. script \in Scripts /\ \A g \in FrameIds : frame[g] \in Promises
  BY DEF FramesInv, FramesTyped
<1>2. \A g \in FrameIds : AtAwait(g) =>
        Item(g).of \in FrameIds /\ Item(g).of > g /\ Item(g).of # RootFrame
  BY <1>1, ScriptBasics DEF AtAwait, Item
<1>3. RootFrame \notin Ended => LastFrame \in FrameIds /\ LastFrame \in Begun
  BY DEF FramesInv, InControl, Begun
<1>4. handle.at # "nowhere" => RootFrame \notin Ended /\ resumed = NoFrame /\ handle.of = LastFrame
  BY DEF FramesInv, InControl, LastFrame, Nowhere
<1>5. resumed # NoFrame => RootFrame \notin Ended /\ resumed = LastFrame /\ handle = Nowhere
  BY DEF FramesInv, InControl, LastFrame
<1> QED BY <1>1, <1>2, <1>3, <1>4, <1>5, ScriptBasics

LEMMA GivenFromSame ==
  ASSUME script' = script, NEW cancelled, NEW g, NEW i
  PROVE  GivenFrom(cancelled, g, i)' = GivenFrom(cancelled, g, i)
BY DEF GivenFrom

\* The frames below the one in control keep their places.
LEMMA CallsAfterSame ==
  ASSUME FramesInv, script' = script, Begun' = Begun,
         \A g \in Begun \ {RootFrame} :
           /\ frame'[g].previous = frame[g].previous
           /\ frame'[frame[g].previous].position = frame[frame[g].previous].position,
         NEW cancelled, NEW after, CallsAfter(cancelled, after)
  PROVE  CallsAfter(cancelled, after)'
<1>1. FrameIds' = FrameIds
  BY DEF FrameIds
<1>2. after \in [FrameIds' -> [CallEnds -> CallResults(script')]] /\ \A e \in CallEnds : after[RootFrame][e] = Given(<<>>, e)
  BY <1>1 DEF CallsAfter
<1>3. ASSUME NEW g \in Begun \ {RootFrame}, NEW e \in CallEnds, NEW p, p = frame[g].previous
      PROVE  after[g][e] =
               Answer(p, g, EndOf(g, e, cancelled), GivenFrom(cancelled, p, frame[p].position + 1), after[p])'
  <2>1. after[g][e] = Answer(p, g, EndOf(g, e, cancelled), GivenFrom(cancelled, p, frame[p].position + 1), after[p])
    BY <1>3 DEF CallsAfter
  <2>2. frame'[p].position = frame[p].position
    BY <1>3
  <2>3. Item(p)' = Item(p)
    BY <2>2 DEF Item
  <2>4. \A n : GivenFrom(cancelled, p, n)' = GivenFrom(cancelled, p, n)
    BY GivenFromSame
  <2> QED BY <2>1, <2>2, <2>3, <2>4 DEF Answer
<1> QED BY <1>1, <1>2, <1>3 DEF CallsAfter

\* The rest is the same after a step that no frame gets on by.
LEMMA RestSame ==
  ASSUME FramesInv, script' = script, results' = results, thrownOut' = thrownOut,
         Begun' = Begun, Ended' = Ended, LastFrame' = LastFrame,
         \A g \in Ended : g \in hit' <=> g \in hit,
         \A g \in FrameIds :
           /\ frame'[g].position = frame[g].position
           /\ g \in Begun => frame'[g].previous = frame[g].previous
           /\ RootFrame \notin Ended =>
                /\ frame'[g].state = "done" <=> frame[g].state = "done"
                /\ frame[g].state = "done" => frame'[g].exception = frame[g].exception
  PROVE  CallRest'
<1>1. FrameIds' = FrameIds
  BY DEF FrameIds
<1>2. \A cancelled : Agrees(cancelled)' => Agrees(cancelled)
  BY DEF Agrees
<1>3. ASSUME NEW cancelled, NEW after, CallsAfter(cancelled, after), RootFrame \notin Ended
      PROVE  CallsAfter(cancelled, after)' /\ Remaining(cancelled, after)' = Remaining(cancelled, after)
  <2>1. \A g \in Begun \ {RootFrame} : g \in FrameIds /\ frame[g].previous \in FrameIds
    BY DEF FramesInv, CallStack, Begun
  <2>2. CallsAfter(cancelled, after)'
    BY <1>3, <2>1, CallsAfterSame
  <2>3. PICK g : g = LastFrame /\ g \in FrameIds
    BY <1>3, ControlFacts
  <2>4. Item(g)' = Item(g) /\ (AtAwait(g)' <=> AtAwait(g)) /\ frame'[g].position = frame[g].position
    BY <2>3 DEF Item, AtAwait
  <2>5. ASSUME AtAwait(g), NEW child, child = Item(g).of
        PROVE  /\ frame'[child].state = "done" <=> frame[child].state = "done"
               /\ frame[child].state = "done" => frame'[child].exception = frame[child].exception
    BY <1>3, <2>3, <2>5, ControlFacts
  <2>6. \A n : GivenFrom(cancelled, g, n)' = GivenFrom(cancelled, g, n)
    BY GivenFromSame
  <2>7. \A child, ends, o, following : Answer(g, child, ends, o, following)' = Answer(g, child, ends, o, following)
    BY <2>4 DEF Answer
  <2>8. ToCome(cancelled, after)' = ToCome(cancelled, after)
    <3>1. CASE AtAwait(g) /\ frame[Item(g).of].state = "done"
      BY <2>3, <2>4, <2>5, <2>6, <2>7, <3>1 DEF ToCome
    <3>2. CASE ~ (AtAwait(g) /\ frame[Item(g).of].state = "done")
      BY <2>3, <2>4, <2>5, <2>6, <3>2 DEF ToCome
    <3> QED BY <3>1, <3>2
  <2> QED BY <2>2, <2>8 DEF Remaining
<1>4. ASSUME NEW cancelled \in SUBSET FrameIds, Agrees(cancelled)'
      PROVE  /\ RootFrame \in Ended' =>
                  /\ Called(script', cancelled).results = results'
                  /\ thrownOut' <=> Called(script', cancelled).ends # "none"
             /\ RootFrame \notin Ended' =>
                  \E after : CallsAfter(cancelled, after)' /\ Called(script', cancelled) = Remaining(cancelled, after)'
  <2>1. Agrees(cancelled) /\ CallRest
    BY <1>2, <1>4 DEF FramesInv
  <2>2. RootFrame \in Ended =>
          /\ Called(script, cancelled).results = results
          /\ thrownOut <=> Called(script, cancelled).ends # "none"
    BY <2>1 DEF CallRest
  <2>3. RootFrame \notin Ended =>
          \E after : CallsAfter(cancelled, after) /\ Called(script, cancelled) = Remaining(cancelled, after)
    BY <2>1 DEF CallRest
  <2>4. ASSUME RootFrame \notin Ended
        PROVE  \E after : CallsAfter(cancelled, after)' /\ Called(script', cancelled) = Remaining(cancelled, after)'
    <3>1. PICK after : CallsAfter(cancelled, after) /\ Called(script, cancelled) = Remaining(cancelled, after)
      BY <2>3, <2>4
    <3> QED BY <1>3, <2>4, <3>1
  <2> QED BY <2>2, <2>4
<1> QED BY <1>1, <1>4 DEF CallRest

-----------------------------------------------------------------------------
(* The initial states *)

LEMMA ThenNothing ==
  ASSUME NEW s, NEW o \in CallResults(s), NEW after, \A e \in CallEnds : after[e] = Given(<<>>, e)
  PROVE  Then(o, after) = o /\ Given(<<>> \o o.results, o.ends) = o
<1>1. o.results \in Seq((DOMAIN s) \X CallEnds) /\ o.ends \in CallEnds /\ o = [results |-> o.results, ends |-> o.ends]
  BY DEF CallResults
<1>2. o.results \o <<>> = o.results /\ <<>> \o o.results = o.results
  BY <1>1, ConcatEmptySeq
<1>3. after[o.ends].results = <<>> /\ after[o.ends].ends = o.ends
  BY <1>1, GivenParts
<1> QED BY <1>1, <1>2, <1>3 DEF Then, Given

LEMMA FramesInvInit == ASSUME FramesInit PROVE FramesInv
<1>1. script \in Scripts
  BY DEF FramesInit
<1>2. /\ RootFrame \in FrameIds /\ NoFrame \notin FrameIds /\ FrameIds \subseteq Nat
      /\ \A g \in FrameIds : Len(script[g]) \in Nat
      /\ \A g \in FrameIds : \A i \in 1..Len(script[g]) :
           script[g][i].op = "await" =>
             script[g][i].of \in FrameIds /\ script[g][i].of > g /\ script[g][i].of # RootFrame
  BY <1>1, ScriptBasics
<1>3. /\ resumed = NoFrame /\ handle = [of |-> RootFrame, at |-> "executor"]
      /\ results = <<>> /\ hit = {} /\ thrownOut = FALSE
  BY DEF FramesInit
<1>4. /\ frame \in [FrameIds -> Promises]
      /\ \A g \in FrameIds :
           /\ frame[g].state = (IF g = RootFrame THEN "initial" ELSE "absent")
           /\ frame[g].position = 1 /\ frame[g].previous = NoFrame /\ frame[g].token = 0
           /\ frame[g].exception = "none" /\ frame[g].value = FALSE
           /\ g = RootFrame => frame[g].control = "group"
  BY <1>2 DEF FramesInit, NewFrame, Promises, NoFrame
<1>5. Begun = {RootFrame} /\ Ended = {} /\ LastFrame = RootFrame
  BY <1>2, <1>3, <1>4 DEF Begun, Ended, LastFrame
<1>6. FramesTyped
  <2>1. handle \in [of : FrameIds \cup {NoFrame}, at : {"nowhere", "executor", "service"}]
    BY <1>2, <1>3
  <2>2. results \in Seq(FrameIds \X CallEnds)
    BY <1>3
  <2> QED BY <1>1, <1>2, <1>3, <1>4, <2>1, <2>2 DEF FramesTyped
<1>7. InControl
  BY <1>2, <1>3, <1>4, <1>5 DEF InControl
<1>8. CallStack
  <2>1. \A g \in FrameIds : frame[g].position \in 1..(Len(script[g]) + 1) /\ frame[g].previous < g
    <3> TAKE g \in FrameIds
    <3>1. g \in Nat /\ g # 0 /\ Len(script[g]) \in Nat
      BY <1>2 DEF NoFrame
    <3>2. frame[g].position = 1 /\ frame[g].previous = 0
      BY <1>4 DEF NoFrame
    <3> QED BY <3>1, <3>2
  <2>2. ~ Awaits(RootFrame, RootFrame)
    BY <1>2 DEF Awaits, AtAwait, Item
  <2> QED BY <1>2, <1>4, <1>5, <2>1, <2>2 DEF CallStack
<1>9. Promised
  BY <1>2, <1>3, <1>4, <1>5 DEF Promised
<1>10. Tokens
  <2>1. ASSUME NEW g \in FrameIds, frame[g].state = "initial", NEW p \in FrameIds, Awaits(p, g) PROVE FALSE
    BY <1>2, <1>4, <2>1 DEF Awaits, AtAwait, Item
  <2> QED BY <1>2, <1>4, <1>5, <2>1 DEF Tokens
<1>11. CallRest
  <2> SUFFICES ASSUME NEW cancelled
               PROVE  \E after : CallsAfter(cancelled, after) /\ Called(script, cancelled) = Remaining(cancelled, after)
    BY <1>5 DEF CallRest
  <2>1. PICK after : after = [g \in FrameIds |-> [e \in CallEnds |-> Given(<<>>, e)]]
    OBVIOUS
  <2>2. after \in [FrameIds -> [CallEnds -> CallResults(script)]]
    <3>1. \A e \in CallEnds : Given(<<>>, e) \in CallResults(script)
      BY DEF Given, CallResults
    <3> QED BY <2>1, <3>1
  <2>3. \A e \in CallEnds : after[RootFrame][e] = Given(<<>>, e)
    BY <1>2, <2>1
  <2>4. CallsAfter(cancelled, after)
    BY <1>5, <2>2, <2>3 DEF CallsAfter
  <2>5. PICK o : o = GivenFrom(cancelled, RootFrame, 1)
    OBVIOUS
  <2>6. o \in CallResults(script) /\ Called(script, cancelled) = o
    <3>1. 1 \in 1..(Len(script[RootFrame]) + 1)
      BY <1>2
    <3>2. GivenFrom(cancelled, RootFrame, 1) \in CallResults(script)
      BY <1>1, <1>2, <3>1, GivenPlace
    <3> QED BY <1>1, <2>5, <3>2, CallsSolved DEF GivenFrom
  <2>7. ToCome(cancelled, after) = Then(o, after[RootFrame])
    <3>1. AtAwait(RootFrame) => frame[Item(RootFrame).of].state # "done"
      BY <1>2, <1>4 DEF AtAwait, Item
    <3> QED BY <1>2, <1>4, <1>5, <2>5, <3>1 DEF ToCome
  <2>8. Remaining(cancelled, after) = o
    BY <1>3, <2>3, <2>6, <2>7, ThenNothing DEF Remaining
  <2> QED BY <2>4, <2>6, <2>8
<1> QED BY <1>6, <1>7, <1>8, <1>9, <1>10, <1>11 DEF FramesInv

-----------------------------------------------------------------------------
(* The executor and the services *)

\* Promises of which only the state, the exception and the value are others.
LEMMA StackSame ==
  ASSUME FramesInv, script' = script, Begun' = Begun, LastFrame' = LastFrame, RootFrame \in Ended' => RootFrame \in Ended,
         \A g \in FrameIds :
           /\ frame'[g].position = frame[g].position /\ frame'[g].previous = frame[g].previous
           /\ frame[g].state = "absent" <=> frame'[g].state = "absent"
           /\ frame'[g].state = "initial" => frame[g].state = "initial"
  PROVE  CallStack'
<1>1. FrameIds' = FrameIds
  BY DEF FrameIds
<1>2. ASSUME NEW g \in FrameIds PROVE Item(g)' = Item(g) /\ (AtAwait(g)' <=> AtAwait(g))
  BY <1>2 DEF Item, AtAwait
<1>3. ASSUME NEW g \in FrameIds, NEW h PROVE Awaits(g, h)' <=> Awaits(g, h)
  BY <1>2 DEF Awaits
<1>4. Begun \subseteq FrameIds /\ RootFrame \in FrameIds /\ CallStack
  BY ControlFacts DEF Begun, FramesInv
<1>5. \A g \in Begun \ {RootFrame} : g \in FrameIds /\ frame[g].previous \in FrameIds
  BY <1>4 DEF CallStack
<1>6. \A g \in FrameIds : frame'[g].position \in 1..(Len(script'[g]) + 1) /\ frame'[g].previous < g
  BY <1>4 DEF CallStack
<1>7. \A g \in Begun' \ {RootFrame} : frame'[g].previous \in Begun' /\ Awaits(frame[g].previous, g)'
  <2>1. ASSUME NEW g \in Begun \ {RootFrame}, NEW p, p = frame[g].previous PROVE p \in Begun /\ Awaits(p, g)' /\ p = frame'[g].previous
    BY <1>3, <1>4, <1>5, <2>1 DEF CallStack
  <2>2. ASSUME NEW g \in Begun \ {RootFrame} PROVE frame'[g].previous \in Begun' /\ Awaits(frame[g].previous, g)'
    <3>1. PICK p : p = frame[g].previous
      OBVIOUS
    <3>2. p \in Begun /\ Awaits(p, g)' /\ p = frame'[g].previous
      BY <2>1, <3>1
    <3> QED BY <3>2 DEF Awaits, AtAwait, Item
  <2> QED BY <2>2
<1>8. \A g \in Begun' : ~ Awaits(LastFrame, g)'
  <2>1. ASSUME NEW g \in Begun, NEW l, l = LastFrame PROVE ~ Awaits(l, g)' /\ l = LastFrame'
    <3>1. RootFrame \notin Ended
      BY <1>4, <2>1 DEF CallStack
    <3>2. l \in FrameIds /\ ~ Awaits(l, g)
      BY <2>1, <1>4, <3>1, ControlFacts DEF CallStack
    <3> QED BY <1>3, <2>1, <3>2
  <2> QED BY <2>1 DEF Awaits, AtAwait, Item
<1>9. \A g \in Begun' \ {LastFrame'} : AtAwait(g)' /\ Item(g)'.of \in Begun'
  BY <1>2, <1>4 DEF CallStack
<1>10. \A g \in FrameIds : \A i \in 1..Len(script[g]) :
         script[g][i].op = "await" /\ (i > frame'[g].position \/ frame'[g].state \in {"absent", "initial"}) =>
           frame'[script[g][i].of].state = "absent"
  <2> SUFFICES ASSUME NEW g \in FrameIds, NEW i \in 1..Len(script[g]), script[g][i].op = "await",
                      i > frame'[g].position \/ frame'[g].state \in {"absent", "initial"}
               PROVE  frame'[script[g][i].of].state = "absent"
    OBVIOUS
  <2>1. i > frame[g].position \/ frame[g].state \in {"absent", "initial"}
    OBVIOUS
  <2>2. frame[script[g][i].of].state = "absent" /\ script[g][i].of \in FrameIds
    BY <1>4, <2>1, ControlFacts, ScriptBasics DEF CallStack
  <2> QED BY <2>2
<1>11. \A g \in FrameIds : frame'[g].state \in {"absent", "initial"} => frame'[g].position = 1
  BY <1>4 DEF CallStack
<1>12. frame'[RootFrame].previous = NoFrame /\ (RootFrame \in Ended' => Begun' = {})
  BY <1>4 DEF CallStack
<1> QED BY <1>1, <1>4, <1>6, <1>7, <1>8, <1>9, <1>10, <1>11, <1>12 DEF CallStack

LEMMA TokensSame ==
  ASSUME FramesInv, script' = script, Begun' = Begun,
         \A g \in FrameIds :
           /\ frame'[g].position = frame[g].position /\ frame'[g].previous = frame[g].previous
           /\ frame'[g].token = frame[g].token /\ (frame'[g].state = "initial" => frame[g].state = "initial")
  PROVE  Tokens'
<1>1. FrameIds' = FrameIds /\ RootFrame \in FrameIds /\ Tokens
  BY ControlFacts DEF FrameIds, FramesInv
<1>2. ASSUME NEW g \in FrameIds, NEW h
      PROVE  Item(g)' = Item(g) /\ (Awaits(g, h)' <=> Awaits(g, h))
  BY <1>2 DEF Item, AtAwait, Awaits
<1>3. \A g \in Begun \ {RootFrame} : g \in FrameIds /\ frame[g].previous \in FrameIds
  BY DEF FramesInv, CallStack, Begun
<1>4. ASSUME NEW g \in Begun \ {RootFrame}, NEW p, p = frame[g].previous
      PROVE  frame'[g].token = IF frame'[p].token # 0 THEN frame'[p].token ELSE Item(p)'.source
  BY <1>1, <1>2, <1>3, <1>4 DEF Tokens
<1>5. ASSUME NEW g \in FrameIds, NEW p \in FrameIds, frame'[g].state = "initial", Awaits(p, g)'
      PROVE  frame'[g].token = Item(p)'.source
  BY <1>1, <1>2, <1>5 DEF Tokens
<1>6. frame'[RootFrame].token = 0
  BY <1>1 DEF Tokens
<1> QED BY <1>1, <1>3, <1>4, <1>5, <1>6 DEF Tokens

LEMMA PromisedSame ==
  ASSUME FramesInv, script' = script, hit' = hit, Begun' = Begun, Ended' = Ended,
         \A g \in FrameIds :
           /\ frame'[g].exception = frame[g].exception /\ frame'[g].value = frame[g].value
           /\ frame'[g].control = frame[g].control
           /\ frame'[g].state \in {"absent", "initial"} => frame[g].state \in {"absent", "initial"}
           /\ frame'[g].state = "destroyed" => frame[g].state = "destroyed"
  PROVE  Promised'
<1>1. FrameIds' = FrameIds /\ RootFrame \in FrameIds /\ Promised /\ Begun \subseteq FrameIds /\ Ended \subseteq FrameIds
  BY ControlFacts DEF FrameIds, FramesInv, Begun, Ended
<1> QED BY <1>1 DEF Promised

LEMMA ResumeToKeeps == ASSUME FramesInv, ResumeTo PROVE FramesInv'
<1>1. PICK h : h = handle.of
  OBVIOUS
<1>2. /\ script' = script /\ results' = results /\ hit' = hit /\ thrownOut' = thrownOut
      /\ resumed' = h /\ handle' = Nowhere /\ handle.at = "executor"
  BY <1>1 DEF ResumeTo
<1>3. /\ RootFrame \notin Ended /\ resumed = NoFrame /\ h = LastFrame /\ h \in Begun /\ h \in FrameIds
      /\ NoFrame \notin FrameIds /\ RootFrame \in FrameIds
  BY <1>1, <1>2, ControlFacts
<1>4. /\ frame' \in [FrameIds -> Promises]
      /\ \A g \in FrameIds :
           /\ frame'[g].state = IF g = h THEN "started" ELSE frame[g].state
           /\ frame'[g].position = frame[g].position /\ frame'[g].previous = frame[g].previous
           /\ frame'[g].control = frame[g].control /\ frame'[g].token = frame[g].token
           /\ frame'[g].exception = frame[g].exception /\ frame'[g].value = frame[g].value
  <2>1. frame \in [FrameIds -> Promises]
    BY DEF FramesInv, FramesTyped
  <2> QED BY <1>1, <1>3, <2>1 DEF ResumeTo, Promises
<1>5. /\ FrameIds' = FrameIds /\ Begun' = Begun /\ Ended' = Ended /\ LastFrame' = LastFrame
      /\ frame[h].state \in {"started", "initial"} /\ (frame[h].state = "initial" => h = RootFrame)
  <2>1. frame[h].state \in {"started", "initial"} /\ (frame[h].state = "initial" => h = RootFrame)
    BY <1>3 DEF Begun
  <2> QED BY <1>2, <1>3, <1>4, <2>1 DEF FrameIds, Begun, Ended, LastFrame
<1>6. FramesTyped'
  BY <1>2, <1>3, <1>4, <1>5 DEF FramesInv, FramesTyped, Nowhere
<1>7. InControl'
  BY <1>2, <1>3, <1>4, <1>5 DEF FramesInv, InControl, Nowhere
<1>8. CallStack'
  BY <1>2, <1>3, <1>4, <1>5, StackSame
<1>9. Promised'
  BY <1>2, <1>3, <1>4, <1>5, PromisedSame
<1>10. Tokens'
  BY <1>2, <1>3, <1>4, <1>5, TokensSame
<1>11. CallRest'
  BY <1>2, <1>3, <1>4, <1>5, RestSame
<1> QED BY <1>6, <1>7, <1>8, <1>9, <1>10, <1>11 DEF FramesInv

LEMMA PushToExecutorKeeps == ASSUME FramesInv, PushToExecutor PROVE FramesInv'
<1>1. PICK h : h = handle.of
  OBVIOUS
<1>2. /\ script' = script /\ results' = results /\ hit' = hit /\ thrownOut' = thrownOut /\ frame' = frame
      /\ resumed' = resumed /\ handle.at = "service"
  BY <1>1 DEF PushToExecutor
<1>3. /\ RootFrame \notin Ended /\ resumed = NoFrame /\ h = LastFrame /\ h \in Begun /\ h \in FrameIds
      /\ NoFrame \notin FrameIds /\ RootFrame \in FrameIds
  BY <1>1, <1>2, ControlFacts
<1>4. handle'.of = h /\ handle'.at = "executor" /\ handle' \in [of : FrameIds \cup {NoFrame}, at : {"nowhere", "executor", "service"}]
  BY <1>1 DEF PushToExecutor, FramesInv, FramesTyped
<1>5. /\ FrameIds' = FrameIds /\ Begun' = Begun /\ Ended' = Ended /\ LastFrame' = LastFrame
      /\ frame[h].state = "started"
  <2>1. frame[h].state = "started"
    BY <1>1, <1>2, <1>3 DEF FramesInv, InControl
  <2> QED BY <1>2, <1>3, <1>4, <2>1 DEF FrameIds, Begun, Ended, LastFrame
<1>6. FramesTyped'
  BY <1>2, <1>3, <1>4, <1>5 DEF FramesInv, FramesTyped, Nowhere
<1>7. InControl'
  BY <1>2, <1>3, <1>4, <1>5 DEF FramesInv, InControl, Nowhere
<1>8. CallStack'
  BY <1>2, <1>3, <1>5, StackSame
<1>9. Promised'
  BY <1>2, <1>3, <1>5, PromisedSame
<1>10. Tokens'
  BY <1>2, <1>3, <1>5, TokensSame
<1>11. CallRest'
  BY <1>2, <1>3, <1>5, RestSame
<1> QED BY <1>6, <1>7, <1>8, <1>9, <1>10, <1>11 DEF FramesInv

LEMMA SetExceptionKeeps == ASSUME FramesInv, SetException PROVE FramesInv'
<1>1. PICK h : h = handle.of
  OBVIOUS
<1>2. /\ script' = script /\ results' = results /\ hit' = hit \cup {h} /\ thrownOut' = thrownOut
      /\ resumed' = resumed /\ handle.at = "service"
  BY <1>1 DEF SetException
<1>3. /\ RootFrame \notin Ended /\ resumed = NoFrame /\ h = LastFrame /\ h \in Begun /\ h \in FrameIds
      /\ NoFrame \notin FrameIds /\ RootFrame \in FrameIds
  BY <1>1, <1>2, ControlFacts
<1>4. handle'.of = h /\ handle'.at = "executor" /\ handle' \in [of : FrameIds \cup {NoFrame}, at : {"nowhere", "executor", "service"}]
  BY <1>1 DEF SetException, FramesInv, FramesTyped
<1>5. /\ frame' \in [FrameIds -> Promises]
      /\ \A g \in FrameIds :
           /\ frame'[g].state = frame[g].state
           /\ frame'[g].position = frame[g].position /\ frame'[g].previous = frame[g].previous
           /\ frame'[g].control = frame[g].control /\ frame'[g].token = frame[g].token
           /\ frame'[g].value = frame[g].value
           /\ frame'[g].exception = IF g = h THEN "cancelled" ELSE frame[g].exception
  <2>1. frame \in [FrameIds -> Promises]
    BY DEF FramesInv, FramesTyped
  <2> QED BY <1>1, <1>3, <2>1 DEF SetException, Promises
<1>6. /\ FrameIds' = FrameIds /\ Begun' = Begun /\ Ended' = Ended /\ LastFrame' = LastFrame
      /\ frame[h].state = "started" /\ h \notin Ended
  <2>1. frame[h].state = "started"
    BY <1>1, <1>2, <1>3 DEF FramesInv, InControl
  <2> QED BY <1>2, <1>3, <1>4, <1>5, <2>1 DEF FrameIds, Begun, Ended, LastFrame
<1>7. FramesTyped'
  BY <1>2, <1>3, <1>4, <1>5, <1>6 DEF FramesInv, FramesTyped
<1>8. InControl'
  BY <1>2, <1>3, <1>4, <1>5, <1>6 DEF FramesInv, InControl, Nowhere
<1>9. CallStack'
  BY <1>2, <1>3, <1>5, <1>6, StackSame
<1>10. Promised'
  <2>1. Promised /\ Begun \subseteq FrameIds /\ Ended \subseteq FrameIds
    BY DEF FramesInv, Begun, Ended
  <2> QED BY <1>2, <1>3, <1>5, <1>6, <2>1 DEF Promised
<1>11. Tokens'
  BY <1>2, <1>3, <1>5, <1>6, TokensSame
<1>12. CallRest'
  BY <1>2, <1>3, <1>5, <1>6, RestSame
<1> QED BY <1>7, <1>8, <1>9, <1>10, <1>11, <1>12 DEF FramesInv

LEMMA OpDestroyKeeps == ASSUME FramesInv, OpDestroy PROVE FramesInv'
<1>1. /\ script' = script /\ results' = results /\ hit' = hit /\ thrownOut' = thrownOut
      /\ resumed' = resumed /\ handle' = handle /\ frame[RootFrame].state = "done"
  BY DEF OpDestroy
<1>2. RootFrame \in FrameIds /\ RootFrame \in Ended /\ NoFrame \notin FrameIds
  BY <1>1, ControlFacts DEF Ended
<1>3. resumed = NoFrame /\ handle = Nowhere /\ Begun = {}
  BY <1>2 DEF FramesInv, InControl, CallStack
<1>4. /\ frame' \in [FrameIds -> Promises]
      /\ \A g \in FrameIds :
           /\ frame'[g].state = IF g = RootFrame THEN "destroyed" ELSE frame[g].state
           /\ frame'[g].position = frame[g].position /\ frame'[g].previous = frame[g].previous
           /\ frame'[g].control = frame[g].control /\ frame'[g].token = frame[g].token
           /\ frame'[g].exception = frame[g].exception /\ frame'[g].value = frame[g].value
  <2>1. frame \in [FrameIds -> Promises]
    BY DEF FramesInv, FramesTyped
  <2> QED BY <1>2, <2>1 DEF OpDestroy, Promises
<1>5. FrameIds' = FrameIds /\ Begun' = Begun /\ Ended' = Ended /\ LastFrame' = LastFrame
  BY <1>1, <1>2, <1>3, <1>4 DEF FrameIds, Begun, Ended, LastFrame
<1>6. FramesTyped'
  BY <1>1, <1>4, <1>5 DEF FramesInv, FramesTyped
<1>7. InControl'
  BY <1>1, <1>2, <1>3, <1>4, <1>5 DEF FramesInv, InControl
<1>8. CallStack'
  BY <1>1, <1>2, <1>4, <1>5, StackSame
<1>9. Promised'
  <2>1. Promised /\ Ended \subseteq FrameIds
    BY DEF FramesInv, Ended
  <2> QED BY <1>1, <1>2, <1>3, <1>4, <1>5, <2>1 DEF Promised
<1>10. Tokens'
  BY <1>1, <1>4, <1>5, TokensSame
<1>11. CallRest'
  BY <1>1, <1>2, <1>4, <1>5, RestSame
<1> QED BY <1>6, <1>7, <1>8, <1>9, <1>10, <1>11 DEF FramesInv

LEMMA FramesStutter == ASSUME FramesInv, UNCHANGED framesVars PROVE FramesInv'
<1>1. /\ script' = script /\ results' = results /\ hit' = hit /\ thrownOut' = thrownOut
      /\ resumed' = resumed /\ handle' = handle /\ frame' = frame
  BY DEF framesVars
<1>2. FrameIds' = FrameIds /\ Begun' = Begun /\ Ended' = Ended /\ LastFrame' = LastFrame
  BY <1>1 DEF FrameIds, Begun, Ended, LastFrame
<1>3. FramesTyped' /\ InControl'
  BY <1>1, <1>2 DEF FramesInv, FramesTyped, InControl, Nowhere
<1>4. CallStack'
  BY <1>1, <1>2, StackSame
<1>5. Promised'
  BY <1>1, <1>2, PromisedSame
<1>6. Tokens'
  BY <1>1, <1>2, TokensSame
<1>7. CallRest'
  BY <1>1, <1>2, RestSame
<1> QED BY <1>3, <1>4, <1>5, <1>6, <1>7 DEF FramesInv

-----------------------------------------------------------------------------
(* What the frame in control does *)

\* The frame that runs.
LEMMA RunningFrame ==
  ASSUME FramesInv, NEW g, resumed = g, g # NoFrame
  PROVE  /\ g = LastFrame /\ g \in FrameIds /\ g \in Begun /\ frame[g].state = "started"
         /\ RootFrame \notin Ended /\ handle = Nowhere /\ ~ thrownOut
         /\ frame[g].position \in 1..(Len(script[g]) + 1) /\ Len(script[g]) \in Nat
         /\ frame[g].position <= Len(script[g]) => frame[g].position \in 1..Len(script[g])
         /\ frame[RootFrame].state = "started"
<1>1. /\ RootFrame \notin Ended /\ g = LastFrame /\ handle = Nowhere /\ g \in FrameIds /\ g \in Begun
      /\ RootFrame \in FrameIds /\ Len(script[g]) \in Nat
  BY ControlFacts
<1>2. frame[g].state = "started" /\ ~ thrownOut
  BY <1>1 DEF FramesInv, InControl
<1>3. frame[g].position \in 1..(Len(script[g]) + 1)
  BY <1>1 DEF FramesInv, CallStack
<1>4. frame[RootFrame].state = "started"
  <2>1. frame[RootFrame].state # "initial"
    BY <1>1 DEF FramesInv, InControl, Nowhere
  <2>2. frame[RootFrame].state # "absent"
    BY DEF FramesInv, InControl
  <2>3. frame[RootFrame] \in Promises
    BY <1>1, ControlFacts
  <2> QED BY <1>1, <2>1, <2>2, <2>3 DEF Ended, Promises
<1> QED BY <1>1, <1>2, <1>3, <1>4

\* The await at which it is.
LEMMA RunningAwait ==
  ASSUME FramesInv, NEW g \in FrameIds, AtFrameItem(g, "await"), NEW child, child = Item(g).of
  PROVE  /\ child \in FrameIds /\ child > g /\ child # g /\ child # RootFrame
         /\ AtAwait(g) /\ Awaits(g, child) /\ child \notin Begun
         /\ Item(g) = script[g][frame[g].position] /\ Item(g).op = "await"
         /\ Item(g).catches \in BOOLEAN /\ Item(g).source \in Sources
         /\ \A h \in FrameIds : Awaits(h, child) => h = g
         /\ \A h \in FrameIds : \A i \in 1..Len(script[h]) :
              script[h][i].op = "await" /\ script[h][i].of = child => h = g /\ i = frame[g].position
<1>1. resumed = g /\ g # NoFrame /\ frame[g].position <= Len(script[g]) /\ Item(g).op = "await"
  BY ControlFacts DEF AtFrameItem
<1>2. frame[g].position \in 1..Len(script[g]) /\ g = LastFrame
  BY <1>1, RunningFrame
<1>3. AtAwait(g) /\ Awaits(g, child) /\ Item(g) = script[g][frame[g].position]
  BY <1>1, <1>2 DEF AtAwait, Awaits, Item
<1>4. child \in FrameIds /\ child > g /\ child # RootFrame /\ g \in Nat
  BY <1>3, ControlFacts
<1>5. child \notin Begun
  BY <1>2, <1>3 DEF FramesInv, CallStack
<1>6. script \in Scripts
  BY ControlFacts
<1>7. Item(g).catches \in BOOLEAN /\ Item(g).source \in Sources
  BY <1>1, <1>2, <1>3, <1>6, ScriptFacts DEF FrameIds
<1>8. ASSUME NEW h \in FrameIds, NEW i \in 1..Len(script[h]), script[h][i].op = "await", script[h][i].of = child
      PROVE  h = g /\ i = frame[g].position
  BY <1>1, <1>2, <1>3, <1>6, <1>8, AwaitedOnce DEF FrameIds
<1>9. ASSUME NEW h \in FrameIds, Awaits(h, child) PROVE h = g
  BY <1>8, <1>9 DEF Awaits, AtAwait, Item
<1> QED BY <1>1, <1>3, <1>4, <1>5, <1>7, <1>8, <1>9

LEMMA GetReturnObjectKeeps == ASSUME FramesInv, NEW g \in FrameIds, GetReturnObject(g) PROVE FramesInv'
<1>1. PICK child, source : child = Item(g).of /\ source = Item(g).source
  OBVIOUS
<1>2. /\ script' = script /\ results' = results /\ hit' = hit /\ thrownOut' = thrownOut
      /\ resumed' = resumed /\ handle' = handle /\ resumed = g /\ frame[child].state = "absent"
      /\ AtFrameItem(g, "await")
  BY <1>1 DEF GetReturnObject, AtFrameItem
<1>3. /\ child \in FrameIds /\ child > g /\ child # g /\ child # RootFrame /\ child \notin Begun /\ Awaits(g, child)
      /\ source \in Sources
      /\ \A h \in FrameIds : Awaits(h, child) => h = g
      /\ \A h \in FrameIds : \A i \in 1..Len(script[h]) :
           script[h][i].op = "await" /\ script[h][i].of = child => h = g /\ i = frame[g].position
  BY <1>1, <1>2, RunningAwait
<1>4. /\ g = LastFrame /\ g \in Begun /\ RootFrame \notin Ended /\ RootFrame \in FrameIds /\ NoFrame \notin FrameIds
      /\ FrameIds \subseteq Nat /\ frame[g].state = "started"
  BY <1>2, ControlFacts, RunningFrame
<1>5. frame[child].position = 1 /\ child \notin hit
  BY <1>2, <1>3 DEF FramesInv, CallStack, Promised
<1>6. /\ frame' \in [FrameIds -> Promises]
      /\ \A h \in FrameIds : h # child => frame'[h] = frame[h]
      /\ frame'[child].state = "initial" /\ frame'[child].position = 1 /\ frame'[child].previous = NoFrame
      /\ frame'[child].token = source
      /\ frame'[child].exception = "none" /\ frame'[child].value = FALSE
  <2>1. frame \in [FrameIds -> Promises]
    BY DEF FramesInv, FramesTyped
  <2>2. frame' = [frame EXCEPT ![child] = [NewFrame("initial") EXCEPT !.token = WithToken(0, source)]]
    BY <1>1 DEF GetReturnObject
  <2>3. WithToken(0, source) = source
    BY DEF WithToken
  <2>4. [NewFrame("initial") EXCEPT !.token = source] \in Promises
    BY <1>3 DEF NewFrame, Promises, NoFrame
  <2> QED BY <1>3, <2>1, <2>2, <2>3, <2>4 DEF NewFrame
<1>7. FrameIds' = FrameIds /\ Begun' = Begun /\ Ended' = Ended /\ LastFrame' = LastFrame
  BY <1>2, <1>3, <1>6 DEF FrameIds, Begun, Ended, LastFrame
<1>8. FramesTyped'
  BY <1>2, <1>6, <1>7 DEF FramesInv, FramesTyped
<1>9. InControl'
  BY <1>2, <1>3, <1>4, <1>6, <1>7 DEF FramesInv, InControl, Nowhere
<1>10. \A h \in FrameIds : frame'[h].position = frame[h].position /\ (h \in Begun => frame'[h] = frame[h])
  BY <1>3, <1>5, <1>6
<1>11. \A h \in FrameIds : Item(h)' = Item(h) /\ (AtAwait(h)' <=> AtAwait(h))
  BY <1>2, <1>10 DEF Item, AtAwait
<1>12. \A h \in FrameIds : \A k : Awaits(h, k)' <=> Awaits(h, k)
  BY <1>11 DEF Awaits
<1>13. CallStack'
  <2>1. \A h \in Begun \ {RootFrame} : h \in FrameIds /\ frame[h].previous \in Begun /\ frame[h].previous \in FrameIds
    BY DEF FramesInv, CallStack, Begun
  <2>2. ASSUME NEW h \in Begun \ {RootFrame}, NEW p, p = frame[h].previous PROVE frame'[h].previous = p /\ Awaits(p, h)'
    BY <1>10, <1>12, <2>1, <2>2 DEF FramesInv, CallStack
  <2>3. ASSUME NEW h \in FrameIds, NEW i \in 1..Len(script[h]), script[h][i].op = "await",
               i > frame'[h].position \/ frame'[h].state \in {"absent", "initial"}
        PROVE  frame'[script[h][i].of].state = "absent"
    <3>1. i > frame[h].position \/ frame[h].state \in {"absent", "initial"}
      BY <1>2, <1>6, <1>10, <2>3
    <3>2. PICK k : k = script[h][i].of /\ k \in FrameIds
      BY <2>3, ControlFacts, ScriptBasics
    <3>3. frame[k].state = "absent"
      BY <2>3, <3>1, <3>2 DEF FramesInv, CallStack
    <3>4. k # child
      <4>1. h = g => frame[h].position \in Nat
        BY <1>2, <1>4, RunningFrame
      <4> QED BY <1>3, <1>4, <2>3, <3>1, <3>2, <4>1
    <3> QED BY <1>6, <3>2, <3>3, <3>4
  <2>4. \A h \in FrameIds : frame'[h].position \in 1..(Len(script[h]) + 1) /\ frame'[h].previous < h
    <3>1. \A h \in FrameIds : frame[h].position \in 1..(Len(script[h]) + 1) /\ frame[h].previous < h
      BY DEF FramesInv, CallStack
    <3>2. NoFrame < child
      BY <1>3, <1>4 DEF NoFrame
    <3> QED BY <1>6, <1>10, <3>1, <3>2
  <2>5. \A h \in FrameIds : frame'[h].state \in {"absent", "initial"} => frame'[h].position = 1
    BY <1>6 DEF FramesInv, CallStack
  <2>6. \A h \in Begun' : ~ Awaits(LastFrame, h)'
    <3>1. \A h \in Begun : ~ Awaits(g, h)'
      BY <1>4, <1>12 DEF FramesInv, CallStack
    <3>2. LastFrame' = g
      BY <1>4, <1>7
    <3> QED BY <1>7, <3>1, <3>2 DEF Awaits, AtAwait, Item
  <2>7. \A h \in Begun \ {g} : AtAwait(h)' /\ Item(h)'.of \in Begun
    <3>1. \A h \in Begun \ {g} : h \in FrameIds /\ AtAwait(h) /\ Item(h).of \in Begun
      BY <1>4 DEF FramesInv, CallStack, Begun
    <3> QED BY <1>11, <3>1
  <2>8. \A h \in Begun \ {RootFrame} : frame'[h].previous \in Begun /\ Awaits(frame[h].previous, h)'
    <3>1. ASSUME NEW h \in Begun \ {RootFrame} PROVE frame'[h].previous \in Begun /\ Awaits(frame[h].previous, h)'
      <4>1. PICK p : p = frame[h].previous
        OBVIOUS
      <4>2. frame'[h].previous = p /\ Awaits(p, h)'
        BY <2>2, <4>1
      <4> QED BY <2>1, <4>1, <4>2 DEF Awaits, AtAwait, Item
    <3> QED BY <3>1
  <2>9. frame'[RootFrame].previous = NoFrame
    BY <1>3, <1>4, <1>6 DEF FramesInv, CallStack
  <2> QED BY <1>2, <1>4, <1>7, <2>3, <2>4, <2>5, <2>6, <2>7, <2>8, <2>9 DEF CallStack
<1>14. Promised'
  <2>1. Promised /\ Begun \subseteq FrameIds /\ Ended \subseteq FrameIds
    BY DEF FramesInv, Begun, Ended
  <2>2. child \notin Ended
    BY <1>2 DEF Ended
  <2> QED BY <1>2, <1>3, <1>4, <1>5, <1>6, <1>7, <2>1, <2>2 DEF Promised
<1>15. Tokens'
  <2>1. \A h \in Begun \ {RootFrame} : h \in FrameIds /\ frame[h].previous \in FrameIds /\ frame[h].previous \in Begun
    BY DEF FramesInv, CallStack, Begun
  <2>2. ASSUME NEW h \in Begun \ {RootFrame}, NEW p, p = frame[h].previous
        PROVE  p = frame'[h].previous /\ frame'[h].token = IF frame'[p].token # 0 THEN frame'[p].token ELSE Item(p)'.source
    <3>1. frame[h].token = IF frame[p].token # 0 THEN frame[p].token ELSE Item(p).source
      BY <2>2 DEF FramesInv, Tokens
    <3> QED BY <1>10, <1>11, <2>1, <2>2, <3>1
  <2>3. ASSUME NEW h \in FrameIds, NEW p \in FrameIds, frame'[h].state = "initial", Awaits(p, h)'
        PROVE  frame'[h].token = Item(p)'.source
    <3>1. Awaits(p, h)
      BY <1>12, <2>3
    <3>2. CASE h = child
      BY <1>1, <1>3, <1>6, <1>11, <3>1, <3>2
    <3>3. CASE h # child
      BY <1>6, <1>11, <2>3, <3>1, <3>3 DEF FramesInv, Tokens
    <3> QED BY <3>2, <3>3
  <2>4. frame'[RootFrame].token = 0
    BY <1>3, <1>4, <1>6 DEF FramesInv, Tokens
  <2> QED BY <1>7, <2>1, <2>2, <2>3, <2>4 DEF Tokens
<1>16. CallRest'
  <2>1. \A h \in FrameIds :
          /\ frame'[h].state = "done" <=> frame[h].state = "done"
          /\ frame[h].state = "done" => frame'[h].exception = frame[h].exception
    BY <1>2, <1>6
  <2> QED BY <1>2, <1>7, <1>10, <2>1, RestSame
<1> QED BY <1>8, <1>9, <1>13, <1>14, <1>15, <1>16 DEF FramesInv

\* The frame in control goes on to its next item.
GoesOn(g) ==
  /\ g = LastFrame /\ g \in Begun /\ frame[g].state = "started" /\ frame[g].position \in 1..Len(script[g])
  /\ script' = script /\ Begun' = Begun /\ Ended' = Ended /\ hit' = hit /\ LastFrame' = LastFrame
  /\ frame'[g].position = frame[g].position + 1
  /\ \A h \in FrameIds :
       /\ h # g => frame'[h].position = frame[h].position
       /\ frame'[h].previous = frame[h].previous /\ frame'[h].token = frame[h].token
       /\ frame'[h].state = "absent" <=> frame[h].state = "absent"
       /\ frame'[h].state = "initial" <=> frame[h].state = "initial"

LEMMA GoesOnFacts ==
  ASSUME FramesInv, NEW g, GoesOn(g)
  PROVE  /\ FrameIds' = FrameIds /\ g \in FrameIds /\ Begun \subseteq FrameIds /\ RootFrame \notin Ended
         /\ \A h \in FrameIds : h # g => Item(h)' = Item(h) /\ (AtAwait(h)' <=> AtAwait(h))
         /\ \A h \in FrameIds : \A k : h # g => (Awaits(h, k)' <=> Awaits(h, k))
         /\ \A k : Awaits(g, k)' => k \in FrameIds /\ frame[k].state = "absent" /\ frame'[k].state = "absent"
         /\ \A h \in Begun \ {RootFrame} : \A p : p = frame[h].previous =>
              p \in FrameIds /\ p \in Begun /\ p # g /\ Awaits(p, h)
<1>1. FrameIds' = FrameIds /\ g \in FrameIds /\ Begun \subseteq FrameIds
  BY DEF FrameIds, GoesOn, Begun
<1>2. RootFrame \notin Ended
  BY <1>1 DEF FramesInv, CallStack, GoesOn
<1>3. \A h \in FrameIds : h # g => Item(h)' = Item(h) /\ (AtAwait(h)' <=> AtAwait(h))
  BY DEF GoesOn, Item, AtAwait
<1>4. \A h \in FrameIds : \A k : h # g => (Awaits(h, k)' <=> Awaits(h, k))
  BY <1>3 DEF Awaits
<1>5. ASSUME NEW k, Awaits(g, k)' PROVE k \in FrameIds /\ frame[k].state = "absent" /\ frame'[k].state = "absent"
  <2>1. PICK i : i = frame[g].position + 1
    OBVIOUS
  <2>2. i \in 1..Len(script[g]) /\ script[g][i].op = "await" /\ script[g][i].of = k
    BY <1>5, <2>1 DEF Awaits, AtAwait, Item, GoesOn
  <2>3. i > frame[g].position
    BY <2>1 DEF GoesOn
  <2>4. k \in FrameIds
    BY <1>1, <2>2, ScriptBasics, ControlFacts
  <2>5. frame[k].state = "absent"
    BY <1>1, <2>2, <2>3 DEF FramesInv, CallStack
  <2> QED BY <2>4, <2>5 DEF GoesOn
<1>6. ASSUME NEW h \in Begun \ {RootFrame}, NEW p, p = frame[h].previous
      PROVE  p \in FrameIds /\ p \in Begun /\ p # g /\ Awaits(p, h)
  <2>1. p \in Begun /\ Awaits(p, h)
    BY <1>6 DEF FramesInv, CallStack
  <2>2. ~ Awaits(g, h)
    BY <1>6 DEF FramesInv, CallStack, GoesOn
  <2> QED BY <1>1, <2>1, <2>2
<1> QED BY <1>1, <1>2, <1>3, <1>4, <1>5, <1>6

LEMMA GoesOnStack == ASSUME FramesInv, NEW g, GoesOn(g) PROVE CallStack'
<1>1. /\ FrameIds' = FrameIds /\ g \in FrameIds /\ Begun \subseteq FrameIds /\ RootFrame \notin Ended
      /\ RootFrame \in FrameIds
  BY GoesOnFacts, ControlFacts
<1>2. /\ script' = script /\ Begun' = Begun /\ Ended' = Ended /\ LastFrame' = g /\ g = LastFrame
      /\ frame[g].state = "started"
      /\ frame'[g].position = frame[g].position + 1 /\ frame[g].position \in 1..Len(script[g])
      /\ \A h \in FrameIds :
           /\ h # g => frame'[h].position = frame[h].position
           /\ frame'[h].previous = frame[h].previous
           /\ frame'[h].state = "absent" <=> frame[h].state = "absent"
           /\ frame'[h].state = "initial" <=> frame[h].state = "initial"
  BY DEF GoesOn
<1>3. \A h \in FrameIds : frame'[h].position \in 1..(Len(script[h]) + 1) /\ frame'[h].previous < h
  <2>1. \A h \in FrameIds : frame[h].position \in 1..(Len(script[h]) + 1) /\ frame[h].previous < h
    BY DEF FramesInv, CallStack
  <2>2. frame'[g].position \in 1..(Len(script[g]) + 1)
    <3>1. Len(script[g]) \in Nat
      BY <1>1, ControlFacts
    <3> QED BY <1>2, <3>1
  <2> QED BY <1>2, <2>1, <2>2
<1>4. \A h \in Begun \ {RootFrame} : frame'[h].previous \in Begun /\ Awaits(frame[h].previous, h)'
  <2>1. ASSUME NEW h \in Begun \ {RootFrame} PROVE frame'[h].previous \in Begun /\ Awaits(frame[h].previous, h)'
    <3>1. PICK p : p = frame[h].previous
      OBVIOUS
    <3>2. p \in FrameIds /\ p \in Begun /\ p # g /\ Awaits(p, h)
      BY <3>1, GoesOnFacts
    <3>3. frame'[h].previous = p /\ Awaits(p, h)'
      BY <1>1, <1>2, <3>1, <3>2, GoesOnFacts
    <3> QED BY <3>2, <3>3 DEF Awaits, AtAwait, Item
  <2> QED BY <2>1
<1>5. \A h \in Begun' : ~ Awaits(LastFrame, h)'
  <2>1. ASSUME NEW h \in Begun PROVE ~ Awaits(g, h)'
    <3>1. frame[h].state # "absent"
      BY <2>1 DEF Begun
    <3> QED BY <3>1, GoesOnFacts
  <2> QED BY <1>2, <2>1 DEF Awaits, AtAwait, Item
<1>6. \A h \in Begun' \ {LastFrame'} : AtAwait(h)' /\ Item(h)'.of \in Begun'
  <2>1. \A h \in Begun \ {g} : h \in FrameIds /\ AtAwait(h) /\ Item(h).of \in Begun
    BY <1>1, <1>2 DEF FramesInv, CallStack
  <2> QED BY <1>2, <2>1, GoesOnFacts
<1>7. \A h \in FrameIds : \A i \in 1..Len(script[h]) :
        script[h][i].op = "await" /\ (i > frame'[h].position \/ frame'[h].state \in {"absent", "initial"}) =>
          frame'[script[h][i].of].state = "absent"
  <2>1. ASSUME NEW h \in FrameIds, NEW i \in 1..Len(script[h]), script[h][i].op = "await",
               i > frame'[h].position \/ frame'[h].state \in {"absent", "initial"}
        PROVE  frame'[script[h][i].of].state = "absent"
    <3>1. i > frame[h].position \/ frame[h].state \in {"absent", "initial"}
      BY <1>1, <1>2, <2>1
    <3>2. PICK k : k = script[h][i].of /\ k \in FrameIds
      BY <2>1, ControlFacts, ScriptBasics
    <3>3. frame[k].state = "absent"
      BY <2>1, <3>1, <3>2 DEF FramesInv, CallStack
    <3> QED BY <1>2, <3>2, <3>3
  <2> QED BY <2>1
<1>8. \A h \in FrameIds : frame'[h].state \in {"absent", "initial"} => frame'[h].position = 1
  <2>1. \A h \in FrameIds : frame[h].state \in {"absent", "initial"} => frame[h].position = 1
    BY DEF FramesInv, CallStack
  <2> QED BY <1>1, <1>2, <2>1
<1>9. frame'[RootFrame].previous = NoFrame
  BY <1>1, <1>2 DEF FramesInv, CallStack
<1> QED BY <1>1, <1>2, <1>3, <1>4, <1>5, <1>6, <1>7, <1>8, <1>9 DEF CallStack

LEMMA GoesOnTokens == ASSUME FramesInv, NEW g, GoesOn(g) PROVE Tokens'
<1>1. /\ FrameIds' = FrameIds /\ g \in FrameIds /\ Begun \subseteq FrameIds /\ RootFrame \in FrameIds
      /\ Begun' = Begun
      /\ \A h \in FrameIds :
           /\ frame'[h].previous = frame[h].previous /\ frame'[h].token = frame[h].token
           /\ frame'[h].state = "initial" <=> frame[h].state = "initial"
  BY GoesOnFacts, ControlFacts DEF GoesOn
<1>2. ASSUME NEW h \in Begun \ {RootFrame}, NEW p, p = frame[h].previous
      PROVE  p = frame'[h].previous /\ frame'[h].token = IF frame'[p].token # 0 THEN frame'[p].token ELSE Item(p)'.source
  <2>1. p \in FrameIds /\ p # g
    BY <1>2, GoesOnFacts
  <2>2. Item(p)' = Item(p)
    BY <2>1, GoesOnFacts
  <2>3. frame[h].token = IF frame[p].token # 0 THEN frame[p].token ELSE Item(p).source
    BY <1>2 DEF FramesInv, Tokens
  <2> QED BY <1>1, <1>2, <2>1, <2>2, <2>3
<1>3. ASSUME NEW h \in FrameIds, NEW p \in FrameIds, frame'[h].state = "initial", Awaits(p, h)'
      PROVE  frame'[h].token = Item(p)'.source
  <2>1. frame[h].state = "initial"
    BY <1>1, <1>3
  <2>2. p # g
    BY <1>3, <2>1, GoesOnFacts
  <2>3. Awaits(p, h) /\ Item(p)' = Item(p)
    BY <1>3, <2>2, GoesOnFacts
  <2>4. frame[h].token = Item(p).source
    BY <2>1, <2>3 DEF FramesInv, Tokens
  <2> QED BY <1>1, <2>3, <2>4
<1>4. frame'[RootFrame].token = 0
  BY <1>1 DEF FramesInv, Tokens
<1> QED BY <1>1, <1>2, <1>3, <1>4 DEF Tokens

\* What was to come is what has been given in the step and what comes from the next item on.
LEMMA GoesOnRest ==
  ASSUME FramesInv, NEW g, GoesOn(g),
         \A cancelled, after : CallsAfter(cancelled, after) =>
           \A next : next = Then(GivenFrom(cancelled, g, frame[g].position + 1), after[g]) =>
             Remaining(cancelled, after) = Given(results' \o next.results, next.ends)
  PROVE  CallRest'
<1>1. /\ FrameIds' = FrameIds /\ g \in FrameIds /\ Begun \subseteq FrameIds /\ RootFrame \notin Ended
      /\ Ended' = Ended /\ hit' = hit /\ script' = script /\ LastFrame' = g
      /\ frame'[g].position = frame[g].position + 1
  BY GoesOnFacts DEF GoesOn
<1>2. ASSUME NEW cancelled \in SUBSET FrameIds, Agrees(cancelled)'
      PROVE  \E after : CallsAfter(cancelled, after)' /\ Called(script', cancelled) = Remaining(cancelled, after)'
  <2>1. Agrees(cancelled)
    BY <1>1, <1>2 DEF Agrees
  <2>2. PICK after : CallsAfter(cancelled, after) /\ Called(script, cancelled) = Remaining(cancelled, after)
    BY <1>1, <1>2, <2>1 DEF FramesInv, CallRest
  <2>3. CallsAfter(cancelled, after)'
    <3>1. ASSUME NEW h \in Begun \ {RootFrame}
          PROVE  frame'[h].previous = frame[h].previous /\ frame'[frame[h].previous].position = frame[frame[h].previous].position
      <4>1. frame[h].previous \in FrameIds /\ frame[h].previous # g
        BY GoesOnFacts
      <4> QED BY <1>1, <4>1 DEF GoesOn
    <3>2. Begun' = Begun
      BY DEF GoesOn
    <3> QED BY <1>1, <2>2, <3>1, <3>2, CallsAfterSame
  <2>4. PICK next : next = Then(GivenFrom(cancelled, g, frame[g].position + 1), after[g])
    OBVIOUS
  <2>5. Remaining(cancelled, after) = Given(results' \o next.results, next.ends)
    BY <2>2, <2>4
  <2>6. ToCome(cancelled, after)' = next
    <3>1. \A n : GivenFrom(cancelled, g, n)' = GivenFrom(cancelled, g, n)
      BY <1>1, GivenFromSame
    <3>2. AtAwait(g)' => frame'[Item(g)'.of].state # "done"
      <4>1. ASSUME AtAwait(g)', NEW k, k = Item(g)'.of PROVE Awaits(g, k)'
        BY <4>1 DEF Awaits
      <4> QED BY <4>1, GoesOnFacts
    <3> QED BY <1>1, <2>4, <3>1, <3>2 DEF ToCome
  <2>7. Remaining(cancelled, after)' = Given(results' \o next.results, next.ends)
    BY <2>6 DEF Remaining
  <2> QED BY <1>1, <2>2, <2>3, <2>5, <2>7
<1> QED BY <1>1, <1>2 DEF CallRest

LEMMA PostAndSuspendKeeps == ASSUME FramesInv, NEW g \in FrameIds, PostAndSuspend(g) PROVE FramesInv'
<1>1. /\ script' = script /\ results' = results /\ hit' = hit /\ thrownOut' = thrownOut
      /\ resumed' = NoFrame /\ handle' = [of |-> g, at |-> "service"] /\ resumed = g
      /\ frame' = [frame EXCEPT ![g].position = @ + 1]
      /\ frame[g].position <= Len(script[g]) /\ Item(g).op = "suspend"
  BY DEF PostAndSuspend, AtFrameItem
<1>2. /\ g = LastFrame /\ g \in Begun /\ RootFrame \notin Ended /\ RootFrame \in FrameIds /\ NoFrame \notin FrameIds
      /\ frame[g].state = "started" /\ frame[RootFrame].state = "started"
      /\ frame[g].position \in 1..Len(script[g]) /\ Len(script[g]) \in Nat /\ ~ thrownOut
      /\ script \in Scripts
  BY <1>1, ControlFacts, RunningFrame
<1>3. /\ frame' \in [FrameIds -> Promises]
      /\ \A h \in FrameIds :
           /\ frame'[h].state = frame[h].state
           /\ frame'[h].position = IF h = g THEN frame[h].position + 1 ELSE frame[h].position
           /\ frame'[h].previous = frame[h].previous
           /\ frame'[h].control = frame[h].control /\ frame'[h].token = frame[h].token
           /\ frame'[h].exception = frame[h].exception /\ frame'[h].value = frame[h].value
  <2>1. frame \in [FrameIds -> Promises] /\ frame[g].position + 1 \in Nat
    BY <1>2 DEF FramesInv, FramesTyped
  <2> QED BY <1>1, <1>2, <2>1 DEF Promises
<1>4. FrameIds' = FrameIds /\ Begun' = Begun /\ Ended' = Ended /\ LastFrame' = LastFrame
  BY <1>1, <1>2, <1>3 DEF FrameIds, Begun, Ended, LastFrame
<1>5. GoesOn(g)
  BY <1>1, <1>2, <1>3, <1>4 DEF GoesOn
<1>6. FramesTyped'
  BY <1>1, <1>3, <1>4 DEF FramesInv, FramesTyped
<1>7. InControl'
  BY <1>1, <1>2, <1>3, <1>4 DEF FramesInv, InControl
<1>8. CallStack' /\ Tokens'
  BY <1>5, GoesOnStack, GoesOnTokens
<1>9. Promised'
  BY <1>1, <1>3, <1>4, PromisedSame
<1>10. CallRest'
  <2>1. ASSUME NEW cancelled, NEW after, CallsAfter(cancelled, after), NEW next,
               next = Then(GivenFrom(cancelled, g, frame[g].position + 1), after[g])
        PROVE  Remaining(cancelled, after) = Given(results' \o next.results, next.ends)
    <3>1. GivenFrom(cancelled, g, frame[g].position) = GivenFrom(cancelled, g, frame[g].position + 1)
      BY <1>1, <1>2, GivenPlace DEF Item
    <3>2. ~ AtAwait(g)
      BY <1>1 DEF AtAwait
    <3>3. ToCome(cancelled, after) = next
      BY <1>2, <2>1, <3>1, <3>2 DEF ToCome
    <3> QED BY <1>1, <3>3 DEF Remaining
  <2> QED BY <1>5, <2>1, GoesOnRest
<1> QED BY <1>6, <1>7, <1>8, <1>9, <1>10 DEF FramesInv

\* An awaitable that is done: its result is taken and it is destroyed.
LEMMA ResumeGoesOnKeeps ==
  ASSUME FramesInv, NEW g \in FrameIds, AwaitResume(g),
         frame[Item(g).of].exception = "none" \/ Item(g).catches
  PROVE  FramesInv'
<1>1. PICK child, what : child = Item(g).of /\ what = frame[child].exception
  OBVIOUS
<1>2. /\ script' = script /\ results' = Append(results, <<child, what>>) /\ hit' = hit /\ thrownOut' = thrownOut
      /\ resumed' = resumed /\ handle' = handle /\ resumed = g
      /\ AtFrameItem(g, "await") /\ frame[child].state = "done"
      /\ frame' = [[frame EXCEPT ![child].state = "destroyed",
                                 ![child].exception = "none",
                                 ![child].value = @ /\ what # "none"] EXCEPT ![g].position = @ + 1]
  BY <1>1 DEF AwaitResume, AtFrameItem
<1>3. /\ g = LastFrame /\ g \in Begun /\ RootFrame \notin Ended /\ RootFrame \in FrameIds /\ NoFrame \notin FrameIds
      /\ frame[g].state = "started" /\ frame[g].position \in 1..Len(script[g])
      /\ Len(script[g]) \in Nat /\ ~ thrownOut /\ script \in Scripts
  BY <1>2, ControlFacts, RunningFrame DEF AtFrameItem
<1>4. child \in FrameIds /\ child # g /\ child # RootFrame /\ child \notin Begun /\ AtAwait(g)
  BY <1>1, <1>2, RunningAwait
<1>5. frame \in [FrameIds -> Promises]
  BY DEF FramesInv, FramesTyped
<1>6. /\ frame'[child] = [frame[child] EXCEPT !.state = "destroyed", !.exception = "none", !.value = @ /\ what # "none"]
       /\ frame'[g] = [frame[g] EXCEPT !.position = @ + 1]
       /\ \A h \in FrameIds : h # child /\ h # g => frame'[h] = frame[h]
  BY <1>2, <1>4, <1>5
<1>7. /\ frame'[child].state = "destroyed" /\ frame'[child].exception = "none"
       /\ frame'[child].position = frame[child].position /\ frame'[child].previous = frame[child].previous
       /\ frame'[child].control = frame[child].control /\ frame'[child].token = frame[child].token
       /\ frame'[child] \in Promises
       /\ (frame'[child].value <=> frame[child].value /\ what # "none")
  <2>1. PICK old, new : old = frame[child] /\ new = (old.value /\ what # "none")
    OBVIOUS
  <2>2. new \in BOOLEAN /\ (new <=> old.value /\ what # "none")
    BY <2>1
  <2>3. old \in Promises
    BY <1>4, <1>5, <2>1
  <2>4. frame'[child] = [old EXCEPT !.state = "destroyed", !.exception = "none", !.value = new]
    BY <1>6, <2>1
  <2>5. frame'[child].value = new
    BY <2>3, <2>4 DEF Promises
  <2>6. /\ frame'[child].state = "destroyed" /\ frame'[child].exception = "none"
        /\ frame'[child].position = old.position /\ frame'[child].previous = old.previous
        /\ frame'[child].control = old.control /\ frame'[child].token = old.token
        /\ frame'[child] \in Promises
    BY <2>2, <2>3, <2>4 DEF Promises
  <2> QED BY <2>1, <2>2, <2>5, <2>6
<1>8. /\ frame'[g].position = frame[g].position + 1 /\ frame'[g] \in Promises
       /\ frame'[g].state = frame[g].state /\ frame'[g].previous = frame[g].previous
       /\ frame'[g].control = frame[g].control /\ frame'[g].token = frame[g].token
       /\ frame'[g].exception = frame[g].exception /\ frame'[g].value = frame[g].value
  <2>1. frame[g] \in Promises /\ frame[g].position + 1 \in Nat
    BY <1>3, <1>5
  <2> QED BY <1>6, <2>1 DEF Promises
<1>9. /\ frame' \in [FrameIds -> Promises]
      /\ \A h \in FrameIds :
           /\ frame'[h].state = IF h = child THEN "destroyed" ELSE frame[h].state
           /\ frame'[h].position = IF h = g THEN frame[h].position + 1 ELSE frame[h].position
           /\ frame'[h].previous = frame[h].previous
           /\ frame'[h].control = frame[h].control /\ frame'[h].token = frame[h].token
           /\ frame'[h].exception = IF h = child THEN "none" ELSE frame[h].exception
  <2>1. \A h \in FrameIds : frame'[h] \in Promises
    BY <1>5, <1>6, <1>7, <1>8
  <2>2. frame' \in [FrameIds -> Promises]
    <3>1. frame' = [h \in FrameIds |-> frame'[h]]
      BY ZenonT(60), <1>2, <1>5
    <3> QED BY <2>1, <3>1, Zenon
  <2>3. \A h \in FrameIds : h # child /\ h # g => frame'[h] = frame[h]
    BY <1>6
  <2> QED BY <1>4, <1>7, <1>8, <2>2, <2>3
<1>10. \A h \in FrameIds : (h # child => frame'[h].value = frame[h].value)
  BY <1>6, <1>8
<1>11. FrameIds' = FrameIds /\ Begun' = Begun /\ Ended' = Ended /\ LastFrame' = LastFrame
  <2>1. /\ script' = script /\ resumed' = resumed /\ handle' = handle
        /\ frame[child].state = "done" /\ frame'[child].state = "destroyed"
        /\ \A h \in FrameIds : h # child => frame'[h].state = frame[h].state
    BY <1>2, <1>4, <1>9
  <2> QED BY <1>4, <2>1 DEF FrameIds, Begun, Ended, LastFrame
<1>12. GoesOn(g)
  BY <1>2, <1>3, <1>4, <1>9, <1>11 DEF GoesOn
<1>13. FramesTyped'
  <2>1. what \in CallEnds
    BY <1>1, <1>4 DEF FramesInv, FramesTyped, Promises, CallEnds
  <2>2. results' \in Seq(FrameIds \X CallEnds)
    BY <1>2, <1>4, <2>1, AppendProperties DEF FramesInv, FramesTyped
  <2> QED BY <1>2, <1>9, <1>11, <2>2 DEF FramesInv, FramesTyped
<1>14. InControl'
  BY <1>2, <1>3, <1>4, <1>9, <1>11 DEF FramesInv, InControl, Nowhere
<1>15. CallStack' /\ Tokens'
  BY <1>12, GoesOnStack, GoesOnTokens
<1>16. Promised'
  <2>1. Promised /\ Begun \subseteq FrameIds /\ Ended \subseteq FrameIds /\ child \in Ended
    BY <1>2, <1>4 DEF FramesInv, Begun, Ended
  <2>2. \A h \in FrameIds \ Ended : frame'[h].exception = (IF h \in hit THEN "cancelled" ELSE "none") /\ ~ frame'[h].value
    BY <1>9, <1>10, <2>1 DEF Promised
  <2>3. \A h \in Ended : frame'[h].value /\ frame'[h].exception # "none" => h \in hit
    BY <1>9, <1>10, <2>1 DEF Promised
  <2>4. \A h \in Ended \ {RootFrame} : frame'[h].state = "destroyed" =>
          frame'[h].exception = "none" /\ (frame'[h].value => h \in hit)
    BY <1>1, <1>9, <1>7, <1>10, <2>1 DEF Promised
  <2>5. \A h \in FrameIds : frame'[h].state \in {"absent", "initial"} /\ h # RootFrame => h \notin hit
    BY <1>9, <2>1 DEF Promised
  <2>6. frame'[RootFrame].exception # "none" => RootFrame \in hit
    BY <1>3, <1>4, <1>9, <2>1 DEF Promised
  <2>7. \A h \in Begun : frame'[h].control = "group"
    BY <1>9, <2>1 DEF Promised
  <2> QED BY <1>2, <1>11, <2>2, <2>3, <2>4, <2>5, <2>6, <2>7 DEF Promised
<1>17. CallRest'
  <2>1. ASSUME NEW cancelled, NEW after, CallsAfter(cancelled, after), NEW next,
               next = Then(GivenFrom(cancelled, g, frame[g].position + 1), after[g])
        PROVE  Remaining(cancelled, after) = Given(results' \o next.results, next.ends)
    <3>1. ToCome(cancelled, after) =
            Answer(g, child, what, GivenFrom(cancelled, g, frame[g].position + 1), after[g])
      BY <1>1, <1>2, <1>3, <1>4 DEF ToCome
    <3>2. what = "none" \/ Item(g).catches
      BY <1>1
    <3>3. ToCome(cancelled, after) = Given(<<<<child, what>>>> \o next.results, next.ends)
      BY <2>1, <3>1, <3>2 DEF Answer
    <3>4. Remaining(cancelled, after) = Given(results \o (<<<<child, what>>>> \o next.results), next.ends)
      BY <3>3 DEF Remaining, Given
    <3>5. PICK S, last, x : S = FrameIds \X CallEnds /\ last = next.results /\ x = <<child, what>>
      OBVIOUS
    <3>6. results \in Seq(S) /\ x \in S
      BY <1>1, <1>4, <3>5 DEF FramesInv, FramesTyped, Promises, CallEnds
    <3>7. last \in Seq(S)
      <4>1. frame[g].position + 1 \in 1..(Len(script[g]) + 1)
        BY <1>3
      <4>2. GivenFrom(cancelled, g, frame[g].position + 1) \in CallResults(script)
        BY <1>3, <4>1, GivenPlace
      <4>3. after[g] \in [CallEnds -> CallResults(script)]
        BY <2>1 DEF CallsAfter
      <4>4. CallResults(script) = [results : Seq(S), ends : CallEnds]
        BY <3>5 DEF CallResults, FrameIds
      <4>5. next \in [results : Seq(S), ends : CallEnds]
        BY <2>1, <4>2, <4>3, <4>4, ThenTyped
      <4> QED BY <3>5, <4>5
    <3>8. Append(results, x) \o last = results \o (<<x>> \o last)
      BY <3>6, <3>7, ResultsInTurn
    <3> QED BY <1>2, <3>4, <3>5, <3>8
  <2> QED BY <1>12, <2>1, GoesOnRest
<1> QED BY <1>13, <1>14, <1>15, <1>16, <1>17 DEF FramesInv

LEMMA AnswerTyped ==
  ASSUME script \in Scripts, NEW p \in FrameIds, NEW g \in FrameIds, NEW ends \in CallEnds,
         NEW o \in CallResults(script), NEW after \in [CallEnds -> CallResults(script)]
  PROVE  Answer(p, g, ends, o, after) \in CallResults(script)
<1>1. PICK S : S = (DOMAIN script) \X CallEnds
  OBVIOUS
<1>2. CallResults(script) = [results : Seq(S), ends : CallEnds]
  BY <1>1 DEF CallResults
<1>3. PICK next : next = IF ends = "none" \/ Item(p).catches THEN Then(o, after) ELSE after[ends]
  OBVIOUS
<1>4. next \in [results : Seq(S), ends : CallEnds]
  BY <1>2, <1>3, ThenTyped
<1>5. Answer(p, g, ends, o, after) = Given(<<<<g, ends>>>> \o next.results, next.ends)
  BY <1>3 DEF Answer
<1>6. <<<<g, ends>>>> \o next.results \in Seq(S)
  <2>1. <<g, ends>> \in S
    BY <1>1 DEF FrameIds
  <2>2. PICK x, rest : x = <<g, ends>> /\ rest = next.results
    OBVIOUS
  <2>3. <<x>> \in Seq(S) /\ rest \in Seq(S)
    BY <1>4, <2>1, <2>2
  <2>4. <<x>> \o rest \in Seq(S)
    BY <2>3, ConcatProperties
  <2> QED BY <2>2, <2>4
<1>7. Given(<<<<g, ends>>>> \o next.results, next.ends) \in [results : Seq(S), ends : CallEnds]
  <2>1. PICK list : list = <<<<g, ends>>>> \o next.results
    OBVIOUS
  <2>2. Given(list, next.ends) \in [results : Seq(S), ends : CallEnds]
    BY <1>4, <1>6, <2>1 DEF Given
  <2> QED BY <2>1, <2>2
<1> QED BY <1>2, <1>5, <1>7

LEMMA AwaitSuspendKeeps == ASSUME FramesInv, NEW g \in FrameIds, AwaitSuspend(g) PROVE FramesInv'
<1>1. PICK child, i : child = Item(g).of /\ i = frame[g].position
  OBVIOUS
<1>2. /\ script' = script /\ results' = results /\ hit' = hit /\ thrownOut' = thrownOut
      /\ resumed' = child /\ handle' = handle /\ resumed = g /\ frame[child].state = "initial"
      /\ AtFrameItem(g, "await") /\ frame' = [frame EXCEPT ![child] = PushedFrame(@, g)]
  BY <1>1 DEF AwaitSuspend, AtFrameItem
<1>3. /\ child \in FrameIds /\ child > g /\ child # g /\ child # RootFrame /\ child \notin Begun
      /\ Awaits(g, child) /\ AtAwait(g) /\ Item(g) = script[g][i] /\ Item(g).op = "await"
      /\ Item(g).source \in Sources
  BY <1>1, <1>2, RunningAwait
<1>4. /\ g = LastFrame /\ g \in Begun /\ RootFrame \notin Ended /\ RootFrame \in FrameIds /\ NoFrame \notin FrameIds
      /\ FrameIds \subseteq Nat /\ frame[g].state = "started" /\ script \in Scripts
      /\ handle = Nowhere /\ ~ thrownOut /\ i \in 1..Len(script[g]) /\ Len(script[g]) \in Nat
  BY <1>1, <1>2, ControlFacts, RunningFrame DEF AtFrameItem
<1>5. /\ frame[child].position = 1 /\ frame[g].control = "group" /\ frame[child].token = Item(g).source
  <2>1. frame[child].position = 1
    BY <1>2, <1>3 DEF FramesInv, CallStack
  <2>2. frame[g].control = "group"
    BY <1>4 DEF FramesInv, Promised
  <2>3. frame[child].token = Item(g).source
    BY <1>2, <1>3 DEF FramesInv, Tokens
  <2> QED BY <2>1, <2>2, <2>3
<1>6. /\ frame' \in [FrameIds -> Promises]
      /\ \A h \in FrameIds :
           /\ frame'[h].state = IF h = child THEN "started" ELSE frame[h].state
           /\ frame'[h].position = frame[h].position
           /\ frame'[h].previous = IF h = child THEN g ELSE frame[h].previous
           /\ frame'[h].control = IF h = child THEN "group" ELSE frame[h].control
           /\ h # child => frame'[h].token = frame[h].token
           /\ frame'[h].exception = frame[h].exception /\ frame'[h].value = frame[h].value
      /\ frame'[child].token = IF frame[g].token # 0 THEN frame[g].token ELSE Item(g).source
  <2>1. frame \in [FrameIds -> Promises]
    BY DEF FramesInv, FramesTyped
  <2>2. PICK token : token = IF frame[g].token # 0 THEN frame[g].token ELSE Item(g).source
    OBVIOUS
  <2>3. PushedFrame(frame[child], g) =
          [frame[child] EXCEPT !.previous = g, !.control = "group", !.token = token, !.state = "started"]
    BY <1>5, <2>2 DEF PushedFrame, WithToken
  <2>4. token \in Sources \cup {0} /\ g \in Nat
    BY <1>3, <1>4, <2>1, <2>2 DEF Promises
  <2>5. frame' = [frame EXCEPT ![child] = [frame[child] EXCEPT !.previous = g, !.control = "group", !.token = token, !.state = "started"]]
    BY <1>2, <2>3
  <2>6. PICK new : new = [frame[child] EXCEPT !.previous = g, !.control = "group", !.token = token, !.state = "started"]
    OBVIOUS
  <2>7. /\ new \in Promises /\ new.state = "started" /\ new.position = frame[child].position /\ new.previous = g
        /\ new.control = "group" /\ new.token = token
        /\ new.exception = frame[child].exception /\ new.value = frame[child].value
    <3>1. frame[child] \in Promises
      BY <1>3, <2>1
    <3> QED BY <2>4, <2>6, <3>1 DEF Promises
  <2>8. frame' = [frame EXCEPT ![child] = new]
    BY <2>5, <2>6
  <2>9. frame'[child] = new /\ \A h \in FrameIds : h # child => frame'[h] = frame[h]
    BY <1>3, <2>1, <2>8
  <2>10. frame' \in [FrameIds -> Promises]
    BY <2>1, <2>7, <2>8
  <2> QED BY <1>3, <2>2, <2>7, <2>9, <2>10
<1>7. FrameIds' = FrameIds /\ Begun' = Begun \cup {child} /\ Ended' = Ended /\ LastFrame' = child /\ Begun \subseteq FrameIds
  BY <1>2, <1>3, <1>4, <1>6 DEF FrameIds, Begun, Ended, LastFrame
<1>8. FramesTyped'
  BY <1>2, <1>3, <1>6, <1>7 DEF FramesInv, FramesTyped
<1>9. InControl'
  BY <1>2, <1>3, <1>4, <1>6, <1>7 DEF FramesInv, InControl, Nowhere
<1>10. \A h \in FrameIds : Item(h)' = Item(h) /\ (AtAwait(h)' <=> AtAwait(h))
  BY <1>2, <1>6 DEF Item, AtAwait
<1>11. \A h \in FrameIds : \A k : Awaits(h, k)' <=> Awaits(h, k)
  BY <1>10 DEF Awaits
<1>12. \A k : Awaits(child, k) => k # child /\ frame[k].state = "absent" /\ frame'[k].state = "absent"
  <2>1. ASSUME NEW k, Awaits(child, k) PROVE k # child /\ frame[k].state = "absent" /\ frame'[k].state = "absent"
    <3>1. 1 \in 1..Len(script[child]) /\ script[child][1].op = "await" /\ script[child][1].of = k
      BY <1>5, <2>1 DEF Awaits, AtAwait, Item
    <3>2. k \in FrameIds /\ k > child
      BY <1>3, <1>4, <3>1, ScriptBasics
    <3>3. frame[k].state = "absent"
      BY <1>2, <1>3, <3>1 DEF FramesInv, CallStack
    <3>4. k # child
      BY <1>3, <1>4, <3>2
    <3> QED BY <1>6, <3>2, <3>3, <3>4
  <2> QED BY <2>1
<1>13. \A h \in Begun \ {RootFrame} : h \in FrameIds /\ h # child /\ frame[h].previous \in Begun /\ frame[h].previous \in FrameIds
         /\ frame[h].previous # child
  BY <1>3, <1>7 DEF FramesInv, CallStack
<1>14. CallStack'
  <2>1. ASSUME NEW h \in Begun \ {RootFrame} PROVE frame'[h].previous \in Begun /\ Awaits(frame[h].previous, h)'
    <3>1. PICK p : p = frame[h].previous
      OBVIOUS
    <3>2. p \in FrameIds /\ Awaits(p, h) /\ p \in Begun
      BY <1>13, <3>1 DEF FramesInv, CallStack
    <3>3. frame'[h].previous = p /\ Awaits(p, h)'
      BY <1>6, <1>11, <1>13, <3>1, <3>2
    <3> QED BY <3>1, <3>2, <3>3 DEF Awaits, AtAwait, Item
  <2>2. \A h \in Begun' \ {RootFrame} : frame'[h].previous \in Begun' /\ Awaits(frame[h].previous, h)'
    <3>1. ASSUME NEW h, h = child PROVE frame'[h].previous \in Begun' /\ Awaits(frame[h].previous, h)'
      <4>1. frame'[h].previous = g /\ Awaits(g, h)'
        BY <1>3, <1>6, <1>11, <3>1
      <4> QED BY <1>4, <1>7, <4>1 DEF Awaits, AtAwait, Item
    <3> QED BY <1>7, <2>1, <3>1
  <2>3. \A h \in Begun' : ~ Awaits(LastFrame, h)'
    <3>1. \A h \in Begun : frame[h].state # "absent"
      BY DEF Begun
    <3>2. \A h \in Begun' : ~ Awaits(child, h)
      BY <1>7, <1>12, <3>1
    <3>3. \A h \in Begun' : ~ Awaits(child, h)'
      BY <1>3, <1>11, <3>2
    <3>4. LastFrame' = child
      BY <1>7
    <3> QED BY <3>3, <3>4 DEF Awaits, AtAwait, Item
  <2>4. \A h \in Begun' \ {LastFrame'} : AtAwait(h)' /\ Item(h)'.of \in Begun'
    <3>1. \A h \in Begun \ {g} : h \in FrameIds /\ AtAwait(h) /\ Item(h).of \in Begun
      BY <1>4, <1>7 DEF FramesInv, CallStack
    <3>2. \A h \in Begun : h \in FrameIds /\ AtAwait(h) /\ Item(h).of \in Begun \cup {child}
      BY <1>1, <1>3, <1>7, <3>1
    <3> QED BY <1>7, <1>10, <3>2
  <2>5. \A h \in FrameIds : frame'[h].position \in 1..(Len(script[h]) + 1) /\ frame'[h].previous < h
    <3>1. \A h \in FrameIds : frame[h].position \in 1..(Len(script[h]) + 1) /\ frame[h].previous < h
      BY DEF FramesInv, CallStack
    <3>2. g < child
      BY <1>3, <1>4
    <3> QED BY <1>6, <3>1, <3>2
  <2>6. \A h \in FrameIds : \A n \in 1..Len(script[h]) :
          script[h][n].op = "await" /\ (n > frame'[h].position \/ frame'[h].state \in {"absent", "initial"}) =>
            frame'[script[h][n].of].state = "absent"
    <3>1. ASSUME NEW h \in FrameIds, NEW n \in 1..Len(script[h]), script[h][n].op = "await",
                 n > frame'[h].position \/ frame'[h].state \in {"absent", "initial"}
          PROVE  frame'[script[h][n].of].state = "absent"
      <4>1. n > frame[h].position \/ frame[h].state \in {"absent", "initial"}
        BY <1>6, <3>1
      <4>2. PICK k : k = script[h][n].of /\ k \in FrameIds
        BY <1>4, <3>1, ScriptBasics
      <4>3. frame[k].state = "absent"
        BY <3>1, <4>1, <4>2 DEF FramesInv, CallStack
      <4> QED BY <1>2, <1>6, <4>2, <4>3
    <3> QED BY <3>1
  <2>7. \A h \in FrameIds : frame'[h].state \in {"absent", "initial"} => frame'[h].position = 1
    BY <1>6 DEF FramesInv, CallStack
  <2>8. frame'[RootFrame].previous = NoFrame
    BY <1>3, <1>4, <1>6 DEF FramesInv, CallStack
  <2> QED BY SMTT(25), <1>2, <1>4, <1>7, <2>2, <2>3, <2>4, <2>5, <2>6, <2>7, <2>8 DEF CallStack
<1>15. Promised'
  <2>1. Promised /\ Ended \subseteq FrameIds
    BY DEF FramesInv, Ended
  <2> QED BY <1>2, <1>3, <1>4, <1>6, <1>7, <2>1 DEF Promised
<1>16. Tokens'
  <2>1. ASSUME NEW h \in Begun \ {RootFrame}, NEW p, p = frame[h].previous
        PROVE  p = frame'[h].previous /\ frame'[h].token = IF frame'[p].token # 0 THEN frame'[p].token ELSE Item(p)'.source
    <3>1. frame[h].token = IF frame[p].token # 0 THEN frame[p].token ELSE Item(p).source
      BY <2>1 DEF FramesInv, Tokens
    <3> QED BY <1>6, <1>10, <1>13, <2>1, <3>1
  <2>2. ASSUME NEW p, p = frame'[child].previous
        PROVE  frame'[child].token = IF frame'[p].token # 0 THEN frame'[p].token ELSE Item(p)'.source
    BY <1>3, <1>6, <1>10, <2>2
  <2>3. ASSUME NEW h \in FrameIds, NEW p \in FrameIds, frame'[h].state = "initial", Awaits(p, h)'
        PROVE  frame'[h].token = Item(p)'.source
    <3>1. Awaits(p, h) /\ frame[h].state = "initial" /\ h # child
      BY <1>6, <1>11, <2>3
    <3>2. frame[h].token = Item(p).source
      BY <2>3, <3>1 DEF FramesInv, Tokens
    <3> QED BY <1>6, <1>10, <2>3, <3>1, <3>2
  <2>4. frame'[RootFrame].token = 0
    BY <1>3, <1>4, <1>6 DEF FramesInv, Tokens
  <2>5. \A h \in Begun' \ {RootFrame} : h = child \/ h \in Begun \ {RootFrame}
    BY <1>7
  <2> QED BY <1>7, <2>1, <2>2, <2>3, <2>4, <2>5 DEF Tokens
<1>17. CallRest'
  <2> SUFFICES ASSUME NEW cancelled \in SUBSET FrameIds, Agrees(cancelled)'
               PROVE  \E after : CallsAfter(cancelled, after)' /\ Called(script', cancelled) = Remaining(cancelled, after)'
    BY <1>4, <1>7 DEF CallRest
  <2>1. Agrees(cancelled)
    BY <1>2, <1>7 DEF Agrees
  <2>2. PICK after : CallsAfter(cancelled, after) /\ Called(script, cancelled) = Remaining(cancelled, after)
    BY <1>4, <2>1 DEF FramesInv, CallRest
  <2>3. PICK rest : rest = GivenFrom(cancelled, g, i + 1)
    OBVIOUS
  <2>4. PICK deeper : deeper = [e \in CallEnds |-> Answer(g, child, EndOf(child, e, cancelled), rest, after[g])]
    OBVIOUS
  <2>5. PICK later : later = [after EXCEPT ![child] = deeper]
    OBVIOUS
  <2>6. after \in [FrameIds -> [CallEnds -> CallResults(script)]] /\ after[g] \in [CallEnds -> CallResults(script)]
    BY <1>4, <1>7, <2>2 DEF CallsAfter
  <2>7. deeper \in [CallEnds -> CallResults(script)]
    <3>1. i + 1 \in 1..(Len(script[g]) + 1)
      BY <1>4
    <3>2. rest \in CallResults(script)
      BY <1>4, <2>3, <3>1, GivenPlace
    <3>3. ASSUME NEW e \in CallEnds PROVE Answer(g, child, EndOf(child, e, cancelled), rest, after[g]) \in CallResults(script)
      <4>1. EndOf(child, e, cancelled) \in CallEnds
        BY DEF EndOf, CallEnds
      <4> QED BY <1>3, <1>4, <2>6, <3>2, <4>1, AnswerTyped
    <3> QED BY <2>4, <3>3
  <2>8. /\ later \in [FrameIds -> [CallEnds -> CallResults(script)]] /\ later[child] = deeper
        /\ \A h \in FrameIds : h # child => later[h] = after[h]
    BY <1>3, <2>5, <2>6, <2>7
  <2>9. \A n, h : GivenFrom(cancelled, h, n)' = GivenFrom(cancelled, h, n)
    BY <1>2, GivenFromSame
  <2>10. CallsAfter(cancelled, later)'
    <3>1. ASSUME NEW h \in Begun \ {RootFrame}, NEW e \in CallEnds, NEW p, p = frame[h].previous
          PROVE  /\ p = frame'[h].previous
                 /\ later[h][e] =
                      Answer(p, h, EndOf(h, e, cancelled), GivenFrom(cancelled, p, frame[p].position + 1), later[p])'
      <4>1. after[h][e] = Answer(p, h, EndOf(h, e, cancelled), GivenFrom(cancelled, p, frame[p].position + 1), after[p])
        BY <2>2, <3>1 DEF CallsAfter
      <4>2. /\ p = frame'[h].previous /\ frame'[p].position = frame[p].position /\ Item(p)' = Item(p)
            /\ later[h] = after[h] /\ later[p] = after[p]
        BY <1>6, <1>10, <1>13, <2>8, <3>1
      <4> QED BY <2>9, <4>1, <4>2 DEF Answer
    <3>2. ASSUME NEW e \in CallEnds, NEW p, p = frame'[child].previous
          PROVE  later[child][e] =
                   Answer(p, child, EndOf(child, e, cancelled), GivenFrom(cancelled, p, frame[p].position + 1), later[p])'
      <4>1. p = g /\ frame'[p].position = i /\ Item(p)' = Item(p) /\ later[p] = after[p]
        BY ZenonT(60), <1>1, <1>3, <1>6, <1>10, <2>8, <3>2
      <4>2. later[child][e] = Answer(g, child, EndOf(child, e, cancelled), rest, after[g])
        BY <2>4, <2>8
      <4> QED BY <2>3, <2>9, <4>1, <4>2 DEF Answer
    <3>3. \A e \in CallEnds : later[RootFrame][e] = Given(<<>>, e)
      BY <1>3, <1>4, <2>2, <2>8 DEF CallsAfter
    <3>4. \A h \in Begun' \ {RootFrame} : h = child \/ h \in Begun \ {RootFrame}
      BY <1>7
    <3>5. later \in [FrameIds' -> [CallEnds -> CallResults(script')]]
      BY <1>2, <1>7, <2>8
    <3> QED BY <3>1, <3>2, <3>3, <3>4, <3>5 DEF CallsAfter
  <2>11. ToCome(cancelled, after) = Then(GivenFrom(cancelled, g, i), after[g])
    BY <1>1, <1>2, <1>4 DEF ToCome
  <2>12. ToCome(cancelled, later)' = Then(GivenFrom(cancelled, child, 1), deeper)
    <3>1. AtAwait(child)' => frame'[Item(child)'.of].state # "done"
      <4>1. AtAwait(child) => Awaits(child, Item(child).of)
        BY DEF Awaits
      <4> QED BY <1>3, <1>10, <1>12, <4>1
    <3>2. frame'[child].position = 1 /\ LastFrame' = child
      BY <1>3, <1>5, <1>6, <1>7
    <3> QED BY <2>8, <2>9, <3>1, <3>2 DEF ToCome
  <2>13. Then(GivenFrom(cancelled, g, i), after[g]) = Then(GivenFrom(cancelled, child, 1), deeper)
    <3>1. \A e \in CallEnds : deeper[e] = Answer(g, child, EndOf(child, e, cancelled), GivenFrom(cancelled, g, i + 1), after[g])
      BY <2>3, <2>4
    <3>2. script[g][i].op = "await" /\ child = script[g][i].of /\ frame[g].position = i
      BY <1>1, <1>3
    <3>3. PICK given : given = after[g]
      OBVIOUS
    <3>4. /\ given \in [CallEnds -> CallResults(script)]
          /\ \A e \in CallEnds : deeper[e] = Answer(g, child, EndOf(child, e, cancelled), GivenFrom(cancelled, g, i + 1), given)
      BY <2>6, <3>1, <3>3
    <3>5. Then(GivenFrom(cancelled, g, i), given) = Then(GivenFrom(cancelled, child, 1), deeper)
      BY <1>4, <3>2, <3>4, AwaitInTurn
    <3> QED BY <3>3, <3>5
  <2>14. Remaining(cancelled, later)' = Remaining(cancelled, after)
    BY <1>2, <2>11, <2>12, <2>13 DEF Remaining
  <2> QED BY <1>2, <2>2, <2>10, <2>14
<1> QED BY <1>8, <1>9, <1>14, <1>15, <1>16, <1>17 DEF FramesInv

\* The body of the frame in control ends; the awaitable it waited for may be destroyed.
Leaves(g, ends) ==
  /\ g = LastFrame /\ resumed = g /\ script' = script /\ hit' = hit /\ handle' = handle
  /\ frame' \in [FrameIds -> Promises] /\ results' \in Seq(FrameIds \X CallEnds)
  /\ resumed' = frame[g].previous
  /\ thrownOut' \in BOOLEAN /\ (thrownOut' <=> frame[g].previous = NoFrame /\ ends # "none")
  /\ frame'[g].state = "done"
  /\ frame'[g].exception = IF frame[g].previous # NoFrame /\ ends # "none" THEN ends ELSE frame[g].exception
  /\ frame'[g].value => ends = "none"
  /\ \A h \in FrameIds :
       /\ frame'[h].position = frame[h].position /\ frame'[h].previous = frame[h].previous
       /\ frame'[h].control = frame[h].control /\ frame'[h].token = frame[h].token
  /\ \A h \in FrameIds : h # g =>
       \/ /\ frame'[h].state = frame[h].state
          /\ frame'[h].exception = frame[h].exception /\ frame'[h].value = frame[h].value
       \/ /\ frame[h].state = "done" /\ frame'[h].state = "destroyed"
          /\ frame'[h].exception = "none" /\ (frame'[h].value => h \in hit)

LEMMA LeavesFacts ==
  ASSUME FramesInv, NEW g \in FrameIds, NEW ends \in CallEnds, Leaves(g, ends)
  PROVE  /\ FrameIds' = FrameIds /\ Begun' = Begun \ {g} /\ Ended' = Ended \cup {g}
         /\ Begun \subseteq FrameIds /\ Ended \subseteq FrameIds
         /\ g \in Begun /\ g \notin Ended /\ RootFrame \notin Ended /\ frame[g].state = "started" /\ handle = Nowhere
         /\ frame[RootFrame].state = "started"
         /\ frame[g].previous = NoFrame <=> g = RootFrame
         /\ \A h \in FrameIds :
              /\ Item(h)' = Item(h) /\ (AtAwait(h)' <=> AtAwait(h))
              /\ \A k : Awaits(h, k)' <=> Awaits(h, k)
              /\ frame'[h].state = "absent" <=> frame[h].state = "absent"
              /\ frame'[h].state = "initial" <=> frame[h].state = "initial"
         /\ \A h \in Begun \ {RootFrame} : \A p : p = frame[h].previous =>
              p \in FrameIds /\ p \in Begun /\ p # g /\ Awaits(p, h) /\ p = frame'[h].previous
<1>1. /\ g \in Begun /\ RootFrame \notin Ended /\ frame[g].state = "started" /\ handle = Nowhere
      /\ g # NoFrame /\ frame[RootFrame].state = "started"
  BY ControlFacts, RunningFrame DEF Leaves
<1>2. \A h \in FrameIds :
        /\ frame'[h].state = "absent" <=> frame[h].state = "absent"
        /\ frame'[h].state = "initial" <=> frame[h].state = "initial"
        /\ h # g => (frame'[h].state = "started" <=> frame[h].state = "started")
        /\ h # g => (frame'[h].state \in {"done", "destroyed"} <=> frame[h].state \in {"done", "destroyed"})
  BY <1>1 DEF Leaves
<1>3. /\ FrameIds' = FrameIds /\ Begun' = Begun \ {g} /\ Ended' = Ended \cup {g}
      /\ Begun \subseteq FrameIds /\ Ended \subseteq FrameIds /\ g \notin Ended
  <2>1. script' = script /\ frame'[g].state = "done"
    BY DEF Leaves
  <2>2. FrameIds' = FrameIds
    BY <2>1 DEF FrameIds
  <2>3. Begun' = Begun \ {g}
    BY <1>1, <1>2, <2>1, <2>2 DEF Begun
  <2>4. Ended' = Ended \cup {g}
    BY <1>2, <2>1, <2>2 DEF Ended
  <2> QED BY <1>1, <2>2, <2>3, <2>4 DEF Begun, Ended
<1>4. \A h \in FrameIds : Item(h)' = Item(h) /\ (AtAwait(h)' <=> AtAwait(h))
  BY DEF Leaves, Item, AtAwait
<1>5. \A h \in FrameIds : \A k : Awaits(h, k)' <=> Awaits(h, k)
  BY <1>4 DEF Awaits
<1>6. ASSUME NEW h \in Begun \ {RootFrame}, NEW p, p = frame[h].previous
      PROVE  p \in FrameIds /\ p \in Begun /\ p # g /\ Awaits(p, h) /\ p = frame'[h].previous
  <2>1. p \in Begun /\ Awaits(p, h)
    BY <1>6 DEF FramesInv, CallStack
  <2>2. ~ Awaits(g, h)
    BY <1>6 DEF FramesInv, CallStack, Leaves
  <2>3. frame'[h].previous = frame[h].previous
    BY <1>3 DEF Leaves
  <2> QED BY <1>3, <1>6, <2>1, <2>2, <2>3
<1>7. frame[g].previous = NoFrame <=> g = RootFrame
  <2>1. frame[RootFrame].previous = NoFrame
    BY DEF FramesInv, CallStack
  <2>2. g # RootFrame => frame[g].previous \in FrameIds
    BY <1>1, <1>6
  <2> QED BY <2>1, <2>2, ControlFacts
<1> QED BY <1>1, <1>2, <1>3, <1>4, <1>5, <1>6, <1>7

\* A frame that was awaited gives control to its caller.
LEMMA LeavesInControl == ASSUME FramesInv, NEW g \in FrameIds, NEW ends \in CallEnds, Leaves(g, ends) PROVE InControl'
<1>1. /\ Ended' = Ended \cup {g} /\ RootFrame \notin Ended /\ g \in Begun /\ handle = Nowhere /\ Begun' = Begun \ {g}
      /\ frame[RootFrame].state = "started" /\ (frame[g].previous = NoFrame <=> g = RootFrame)
      /\ resumed' = frame[g].previous /\ handle' = handle
      /\ (thrownOut' <=> frame[g].previous = NoFrame /\ ends # "none")
      /\ RootFrame \in FrameIds /\ NoFrame \notin FrameIds
      /\ frame'[RootFrame].state \notin {"absent", "initial"}
  <2>1. RootFrame \in FrameIds /\ NoFrame \notin FrameIds
    BY ControlFacts
  <2> QED BY <2>1, LeavesFacts DEF Leaves
<1>2. CASE g = RootFrame
  BY <1>1, <1>2 DEF InControl
<1>3. CASE g # RootFrame
  <2>1. PICK p : p = frame[g].previous
    OBVIOUS
  <2>2. p \in FrameIds /\ p \in Begun /\ p # g
    BY <1>1, <1>3, <2>1, LeavesFacts
  <2>3. frame'[p].state = "started"
    <3>1. frame[p].state = "started"
      BY <1>1, <2>2 DEF Begun
    <3> QED BY <2>2, <3>1 DEF Leaves
  <2>4. LastFrame' = p /\ RootFrame \notin Ended' /\ resumed' = p /\ p # NoFrame /\ ~ thrownOut' /\ p \in Begun'
    BY <1>1, <1>3, <2>1, <2>2 DEF LastFrame
  <2> QED BY <1>1, <2>3, <2>4 DEF InControl, Nowhere
<1> QED BY <1>2, <1>3

\* No frame but the root has begun when control is with the root.
LEMMA RootLast == ASSUME FramesInv, LastFrame = RootFrame PROVE Begun \subseteq {RootFrame}
<1> DEFINE T == Begun \ {RootFrame}
<1>1. Len(script) \in Nat /\ FrameIds = 1..Len(script) /\ Begun \subseteq FrameIds /\ RootFrame \in FrameIds
  BY ControlFacts, ScriptFacts DEF FrameIds, Begun
<1>2. SUFFICES ASSUME T # {} PROVE FALSE
  OBVIOUS
<1>3. T \in SUBSET (0..Len(script))
  BY <1>1
<1>4. PICK m \in T : \A k \in T : k <= m
  <2> HIDE DEF T
  <2> QED BY <1>1, <1>2, <1>3, GreatestOf
<1>5. AtAwait(m) /\ Item(m).of \in Begun
  BY <1>4 DEF FramesInv, CallStack
<1>6. PICK k : k = Item(m).of
  OBVIOUS
<1>7. k > m /\ k # RootFrame /\ k \in FrameIds /\ m \in FrameIds
  BY <1>1, <1>4, <1>5, <1>6, ControlFacts
<1>8. k \in T
  BY <1>5, <1>6, <1>7
<1>9. k <= m /\ k \in Nat /\ m \in Nat
  BY <1>1, <1>4, <1>7, <1>8
<1> QED BY <1>7, <1>9

LEMMA LeavesStack == ASSUME FramesInv, NEW g \in FrameIds, NEW ends \in CallEnds, Leaves(g, ends) PROVE CallStack'
<1>1. /\ FrameIds' = FrameIds /\ Begun' = Begun \ {g} /\ Ended' = Ended \cup {g} /\ script' = script
      /\ Begun \subseteq FrameIds /\ Ended \subseteq FrameIds /\ g \in Begun /\ RootFrame \notin Ended
      /\ resumed' = frame[g].previous /\ handle' = handle /\ handle = Nowhere /\ g = LastFrame
      /\ frame[g].previous = NoFrame <=> g = RootFrame
      /\ RootFrame \in FrameIds /\ script \in Scripts
      /\ \A h \in FrameIds :
           /\ frame'[h].position = frame[h].position /\ frame'[h].previous = frame[h].previous
           /\ frame'[h].state = "absent" <=> frame[h].state = "absent"
           /\ frame'[h].state = "initial" <=> frame[h].state = "initial"
  BY LeavesFacts, ControlFacts DEF Leaves
<1>2. RootFrame \in Ended' => Begun' = {}
  <2>1. RootFrame \in Ended' => g = RootFrame
    BY <1>1
  <2> QED BY <1>1, <2>1, RootLast
<1>3. \A h \in Begun' \ {RootFrame} : frame'[h].previous \in Begun' /\ Awaits(frame[h].previous, h)'
  <2>1. ASSUME NEW h \in Begun \ {RootFrame} PROVE frame'[h].previous \in Begun' /\ Awaits(frame[h].previous, h)'
    <3>1. PICK p : p = frame[h].previous
      OBVIOUS
    <3>2. p \in FrameIds /\ p \in Begun /\ p # g /\ Awaits(p, h) /\ p = frame'[h].previous
      BY <3>1, LeavesFacts
    <3>3. Awaits(p, h)'
      BY <3>2, LeavesFacts
    <3> QED BY <1>1, <3>2, <3>3 DEF Awaits, AtAwait, Item
  <2> QED BY <1>1, <2>1
<1>4. PICK p : p = frame[g].previous
  OBVIOUS
<1>5. ASSUME g # RootFrame
      PROVE  /\ p \in FrameIds /\ p \in Begun /\ p # g /\ Awaits(p, g) /\ LastFrame' = p
             /\ \A h \in FrameIds : Awaits(h, g) => h = p
             /\ \A h : Awaits(p, h) => h = g
  <2>1. p \in FrameIds /\ p \in Begun /\ p # g /\ Awaits(p, g)
    BY <1>1, <1>4, <1>5, LeavesFacts
  <2>2. LastFrame' = p
    BY <1>1, <1>4, <1>5 DEF LastFrame
  <2>3. ASSUME NEW h \in FrameIds, Awaits(h, g) PROVE h = p
    <3>1. PICK i, j : i = frame[h].position /\ j = frame[p].position
      OBVIOUS
    <3>2. /\ i \in 1..Len(script[h]) /\ script[h][i].op = "await" /\ script[h][i].of = g
          /\ j \in 1..Len(script[p]) /\ script[p][j].op = "await" /\ script[p][j].of = g
      BY <2>1, <2>3, <3>1 DEF Awaits, AtAwait, Item
    <3> QED BY SMTT(25), <1>1, <2>1, <3>2, AwaitedOnce DEF FrameIds
  <2>4. \A h : Awaits(p, h) => h = g
    BY <2>1 DEF Awaits
  <2> QED BY <2>1, <2>2, <2>3, <2>4
<1>6. \A h \in Begun' : ~ Awaits(LastFrame, h)'
  <2>1. ASSUME NEW h \in Begun' PROVE ~ Awaits(p, h)' /\ LastFrame' = p
    <3>1. g # RootFrame
      BY <1>1, <1>2, <2>1
    <3>2. ~ Awaits(p, h)
      BY <1>1, <1>5, <2>1, <3>1
    <3> QED BY <1>5, <3>1, <3>2, LeavesFacts
  <2> QED BY <2>1 DEF Awaits, AtAwait, Item
<1>7. \A h \in Begun' \ {LastFrame'} : AtAwait(h)' /\ Item(h)'.of \in Begun'
  <2>1. ASSUME NEW h \in Begun', h # LastFrame' PROVE AtAwait(h)' /\ Item(h)'.of \in Begun'
    <3>1. g # RootFrame /\ h # p /\ h # g /\ h \in Begun /\ h \in FrameIds
      <4>1. g # RootFrame
        BY <1>1, <1>2, <2>1
      <4> QED BY <1>1, <1>5, <2>1, <4>1
    <3>2. AtAwait(h) /\ Item(h).of \in Begun
      BY <1>1, <3>1 DEF FramesInv, CallStack
    <3>3. Item(h).of # g
      <4>1. ~ Awaits(h, g)
        BY <1>5, <3>1
      <4> QED BY <3>2, <4>1 DEF Awaits
    <3>4. AtAwait(h)' /\ Item(h)' = Item(h)
      BY <3>1, <3>2, LeavesFacts
    <3> QED BY <1>1, <3>2, <3>3, <3>4
  <2> QED BY <2>1
<1>8. \A h \in FrameIds : \A i \in 1..Len(script[h]) :
        script[h][i].op = "await" /\ (i > frame'[h].position \/ frame'[h].state \in {"absent", "initial"}) =>
          frame'[script[h][i].of].state = "absent"
  <2>1. ASSUME NEW h \in FrameIds, NEW i \in 1..Len(script[h]), script[h][i].op = "await",
               i > frame'[h].position \/ frame'[h].state \in {"absent", "initial"}
        PROVE  frame'[script[h][i].of].state = "absent"
    <3>1. i > frame[h].position \/ frame[h].state \in {"absent", "initial"}
      BY <1>1, <2>1
    <3>2. PICK k : k = script[h][i].of /\ k \in FrameIds
      BY <1>1, <2>1, ScriptBasics
    <3>3. frame[k].state = "absent"
      BY <2>1, <3>1, <3>2 DEF FramesInv, CallStack
    <3> QED BY <1>1, <3>2, <3>3
  <2> QED BY <2>1
<1>9. \A h \in FrameIds :
        /\ frame'[h].position \in 1..(Len(script'[h]) + 1) /\ frame'[h].previous < h
        /\ frame'[h].state \in {"absent", "initial"} => frame'[h].position = 1
  <2>1. \A h \in FrameIds :
          /\ frame[h].position \in 1..(Len(script[h]) + 1) /\ frame[h].previous < h
          /\ frame[h].state \in {"absent", "initial"} => frame[h].position = 1
    BY DEF FramesInv, CallStack
  <2> QED BY <1>1, <2>1
<1>10. frame'[RootFrame].previous = NoFrame
  BY <1>1 DEF FramesInv, CallStack
<1> QED BY <1>1, <1>2, <1>3, <1>6, <1>7, <1>8, <1>9, <1>10 DEF CallStack

LEMMA LeavesTokens == ASSUME FramesInv, NEW g \in FrameIds, NEW ends \in CallEnds, Leaves(g, ends) PROVE Tokens'
<1>1. /\ FrameIds' = FrameIds /\ Begun' = Begun \ {g} /\ Begun \subseteq FrameIds /\ RootFrame \in FrameIds
      /\ \A h \in FrameIds :
           /\ frame'[h].token = frame[h].token /\ Item(h)' = Item(h)
           /\ frame'[h].state = "initial" <=> frame[h].state = "initial"
           /\ \A k : Awaits(h, k)' <=> Awaits(h, k)
  <2>1. \A h \in FrameIds : frame'[h].token = frame[h].token
    BY DEF Leaves
  <2> QED BY <2>1, LeavesFacts, ControlFacts
<1>2. ASSUME NEW h \in Begun \ {RootFrame}, NEW p, p = frame[h].previous
      PROVE  p = frame'[h].previous /\ frame'[h].token = IF frame'[p].token # 0 THEN frame'[p].token ELSE Item(p)'.source
  <2>1. p \in FrameIds /\ p = frame'[h].previous
    BY <1>2, LeavesFacts
  <2>2. frame[h].token = IF frame[p].token # 0 THEN frame[p].token ELSE Item(p).source
    BY <1>2 DEF FramesInv, Tokens
  <2> QED BY <1>1, <2>1, <2>2
<1>3. ASSUME NEW h \in FrameIds, NEW p \in FrameIds, frame'[h].state = "initial", Awaits(p, h)'
      PROVE  frame'[h].token = Item(p)'.source
  <2>1. frame[h].token = Item(p).source
    BY <1>1, <1>3 DEF FramesInv, Tokens
  <2> QED BY <1>1, <2>1
<1>4. frame'[RootFrame].token = 0
  BY <1>1 DEF FramesInv, Tokens
<1> QED BY <1>1, <1>2, <1>3, <1>4 DEF Tokens

LEMMA LeavesPromised == ASSUME FramesInv, NEW g \in FrameIds, NEW ends \in CallEnds, Leaves(g, ends) PROVE Promised'
<1>1. /\ FrameIds' = FrameIds /\ Begun' = Begun \ {g} /\ Ended' = Ended \cup {g} /\ hit' = hit
      /\ Begun \subseteq FrameIds /\ Ended \subseteq FrameIds /\ g \notin Ended /\ RootFrame \notin Ended
      /\ RootFrame \in FrameIds /\ Promised /\ g \in Begun
      /\ frame[g].previous = NoFrame <=> g = RootFrame
  BY SMTT(25), LeavesFacts, ControlFacts DEF Leaves, FramesInv
<1>2. /\ frame'[g].state = "done"
      /\ frame'[g].exception = IF frame[g].previous # NoFrame /\ ends # "none" THEN ends ELSE frame[g].exception
      /\ frame'[g].value => ends = "none"
      /\ frame[g].exception = (IF g \in hit THEN "cancelled" ELSE "none")
  BY <1>1 DEF Leaves, Promised
<1>3. \A h \in FrameIds : h # g =>
       \/ /\ frame'[h].state = frame[h].state
          /\ frame'[h].exception = frame[h].exception /\ frame'[h].value = frame[h].value
       \/ /\ frame[h].state = "done" /\ frame'[h].state = "destroyed"
          /\ frame'[h].exception = "none" /\ (frame'[h].value => h \in hit)
  BY DEF Leaves
<1>4. \A h \in FrameIds : frame'[h].state \in {"absent", "initial"} /\ h # RootFrame => h \notin hit
  BY <1>1, <1>2, <1>3 DEF Promised
<1>5. \A h \in FrameIds \ Ended' : frame'[h].exception = (IF h \in hit THEN "cancelled" ELSE "none") /\ ~ frame'[h].value
  <2>1. ASSUME NEW h \in FrameIds, h \notin Ended'
        PROVE  frame'[h].exception = (IF h \in hit THEN "cancelled" ELSE "none") /\ ~ frame'[h].value
    <3>1. h \notin Ended /\ h # g
      BY <1>1, <2>1
    <3>2. frame[h].exception = (IF h \in hit THEN "cancelled" ELSE "none") /\ ~ frame[h].value /\ frame[h].state # "done"
      BY <1>1, <3>1 DEF Promised, Ended
    <3> QED BY <1>3, <3>1, <3>2
  <2> QED BY <2>1
<1>6. \A h \in Ended' : frame'[h].value /\ frame'[h].exception # "none" => h \in hit
  <2>1. ASSUME NEW h \in Ended, frame'[h].value, frame'[h].exception # "none" PROVE h \in hit
    BY <1>1, <1>3, <2>1 DEF Promised
  <2>2. frame'[g].value /\ frame'[g].exception # "none" => g \in hit
    BY <1>2
  <2> QED BY <1>1, <2>1, <2>2
<1>7. \A h \in Ended' \ {RootFrame} : frame'[h].state = "destroyed" =>
        frame'[h].exception = "none" /\ (frame'[h].value => h \in hit)
  <2>1. ASSUME NEW h \in Ended, h # RootFrame, frame'[h].state = "destroyed"
        PROVE  frame'[h].exception = "none" /\ (frame'[h].value => h \in hit)
    <3>1. h \in FrameIds /\ h # g
      BY <1>1
    <3>2. frame[h].state = "destroyed" => frame[h].exception = "none" /\ (frame[h].value => h \in hit)
      BY <1>1, <2>1 DEF Promised
    <3> QED BY <1>3, <2>1, <3>1, <3>2
  <2> QED BY <1>1, <1>2, <2>1
<1>8. frame'[RootFrame].exception # "none" => RootFrame \in hit
  <2>1. frame[RootFrame].exception = "none" \/ RootFrame \in hit
    BY <1>1 DEF Promised
  <2> QED BY <1>1, <1>2, <1>3, <2>1
<1>9. \A h \in Begun : frame'[h].control = "group"
  BY <1>1 DEF Promised, Leaves
<1> QED BY <1>1, <1>4, <1>5, <1>6, <1>7, <1>8, <1>9 DEF Promised

\* Once its body has ended, what comes after the frame is what is to come.
LEMMA LeavesRest ==
  ASSUME FramesInv, NEW g \in FrameIds, NEW ends \in CallEnds, Leaves(g, ends),
         \A cancelled, after : CallsAfter(cancelled, after) =>
           \A next : next = after[g][ends] =>
             Remaining(cancelled, after) = Given(results' \o next.results, next.ends)
  PROVE  CallRest'
<1>1. /\ FrameIds' = FrameIds /\ Begun' = Begun \ {g} /\ Ended' = Ended \cup {g} /\ hit' = hit /\ script' = script
      /\ Begun \subseteq FrameIds /\ Ended \subseteq FrameIds /\ g \notin Ended /\ RootFrame \notin Ended /\ g \in Begun
      /\ frame[g].previous = NoFrame <=> g = RootFrame
      /\ resumed' = frame[g].previous /\ results' \in Seq(FrameIds \X CallEnds)
      /\ (thrownOut' <=> frame[g].previous = NoFrame /\ ends # "none")
      /\ frame'[g].state = "done"
      /\ frame'[g].exception = IF frame[g].previous # NoFrame /\ ends # "none" THEN ends ELSE frame[g].exception
  BY LeavesFacts DEF Leaves
<1>2. ASSUME NEW cancelled \in SUBSET FrameIds, Agrees(cancelled)'
      PROVE  /\ RootFrame \in Ended' =>
                  /\ Called(script', cancelled).results = results'
                  /\ thrownOut' <=> Called(script', cancelled).ends # "none"
             /\ RootFrame \notin Ended' =>
                  \E after : CallsAfter(cancelled, after)' /\ Called(script', cancelled) = Remaining(cancelled, after)'
  <2>1. Agrees(cancelled) /\ (g \in cancelled <=> g \in hit)
    BY <1>1, <1>2 DEF Agrees
  <2>2. PICK after : CallsAfter(cancelled, after) /\ Called(script, cancelled) = Remaining(cancelled, after)
    BY <1>1, <2>1 DEF FramesInv, CallRest
  <2>3. PICK next : next = after[g][ends]
    OBVIOUS
  <2>4. Called(script, cancelled) = Given(results' \o next.results, next.ends)
    BY <2>2, <2>3
  <2>5. CASE g = RootFrame
    <3>1. next = Given(<<>>, ends)
      BY <2>2, <2>3, <2>5 DEF CallsAfter
    <3>2. next.results = <<>> /\ next.ends = ends
      BY <3>1, GivenParts
    <3>3. results' \o <<>> = results'
      <4>1. PICK S : S = FrameIds \X CallEnds
        OBVIOUS
      <4>2. results' \in Seq(S)
        BY <1>1, <4>1
      <4> QED BY <4>2, ConcatEmptySeq
    <3>4. Called(script, cancelled) = Given(results', ends)
      BY <2>4, <3>2, <3>3
    <3>5. Called(script, cancelled).results = results' /\ Called(script, cancelled).ends = ends
      BY <3>4, GivenParts
    <3> QED BY <1>1, <2>5, <3>5
  <2>6. CASE g # RootFrame
    <3>1. PICK p : p = frame[g].previous
      OBVIOUS
    <3>2. /\ p \in FrameIds /\ p \in Begun /\ p # g /\ Awaits(p, g) /\ p = frame'[g].previous
          /\ p # NoFrame
      BY <1>1, <2>6, <3>1, LeavesFacts
    <3>3. LastFrame' = p /\ RootFrame \notin Ended'
      BY <1>1, <2>6, <3>1, <3>2 DEF LastFrame
    <3>4. frame'[g].exception = EndOf(g, ends, cancelled)
      <4>1. frame[g].exception = (IF g \in hit THEN "cancelled" ELSE "none")
        BY <1>1 DEF FramesInv, Promised
      <4> QED BY <1>1, <2>1, <2>6, <4>1 DEF EndOf
    <3>5. \A n, h : GivenFrom(cancelled, h, n)' = GivenFrom(cancelled, h, n)
      BY <1>1, GivenFromSame
    <3>6. CallsAfter(cancelled, after)'
      <4>1. ASSUME NEW h \in Begun \ {RootFrame}, NEW e \in CallEnds, NEW q, q = frame[h].previous
            PROVE  /\ q = frame'[h].previous
                   /\ after[h][e] =
                        Answer(q, h, EndOf(h, e, cancelled), GivenFrom(cancelled, q, frame[q].position + 1), after[q])'
        <5>1. after[h][e] = Answer(q, h, EndOf(h, e, cancelled), GivenFrom(cancelled, q, frame[q].position + 1), after[q])
          BY <2>2, <4>1 DEF CallsAfter
        <5>2. q \in FrameIds /\ q = frame'[h].previous
          BY <4>1, LeavesFacts
        <5>3. frame'[q].position = frame[q].position /\ Item(q)' = Item(q)
          BY <5>2, LeavesFacts DEF Leaves
        <5> QED BY <3>5, <5>1, <5>2, <5>3 DEF Answer
      <4>2. after \in [FrameIds' -> [CallEnds -> CallResults(script')]] /\ \A e \in CallEnds : after[RootFrame][e] = Given(<<>>, e)
        BY <1>1, <2>2 DEF CallsAfter
      <4> QED BY ZenonT(60), <1>1, <4>1, <4>2 DEF CallsAfter
    <3>7. ToCome(cancelled, after)' = next
      <4>1. next = Answer(p, g, EndOf(g, ends, cancelled), GivenFrom(cancelled, p, frame[p].position + 1), after[p])
        BY <1>1, <2>2, <2>3, <2>6, <3>1 DEF CallsAfter
      <4>2. /\ Item(p)' = Item(p) /\ AtAwait(p)' /\ Item(p)'.of = g /\ frame'[p].position = frame[p].position
        BY <3>2, LeavesFacts DEF Awaits, Leaves
      <4>3. next = Answer(p, g, EndOf(g, ends, cancelled), GivenFrom(cancelled, p, frame[p].position + 1), after[p])'
        BY <3>5, <4>1, <4>2 DEF Answer
      <4> QED BY <1>1, <3>3, <3>4, <3>5, <4>1, <4>2 DEF ToCome, Answer
    <3>8. Remaining(cancelled, after)' = Given(results' \o next.results, next.ends)
      BY <3>7 DEF Remaining
    <3> QED BY <1>1, <2>4, <3>3, <3>6, <3>8
  <2> QED BY <2>5, <2>6
<1> QED BY <1>1, <1>2 DEF CallRest

LEMMA LeavesKeeps ==
  ASSUME FramesInv, NEW g \in FrameIds, NEW ends \in CallEnds, Leaves(g, ends),
         \A cancelled, after : CallsAfter(cancelled, after) =>
           \A next : next = after[g][ends] =>
             Remaining(cancelled, after) = Given(results' \o next.results, next.ends)
  PROVE  FramesInv'
<1>1. FramesTyped'
  <2>1. /\ script \in Scripts /\ hit \subseteq FrameIds /\ frame[g].previous \in FrameIds \cup {NoFrame}
        /\ handle \in [of : FrameIds \cup {NoFrame}, at : {"nowhere", "executor", "service"}]
    <3>1. g = RootFrame => frame[g].previous = NoFrame
      BY LeavesFacts
    <3>2. g # RootFrame => frame[g].previous \in FrameIds
      BY LeavesFacts
    <3> QED BY <3>1, <3>2 DEF FramesInv, FramesTyped
  <2> QED BY <2>1, LeavesFacts DEF FramesTyped, Leaves
<1>2. CallRest'
  BY LeavesRest
<1> QED BY <1>1, <1>2, LeavesInControl, LeavesStack, LeavesPromised, LeavesTokens DEF FramesInv

\* A promise of which the body has ended is still one.
LEMMA PromiseReturns ==
  ASSUME NEW old \in Promises
  PROVE  [old EXCEPT !.state = "done", !.value = TRUE] \in Promises
BY DEF Promises

LEMMA PromiseThrows ==
  ASSUME NEW old \in Promises, NEW what \in {"none", "thrown", "cancelled"}
  PROVE  [old EXCEPT !.state = "done", !.exception = what] \in Promises
BY DEF Promises

LEMMA ReturnValueKeeps == ASSUME FramesInv, NEW g \in FrameIds, ReturnValue(g) PROVE FramesInv'
<1>1. /\ script' = script /\ results' = results /\ hit' = hit /\ thrownOut' = thrownOut /\ handle' = handle
      /\ resumed = g /\ resumed' = frame[g].previous /\ frame[g].position > Len(script[g])
      /\ frame' = [frame EXCEPT ![g].state = "done", ![g].value = TRUE]
  BY DEF ReturnValue, FinalSuspendOf
<1>2. /\ g = LastFrame /\ g \in Begun /\ RootFrame \notin Ended /\ NoFrame \notin FrameIds
      /\ frame[g].position \in 1..(Len(script[g]) + 1) /\ Len(script[g]) \in Nat /\ ~ thrownOut
      /\ script \in Scripts
  BY <1>1, ControlFacts, RunningFrame
<1>3. Leaves(g, "none")
  <2>1. frame \in [FrameIds -> Promises] /\ results \in Seq(FrameIds \X CallEnds) /\ thrownOut \in BOOLEAN
    BY DEF FramesInv, FramesTyped
  <2>2. frame' \in [FrameIds -> Promises]
    <3>1. PICK new : new = [frame[g] EXCEPT !.state = "done", !.value = TRUE]
      OBVIOUS
    <3>2. new \in Promises
      BY <2>1, <3>1, PromiseReturns
    <3>3. frame' = [frame EXCEPT ![g] = new]
      BY <1>1, <2>1, <3>1
    <3> QED BY <2>1, <3>2, <3>3
  <2>3. /\ frame'[g].state = "done" /\ frame'[g].exception = frame[g].exception
        /\ \A h \in FrameIds :
             /\ frame'[h].position = frame[h].position /\ frame'[h].previous = frame[h].previous
             /\ frame'[h].control = frame[h].control /\ frame'[h].token = frame[h].token
        /\ \A h \in FrameIds : h # g =>
             /\ frame'[h].state = frame[h].state
             /\ frame'[h].exception = frame[h].exception /\ frame'[h].value = frame[h].value
    BY <1>1, <2>1 DEF Promises
  <2> QED BY <1>1, <1>2, <2>1, <2>2, <2>3 DEF Leaves
<1>4. ASSUME NEW cancelled, NEW after, CallsAfter(cancelled, after), NEW next, next = after[g]["none"]
      PROVE  Remaining(cancelled, after) = Given(results' \o next.results, next.ends)
  <2>1. GivenFrom(cancelled, g, frame[g].position) = Given(<<>>, "none")
    <3>1. frame[g].position = Len(script[g]) + 1
      BY <1>1, <1>2
    <3> QED BY <1>2, <3>1, GivenPlace
  <2>2. ~ AtAwait(g)
    BY <1>1, <1>2 DEF AtAwait
  <2>3. ToCome(cancelled, after) = Then(Given(<<>>, "none"), after[g])
    BY <1>2, <2>1, <2>2 DEF ToCome
  <2>4. ToCome(cancelled, after) = Given(<<>> \o next.results, next.ends)
    BY <1>4, <2>3, ThenGiven
  <2>5. next \in CallResults(script)
    BY <1>4 DEF CallsAfter, CallEnds
  <2>6. <<>> \o next.results = next.results
    BY <2>5, ConcatEmptySeq DEF CallResults
  <2> QED BY <1>1, <2>4, <2>6, GivenParts DEF Remaining
<1>5. "none" \in CallEnds
  BY DEF CallEnds
<1> QED BY <1>3, <1>4, <1>5, LeavesKeeps

LEMMA ThrowOutKeeps == ASSUME FramesInv, NEW g \in FrameIds, ThrowOut(g) PROVE FramesInv'
<1>1. /\ script' = script /\ results' = results /\ hit' = hit /\ handle' = handle
      /\ resumed = g /\ resumed' = frame[g].previous /\ frame[g].position <= Len(script[g]) /\ Item(g).op = "throw"
      /\ thrownOut' = (frame[g].previous = NoFrame)
      /\ frame' = [frame EXCEPT ![g].state = "done", ![g].exception = IF frame[g].previous = NoFrame THEN @ ELSE "thrown"]
  BY DEF ThrowOut, UnhandledException, FinalSuspendOf, AtFrameItem
<1>2. /\ g = LastFrame /\ g \in Begun /\ RootFrame \notin Ended /\ NoFrame \notin FrameIds
      /\ frame[g].position \in 1..Len(script[g]) /\ frame[g].position \in 1..(Len(script[g]) + 1)
      /\ Len(script[g]) \in Nat /\ ~ thrownOut /\ script \in Scripts
  BY <1>1, ControlFacts, RunningFrame
<1>3. Leaves(g, "thrown")
  <2>1. frame \in [FrameIds -> Promises] /\ results \in Seq(FrameIds \X CallEnds)
    BY DEF FramesInv, FramesTyped
  <2>2. PICK what : what = IF frame[g].previous = NoFrame THEN frame[g].exception ELSE "thrown"
    OBVIOUS
  <2>3. what \in {"none", "thrown", "cancelled"}
    BY <2>1, <2>2 DEF Promises
  <2>4. frame' = [frame EXCEPT ![g].state = "done", ![g].exception = what]
    BY <1>1, <2>2
  <2>5. frame' \in [FrameIds -> Promises]
    <3>1. PICK new : new = [frame[g] EXCEPT !.state = "done", !.exception = what]
      OBVIOUS
    <3>2. new \in Promises
      BY <2>1, <2>3, <3>1 DEF Promises
    <3>3. frame' = [frame EXCEPT ![g] = new]
      BY <2>1, <2>4, <3>1
    <3> QED BY <2>1, <3>2, <3>3
  <2>6. /\ frame'[g].state = "done" /\ frame'[g].exception = what /\ frame'[g].value = frame[g].value
        /\ \A h \in FrameIds :
             /\ frame'[h].position = frame[h].position /\ frame'[h].previous = frame[h].previous
             /\ frame'[h].control = frame[h].control /\ frame'[h].token = frame[h].token
        /\ \A h \in FrameIds : h # g =>
             /\ frame'[h].state = frame[h].state
             /\ frame'[h].exception = frame[h].exception /\ frame'[h].value = frame[h].value
    BY <2>1, <2>4 DEF Promises
  <2>7. ~ frame[g].value
    BY <1>2 DEF FramesInv, Promised, Begun, Ended
  <2>8. thrownOut' \in BOOLEAN /\ (thrownOut' <=> frame[g].previous = NoFrame)
    BY <1>1
  <2> QED BY <1>1, <1>2, <2>1, <2>2, <2>5, <2>6, <2>7, <2>8 DEF Leaves
<1>4. ASSUME NEW cancelled, NEW after, CallsAfter(cancelled, after), NEW next, next = after[g]["thrown"]
      PROVE  Remaining(cancelled, after) = Given(results' \o next.results, next.ends)
  <2>1. GivenFrom(cancelled, g, frame[g].position) = Given(<<>>, "thrown")
    BY <1>1, <1>2, GivenPlace DEF Item
  <2>2. ~ AtAwait(g)
    BY <1>1 DEF AtAwait
  <2>3. ToCome(cancelled, after) = Then(Given(<<>>, "thrown"), after[g])
    BY <1>2, <2>1, <2>2 DEF ToCome
  <2>4. ToCome(cancelled, after) = Given(<<>> \o next.results, next.ends)
    BY <1>4, <2>3, ThenGiven
  <2>5. next \in CallResults(script)
    BY <1>4 DEF CallsAfter, CallEnds
  <2>6. <<>> \o next.results = next.results
    BY <2>5, ConcatEmptySeq DEF CallResults
  <2> QED BY <1>1, <2>4, <2>6, GivenParts DEF Remaining
<1>5. "thrown" \in CallEnds
  BY DEF CallEnds
<1> QED BY <1>3, <1>4, <1>5, LeavesKeeps

\* An exception that the caller does not catch ends its body too.
LEMMA ResumeLeavesKeeps ==
  ASSUME FramesInv, NEW g \in FrameIds, AwaitResume(g),
         ~ (frame[Item(g).of].exception = "none" \/ Item(g).catches)
  PROVE  FramesInv'
<1>1. PICK child, what : child = Item(g).of /\ what = frame[child].exception
  OBVIOUS
<1>2. PICK new, kept : /\ kept = IF frame[g].previous = NoFrame THEN frame[g].exception ELSE what
                       /\ new = [frame[child] EXCEPT !.state = "destroyed", !.exception = "none",
                                                     !.value = @ /\ what # "none"]
  OBVIOUS
<1>3. /\ script' = script /\ results' = Append(results, <<child, what>>) /\ hit' = hit /\ handle' = handle
      /\ resumed = g /\ resumed' = frame[g].previous /\ AtFrameItem(g, "await") /\ frame[child].state = "done"
      /\ thrownOut' = (frame[g].previous = NoFrame)
  BY <1>1 DEF AwaitResume, UnhandledException, FinalSuspendOf, AtFrameItem
<1>4. /\ child \in FrameIds /\ child # g /\ child # RootFrame /\ AtAwait(g)
  BY <1>1, <1>3, RunningAwait
<1>5. frame \in [FrameIds -> Promises] /\ results \in Seq(FrameIds \X CallEnds)
  BY DEF FramesInv, FramesTyped
<1>6. frame' = [[frame EXCEPT ![child] = new] EXCEPT ![g].state = "done", ![g].exception = kept]
  <2>1. PICK gone : gone = [frame EXCEPT ![Item(g).of].state = "destroyed", ![Item(g).of].exception = "none",
                                         ![Item(g).of].value = @ /\ frame[Item(g).of].exception # "none"]
    OBVIOUS
  <2>2. frame' = [gone EXCEPT ![g].state = "done",
                              ![g].exception = IF frame[g].previous = NoFrame THEN @ ELSE what]
    <3>1. UnhandledException(g, what,
            [frame EXCEPT ![Item(g).of].state = "destroyed", ![Item(g).of].exception = "none",
                          ![Item(g).of].value = @ /\ frame[Item(g).of].exception # "none"])
      BY <1>1 DEF AwaitResume
    <3> QED BY <2>1, <3>1 DEF UnhandledException
  <2>3. gone = [frame EXCEPT ![child] = new]
    BY <1>1, <1>2, <1>4, <1>5, <2>1
  <2>4. gone[g].exception = frame[g].exception
    BY <1>4, <1>5, <2>3
  <2>5. frame' = [gone EXCEPT ![g].state = "done", ![g].exception = kept]
    BY <1>2, <1>5, <2>2, <2>3, <2>4
  <2> QED BY <2>3, <2>5
<1>7. /\ g = LastFrame /\ g \in Begun /\ g \notin Ended /\ RootFrame \notin Ended /\ NoFrame \notin FrameIds
      /\ frame[g].state = "started" /\ frame[g].position \in 1..Len(script[g])
      /\ Len(script[g]) \in Nat /\ script \in Scripts
  BY <1>3, ControlFacts, RunningFrame DEF AtFrameItem, Ended
<1>8. /\ new \in Promises /\ new.state = "destroyed" /\ new.exception = "none"
      /\ new.position = frame[child].position /\ new.previous = frame[child].previous
      /\ new.control = frame[child].control /\ new.token = frame[child].token
      /\ (new.value <=> frame[child].value /\ what # "none")
  <2>1. PICK old, valued : old = frame[child] /\ valued = (old.value /\ what # "none")
    OBVIOUS
  <2>2. valued \in BOOLEAN /\ (valued <=> old.value /\ what # "none")
    BY <2>1
  <2>3. old \in Promises
    BY <1>4, <1>5, <2>1
  <2>4. new = [old EXCEPT !.state = "destroyed", !.exception = "none", !.value = valued]
    BY <1>2, <2>1
  <2>5. new.value = valued
    BY <2>3, <2>4 DEF Promises
  <2>6. /\ new.state = "destroyed" /\ new.exception = "none"
        /\ new.position = old.position /\ new.previous = old.previous
        /\ new.control = old.control /\ new.token = old.token
        /\ new \in Promises
    BY <2>2, <2>3, <2>4 DEF Promises
  <2> QED BY <2>1, <2>2, <2>5, <2>6
<1>9. what \in CallEnds /\ what # "none" /\ kept \in CallEnds
  BY <1>1, <1>2, <1>4, <1>5 DEF Promises, CallEnds
<1>10. /\ frame' \in [FrameIds -> Promises]
       /\ frame'[child] = new /\ \A h \in FrameIds : h # child /\ h # g => frame'[h] = frame[h]
       /\ frame'[g].state = "done" /\ frame'[g].exception = kept /\ frame'[g].value = frame[g].value
       /\ frame'[g].position = frame[g].position /\ frame'[g].previous = frame[g].previous
       /\ frame'[g].control = frame[g].control /\ frame'[g].token = frame[g].token
  <2>1. PICK gone : gone = [frame EXCEPT ![child] = new]
    OBVIOUS
  <2>2. gone \in [FrameIds -> Promises] /\ gone[child] = new /\ \A h \in FrameIds : h # child => gone[h] = frame[h]
    BY <1>4, <1>5, <1>8, <2>1
  <2>3. frame' = [gone EXCEPT ![g].state = "done", ![g].exception = kept]
    BY <1>6, <2>1
  <2>4. kept \in {"none", "thrown", "cancelled"}
    BY <1>9 DEF CallEnds
  <2>5. frame' \in [FrameIds -> Promises]
    <3>1. PICK left : left = [gone[g] EXCEPT !.state = "done", !.exception = kept]
      OBVIOUS
    <3>2. left \in Promises
      BY <2>2, <2>4, <3>1, PromiseThrows
    <3>3. frame' = [gone EXCEPT ![g] = left]
      BY <2>2, <2>3, <3>1
    <3> QED BY <2>2, <3>2, <3>3
  <2> QED BY <1>4, <2>2, <2>3, <2>5 DEF Promises
<1>11. Leaves(g, what)
  <2>1. results' \in Seq(FrameIds \X CallEnds)
    BY <1>3, <1>4, <1>5, <1>9, AppendProperties
  <2>2. ~ frame[g].value
    BY <1>7 DEF FramesInv, Promised, Begun
  <2>3. thrownOut' \in BOOLEAN /\ (thrownOut' <=> frame[g].previous = NoFrame /\ what # "none")
    BY <1>3, <1>9
  <2>4. new.value => child \in hit
    <3>1. child \in Ended
      BY <1>3, <1>4 DEF Ended
    <3> QED BY <1>1, <1>8, <3>1 DEF FramesInv, Promised
  <2>5. \A h \in FrameIds :
          /\ frame'[h].position = frame[h].position /\ frame'[h].previous = frame[h].previous
          /\ frame'[h].control = frame[h].control /\ frame'[h].token = frame[h].token
    BY <1>8, <1>10
  <2>6. \A h \in FrameIds : h # g =>
          \/ /\ frame'[h].state = frame[h].state
             /\ frame'[h].exception = frame[h].exception /\ frame'[h].value = frame[h].value
          \/ /\ frame[h].state = "done" /\ frame'[h].state = "destroyed"
             /\ frame'[h].exception = "none" /\ (frame'[h].value => h \in hit)
    BY <1>3, <1>8, <1>10, <2>4
  <2>7. frame'[g].exception = IF frame[g].previous # NoFrame /\ what # "none" THEN what ELSE frame[g].exception
    BY <1>2, <1>9, <1>10
  <2>8. frame'[g].state = "done" /\ (frame'[g].value => what = "none") /\ frame' \in [FrameIds -> Promises]
    BY <1>10, <2>2
  <2> QED BY <1>3, <1>7, <2>1, <2>3, <2>5, <2>6, <2>7, <2>8 DEF Leaves
<1>12. ASSUME NEW cancelled, NEW after, CallsAfter(cancelled, after), NEW next, next = after[g][what]
       PROVE  Remaining(cancelled, after) = Given(results' \o next.results, next.ends)
  <2>1. ToCome(cancelled, after) =
          Answer(g, child, what, GivenFrom(cancelled, g, frame[g].position + 1), after[g])
    BY <1>1, <1>3, <1>4, <1>7 DEF ToCome
  <2>2. ~ (what = "none" \/ Item(g).catches)
    BY <1>1
  <2>3. PICK S, last, x, list : S = FrameIds \X CallEnds /\ last = next.results /\ x = <<child, what>> /\ list = <<x>> \o last
    OBVIOUS
  <2>4. ToCome(cancelled, after) = Given(list, next.ends)
    BY <1>12, <2>1, <2>2, <2>3 DEF Answer
  <2>5. Remaining(cancelled, after) = Given(results \o list, next.ends)
    BY <2>4, GivenParts DEF Remaining
  <2>6. results \in Seq(S) /\ x \in S
    BY <1>4, <1>5, <1>9, <2>3
  <2>7. last \in Seq(S)
    <3>1. next \in CallResults(script)
      BY <1>9, <1>12 DEF CallsAfter
    <3> QED BY <2>3, <3>1 DEF CallResults, FrameIds
  <2>8. Append(results, x) \o last = results \o (<<x>> \o last)
    BY <2>6, <2>7, ResultsInTurn
  <2> QED BY <1>3, <2>3, <2>5, <2>8
<1> QED BY <1>9, <1>11, <1>12, LeavesKeeps

-----------------------------------------------------------------------------
(* What the invariant says of the calls *)

\* The callers of a frame are those of its caller and the caller.
LEMMA CallersSolved ==
  ASSUME FramesInv
  PROVE  /\ Callers(NoFrame) = <<>>
         /\ \A g \in FrameIds :
              /\ frame[g].previous \in {NoFrame} \cup FrameIds
              /\ Callers(g) = Append(Callers(frame[g].previous), g)
              /\ Callers(frame[g].previous) \in Seq({NoFrame} \cup FrameIds)
<1>1. Len(script) \in Nat /\ FrameIds = 1..Len(script) /\ frame \in [FrameIds -> Promises]
  BY ControlFacts, ScriptFacts DEF FrameIds, FramesInv, FramesTyped
<1>2. PICK P, V, R : P = {NoFrame} \cup FrameIds /\ V = Seq(P) /\ R = {x \in P \X P : x[1] < x[2]}
  OBVIOUS
<1>3. P \subseteq Nat
  BY <1>1, <1>2 DEF NoFrame
<1>4. \A g \in FrameIds : frame[g].previous \in P /\ frame[g].previous < g
  <2>1. \A g \in FrameIds : frame[g].previous \in Nat /\ frame[g].previous < g
    BY <1>1 DEF FramesInv, CallStack, Promises
  <2> QED BY <1>1, <1>2, <2>1 DEF NoFrame
<1>5. FirstsIn(P, R)
  <2>1. ASSUME NEW T \in SUBSET P, T # {} PROVE \E x \in T : \A y \in T : <<y, x>> \notin R
    <3>1. PICK x \in T : \A y \in T : x <= y
      <4>1. T \in SUBSET Nat
        BY <1>3
      <4> QED BY <2>1, <4>1, LeastOf
    <3>2. ASSUME NEW y \in T PROVE <<y, x>> \notin R
      <4>1. x \in Nat /\ y \in Nat /\ x <= y
        BY <1>3, <3>1
      <4>2. ~ (y < x)
        BY <4>1
      <4> QED BY <1>2, <4>2
    <3> QED BY <3>2
  <2> QED BY <2>1 DEF FirstsIn
<1>6. PICK Step : Step = [x \in [P -> V] \X P |->
                            IF x[2] = NoFrame THEN <<>> ELSE Append(x[1][frame[x[2]].previous], x[2])]
  OBVIOUS
<1>7. ASSUME NEW f \in [P -> V], NEW p \in P
      PROVE  Step[<<f, p>>] = IF p = NoFrame THEN <<>> ELSE Append(f[frame[p].previous], p)
  <2>1. <<f, p>> \in [P -> V] \X P /\ <<f, p>>[1] = f /\ <<f, p>>[2] = p
    OBVIOUS
  <2> QED BY <1>6, <2>1
<1>8. Recursive(P, R, V, Step)
  <2>1. ASSUME NEW f \in [P -> V], NEW p \in P PROVE Step[<<f, p>>] \in V
    <3>1. p # NoFrame => f[frame[p].previous] \in V
      BY <1>2, <1>4
    <3>2. p # NoFrame => Append(f[frame[p].previous], p) \in V
      BY <1>2, <3>1, AppendProperties
    <3>3. <<>> \in V
      BY <1>2
    <3> QED BY <1>7, <3>2, <3>3
  <2>2. ASSUME NEW f \in [P -> V], NEW h \in [P -> V], NEW p \in P, \A q \in P : <<q, p>> \in R => f[q] = h[q]
        PROVE  Step[<<f, p>>] = Step[<<h, p>>]
    <3>1. p # NoFrame => f[frame[p].previous] = h[frame[p].previous]
      BY <1>2, <1>4, <2>2
    <3> QED BY <1>7, <3>1
  <2> QED BY <2>1, <2>2 DEF Recursive
<1>9. PICK f \in [P -> V] : \A p \in P : f[p] = Step[<<f, p>>]
  <2>1. PICK v : v = <<>>
    OBVIOUS
  <2>2. v \in V
    BY <1>2, <2>1
  <2> QED BY <1>5, <1>8, <2>2, RecursionSolved
<1>10. f = [p \in P |-> IF p = NoFrame THEN <<>> ELSE Append(f[frame[p].previous], p)]
  <2>1. \A p \in P : f[p] = IF p = NoFrame THEN <<>> ELSE Append(f[frame[p].previous], p)
    BY <1>7, <1>9
  <2> QED BY <2>1
<1> DEFINE path == CHOOSE h : h = [p \in P |-> IF p = NoFrame THEN <<>> ELSE Append(h[frame[p].previous], p)]
<1>11. path = [p \in P |-> IF p = NoFrame THEN <<>> ELSE Append(path[frame[p].previous], p)]
  BY <1>10, Zenon
<1>12. \A g : Callers(g) = path[g]
  BY <1>2 DEF Callers
<1> HIDE DEF path
<1>13. \A p \in P : path[p] = IF p = NoFrame THEN <<>> ELSE Append(path[frame[p].previous], p)
  BY <1>11
<1>14. \A p \in P : path[p] \in V
  <2> DEFINE T == {p \in P : path[p] \notin V}
  <2> SUFFICES ASSUME T # {} PROVE FALSE
    OBVIOUS
  <2>1. PICK x \in T : \A y \in T : x <= y
    <3>1. T \in SUBSET Nat
      BY <1>3
    <3> HIDE DEF T
    <3> QED BY <3>1, LeastOf
  <2>2. CASE x = NoFrame
    <3>1. path[x] = <<>> /\ <<>> \in V
      BY <1>2, <1>13, <2>2
    <3> QED BY <3>1
  <2>3. CASE x # NoFrame
    <3>1. PICK y : y = frame[x].previous
      OBVIOUS
    <3>2. y \in P /\ y < x /\ x \in P
      BY <1>2, <1>4, <2>3, <3>1
    <3>3. y \notin T
      BY <1>3, <2>1, <3>2
    <3>4. path[x] \in V
      <4>1. path[x] = Append(path[y], x) /\ path[y] \in V
        BY <1>13, <2>3, <3>1, <3>2, <3>3
      <4>2. path[y] \in Seq(P)
        BY <1>2, <4>1
      <4>3. Append(path[y], x) \in Seq(P)
        BY <3>2, <4>2, AppendProperties
      <4> QED BY <1>2, <4>1, <4>3
    <3> QED BY <3>4
  <2> QED BY <2>2, <2>3
<1>15. NoFrame \in P /\ NoFrame \notin FrameIds
  BY <1>2, ControlFacts
<1>16. Callers(NoFrame) = <<>>
  BY <1>12, <1>13, <1>15
<1>17. ASSUME NEW g \in FrameIds
       PROVE  /\ frame[g].previous \in P /\ Callers(g) = Append(Callers(frame[g].previous), g)
              /\ Callers(frame[g].previous) \in V
  BY <1>2, <1>4, <1>12, <1>13, <1>14, <1>15
<1> QED BY <1>2, <1>16, <1>17

SourceAt(calls, k) == Item(calls[k - 1]).source
SourcesOf(calls) == {k \in 2..Len(calls) : SourceAt(calls, k) # 0}

\* The first source among those that some calls are given.
Outermost(calls) ==
  IF SourcesOf(calls) = {} THEN 0
  ELSE SourceAt(calls, CHOOSE m \in SourcesOf(calls) : \A other \in SourcesOf(calls) : m <= other)

LEMMA FirstSource ==
  ASSUME NEW calls, Len(calls) \in Nat, NEW k \in SourcesOf(calls), \A other \in SourcesOf(calls) : k <= other
  PROVE  (CHOOSE m \in SourcesOf(calls) : \A other \in SourcesOf(calls) : m <= other) = k
<1> DEFINE m == CHOOSE m \in SourcesOf(calls) : \A other \in SourcesOf(calls) : m <= other
<1>1. m \in SourcesOf(calls) /\ \A other \in SourcesOf(calls) : m <= other
  BY Zenon
<1> HIDE DEF m
<1>2. m \in Nat /\ k \in Nat
  BY <1>1 DEF SourcesOf
<1>3. m <= k /\ k <= m
  BY <1>1
<1>4. m = k
  BY <1>2, <1>3
<1> USE DEF m
<1> QED BY <1>4

\* What a call adds: the source it is given, if no call before was given one.
LEMMA NextSource ==
  ASSUME FramesInv, NEW S, NEW calls \in Seq(S), calls # <<>>, NEW p, calls[Len(calls)] = p, NEW g \in S
  PROVE  Outermost(Append(calls, g)) = IF Outermost(calls) # 0 THEN Outermost(calls) ELSE Item(p).source
<1>1. PICK longer, n : longer = Append(calls, g) /\ n = Len(calls)
  OBVIOUS
<1>2. n \in Nat \ {0} /\ Len(longer) = n + 1 /\ \A i \in 1..n : longer[i] = calls[i]
  BY <1>1
<1>3. \A k \in 2..n : SourceAt(longer, k) = SourceAt(calls, k)
  BY <1>2 DEF SourceAt
<1>4. SourceAt(longer, n + 1) = Item(p).source
  <2>1. longer[(n + 1) - 1] = p
    BY <1>1, <1>2
  <2> QED BY <2>1 DEF SourceAt
<1>5. SourcesOf(longer) = SourcesOf(calls) \cup (IF Item(p).source # 0 THEN {n + 1} ELSE {})
  <2>1. \A k : k \in SourcesOf(longer) <=> k \in 2..(n + 1) /\ SourceAt(longer, k) # 0
    BY <1>2 DEF SourcesOf
  <2>2. \A k : k \in SourcesOf(calls) <=> k \in 2..n /\ SourceAt(calls, k) # 0
    BY <1>1 DEF SourcesOf
  <2>3. \A k : k \in 2..(n + 1) <=> k \in 2..n \/ k = n + 1
    BY <1>2
  <2>4. n + 1 \notin 2..n
    BY <1>2
  <2> QED BY <1>3, <1>4, <2>1, <2>2, <2>3, <2>4
<1>6. CASE SourcesOf(calls) = {}
  <2>1. CASE Item(p).source = 0
    <3>1. SourcesOf(longer) = {}
      BY <1>5, <1>6, <2>1
    <3> QED BY <1>1, <1>6, <2>1, <3>1 DEF Outermost
  <2>2. CASE Item(p).source # 0
    <3>1. SourcesOf(longer) = {n + 1}
      BY <1>5, <1>6, <2>2
    <3>2. (CHOOSE m \in SourcesOf(longer) : \A other \in SourcesOf(longer) : m <= other) = n + 1
      BY <1>2, <3>1, FirstSource
    <3>3. SourceAt(longer, CHOOSE m \in SourcesOf(longer) : \A other \in SourcesOf(longer) : m <= other) = Item(p).source
      BY <1>4, <3>2
    <3>4. SourcesOf(longer) # {}
      BY <3>1
    <3> QED BY <1>1, <1>6, <3>3, <3>4 DEF Outermost
  <2> QED BY <2>1, <2>2
<1>7. CASE SourcesOf(calls) # {}
  <2>1. PICK k \in SourcesOf(calls) : \A other \in SourcesOf(calls) : k <= other
    <3>1. SourcesOf(calls) \in SUBSET Nat
      BY <1>1, <1>2 DEF SourcesOf
    <3> QED BY <1>7, <3>1, LeastOf
  <2>2. k \in 2..n /\ SourceAt(calls, k) # 0 /\ SourceAt(longer, k) = SourceAt(calls, k)
    BY <1>1, <1>3, <2>1 DEF SourcesOf
  <2>3. k \in SourcesOf(longer) /\ \A other \in SourcesOf(longer) : k <= other
    <3>1. k <= n + 1
      BY <1>2, <2>2
    <3> QED BY <1>5, <2>1, <3>1
  <2>4. (CHOOSE m \in SourcesOf(longer) : \A other \in SourcesOf(longer) : m <= other) = k
    BY <1>2, <2>3, FirstSource
  <2>5. (CHOOSE m \in SourcesOf(calls) : \A other \in SourcesOf(calls) : m <= other) = k
    BY <1>1, <1>2, <2>1, FirstSource
  <2>6. SourceAt(longer, CHOOSE m \in SourcesOf(longer) : \A other \in SourcesOf(longer) : m <= other) = SourceAt(calls, k)
    BY <2>2, <2>4
  <2>7. SourceAt(calls, CHOOSE m \in SourcesOf(calls) : \A other \in SourcesOf(calls) : m <= other) = SourceAt(calls, k)
    BY <2>5
  <2>8. SourcesOf(longer) # {}
    BY <2>3
  <2> QED BY <1>1, <1>7, <2>2, <2>6, <2>7, <2>8 DEF Outermost
<1> QED BY <1>6, <1>7

\* Every frame that has begun and not ended has the token of the outermost source.
LEMMA OuterTokens == ASSUME FramesInv PROVE \A g \in Begun : frame[g].token = OuterSource(g)
<1> DEFINE T == {g \in Begun : frame[g].token # OuterSource(g)}
<1>1. \A g : OuterSource(g) = Outermost(Callers(g))
  BY Zenon DEF OuterSource, Outermost, SourcesOf, SourceAt
<1>2. Begun \subseteq FrameIds /\ FrameIds \subseteq Nat /\ RootFrame \in FrameIds /\ NoFrame \notin FrameIds
  BY ControlFacts DEF Begun
<1>3. SUFFICES ASSUME T # {} PROVE FALSE
  OBVIOUS
<1>4. PICK g \in T : \A h \in T : g <= h
  <2>1. T \in SUBSET Nat
    BY <1>2
  <2> HIDE DEF T
  <2> QED BY <1>3, <2>1, LeastOf
<1>5. g \in Begun /\ g \in FrameIds /\ frame[g].token # OuterSource(g)
  BY <1>2
<1>6. PICK p, calls : p = frame[g].previous /\ calls = Callers(p)
  OBVIOUS
<1>7. Callers(g) = Append(calls, g) /\ calls \in Seq({NoFrame} \cup FrameIds)
  BY <1>5, <1>6, CallersSolved
<1> HIDE DEF T
<1>8. CASE g = RootFrame
  <2>1. p = NoFrame /\ calls = <<>> /\ frame[g].token = 0
    BY <1>6, <1>8, CallersSolved DEF FramesInv, CallStack, Tokens
  <2>2. Len(Callers(g)) = 1
    BY <1>7, <2>1
  <2>3. SourcesOf(Callers(g)) = {}
    BY <2>2 DEF SourcesOf
  <2>4. Outermost(Callers(g)) = 0
    BY <2>3 DEF Outermost
  <2> QED BY <1>1, <1>5, <2>1, <2>4
<1>9. CASE g # RootFrame
  <2>1. p \in Begun /\ p \in FrameIds /\ p < g
    BY <1>2, <1>5, <1>6, <1>9 DEF FramesInv, CallStack
  <2>2. frame[g].token = IF frame[p].token # 0 THEN frame[p].token ELSE Item(p).source
    BY <1>5, <1>6, <1>9 DEF FramesInv, Tokens
  <2>3. frame[p].token = Outermost(calls)
    <3>1. p \notin T
      BY <1>2, <1>4, <1>5, <2>1
    <3>2. frame[p].token = OuterSource(p)
      BY <2>1, <3>1 DEF T
    <3> QED BY <1>1, <1>6, <3>2
  <2>4. calls # <<>> /\ calls[Len(calls)] = p
    <3>1. PICK first : first = Callers(frame[p].previous)
      OBVIOUS
    <3>2. calls = Append(first, p) /\ first \in Seq({NoFrame} \cup FrameIds)
      BY <1>6, <2>1, <3>1, CallersSolved
    <3> QED BY <2>1, <3>2
  <2>5. Outermost(Append(calls, g)) = IF Outermost(calls) # 0 THEN Outermost(calls) ELSE Item(p).source
    <3>1. PICK S : S = {NoFrame} \cup FrameIds
      OBVIOUS
    <3>2. calls \in Seq(S) /\ g \in S
      BY <1>5, <1>7, <3>1
    <3> QED BY <2>4, <3>2, NextSource
  <2> QED BY <1>1, <1>5, <1>7, <2>2, <2>3, <2>5
<1> QED BY <1>8, <1>9

LEMMA ToComeTyped ==
  ASSUME FramesInv, RootFrame \notin Ended, NEW cancelled, NEW after, CallsAfter(cancelled, after)
  PROVE  ToCome(cancelled, after) \in CallResults(script)
<1>1. PICK g, i, child : g = LastFrame /\ i = frame[g].position /\ child = Item(g).of
  OBVIOUS
<1>2. /\ script \in Scripts /\ g \in FrameIds /\ Len(script[g]) \in Nat /\ i \in 1..(Len(script[g]) + 1)
      /\ after[g] \in [CallEnds -> CallResults(script)]
  <2>1. g \in FrameIds /\ script \in Scripts /\ Len(script[g]) \in Nat
    BY <1>1, ControlFacts
  <2>2. i \in 1..(Len(script[g]) + 1)
    BY <1>1, <2>1 DEF FramesInv, CallStack
  <2> QED BY <2>1, <2>2 DEF CallsAfter
<1>3. CASE AtAwait(g) /\ frame[child].state = "done"
  <2>1. child \in FrameIds /\ i \in 1..Len(script[g])
    BY <1>1, <1>2, <1>3, ControlFacts DEF AtAwait
  <2>2. frame[child].exception \in CallEnds
    BY <2>1 DEF FramesInv, FramesTyped, Promises, CallEnds
  <2>3. i + 1 \in 1..(Len(script[g]) + 1)
    BY <1>2, <2>1
  <2>4. GivenFrom(cancelled, g, i + 1) \in CallResults(script)
    BY <1>2, <2>3, GivenPlace
  <2>5. ToCome(cancelled, after) = Answer(g, child, frame[child].exception, GivenFrom(cancelled, g, i + 1), after[g])
    BY <1>1, <1>3 DEF ToCome
  <2> QED BY <1>2, <2>1, <2>2, <2>4, <2>5, AnswerTyped
<1>4. CASE ~ (AtAwait(g) /\ frame[child].state = "done")
  <2>1. GivenFrom(cancelled, g, i) \in CallResults(script)
    BY <1>2, GivenPlace
  <2>2. ToCome(cancelled, after) = Then(GivenFrom(cancelled, g, i), after[g])
    BY <1>1, <1>4 DEF ToCome
  <2>3. PICK S : S = (DOMAIN script) \X CallEnds
    OBVIOUS
  <2>4. CallResults(script) = [results : Seq(S), ends : CallEnds]
    BY <2>3 DEF CallResults
  <2> QED BY <1>2, <2>1, <2>2, <2>4, ThenTyped
<1> QED BY <1>3, <1>4

LEMMA FirstResults ==
  ASSUME NEW S, NEW list \in Seq(S), NEW rest \in Seq(S)
  PROVE  Len(list) <= Len(list \o rest) /\ list = SubSeq(list \o rest, 1, Len(list))
BY SubSeqProperties, ConcatProperties

LEMMA FramesInvNests == ASSUME FramesInv PROVE CallsNest
<1>1. PICK calls : calls = Called(script, hit)
  OBVIOUS
<1>2. /\ RootFrame \in FrameIds /\ NoFrame \notin FrameIds /\ script \in Scripts /\ frame \in [FrameIds -> Promises]
      /\ Begun \subseteq FrameIds
  BY ControlFacts DEF FramesInv, FramesTyped, Begun
<1>3. RootFrame \in Ended <=> frame[RootFrame].state \in {"done", "destroyed"}
  BY <1>2 DEF Ended
<1>4. PICK S : S = FrameIds \X CallEnds
  OBVIOUS
<1>5. results \in Seq(S) /\ hit \in SUBSET FrameIds /\ Agrees(hit)
  BY <1>4 DEF FramesInv, FramesTyped, Agrees
<1>6. RootFrame \in Ended => results = calls.results /\ (thrownOut <=> calls.ends # "none")
  BY <1>1, <1>5 DEF FramesInv, CallRest
<1>7. Len(results) <= Len(calls.results) /\ results = SubSeq(calls.results, 1, Len(results))
  <2>1. CASE RootFrame \in Ended
    <3>1. results \o <<>> = results /\ <<>> \in Seq(S)
      BY <1>5, ConcatEmptySeq
    <3> QED BY <1>5, <1>6, <2>1, <3>1, FirstResults
  <2>2. CASE RootFrame \notin Ended
    <3>1. PICK after : CallsAfter(hit, after) /\ Called(script, hit) = Remaining(hit, after)
      BY <1>5, <2>2 DEF FramesInv, CallRest
    <3>2. PICK rest : rest = ToCome(hit, after).results
      OBVIOUS
    <3>3. rest \in Seq(S)
      BY <1>4, <2>2, <3>1, <3>2, ToComeTyped DEF CallResults, FrameIds
    <3>4. calls.results = results \o rest
      <4>1. PICK list : list = results \o rest
        OBVIOUS
      <4>2. calls = Given(list, ToCome(hit, after).ends)
        BY <1>1, <3>1, <3>2, <4>1 DEF Remaining
      <4> QED BY <4>1, <4>2, GivenParts
    <3> QED BY <1>5, <3>3, <3>4, FirstResults
  <2> QED BY <2>1, <2>2
<1>8. RootFrame \in Ended <=> resumed = NoFrame /\ handle = Nowhere
  <2>1. RootFrame \in Ended => resumed = NoFrame /\ handle = Nowhere
    BY DEF FramesInv, InControl
  <2>2. RootFrame \notin Ended /\ resumed = NoFrame => handle # Nowhere
    BY DEF FramesInv, InControl, Nowhere
  <2> QED BY <2>1, <2>2
<1>9. ASSUME NEW g \in FrameIds
      PROVE  /\ frame[g].state = "started" => frame[g].control = "group" /\ frame[g].token = OuterSource(g)
             /\ frame[g].state = "destroyed" =>
                  /\ frame[g].exception # "none" => g = RootFrame /\ RootFrame \in hit
                  /\ frame[g].value => g = RootFrame \/ g \in hit
  <2>1. frame[g].state = "started" => g \in Begun
    BY DEF Begun
  <2>2. frame[g].state = "started" => frame[g].control = "group" /\ frame[g].token = OuterSource(g)
    BY <2>1, OuterTokens DEF FramesInv, Promised
  <2>3. frame[g].state = "destroyed" => g \in Ended
    BY DEF Ended
  <2>4. frame[g].state = "destroyed" =>
          /\ frame[g].exception # "none" => g = RootFrame /\ RootFrame \in hit
          /\ frame[g].value => g = RootFrame \/ g \in hit
    BY <2>3 DEF FramesInv, Promised
  <2> QED BY <2>2, <2>4
<1> QED BY <1>1, <1>3, <1>6, <1>7, <1>8, <1>9 DEF CallsNest

LEMMA FramesInvNext == ASSUME FramesInv, FramesNext PROVE FramesInv'
<1>1. CASE ResumeTo
  BY <1>1, ResumeToKeeps
<1>2. CASE PushToExecutor
  BY <1>2, PushToExecutorKeeps
<1>3. CASE SetException
  BY <1>3, SetExceptionKeeps
<1>4. CASE OpDestroy
  BY <1>4, OpDestroyKeeps
<1>5. ASSUME NEW g \in FrameIds, PostAndSuspend(g) PROVE FramesInv'
  BY <1>5, PostAndSuspendKeeps
<1>6. ASSUME NEW g \in FrameIds, GetReturnObject(g) PROVE FramesInv'
  BY <1>6, GetReturnObjectKeeps
<1>7. ASSUME NEW g \in FrameIds, AwaitSuspend(g) PROVE FramesInv'
  BY <1>7, AwaitSuspendKeeps
<1>8. ASSUME NEW g \in FrameIds, AwaitResume(g) PROVE FramesInv'
  BY <1>8, ResumeGoesOnKeeps, ResumeLeavesKeeps
<1>9. ASSUME NEW g \in FrameIds, ThrowOut(g) PROVE FramesInv'
  BY <1>9, ThrowOutKeeps
<1>10. ASSUME NEW g \in FrameIds, ReturnValue(g) PROVE FramesInv'
  BY <1>10, ReturnValueKeeps
<1> QED BY <1>1, <1>2, <1>3, <1>4, <1>5, <1>6, <1>7, <1>8, <1>9, <1>10 DEF FramesNext

\* Awaits give what calls of functions would give, for every script, every suspension and
\* every cancellation: exceptions reach the caller or leave the root, control is never lost,
\* and a frame that runs has the token of its outermost source
\* (awaitable_frame_base.hpp:54-58, 96-143, awaitable.hpp:71-85).
THEOREM AwaitsNestAsCalls == FramesSpec => []CallsNest
<1>1. FramesInit => FramesInv
  BY FramesInvInit
<1>2. FramesInv /\ [FramesNext]_framesVars => FramesInv'
  BY FramesInvNext, FramesStutter
<1>3. FramesInv => CallsNest
  BY FramesInvNests
<1> QED BY <1>1, <1>2, <1>3, PTL DEF FramesSpec
-----------------------------------------------------------------------------
(* Streams: integers *)

\* Halves, digits and what is left of them.
LEMMA DivisionFacts ==
  ASSUME NEW u \in Nat, NEW n \in Nat \ {0, 1}
  PROVE  /\ u \div n \in Nat /\ u % n \in 0..(n - 1) /\ u = n * (u \div n) + (u % n)
         /\ u >= n => u \div n < u
<1>1. u \div n \in Int /\ u % n \in 0..(n - 1) /\ u = n * (u \div n) + (u % n)
  OBVIOUS
<1>2. u \div n >= 0
  BY <1>1
<1>3. u >= n => u \div n < u
  <2> DEFINE q == u \div n
  <2>1. q \in Nat /\ u % n \in Nat /\ u = n * q + (u % n)
    BY <1>1, <1>2
  <2>2. ASSUME q >= u, u >= n PROVE FALSE
    <3>1. n * q >= 2 * q
      <4> HIDE DEF q
      <4> QED BY <2>1
    <3> HIDE DEF q
    <3> QED BY <2>1, <2>2, <3>1
  <2> QED BY <2>1, <2>2
<1> QED BY <1>1, <1>2, <1>3

\* A size that fits is sent as it is.
LEMMA SmallRemainder ==
  ASSUME NEW m \in Nat \ {0}, NEW n \in Nat, n < m
  PROVE  n % m = n
OBVIOUS

LEMMA ModulusFacts ==
  /\ Modulus \in Nat \ {0} /\ Modulus = 4 * (Modulus \div 4) /\ Modulus \div 4 \in Nat \ {0}
  /\ Modulus \div 2 = 2 * (Modulus \div 4)
  /\ Base \in Nat \ {0, 1} /\ SizeModulus \in Nat \ {0}
BY CodecAssumption

\* A size of no more than 16 bits is put as it is.
LEMMA SmallCondensed ==
  ASSUME NEW n \in Nat, n < SizeModulus
  PROVE  Condense(n) = n
<1>1. SizeModulus <= SizeModulus * SizeModulus
  BY ModulusFacts
<1>2. n < SizeModulus * SizeModulus
  BY <1>1, ModulusFacts
<1> QED BY <1>2 DEF Condense, Folded

\* What zigzag does to an integer that needs one bit less is undone.
LEMMA ZigzagUndone ==
  ASSUME NEW v \in -(Modulus \div 4)..(Modulus \div 4 - 1)
  PROVE  Zigzag(v) \in 0..(Modulus - 1) /\ Unzigzag(Zigzag(v)) = v
<1>1. PICK q : q = Modulus \div 4
  OBVIOUS
<1>2. q \in Nat \ {0} /\ Modulus = 4 * q /\ Modulus \div 2 = 2 * q /\ v \in -q..(q - 1)
  BY <1>1, ModulusFacts
<1>3. CASE v >= 0
  <2>1. (2 * v) % Modulus = 2 * v /\ v \div q = 0
    BY <1>2, <1>3
  <2>2. Zigzag(v) = 2 * v
    BY <1>1, <1>2, <1>3, <2>1 DEF Zigzag, Mixed
  <2>3. Unzigzag(2 * v) = v
    BY <1>2, <1>3 DEF Unzigzag, Mixed
  <2> QED BY <1>2, <1>3, <2>2, <2>3
<1>4. CASE v < 0
  <2>1. (2 * v) % Modulus = 4 * q + 2 * v /\ v \div q = -1
    BY <1>2, <1>4
  <2>2. Zigzag(v) = -1 - 2 * v
    BY <1>1, <1>2, <1>4, <2>1 DEF Zigzag, Mixed
  <2>3. Unzigzag(-1 - 2 * v) = v
    BY <1>2, <1>4 DEF Unzigzag, Mixed
  <2> QED BY <1>2, <1>4, <2>2, <2>3
<1> QED BY <1>2, <1>3, <1>4

\* Whatever an integer is, what zigzag makes of it has as many bits.
LEMMA ZigzagRange ==
  ASSUME NEW v \in -(Modulus \div 2)..(Modulus \div 2 - 1)
  PROVE  Zigzag(v) \in 0..(Modulus - 1)
<1>1. PICK q : q = Modulus \div 4
  OBVIOUS
<1>2. q \in Nat \ {0} /\ Modulus = 4 * q /\ Modulus \div 2 = 2 * q /\ v \in -(2 * q)..(2 * q - 1)
  BY <1>1, ModulusFacts
<1>3. PICK u, s : u = (2 * v) % Modulus /\ s = v \div q
  OBVIOUS
<1>4. u \in 0..(4 * q - 1)
  BY <1>2, <1>3
<1>5. s \in Int
  BY <1>2, <1>3
<1>6. PICK low, high : low = (IF s % 2 = 0 THEN u % 2 ELSE 1 - (u % 2)) /\ high = u - (u % 2)
  OBVIOUS
<1>7. low \in {0, 1} /\ high \in 0..(4 * q - 2)
  <2>1. u = 2 * (u \div 2) + (u % 2) /\ u % 2 \in {0, 1} /\ u \div 2 \in Int
    BY <1>4
  <2> QED BY <1>2, <1>4, <1>6, <2>1
<1>8. Zigzag(v) = IF s < 0 THEN Modulus - 2 - high + low ELSE high + low
  BY <1>1, <1>3, <1>6 DEF Zigzag, Mixed
<1> QED BY <1>2, <1>5, <1>7, <1>8

\* What Digits says of one number, and Number of one list of digits.
LEMMA DigitsSolved ==
  ASSUME NEW u \in 0..(Modulus - 1)
  PROVE  Digits[u] = IF u < Base THEN <<u>> ELSE <<(u % Base) + Base>> \o Digits[u \div Base]
<1>1. PICK P, R, V : /\ P = 0..(Modulus - 1) /\ R = {x \in P \X P : x[1] < x[2]} /\ V = Seq(0..(2 * Base - 1))
  OBVIOUS
<1>2. /\ Modulus \in Nat \ {0} /\ Base \in Nat \ {0, 1} /\ P \subseteq Nat
      /\ \A n \in P : n >= Base => n \div Base \in P /\ <<n \div Base, n>> \in R
  <2>1. ASSUME NEW n \in P, n >= Base PROVE n \div Base \in P /\ <<n \div Base, n>> \in R
    <3>1. n \in Nat /\ n < Modulus
      BY <1>1, <2>1, ModulusFacts
    <3>2. n \div Base \in Nat /\ n \div Base < n
      BY <2>1, <3>1, DivisionFacts, ModulusFacts
    <3>3. PICK d : d = n \div Base
      OBVIOUS
    <3>4. d \in P
      BY <1>1, <3>1, <3>2, <3>3, ModulusFacts
    <3> QED BY <1>1, <2>1, <3>2, <3>3, <3>4
  <2>2. P \subseteq Nat
    BY <1>1, ModulusFacts
  <2> QED BY <2>1, <2>2, ModulusFacts
<1>3. FirstsIn(P, R)
  <2>1. ASSUME NEW T \in SUBSET P, T # {} PROVE \E x \in T : \A y \in T : <<y, x>> \notin R
    <3>1. PICK m \in T : \A k \in T : m <= k
      BY <1>2, <2>1, LeastOf
    <3>2. ASSUME NEW y \in T PROVE <<y, m>> \notin R
      <4>1. m <= y /\ m \in Nat /\ y \in Nat
        BY <1>2, <2>1, <3>1
      <4>2. <<y, m>> \in R => y < m
        BY <1>1
      <4> QED BY <4>1, <4>2
    <3> QED BY <3>2
  <2> QED BY <2>1 DEF FirstsIn
<1>4. PICK Step : Step = [x \in [P -> V] \X P |->
                            IF x[2] < Base THEN <<x[2]>> ELSE <<(x[2] % Base) + Base>> \o x[1][x[2] \div Base]]
  OBVIOUS
<1>5. ASSUME NEW f \in [P -> V], NEW n \in P
      PROVE  Step[<<f, n>>] = IF n < Base THEN <<n>> ELSE <<(n % Base) + Base>> \o f[n \div Base]
  <2>1. <<f, n>> \in [P -> V] \X P /\ <<f, n>>[1] = f /\ <<f, n>>[2] = n
    OBVIOUS
  <2> QED BY <1>4, <2>1
<1>6. Recursive(P, R, V, Step)
  <2>1. ASSUME NEW f \in [P -> V], NEW n \in P PROVE Step[<<f, n>>] \in V
    <3>1. CASE n < Base
      <4>1. n \in 0..(2 * Base - 1)
        BY <1>2, <3>1
      <4>2. <<n>> \in V
        BY <1>1, <4>1
      <4> QED BY <1>5, <3>1, <4>2
    <3>2. CASE ~ (n < Base)
      <4>1. n \in Nat /\ n >= Base /\ n % Base \in 0..(Base - 1)
        BY <1>2, <3>2
      <4>2. (n % Base) + Base \in 0..(2 * Base - 1)
        BY <1>2, <4>1
      <4>3. f[n \div Base] \in Seq(0..(2 * Base - 1))
        BY <1>1, <1>2, <4>1
      <4>4. <<(n % Base) + Base>> \o f[n \div Base] \in V
        BY <1>1, <4>2, <4>3, ConcatProperties
      <4> QED BY <1>5, <3>2, <4>4
    <3> QED BY <3>1, <3>2
  <2>2. ASSUME NEW f \in [P -> V], NEW h \in [P -> V], NEW n \in P, \A k \in P : <<k, n>> \in R => f[k] = h[k]
        PROVE  Step[<<f, n>>] = Step[<<h, n>>]
    <3>1. n >= Base => f[n \div Base] = h[n \div Base]
      BY <1>2, <2>2
    <3>2. n < Base \/ n >= Base
      BY <1>2
    <3> QED BY <1>5, <3>1, <3>2
  <2> QED BY <2>1, <2>2 DEF Recursive
<1>7. PICK f \in [P -> V] : \A n \in P : f[n] = Step[<<f, n>>]
  <2>1. PICK v : v \in V
    <3>1. <<>> \in V
      BY <1>1
    <3> QED BY <3>1
  <2> QED BY <1>3, <1>6, <2>1, RecursionSolved
<1>8. f = [n \in P |-> IF n < Base THEN <<n>> ELSE <<(n % Base) + Base>> \o f[n \div Base]]
  BY <1>5, <1>7
<1>9. Digits = [n \in 0..(Modulus - 1) |-> IF n < Base THEN <<n>> ELSE <<(n % Base) + Base>> \o Digits[n \div Base]]
  BY <1>1, <1>8, Zenon DEF Digits
<1> QED BY <1>9

LEMMA DigitListTail ==
  ASSUME NEW d \in DigitLists, ~ (d[1] < Base)
  PROVE  Tail(d) \in DigitLists /\ Len(Tail(d)) < Len(d)
<1>1. /\ d \in Seq(0..(2 * Base - 1)) /\ d # <<>> /\ Base \in Nat
      /\ \A i \in 1..Len(d) : d[i] < Base <=> i = Len(d)
  BY ModulusFacts DEF DigitLists
<1>2. PICK t : t = Tail(d)
  OBVIOUS
<1>3. /\ Len(d) \in Nat /\ Len(d) > 1 /\ Len(t) = Len(d) - 1 /\ t \in Seq(0..(2 * Base - 1))
      /\ \A i \in 1..Len(t) : t[i] = d[i + 1]
  <2>1. Len(d) \in Nat /\ Len(d) >= 1
    BY <1>1
  <2>2. Len(d) # 1
    BY <1>1, <2>1
  <2> QED BY <1>1, <1>2, <2>1, <2>2
<1>4. t # <<>>
  BY <1>3
<1>5. ASSUME NEW i \in 1..Len(t) PROVE t[i] < Base <=> i = Len(t)
  <2>1. i + 1 \in 1..Len(d) /\ t[i] = d[i + 1] /\ (i + 1 = Len(d) <=> i = Len(t))
    BY <1>3
  <2> QED BY <1>1, <2>1
<1>6. t \in DigitLists
  <2>1. DOMAIN t = 1..Len(t)
    BY <1>3
  <2> QED BY <1>3, <1>4, <1>5, <2>1 DEF DigitLists
<1> QED BY <1>2, <1>3, <1>6

LEMMA NumberSolved ==
  ASSUME NEW d \in DigitLists
  PROVE  Number[d] = IF d[1] < Base THEN d[1] ELSE ((d[1] - Base) + Base * Number[Tail(d)]) % Modulus
<1>1. PICK P, R, V : /\ P = DigitLists /\ R = {x \in P \X P : Len(x[1]) < Len(x[2])} /\ V = Nat
  OBVIOUS
<1>2. /\ Modulus \in Nat \ {0} /\ Base \in Nat \ {0, 1} /\ \A s \in P : Len(s) \in Nat
      /\ \A s \in P : s[1] \in Nat
      /\ \A s \in P : ~ (s[1] < Base) => Tail(s) \in P /\ <<Tail(s), s>> \in R
  <2>1. ASSUME NEW s \in P PROVE Len(s) \in Nat /\ s[1] \in Nat
    <3>1. s \in Seq(0..(2 * Base - 1)) /\ s # <<>>
      BY <1>1 DEF DigitLists
    <3> QED BY <3>1, ModulusFacts
  <2>2. ASSUME NEW s \in P, ~ (s[1] < Base) PROVE Tail(s) \in P /\ <<Tail(s), s>> \in R
    BY <1>1, <2>2, DigitListTail
  <2> QED BY <2>1, <2>2, ModulusFacts
<1>3. FirstsIn(P, R)
  <2>1. ASSUME NEW T \in SUBSET P, T # {} PROVE \E x \in T : \A y \in T : <<y, x>> \notin R
    <3> DEFINE L == {Len(s) : s \in T}
    <3>1. L \in SUBSET Nat /\ L # {}
      BY <1>2, <2>1
    <3>2. PICK m \in L : \A k \in L : m <= k
      <4> HIDE DEF L
      <4> QED BY <3>1, LeastOf
    <3>3. PICK x \in T : m = Len(x)
      OBVIOUS
    <3>4. ASSUME NEW y \in T PROVE <<y, x>> \notin R
      <4>1. Len(x) <= Len(y) /\ Len(x) \in Nat /\ Len(y) \in Nat
        BY <1>2, <2>1, <3>2, <3>3
      <4>2. <<y, x>> \in R => Len(y) < Len(x)
        BY <1>1
      <4> QED BY <4>1, <4>2
    <3> QED BY <3>4
  <2> QED BY <2>1 DEF FirstsIn
<1>4. PICK Step : Step = [x \in [P -> V] \X P |->
                            IF x[2][1] < Base THEN x[2][1] ELSE ((x[2][1] - Base) + Base * x[1][Tail(x[2])]) % Modulus]
  OBVIOUS
<1>5. ASSUME NEW f \in [P -> V], NEW s \in P
      PROVE  Step[<<f, s>>] = IF s[1] < Base THEN s[1] ELSE ((s[1] - Base) + Base * f[Tail(s)]) % Modulus
  <2>1. <<f, s>> \in [P -> V] \X P /\ <<f, s>>[1] = f /\ <<f, s>>[2] = s
    OBVIOUS
  <2> QED BY <1>4, <2>1
<1>6. Recursive(P, R, V, Step)
  <2>1. ASSUME NEW f \in [P -> V], NEW s \in P PROVE Step[<<f, s>>] \in V
    <3>1. CASE s[1] < Base
      BY <1>1, <1>2, <1>5, <3>1
    <3>2. CASE ~ (s[1] < Base)
      <4>1. PICK k : k = f[Tail(s)]
        OBVIOUS
      <4>2. k \in Nat /\ s[1] - Base \in Int
        <5>1. Tail(s) \in P /\ s[1] \in Nat
          BY <1>2, <3>2
        <5> QED BY <1>1, <1>2, <4>1, <5>1
      <4>3. Base * k \in Int
        BY <1>2, <4>2
      <4>4. ((s[1] - Base) + Base * k) % Modulus \in Nat
        BY <1>2, <4>2, <4>3
      <4> QED BY <1>1, <1>5, <3>2, <4>1, <4>4
    <3> QED BY <3>1, <3>2
  <2>2. ASSUME NEW f \in [P -> V], NEW h \in [P -> V], NEW s \in P, \A k \in P : <<k, s>> \in R => f[k] = h[k]
        PROVE  Step[<<f, s>>] = Step[<<h, s>>]
    <3>1. ~ (s[1] < Base) => f[Tail(s)] = h[Tail(s)]
      BY <1>2, <2>2
    <3> QED BY <1>5, <3>1
  <2> QED BY <2>1, <2>2 DEF Recursive
<1>7. PICK f \in [P -> V] : \A s \in P : f[s] = Step[<<f, s>>]
  <2>1. PICK v : v \in V
    BY <1>1
  <2> QED BY <1>3, <1>6, <2>1, RecursionSolved
<1>8. f = [s \in P |-> IF s[1] < Base THEN s[1] ELSE ((s[1] - Base) + Base * f[Tail(s)]) % Modulus]
  BY <1>5, <1>7
<1>9. Number = [s \in DigitLists |-> IF s[1] < Base THEN s[1] ELSE ((s[1] - Base) + Base * Number[Tail(s)]) % Modulus]
  BY <1>1, <1>8, Zenon DEF Number
<1> QED BY <1>9

\* The digits of a number give it back.
LEMMA DigitsGiveNumber == \A u \in 0..(Modulus - 1) : Digits[u] \in DigitLists /\ Number[Digits[u]] = u
<1> DEFINE T == {u \in 0..(Modulus - 1) : ~ (Digits[u] \in DigitLists /\ Number[Digits[u]] = u)}
<1> SUFFICES ASSUME T # {} PROVE FALSE
  OBVIOUS
<1>1. T \in SUBSET Nat
  BY ModulusFacts
<1>2. PICK u \in T : \A k \in T : u <= k
  <2> HIDE DEF T
  <2> QED BY <1>1, LeastOf
<1>3. u \in 0..(Modulus - 1) /\ ~ (Digits[u] \in DigitLists /\ Number[Digits[u]] = u)
  OBVIOUS
<1>4. u \in Nat /\ u < Modulus /\ Modulus \in Nat \ {0} /\ Base \in Nat \ {0, 1}
  BY <1>3, ModulusFacts
<1>5. CASE u < Base
  <2>1. Digits[u] = <<u>>
    BY <1>3, <1>5, DigitsSolved
  <2>2. u \in 0..(2 * Base - 1)
    BY <1>4, <1>5
  <2>3. <<u>> \in Seq(0..(2 * Base - 1)) /\ <<u>> # <<>> /\ DOMAIN <<u>> = {1} /\ Len(<<u>>) = 1 /\ <<u>>[1] = u
    BY <2>2
  <2>4. <<u>> \in DigitLists
    BY <1>5, <2>3 DEF DigitLists
  <2> QED BY <1>3, <1>5, <2>1, <2>3, <2>4, NumberSolved
<1>6. CASE ~ (u < Base)
  <2>1. PICK q, m, d : q = u \div Base /\ m = u % Base /\ d = Digits[q]
    OBVIOUS
  <2>2. q \in Nat /\ m \in 0..(Base - 1) /\ u = Base * q + m /\ q < u
    <3>1. u >= Base
      BY <1>4, <1>6
    <3>2. /\ u \div Base \in Nat /\ u % Base \in 0..(Base - 1) /\ u = Base * (u \div Base) + (u % Base)
          /\ u \div Base < u
      BY <1>4, <3>1, DivisionFacts
    <3> QED BY <2>1, <3>2
  <2>3. q \in 0..(Modulus - 1) /\ q \notin T
    <3>1. q \in 0..(Modulus - 1)
      BY <1>4, <2>2
    <3>2. ~ (u <= q)
      BY <1>4, <2>2
    <3> HIDE DEF T
    <3> QED BY <1>2, <3>1, <3>2
  <2>4. d \in DigitLists /\ Number[d] = q
    BY <2>1, <2>3
  <2>5. PICK e : e = <<m + Base>> \o d
    OBVIOUS
  <2>6. Digits[u] = e
    BY <1>3, <1>6, <2>1, <2>5, DigitsSolved
  <2>7. /\ d \in Seq(0..(2 * Base - 1)) /\ d # <<>> /\ Len(d) \in Nat
        /\ \A i \in 1..Len(d) : d[i] < Base <=> i = Len(d)
    BY <2>4 DEF DigitLists
  <2>8. m + Base \in 0..(2 * Base - 1)
    BY <1>4, <2>2
  <2>9. /\ e \in Seq(0..(2 * Base - 1)) /\ Len(e) = Len(d) + 1 /\ e[1] = m + Base
        /\ \A i \in 1..Len(d) : e[i + 1] = d[i]
    BY <2>5, <2>7, <2>8
  <2>10. Tail(e) = d
    BY <2>5, <2>7, <2>8
  <2>11. e \in DigitLists
    <3>1. DOMAIN e = 1..Len(e) /\ e # <<>> /\ Len(d) >= 1
      BY <2>7, <2>9
    <3>2. ASSUME NEW i \in 1..Len(e) PROVE e[i] < Base <=> i = Len(e)
      <4>1. CASE i = 1
        BY <1>4, <2>2, <2>7, <2>9, <3>1, <4>1
      <4>2. CASE i # 1
        <5>1. i - 1 \in 1..Len(d) /\ e[(i - 1) + 1] = d[i - 1] /\ (i - 1) + 1 = i
          BY <2>7, <2>9, <4>2
        <5> QED BY <2>7, <2>9, <5>1
      <4> QED BY <4>1, <4>2
    <3> QED BY <2>9, <3>1, <3>2 DEF DigitLists
  <2>12. Number[e] = ((e[1] - Base) + Base * q) % Modulus
    <3>1. ~ (e[1] < Base)
      BY <1>4, <2>2, <2>9
    <3> QED BY <2>4, <2>10, <2>11, <3>1, NumberSolved
  <2>13. Base * q \in Int /\ (e[1] - Base) + Base * q = u
    BY <1>4, <2>2, <2>9
  <2>14. u % Modulus = u
    BY <1>4
  <2> QED BY <1>3, <2>6, <2>11, <2>12, <2>13, <2>14
<1> QED BY <1>5, <1>6

-----------------------------------------------------------------------------
(* What the writer does, alone: its configurations *)

AllValues == UNION {Values[t] : t \in DOMAIN Shape}

WriterSteps ==
  {Restore} \cup
  {p \in [op : {"put", "raw", "enter"}, type : DOMAIN Shape, value : AllValues] :
     /\ p.value \in Values[p.type] /\ (p.op = "raw" => Simple(p.type))
     /\ p.op = "enter" => Tagged(p.type) /\ ~Simple(p.type)}

RawToken(t, v) ==
  IF IsInteger(Shape[t].kind) THEN IntegerToken(Shape[t].kind, v) ELSE Token("plain", <<t, v>>)

Wire ==
  [kind : {"tag", "digits", "plain", "size"},
   content : (DOMAIN Shape) \cup DigitLists \cup ((DOMAIN Shape) \X AllValues) \cup {Condense(n) : n \in Nat}]

SentLeaves == (DOMAIN Shape) \X (AllValues \cup Nat)

\* What comes in the place of an instruction, how deep the writer is then, and what the
\* instruction puts on the wire and among what was sent.
Becomes(p) ==
  IF p.op = "put" THEN Body(p.type, p.value)
  ELSE IF p.op = "enter" THEN Append(PutParts(p.type, p.value), Restore) ELSE <<>>
DepthAfter(p, n) == IF p.op = "enter" THEN n + 1 ELSE IF p.op = "leave" THEN n - 1 ELSE n
Emitted(p, n) ==
  IF p.op = "put" THEN IF Tagged(p.type) /\ n = 0 THEN <<Token("tag", Tag(p.type))>> ELSE <<>>
  ELSE IF p.op = "raw" THEN <<RawToken(p.type, p.value)>>
  ELSE IF p.op = "enter" /\ Shape[p.type].kind = "range" THEN <<Token("size", Condense(Len(p.value)))>>
  ELSE <<>>
Shown(p) ==
  IF p.op = "raw" THEN <<<<p.type, p.value>>>>
  ELSE IF p.op = "enter" /\ Shape[p.type].kind = "range" THEN <<<<p.type, Len(p.value)>>>> ELSE <<>>

\* The values that are still to be written or read, from the k-th one on.
Puts(x) == [i \in DOMAIN x.values |-> Put(x.values[i].type, x.values[i].value)]
Gets(x) == [i \in DOMAIN x.expected |-> Get(x.expected[i])]
\* inner: instructions within the values begun; at: the value that comes next; depth: how many
\* values have been entered; tokens, sent: all that was put on the wire and sent so far.
Configurations(x) ==
  {c \in [inner : Seq(WriterSteps), at : 1..(Len(x.values) + 1), depth : Nat, tokens : Seq(Wire), sent : Seq(SentLeaves)] :
     Nested(c.inner, c.depth)}

Start == [inner |-> <<>>, at |-> 1, depth |-> 0, tokens |-> <<>>, sent |-> <<>>]

\* All that the writer has to do at c.
All(x, c) == c.inner \o FromOn(Puts(x), c.at)

Stops(x, c) == c.inner = <<>> /\ c.at > Len(x.values)

\* What comes next, and what is left then.
Due(x, c) == IF c.inner = <<>> THEN Puts(x)[c.at] ELSE Head(c.inner)
Left(c) == IF c.inner = <<>> THEN <<>> ELSE Tail(c.inner)
Following(c) == IF c.inner = <<>> THEN c.at + 1 ELSE c.at

After(x, c) ==
  IF Stops(x, c) THEN c
  ELSE [inner |-> Becomes(Due(x, c)) \o Left(c), at |-> Following(c), depth |-> DepthAfter(Due(x, c), c.depth),
        tokens |-> c.tokens \o Emitted(Due(x, c), c.depth), sent |-> c.sent \o Shown(Due(x, c))]

IsWritten(x, f) == f \in [Nat -> Configurations(x)] /\ f[0] = Start /\ \A k \in Nat : f[k + 1] = After(x, f[k])
Written(x) == CHOOSE f : IsWritten(x, f)

\* What was put on the wire and sent stays, and nothing is sent without a token.
Precedes(x, c, e) ==
  \E new \in Seq(Wire), more \in Seq(SentLeaves) :
    /\ e.tokens = c.tokens \o new /\ e.sent = c.sent \o more
    /\ new = <<>> => more = <<>>
    /\ Stops(x, c) => e = c

ReaderSteps == {Restore} \cup [op : {"get", "rawget", "enterget"}, type : DOMAIN Shape]

\* What the reader does when the writer does p, and at c.
AnswerTo(p) ==
  IF p.op = "put" THEN Get(p.type) ELSE IF p.op = "raw" THEN RawGet(p.type)
  ELSE IF p.op = "enter" THEN EnterGet(p.type) ELSE Restore
Reading(list) == [i \in DOMAIN list |-> AnswerTo(list[i])]
Back(x, c) == Reading(c.inner) \o FromOn(Gets(x), c.at)

\* What is saved n values deep.
SavedAt(n) == [i \in 1..n |-> IF i > 1 THEN TRUE ELSE FALSE]

-----------------------------------------------------------------------------
(* Instructions *)

LEMMA ShapeFacts ==
  ASSUME NEW t \in DOMAIN Shape
  PROVE  /\ Shape[t].kind \in {"signed", "unsigned", "plain", "range", "parts"}
         /\ Shape[t].kind = "signed" => Values[t] \subseteq -(Modulus \div 2)..(Modulus \div 2 - 1)
         /\ Shape[t].kind = "unsigned" => Values[t] \subseteq 0..(Modulus - 1)
         /\ Shape[t].kind = "range" => /\ Shape[t].keeps \in BOOLEAN /\ Shape[t].of \in DOMAIN Shape
                                       /\ Values[t] \subseteq Seq(Values[Shape[t].of])
         /\ Shape[t].kind = "parts" =>
              /\ Shape[t].pair \in BOOLEAN /\ Shape[t].of \in Seq(DOMAIN Shape)
              /\ \A v \in Values[t] : /\ v = [i \in DOMAIN Shape[t].of |-> v[i]]
                                      /\ \A i \in DOMAIN Shape[t].of : v[i] \in Values[Shape[t].of[i]]
BY CodecAssumption

LEMMA ValueIn ==
  ASSUME NEW t \in DOMAIN Shape, NEW v \in Values[t]
  PROVE  v \in AllValues
BY Zenon DEF AllValues

LEMMA StepKinds ==
  ASSUME NEW p \in WriterSteps
  PROVE  \/ p = Restore
         \/ \E t \in DOMAIN Shape : \E v \in Values[t] : p = Put(t, v)
         \/ \E t \in DOMAIN Shape : Simple(t) /\ \E v \in Values[t] : p = Raw(t, v)
         \/ \E t \in DOMAIN Shape : Tagged(t) /\ ~Simple(t) /\ \E v \in Values[t] : p = Enter(t, v)
<1>1. CASE p # Restore
  <2>1. /\ p \in [op : {"put", "raw", "enter"}, type : DOMAIN Shape, value : AllValues]
        /\ p.value \in Values[p.type] /\ (p.op = "raw" => Simple(p.type))
        /\ p.op = "enter" => Tagged(p.type) /\ ~Simple(p.type)
    BY <1>1 DEF WriterSteps
  <2>2. p.type \in DOMAIN Shape /\ p.op \in {"put", "raw", "enter"}
    BY <2>1
  <2>3. p = [op |-> p.op, type |-> p.type, value |-> p.value]
    BY <2>1
  <2>4. CASE p.op = "put"
    BY <2>1, <2>2, <2>3, <2>4 DEF Put
  <2>5. CASE p.op = "raw"
    BY <2>1, <2>2, <2>3, <2>5 DEF Raw
  <2>6. CASE p.op = "enter"
    BY <2>1, <2>2, <2>3, <2>6 DEF Enter
  <2> QED BY <2>2, <2>4, <2>5, <2>6
<1> QED BY <1>1

LEMMA StepFields ==
  /\ Restore.op = "leave" /\ Restore \in WriterSteps
  /\ \A t, v : /\ Put(t, v).op = "put" /\ Put(t, v).type = t /\ Put(t, v).value = v
               /\ Raw(t, v).op = "raw" /\ Raw(t, v).type = t /\ Raw(t, v).value = v
               /\ Enter(t, v).op = "enter" /\ Enter(t, v).type = t /\ Enter(t, v).value = v
  /\ \A t \in DOMAIN Shape : \A v \in Values[t] :
       /\ Put(t, v) \in WriterSteps
       /\ Simple(t) => Raw(t, v) \in WriterSteps
       /\ Tagged(t) /\ ~Simple(t) => Enter(t, v) \in WriterSteps
<1>1. Restore.op = "leave" /\ Restore \in WriterSteps
  BY DEF WriterSteps, Restore
<1>2. \A t, v : /\ Put(t, v).op = "put" /\ Put(t, v).type = t /\ Put(t, v).value = v
               /\ Raw(t, v).op = "raw" /\ Raw(t, v).type = t /\ Raw(t, v).value = v
               /\ Enter(t, v).op = "enter" /\ Enter(t, v).type = t /\ Enter(t, v).value = v
  BY DEF Put, Raw, Enter
<1>3. ASSUME NEW t \in DOMAIN Shape, NEW v \in Values[t]
      PROVE  /\ Put(t, v) \in WriterSteps
             /\ Simple(t) => Raw(t, v) \in WriterSteps
             /\ Tagged(t) /\ ~Simple(t) => Enter(t, v) \in WriterSteps
  <2>1. ASSUME NEW o \in {"put", "raw", "enter"}
        PROVE  [op |-> o, type |-> t, value |-> v] \in [op : {"put", "raw", "enter"}, type : DOMAIN Shape, value : AllValues]
    BY ValueIn
  <2>2. Put(t, v) \in WriterSteps
    BY <2>1 DEF Put, WriterSteps
  <2>3. Simple(t) => Raw(t, v) \in WriterSteps
    BY <2>1 DEF Raw, WriterSteps
  <2>4. Tagged(t) /\ ~Simple(t) => Enter(t, v) \in WriterSteps
    BY <2>1 DEF Enter, WriterSteps
  <2> QED BY <2>2, <2>3, <2>4
<1> QED BY <1>1, <1>2, <1>3

LEMMA PartsFacts ==
  ASSUME NEW t \in DOMAIN Shape, ~Simple(t), NEW v \in Values[t]
  PROVE  \E n \in Nat :
           /\ DOMAIN v = 1..n /\ (Shape[t].kind = "range" => Len(v) = n)
           /\ Shape[t].kind = "parts" => DOMAIN Shape[t].of = 1..n
           /\ PutParts(t, v) \in Seq(WriterSteps) /\ Len(PutParts(t, v)) = n
           /\ \A i \in 1..n : PutParts(t, v)[i] = Put(PartType(t, i), v[i])
<1>1. PICK n \in Nat : /\ DOMAIN v = 1..n /\ (Shape[t].kind = "range" => Len(v) = n)
                       /\ Shape[t].kind = "parts" => DOMAIN Shape[t].of = 1..n
                       /\ \A i \in 1..n : PartType(t, i) \in DOMAIN Shape /\ v[i] \in Values[PartType(t, i)]
  <2>1. CASE Shape[t].kind = "range"
    <3>1. v \in Seq(Values[Shape[t].of]) /\ Shape[t].of \in DOMAIN Shape
      BY <2>1, ShapeFacts
    <3>2. Len(v) \in Nat /\ DOMAIN v = 1..Len(v) /\ \A i \in 1..Len(v) : v[i] \in Values[Shape[t].of]
      BY <3>1
    <3> QED BY <2>1, <3>1, <3>2 DEF PartType
  <2>2. CASE Shape[t].kind = "parts"
    <3>1. PICK of : of = Shape[t].of
      OBVIOUS
    <3>2. of \in Seq(DOMAIN Shape) /\ v = [i \in DOMAIN of |-> v[i]] /\ \A i \in DOMAIN of : v[i] \in Values[of[i]]
      BY <2>2, <3>1, ShapeFacts
    <3>3. Len(of) \in Nat /\ DOMAIN of = 1..Len(of) /\ \A i \in 1..Len(of) : of[i] \in DOMAIN Shape
      BY <3>2
    <3>4. DOMAIN v = DOMAIN of
      BY <3>2
    <3> QED BY <2>2, <3>1, <3>2, <3>3, <3>4 DEF PartType
  <2> QED BY <2>1, <2>2, ShapeFacts DEF Simple
<1>2. PICK s : s = PutParts(t, v)
  OBVIOUS
<1>3. s = [i \in 1..n |-> Put(PartType(t, i), v[i])]
  BY <1>1, <1>2 DEF PutParts
<1>4. \A i \in 1..n : Put(PartType(t, i), v[i]) \in WriterSteps
  BY <1>1, StepFields
<1>5. s \in Seq(WriterSteps) /\ Len(s) = n /\ \A i \in 1..n : s[i] = Put(PartType(t, i), v[i])
  BY <1>3, <1>4
<1> QED BY <1>1, <1>2, <1>5

\* What comes in the place of an instruction, and that it keeps the values entered.
LEMMA BecomesFacts ==
  ASSUME NEW p \in WriterSteps, NEW rest \in Seq(WriterSteps), NEW n \in Nat,
         p.op = "leave" => n >= 1 /\ Nested(rest, n - 1), p.op # "leave" => Nested(rest, n)
  PROVE  /\ Becomes(p) \in Seq(WriterSteps) /\ DepthAfter(p, n) \in Nat
         /\ Becomes(p) \o rest \in Seq(WriterSteps) /\ Nested(Becomes(p) \o rest, DepthAfter(p, n))
<1>0. ASSUME NEW t \in DOMAIN Shape, ~Simple(t), NEW v \in Values[t]
      PROVE  PutParts(t, v) \in Seq(WriterSteps) /\ \A i \in 1..Len(PutParts(t, v)) : PutParts(t, v)[i].op # "leave"
  <2>1. PICK k \in Nat : /\ PutParts(t, v) \in Seq(WriterSteps) /\ Len(PutParts(t, v)) = k
                         /\ \A i \in 1..k : PutParts(t, v)[i] = Put(PartType(t, i), v[i])
    BY <1>0, PartsFacts
  <2>2. \A i \in 1..k : PutParts(t, v)[i].op = "put"
    BY <2>1, StepFields
  <2> QED BY <2>1, <2>2
<1>1. CASE p = Restore
  <2>1. Becomes(p) = <<>> /\ DepthAfter(p, n) = n - 1 /\ p.op = "leave"
    BY <1>1, StepFields DEF Becomes, DepthAfter
  <2>2. <<>> \o rest = rest /\ n - 1 \in Nat /\ Nested(rest, n - 1)
    BY <2>1, ConcatEmptySeq
  <2>3. <<>> \in Seq(WriterSteps)
    OBVIOUS
  <2> QED BY Zenon, <2>1, <2>2, <2>3
<1>2. ASSUME NEW t \in DOMAIN Shape, NEW v \in Values[t], p = Put(t, v)
      PROVE  /\ Becomes(p) \in Seq(WriterSteps) /\ DepthAfter(p, n) \in Nat
             /\ Becomes(p) \o rest \in Seq(WriterSteps) /\ Nested(Becomes(p) \o rest, DepthAfter(p, n))
  <2>1. Becomes(p) = Body(t, v) /\ DepthAfter(p, n) = n /\ Nested(rest, n)
    BY <1>2, StepFields DEF Becomes, DepthAfter
  <2>2. PICK s : s = Body(t, v)
    OBVIOUS
  <2>3. s \in Seq(WriterSteps) /\ \A i \in 1..Len(s) : s[i].op # "leave"
    <3>1. CASE Simple(t)
      <4>1. s = <<Raw(t, v)>>
        BY <2>2, <3>1 DEF Body
      <4>2. Raw(t, v) \in WriterSteps /\ Raw(t, v).op # "leave"
        BY <3>1, StepFields
      <4> QED BY <4>1, <4>2
    <3>2. CASE ~Simple(t) /\ Tagged(t)
      <4>1. s = <<Enter(t, v)>>
        BY <2>2, <3>2 DEF Body
      <4>2. Enter(t, v) \in WriterSteps /\ Enter(t, v).op # "leave"
        BY <3>2, StepFields
      <4> QED BY <4>1, <4>2
    <3>3. CASE ~Simple(t) /\ ~Tagged(t)
      <4>1. s = PutParts(t, v)
        BY <2>2, <3>3 DEF Body
      <4> QED BY <1>0, <3>3, <4>1
    <3> QED BY <3>1, <3>2, <3>3
  <2>4. s \o rest \in Seq(WriterSteps) /\ Nested(s \o rest, n)
    BY <2>1, <2>3, NestedBefore, ConcatProperties
  <2> QED BY Zenon, <2>1, <2>2, <2>3, <2>4
<1>3. ASSUME NEW t \in DOMAIN Shape, NEW v \in Values[t], p = Raw(t, v)
      PROVE  /\ Becomes(p) \in Seq(WriterSteps) /\ DepthAfter(p, n) \in Nat
             /\ Becomes(p) \o rest \in Seq(WriterSteps) /\ Nested(Becomes(p) \o rest, DepthAfter(p, n))
  <2>1. Becomes(p) = <<>> /\ DepthAfter(p, n) = n /\ p.op # "leave"
    BY <1>3, StepFields DEF Becomes, DepthAfter
  <2>2. <<>> \o rest = rest /\ Nested(rest, n)
    BY <2>1, ConcatEmptySeq
  <2>3. <<>> \in Seq(WriterSteps)
    OBVIOUS
  <2> QED BY Zenon, <2>1, <2>2, <2>3
<1>4. ASSUME NEW t \in DOMAIN Shape, ~Simple(t), NEW v \in Values[t], p = Enter(t, v)
      PROVE  /\ Becomes(p) \in Seq(WriterSteps) /\ DepthAfter(p, n) \in Nat
             /\ Becomes(p) \o rest \in Seq(WriterSteps) /\ Nested(Becomes(p) \o rest, DepthAfter(p, n))
  <2>1. Becomes(p) = Append(PutParts(t, v), Restore) /\ DepthAfter(p, n) = n + 1 /\ Nested(rest, n)
    BY <1>4, StepFields DEF Becomes, DepthAfter
  <2>2. PICK s : s = PutParts(t, v)
    OBVIOUS
  <2>3. s \in Seq(WriterSteps) /\ \A i \in 1..Len(s) : s[i].op # "leave"
    BY <1>0, <1>4, <2>2
  <2>4. PICK tail : tail = <<Restore>> \o rest
    OBVIOUS
  <2>5. <<Restore>> \in Seq(WriterSteps) /\ tail \in Seq(WriterSteps)
    BY <2>4, StepFields, ConcatProperties
  <2>6. Nested(tail, n + 1)
    BY <2>1, <2>4, NestedLeave, StepFields
  <2>7. s \o tail \in Seq(WriterSteps) /\ Nested(s \o tail, n + 1)
    BY <2>3, <2>5, <2>6, NestedBefore, ConcatProperties
  <2>8. Append(s, Restore) \in Seq(WriterSteps) /\ Append(s, Restore) \o rest = s \o tail
    <3>1. Append(s, Restore) = s \o <<Restore>> /\ Append(s, Restore) \in Seq(WriterSteps)
      BY <2>3, <2>5, StepFields, AppendIsConcat
    <3>2. (s \o <<Restore>>) \o rest = s \o (<<Restore>> \o rest)
      BY <2>3, <2>5, ConcatAssociative
    <3> QED BY Zenon, <2>4, <3>1, <3>2
  <2>9. n + 1 \in Nat
    OBVIOUS
  <2> QED BY Zenon, <2>1, <2>2, <2>7, <2>8, <2>9
<1> QED BY <1>0, <1>1, <1>2, <1>3, <1>4, StepKinds

LEMMA EmittedFacts ==
  ASSUME NEW p \in WriterSteps, NEW n \in Nat
  PROVE  /\ Emitted(p, n) \in Seq(Wire) /\ Shown(p) \in Seq(SentLeaves)
         /\ Emitted(p, n) = <<>> => Shown(p) = <<>>
<1>0. <<>> \in Seq(Wire) /\ <<>> \in Seq(SentLeaves)
  OBVIOUS
<1>1. CASE p = Restore
  <2>1. Emitted(p, n) = <<>> /\ Shown(p) = <<>>
    BY <1>1, StepFields DEF Emitted, Shown
  <2> QED BY Zenon, <1>0, <2>1
<1>2. ASSUME NEW t \in DOMAIN Shape, NEW v \in Values[t], p = Put(t, v)
      PROVE  Emitted(p, n) \in Seq(Wire) /\ Shown(p) = <<>>
  <2>1. Emitted(p, n) \in {<<Token("tag", Tag(t))>>, <<>>} /\ Shown(p) = <<>>
    BY <1>2, StepFields DEF Emitted, Shown
  <2>2. Token("tag", Tag(t)) \in Wire
    BY CodecAssumption DEF Wire, Token, Tag
  <2>3. <<Token("tag", Tag(t))>> \in Seq(Wire)
    BY <2>2
  <2> QED BY Zenon, <1>0, <2>1, <2>3
<1>3. ASSUME NEW t \in DOMAIN Shape, NEW v \in Values[t], Simple(t), p = Raw(t, v)
      PROVE  Emitted(p, n) \in Seq(Wire) /\ Emitted(p, n) # <<>> /\ Shown(p) \in Seq(SentLeaves)
  <2>1. Emitted(p, n) = <<RawToken(t, v)>> /\ Shown(p) = <<<<t, v>>>>
    BY <1>3, StepFields DEF Emitted, Shown
  <2>2. <<t, v>> \in SentLeaves
    BY ValueIn DEF SentLeaves
  <2>3. RawToken(t, v) \in Wire
    <3>1. CASE ~ IsInteger(Shape[t].kind)
      <4>1. <<t, v>> \in (DOMAIN Shape) \X AllValues
        BY ValueIn
      <4> QED BY <3>1, <4>1 DEF RawToken, Wire, Token
    <3>2. CASE IsInteger(Shape[t].kind)
      <4>1. PICK u : u = IF Shape[t].kind = "signed" THEN Zigzag(v) ELSE v
        OBVIOUS
      <4>2. u \in 0..(Modulus - 1)
        BY <3>2, <4>1, ShapeFacts, ZigzagRange DEF IsInteger
      <4>3. Digits[u] \in DigitLists
        BY <4>2, DigitsGiveNumber
      <4>4. RawToken(t, v) = Token("digits", Digits[u])
        BY <3>2, <4>1 DEF RawToken, IntegerToken
      <4> QED BY <4>3, <4>4 DEF Wire, Token
    <3> QED BY <3>1, <3>2
  <2> QED BY <2>1, <2>2, <2>3
<1>4. ASSUME NEW t \in DOMAIN Shape, NEW v \in Values[t], ~Simple(t), p = Enter(t, v)
      PROVE  /\ Emitted(p, n) \in Seq(Wire) /\ Shown(p) \in Seq(SentLeaves)
             /\ Emitted(p, n) = <<>> => Shown(p) = <<>>
  <2>1. CASE Shape[t].kind = "range"
    <3>1. Emitted(p, n) = <<Token("size", Condense(Len(v)))>> /\ Shown(p) = <<<<t, Len(v)>>>>
      BY <1>4, <2>1, StepFields DEF Emitted, Shown
    <3>2. v \in Seq(Values[Shape[t].of])
      BY <2>1, ShapeFacts
    <3>3. Len(v) \in Nat /\ Condense(Len(v)) \in {Condense(m) : m \in Nat}
      BY <3>2
    <3>4. Token("size", Condense(Len(v))) \in Wire /\ <<t, Len(v)>> \in SentLeaves
      BY <3>3 DEF Wire, SentLeaves, Token
    <3> QED BY <3>1, <3>4
  <2>2. CASE Shape[t].kind # "range"
    <3>1. Emitted(p, n) = <<>> /\ Shown(p) = <<>>
      BY <1>4, <2>2, StepFields DEF Emitted, Shown
    <3> QED BY Zenon, <1>0, <3>1
  <2> QED BY Zenon, <2>1, <2>2
<1> QED BY <1>0, <1>1, <1>2, <1>3, <1>4, StepKinds

-----------------------------------------------------------------------------
(* The configurations of the writer, one after the other *)

LEMMA TransferFacts ==
  ASSUME NEW x \in Transfers
  PROVE  /\ x.duplex \in BOOLEAN /\ x.expected \in Seq(DOMAIN Shape)
         /\ Len(x.values) \in Nat /\ DOMAIN x.values = 1..Len(x.values)
         /\ \A i \in 1..Len(x.values) : x.values[i].type \in DOMAIN Shape /\ x.values[i].value \in Values[x.values[i].type]
         /\ Puts(x) \in Seq(WriterSteps) /\ Len(Puts(x)) = Len(x.values)
         /\ \A i \in 1..Len(x.values) : Puts(x)[i] = Put(x.values[i].type, x.values[i].value)
<1>1. PICK n, vs : n = Len(x.values) /\ vs = x.values
  OBVIOUS
<1>2. /\ x.duplex \in BOOLEAN /\ x.expected \in Seq(DOMAIN Shape)
      /\ n \in Nat /\ vs = [i \in 1..n |-> vs[i]]
      /\ \A i \in DOMAIN vs : vs[i].type \in DOMAIN Shape /\ vs[i].value \in Values[vs[i].type]
  BY <1>1, CodecAssumption
<1>3. DOMAIN vs = 1..n
  BY <1>2
<1>4. \A i \in 1..n : Put(vs[i].type, vs[i].value) \in WriterSteps
  BY <1>2, <1>3, StepFields
<1>5. PICK s : s = Puts(x)
  OBVIOUS
<1>6. s = [i \in 1..n |-> Put(vs[i].type, vs[i].value)]
  BY <1>1, <1>3, <1>5 DEF Puts
<1>7. s \in Seq(WriterSteps) /\ Len(s) = n /\ \A i \in 1..n : s[i] = Put(vs[i].type, vs[i].value)
  <2>1. n \in Nat
    BY <1>2
  <2> QED BY <2>1, <1>4, <1>6
<1> QED BY <1>1, <1>2, <1>3, <1>5, <1>7

LEMMA ConfigurationFacts ==
  ASSUME NEW x, NEW c \in Configurations(x)
  PROVE  /\ c.inner \in Seq(WriterSteps) /\ c.at \in 1..(Len(x.values) + 1) /\ c.depth \in Nat
         /\ c.tokens \in Seq(Wire) /\ c.sent \in Seq(SentLeaves) /\ Nested(c.inner, c.depth)
BY DEF Configurations

LEMMA StartFacts ==
  ASSUME NEW x \in Transfers
  PROVE  Start \in Configurations(x)
<1>1. Nested(<<>>, 0) /\ Len(x.values) \in Nat
  BY NestedNone, TransferFacts
<1>2. <<>> \in Seq(WriterSteps) /\ <<>> \in Seq(Wire) /\ <<>> \in Seq(SentLeaves) /\ 1 \in 1..(Len(x.values) + 1)
  BY <1>1
<1> QED BY <1>1, <1>2 DEF Start, Configurations

\* A writer that has something to do does the first of it.
LEMMA AfterFacts ==
  ASSUME NEW x \in Transfers, NEW c \in Configurations(x), ~Stops(x, c), NEW p, p = Due(x, c),
         NEW e, e = After(x, c)
  PROVE  /\ p \in WriterSteps /\ e \in Configurations(x)
         /\ All(x, c) # <<>> /\ Head(All(x, c)) = p /\ All(x, e) = Becomes(p) \o Tail(All(x, c))
         /\ Left(c) \in Seq(WriterSteps) /\ Becomes(p) \in Seq(WriterSteps)
         /\ e.inner = Becomes(p) \o Left(c) /\ e.at = Following(c) /\ e.depth = DepthAfter(p, c.depth)
         /\ e.tokens = c.tokens \o Emitted(p, c.depth) /\ e.sent = c.sent \o Shown(p)
         /\ p.op = "leave" => c.depth >= 1
         /\ c.inner = <<>> => c.depth = 0 /\ c.at <= Len(x.values)
<1>1. PICK n : n = Len(x.values)
  OBVIOUS
<1>2. /\ n \in Nat /\ Puts(x) \in Seq(WriterSteps) /\ Len(Puts(x)) = n
      /\ \A i \in 1..n : Puts(x)[i] = Put(x.values[i].type, x.values[i].value)
  BY <1>1, TransferFacts
<1>3. /\ c.inner \in Seq(WriterSteps) /\ c.at \in 1..(n + 1) /\ c.depth \in Nat
      /\ c.tokens \in Seq(Wire) /\ c.sent \in Seq(SentLeaves) /\ Nested(c.inner, c.depth)
  BY <1>1, ConfigurationFacts
<1>4. PICK from, next, left, at : /\ from = FromOn(Puts(x), c.at) /\ next = FromOn(Puts(x), Following(c))
                                  /\ left = Left(c) /\ at = Following(c)
  OBVIOUS
<1>5. /\ left \in Seq(WriterSteps) /\ at \in 1..(n + 1) /\ p \in WriterSteps
      /\ p.op = "leave" => c.depth >= 1 /\ Nested(left, c.depth - 1)
      /\ p.op # "leave" => Nested(left, c.depth)
      /\ All(x, c) # <<>> /\ Head(All(x, c)) = p /\ Tail(All(x, c)) = left \o next
      /\ c.inner = <<>> => c.depth = 0 /\ c.at <= n
  <2>1. CASE c.inner = <<>>
    <3>1. c.at <= n /\ at = c.at + 1 /\ left = <<>> /\ p = Puts(x)[c.at]
      BY <1>1, <1>2, <1>3, <1>4, <2>1 DEF Stops, Left, Following, Due
    <3>2. p = Put(x.values[c.at].type, x.values[c.at].value) /\ c.at \in 1..n /\ at \in 1..(n + 1)
      BY <1>2, <1>3, <3>1
    <3>3. p.op # "leave" /\ p \in WriterSteps
      BY <1>2, <3>1, <3>2, StepFields
    <3>4. c.depth = 0 /\ Nested(<<>>, c.depth)
      BY <1>3, <2>1, NestedNone
    <3>5. from # <<>> /\ Head(from) = p /\ Tail(from) = next /\ from \in Seq(WriterSteps)
      BY <1>2, <1>3, <1>4, <3>1, FromFacts
    <3>6. next \in Seq(WriterSteps)
      BY <1>2, <1>4, <3>1, <3>2, FromFacts
    <3>7. All(x, c) = from /\ left \o next = next
      BY <1>4, <2>1, <3>1, <3>5, <3>6, ConcatEmptySeq DEF All
    <3>8. left \in Seq(WriterSteps)
      BY <3>1
    <3> QED BY Zenon, <3>1, <3>2, <3>3, <3>4, <3>5, <3>7, <3>8
  <2>2. CASE c.inner # <<>>
    <3>1. at = c.at /\ left = Tail(c.inner) /\ p = Head(c.inner) /\ next = from
      BY <1>4, <2>2 DEF Left, Following, Due
    <3>2. from \in Seq(WriterSteps)
      BY <1>2, <1>3, <1>4, FromFacts
    <3>3. /\ c.inner \o from # <<>> /\ Head(c.inner \o from) = Head(c.inner)
          /\ Tail(c.inner \o from) = Tail(c.inner) \o from
          /\ Head(c.inner) \in WriterSteps /\ Tail(c.inner) \in Seq(WriterSteps)
      BY <1>3, <2>2, <3>2, HeadOfConcat
    <3>4. All(x, c) = c.inner \o from
      BY <1>4 DEF All
    <3>5. /\ Head(c.inner).op = "leave" => c.depth >= 1 /\ Nested(Tail(c.inner), c.depth - 1)
          /\ Head(c.inner).op # "leave" => Nested(Tail(c.inner), c.depth)
      BY <1>3, <2>2, NestedTail
    <3> QED BY Zenon, <1>3, <2>2, <3>1, <3>3, <3>4, <3>5
  <2> QED BY <2>1, <2>2
<1>6. /\ Becomes(p) \in Seq(WriterSteps) /\ DepthAfter(p, c.depth) \in Nat
      /\ Becomes(p) \o left \in Seq(WriterSteps) /\ Nested(Becomes(p) \o left, DepthAfter(p, c.depth))
  BY <1>3, <1>5, BecomesFacts
<1>7. e = [inner |-> Becomes(p) \o left, at |-> at, depth |-> DepthAfter(p, c.depth),
           tokens |-> c.tokens \o Emitted(p, c.depth), sent |-> c.sent \o Shown(p)]
  BY <1>4 DEF After
<1>8. /\ e.inner = Becomes(p) \o left /\ e.at = at /\ e.depth = DepthAfter(p, c.depth)
      /\ e.tokens = c.tokens \o Emitted(p, c.depth) /\ e.sent = c.sent \o Shown(p)
  <2>1. PICK inner, depth, new, more :
          /\ inner = Becomes(p) \o left /\ depth = DepthAfter(p, c.depth)
          /\ new = c.tokens \o Emitted(p, c.depth) /\ more = c.sent \o Shown(p)
    OBVIOUS
  <2>2. e = [inner |-> inner, at |-> at, depth |-> depth, tokens |-> new, sent |-> more]
    BY <1>7, <2>1
  <2>3. e.inner = inner /\ e.at = at /\ e.depth = depth /\ e.tokens = new /\ e.sent = more
    BY <2>2
  <2> QED BY Zenon, <2>1, <2>3
<1>9. c.tokens \o Emitted(p, c.depth) \in Seq(Wire) /\ c.sent \o Shown(p) \in Seq(SentLeaves)
  BY <1>3, <1>5, EmittedFacts, ConcatProperties
<1>10. e \in Configurations(x)
  <2>1. e \in [inner : Seq(WriterSteps), at : 1..(n + 1), depth : Nat, tokens : Seq(Wire), sent : Seq(SentLeaves)]
    BY <1>5, <1>6, <1>7, <1>9
  <2>2. Nested(e.inner, e.depth)
    BY Zenon, <1>6, <1>8
  <2> QED BY <1>1, <2>1, <2>2 DEF Configurations
<1>11. All(x, e) = Becomes(p) \o Tail(All(x, c))
  <2>1. All(x, e) = (Becomes(p) \o left) \o next
    BY Zenon, <1>4, <1>8 DEF All
  <2>2. next \in Seq(WriterSteps)
    BY <1>2, <1>4, <1>5, FromFacts
  <2>3. (Becomes(p) \o left) \o next = Becomes(p) \o (left \o next)
    <3>1. PICK b : b = Becomes(p)
      OBVIOUS
    <3>2. b \in Seq(WriterSteps) /\ left \in Seq(WriterSteps) /\ next \in Seq(WriterSteps)
      BY <1>5, <1>6, <2>2, <3>1
    <3>3. (b \o left) \o next = b \o (left \o next)
      BY <3>2, ConcatRight
    <3> QED BY Zenon, <3>1, <3>3
  <2> QED BY Zenon, <1>5, <2>1, <2>3
<1> QED BY Zenon, <1>1, <1>4, <1>5, <1>6, <1>8, <1>10, <1>11

LEMMA Onward ==
  ASSUME NEW x \in Transfers, NEW c \in Configurations(x), ~Stops(x, c)
  PROVE  /\ Due(x, c) \in WriterSteps /\ After(x, c) \in Configurations(x)
         /\ All(x, c) # <<>> /\ Head(All(x, c)) = Due(x, c)
         /\ All(x, After(x, c)) = Becomes(Due(x, c)) \o Tail(All(x, c))
         /\ After(x, c).at = Following(c) /\ After(x, c).depth = DepthAfter(Due(x, c), c.depth)
         /\ After(x, c).tokens = c.tokens \o Emitted(Due(x, c), c.depth)
         /\ After(x, c).sent = c.sent \o Shown(Due(x, c))
         /\ Due(x, c).op = "leave" => c.depth >= 1
         /\ c.inner = <<>> => c.depth = 0 /\ c.at <= Len(x.values)
<1>1. PICK p, e : p = Due(x, c) /\ e = After(x, c)
  OBVIOUS
<1>2. /\ p \in WriterSteps /\ e \in Configurations(x)
      /\ All(x, c) # <<>> /\ Head(All(x, c)) = p /\ All(x, e) = Becomes(p) \o Tail(All(x, c))
      /\ e.at = Following(c) /\ e.depth = DepthAfter(p, c.depth)
      /\ e.tokens = c.tokens \o Emitted(p, c.depth) /\ e.sent = c.sent \o Shown(p)
      /\ p.op = "leave" => c.depth >= 1
      /\ c.inner = <<>> => c.depth = 0 /\ c.at <= Len(x.values)
  BY ZenonT(60), <1>1, AfterFacts
<1> QED BY Zenon, <1>1, <1>2

LEMMA AfterTyped ==
  ASSUME NEW x \in Transfers, NEW c \in Configurations(x)
  PROVE  After(x, c) \in Configurations(x)
<1>1. CASE Stops(x, c)
  BY <1>1 DEF After
<1>2. CASE ~Stops(x, c)
  BY <1>2, AfterFacts
<1> QED BY <1>1, <1>2

LEMMA WrittenSolved ==
  ASSUME NEW x \in Transfers
  PROVE  IsWritten(x, Written(x))
<1>1. PICK P, R, V : P = Nat /\ R = {y \in Nat \X Nat : y[1] < y[2]} /\ V = Configurations(x)
  OBVIOUS
<1>2. FirstsIn(P, R)
  <2>1. ASSUME NEW T \in SUBSET P, T # {} PROVE \E n \in T : \A m \in T : <<m, n>> \notin R
    <3>1. T \in SUBSET Nat
      BY <1>1
    <3>2. PICK n \in T : \A m \in T : n <= m
      BY <2>1, <3>1, LeastOf
    <3>3. ASSUME NEW m \in T, <<m, n>> \in R PROVE FALSE
      <4>1. m < n /\ m \in Nat /\ n \in Nat
        BY <1>1, <3>3
      <4> QED BY <3>2, <4>1
    <3> QED BY <3>3
  <2> QED BY <2>1 DEF FirstsIn
<1>3. PICK Step : Step = [y \in [P -> V] \X P |-> IF y[2] = 0 THEN Start ELSE After(x, y[1][y[2] - 1])]
  OBVIOUS
<1>4. ASSUME NEW f \in [P -> V], NEW n \in P
      PROVE  Step[<<f, n>>] = IF n = 0 THEN Start ELSE After(x, f[n - 1])
  BY <1>3
<1>5. Start \in V
  BY <1>1, StartFacts
<1>6. Recursive(P, R, V, Step)
  <2>1. ASSUME NEW f \in [P -> V], NEW n \in P PROVE Step[<<f, n>>] \in V
    <3>1. CASE n = 0
      BY <1>4, <1>5, <3>1
    <3>2. CASE n # 0
      <4>1. n - 1 \in P
        BY <1>1, <3>2
      <4>2. f[n - 1] \in Configurations(x)
        BY <1>1, <4>1
      <4> QED BY <1>1, <1>4, <3>2, <4>2, AfterTyped
    <3> QED BY <3>1, <3>2
  <2>2. ASSUME NEW f \in [P -> V], NEW h \in [P -> V], NEW n \in P, \A m \in P : <<m, n>> \in R => f[m] = h[m]
        PROVE  Step[<<f, n>>] = Step[<<h, n>>]
    <3>1. CASE n = 0
      BY <1>4, <3>1
    <3>2. CASE n # 0
      <4>1. n - 1 \in P /\ <<n - 1, n>> \in R
        BY <1>1, <3>2
      <4>2. f[n - 1] = h[n - 1]
        BY <2>2, <4>1
      <4> QED BY <1>4, <3>2, <4>2
    <3> QED BY <3>1, <3>2
  <2> QED BY <2>1, <2>2 DEF Recursive
<1>7. PICK f \in [P -> V] : \A n \in P : f[n] = Step[<<f, n>>]
  BY <1>2, <1>5, <1>6, RecursionSolved
<1>8. IsWritten(x, f)
  <2>1. f \in [Nat -> Configurations(x)]
    BY <1>1, <1>7
  <2>2. f[0] = Start
    BY <1>1, <1>4, <1>7
  <2>3. ASSUME NEW k \in Nat PROVE f[k + 1] = After(x, f[k])
    <3>1. k + 1 \in P /\ k + 1 # 0 /\ (k + 1) - 1 = k
      BY <1>1
    <3>2. f[k + 1] = After(x, f[(k + 1) - 1])
      BY <1>4, <1>7, <3>1
    <3> QED BY Zenon, <3>1, <3>2
  <2> QED BY <2>1, <2>2, <2>3 DEF IsWritten
<1> QED BY <1>8, Zenon DEF Written

LEMMA PrecedesAfter ==
  ASSUME NEW x \in Transfers, NEW c \in Configurations(x), NEW e \in Configurations(x), Precedes(x, c, e)
  PROVE  Precedes(x, c, After(x, e))
<1>1. CASE Stops(x, e)
  BY <1>1 DEF After
<1>2. CASE ~Stops(x, e)
  <2>1. PICK new \in Seq(Wire), more \in Seq(SentLeaves) :
          /\ e.tokens = c.tokens \o new /\ e.sent = c.sent \o more
          /\ new = <<>> => more = <<>>
          /\ Stops(x, c) => e = c
    BY DEF Precedes
  <2>2. PICK p, g : p = Due(x, e) /\ g = After(x, e)
    OBVIOUS
  <2>3. p \in WriterSteps /\ g.tokens = e.tokens \o Emitted(p, e.depth) /\ g.sent = e.sent \o Shown(p)
    <3>1. Due(x, e) \in WriterSteps /\ After(x, e).tokens = e.tokens \o Emitted(Due(x, e), e.depth) /\ After(x, e).sent = e.sent \o Shown(Due(x, e))
      BY Zenon, <1>2, Onward
    <3> QED BY Zenon, <2>2, <3>1
  <2>4. PICK token, leaf : token = Emitted(p, e.depth) /\ leaf = Shown(p)
    OBVIOUS
  <2>5. token \in Seq(Wire) /\ leaf \in Seq(SentLeaves) /\ (token = <<>> => leaf = <<>>)
    BY <2>3, <2>4, EmittedFacts, ConfigurationFacts
  <2>6. /\ c.tokens \in Seq(Wire) /\ c.sent \in Seq(SentLeaves) /\ new \in Seq(Wire) /\ more \in Seq(SentLeaves)
    BY <2>1, ConfigurationFacts
  <2>7. PICK all, every : all = new \o token /\ every = more \o leaf
    OBVIOUS
  <2>8. all \in Seq(Wire) /\ every \in Seq(SentLeaves)
    BY <2>1, <2>5, <2>7, ConcatProperties
  <2>9. (c.tokens \o new) \o token = c.tokens \o all
    <3>0. PICK a : a = c.tokens
      OBVIOUS
    <3>2. a \in Seq(Wire)
      BY <2>6, <3>0
    <3>3. new \in Seq(Wire) /\ token \in Seq(Wire)
      BY <2>5, <2>6
    <3>4. (a \o new) \o token = a \o (new \o token)
      BY <3>2, <3>3, ConcatAssociative
    <3>1. (c.tokens \o new) \o token = c.tokens \o (new \o token)
      BY Zenon, <3>0, <3>4
    <3> QED BY Zenon, <2>7, <3>1
  <2>10. (c.sent \o more) \o leaf = c.sent \o every
    <3>0. PICK a : a = c.sent
      OBVIOUS
    <3>2. a \in Seq(SentLeaves)
      BY <2>6, <3>0
    <3>3. more \in Seq(SentLeaves) /\ leaf \in Seq(SentLeaves)
      BY <2>5, <2>6
    <3>4. (a \o more) \o leaf = a \o (more \o leaf)
      BY <3>2, <3>3, ConcatAssociative
    <3>1. (c.sent \o more) \o leaf = c.sent \o (more \o leaf)
      BY Zenon, <3>0, <3>4
    <3> QED BY Zenon, <2>7, <3>1
  <2>11. g.tokens = c.tokens \o all /\ g.sent = c.sent \o every
    BY Zenon, <2>1, <2>3, <2>4, <2>9, <2>10
  <2>12. all = <<>> => every = <<>>
    <3>1. ASSUME all = <<>> PROVE new = <<>> /\ token = <<>>
      <4>1. Len(all) = Len(new) + Len(token) /\ Len(new) \in Nat /\ Len(token) \in Nat
        BY <2>1, <2>5, <2>7
      <4>2. Len(new) = 0 /\ Len(token) = 0
        BY <3>1, <4>1
      <4> QED BY <2>1, <2>5, <4>2
    <3>2. <<>> \o <<>> = <<>>
      OBVIOUS
    <3> QED BY Zenon, <2>1, <2>5, <2>7, <3>1, <3>2
  <2>13. ~Stops(x, c)
    BY <1>2, <2>1
  <2> QED BY Zenon, <2>2, <2>8, <2>11, <2>12, <2>13 DEF Precedes
<1> QED BY <1>1, <1>2

LEMMA PrecedesItself ==
  ASSUME NEW x \in Transfers, NEW c \in Configurations(x)
  PROVE  Precedes(x, c, c)
<1>1. c.tokens \in Seq(Wire) /\ c.sent \in Seq(SentLeaves)
  BY ConfigurationFacts
<1>2. c.tokens = c.tokens \o <<>> /\ c.sent = c.sent \o <<>> /\ <<>> \in Seq(Wire) /\ <<>> \in Seq(SentLeaves)
  BY <1>1, ConcatEmptySeq
<1> QED BY Zenon, <1>2 DEF Precedes

LEMMA WrittenFacts ==
  ASSUME NEW x \in Transfers, NEW f, f = Written(x), NEW k \in Nat
  PROVE  f[k] \in Configurations(x) /\ f[k + 1] = After(x, f[k]) /\ f[0] = Start
BY WrittenSolved DEF IsWritten

\* What is written once stays.
LEMMA WrittenInOrder ==
  ASSUME NEW x \in Transfers, NEW f, f = Written(x), NEW j \in Nat, NEW k \in Nat, j <= k
  PROVE  Precedes(x, f[j], f[k])
<1> DEFINE T == {n \in Nat : j <= n /\ ~Precedes(x, f[j], f[n])}
<1>1. ASSUME T # {} PROVE FALSE
  <2>1. PICK n \in T : \A m \in T : n <= m
    BY <1>1, LeastOf
  <2>2. n \in Nat /\ j <= n /\ ~Precedes(x, f[j], f[n])
    OBVIOUS
  <2>3. CASE n = j
    BY <2>2, <2>3, WrittenFacts, PrecedesItself
  <2>4. CASE n # j
    <3>1. n - 1 \in Nat /\ j <= n - 1 /\ (n - 1) + 1 = n /\ ~ (n <= n - 1)
      BY <2>2, <2>4
    <3>2. Precedes(x, f[j], f[n - 1])
      BY <2>1, <3>1
    <3>3. f[j] \in Configurations(x) /\ f[n - 1] \in Configurations(x) /\ f[(n - 1) + 1] = After(x, f[n - 1])
      BY <3>1, WrittenFacts
    <3>4. Precedes(x, f[j], After(x, f[n - 1]))
      BY <3>2, <3>3, PrecedesAfter
    <3> QED BY Zenon, <2>2, <3>1, <3>3, <3>4
  <2> QED BY <2>3, <2>4
<1> QED BY <1>1

-----------------------------------------------------------------------------
(* What the reader does *)

LEMMA AnswerFacts ==
  /\ AnswerTo(Restore) = Restore
  /\ \A t, v : AnswerTo(Put(t, v)) = Get(t) /\ AnswerTo(Raw(t, v)) = RawGet(t) /\ AnswerTo(Enter(t, v)) = EnterGet(t)
  /\ \A t \in DOMAIN Shape : Get(t) \in ReaderSteps /\ RawGet(t) \in ReaderSteps /\ EnterGet(t) \in ReaderSteps
  /\ Restore \in ReaderSteps
  /\ \A p \in WriterSteps : AnswerTo(p) \in ReaderSteps
<1>1. AnswerTo(Restore) = Restore
  BY DEF AnswerTo, Restore
<1>2. \A t, v : AnswerTo(Put(t, v)) = Get(t) /\ AnswerTo(Raw(t, v)) = RawGet(t) /\ AnswerTo(Enter(t, v)) = EnterGet(t)
  BY StepFields DEF AnswerTo
<1>3. \A t \in DOMAIN Shape : Get(t) \in ReaderSteps /\ RawGet(t) \in ReaderSteps /\ EnterGet(t) \in ReaderSteps
  BY DEF Get, RawGet, EnterGet, ReaderSteps
<1>4. Restore \in ReaderSteps
  BY DEF ReaderSteps
<1>5. ASSUME NEW p \in WriterSteps PROVE AnswerTo(p) \in ReaderSteps
  BY <1>1, <1>2, <1>3, <1>4, StepKinds
<1> QED BY <1>1, <1>2, <1>3, <1>4, <1>5

LEMMA ReadingFacts ==
  ASSUME NEW s \in Seq(WriterSteps)
  PROVE  /\ Reading(s) \in Seq(ReaderSteps) /\ Len(Reading(s)) = Len(s)
         /\ \A i \in 1..Len(s) : Reading(s)[i] = AnswerTo(s[i])
         /\ s # <<>> => Reading(s) # <<>> /\ Head(Reading(s)) = AnswerTo(Head(s)) /\ Tail(Reading(s)) = Reading(Tail(s))
<1>1. PICK n, r : n = Len(s) /\ r = Reading(s)
  OBVIOUS
<1>2. n \in Nat /\ \A i \in 1..n : s[i] \in WriterSteps
  BY <1>1
<1>3. r = [i \in 1..n |-> AnswerTo(s[i])]
  BY <1>1 DEF Reading
<1>4. \A i \in 1..n : AnswerTo(s[i]) \in ReaderSteps
  BY <1>2, AnswerFacts
<1>5. r \in Seq(ReaderSteps) /\ Len(r) = n /\ \A i \in 1..n : r[i] = AnswerTo(s[i])
  BY <1>2, <1>3, <1>4
<1>6. ASSUME s # <<>> PROVE r # <<>> /\ Head(r) = AnswerTo(Head(s)) /\ Tail(r) = Reading(Tail(s))
  <2>1. n >= 1 /\ Head(s) = s[1] /\ r # <<>> /\ Head(r) = r[1]
    BY <1>1, <1>2, <1>5, <1>6
  <2>2. PICK t, u : t = Tail(s) /\ u = Tail(r)
    OBVIOUS
  <2>3. Len(t) = n - 1 /\ DOMAIN t = 1..(n - 1) /\ \A i \in 1..(n - 1) : t[i] = s[i + 1]
    BY <1>1, <1>2, <2>1, <2>2
  <2>4. u \in Seq(ReaderSteps) /\ Len(u) = n - 1 /\ \A i \in 1..(n - 1) : u[i] = r[i + 1]
    BY <1>2, <1>5, <2>1, <2>2
  <2>5. ASSUME NEW i \in 1..(n - 1) PROVE u[i] = AnswerTo(t[i])
    BY <1>2, <1>5, <2>3, <2>4
  <2>6. u = [i \in 1..(n - 1) |-> AnswerTo(t[i])]
    <3>1. u = [i \in 1..(n - 1) |-> u[i]]
      BY <2>1, <2>4
    <3> QED BY <2>5, <3>1
  <2>7. u = Reading(t)
    BY <2>3, <2>6 DEF Reading
  <2> QED BY <1>2, <1>5, <2>1, <2>2, <2>7
<1> QED BY <1>1, <1>5, <1>6

LEMMA ReadingConcat ==
  ASSUME NEW s \in Seq(WriterSteps), NEW t \in Seq(WriterSteps)
  PROVE  Reading(s \o t) = Reading(s) \o Reading(t)
<1>1. PICK m, n, u, l, r : /\ m = Len(s) /\ n = Len(t) /\ u = s \o t /\ l = Reading(u)
                           /\ r = Reading(s) \o Reading(t)
  OBVIOUS
<1>2. /\ m \in Nat /\ n \in Nat /\ u \in Seq(WriterSteps) /\ Len(u) = m + n
      /\ \A i \in 1..(m + n) : u[i] = IF i <= m THEN s[i] ELSE t[i - m]
  BY <1>1
<1>3. l \in Seq(ReaderSteps) /\ Len(l) = m + n /\ \A i \in 1..(m + n) : l[i] = AnswerTo(u[i])
  BY <1>1, <1>2, ReadingFacts
<1>4. PICK a, b : a = Reading(s) /\ b = Reading(t)
  OBVIOUS
<1>5. /\ a \in Seq(ReaderSteps) /\ Len(a) = m /\ \A i \in 1..m : a[i] = AnswerTo(s[i])
      /\ b \in Seq(ReaderSteps) /\ Len(b) = n /\ \A i \in 1..n : b[i] = AnswerTo(t[i])
  BY <1>1, <1>4, ReadingFacts
<1>6. /\ r \in Seq(ReaderSteps) /\ Len(r) = m + n
      /\ \A i \in 1..(m + n) : r[i] = IF i <= m THEN a[i] ELSE b[i - m]
  <2>1. r = a \o b
    BY <1>1, <1>4
  <2>2. a \in Seq(ReaderSteps) /\ b \in Seq(ReaderSteps) /\ Len(a) = m /\ Len(b) = n
    BY <1>5
  <2>3. r \in Seq(ReaderSteps) /\ Len(r) = m + n
    BY <2>1, <2>2, ConcatProperties
  <2>4. \A i \in 1..(m + n) : r[i] = IF i <= m THEN a[i] ELSE b[i - m]
    <3>1. \A i \in 1..(Len(a) + Len(b)) : (a \o b)[i] = IF i <= Len(a) THEN a[i] ELSE b[i - Len(a)]
      BY <2>2, ConcatProperties
    <3> QED BY <2>1, <2>2, <3>1
  <2> QED BY <2>3, <2>4
<1>7. ASSUME NEW i \in 1..(m + n) PROVE l[i] = r[i]
  <2>1. CASE i <= m
    <3>1. i \in 1..m
      BY <1>2, <2>1
    <3>2. u[i] = s[i] /\ r[i] = a[i]
      BY <1>2, <1>6, <2>1
    <3>3. l[i] = AnswerTo(u[i]) /\ a[i] = AnswerTo(s[i])
      BY <1>3, <1>5, <3>1
    <3> QED BY <3>2, <3>3
  <2>2. CASE ~ (i <= m)
    <3>1. i - m \in 1..n
      BY <1>2, <2>2
    <3>2. u[i] = t[i - m] /\ r[i] = b[i - m]
      BY <1>2, <1>6, <2>2
    <3>3. l[i] = AnswerTo(u[i]) /\ b[i - m] = AnswerTo(t[i - m])
      BY <1>3, <1>5, <3>1
    <3> QED BY <3>2, <3>3
  <2> QED BY <2>1, <2>2
<1> QED BY <1>1, <1>2, <1>3, <1>6, <1>7

LEMMA ReadingNone == Reading(<<>>) = <<>>
<1>1. <<>> \in Seq(WriterSteps) /\ Len(<<>>) = 0
  OBVIOUS
<1>2. Reading(<<>>) \in Seq(ReaderSteps) /\ Len(Reading(<<>>)) = 0
  BY <1>1, ReadingFacts
<1> QED BY <1>2

LEMMA ReadingOne ==
  ASSUME NEW p \in WriterSteps
  PROVE  Reading(<<p>>) = <<AnswerTo(p)>>
<1>1. PICK one : one = Reading(<<p>>)
  OBVIOUS
<1>2. PICK s : s = <<p>>
  OBVIOUS
<1>5. s \in Seq(WriterSteps) /\ Len(s) = 1 /\ s[1] = p /\ one = Reading(s)
  BY <1>1, <1>2
<1>3. one \in Seq(ReaderSteps) /\ Len(one) = 1 /\ one[1] = AnswerTo(p)
  <2>1. 1 \in 1..Len(s)
    BY <1>5
  <2> QED BY <1>5, <2>1, ReadingFacts
<1>4. one = <<AnswerTo(p)>>
  BY <1>3
<1> QED BY <1>1, <1>4

\* What the reader puts in the place of an instruction.
LEMMA ReadingBecomes ==
  ASSUME NEW t \in DOMAIN Shape, NEW v \in Values[t]
  PROVE  /\ Reading(Becomes(Put(t, v))) = BodyGet(t)
         /\ Reading(Becomes(Raw(t, v))) = <<>>
         /\ Reading(Becomes(Restore)) = <<>>
         /\ ~Simple(t) /\ Shape[t].kind # "range" =>
              Reading(Becomes(Enter(t, v))) = Append(GetParts(t, DOMAIN Shape[t].of), Restore)
         /\ Shape[t].kind = "range" =>
              Len(v) \in Nat /\ Reading(Becomes(Enter(t, v))) = Append(GetParts(t, 1..Len(v)), Restore)
<1>1. Reading(Becomes(Raw(t, v))) = <<>> /\ Reading(Becomes(Restore)) = <<>>
  BY StepFields, ReadingNone DEF Becomes
<1>2. ASSUME ~Simple(t), NEW n \in Nat, DOMAIN v = 1..n,
             PutParts(t, v) \in Seq(WriterSteps), Len(PutParts(t, v)) = n,
             \A i \in 1..n : PutParts(t, v)[i] = Put(PartType(t, i), v[i])
      PROVE  /\ Reading(PutParts(t, v)) = GetParts(t, 1..n)
             /\ Reading(Append(PutParts(t, v), Restore)) = Append(GetParts(t, 1..n), Restore)
  <2>1. PICK s, r, g : s = PutParts(t, v) /\ r = Reading(s) /\ g = GetParts(t, 1..n)
    OBVIOUS
  <2>2. s \in Seq(WriterSteps) /\ Len(s) = n /\ \A i \in 1..n : s[i] = Put(PartType(t, i), v[i])
    BY <1>2, <2>1
  <2>3. r \in Seq(ReaderSteps) /\ Len(r) = n /\ \A i \in 1..n : r[i] = AnswerTo(s[i])
    BY <2>1, <2>2, ReadingFacts
  <2>4. \A i \in 1..n : r[i] = Get(PartType(t, i))
    BY <2>2, <2>3, AnswerFacts
  <2>5. r = g
    <3>1. r = [i \in 1..n |-> r[i]]
      BY <2>3
    <3>2. g = [i \in 1..n |-> Get(PartType(t, i))]
      BY <2>1 DEF GetParts
    <3> QED BY <2>4, <3>1, <3>2
  <2>6. <<Restore>> \in Seq(WriterSteps) /\ Append(s, Restore) = s \o <<Restore>>
    BY <2>2, StepFields, AppendIsConcat
  <2>7. Reading(<<Restore>>) = <<Restore>>
    BY ReadingOne, AnswerFacts, StepFields
  <2>8. Reading(s \o <<Restore>>) = r \o <<Restore>>
    BY <2>1, <2>2, <2>6, <2>7, ReadingConcat
  <2>9. r \o <<Restore>> = Append(r, Restore)
    BY <2>3, AnswerFacts, AppendIsConcat
  <2> QED BY Zenon, <2>1, <2>5, <2>6, <2>8, <2>9
<1>3. Reading(Becomes(Put(t, v))) = BodyGet(t)
  <2>1. Becomes(Put(t, v)) = Body(t, v)
    BY StepFields DEF Becomes
  <2>2. CASE Simple(t)
    <3>1. Body(t, v) = <<Raw(t, v)>> /\ BodyGet(t) = <<RawGet(t)>>
      BY <2>2 DEF Body, BodyGet
    <3>2. Raw(t, v) \in WriterSteps /\ AnswerTo(Raw(t, v)) = RawGet(t)
      BY <2>2, StepFields, AnswerFacts
    <3> QED BY Zenon, <2>1, <3>1, <3>2, ReadingOne
  <2>3. CASE ~Simple(t) /\ Tagged(t)
    <3>1. Body(t, v) = <<Enter(t, v)>> /\ BodyGet(t) = <<EnterGet(t)>>
      BY <2>3 DEF Body, BodyGet
    <3>2. Enter(t, v) \in WriterSteps /\ AnswerTo(Enter(t, v)) = EnterGet(t)
      BY <2>3, StepFields, AnswerFacts
    <3> QED BY Zenon, <2>1, <3>1, <3>2, ReadingOne
  <2>4. CASE ~Simple(t) /\ ~Tagged(t)
    <3>1. Body(t, v) = PutParts(t, v) /\ BodyGet(t) = GetParts(t, DOMAIN Shape[t].of)
      BY <2>4 DEF Body, BodyGet
    <3>2. Shape[t].kind = "parts"
      BY <2>4 DEF Tagged, IsInteger, Simple
    <3>3. PICK n \in Nat : /\ DOMAIN v = 1..n /\ DOMAIN Shape[t].of = 1..n
                           /\ PutParts(t, v) \in Seq(WriterSteps) /\ Len(PutParts(t, v)) = n
                           /\ \A i \in 1..n : PutParts(t, v)[i] = Put(PartType(t, i), v[i])
      BY <2>4, <3>2, PartsFacts
    <3> QED BY <1>2, <2>1, <2>4, <3>1, <3>3
  <2> QED BY <2>2, <2>3, <2>4
<1>4. ASSUME ~Simple(t) PROVE Becomes(Enter(t, v)) = Append(PutParts(t, v), Restore)
  BY StepFields DEF Becomes
<1>5. ASSUME ~Simple(t), Shape[t].kind # "range"
      PROVE  Reading(Becomes(Enter(t, v))) = Append(GetParts(t, DOMAIN Shape[t].of), Restore)
  <2>1. Shape[t].kind = "parts"
    BY <1>5 DEF Simple
  <2>2. PICK n \in Nat : /\ DOMAIN v = 1..n /\ DOMAIN Shape[t].of = 1..n
                         /\ PutParts(t, v) \in Seq(WriterSteps) /\ Len(PutParts(t, v)) = n
                         /\ \A i \in 1..n : PutParts(t, v)[i] = Put(PartType(t, i), v[i])
    BY <1>5, <2>1, PartsFacts
  <2> QED BY <1>2, <1>4, <1>5, <2>2
<1>6. ASSUME Shape[t].kind = "range"
      PROVE  Len(v) \in Nat /\ Reading(Becomes(Enter(t, v))) = Append(GetParts(t, 1..Len(v)), Restore)
  <2>1. ~Simple(t)
    BY <1>6 DEF Simple
  <2>2. PICK n \in Nat : /\ DOMAIN v = 1..n /\ Len(v) = n
                         /\ PutParts(t, v) \in Seq(WriterSteps) /\ Len(PutParts(t, v)) = n
                         /\ \A i \in 1..n : PutParts(t, v)[i] = Put(PartType(t, i), v[i])
    BY <1>6, <2>1, PartsFacts
  <2> QED BY <1>2, <1>4, <2>1, <2>2
<1> QED BY <1>1, <1>3, <1>5, <1>6

LEMMA GetsFacts ==
  ASSUME NEW x \in Transfers
  PROVE  /\ Gets(x) \in Seq(ReaderSteps) /\ Len(Gets(x)) = Len(x.expected) /\ Len(x.expected) \in Nat
         /\ \A i \in 1..Len(x.expected) : Gets(x)[i] = Get(x.expected[i]) /\ x.expected[i] \in DOMAIN Shape
<1>1. PICK g, ts : g = Gets(x) /\ ts = x.expected
  OBVIOUS
<1>2. ts \in Seq(DOMAIN Shape)
  BY <1>1, TransferFacts
<1>3. Len(ts) \in Nat /\ DOMAIN ts = 1..Len(ts) /\ \A i \in 1..Len(ts) : ts[i] \in DOMAIN Shape
  BY <1>2
<1>4. g = [i \in 1..Len(ts) |-> Get(ts[i])]
  BY <1>1, <1>3 DEF Gets
<1>5. \A i \in 1..Len(ts) : Get(ts[i]) \in ReaderSteps
  BY <1>3, AnswerFacts
<1>6. g \in Seq(ReaderSteps) /\ Len(g) = Len(ts) /\ \A i \in 1..Len(ts) : g[i] = Get(ts[i])
  <2>1. Len(ts) \in Nat
    BY <1>3
  <2> QED BY <1>4, <1>5, <2>1
<1> QED BY <1>1, <1>3, <1>6

\* What the reader has to do where the writer is at a configuration: the answer to what comes
\* next there, unless that is a value of its own, which may have another type than it expects.
LEMMA BackFacts ==
  ASSUME NEW x \in Transfers, NEW c \in Configurations(x), ~Stops(x, c), c.at <= Len(x.expected) + 1,
         c.inner = <<>> => c.at <= Len(x.expected)
  PROVE  /\ Back(x, c) # <<>> /\ Back(x, c) \in Seq(ReaderSteps) /\ Tail(Back(x, c)) \in Seq(ReaderSteps)
         /\ c.inner # <<>> => Head(Back(x, c)) = AnswerTo(Due(x, c)) /\ Due(x, c) = Head(c.inner)
         /\ c.inner = <<>> => /\ Head(Back(x, c)) = Get(x.expected[c.at]) /\ c.at \in 1..Len(x.values)
                              /\ Due(x, c) = Put(x.values[c.at].type, x.values[c.at].value)
         /\ Back(x, After(x, c)) = Reading(Becomes(Due(x, c))) \o Tail(Back(x, c))
<1>1. PICK e, p, left, g, m : /\ e = After(x, c) /\ p = Due(x, c) /\ left = Left(c) /\ g = Gets(x) /\ m = Len(x.expected)
  OBVIOUS
<1>2. /\ p \in WriterSteps /\ left \in Seq(WriterSteps) /\ Becomes(p) \in Seq(WriterSteps)
      /\ e.inner = Becomes(p) \o left /\ e.at = Following(c) /\ (c.inner = <<>> => c.at <= Len(x.values))
  BY <1>1, AfterFacts
<1>3. c.inner \in Seq(WriterSteps) /\ c.at \in 1..(Len(x.values) + 1) /\ Len(x.values) \in Nat
  BY ConfigurationFacts, TransferFacts
<1>4. g \in Seq(ReaderSteps) /\ Len(g) = m /\ m \in Nat /\ \A i \in 1..m : g[i] = Get(x.expected[i])
  BY <1>1, GetsFacts
<1>5. PICK becomes, rest : becomes = Reading(Becomes(p)) /\ rest = Reading(left)
  OBVIOUS
<1>6. becomes \in Seq(ReaderSteps) /\ rest \in Seq(ReaderSteps) /\ Reading(e.inner) = becomes \o rest
  <2>1. Reading(Becomes(p) \o left) = Reading(Becomes(p)) \o Reading(left)
    BY <1>2, ReadingConcat
  <2>2. Reading(Becomes(p)) \in Seq(ReaderSteps) /\ Reading(left) \in Seq(ReaderSteps)
    BY <1>2, ReadingFacts
  <2> QED BY Zenon, <1>2, <1>5, <2>1, <2>2
<1>7. CASE c.inner = <<>>
  <2>1. c.at \in 1..m /\ c.at \in 1..Len(x.values) /\ e.at = c.at + 1 /\ left = <<>>
    BY <1>1, <1>2, <1>3, <1>4, <1>7 DEF Following, Left
  <2>2. PICK from, next : from = FromOn(g, c.at) /\ next = FromOn(g, c.at + 1)
    OBVIOUS
  <2>3. /\ from \in Seq(ReaderSteps) /\ from # <<>> /\ Head(from) = g[c.at] /\ Tail(from) = next
        /\ next \in Seq(ReaderSteps)
    BY <1>4, <2>1, <2>2, FromFacts
  <2>4. Back(x, c) = from
    <3>1. Back(x, c) = Reading(<<>>) \o from
      BY <1>1, <1>7, <2>2 DEF Back
    <3>2. <<>> \o from = from
      BY <2>3, ConcatEmptySeq
    <3> QED BY Zenon, <3>1, <3>2, ReadingNone
  <2>5. Head(from) = Get(x.expected[c.at])
    BY <1>4, <2>1, <2>3
  <2>6. p = Put(x.values[c.at].type, x.values[c.at].value)
    BY <1>1, <1>7, <2>1, TransferFacts DEF Due
  <2>7. Back(x, e) = becomes \o next
    <3>1. Back(x, e) = (becomes \o rest) \o next
      BY Zenon, <1>1, <1>6, <2>1, <2>2 DEF Back
    <3>2. rest = <<>> /\ becomes \o <<>> = becomes
      BY <1>5, <1>6, <2>1, ReadingNone, ConcatEmptySeq
    <3> QED BY Zenon, <3>1, <3>2
  <2> QED BY Zenon, <1>1, <1>5, <1>7, <2>1, <2>3, <2>4, <2>5, <2>6, <2>7
<1>8. CASE c.inner # <<>>
  <2>1. c.at \in 1..(m + 1) /\ e.at = c.at /\ left = Tail(c.inner) /\ p = Head(c.inner)
    BY <1>1, <1>2, <1>3, <1>4, <1>8 DEF Following, Left, Due
  <2>2. PICK from, inner : from = FromOn(g, c.at) /\ inner = Reading(c.inner)
    OBVIOUS
  <2>3. from \in Seq(ReaderSteps)
    BY <1>4, <2>1, <2>2, FromFacts
  <2>4. inner \in Seq(ReaderSteps) /\ inner # <<>> /\ Head(inner) = AnswerTo(p) /\ Tail(inner) = rest
    BY <1>3, <1>5, <1>8, <2>1, <2>2, ReadingFacts
  <2>5. /\ inner \o from # <<>> /\ Head(inner \o from) = Head(inner) /\ Tail(inner \o from) = Tail(inner) \o from
        /\ inner \o from \in Seq(ReaderSteps) /\ rest \o from \in Seq(ReaderSteps)
    BY <1>6, <2>3, <2>4, HeadOfConcat, ConcatProperties
  <2>6. Back(x, c) = inner \o from
    BY Zenon, <1>1, <2>2 DEF Back
  <2>7. Back(x, e) = becomes \o (rest \o from)
    <3>1. Back(x, e) = (becomes \o rest) \o from
      BY Zenon, <1>1, <1>6, <2>1, <2>2 DEF Back
    <3>2. (becomes \o rest) \o from = becomes \o (rest \o from)
      BY <1>6, <2>3, ConcatAssociative
    <3> QED BY Zenon, <3>1, <3>2
  <2> QED BY Zenon, <1>1, <1>5, <1>8, <2>1, <2>4, <2>5, <2>6, <2>7
<1> QED BY <1>7, <1>8

LEMMA SavedFacts ==
  ASSUME NEW n \in Nat
  PROVE  /\ n = 0 => SavedAt(n) = <<>>
         /\ Len(SavedAt(n)) = n
         /\ \A b \in BOOLEAN : (b <=> n > 0) => Append(SavedAt(n), b) = SavedAt(n + 1)
         /\ n >= 1 => /\ SubSeq(SavedAt(n), 1, n - 1) = SavedAt(n - 1)
                      /\ SavedAt(n)[n] \in BOOLEAN /\ (SavedAt(n)[n] <=> n - 1 > 0)
<1>1. PICK s : s = SavedAt(n)
  OBVIOUS
<1>2. s \in Seq(BOOLEAN) /\ Len(s) = n /\ \A i \in 1..n : s[i] = IF i > 1 THEN TRUE ELSE FALSE
  BY <1>1 DEF SavedAt
<1>3. ASSUME NEW b \in BOOLEAN, b <=> n > 0 PROVE Append(s, b) = SavedAt(n + 1)
  <2>1. PICK u, v : u = Append(s, b) /\ v = SavedAt(n + 1)
    OBVIOUS
  <2>2. u \in Seq(BOOLEAN) /\ Len(u) = n + 1 /\ (\A i \in 1..n : u[i] = s[i]) /\ u[n + 1] = b
    BY <1>2, <2>1
  <2>3. v \in Seq(BOOLEAN) /\ Len(v) = n + 1 /\ \A i \in 1..(n + 1) : v[i] = IF i > 1 THEN TRUE ELSE FALSE
    BY <2>1 DEF SavedAt
  <2>4. ASSUME NEW i \in 1..(n + 1) PROVE u[i] = v[i]
    <3>1. CASE i = n + 1
      <4>1. i > 1 <=> n > 0
        BY <3>1
      <4>2. CASE i > 1
        <5>1. b = TRUE /\ v[i] = TRUE
          BY <1>3, <2>3, <4>1, <4>2
        <5> QED BY <2>2, <3>1, <5>1
      <4>3. CASE ~ (i > 1)
        <5>1. b = FALSE /\ v[i] = FALSE
          BY <1>3, <2>3, <4>1, <4>3
        <5> QED BY <2>2, <3>1, <5>1
      <4> QED BY <4>2, <4>3
    <3>2. CASE i # n + 1
      <4>1. i \in 1..n
        BY <3>2
      <4> QED BY <1>2, <2>2, <2>3, <4>1
    <3> QED BY <3>1, <3>2
  <2>5. u = v
    BY <2>2, <2>3, <2>4
  <2> QED BY <2>1, <2>5
<1>4. ASSUME n >= 1 PROVE SubSeq(s, 1, n - 1) = SavedAt(n - 1)
  <2>1. PICK u, v : u = SubSeq(s, 1, n - 1) /\ v = SavedAt(n - 1)
    OBVIOUS
  <2>2. u \in Seq(BOOLEAN) /\ Len(u) = n - 1 /\ \A i \in 1..(n - 1) : u[i] = s[i]
    BY <1>2, <1>4, <2>1
  <2>3. v \in Seq(BOOLEAN) /\ Len(v) = n - 1 /\ \A i \in 1..(n - 1) : v[i] = IF i > 1 THEN TRUE ELSE FALSE
    BY <1>4, <2>1 DEF SavedAt
  <2>4. ASSUME NEW i \in 1..(n - 1) PROVE u[i] = v[i]
    <3>1. i \in 1..n
      OBVIOUS
    <3> QED BY <1>2, <2>2, <2>3, <3>1
  <2>5. u = v
    BY <2>2, <2>3, <2>4
  <2> QED BY <2>1, <2>5
<1>5. ASSUME n >= 1 PROVE s[n] \in BOOLEAN /\ (s[n] <=> n - 1 > 0)
  <2>1. s[n] = IF n > 1 THEN TRUE ELSE FALSE
    <3>1. n \in 1..n
      BY <1>5
    <3> QED BY <1>2, <3>1
  <2>2. n > 1 <=> n - 1 > 0
    OBVIOUS
  <2> QED BY <2>1, <2>2
<1>6. n = 0 => s = <<>>
  BY <1>2
<1> QED BY <1>1, <1>2, <1>3, <1>4, <1>5, <1>6

-----------------------------------------------------------------------------
(* The reader follows the writer: where the two are *)

\* The values up to which the reader comes: all of them, or the first with another tag than that
\* of the type it expects.
Limit(x, d) ==
  /\ \/ Len(x.values) = Len(x.expected) /\ d = Len(x.values) + 1
     \/ /\ d \in 1..Len(x.values) /\ d <= Len(x.expected)
        /\ Tagged(x.values[d].type) /\ Tagged(x.expected[d]) /\ Tag(x.values[d].type) # Tag(x.expected[d])
  /\ \A j \in 1..(d - 1) : x.values[j].type = x.expected[j]

AllFit == \A i \in DOMAIN sent["a"] : Fits(sent["a"][i])

\* The coroutine co at the end e is n values deep.
Inside(e, co, n) ==
  rangeDependent[e] \in BOOLEAN /\ (rangeDependent[e] <=> n > 0) /\ saved[co] = SavedAt(n)

\* The writer is at c, and what was fetched from the wire is gone.
WritesAt(x, c, gone) ==
  /\ todo[Writer("a")] = All(x, c) /\ Inside("a", Writer("a"), c.depth)
  /\ sent["a"] = c.sent /\ tokens["a"] \in Seq(Wire) /\ c.tokens = gone \o tokens["a"]

\* The reader is where the writer was at c, or within the step that follows: it has still to
\* read the size of a range, or to leave one that keeps nothing.
AtStep(x, c) == todo[Reader("b")] = Back(x, c) /\ Inside("b", Reader("b"), c.depth)
AtSize(x, c) ==
  /\ c.inner # <<>> /\ Head(c.inner).op = "enter" /\ Shape[Head(c.inner).type].kind = "range"
  /\ todo[Reader("b")] = <<SizeGet(Head(c.inner).type)>> \o Tail(Back(x, c))
  /\ Inside("b", Reader("b"), c.depth + 1)
AtEmpty(x, c) ==
  /\ c.inner # <<>> /\ Head(c.inner) = Restore /\ Inside("b", Reader("b"), c.depth)
  /\ \E t, m : /\ todo[Reader("b")] = <<RestoreEmpty(t, m)>> \o Tail(Back(x, c))
               /\ Append(SubSeq(result["b"], 1, m), <<t, 0>>) = result["b"]

ReadsAt(x, c, d, gone) ==
  /\ c.tokens = gone /\ c.at <= d /\ result["b"] = c.sent
  /\ outcome["b"] = "reading" \/ (outcome["b"] = "read" /\ todo[Reader("b")] = <<>>)
  /\ AtStep(x, c) \/ AtSize(x, c) \/ AtEmpty(x, c)

Threw(x, d) == outcome["b"] = "threw" /\ todo[Reader("b")] = <<>> /\ d <= Len(x.values)

ReadsTo(x, d, gone) == Threw(x, d) \/ \E r \in Nat : ReadsAt(x, Written(x)[r], d, gone)

OverEnds ==
  /\ DOMAIN todo = Coros /\ DOMAIN saved = Coros /\ DOMAIN rangeDependent = Ends /\ DOMAIN tokens = Ends
  /\ DOMAIN sent = Ends /\ DOMAIN result = Ends /\ DOMAIN outcome = Ends

\* The coroutines that do nothing, and the functions over the ends.
Idle == OverEnds /\ todo[Reader("a")] = <<>> /\ todo[Writer("b")] = <<>>

Apart(x, w, gone) ==
  /\ Idle /\ WritesAt(x, Written(x)[w], gone)
  /\ \A d \in Nat : Limit(x, d) /\ AllFit => ReadsTo(x, d, gone)

OneWay(x) == \E w \in Nat, gone \in Seq(Wire) : Apart(x, w, gone)

CodecInv == transfer \in Transfers /\ (~transfer.duplex => OneWay(transfer))

LEMMA CoroFacts ==
  /\ Ends = {"a", "b"} /\ "a" # "b" /\ Other("a") = "b" /\ Other("b") = "a"
  /\ Writer("a") \in Coros /\ Reader("a") \in Coros /\ Writer("b") \in Coros /\ Reader("b") \in Coros
  /\ Writer("a") # Reader("b") /\ Writer("a") # Reader("a") /\ Writer("a") # Writer("b")
  /\ Reader("b") # Reader("a") /\ Reader("b") # Writer("b")
  /\ \A co \in Coros : co \in {Writer("a"), Reader("a"), Writer("b"), Reader("b")}
  /\ Writer("a")[1] = "a" /\ Reader("b")[1] = "b"
BY DEF Ends, Other, Writer, Reader, Coros

LEMMA LimitFacts ==
  ASSUME NEW x \in Transfers, NEW d \in Nat, Limit(x, d)
  PROVE  d >= 1 /\ d <= Len(x.values) + 1 /\ d <= Len(x.expected) + 1
BY TransferFacts, GetsFacts DEF Limit

\* At the start the two are at the first configuration.
LEMMA CodecStarts ==
  ASSUME CodecInit
  PROVE  CodecInv
<1>1. PICK x \in Transfers : x = transfer
  BY DEF CodecInit
<1>2. ASSUME ~x.duplex PROVE OneWay(x)
  <2>1. PICK f : f = Written(x)
    OBVIOUS
  <2>2. f[0] = Start
    BY <2>1, WrittenFacts
  <2>3. /\ todo[Writer("a")] = Puts(x) /\ todo[Reader("b")] = Gets(x)
        /\ todo[Reader("a")] = <<>> /\ todo[Writer("b")] = <<>>
    <3>1. todo = [c \in Coros |-> IF c[2] = "write" THEN IF c[1] \in Writing(x) THEN Puts(x) ELSE <<>>
                                  ELSE IF Other(c[1]) \in Writing(x) THEN Gets(x) ELSE <<>>]
      BY <1>1 DEF CodecInit, Puts, Gets
    <3>2. Writing(x) = {"a"}
      BY <1>2 DEF Writing
    <3>3. Writer("a") = <<"a", "write">> /\ Writer("b") = <<"b", "write">> /\ Reader("a") = <<"a", "read">> /\ Reader("b") = <<"b", "read">>
      BY DEF Writer, Reader
    <3>4. <<"a", "write">> \in Coros /\ <<"b", "write">> \in Coros /\ <<"a", "read">> \in Coros /\ <<"b", "read">> \in Coros
      BY <3>3, CoroFacts
    <3>5. todo[<<"a", "write">>] = Puts(x) /\ todo[<<"b", "write">>] = <<>>
      BY <3>1, <3>2, <3>4
    <3>6. todo[<<"a", "read">>] = <<>> /\ todo[<<"b", "read">>] = Gets(x)
      BY <3>1, <3>2, <3>4, CoroFacts
    <3> QED BY <3>3, <3>5, <3>6
  <2>4. OverEnds
    BY DEF CodecInit, OverEnds
  <2>5. Inside("a", Writer("a"), 0) /\ Inside("b", Reader("b"), 0)
    BY CoroFacts, SavedFacts DEF CodecInit, Inside
  <2>6. All(x, Start) = Puts(x)
    <3>1. Puts(x) \in Seq(WriterSteps)
      BY TransferFacts
    <3>2. FromOn(Puts(x), 1) = Puts(x) /\ <<>> \o Puts(x) = Puts(x)
      BY <3>1, FromFacts, ConcatEmptySeq
    <3> QED BY <3>2 DEF All, Start
  <2>7. Back(x, Start) = Gets(x)
    <3>1. Gets(x) \in Seq(ReaderSteps)
      BY GetsFacts
    <3>2. FromOn(Gets(x), 1) = Gets(x) /\ <<>> \o Gets(x) = Gets(x)
      BY <3>1, FromFacts, ConcatEmptySeq
    <3> QED BY <3>2, ReadingNone DEF Back, Start
  <2>8. Start.depth = 0 /\ Start.tokens = <<>> /\ Start.sent = <<>> /\ Start.at = 1
    BY DEF Start
  <2>9. WritesAt(x, f[0], <<>>)
    <3>1. sent["a"] = <<>> /\ tokens["a"] = <<>>
      BY CoroFacts DEF CodecInit
    <3>2. <<>> \in Seq(Wire) /\ <<>> \o <<>> = <<>>
      OBVIOUS
    <3> QED BY Zenon, <2>2, <2>3, <2>5, <2>6, <2>8, <3>1, <3>2 DEF WritesAt
  <2>10. ASSUME NEW d \in Nat, Limit(x, d) PROVE ReadsTo(x, d, <<>>)
    <3>1. result["b"] = <<>> /\ outcome["b"] = "reading"
      BY CoroFacts DEF CodecInit
    <3>2. 1 <= d
      BY <2>10, LimitFacts
    <3>3. AtStep(x, f[0])
      BY Zenon, <2>2, <2>3, <2>5, <2>7, <2>8 DEF AtStep
    <3>4. ReadsAt(x, f[0], d, <<>>)
      BY Zenon, <2>2, <2>8, <3>1, <3>2, <3>3 DEF ReadsAt
    <3>5. 0 \in Nat
      OBVIOUS
    <3> QED BY Zenon, <2>1, <3>4, <3>5 DEF ReadsTo
  <2>11. 0 \in Nat /\ <<>> \in Seq(Wire)
    OBVIOUS
  <2> QED BY Zenon, <2>1, <2>3, <2>4, <2>9, <2>10, <2>11 DEF OneWay, Apart, Idle
<1> QED BY <1>1, <1>2 DEF CodecInv

-----------------------------------------------------------------------------
(* A step of the one or of the other *)

ReaderKept ==
  /\ todo'[Reader("b")] = todo[Reader("b")] /\ saved'[Reader("b")] = saved[Reader("b")]
  /\ rangeDependent'["b"] = rangeDependent["b"] /\ result'["b"] = result["b"] /\ outcome'["b"] = outcome["b"]

WriterKept ==
  /\ todo'[Writer("a")] = todo[Writer("a")] /\ saved'[Writer("a")] = saved[Writer("a")]
  /\ rangeDependent'["a"] = rangeDependent["a"] /\ sent'["a"] = sent["a"]

\* The writer goes on from c.
WriterActs(x, c) ==
  /\ Idle' /\ ReaderKept
  /\ todo'[Writer("a")] = All(x, After(x, c)) /\ Inside("a", Writer("a"), After(x, c).depth)'
  /\ tokens'["a"] = tokens["a"] \o Emitted(Due(x, c), c.depth) /\ sent'["a"] = sent["a"] \o Shown(Due(x, c))

LEMMA ReadsToKept ==
  ASSUME NEW x, NEW d, NEW gone, ReadsTo(x, d, gone), ReaderKept
  PROVE  ReadsTo(x, d, gone)'
<1>1. CASE Threw(x, d)
  BY <1>1 DEF Threw, ReaderKept, ReadsTo
<1>2. ASSUME NEW r \in Nat, ReadsAt(x, Written(x)[r], d, gone) PROVE ReadsTo(x, d, gone)'
  <2>1. PICK c : c = Written(x)[r]
    OBVIOUS
  <2>2. ReadsAt(x, c, d, gone)
    BY <1>2, <2>1
  <2>3. \A n : Inside("b", Reader("b"), n) => Inside("b", Reader("b"), n)'
    BY DEF Inside, ReaderKept
  <2>4. AtStep(x, c) => AtStep(x, c)'
    BY Zenon, <2>3 DEF AtStep, ReaderKept
  <2>5. AtSize(x, c) => AtSize(x, c)'
    BY Zenon, <2>3 DEF AtSize, ReaderKept
  <2>6. AtEmpty(x, c) => AtEmpty(x, c)'
    BY Zenon, <2>3 DEF AtEmpty, ReaderKept
  <2>7. ReadsAt(x, c, d, gone)'
    BY Zenon, <2>2, <2>4, <2>5, <2>6 DEF ReadsAt, ReaderKept
  <2> QED BY Zenon, <2>1, <2>7 DEF ReadsTo
<1> QED BY <1>1, <1>2 DEF ReadsTo

LEMMA WriterMoves ==
  ASSUME NEW x \in Transfers, NEW w \in Nat, NEW gone \in Seq(Wire), NEW c, c = Written(x)[w],
         WritesAt(x, c, gone), \A d \in Nat : Limit(x, d) /\ AllFit => ReadsTo(x, d, gone),
         ~Stops(x, c), WriterActs(x, c)
  PROVE  OneWay(x)'
<1>1. PICK e, p : e = After(x, c) /\ p = Due(x, c)
  OBVIOUS
<1>2. PICK token, leaf : token = Emitted(p, c.depth) /\ leaf = Shown(p)
  OBVIOUS
<1>3. c \in Configurations(x) /\ Written(x)[w + 1] = e /\ w + 1 \in Nat
  BY <1>1, WrittenFacts
<1>4. p \in WriterSteps /\ e.tokens = c.tokens \o token /\ e.sent = c.sent \o leaf
  <2>1. c \in Configurations(x) /\ ~Stops(x, c)
    BY <1>3
  <2>2. /\ Due(x, c) \in WriterSteps /\ After(x, c).tokens = c.tokens \o Emitted(Due(x, c), c.depth)
        /\ After(x, c).sent = c.sent \o Shown(Due(x, c))
    BY Zenon, <2>1, Onward
  <2> QED BY Zenon, <1>1, <1>2, <2>2
<1>5. token \in Seq(Wire) /\ leaf \in Seq(SentLeaves)
  BY <1>2, <1>3, <1>4, ConfigurationFacts, EmittedFacts
<1>6. PICK old : old = tokens["a"]
  OBVIOUS
<1>7. old \in Seq(Wire) /\ c.tokens = gone \o old /\ sent["a"] = c.sent
  BY <1>6 DEF WritesAt
<1>8. old \o token \in Seq(Wire) /\ (gone \o old) \o token = gone \o (old \o token)
  <2>1. old \in Seq(Wire)
    BY <1>7
  <2>2. (gone \o old) \o token = gone \o (old \o token)
    BY SMTT(60), <1>5, <2>1, ConcatRight
  <2>3. old \o token \in Seq(Wire)
    BY <1>5, <2>1, ConcatProperties
  <2> QED BY <2>2, <2>3
<1>9. WritesAt(x, e, gone)'
  <2>1. tokens'["a"] = old \o token /\ sent'["a"] = c.sent \o leaf
    BY Zenon, <1>1, <1>2, <1>6, <1>7 DEF WriterActs
  <2>2. todo'[Writer("a")] = All(x, e) /\ Inside("a", Writer("a"), e.depth)'
    BY Zenon, <1>1 DEF WriterActs
  <2>3. sent'["a"] = e.sent /\ tokens'["a"] \in Seq(Wire) /\ e.tokens = gone \o tokens'["a"]
    BY Zenon, <1>4, <1>7, <1>8, <2>1
  <2> QED BY Zenon, <2>2, <2>3 DEF WritesAt
<1>10. AllFit' => AllFit
  <2>1. PICK s, t : s = sent["a"] /\ t = sent'["a"]
    OBVIOUS
  <2>2. s \in Seq(SentLeaves) /\ t = s \o leaf
    <3>1. c.sent \in Seq(SentLeaves)
      BY <1>3, ConfigurationFacts
    <3>2. sent'["a"] = sent["a"] \o leaf
      BY Zenon, <1>1, <1>2 DEF WriterActs
    <3> QED BY Zenon, <1>7, <2>1, <3>1, <3>2
  <2>3. \A i \in DOMAIN s : i \in DOMAIN t /\ t[i] = s[i]
    BY <1>5, <2>2
  <2> QED BY Zenon, <2>1, <2>3 DEF AllFit
<1>11. ASSUME NEW d \in Nat, Limit(x, d), AllFit' PROVE ReadsTo(x, d, gone)'
  <2>1. ReadsTo(x, d, gone) /\ ReaderKept
    BY Zenon, <1>10, <1>11 DEF WriterActs
  <2> QED BY <2>1, ReadsToKept
<1>12. WritesAt(x, Written(x)[w + 1], gone)'
  BY Zenon, <1>3, <1>9
<1> QED BY Zenon, <1>3, <1>11, <1>12 DEF OneWay, Apart, WriterActs

LEMMA ReaderMoves ==
  ASSUME NEW x \in Transfers, NEW w \in Nat, NEW gone \in Seq(Wire), NEW c, c = Written(x)[w],
         WritesAt(x, c, gone), Idle', WriterKept, NEW fetched \in Seq(Wire),
         tokens'["a"] \in Seq(Wire) /\ fetched \o tokens'["a"] = gone \o tokens["a"],
         \A d \in Nat : Limit(x, d) /\ AllFit => ReadsTo(x, d, fetched)'
  PROVE  OneWay(x)'
<1>1. Inside("a", Writer("a"), c.depth)'
  BY DEF WritesAt, WriterKept, Inside
<1>2. WritesAt(x, c, fetched)'
  BY Zenon, <1>1 DEF WritesAt, WriterKept
<1>3. AllFit' => AllFit
  BY Zenon DEF AllFit, WriterKept
<1>4. WritesAt(x, Written(x)[w], fetched)'
  BY Zenon, <1>2
<1> QED BY Zenon, <1>3, <1>4 DEF OneWay, Apart

\* The token that the reader waits for is the first one on its way.
LEMMA InFlight ==
  ASSUME NEW x \in Transfers, NEW w \in Nat, NEW r \in Nat, NEW gone \in Seq(Wire), NEW c, c = Written(x)[r],
         WritesAt(x, Written(x)[w], gone), c.tokens = gone, tokens["a"] # <<>>, ~Stops(x, c),
         NEW token, Emitted(Due(x, c), c.depth) = <<token>>
  PROVE  /\ Head(tokens["a"]) = token /\ token \in Wire
         /\ \A leaf : Shown(Due(x, c)) = <<leaf>> => \E i \in DOMAIN sent["a"] : sent["a"][i] = leaf
<1>1. PICK b, e, p, old : b = Written(x)[w] /\ e = Written(x)[r + 1] /\ p = Due(x, c) /\ old = tokens["a"]
  OBVIOUS
<1>2. b \in Configurations(x) /\ c \in Configurations(x) /\ e = After(x, c) /\ r + 1 \in Nat
  BY <1>1, WrittenFacts
<1>3. old \in Seq(Wire) /\ old # <<>> /\ b.tokens = gone \o old /\ sent["a"] = b.sent
  BY <1>1 DEF WritesAt
<1>4. p \in WriterSteps /\ e.tokens = gone \o <<token>> /\ e.sent = c.sent \o Shown(p)
  <2>1. /\ Due(x, c) \in WriterSteps /\ After(x, c).tokens = c.tokens \o Emitted(Due(x, c), c.depth)
        /\ After(x, c).sent = c.sent \o Shown(Due(x, c))
    <3>1. c \in Configurations(x) /\ ~Stops(x, c)
      BY <1>2
    <3> QED BY Zenon, <3>1, Onward
  <2> QED BY Zenon, <1>1, <1>2, <2>1
<1>5. <<token>> \in Seq(Wire) /\ Shown(p) \in Seq(SentLeaves) /\ c.sent \in Seq(SentLeaves)
  <2>1. Emitted(p, c.depth) \in Seq(Wire) /\ Shown(p) \in Seq(SentLeaves)
    BY <1>2, <1>4, ConfigurationFacts, EmittedFacts
  <2>2. c.sent \in Seq(SentLeaves)
    BY <1>2, ConfigurationFacts
  <2> QED BY Zenon, <1>1, <2>1, <2>2
<1>6. token \in Wire
  <2>1. Len(<<token>>) = 1 /\ <<token>>[1] = token
    OBVIOUS
  <2> QED BY <1>5, <2>1
<1>7. r < w
  <2>1. ASSUME w <= r PROVE FALSE
    <3>1. Precedes(x, b, c)
      BY <1>1, <2>1, WrittenInOrder
    <3>2. PICK new \in Seq(Wire) : c.tokens = b.tokens \o new
      BY <3>1 DEF Precedes
    <3>3. gone = (gone \o old) \o new
      BY Zenon, <1>3, <3>2
    <3>4. Len(gone) = Len(gone) + Len(old) + Len(new) /\ Len(gone) \in Nat /\ Len(new) \in Nat /\ Len(old) \in Nat
      <4>1. PICK s : s = gone \o old
        OBVIOUS
      <4>2. s \in Seq(Wire) /\ Len(s) = Len(gone) + Len(old)
        BY <1>3, <4>1, ConcatProperties
      <4>3. Len(s \o new) = Len(s) + Len(new)
        BY <4>2, ConcatProperties
      <4> QED BY Zenon, <1>3, <3>3, <4>1, <4>2, <4>3, LenProperties
    <3>5. Len(old) = 0
      BY <3>4
    <3> QED BY <1>3, <3>5
  <2> QED BY <2>1
<1>8. Precedes(x, e, b)
  <2>1. r + 1 <= w
    BY <1>7
  <2> QED BY <1>1, <1>2, <2>1, WrittenInOrder
<1>9. PICK new \in Seq(Wire), more \in Seq(SentLeaves) : b.tokens = e.tokens \o new /\ b.sent = e.sent \o more
  BY <1>8 DEF Precedes
<1>10. gone \o old = (gone \o <<token>>) \o new
  BY Zenon, <1>3, <1>4, <1>9
<1>11. old[1] = token
  <2>1. PICK n, m, s, t : n = Len(gone) /\ m = Len(old) /\ s = gone \o old /\ t = gone \o <<token>>
    OBVIOUS
  <2>2. n \in Nat /\ m \in Nat /\ m >= 1
    BY <1>3, <2>1
  <2>3. s[n + 1] = old[1]
    BY <1>3, <2>1, <2>2
  <2>4. t \in Seq(Wire) /\ Len(t) = n + 1 /\ t[n + 1] = token
    <3>1. Len(<<token>>) = 1 /\ <<token>>[1] = token
      OBVIOUS
    <3> QED BY <1>5, <2>1, <2>2, <3>1, ConcatProperties
  <2>5. (t \o new)[n + 1] = t[n + 1]
    BY <1>9, <2>2, <2>4
  <2> QED BY Zenon, <1>10, <2>1, <2>3, <2>4, <2>5
<1>12. Head(old) = token
  BY <1>3, <1>11
<1>13. ASSUME NEW leaf, Shown(p) = <<leaf>> PROVE \E i \in DOMAIN sent["a"] : sent["a"][i] = leaf
  <2>1. PICK n, s, t, u : n = Len(c.sent) /\ s = c.sent /\ t = s \o <<leaf>> /\ u = t \o more
    OBVIOUS
  <2>2. sent["a"] = u
    BY Zenon, <1>3, <1>4, <1>9, <1>13, <2>1
  <2>3. s \in Seq(SentLeaves) /\ n = Len(s) /\ n \in Nat /\ <<leaf>> \in Seq(SentLeaves)
    BY <1>5, <1>13, <2>1
  <2>4. t \in Seq(SentLeaves) /\ Len(t) = n + 1 /\ t[n + 1] = leaf
    <3>1. Len(<<leaf>>) = 1 /\ <<leaf>>[1] = leaf
      OBVIOUS
    <3> QED BY <2>1, <2>3, <3>1, ConcatProperties
  <2>5. n + 1 \in DOMAIN u /\ u[n + 1] = leaf
    BY <1>9, <2>1, <2>3, <2>4
  <2> QED BY Zenon, <2>2, <2>5
<1> QED BY Zenon, <1>1, <1>6, <1>12, <1>13

-----------------------------------------------------------------------------
(* The steps of the writer *)

LEMMA ByOp ==
  ASSUME NEW p \in WriterSteps
  PROVE  /\ p.op = "put" => \E t \in DOMAIN Shape : \E v \in Values[t] : p = Put(t, v)
         /\ p.op = "raw" => \E t \in DOMAIN Shape : Simple(t) /\ \E v \in Values[t] : p = Raw(t, v)
         /\ p.op = "enter" => \E t \in DOMAIN Shape : Tagged(t) /\ ~Simple(t) /\ \E v \in Values[t] : p = Enter(t, v)
         /\ p.op = "leave" => p = Restore
BY StepKinds, StepFields

\* What the writer does is what comes next.
LEMMA WriterDue ==
  ASSUME NEW x \in Transfers, NEW c \in Configurations(x), NEW gone, WritesAt(x, c, gone),
         todo[Writer("a")] # <<>>
  PROVE  ~Stops(x, c) /\ Head(todo[Writer("a")]) = Due(x, c)
<1>1. ~Stops(x, c)
  <2>1. ASSUME Stops(x, c) PROVE FALSE
    <3>1. c.inner = <<>> /\ c.at \in 1..(Len(x.values) + 1) /\ c.at > Len(x.values)
      BY <2>1, ConfigurationFacts DEF Stops
    <3>2. Puts(x) \in Seq(WriterSteps) /\ Len(Puts(x)) = Len(x.values)
      BY TransferFacts
    <3>3. FromOn(Puts(x), c.at) = <<>>
      BY <3>1, <3>2, FromFacts
    <3>4. <<>> \o <<>> = <<>>
      OBVIOUS
    <3> QED BY Zenon, <3>1, <3>3, <3>4 DEF WritesAt, All
  <2> QED BY <2>1
<1>2. Head(All(x, c)) = Due(x, c)
  BY <1>1, Onward
<1> QED BY <1>1, <1>2 DEF WritesAt

LEMMA WriterInstead ==
  ASSUME NEW x \in Transfers, NEW c \in Configurations(x), NEW gone, WritesAt(x, c, gone), Idle,
         ~Stops(x, c), NEW new, new = Becomes(Due(x, c)), Instead(Writer("a"), new)
  PROVE  /\ DOMAIN todo' = Coros /\ todo'[Writer("a")] = All(x, After(x, c))
         /\ todo'[Reader("a")] = <<>> /\ todo'[Writer("b")] = <<>> /\ todo'[Reader("b")] = todo[Reader("b")]
<1>1. DOMAIN todo = Coros /\ todo[Reader("a")] = <<>> /\ todo[Writer("b")] = <<>>
  BY DEF Idle, OverEnds
<1>2. PICK rest : rest = new \o Tail(todo[Writer("a")])
  OBVIOUS
<1>3. todo' = [todo EXCEPT ![Writer("a")] = rest]
  BY <1>2 DEF Instead
<1>4. All(x, After(x, c)) = rest
  <2>1. All(x, After(x, c)) = Becomes(Due(x, c)) \o Tail(All(x, c))
    BY Onward
  <2> QED BY Zenon, <1>2, <2>1 DEF WritesAt
<1> QED BY <1>1, <1>3, <1>4, CoroFacts

LEMMA SentTyped ==
  ASSUME NEW x, NEW c \in Configurations(x), NEW gone, WritesAt(x, c, gone)
  PROVE  sent["a"] \in Seq(SentLeaves) /\ sent["a"] \o <<>> = sent["a"] /\ tokens["a"] \in Seq(Wire) /\ tokens["a"] \o <<>> = tokens["a"]
<1>1. sent["a"] \in Seq(SentLeaves) /\ tokens["a"] \in Seq(Wire)
  BY ConfigurationFacts DEF WritesAt
<1> QED BY <1>1, ConcatEmptySeq

LEMMA SerializeMoves ==
  ASSUME NEW x \in Transfers, NEW c \in Configurations(x), NEW gone, WritesAt(x, c, gone), Idle,
         Serialize("a")
  PROVE  ~Stops(x, c) /\ WriterActs(x, c)
<1>1. PICK p : p = Head(todo[Writer("a")])
  OBVIOUS
<1>2. /\ todo[Writer("a")] # <<>> /\ p.op = "put" /\ Instead(Writer("a"), Body(p.type, p.value))
      /\ PutTokens("a", IF Tagged(p.type) /\ ~rangeDependent["a"] THEN <<Token("tag", Tag(p.type))>> ELSE <<>>)
      /\ UNCHANGED <<transfer, rangeDependent, saved, sent, result, outcome>>
  BY <1>1 DEF Serialize, Doing, Instruction
<1>3. ~Stops(x, c) /\ p = Due(x, c)
  BY Zenon, <1>1, <1>2, WriterDue
<1>4. Becomes(p) = Body(p.type, p.value) /\ DepthAfter(p, c.depth) = c.depth /\ Shown(p) = <<>>
  BY <1>2 DEF Becomes, DepthAfter, Shown
<1>5. /\ DOMAIN todo' = Coros /\ todo'[Writer("a")] = All(x, After(x, c))
      /\ todo'[Reader("a")] = <<>> /\ todo'[Writer("b")] = <<>> /\ todo'[Reader("b")] = todo[Reader("b")]
  BY <1>2, <1>3, <1>4, WriterInstead
<1>6. OverEnds /\ Inside("a", Writer("a"), c.depth) /\ c.depth \in Nat
  BY ConfigurationFacts DEF Idle, WritesAt
<1>7. tokens'["a"] = tokens["a"] \o Emitted(p, c.depth) /\ DOMAIN tokens' = Ends
  <2>1. ~rangeDependent["a"] <=> c.depth = 0
    BY <1>6 DEF Inside
  <2>2. Emitted(p, c.depth) = IF Tagged(p.type) /\ ~rangeDependent["a"] THEN <<Token("tag", Tag(p.type))>> ELSE <<>>
    BY <1>2, <2>1 DEF Emitted
  <2>3. tokens' = [tokens EXCEPT !["a"] = @ \o Emitted(p, c.depth)]
    BY <1>2, <2>2 DEF PutTokens
  <2> QED BY <1>6, <2>3, CoroFacts DEF OverEnds
<1>8. sent'["a"] = sent["a"] \o Shown(p)
  BY <1>2, <1>4, SentTyped
<1>9. Inside("a", Writer("a"), After(x, c).depth)'
  <2>1. After(x, c).depth = c.depth
    BY <1>3, <1>4, Onward
  <2> QED BY <1>2, <1>6, <2>1 DEF Inside
<1>10. Idle' /\ ReaderKept
  BY <1>2, <1>5, <1>6, <1>7 DEF Idle, OverEnds, ReaderKept
<1> QED BY Zenon, <1>3, <1>5, <1>7, <1>8, <1>9, <1>10 DEF WriterActs

LEMMA WriteRawMoves ==
  ASSUME NEW x \in Transfers, NEW c \in Configurations(x), NEW gone, WritesAt(x, c, gone), Idle,
         WriteRaw("a")
  PROVE  ~Stops(x, c) /\ WriterActs(x, c)
<1>1. PICK p : p = Head(todo[Writer("a")])
  OBVIOUS
<1>2. /\ todo[Writer("a")] # <<>> /\ p.op = "raw" /\ Instead(Writer("a"), <<>>)
      /\ PutTokens("a", <<RawToken(p.type, p.value)>>) /\ Sends("a", <<p.type, p.value>>)
      /\ UNCHANGED <<transfer, rangeDependent, saved, result, outcome>>
  BY <1>1 DEF WriteRaw, Doing, Instruction, RawToken, Kind
<1>3. ~Stops(x, c) /\ p = Due(x, c)
  BY Zenon, <1>1, <1>2, WriterDue
<1>4. /\ Becomes(p) = <<>> /\ DepthAfter(p, c.depth) = c.depth /\ Shown(p) = <<<<p.type, p.value>>>>
      /\ Emitted(p, c.depth) = <<RawToken(p.type, p.value)>>
  BY <1>2 DEF Becomes, DepthAfter, Shown, Emitted
<1>5. /\ DOMAIN todo' = Coros /\ todo'[Writer("a")] = All(x, After(x, c))
      /\ todo'[Reader("a")] = <<>> /\ todo'[Writer("b")] = <<>> /\ todo'[Reader("b")] = todo[Reader("b")]
  BY <1>2, <1>3, <1>4, WriterInstead
<1>6. OverEnds /\ Inside("a", Writer("a"), c.depth) /\ c.depth \in Nat
  BY ConfigurationFacts DEF Idle, WritesAt
<1>7. tokens'["a"] = tokens["a"] \o Emitted(p, c.depth) /\ DOMAIN tokens' = Ends
  <2>1. tokens' = [tokens EXCEPT !["a"] = @ \o Emitted(p, c.depth)]
    BY <1>2, <1>4 DEF PutTokens
  <2> QED BY <1>6, <2>1, CoroFacts DEF OverEnds
<1>8. sent'["a"] = sent["a"] \o Shown(p) /\ DOMAIN sent' = Ends
  <2>1. sent' = [sent EXCEPT !["a"] = Append(@, <<p.type, p.value>>)]
    BY <1>2 DEF Sends
  <2>2. sent'["a"] = Append(sent["a"], <<p.type, p.value>>) /\ DOMAIN sent' = Ends
    BY <1>6, <2>1, CoroFacts DEF OverEnds
  <2>3. <<p.type, p.value>> \in SentLeaves
    <3>1. PICK t \in DOMAIN Shape : \E v \in Values[t] : p = Raw(t, v)
      BY <1>2, <1>3, ByOp, Onward
    <3>2. PICK v \in Values[t] : p = Raw(t, v)
      BY <3>1
    <3> QED BY <3>2, StepFields, ValueIn DEF SentLeaves
  <2>4. Append(sent["a"], <<p.type, p.value>>) = sent["a"] \o <<<<p.type, p.value>>>>
    BY <2>3, SentTyped, AppendIsConcat
  <2> QED BY Zenon, <1>4, <2>2, <2>4
<1>9. Inside("a", Writer("a"), After(x, c).depth)'
  <2>1. After(x, c).depth = c.depth
    BY <1>3, <1>4, Onward
  <2> QED BY <1>2, <1>6, <2>1 DEF Inside
<1>10. Idle' /\ ReaderKept
  BY <1>2, <1>5, <1>6, <1>7, <1>8 DEF Idle, OverEnds, ReaderKept
<1> QED BY Zenon, <1>3, <1>5, <1>7, <1>8, <1>9, <1>10 DEF WriterActs

LEMMA EnterValueMoves ==
  ASSUME NEW x \in Transfers, NEW c \in Configurations(x), NEW gone, WritesAt(x, c, gone), Idle,
         EnterValue("a")
  PROVE  ~Stops(x, c) /\ WriterActs(x, c)
<1>1. PICK p : p = Head(todo[Writer("a")])
  OBVIOUS
<1>2. /\ todo[Writer("a")] # <<>> /\ p.op = "enter" /\ Instead(Writer("a"), Append(PutParts(p.type, p.value), Restore))
      /\ saved' = [saved EXCEPT ![Writer("a")] = Append(@, rangeDependent["a"])]
      /\ rangeDependent' = [rangeDependent EXCEPT !["a"] = TRUE]
      /\ IF Shape[p.type].kind = "range"
         THEN PutTokens("a", <<Token("size", Condense(Len(p.value)))>>) /\ Sends("a", <<p.type, Len(p.value)>>)
         ELSE UNCHANGED <<tokens, sent>>
      /\ UNCHANGED <<transfer, result, outcome>>
  BY <1>1 DEF EnterValue, Doing, Instruction, Kind
<1>3. ~Stops(x, c) /\ p = Due(x, c)
  BY Zenon, <1>1, <1>2, WriterDue
<1>4. Becomes(p) = Append(PutParts(p.type, p.value), Restore) /\ DepthAfter(p, c.depth) = c.depth + 1
  BY <1>2 DEF Becomes, DepthAfter
<1>5. /\ DOMAIN todo' = Coros /\ todo'[Writer("a")] = All(x, After(x, c))
      /\ todo'[Reader("a")] = <<>> /\ todo'[Writer("b")] = <<>> /\ todo'[Reader("b")] = todo[Reader("b")]
  BY <1>2, <1>3, <1>4, WriterInstead
<1>6. OverEnds /\ Inside("a", Writer("a"), c.depth) /\ c.depth \in Nat
  BY ConfigurationFacts DEF Idle, WritesAt
<1>7. /\ tokens'["a"] = tokens["a"] \o Emitted(p, c.depth) /\ DOMAIN tokens' = Ends
      /\ sent'["a"] = sent["a"] \o Shown(p) /\ DOMAIN sent' = Ends
  <2>1. CASE Shape[p.type].kind = "range"
    <3>1. Emitted(p, c.depth) = <<Token("size", Condense(Len(p.value)))>> /\ Shown(p) = <<<<p.type, Len(p.value)>>>>
      BY <1>2, <2>1 DEF Emitted, Shown
    <3>2. /\ tokens' = [tokens EXCEPT !["a"] = @ \o Emitted(p, c.depth)]
          /\ sent' = [sent EXCEPT !["a"] = Append(@, <<p.type, Len(p.value)>>)]
      BY <1>2, <2>1, <3>1 DEF PutTokens, Sends
    <3>3. <<p.type, Len(p.value)>> \in SentLeaves
      <4>1. PICK t \in DOMAIN Shape : \E v \in Values[t] : p = Enter(t, v)
        BY <1>2, <1>3, ByOp, Onward
      <4>2. PICK v \in Values[t] : p = Enter(t, v)
        BY <4>1
      <4>3. p.type = t /\ p.value = v
        BY <4>2, StepFields
      <4>4. v \in Seq(Values[Shape[t].of])
        BY <2>1, <4>3, ShapeFacts
      <4>5. Len(v) \in Nat
        BY <4>4
      <4> QED BY <4>3, <4>5 DEF SentLeaves
    <3>4. Append(sent["a"], <<p.type, Len(p.value)>>) = sent["a"] \o <<<<p.type, Len(p.value)>>>>
      BY <3>3, SentTyped, AppendIsConcat
    <3>5. tokens'["a"] = tokens["a"] \o Emitted(p, c.depth) /\ DOMAIN tokens' = Ends
      BY <1>6, <3>2, CoroFacts DEF OverEnds
    <3>6. sent'["a"] = Append(sent["a"], <<p.type, Len(p.value)>>) /\ DOMAIN sent' = Ends
      BY <1>6, <3>2, CoroFacts DEF OverEnds
    <3> QED BY Zenon, <3>1, <3>4, <3>5, <3>6
  <2>2. CASE Shape[p.type].kind # "range"
    <3>1. Emitted(p, c.depth) = <<>> /\ Shown(p) = <<>>
      BY <1>2, <2>2 DEF Emitted, Shown
    <3>2. tokens' = tokens /\ sent' = sent
      BY <1>2, <2>2
    <3>3. sent["a"] \o <<>> = sent["a"] /\ tokens["a"] \o <<>> = tokens["a"]
      BY SentTyped
    <3> QED BY Zenon, <1>6, <3>1, <3>2, <3>3 DEF OverEnds
  <2> QED BY <2>1, <2>2
<1>9. Inside("a", Writer("a"), After(x, c).depth)' /\ DOMAIN saved' = Coros /\ DOMAIN rangeDependent' = Ends
  <2>1. After(x, c).depth = c.depth + 1
    BY <1>3, <1>4, Onward
  <2>2. /\ saved'[Writer("a")] = Append(saved[Writer("a")], rangeDependent["a"]) /\ rangeDependent'["a"] = TRUE
        /\ DOMAIN saved' = Coros /\ DOMAIN rangeDependent' = Ends
    BY <1>2, <1>6, CoroFacts DEF OverEnds
  <2>3. Append(SavedAt(c.depth), rangeDependent["a"]) = SavedAt(c.depth + 1)
    BY <1>6, SavedFacts DEF Inside
  <2>4. saved[Writer("a")] = SavedAt(c.depth)
    BY <1>6 DEF Inside
  <2>5. saved'[Writer("a")] = SavedAt(After(x, c).depth)
    BY Zenon, <2>1, <2>2, <2>3, <2>4
  <2>6. After(x, c).depth > 0
    BY <1>6, <2>1
  <2> QED BY <2>2, <2>5, <2>6 DEF Inside
<1>10. ReaderKept
  <2>1. saved'[Reader("b")] = saved[Reader("b")] /\ rangeDependent'["b"] = rangeDependent["b"]
    BY <1>2, <1>6, CoroFacts DEF OverEnds
  <2> QED BY <1>2, <1>5, <2>1 DEF ReaderKept
<1>11. Idle'
  BY <1>2, <1>5, <1>6, <1>7, <1>9 DEF Idle, OverEnds
<1> QED BY Zenon, <1>3, <1>5, <1>7, <1>9, <1>10, <1>11 DEF WriterActs

LEMMA LeaveWrittenMoves ==
  ASSUME NEW x \in Transfers, NEW c \in Configurations(x), NEW gone, WritesAt(x, c, gone), Idle,
         LeaveValue(Writer("a"))
  PROVE  ~Stops(x, c) /\ WriterActs(x, c)
<1>1. PICK p : p = Head(todo[Writer("a")])
  OBVIOUS
<1>2. /\ todo[Writer("a")] # <<>> /\ p.op = "leave" /\ Instead(Writer("a"), <<>>)
      /\ rangeDependent' = [rangeDependent EXCEPT !["a"] = saved[Writer("a")][Len(saved[Writer("a")])]]
      /\ saved' = [saved EXCEPT ![Writer("a")] = SubSeq(@, 1, Len(@) - 1)]
      /\ p = Restore => result' = result
      /\ UNCHANGED <<transfer, tokens, sent, outcome>>
  BY <1>1, CoroFacts DEF LeaveValue, Doing, Instruction
<1>3. ~Stops(x, c) /\ p = Due(x, c)
  BY Zenon, <1>1, <1>2, WriterDue
<1>4. /\ p = Restore /\ Becomes(p) = <<>> /\ DepthAfter(p, c.depth) = c.depth - 1 /\ c.depth >= 1
      /\ Emitted(p, c.depth) = <<>> /\ Shown(p) = <<>>
  <2>1. p = Restore /\ c.depth >= 1
    BY <1>2, <1>3, Onward, ByOp
  <2> QED BY <1>2, <2>1 DEF Becomes, DepthAfter, Emitted, Shown
<1>5. /\ DOMAIN todo' = Coros /\ todo'[Writer("a")] = All(x, After(x, c))
      /\ todo'[Reader("a")] = <<>> /\ todo'[Writer("b")] = <<>> /\ todo'[Reader("b")] = todo[Reader("b")]
  BY <1>2, <1>3, <1>4, WriterInstead
<1>6. OverEnds /\ Inside("a", Writer("a"), c.depth) /\ c.depth \in Nat
  BY ConfigurationFacts DEF Idle, WritesAt
<1>7. tokens'["a"] = tokens["a"] \o Emitted(p, c.depth) /\ sent'["a"] = sent["a"] \o Shown(p)
  <2>1. sent["a"] \o <<>> = sent["a"] /\ tokens["a"] \o <<>> = tokens["a"]
    BY SentTyped
  <2> QED BY Zenon, <1>2, <1>4, <2>1
<1>9. Inside("a", Writer("a"), After(x, c).depth)' /\ DOMAIN saved' = Coros /\ DOMAIN rangeDependent' = Ends
  <2>1. After(x, c).depth = c.depth - 1
    BY <1>3, <1>4, Onward
  <2>2. saved[Writer("a")] = SavedAt(c.depth) /\ Len(SavedAt(c.depth)) = c.depth
    BY <1>6, SavedFacts DEF Inside
  <2>3. /\ saved'[Writer("a")] = SubSeq(SavedAt(c.depth), 1, c.depth - 1)
        /\ rangeDependent'["a"] = SavedAt(c.depth)[c.depth]
        /\ DOMAIN saved' = Coros /\ DOMAIN rangeDependent' = Ends
    BY <1>2, <1>6, <2>2, CoroFacts DEF OverEnds
  <2>4. /\ SubSeq(SavedAt(c.depth), 1, c.depth - 1) = SavedAt(c.depth - 1)
        /\ SavedAt(c.depth)[c.depth] \in BOOLEAN /\ (SavedAt(c.depth)[c.depth] <=> c.depth - 1 > 0)
    BY <1>4, <1>6, SavedFacts
  <2> QED BY Zenon, <2>1, <2>3, <2>4 DEF Inside
<1>10. ReaderKept
  <2>1. saved'[Reader("b")] = saved[Reader("b")] /\ rangeDependent'["b"] = rangeDependent["b"]
    BY <1>2, <1>6, CoroFacts DEF OverEnds
  <2> QED BY <1>2, <1>4, <1>5, <2>1 DEF ReaderKept
<1>11. Idle'
  BY <1>2, <1>4, <1>5, <1>6, <1>9 DEF Idle, OverEnds
<1> QED BY Zenon, <1>3, <1>5, <1>7, <1>9, <1>10, <1>11 DEF WriterActs

-----------------------------------------------------------------------------
(* The steps of the reader *)

LEMMA FirstOf ==
  ASSUME NEW S, NEW rest \in Seq(S), NEW q
  PROVE  <<q>> \o rest # <<>> /\ Head(<<q>> \o rest) = q /\ Tail(<<q>> \o rest) = rest
<1>1. PICK T : T = S \cup {q}
  OBVIOUS
<1>2. rest \in Seq(T) /\ <<q>> \in Seq(T) /\ <<q>> # <<>> /\ Head(<<q>>) = q /\ Tail(<<q>>) = <<>>
  BY <1>1
<1>3. /\ <<q>> \o rest # <<>> /\ Head(<<q>> \o rest) = Head(<<q>>)
      /\ Tail(<<q>> \o rest) = Tail(<<q>>) \o rest
  BY <1>2, HeadOfConcat
<1>4. <<>> \o rest = rest
  BY ConcatEmptySeq
<1> QED BY Zenon, <1>2, <1>3, <1>4

\* The next value has another tag than that of the type the reader expects.
Differs(x, c, d) ==
  /\ c.depth = 0 /\ d \in 1..Len(x.values) /\ d <= Len(x.expected)
  /\ Tagged(x.values[d].type) /\ Tagged(x.expected[d]) /\ Tag(x.values[d].type) # Tag(x.expected[d])
  /\ Due(x, c) = Put(x.values[d].type, x.values[d].value) /\ Head(todo[Reader("b")]) = Get(x.expected[d])
  /\ AtStep(x, c)

\* What comes after the step that the writer did at c.
Expects(x, c, d) ==
  /\ After(x, c).at <= d /\ Tail(todo[Reader("b")]) \in Seq(ReaderSteps)
  /\ Back(x, After(x, c)) = Reading(Becomes(Due(x, c))) \o Tail(todo[Reader("b")])

\* What the reader does is the answer to what the writer did.
LEMMA ReaderDue ==
  ASSUME NEW x \in Transfers, NEW d \in Nat, Limit(x, d), NEW gone, NEW c \in Configurations(x),
         ReadsAt(x, c, d, gone), todo[Reader("b")] # <<>>
  PROVE  /\ ~Stops(x, c) /\ outcome["b"] = "reading"
         /\ \/ Differs(x, c, d)
            \/ AtStep(x, c) /\ Expects(x, c, d) /\ Head(todo[Reader("b")]) = AnswerTo(Due(x, c))
            \/ /\ AtSize(x, c) /\ Expects(x, c, d) /\ Due(x, c).op = "enter" /\ Shape[Due(x, c).type].kind = "range"
               /\ Head(todo[Reader("b")]) = SizeGet(Due(x, c).type)
            \/ /\ AtEmpty(x, c) /\ Expects(x, c, d) /\ Due(x, c) = Restore
               /\ \E t, m : /\ Head(todo[Reader("b")]) = RestoreEmpty(t, m)
                            /\ Append(SubSeq(result["b"], 1, m), <<t, 0>>) = result["b"]
<1>1. c.at <= d /\ outcome["b"] = "reading" /\ (AtStep(x, c) \/ AtSize(x, c) \/ AtEmpty(x, c))
  BY DEF ReadsAt
<1>2. /\ d >= 1 /\ d <= Len(x.values) + 1 /\ d <= Len(x.expected) + 1 /\ Len(x.values) \in Nat /\ Len(x.expected) \in Nat
      /\ c.at \in 1..(Len(x.values) + 1)
  BY LimitFacts, TransferFacts, GetsFacts, ConfigurationFacts
<1>3. ASSUME c.inner # <<>>
      PROVE  /\ ~Stops(x, c) /\ After(x, c).at <= d /\ Due(x, c) = Head(c.inner)
             /\ Tail(Back(x, c)) \in Seq(ReaderSteps) /\ Head(Back(x, c)) = AnswerTo(Due(x, c))
             /\ Back(x, After(x, c)) = Reading(Becomes(Due(x, c))) \o Tail(Back(x, c))
  <2>1. ~Stops(x, c)
    BY <1>3 DEF Stops
  <2>2. c.at <= Len(x.expected) + 1
    BY <1>1, <1>2
  <2>3. After(x, c).at = c.at
    BY <1>3, <2>1, Onward DEF Following
  <2> QED BY <1>1, <1>3, <2>1, <2>2, <2>3, BackFacts
<1>4. CASE AtStep(x, c)
  <2>1. todo[Reader("b")] = Back(x, c)
    BY <1>4 DEF AtStep
  <2>2. CASE c.inner # <<>>
    BY Zenon, <1>1, <1>3, <1>4, <2>1, <2>2 DEF Expects
  <2>3. CASE c.inner = <<>>
    <3>1. c.at <= Len(x.expected)
      <4>1. ASSUME c.at > Len(x.expected) PROVE FALSE
        <5>1. Gets(x) \in Seq(ReaderSteps) /\ Len(Gets(x)) = Len(x.expected)
          BY GetsFacts
        <5>2. FromOn(Gets(x), c.at) = <<>>
          BY <1>1, <1>2, <4>1, <5>1, FromFacts
        <5>3. <<>> \o <<>> = <<>>
          OBVIOUS
        <5> QED BY Zenon, <2>1, <2>3, <5>2, <5>3, ReadingNone DEF Back
      <4> QED BY <1>2, <4>1
    <3>2. c.at <= Len(x.values) /\ ~Stops(x, c)
      <4>1. c.at <= Len(x.values)
        BY <1>1, <1>2, <3>1 DEF Limit
      <4> QED BY <1>2, <4>1 DEF Stops
    <3>3. /\ Head(Back(x, c)) = Get(x.expected[c.at]) /\ c.at \in 1..Len(x.values)
          /\ Due(x, c) = Put(x.values[c.at].type, x.values[c.at].value)
          /\ Tail(Back(x, c)) \in Seq(ReaderSteps)
          /\ Back(x, After(x, c)) = Reading(Becomes(Due(x, c))) \o Tail(Back(x, c))
      BY <1>2, <2>3, <3>1, <3>2, BackFacts
    <3>4. c.depth = 0 /\ After(x, c).at = c.at + 1
      BY <2>3, <3>2, Onward DEF Following
    <3>5. CASE c.at = d
      <4>1. /\ d \in 1..Len(x.values) /\ d <= Len(x.expected) /\ Tagged(x.values[d].type)
            /\ Tagged(x.expected[d]) /\ Tag(x.values[d].type) # Tag(x.expected[d])
        BY <1>2, <3>1, <3>2, <3>5 DEF Limit
      <4>2. Differs(x, c, d)
        BY Zenon, <1>4, <2>1, <3>3, <3>4, <3>5, <4>1 DEF Differs
      <4> QED BY <1>1, <3>2, <4>2
    <3>6. CASE c.at # d
      <4>1. c.at \in 1..(d - 1) /\ After(x, c).at <= d
        BY <1>1, <1>2, <3>4, <3>6
      <4>2. x.values[c.at].type = x.expected[c.at]
        BY <4>1 DEF Limit
      <4>3. Head(todo[Reader("b")]) = AnswerTo(Due(x, c))
        BY Zenon, <2>1, <3>3, <4>2, AnswerFacts
      <4> QED BY Zenon, <1>1, <1>4, <2>1, <3>2, <3>3, <4>1, <4>3 DEF Expects
    <3> QED BY <3>5, <3>6
  <2> QED BY <2>2, <2>3
<1>5. CASE AtSize(x, c)
  <2>1. /\ c.inner # <<>> /\ Head(c.inner).op = "enter" /\ Shape[Head(c.inner).type].kind = "range"
        /\ todo[Reader("b")] = <<SizeGet(Head(c.inner).type)>> \o Tail(Back(x, c))
    BY <1>5 DEF AtSize
  <2>2. /\ ~Stops(x, c) /\ After(x, c).at <= d /\ Due(x, c) = Head(c.inner)
        /\ Tail(Back(x, c)) \in Seq(ReaderSteps)
        /\ Back(x, After(x, c)) = Reading(Becomes(Due(x, c))) \o Tail(Back(x, c))
    BY <1>3, <2>1
  <2>3. Head(todo[Reader("b")]) = SizeGet(Head(c.inner).type) /\ Tail(todo[Reader("b")]) = Tail(Back(x, c))
    <3>1. Tail(Back(x, c)) \in Seq(ReaderSteps)
      BY <2>2
    <3>2. PICK q : q = SizeGet(Head(c.inner).type)
      OBVIOUS
    <3>3. Head(<<q>> \o Tail(Back(x, c))) = q /\ Tail(<<q>> \o Tail(Back(x, c))) = Tail(Back(x, c))
      BY <3>1, FirstOf
    <3> QED BY Zenon, <2>1, <3>2, <3>3
  <2> QED BY Zenon, <1>1, <1>5, <2>1, <2>2, <2>3 DEF Expects
<1>6. CASE AtEmpty(x, c)
  <2>1. c.inner # <<>> /\ Head(c.inner) = Restore
    BY <1>6 DEF AtEmpty
  <2>4. PICK t, m : /\ todo[Reader("b")] = <<RestoreEmpty(t, m)>> \o Tail(Back(x, c))
                    /\ Append(SubSeq(result["b"], 1, m), <<t, 0>>) = result["b"]
    BY <1>6 DEF AtEmpty
  <2>2. /\ ~Stops(x, c) /\ After(x, c).at <= d /\ Due(x, c) = Head(c.inner)
        /\ Tail(Back(x, c)) \in Seq(ReaderSteps)
        /\ Back(x, After(x, c)) = Reading(Becomes(Due(x, c))) \o Tail(Back(x, c))
    BY <1>3, <2>1
  <2>3. Head(todo[Reader("b")]) = RestoreEmpty(t, m) /\ Tail(todo[Reader("b")]) = Tail(Back(x, c))
    <3>1. Tail(Back(x, c)) \in Seq(ReaderSteps)
      BY <2>2
    <3>2. PICK q : q = RestoreEmpty(t, m)
      OBVIOUS
    <3>3. Head(<<q>> \o Tail(Back(x, c))) = q /\ Tail(<<q>> \o Tail(Back(x, c))) = Tail(Back(x, c))
      BY <3>1, FirstOf
    <3> QED BY Zenon, <2>4, <3>2, <3>3
  <2> QED BY Zenon, <1>1, <1>6, <2>1, <2>2, <2>3, <2>4 DEF Expects
<1> QED BY <1>1, <1>4, <1>5, <1>6

LEMMA AnswerOps ==
  ASSUME NEW p \in WriterSteps
  PROVE  /\ AnswerTo(p).op = "get" => \E t \in DOMAIN Shape : \E v \in Values[t] : p = Put(t, v)
         /\ AnswerTo(p).op = "rawget" => \E t \in DOMAIN Shape : Simple(t) /\ \E v \in Values[t] : p = Raw(t, v)
         /\ AnswerTo(p).op = "enterget" =>
              \E t \in DOMAIN Shape : Tagged(t) /\ ~Simple(t) /\ \E v \in Values[t] : p = Enter(t, v)
         /\ AnswerTo(p).op = "leave" => p = Restore
         /\ AnswerTo(p).op # "sizeget"
<1>1. \A t, v : /\ AnswerTo(Put(t, v)).op = "get" /\ AnswerTo(Raw(t, v)).op = "rawget"
                /\ AnswerTo(Enter(t, v)).op = "enterget" /\ AnswerTo(Restore).op = "leave"
  BY AnswerFacts, StepFields DEF Get, RawGet, EnterGet
<1> QED BY <1>1, StepKinds

LEMMA ReaderFields ==
  \A t, m : /\ Get(t).op = "get" /\ Get(t).type = t /\ RawGet(t).op = "rawget" /\ RawGet(t).type = t
            /\ EnterGet(t).op = "enterget" /\ EnterGet(t).type = t /\ SizeGet(t).op = "sizeget" /\ SizeGet(t).type = t
            /\ RestoreEmpty(t, m).op = "leave" /\ RestoreEmpty(t, m).type = t /\ RestoreEmpty(t, m).mark = m
            /\ RestoreEmpty(t, m) # Restore
<1>1. ASSUME NEW t, NEW m PROVE RestoreEmpty(t, m) # Restore
  <2>1. DOMAIN RestoreEmpty(t, m) = {"op", "type", "mark"} /\ DOMAIN Restore = {"op"}
    BY DEF RestoreEmpty, Restore
  <2> QED BY <2>1
<1> QED BY <1>1 DEF Get, RawGet, EnterGet, SizeGet, RestoreEmpty

LEMMA ReaderInstead ==
  ASSUME Idle, NEW new, Instead(Reader("b"), new)
  PROVE  /\ DOMAIN todo' = Coros /\ todo'[Reader("b")] = new \o Tail(todo[Reader("b")])
         /\ todo'[Reader("a")] = <<>> /\ todo'[Writer("b")] = <<>> /\ todo'[Writer("a")] = todo[Writer("a")]
<1>1. DOMAIN todo = Coros /\ todo[Reader("a")] = <<>> /\ todo[Writer("b")] = <<>>
  BY DEF Idle, OverEnds
<1>2. PICK rest : rest = new \o Tail(todo[Reader("b")])
  OBVIOUS
<1>3. todo' = [todo EXCEPT ![Reader("b")] = rest]
  BY <1>2 DEF Instead
<1> QED BY <1>1, <1>2, <1>3, CoroFacts

\* The reader takes a token.
LEMMA Taken ==
  ASSUME NEW x, NEW c, NEW gone \in Seq(Wire), WritesAt(x, c, gone), Idle, tokens["a"] # <<>>, Take("b")
  PROVE  /\ Head(tokens["a"]) \in Wire /\ gone \o <<Head(tokens["a"])>> \in Seq(Wire)
         /\ tokens'["a"] \in Seq(Wire) /\ DOMAIN tokens' = Ends
         /\ (gone \o <<Head(tokens["a"])>>) \o tokens'["a"] = gone \o tokens["a"]
<1>1. PICK old, one, rest : old = tokens["a"] /\ one = Head(old) /\ rest = Tail(old)
  OBVIOUS
<1>2. old \in Seq(Wire) /\ old # <<>>
  BY <1>1 DEF WritesAt
<1>3. one \in Wire /\ rest \in Seq(Wire) /\ <<one>> \in Seq(Wire) /\ <<one>> \o rest = old
  BY <1>1, <1>2
<1>4. tokens'["a"] = rest /\ DOMAIN tokens' = Ends
  BY <1>1, CoroFacts DEF Take, Idle, OverEnds
<1>5. gone \o <<one>> \in Seq(Wire)
  BY <1>3, ConcatProperties
<1>6. (gone \o <<one>>) \o rest = gone \o (<<one>> \o rest)
  <2>1. <<one>> \in Seq(Wire) /\ rest \in Seq(Wire)
    BY <1>3
  <2> QED BY <2>1, ConcatAssociative
<1> QED BY Zenon, <1>1, <1>3, <1>4, <1>5, <1>6

LEMMA ReaderAt ==
  ASSUME NEW x \in Transfers, NEW w \in Nat, NEW gone, Apart(x, w, gone), NEW d \in Nat, Limit(x, d), AllFit,
         todo[Reader("b")] # <<>>
  PROVE  \E r \in Nat : Written(x)[r] \in Configurations(x) /\ ReadsAt(x, Written(x)[r], d, gone)
<1>1. ReadsTo(x, d, gone)
  BY Zenon DEF Apart
<1>2. PICK r \in Nat : ReadsAt(x, Written(x)[r], d, gone)
  BY Zenon, <1>1 DEF ReadsTo, Threw
<1> QED BY <1>2, WrittenFacts

\* The reader does what the writer did at c, and took the token that the writer put.
ReaderActs(x, c, fetched) ==
  /\ todo'[Reader("b")] = Reading(Becomes(Due(x, c))) \o Tail(todo[Reader("b")])
  /\ Inside("b", Reader("b"), DepthAfter(Due(x, c), c.depth))'
  /\ fetched = c.tokens \o Emitted(Due(x, c), c.depth)
  /\ result'["b"] = c.sent \o Shown(Due(x, c)) /\ outcome'["b"] = "reading"

LEMMA ReaderArrives ==
  ASSUME NEW x \in Transfers, NEW r \in Nat, NEW c \in Configurations(x), c = Written(x)[r], ~Stops(x, c),
         NEW d, NEW fetched, Expects(x, c, d), ReaderActs(x, c, fetched)
  PROVE  ReadsTo(x, d, fetched)'
<1>1. PICK e : e = After(x, c)
  OBVIOUS
<1>2. Written(x)[r + 1] = e /\ r + 1 \in Nat
  BY <1>1, WrittenFacts
<1>3. /\ e.depth = DepthAfter(Due(x, c), c.depth) /\ e.tokens = c.tokens \o Emitted(Due(x, c), c.depth)
      /\ e.sent = c.sent \o Shown(Due(x, c))
  BY Zenon, <1>1, Onward
<1>4. e.at <= d /\ Back(x, e) = Reading(Becomes(Due(x, c))) \o Tail(todo[Reader("b")])
  BY Zenon, <1>1 DEF Expects
<1>5. AtStep(x, e)'
  BY Zenon, <1>3, <1>4 DEF AtStep, ReaderActs
<1>6. ReadsAt(x, e, d, fetched)'
  BY Zenon, <1>3, <1>4, <1>5 DEF ReadsAt, ReaderActs
<1> QED BY Zenon, <1>2, <1>6 DEF ReadsTo

LEMMA DeserializeMoves ==
  ASSUME NEW x \in Transfers, NEW w \in Nat, NEW gone \in Seq(Wire), Apart(x, w, gone), Deserialize("b")
  PROVE  OneWay(x)'
<1>1. PICK q : q = Head(todo[Reader("b")])
  OBVIOUS
<1>2. /\ todo[Reader("b")] # <<>> /\ q.op = "get" /\ (~Tagged(q.type) \/ rangeDependent["b"])
      /\ Instead(Reader("b"), BodyGet(q.type))
      /\ UNCHANGED <<transfer, rangeDependent, tokens, saved, sent, result, outcome>>
  BY <1>1 DEF Deserialize, Doing, Instruction
<1>3. Idle /\ WritesAt(x, Written(x)[w], gone)
  BY DEF Apart
<1>4. /\ DOMAIN todo' = Coros /\ todo'[Reader("b")] = BodyGet(q.type) \o Tail(todo[Reader("b")])
      /\ todo'[Reader("a")] = <<>> /\ todo'[Writer("b")] = <<>> /\ todo'[Writer("a")] = todo[Writer("a")]
  BY <1>2, <1>3, ReaderInstead
<1>5. Idle' /\ WriterKept
  BY <1>2, <1>3, <1>4 DEF Idle, OverEnds, WriterKept
<1>6. ASSUME NEW d \in Nat, Limit(x, d), AllFit PROVE ReadsTo(x, d, gone)'
  <2>1. PICK r \in Nat : Written(x)[r] \in Configurations(x) /\ ReadsAt(x, Written(x)[r], d, gone)
    BY <1>2, <1>6, ReaderAt
  <2>2. PICK c \in Configurations(x) : c = Written(x)[r]
    BY <2>1
  <2>3. ReadsAt(x, c, d, gone) /\ c.tokens = gone /\ result["b"] = c.sent
    BY <2>1, <2>2 DEF ReadsAt
  <2>4. /\ ~Stops(x, c) /\ outcome["b"] = "reading"
        /\ Differs(x, c, d) \/ (AtStep(x, c) /\ Expects(x, c, d) /\ q = AnswerTo(Due(x, c)))
    <3>1. \A t, m : q # SizeGet(t) /\ (q = RestoreEmpty(t, m) => FALSE)
      BY <1>2, ReaderFields
    <3> QED BY Zenon, <1>1, <1>2, <1>6, <2>3, <3>1, ReaderDue
  <2>5. ~Differs(x, c, d)
    BY <1>1, <1>2, ReaderFields DEF Differs, AtStep, Inside
  <2>6. AtStep(x, c) /\ Expects(x, c, d) /\ q = AnswerTo(Due(x, c)) /\ Due(x, c) \in WriterSteps
    BY <2>4, <2>5, Onward
  <2>7. PICK t \in DOMAIN Shape : \E v \in Values[t] : Due(x, c) = Put(t, v)
    BY <1>2, <2>6, AnswerOps
  <2>8. PICK v \in Values[t] : Due(x, c) = Put(t, v)
    BY <2>7
  <2>9. q.type = t
    BY <2>6, <2>8, AnswerFacts, ReaderFields
  <2>10. Inside("b", Reader("b"), c.depth) /\ c.depth \in Nat
    BY <2>6, ConfigurationFacts DEF AtStep
  <2>11. Emitted(Due(x, c), c.depth) = <<>> /\ Shown(Due(x, c)) = <<>> /\ DepthAfter(Due(x, c), c.depth) = c.depth
    BY <1>2, <2>8, <2>9, <2>10, StepFields DEF Emitted, Shown, DepthAfter, Inside
  <2>12. Reading(Becomes(Due(x, c))) = BodyGet(t)
    BY <2>8, ReadingBecomes
  <2>13. Inside("b", Reader("b"), c.depth)'
    BY <1>2, <2>10 DEF Inside
  <2>14. gone \o <<>> = gone /\ c.sent \o <<>> = c.sent
    <3>1. c.sent \in Seq(SentLeaves)
      BY ConfigurationFacts
    <3> QED BY <3>1, ConcatEmptySeq
  <2>15. ReaderActs(x, c, gone)
    BY Zenon, <1>2, <1>4, <2>3, <2>4, <2>9, <2>11, <2>12, <2>13, <2>14 DEF ReaderActs
  <2> QED BY <2>2, <2>4, <2>6, <2>15, ReaderArrives
<1>7. tokens'["a"] \in Seq(Wire) /\ gone \o tokens'["a"] = gone \o tokens["a"]
  BY <1>2, <1>3 DEF WritesAt
<1> QED BY Zenon, <1>3, <1>5, <1>6, <1>7, ReaderMoves DEF Apart

LEMMA VerifyMoves ==
  ASSUME NEW x \in Transfers, NEW w \in Nat, NEW gone \in Seq(Wire), Apart(x, w, gone), Verify("b")
  PROVE  OneWay(x)'
<1>1. PICK q, token : q = Head(todo[Reader("b")]) /\ token = Head(tokens["a"])
  OBVIOUS
<1>2. /\ todo[Reader("b")] # <<>> /\ q.op = "get" /\ Tagged(q.type) /\ ~rangeDependent["b"]
      /\ tokens["a"] # <<>> /\ Take("b")
      /\ IF token = Token("tag", Tag(q.type)) THEN Instead(Reader("b"), BodyGet(q.type)) /\ UNCHANGED outcome
         ELSE Fail("b", IF token.kind = "tag" THEN "threw" ELSE "garbled")
      /\ UNCHANGED <<transfer, rangeDependent, saved, sent, result>>
  BY <1>1, CoroFacts DEF Verify, Doing, Instruction, Incoming
<1>3. Idle /\ WritesAt(x, Written(x)[w], gone)
  BY DEF Apart
<1>4. PICK fetched : fetched = gone \o <<token>>
  OBVIOUS
<1>5. /\ fetched \in Seq(Wire) /\ tokens'["a"] \in Seq(Wire) /\ DOMAIN tokens' = Ends
      /\ fetched \o tokens'["a"] = gone \o tokens["a"]
  BY Zenon, <1>1, <1>2, <1>3, <1>4, Taken
<1>6. Idle' /\ WriterKept /\ DOMAIN outcome' = Ends
  <2>1. CASE token = Token("tag", Tag(q.type))
    <3>1. Instead(Reader("b"), BodyGet(q.type)) /\ outcome' = outcome
      BY <1>2, <2>1
    <3>2. /\ DOMAIN todo' = Coros /\ todo'[Reader("a")] = <<>> /\ todo'[Writer("b")] = <<>>
          /\ todo'[Writer("a")] = todo[Writer("a")]
      BY <1>3, <3>1, ReaderInstead
    <3> QED BY <1>2, <1>3, <1>5, <3>1, <3>2 DEF Idle, OverEnds, WriterKept
  <2>2. CASE token # Token("tag", Tag(q.type))
    <3>1. PICK how : Fail("b", how)
      BY <1>2, <2>2
    <3>2. /\ DOMAIN todo' = Coros /\ todo'[Reader("a")] = <<>> /\ todo'[Writer("b")] = <<>>
          /\ todo'[Writer("a")] = todo[Writer("a")] /\ DOMAIN outcome' = Ends
      BY <1>3, <3>1, CoroFacts DEF Fail, Idle, OverEnds
    <3> QED BY <1>2, <1>3, <1>5, <3>2 DEF Idle, OverEnds, WriterKept
  <2> QED BY <2>1, <2>2 DEF Idle, OverEnds
<1>7. ASSUME NEW d \in Nat, Limit(x, d), AllFit PROVE ReadsTo(x, d, fetched)'
  <2>1. PICK r \in Nat : Written(x)[r] \in Configurations(x) /\ ReadsAt(x, Written(x)[r], d, gone)
    BY <1>2, <1>7, ReaderAt
  <2>2. PICK c \in Configurations(x) : c = Written(x)[r]
    BY <2>1
  <2>3. ReadsAt(x, c, d, gone) /\ c.tokens = gone /\ result["b"] = c.sent
    BY <2>1, <2>2 DEF ReadsAt
  <2>4. /\ ~Stops(x, c) /\ outcome["b"] = "reading"
        /\ Differs(x, c, d) \/ (AtStep(x, c) /\ Expects(x, c, d) /\ q = AnswerTo(Due(x, c)))
    <3>1. \A t, m : q # SizeGet(t) /\ (q = RestoreEmpty(t, m) => FALSE)
      BY <1>2, ReaderFields
    <3> QED BY Zenon, <1>1, <1>2, <1>7, <2>3, <3>1, ReaderDue
  <2>5. \A s : Emitted(Due(x, c), c.depth) = <<s>> => token = s
    <3>1. tokens["a"] # <<>> /\ WritesAt(x, Written(x)[w], gone) /\ c.tokens = gone /\ ~Stops(x, c)
      BY Zenon, <1>2, <1>3, <2>3, <2>4
    <3>2. ASSUME NEW s, Emitted(Due(x, c), c.depth) = <<s>> PROVE Head(tokens["a"]) = s
      BY <2>2, <3>1, <3>2, InFlight
    <3> QED BY Zenon, <1>1, <3>2
  <2>6. CASE Differs(x, c, d)
    <3>1. PICK t, v : t = x.values[d].type /\ v = x.values[d].value
      OBVIOUS
    <3>2. /\ d <= Len(x.values) /\ Tag(t) # Tag(x.expected[d]) /\ Tagged(t) /\ c.depth = 0 /\ Due(x, c) = Put(t, v)
          /\ q = Get(x.expected[d])
      BY <1>1, <2>6, <3>1 DEF Differs
    <3>3. Emitted(Due(x, c), c.depth) = <<Token("tag", Tag(t))>>
      BY <3>2, StepFields DEF Emitted
    <3>4. token = Token("tag", Tag(t)) /\ q.type = x.expected[d]
      BY <2>5, <3>2, <3>3, ReaderFields
    <3>5. token # Token("tag", Tag(q.type)) /\ token.kind = "tag"
      BY <3>2, <3>4 DEF Token
    <3>6. Fail("b", "threw")
      BY <1>2, <3>5
    <3>7. outcome'["b"] = "threw" /\ todo'[Reader("b")] = <<>>
      BY <1>3, <3>6, CoroFacts DEF Fail, Idle, OverEnds
    <3>8. Threw(x, d)'
      BY <3>2, <3>7 DEF Threw
    <3> QED BY Zenon, <3>8 DEF ReadsTo
  <2>7. CASE ~Differs(x, c, d)
    <3>1. AtStep(x, c) /\ Expects(x, c, d) /\ q = AnswerTo(Due(x, c)) /\ Due(x, c) \in WriterSteps
      BY <2>4, <2>7, Onward
    <3>2. PICK t \in DOMAIN Shape : \E v \in Values[t] : Due(x, c) = Put(t, v)
      BY <1>2, <3>1, AnswerOps
    <3>3. PICK v \in Values[t] : Due(x, c) = Put(t, v)
      BY <3>2
    <3>4. q.type = t
      BY <3>1, <3>3, AnswerFacts, ReaderFields
    <3>5. Inside("b", Reader("b"), c.depth) /\ c.depth = 0
      <4>1. Inside("b", Reader("b"), c.depth) /\ c.depth \in Nat
        BY <3>1, ConfigurationFacts DEF AtStep
      <4> QED BY <1>2, <4>1 DEF Inside
    <3>6. /\ Emitted(Due(x, c), c.depth) = <<Token("tag", Tag(t))>> /\ Shown(Due(x, c)) = <<>>
          /\ DepthAfter(Due(x, c), c.depth) = c.depth
      BY <1>2, <3>3, <3>4, <3>5, StepFields DEF Emitted, Shown, DepthAfter
    <3>7. token = Token("tag", Tag(t))
      BY Zenon, <2>5, <3>6
    <3>8. Instead(Reader("b"), BodyGet(t)) /\ outcome' = outcome
      BY <1>2, <3>4, <3>7
    <3>9. todo'[Reader("b")] = BodyGet(t) \o Tail(todo[Reader("b")])
      BY <1>3, <3>8, ReaderInstead
    <3>10. Reading(Becomes(Due(x, c))) = BodyGet(t)
      BY <3>3, ReadingBecomes
    <3>11. Inside("b", Reader("b"), c.depth)'
      BY <1>2, <3>5 DEF Inside
    <3>12. c.sent \o <<>> = c.sent
      <4>1. c.sent \in Seq(SentLeaves)
        BY ConfigurationFacts
      <4> QED BY <4>1, ConcatEmptySeq
    <3>13. ReaderActs(x, c, fetched)
      BY Zenon, <1>2, <1>4, <2>3, <2>4, <3>6, <3>7, <3>8, <3>9, <3>10, <3>11, <3>12 DEF ReaderActs
    <3> QED BY <2>2, <2>4, <3>1, <3>13, ReaderArrives
  <2> QED BY <2>6, <2>7
<1> QED BY Zenon, <1>3, <1>5, <1>6, <1>7, ReaderMoves DEF Apart

\* A leaf that was sent is read, if it comes back.
LEMMA LeafRead ==
  ASSUME NEW t \in DOMAIN Shape, Simple(t), NEW v \in Values[t], Fits(<<t, v>>), NEW token, token = RawToken(t, v)
  PROVE  \/ /\ IsInteger(Shape[t].kind) /\ token.kind = "digits" /\ IntegerOf(Shape[t].kind, token) = v
         \/ /\ ~IsInteger(Shape[t].kind) /\ Shape[t].kind = "plain" /\ token.kind = "plain" /\ token.content = <<t, v>>
<1>1. CASE IsInteger(Shape[t].kind)
  <2>1. PICK u : u = IF Shape[t].kind = "signed" THEN Zigzag(v) ELSE v
    OBVIOUS
  <2>2. u \in 0..(Modulus - 1)
    BY <1>1, <2>1, ShapeFacts, ZigzagRange DEF IsInteger
  <2>3. Digits[u] \in DigitLists /\ Number[Digits[u]] = u
    BY <2>2, DigitsGiveNumber
  <2>4. token.kind = "digits" /\ token.content = Digits[u]
    BY <1>1, <2>1 DEF RawToken, IntegerToken, Token
  <2>5. IntegerOf(Shape[t].kind, token) = IF Shape[t].kind = "signed" THEN Unzigzag(u) ELSE u
    BY <2>3, <2>4 DEF IntegerOf
  <2>6. CASE Shape[t].kind = "signed"
    <3>1. v \in -(Modulus \div 4)..(Modulus \div 4 - 1)
      BY <2>6 DEF Fits
    <3> QED BY <1>1, <2>1, <2>4, <2>5, <2>6, <3>1, ZigzagUndone
  <2>7. CASE Shape[t].kind # "signed"
    BY <1>1, <2>1, <2>4, <2>5, <2>7
  <2> QED BY <2>6, <2>7
<1>2. CASE ~IsInteger(Shape[t].kind)
  <2>1. Shape[t].kind = "plain"
    BY <1>2, ShapeFacts DEF IsInteger, Simple
  <2> QED BY <1>2, <2>1 DEF RawToken, Token
<1> QED BY <1>1, <1>2

LEMMA ReadRawMoves ==
  ASSUME NEW x \in Transfers, NEW w \in Nat, NEW gone \in Seq(Wire), Apart(x, w, gone), ReadRaw("b")
  PROVE  OneWay(x)'
<1>1. PICK q, token, kind : q = Head(todo[Reader("b")]) /\ token = Head(tokens["a"]) /\ kind = Shape[q.type].kind
  OBVIOUS
<1>2. /\ todo[Reader("b")] # <<>> /\ q.op = "rawget" /\ tokens["a"] # <<>> /\ Take("b")
      /\ IF IsInteger(kind) /\ token.kind = "digits"
         THEN Obtains("b", <<q.type, IntegerOf(kind, token)>>) /\ Instead(Reader("b"), <<>>) /\ UNCHANGED outcome
         ELSE IF kind = "plain" /\ token.kind = "plain" /\ token.content[1] = q.type
         THEN Obtains("b", token.content) /\ Instead(Reader("b"), <<>>) /\ UNCHANGED outcome
         ELSE Fail("b", "garbled") /\ UNCHANGED result
      /\ UNCHANGED <<transfer, rangeDependent, saved, sent>>
  BY <1>1, CoroFacts DEF ReadRaw, Doing, Instruction, Incoming, Kind
<1>3. Idle /\ WritesAt(x, Written(x)[w], gone)
  BY DEF Apart
<1>4. PICK fetched : fetched = gone \o <<token>>
  OBVIOUS
<1>5. /\ fetched \in Seq(Wire) /\ tokens'["a"] \in Seq(Wire) /\ DOMAIN tokens' = Ends
      /\ fetched \o tokens'["a"] = gone \o tokens["a"]
  BY Zenon, <1>1, <1>2, <1>3, <1>4, Taken
<1>6. \/ \E leaf : Obtains("b", leaf) /\ Instead(Reader("b"), <<>>) /\ UNCHANGED outcome
      \/ Fail("b", "garbled") /\ UNCHANGED result
  BY Zenon, <1>2
<1>7. Idle' /\ WriterKept
  <2>1. ASSUME NEW leaf, Obtains("b", leaf), Instead(Reader("b"), <<>>), UNCHANGED outcome PROVE Idle' /\ WriterKept
    <3>1. /\ DOMAIN todo' = Coros /\ todo'[Reader("a")] = <<>> /\ todo'[Writer("b")] = <<>>
          /\ todo'[Writer("a")] = todo[Writer("a")]
      BY <1>3, <2>1, ReaderInstead
    <3>2. DOMAIN result' = Ends
      BY <1>3, <2>1 DEF Obtains, Idle, OverEnds
    <3> QED BY <1>2, <1>3, <1>5, <2>1, <3>1, <3>2 DEF Idle, OverEnds, WriterKept
  <2>2. ASSUME Fail("b", "garbled"), UNCHANGED result PROVE Idle' /\ WriterKept
    <3>1. /\ DOMAIN todo' = Coros /\ todo'[Reader("a")] = <<>> /\ todo'[Writer("b")] = <<>>
          /\ todo'[Writer("a")] = todo[Writer("a")] /\ DOMAIN outcome' = Ends
      BY <1>3, <2>2, CoroFacts DEF Fail, Idle, OverEnds
    <3> QED BY <1>2, <1>3, <1>5, <2>2, <3>1 DEF Idle, OverEnds, WriterKept
  <2> QED BY <1>6, <2>1, <2>2
<1>8. ASSUME NEW d \in Nat, Limit(x, d), AllFit PROVE ReadsTo(x, d, fetched)'
  <2>1. PICK r \in Nat : Written(x)[r] \in Configurations(x) /\ ReadsAt(x, Written(x)[r], d, gone)
    BY <1>2, <1>8, ReaderAt
  <2>2. PICK c \in Configurations(x) : c = Written(x)[r]
    BY <2>1
  <2>3. ReadsAt(x, c, d, gone) /\ c.tokens = gone /\ result["b"] = c.sent
    BY <2>1, <2>2 DEF ReadsAt
  <2>4. /\ ~Stops(x, c) /\ outcome["b"] = "reading"
        /\ AtStep(x, c) /\ Expects(x, c, d) /\ q = AnswerTo(Due(x, c))
    <3>1. \A t, m : q # SizeGet(t) /\ (q = RestoreEmpty(t, m) => FALSE)
      BY <1>2, ReaderFields
    <3>2. ~Differs(x, c, d)
      BY <1>1, <1>2, ReaderFields DEF Differs
    <3> QED BY Zenon, <1>1, <1>2, <1>8, <2>3, <3>1, <3>2, ReaderDue
  <2>5. Due(x, c) \in WriterSteps
    BY <2>4, Onward
  <2>6. PICK t \in DOMAIN Shape : Simple(t) /\ \E v \in Values[t] : Due(x, c) = Raw(t, v)
    BY <1>2, <2>4, <2>5, AnswerOps
  <2>7. PICK v \in Values[t] : Due(x, c) = Raw(t, v)
    BY <2>6
  <2>8. q.type = t /\ kind = Shape[t].kind
    BY <1>1, <2>4, <2>7, AnswerFacts, ReaderFields
  <2>9. /\ Emitted(Due(x, c), c.depth) = <<RawToken(t, v)>> /\ Shown(Due(x, c)) = <<<<t, v>>>>
        /\ DepthAfter(Due(x, c), c.depth) = c.depth
    BY <2>7, StepFields DEF Emitted, Shown, DepthAfter
  <2>10. token = RawToken(t, v) /\ \E i \in DOMAIN sent["a"] : sent["a"][i] = <<t, v>>
    <3>1. tokens["a"] # <<>> /\ WritesAt(x, Written(x)[w], gone) /\ c.tokens = gone /\ ~Stops(x, c)
      BY Zenon, <1>2, <1>3, <2>3, <2>4
    <3>2. PICK s, leaf : s = RawToken(t, v) /\ leaf = <<t, v>>
      OBVIOUS
    <3>3. Emitted(Due(x, c), c.depth) = <<s>> /\ Shown(Due(x, c)) = <<leaf>>
      BY Zenon, <2>9, <3>2
    <3>4. /\ Head(tokens["a"]) = s
          /\ \A l : Shown(Due(x, c)) = <<l>> => \E i \in DOMAIN sent["a"] : sent["a"][i] = l
      BY <2>2, <3>1, <3>3, InFlight
    <3> QED BY Zenon, <1>1, <3>2, <3>3, <3>4
  <2>11. Fits(<<t, v>>)
    BY Zenon, <1>8, <2>10 DEF AllFit
  <2>12. \/ IsInteger(kind) /\ token.kind = "digits" /\ IntegerOf(kind, token) = v
         \/ ~IsInteger(kind) /\ kind = "plain" /\ token.kind = "plain" /\ token.content = <<t, v>>
    BY <2>6, <2>8, <2>10, <2>11, LeafRead
  <2>13. Obtains("b", <<t, v>>) /\ Instead(Reader("b"), <<>>) /\ outcome' = outcome
    BY <1>2, <2>8, <2>12
  <2>14. todo'[Reader("b")] = <<>> \o Tail(todo[Reader("b")])
    BY <1>3, <2>13, ReaderInstead
  <2>15. result'["b"] = c.sent \o <<<<t, v>>>>
    <3>1. result'["b"] = Append(c.sent, <<t, v>>)
      BY <1>3, <2>3, <2>13, CoroFacts DEF Obtains, Idle, OverEnds
    <3>2. <<t, v>> \in SentLeaves
      BY ValueIn DEF SentLeaves
    <3>3. c.sent \in Seq(SentLeaves)
      BY ConfigurationFacts
    <3>4. Append(c.sent, <<t, v>>) = c.sent \o <<<<t, v>>>>
      BY <3>2, <3>3, AppendIsConcat
    <3> QED BY Zenon, <3>1, <3>4
  <2>16. Reading(Becomes(Due(x, c))) = <<>>
    BY <2>7, ReadingBecomes
  <2>17. Inside("b", Reader("b"), c.depth)'
    BY <1>2, <2>4 DEF AtStep, Inside
  <2>18. ReaderActs(x, c, fetched)
    BY Zenon, <1>4, <2>3, <2>4, <2>9, <2>10, <2>13, <2>14, <2>15, <2>16, <2>17 DEF ReaderActs
  <2> QED BY <2>2, <2>4, <2>18, ReaderArrives
<1> QED BY Zenon, <1>3, <1>5, <1>7, <1>8, ReaderMoves DEF Apart

LEMMA EnterReadMoves ==
  ASSUME NEW x \in Transfers, NEW w \in Nat, NEW gone \in Seq(Wire), Apart(x, w, gone), EnterRead("b")
  PROVE  OneWay(x)'
<1>1. PICK q, t : q = Head(todo[Reader("b")]) /\ t = q.type
  OBVIOUS
<1>2. /\ todo[Reader("b")] # <<>> /\ q.op = "enterget"
      /\ saved' = [saved EXCEPT ![Reader("b")] = Append(@, rangeDependent["b"])]
      /\ rangeDependent' = [rangeDependent EXCEPT !["b"] = TRUE]
      /\ Instead(Reader("b"), IF Shape[t].kind = "range" THEN <<SizeGet(t)>>
                              ELSE Append(GetParts(t, DOMAIN Shape[t].of), Restore))
      /\ UNCHANGED <<transfer, tokens, sent, result, outcome>>
  BY <1>1 DEF EnterRead, Doing, Instruction, Kind
<1>3. Idle /\ WritesAt(x, Written(x)[w], gone)
  BY DEF Apart
<1>4. PICK new : /\ new = IF Shape[t].kind = "range" THEN <<SizeGet(t)>>
                          ELSE Append(GetParts(t, DOMAIN Shape[t].of), Restore)
                 /\ Instead(Reader("b"), new)
  BY <1>2
<1>5. /\ DOMAIN todo' = Coros /\ todo'[Reader("b")] = new \o Tail(todo[Reader("b")])
      /\ todo'[Reader("a")] = <<>> /\ todo'[Writer("b")] = <<>> /\ todo'[Writer("a")] = todo[Writer("a")]
  <2>1. Instead(Reader("b"), new)
    BY <1>4
  <2> QED BY <1>3, <2>1, ReaderInstead
<1>6. /\ saved'[Reader("b")] = Append(saved[Reader("b")], rangeDependent["b"]) /\ rangeDependent'["b"] = TRUE
      /\ saved'[Writer("a")] = saved[Writer("a")] /\ rangeDependent'["a"] = rangeDependent["a"]
      /\ DOMAIN saved' = Coros /\ DOMAIN rangeDependent' = Ends
  BY <1>2, <1>3, CoroFacts DEF Idle, OverEnds
<1>7. Idle' /\ WriterKept
  BY <1>2, <1>3, <1>5, <1>6 DEF Idle, OverEnds, WriterKept
<1>8. ASSUME NEW d \in Nat, Limit(x, d), AllFit PROVE ReadsTo(x, d, gone)'
  <2>1. PICK r \in Nat : Written(x)[r] \in Configurations(x) /\ ReadsAt(x, Written(x)[r], d, gone)
    BY <1>2, <1>8, ReaderAt
  <2>2. PICK c \in Configurations(x) : c = Written(x)[r]
    BY <2>1
  <2>3. ReadsAt(x, c, d, gone) /\ c.tokens = gone /\ c.at <= d /\ result["b"] = c.sent
    BY <2>1, <2>2 DEF ReadsAt
  <2>4. /\ ~Stops(x, c) /\ outcome["b"] = "reading"
        /\ AtStep(x, c) /\ Expects(x, c, d) /\ q = AnswerTo(Due(x, c))
    <3>1. \A s, m : q # SizeGet(s) /\ (q = RestoreEmpty(s, m) => FALSE)
      BY <1>2, ReaderFields
    <3>2. ~Differs(x, c, d)
      BY <1>1, <1>2, ReaderFields DEF Differs
    <3> QED BY Zenon, <1>1, <1>2, <1>8, <2>3, <3>1, <3>2, ReaderDue
  <2>5. Due(x, c) \in WriterSteps
    BY <2>4, Onward
  <2>6. PICK u \in DOMAIN Shape : Tagged(u) /\ ~Simple(u) /\ \E v \in Values[u] : Due(x, c) = Enter(u, v)
    BY <1>2, <2>4, <2>5, AnswerOps
  <2>7. PICK v \in Values[u] : Due(x, c) = Enter(u, v)
    BY <2>6
  <2>8. t = u
    BY <1>1, <2>4, <2>7, AnswerFacts, ReaderFields
  <2>9. Inside("b", Reader("b"), c.depth + 1)' /\ c.depth \in Nat
    <3>1. Inside("b", Reader("b"), c.depth) /\ c.depth \in Nat
      BY <2>4, ConfigurationFacts DEF AtStep
    <3>2. Append(SavedAt(c.depth), rangeDependent["b"]) = SavedAt(c.depth + 1) /\ saved[Reader("b")] = SavedAt(c.depth)
      BY <3>1, SavedFacts DEF Inside
    <3>3. saved'[Reader("b")] = SavedAt(c.depth + 1)
      BY Zenon, <1>6, <3>2
    <3>4. c.depth + 1 > 0
      BY <3>1
    <3> QED BY <1>6, <3>1, <3>3, <3>4 DEF Inside
  <2>10. CASE Shape[t].kind = "range"
    <3>1. c.inner # <<>> /\ Due(x, c) = Head(c.inner)
      <4>1. ASSUME c.inner = <<>> PROVE FALSE
        <5>1. c.at <= Len(x.values) /\ c.at \in 1..(Len(x.values) + 1) /\ Len(x.values) \in Nat
          BY <2>4, <4>1, Onward, ConfigurationFacts, TransferFacts
        <5>2. Due(x, c) = Put(x.values[c.at].type, x.values[c.at].value)
          BY <4>1, <5>1, TransferFacts DEF Due
        <5>3. Due(x, c).op = "put"
          BY <5>2, StepFields
        <5>4. Due(x, c).op = "enter"
          BY <2>7, StepFields
        <5> QED BY <5>3, <5>4
      <4> QED BY <4>1 DEF Due
    <3>2. new = <<SizeGet(t)>>
      BY <1>4, <2>10
    <3>3. todo[Reader("b")] = Back(x, c)
      BY <2>4 DEF AtStep
    <3>4. Head(c.inner).op = "enter" /\ Head(c.inner).type = t
      <4>1. Due(x, c).op = "enter" /\ Due(x, c).type = t
        BY <2>7, <2>8, StepFields
      <4> QED BY Zenon, <3>1, <4>1
    <3>5. todo'[Reader("b")] = <<SizeGet(Head(c.inner).type)>> \o Tail(Back(x, c))
      BY Zenon, <1>5, <3>2, <3>3, <3>4
    <3>6. AtSize(x, c)'
      BY Zenon, <2>9, <2>10, <3>1, <3>4, <3>5 DEF AtSize
    <3>7. ReadsAt(x, c, d, gone)'
      BY Zenon, <1>2, <2>3, <2>4, <3>6 DEF ReadsAt
    <3> QED BY Zenon, <2>2, <3>7 DEF ReadsTo
  <2>11. CASE Shape[t].kind # "range"
    <3>1. /\ Emitted(Due(x, c), c.depth) = <<>> /\ Shown(Due(x, c)) = <<>>
          /\ DepthAfter(Due(x, c), c.depth) = c.depth + 1
      BY <2>7, <2>8, <2>11, StepFields DEF Emitted, Shown, DepthAfter
    <3>2. Reading(Becomes(Due(x, c))) = new
      <4>1. Reading(Becomes(Due(x, c))) = Append(GetParts(t, DOMAIN Shape[t].of), Restore)
        BY <2>6, <2>7, <2>8, <2>11, ReadingBecomes
      <4> QED BY <1>4, <2>11, <4>1
    <3>3. gone \o <<>> = gone /\ c.sent \o <<>> = c.sent
      <4>1. c.sent \in Seq(SentLeaves)
        BY ConfigurationFacts
      <4> QED BY <4>1, ConcatEmptySeq
    <3>4. ReaderActs(x, c, gone)
      BY Zenon, <1>2, <1>5, <2>3, <2>4, <2>9, <3>1, <3>2, <3>3 DEF ReaderActs
    <3> QED BY <2>2, <2>4, <3>4, ReaderArrives
  <2> QED BY <2>10, <2>11
<1>9. tokens'["a"] \in Seq(Wire) /\ gone \o tokens'["a"] = gone \o tokens["a"]
  BY <1>2, <1>3 DEF WritesAt
<1> QED BY Zenon, <1>3, <1>7, <1>8, <1>9, ReaderMoves DEF Apart

LEMMA ReadSizeMoves ==
  ASSUME NEW x \in Transfers, NEW w \in Nat, NEW gone \in Seq(Wire), Apart(x, w, gone), ReadSize("b")
  PROVE  OneWay(x)'
<1>1. PICK q, t, token, leave : /\ q = Head(todo[Reader("b")]) /\ t = q.type /\ token = Head(tokens["a"])
                                /\ leave = IF Shape[t].keeps THEN Restore ELSE RestoreEmpty(t, Len(result["b"]))
  OBVIOUS
<1>2. /\ todo[Reader("b")] # <<>> /\ q.op = "sizeget" /\ tokens["a"] # <<>> /\ Take("b")
      /\ IF token.kind = "size"
         THEN /\ Obtains("b", <<t, token.content>>) /\ UNCHANGED outcome
              /\ Instead(Reader("b"), Append(GetParts(t, 1..token.content), leave))
         ELSE Fail("b", "garbled") /\ UNCHANGED result
      /\ UNCHANGED <<transfer, rangeDependent, saved, sent>>
  BY <1>1, CoroFacts DEF ReadSize, Doing, Instruction, Incoming
<1>3. Idle /\ WritesAt(x, Written(x)[w], gone)
  BY DEF Apart
<1>4. PICK fetched : fetched = gone \o <<token>>
  OBVIOUS
<1>5. /\ fetched \in Seq(Wire) /\ tokens'["a"] \in Seq(Wire) /\ DOMAIN tokens' = Ends
      /\ fetched \o tokens'["a"] = gone \o tokens["a"]
  BY Zenon, <1>1, <1>2, <1>3, <1>4, Taken
<1>6. \/ \E leaf, new : Obtains("b", leaf) /\ Instead(Reader("b"), new) /\ UNCHANGED outcome
      \/ Fail("b", "garbled") /\ UNCHANGED result
  BY Zenon, <1>2
<1>7. Idle' /\ WriterKept
  <2>1. ASSUME NEW leaf, NEW new, Obtains("b", leaf), Instead(Reader("b"), new), UNCHANGED outcome
        PROVE  Idle' /\ WriterKept
    <3>1. /\ DOMAIN todo' = Coros /\ todo'[Reader("a")] = <<>> /\ todo'[Writer("b")] = <<>>
          /\ todo'[Writer("a")] = todo[Writer("a")]
      BY <1>3, <2>1, ReaderInstead
    <3>2. DOMAIN result' = Ends
      BY <1>3, <2>1 DEF Obtains, Idle, OverEnds
    <3> QED BY <1>2, <1>3, <1>5, <2>1, <3>1, <3>2 DEF Idle, OverEnds, WriterKept
  <2>2. ASSUME Fail("b", "garbled"), UNCHANGED result PROVE Idle' /\ WriterKept
    <3>1. /\ DOMAIN todo' = Coros /\ todo'[Reader("a")] = <<>> /\ todo'[Writer("b")] = <<>>
          /\ todo'[Writer("a")] = todo[Writer("a")] /\ DOMAIN outcome' = Ends
      BY <1>3, <2>2, CoroFacts DEF Fail, Idle, OverEnds
    <3> QED BY <1>2, <1>3, <1>5, <2>2, <3>1 DEF Idle, OverEnds, WriterKept
  <2> QED BY <1>6, <2>1, <2>2
<1>8. ASSUME NEW d \in Nat, Limit(x, d), AllFit PROVE ReadsTo(x, d, fetched)'
  <2>1. PICK r \in Nat : Written(x)[r] \in Configurations(x) /\ ReadsAt(x, Written(x)[r], d, gone)
    BY <1>2, <1>8, ReaderAt
  <2>2. PICK c \in Configurations(x) : c = Written(x)[r]
    BY <2>1
  <2>3. ReadsAt(x, c, d, gone) /\ c.tokens = gone /\ result["b"] = c.sent
    BY <2>1, <2>2 DEF ReadsAt
  <2>4. Due(x, c) \in WriterSteps
    <3>1. ~Stops(x, c)
      BY <1>2, <1>8, <2>3, ReaderDue
    <3> QED BY <3>1, Onward
  <2>5. /\ ~Stops(x, c) /\ outcome["b"] = "reading"
        /\ AtSize(x, c) /\ Expects(x, c, d) /\ Due(x, c).op = "enter" /\ Shape[Due(x, c).type].kind = "range"
        /\ q = SizeGet(Due(x, c).type)
    <3>1. q # AnswerTo(Due(x, c)) /\ \A s, m : q = RestoreEmpty(s, m) => FALSE
      BY <1>2, <2>4, ReaderFields, AnswerOps
    <3>2. ~Differs(x, c, d)
      BY <1>1, <1>2, ReaderFields DEF Differs
    <3> QED BY Zenon, <1>1, <1>2, <1>8, <2>3, <3>1, <3>2, ReaderDue
  <2>6. PICK u \in DOMAIN Shape : Tagged(u) /\ ~Simple(u) /\ \E v \in Values[u] : Due(x, c) = Enter(u, v)
    BY <2>4, <2>5, ByOp
  <2>7. PICK v \in Values[u] : Due(x, c) = Enter(u, v)
    BY <2>6
  <2>8. t = u /\ Shape[t].kind = "range"
    BY <1>1, <2>5, <2>7, StepFields, ReaderFields
  <2>9. Len(v) \in Nat /\ Reading(Becomes(Due(x, c))) = Append(GetParts(t, 1..Len(v)), Restore)
    BY <2>7, <2>8, ReadingBecomes
  <2>10. /\ Emitted(Due(x, c), c.depth) = <<Token("size", Condense(Len(v)))>> /\ Shown(Due(x, c)) = <<<<t, Len(v)>>>>
         /\ DepthAfter(Due(x, c), c.depth) = c.depth + 1
    BY <2>7, <2>8, StepFields DEF Emitted, Shown, DepthAfter
  <2>11. token = Token("size", Condense(Len(v))) /\ \E i \in DOMAIN sent["a"] : sent["a"][i] = <<t, Len(v)>>
    <3>1. tokens["a"] # <<>> /\ WritesAt(x, Written(x)[w], gone) /\ c.tokens = gone /\ ~Stops(x, c)
      BY Zenon, <1>2, <1>3, <2>3, <2>5
    <3>2. PICK s, leaf : s = Token("size", Condense(Len(v))) /\ leaf = <<t, Len(v)>>
      OBVIOUS
    <3>3. Emitted(Due(x, c), c.depth) = <<s>> /\ Shown(Due(x, c)) = <<leaf>>
      BY Zenon, <2>10, <3>2
    <3>4. /\ Head(tokens["a"]) = s
          /\ \A l : Shown(Due(x, c)) = <<l>> => \E i \in DOMAIN sent["a"] : sent["a"][i] = l
      BY <2>2, <3>1, <3>3, InFlight
    <3> QED BY Zenon, <1>1, <3>2, <3>3, <3>4
  <2>12. Len(v) < SizeModulus /\ (Shape[t].keeps \/ Len(v) = 0)
    <3>1. Fits(<<t, Len(v)>>)
      BY Zenon, <1>8, <2>11 DEF AllFit
    <3> QED BY <2>8, <3>1 DEF Fits
  <2>13. token.kind = "size" /\ token.content = Len(v)
    <3>1. Condense(Len(v)) = Len(v)
      <4>1. PICK n : n = Len(v)
        OBVIOUS
      <4>2. n \in Nat /\ n < SizeModulus /\ SizeModulus \in Nat \ {0}
        BY <2>9, <2>12, <4>1, ModulusFacts
      <4>3. Condense(n) = n
        BY <4>2, SmallCondensed
      <4> QED BY Zenon, <4>1, <4>3
    <3> QED BY <2>11, <3>1 DEF Token
  <2>14. /\ Obtains("b", <<t, Len(v)>>) /\ outcome' = outcome
         /\ Instead(Reader("b"), Append(GetParts(t, 1..Len(v)), leave))
    BY <1>2, <2>13
  <2>15. todo'[Reader("b")] = Append(GetParts(t, 1..Len(v)), leave) \o Tail(todo[Reader("b")])
    BY <1>3, <2>14, ReaderInstead
  <2>16. result'["b"] = c.sent \o <<<<t, Len(v)>>>> /\ result'["b"] = Append(c.sent, <<t, Len(v)>>) /\ c.sent \in Seq(SentLeaves)
    <3>1. result'["b"] = Append(c.sent, <<t, Len(v)>>)
      BY <1>3, <2>3, <2>14, CoroFacts DEF Obtains, Idle, OverEnds
    <3>2. <<t, Len(v)>> \in SentLeaves
      BY <2>8, <2>9 DEF SentLeaves
    <3>3. c.sent \in Seq(SentLeaves)
      BY ConfigurationFacts
    <3>4. Append(c.sent, <<t, Len(v)>>) = c.sent \o <<<<t, Len(v)>>>>
      BY <3>2, <3>3, AppendIsConcat
    <3> QED BY Zenon, <3>1, <3>3, <3>4
  <2>17. Inside("b", Reader("b"), c.depth + 1)'
    BY <1>2, <2>5 DEF AtSize, Inside
  <2>18. CASE Shape[t].keeps
    <3>1. leave = Restore
      BY <1>1, <2>18
    <3>2. ReaderActs(x, c, fetched)
      BY Zenon, <1>4, <2>3, <2>5, <2>9, <2>10, <2>11, <2>14, <2>15, <2>16, <2>17, <3>1 DEF ReaderActs
    <3> QED BY <2>2, <2>5, <3>2, ReaderArrives
  <2>19. CASE ~Shape[t].keeps
    <3>1. PICK e, rest, m : e = After(x, c) /\ rest = Tail(todo[Reader("b")]) /\ m = Len(c.sent)
      OBVIOUS
    <3>2. leave = RestoreEmpty(t, m) /\ Len(v) = 0
      BY <1>1, <2>3, <2>12, <2>19, <3>1
    <3>3. \A y : Append(GetParts(t, 1..0), y) = <<y>>
      <4>1. PICK g : g = GetParts(t, 1..0)
        OBVIOUS
      <4>2. g = <<>>
        <5>1. 1..0 = {}
          OBVIOUS
        <5> QED BY <4>1, <5>1 DEF GetParts
      <4>3. ASSUME NEW y PROVE Append(g, y) = <<y>>
        BY <4>2
      <4> QED BY Zenon, <4>1, <4>3
    <3>4. /\ e.tokens = c.tokens \o Emitted(Due(x, c), c.depth) /\ e.sent = c.sent \o Shown(Due(x, c))
          /\ e.depth = DepthAfter(Due(x, c), c.depth) /\ Written(x)[r + 1] = e /\ r + 1 \in Nat
          /\ e.at <= d /\ Back(x, e) = Reading(Becomes(Due(x, c))) \o rest /\ rest \in Seq(ReaderSteps)
      <4>1. Written(x)[r + 1] = e /\ r + 1 \in Nat
        BY <2>2, <3>1, WrittenFacts
      <4>2. ~Stops(x, c)
        BY <2>5
      <4> QED BY Zenon, <2>5, <3>1, <4>1, <4>2, Onward DEF Expects
    <3>5. Reading(Becomes(Due(x, c))) = <<Restore>> /\ Tail(Back(x, e)) = rest
      <4>1. Reading(Becomes(Due(x, c))) = <<Restore>>
        BY Zenon, <2>9, <3>2, <3>3
      <4>2. Tail(<<Restore>> \o rest) = rest
        BY <3>4, FirstOf
      <4> QED BY Zenon, <3>4, <4>1, <4>2
    <3>6. todo'[Reader("b")] = <<RestoreEmpty(t, m)>> \o Tail(Back(x, e))
      BY Zenon, <2>15, <3>1, <3>2, <3>3, <3>5
    <3>7. e.inner # <<>> /\ Head(e.inner) = Restore
      <4>1. /\ e.inner = Becomes(Due(x, c)) \o Left(c) /\ Left(c) \in Seq(WriterSteps)
            /\ Becomes(Due(x, c)) \in Seq(WriterSteps)
        BY <2>5, <3>1, AfterFacts
      <4>2. Becomes(Due(x, c)) = <<Restore>>
        <5>1. Becomes(Due(x, c)) = Append(PutParts(t, v), Restore)
          BY <2>7, <2>8, StepFields DEF Becomes
        <5>2. PutParts(t, v) = <<>>
          <6>1. PICK n \in Nat : Len(v) = n /\ PutParts(t, v) \in Seq(WriterSteps) /\ Len(PutParts(t, v)) = n
            BY <2>6, <2>8, PartsFacts
          <6> QED BY <3>2, <6>1
        <5> QED BY <5>1, <5>2
      <4>3. <<Restore>> \o Left(c) # <<>> /\ Head(<<Restore>> \o Left(c)) = Restore
        BY <4>1, FirstOf
      <4> QED BY Zenon, <4>1, <4>2, <4>3
    <3>8. Append(SubSeq(result'["b"], 1, m), <<t, 0>>) = result'["b"]
      <4>1. PICK s, grown : s = c.sent /\ grown = Append(s, <<t, 0>>)
        OBVIOUS
      <4>2. s \in Seq(SentLeaves) /\ m = Len(s) /\ result'["b"] = grown
        BY Zenon, <2>16, <3>1, <3>2, <4>1
      <4>3. SubSeq(grown, 1, m) = s
        <5>1. s \in Seq(SentLeaves \cup {<<t, 0>>}) /\ m = Len(s)
          BY <4>2
        <5>2. PICK b : b = SubSeq(grown, 1, m)
          OBVIOUS
        <5>3. m \in Nat /\ grown \in Seq(SentLeaves \cup {<<t, 0>>}) /\ Len(grown) = m + 1 /\ \A i \in 1..m : grown[i] = s[i]
          BY <4>1, <5>1
        <5>4. b \in Seq(SentLeaves \cup {<<t, 0>>}) /\ Len(b) = m /\ \A i \in 1..m : b[i] = grown[i]
          BY <5>2, <5>3
        <5>5. b = s
          BY <5>1, <5>3, <5>4
        <5> QED BY <5>2, <5>5
      <4> QED BY Zenon, <4>1, <4>2, <4>3
    <3>9. Inside("b", Reader("b"), e.depth)'
      BY Zenon, <2>10, <2>17, <3>4
    <3>10. AtEmpty(x, e)'
      BY Zenon, <3>6, <3>7, <3>8, <3>9 DEF AtEmpty
    <3>11. e.tokens = fetched /\ result'["b"] = e.sent /\ outcome'["b"] = "reading"
      BY Zenon, <1>4, <2>3, <2>5, <2>10, <2>11, <2>14, <2>16, <3>4
    <3>12. ReadsAt(x, e, d, fetched)'
      BY Zenon, <3>4, <3>10, <3>11 DEF ReadsAt
    <3> QED BY Zenon, <3>4, <3>12 DEF ReadsTo
  <2> QED BY <2>18, <2>19
<1> QED BY Zenon, <1>3, <1>5, <1>7, <1>8, ReaderMoves DEF Apart

LEMMA LeaveReadMoves ==
  ASSUME NEW x \in Transfers, NEW w \in Nat, NEW gone \in Seq(Wire), Apart(x, w, gone), LeaveValue(Reader("b"))
  PROVE  OneWay(x)'
<1>1. PICK q, kept : q = Head(todo[Reader("b")]) /\ kept = Append(SubSeq(result["b"], 1, q.mark), <<q.type, 0>>)
  OBVIOUS
<1>2. /\ todo[Reader("b")] # <<>> /\ q.op = "leave" /\ Instead(Reader("b"), <<>>)
      /\ rangeDependent' = [rangeDependent EXCEPT !["b"] = saved[Reader("b")][Len(saved[Reader("b")])]]
      /\ saved' = [saved EXCEPT ![Reader("b")] = SubSeq(@, 1, Len(@) - 1)]
      /\ result' = IF q = Restore THEN result ELSE [result EXCEPT !["b"] = kept]
      /\ UNCHANGED <<transfer, tokens, sent, outcome>>
  BY <1>1, CoroFacts DEF LeaveValue, Doing, Instruction
<1>3. Idle /\ WritesAt(x, Written(x)[w], gone)
  BY DEF Apart
<1>4. /\ DOMAIN todo' = Coros /\ todo'[Reader("b")] = <<>> \o Tail(todo[Reader("b")])
      /\ todo'[Reader("a")] = <<>> /\ todo'[Writer("b")] = <<>> /\ todo'[Writer("a")] = todo[Writer("a")]
  BY <1>2, <1>3, ReaderInstead
<1>5. /\ saved'[Writer("a")] = saved[Writer("a")] /\ rangeDependent'["a"] = rangeDependent["a"]
      /\ DOMAIN saved' = Coros /\ DOMAIN rangeDependent' = Ends /\ DOMAIN result' = Ends
      /\ saved'[Reader("b")] = SubSeq(saved[Reader("b")], 1, Len(saved[Reader("b")]) - 1)
      /\ rangeDependent'["b"] = saved[Reader("b")][Len(saved[Reader("b")])]
      /\ result'["b"] = IF q = Restore THEN result["b"] ELSE kept
  BY <1>2, <1>3, CoroFacts DEF Idle, OverEnds
<1>6. Idle' /\ WriterKept
  BY <1>2, <1>3, <1>4, <1>5 DEF Idle, OverEnds, WriterKept
<1>7. ASSUME NEW d \in Nat, Limit(x, d), AllFit PROVE ReadsTo(x, d, gone)'
  <2>1. PICK r \in Nat : Written(x)[r] \in Configurations(x) /\ ReadsAt(x, Written(x)[r], d, gone)
    BY <1>2, <1>7, ReaderAt
  <2>2. PICK c \in Configurations(x) : c = Written(x)[r]
    BY <2>1
  <2>3. ReadsAt(x, c, d, gone) /\ c.tokens = gone /\ result["b"] = c.sent
    BY <2>1, <2>2 DEF ReadsAt
  <2>4. /\ ~Stops(x, c) /\ outcome["b"] = "reading" /\ Expects(x, c, d)
        /\ \/ AtStep(x, c) /\ q = AnswerTo(Due(x, c))
           \/ /\ AtEmpty(x, c) /\ Due(x, c) = Restore
              /\ \E t, m : q = RestoreEmpty(t, m) /\ Append(SubSeq(result["b"], 1, m), <<t, 0>>) = result["b"]
    <3>1. \A t : q # SizeGet(t)
      BY <1>2, ReaderFields
    <3>2. ~Differs(x, c, d)
      BY <1>1, <1>2, ReaderFields DEF Differs
    <3> QED BY Zenon, <1>1, <1>2, <1>7, <2>3, <3>1, <3>2, ReaderDue
  <2>5. Due(x, c) = Restore /\ Inside("b", Reader("b"), c.depth) /\ result'["b"] = result["b"]
    <3>1. CASE AtStep(x, c) /\ q = AnswerTo(Due(x, c))
      <4>1. Due(x, c) = Restore
        BY <1>2, <2>4, <3>1, Onward, AnswerOps
      <4>2. q = Restore
        BY <3>1, <4>1, AnswerFacts
      <4> QED BY <1>5, <3>1, <4>1, <4>2 DEF AtStep
    <3>2. CASE AtEmpty(x, c) /\ Due(x, c) = Restore
      <4>1. CASE q = Restore
        BY <1>5, <3>2, <4>1 DEF AtEmpty
      <4>2. CASE q # Restore
        <5>1. \E t, m : q = RestoreEmpty(t, m) /\ Append(SubSeq(result["b"], 1, m), <<t, 0>>) = result["b"]
          BY <2>4, <4>2, <3>2, AnswerFacts
        <5>2. PICK t, m : q = RestoreEmpty(t, m) /\ Append(SubSeq(result["b"], 1, m), <<t, 0>>) = result["b"]
          BY <5>1
        <5>3. q.type = t /\ q.mark = m
          BY <5>2, ReaderFields
        <5>4. kept = result["b"]
          BY Zenon, <1>1, <5>2, <5>3
        <5> QED BY <1>5, <3>2, <4>2, <5>4 DEF AtEmpty
      <4> QED BY <4>1, <4>2
    <3> QED BY <2>4, <3>1, <3>2
  <2>6. /\ Reading(Becomes(Due(x, c))) = <<>> /\ DepthAfter(Due(x, c), c.depth) = c.depth - 1 /\ c.depth >= 1
        /\ Emitted(Due(x, c), c.depth) = <<>> /\ Shown(Due(x, c)) = <<>>
    <3>1. c.depth >= 1 /\ Due(x, c).op = "leave"
      BY <2>4, <2>5, Onward, StepFields
    <3>2. Becomes(Due(x, c)) = <<>> /\ DepthAfter(Due(x, c), c.depth) = c.depth - 1
      BY <3>1 DEF Becomes, DepthAfter
    <3>3. Emitted(Due(x, c), c.depth) = <<>> /\ Shown(Due(x, c)) = <<>>
      BY <3>1 DEF Emitted, Shown
    <3> QED BY Zenon, <3>1, <3>2, <3>3, ReadingNone
  <2>7. Inside("b", Reader("b"), c.depth - 1)'
    <3>1. saved[Reader("b")] = SavedAt(c.depth) /\ Len(SavedAt(c.depth)) = c.depth /\ c.depth \in Nat
      BY <2>5, ConfigurationFacts, SavedFacts DEF Inside
    <3>2. saved'[Reader("b")] = SubSeq(SavedAt(c.depth), 1, c.depth - 1) /\ rangeDependent'["b"] = SavedAt(c.depth)[c.depth]
      BY Zenon, <1>5, <3>1
    <3>3. /\ SubSeq(SavedAt(c.depth), 1, c.depth - 1) = SavedAt(c.depth - 1)
          /\ SavedAt(c.depth)[c.depth] \in BOOLEAN /\ (SavedAt(c.depth)[c.depth] <=> c.depth - 1 > 0)
      BY <2>6, <3>1, SavedFacts
    <3> QED BY Zenon, <3>2, <3>3 DEF Inside
  <2>8. gone \o <<>> = gone /\ c.sent \o <<>> = c.sent
    <3>1. c.sent \in Seq(SentLeaves)
      BY ConfigurationFacts
    <3> QED BY <3>1, ConcatEmptySeq
  <2>9. ReaderActs(x, c, gone)
    BY Zenon, <1>2, <1>4, <2>3, <2>4, <2>5, <2>6, <2>7, <2>8 DEF ReaderActs
  <2> QED BY <2>2, <2>4, <2>9, ReaderArrives
<1>8. tokens'["a"] \in Seq(Wire) /\ gone \o tokens'["a"] = gone \o tokens["a"]
  BY <1>2, <1>3 DEF WritesAt
<1> QED BY Zenon, <1>3, <1>6, <1>7, <1>8, ReaderMoves DEF Apart

LEMMA ReadEndMoves ==
  ASSUME NEW x \in Transfers, NEW w \in Nat, NEW gone \in Seq(Wire), Apart(x, w, gone), NEW e \in Ends, ReadEnd(e)
  PROVE  OneWay(x)'
<1>1. /\ outcome[e] = "reading" /\ todo[Reader(e)] = <<>> /\ outcome' = [outcome EXCEPT ![e] = "read"]
      /\ UNCHANGED <<transfer, rangeDependent, tokens, todo, saved, sent, result>>
  BY DEF ReadEnd
<1>2. Idle /\ WritesAt(x, Written(x)[w], gone)
  BY DEF Apart
<1>3. Idle' /\ WriterKept
  BY <1>1, <1>2 DEF Idle, OverEnds, WriterKept
<1>4. ASSUME NEW d \in Nat, Limit(x, d), AllFit PROVE ReadsTo(x, d, gone)'
  <2>1. ReadsTo(x, d, gone)
    BY Zenon, <1>4 DEF Apart
  <2>2. CASE e = "a"
    <3>1. ReaderKept
      BY <1>1, <1>2, <2>2, CoroFacts DEF Idle, OverEnds, ReaderKept
    <3> QED BY <2>1, <3>1, ReadsToKept
  <2>3. CASE e = "b"
    <3>1. outcome["b"] # "threw"
      BY <1>1, <2>3
    <3>2. PICK r \in Nat : ReadsAt(x, Written(x)[r], d, gone)
      BY Zenon, <2>1, <3>1 DEF ReadsTo, Threw
    <3>3. PICK c : c = Written(x)[r]
      OBVIOUS
    <3>4. c.tokens = gone /\ c.at <= d /\ result["b"] = c.sent /\ (AtStep(x, c) \/ AtSize(x, c) \/ AtEmpty(x, c))
      BY <3>2, <3>3 DEF ReadsAt
    <3>5. AtStep(x, c)' \/ AtSize(x, c)' \/ AtEmpty(x, c)'
      <4>1. \A n : Inside("b", Reader("b"), n) => Inside("b", Reader("b"), n)'
        BY <1>1 DEF Inside
      <4>2. AtStep(x, c) => AtStep(x, c)'
        BY Zenon, <1>1, <4>1 DEF AtStep
      <4>3. AtSize(x, c) => AtSize(x, c)'
        BY Zenon, <1>1, <4>1 DEF AtSize
      <4>4. AtEmpty(x, c) => AtEmpty(x, c)'
        BY Zenon, <1>1, <4>1 DEF AtEmpty
      <4> QED BY <3>4, <4>2, <4>3, <4>4
    <3>6. outcome'["b"] = "read" /\ todo'[Reader("b")] = <<>> /\ result'["b"] = result["b"]
      BY <1>1, <1>2, <2>3, CoroFacts DEF Idle, OverEnds
    <3>7. ReadsAt(x, c, d, gone)'
      BY Zenon, <3>4, <3>5, <3>6 DEF ReadsAt
    <3> QED BY Zenon, <3>3, <3>7 DEF ReadsTo
  <2> QED BY <2>2, <2>3, CoroFacts
<1>5. tokens'["a"] \in Seq(Wire) /\ gone \o tokens'["a"] = gone \o tokens["a"]
  BY <1>1, <1>2 DEF WritesAt
<1> QED BY Zenon, <1>2, <1>3, <1>4, <1>5, ReaderMoves DEF Apart

-----------------------------------------------------------------------------
(* Every step *)

LEMMA OneWayKept ==
  ASSUME NEW x \in Transfers, OneWay(x), UNCHANGED codecVars
  PROVE  OneWay(x)'
<1>1. PICK w \in Nat, gone \in Seq(Wire) : Apart(x, w, gone)
  BY Zenon DEF OneWay
<1>2. Idle /\ WritesAt(x, Written(x)[w], gone) /\ \A d \in Nat : Limit(x, d) /\ AllFit => ReadsTo(x, d, gone)
  BY Zenon, <1>1 DEF Apart
<1>3. Idle' /\ WriterKept /\ ReaderKept /\ tokens' = tokens
  BY <1>2 DEF codecVars, Idle, OverEnds, WriterKept, ReaderKept
<1>4. \A d \in Nat : Limit(x, d) /\ AllFit => ReadsTo(x, d, gone)'
  BY Zenon, <1>2, <1>3, ReadsToKept
<1>5. tokens'["a"] \in Seq(Wire) /\ gone \o tokens'["a"] = gone \o tokens["a"]
  BY <1>2, <1>3 DEF WritesAt
<1> QED BY Zenon, <1>2, <1>3, <1>4, <1>5, ReaderMoves

\* The coroutines with nothing to do take no step.
LEMMA OnlyTwo ==
  ASSUME Idle
  PROVE  /\ ~Serialize("b") /\ ~WriteRaw("b") /\ ~EnterValue("b") /\ ~LeaveValue(Writer("b"))
         /\ ~Deserialize("a") /\ ~Verify("a") /\ ~ReadRaw("a") /\ ~EnterRead("a") /\ ~ReadSize("a")
         /\ ~LeaveValue(Reader("a"))
BY DEF Idle, Serialize, WriteRaw, EnterValue, Deserialize, Verify, ReadRaw, EnterRead, ReadSize, LeaveValue, Doing

LEMMA CodecSteps ==
  ASSUME NEW x \in Transfers, OneWay(x), CodecNext
  PROVE  OneWay(x)'
<1>1. PICK w \in Nat, gone \in Seq(Wire) : Apart(x, w, gone)
  BY Zenon DEF OneWay
<1>2. PICK c : c = Written(x)[w]
  OBVIOUS
<1>3. /\ Idle /\ WritesAt(x, c, gone) /\ c \in Configurations(x)
      /\ \A d \in Nat : Limit(x, d) /\ AllFit => ReadsTo(x, d, gone)
  <2>1. c \in Configurations(x)
    BY <1>2, WrittenFacts
  <2> QED BY Zenon, <1>1, <1>2, <2>1 DEF Apart
<1>4. ASSUME ~Stops(x, c), WriterActs(x, c) PROVE OneWay(x)'
  BY <1>2, <1>3, <1>4, WriterMoves
<1>5. ASSUME NEW e \in Ends, Serialize(e) PROVE OneWay(x)'
  <2>1. e = "a"
    BY <1>3, <1>5, OnlyTwo, CoroFacts
  <2> QED BY <1>3, <1>4, <1>5, <2>1, SerializeMoves
<1>6. ASSUME NEW e \in Ends, WriteRaw(e) PROVE OneWay(x)'
  <2>1. e = "a"
    BY <1>3, <1>6, OnlyTwo, CoroFacts
  <2> QED BY <1>3, <1>4, <1>6, <2>1, WriteRawMoves
<1>7. ASSUME NEW e \in Ends, EnterValue(e) PROVE OneWay(x)'
  <2>1. e = "a"
    BY <1>3, <1>7, OnlyTwo, CoroFacts
  <2> QED BY <1>3, <1>4, <1>7, <2>1, EnterValueMoves
<1>8. ASSUME NEW e \in Ends, Deserialize(e) PROVE OneWay(x)'
  <2>1. e = "b"
    BY <1>3, <1>8, OnlyTwo, CoroFacts
  <2> QED BY <1>1, <1>8, <2>1, DeserializeMoves
<1>9. ASSUME NEW e \in Ends, Verify(e) PROVE OneWay(x)'
  <2>1. e = "b"
    BY <1>3, <1>9, OnlyTwo, CoroFacts
  <2> QED BY <1>1, <1>9, <2>1, VerifyMoves
<1>10. ASSUME NEW e \in Ends, ReadRaw(e) PROVE OneWay(x)'
  <2>1. e = "b"
    BY <1>3, <1>10, OnlyTwo, CoroFacts
  <2> QED BY <1>1, <1>10, <2>1, ReadRawMoves
<1>11. ASSUME NEW e \in Ends, EnterRead(e) PROVE OneWay(x)'
  <2>1. e = "b"
    BY <1>3, <1>11, OnlyTwo, CoroFacts
  <2> QED BY <1>1, <1>11, <2>1, EnterReadMoves
<1>12. ASSUME NEW e \in Ends, ReadSize(e) PROVE OneWay(x)'
  <2>1. e = "b"
    BY <1>3, <1>12, OnlyTwo, CoroFacts
  <2> QED BY <1>1, <1>12, <2>1, ReadSizeMoves
<1>13. ASSUME NEW e \in Ends, ReadEnd(e) PROVE OneWay(x)'
  BY <1>1, <1>13, ReadEndMoves
<1>14. ASSUME NEW co \in Coros, LeaveValue(co) PROVE OneWay(x)'
  <2>1. co = Writer("a") \/ co = Reader("b")
    BY <1>3, <1>14, OnlyTwo, CoroFacts
  <2>2. CASE co = Writer("a")
    BY <1>3, <1>4, <1>14, <2>2, LeaveWrittenMoves
  <2>3. CASE co = Reader("b")
    BY <1>1, <1>14, <2>3, LeaveReadMoves
  <2> QED BY <2>1, <2>2, <2>3
<1> QED BY Zenon, <1>5, <1>6, <1>7, <1>8, <1>9, <1>10, <1>11, <1>12, <1>13, <1>14 DEF CodecNext

LEMMA TransferStays ==
  ASSUME [CodecNext]_codecVars
  PROVE  transfer' = transfer
BY DEF CodecNext, codecVars, Serialize, WriteRaw, EnterValue, Deserialize, Verify, ReadRaw, EnterRead, ReadSize,
       ReadEnd, LeaveValue

LEMMA CodecStep ==
  ASSUME CodecInv, [CodecNext]_codecVars
  PROVE  CodecInv'
<1>1. PICK x \in Transfers : x = transfer
  BY DEF CodecInv
<1>2. transfer' = x
  BY <1>1, TransferStays
<1>3. ASSUME ~x.duplex PROVE OneWay(x)'
  <2>1. OneWay(x)
    BY Zenon, <1>1, <1>3 DEF CodecInv
  <2> QED BY <2>1, CodecSteps, OneWayKept
<1> QED BY Zenon, <1>2, <1>3 DEF CodecInv

-----------------------------------------------------------------------------
(* What has been read in the end *)

\* A reader with nothing left to do is where the writer has written everything.
LEMMA EndReached ==
  ASSUME NEW x \in Transfers, NEW d \in Nat, Limit(x, d), NEW gone, NEW c \in Configurations(x),
         ReadsAt(x, c, d, gone), todo[Reader("b")] = <<>>
  PROVE  Stops(x, c) /\ d > Len(x.values)
<1>1. /\ d >= 1 /\ d <= Len(x.values) + 1 /\ d <= Len(x.expected) + 1 /\ Len(x.values) \in Nat /\ Len(x.expected) \in Nat
      /\ c.at \in 1..(Len(x.values) + 1) /\ c.at <= d
  BY LimitFacts, TransferFacts, GetsFacts, ConfigurationFacts DEF ReadsAt
<1>2. ASSUME ~Stops(x, c) PROVE FALSE
  <2>1. c.inner = <<>> => c.at <= Len(x.values) /\ c.at <= Len(x.expected)
    BY <1>1, <1>2 DEF Stops, Limit
  <2>2. Back(x, c) # <<>> /\ Tail(Back(x, c)) \in Seq(ReaderSteps)
    <3>1. c.at <= Len(x.expected) + 1
      BY <1>1
    <3> QED BY <1>2, <2>1, <3>1, BackFacts
  <2>3. \A q : <<q>> \o Tail(Back(x, c)) # <<>>
    BY <2>2, FirstOf
  <2> QED BY Zenon, <2>2, <2>3 DEF ReadsAt, AtStep, AtSize, AtEmpty
<1>3. c.at > Len(x.values)
  BY <1>2 DEF Stops
<1> QED BY <1>1, <1>2, <1>3

\* All that was sent has been read, when all was written that is to be read.
LEMMA AllSent ==
  ASSUME NEW x \in Transfers, NEW w \in Nat, NEW r \in Nat, NEW gone \in Seq(Wire),
         WritesAt(x, Written(x)[w], gone), NEW c, c = Written(x)[r], c.tokens = gone, Stops(x, c)
  PROVE  c.sent = sent["a"]
<1>1. PICK b, old : b = Written(x)[w] /\ old = tokens["a"]
  OBVIOUS
<1>2. b \in Configurations(x) /\ c \in Configurations(x)
  BY <1>1, WrittenFacts
<1>3. old \in Seq(Wire) /\ b.tokens = gone \o old /\ sent["a"] = b.sent
  BY <1>1 DEF WritesAt
<1>4. CASE r <= w
  <2>1. Precedes(x, c, b)
    BY <1>1, <1>4, WrittenInOrder
  <2>2. b = c
    BY Zenon, <2>1 DEF Precedes
  <2> QED BY Zenon, <1>3, <2>2
<1>5. CASE w <= r
  <2>1. Precedes(x, b, c)
    BY <1>1, <1>5, WrittenInOrder
  <2>2. PICK new \in Seq(Wire), more \in Seq(SentLeaves) :
          c.tokens = b.tokens \o new /\ c.sent = b.sent \o more /\ (new = <<>> => more = <<>>)
    BY <2>1 DEF Precedes
  <2>3. gone = (gone \o old) \o new
    BY Zenon, <1>3, <2>2
  <2>4. Len(gone) = Len(gone) + Len(old) + Len(new) /\ Len(gone) \in Nat /\ Len(new) \in Nat /\ Len(old) \in Nat
    <3>1. PICK s : s = gone \o old
      OBVIOUS
    <3>2. s \in Seq(Wire) /\ Len(s) = Len(gone) + Len(old)
      BY <1>3, <3>1, ConcatProperties
    <3>3. Len(s \o new) = Len(s) + Len(new)
      BY <3>2, ConcatProperties
    <3> QED BY Zenon, <1>3, <2>3, <3>1, <3>2, <3>3, LenProperties
  <2>5. Len(new) = 0
    BY <2>4
  <2>6. new = <<>>
    BY <2>5
  <2>7. b.sent \o <<>> = b.sent
    <3>1. b.sent \in Seq(SentLeaves)
      BY <1>2, ConfigurationFacts
    <3> QED BY <3>1, ConcatEmptySeq
  <2> QED BY Zenon, <1>3, <2>2, <2>6, <2>7
<1> QED BY <1>4, <1>5

LEMMA WhatIsRead ==
  ASSUME NEW x \in Transfers, OneWay(x), AllFit, NEW d \in Nat, Limit(x, d)
  PROVE  \/ outcome["b"] = "reading"
         \/ outcome["b"] = "threw" /\ d <= Len(x.values)
         \/ outcome["b"] = "read" /\ result["b"] = sent["a"] /\ d > Len(x.values)
<1>1. PICK w \in Nat, gone \in Seq(Wire) : Apart(x, w, gone)
  BY Zenon DEF OneWay
<1>2. WritesAt(x, Written(x)[w], gone) /\ ReadsTo(x, d, gone)
  BY Zenon, <1>1 DEF Apart
<1>3. CASE Threw(x, d)
  BY <1>3 DEF Threw
<1>4. ASSUME NEW r \in Nat, ReadsAt(x, Written(x)[r], d, gone), outcome["b"] # "reading"
      PROVE  outcome["b"] = "read" /\ result["b"] = sent["a"] /\ d > Len(x.values)
  <2>1. PICK c : c = Written(x)[r]
    OBVIOUS
  <2>2. c \in Configurations(x) /\ ReadsAt(x, c, d, gone)
    BY <1>4, <2>1, WrittenFacts
  <2>3. outcome["b"] = "read" /\ todo[Reader("b")] = <<>> /\ c.tokens = gone /\ result["b"] = c.sent
    BY <1>4, <2>2 DEF ReadsAt
  <2>4. Stops(x, c) /\ d > Len(x.values)
    BY <2>2, <2>3, EndReached
  <2>5. c.sent = sent["a"]
    BY <1>2, <2>1, <2>3, <2>4, AllSent
  <2> QED BY Zenon, <2>3, <2>4, <2>5
<1> QED BY <1>2, <1>3, <1>4 DEF ReadsTo

LEMMA CodecInvGivesDecoded ==
  ASSUME CodecInv
  PROVE  DecodesToItself
<1>1. PICK x \in Transfers : x = transfer
  BY DEF CodecInv
<1>2. PICK types : types = [i \in DOMAIN x.values |-> x.values[i].type]
  OBVIOUS
<1>3. Len(x.values) \in Nat /\ DOMAIN x.values = 1..Len(x.values) /\ x.expected \in Seq(DOMAIN Shape)
  BY TransferFacts
<1>4. DOMAIN types = 1..Len(x.values) /\ \A i \in 1..Len(x.values) : types[i] = x.values[i].type
  BY <1>2, <1>3
<1>5. ASSUME ~x.duplex, AllFit, types = x.expected
      PROVE  outcome["b"] = "reading" \/ (outcome["b"] = "read" /\ result["b"] = sent["a"])
  <2>1. OneWay(x)
    BY Zenon, <1>1, <1>5 DEF CodecInv
  <2>2. Len(x.expected) = Len(x.values)
    BY <1>3, <1>4, <1>5
  <2>3. PICK d \in Nat : d = Len(x.values) + 1
    BY <1>3
  <2>4. Limit(x, d)
    BY <1>3, <1>4, <1>5, <2>2, <2>3 DEF Limit
  <2>5. ~(d <= Len(x.values))
    BY <1>3, <2>3
  <2> QED BY Zenon, <1>5, <2>1, <2>4, <2>5, WhatIsRead
<1>6. ASSUME ~x.duplex, AllFit, NEW i \in DOMAIN types \cap DOMAIN x.expected,
             Tagged(types[i]), Tagged(x.expected[i]), Tag(types[i]) # Tag(x.expected[i]),
             \A j \in 1..(i - 1) : types[j] = x.expected[j]
      PROVE  outcome["b"] \in {"reading", "threw"}
  <2>1. OneWay(x)
    BY Zenon, <1>1, <1>6 DEF CodecInv
  <2>2. i \in Nat /\ i \in 1..Len(x.values) /\ i <= Len(x.expected) /\ i <= Len(x.values)
    BY <1>3, <1>4
  <2>3. types[i] = x.values[i].type /\ \A j \in 1..(i - 1) : x.values[j].type = x.expected[j]
    BY <1>3, <1>4, <1>6, <2>2
  <2>4. Tagged(x.values[i].type) /\ Tagged(x.expected[i]) /\ Tag(x.values[i].type) # Tag(x.expected[i])
    BY Zenon, <1>6, <2>3
  <2>5. Limit(x, i)
    BY <2>2, <2>3, <2>4 DEF Limit
  <2>6. ~(i > Len(x.values))
    BY <1>3, <2>2
  <2>7. outcome["b"] = "reading" \/ outcome["b"] = "threw"
    BY Zenon, <1>6, <2>1, <2>2, <2>5, <2>6, WhatIsRead
  <2> QED BY <2>7
<1>7. ASSUME ~transfer.duplex, AllFit
      PROVE  /\ types = transfer.expected => outcome["b"] = "reading" \/ (outcome["b"] = "read" /\ result["b"] = sent["a"])
             /\ (\E i \in DOMAIN types \cap DOMAIN transfer.expected :
                   /\ Tagged(types[i]) /\ Tagged(transfer.expected[i]) /\ Tag(types[i]) # Tag(transfer.expected[i])
                   /\ \A j \in 1..(i - 1) : types[j] = transfer.expected[j]) => outcome["b"] \in {"reading", "threw"}
  BY Zenon, <1>1, <1>5, <1>6, <1>7
<1>8. types = [i \in DOMAIN transfer.values |-> transfer.values[i].type]
  BY Zenon, <1>1, <1>2
<1> QED BY Zenon, <1>7, <1>8 DEF DecodesToItself, AllFit

\* If the stream is used in one direction only, what is read is what was written, leaf by leaf,
\* whatever is nested in whatever and wherever the two coroutines are suspended
\* (serde_stream_base.hpp:246-550); the first value with another tag than that of the type the
\* reader expects gives it an exception, whatever the hashes of the types are.
THEOREM StreamsDecodeToThemselves == CodecSpec => []DecodesToItself
<1>1. CodecInit => CodecInv
  BY CodecStarts
<1>2. CodecInv /\ [CodecNext]_codecVars => CodecInv'
  BY CodecStep
<1>3. CodecInv => DecodesToItself
  BY CodecInvGivesDecoded
<1> QED BY <1>1, <1>2, <1>3, PTL DEF CodecSpec
=============================================================================
