------------------------------ MODULE Generator ------------------------------
(***************************************************************************)
(* generator.hpp: a generator that yields values and the elements of       *)
(* nested generators.  The promise of the outermost one, the root, holds   *)
(* the value and the handle of the innermost one, the leaf; each nested    *)
(* one holds its root and its parent in the same members.                  *)
(*                                                                         *)
(* Generator 1 is the root.  A body is a list of items: yield a value,     *)
(* yield the elements of a nested generator, inside a try block or not, or *)
(* throw.  Each body is run at most once.                                  *)
(***************************************************************************)
EXTENDS ItemPlaces

CONSTANTS
  Yielded,  \* values
  Bodies    \* sets of generators: the bodies, of which the first is the root's

VARIABLES
  body,         \* what runs; never changes
  position,     \* of each generator: the item it is at; 0: not started
  rootOf,       \* _M_root
  parentOrLeaf, \* _M_parent_or_leaf
  exception,    \* _M_expection: unconstructed, empty or an error
  value,        \* _M_value: constructed values, one or none
  live,         \* the generators whose frames exist
  done,         \* those that have come to their final suspension
  active,      \* the generator that runs, or the consumer
  consumer,     \* what the consumer does
  taken         \* the values it has seen

generatorVars == <<body, position, rootOf, parentOrLeaf, exception, value, live, done, active, consumer, taken>>

Consumer == 0
Root == 1
Generators == DOMAIN body

Yield(v) == [op |-> "yield", value |-> v]
Nest(g, catches) == [op |-> "nest", of |-> g, catches |-> catches]
ThrowError == [op |-> "throw"]

Items(n) ==
  {Yield(v) : v \in Yielded} \cup {ThrowError} \cup {Nest(g, catches) : g \in 1..n, catches \in BOOLEAN}

\* Items name generators that come later, and each of them at one place only.
ASSUME GeneratorAssumption ==
  \A bodies \in Bodies :
    /\ bodies # <<>> /\ bodies \in Seq(Seq(Items(Len(bodies))))
    /\ \A g \in DOMAIN bodies : \A i \in DOMAIN bodies[g] :
         bodies[g][i].op = "nest" =>
           /\ bodies[g][i].of > g
           /\ \A h \in DOMAIN bodies : \A j \in DOMAIN bodies[h] :
                bodies[h][j].op = "nest" /\ bodies[h][j].of = bodies[g][i].of => h = g /\ j = i

GeneratorInit ==
  /\ body \in Bodies
  /\ position = [g \in Generators |-> 0]
  /\ rootOf = [g \in Generators |-> g]
  /\ parentOrLeaf = [g \in Generators |-> g]
  /\ exception = [g \in Generators |-> "unconstructed"]
  /\ value = [g \in Generators |-> <<>>]
  /\ live = {Root} /\ done = {}
  /\ active = Consumer /\ consumer = "fresh" /\ taken = <<>>

Done(g) == g \in done
AtEnd(g) == position[g] > Len(body[g])
ItemOf(g) == body[g][position[g]]
AtItem(g, op) == active = g /\ ~AtEnd(g) /\ ItemOf(g).op = op

-----------------------------------------------------------------------------
(* The consumer *)

\* begin()
Begin ==
  /\ active = Consumer /\ consumer = "fresh"
  /\ consumer' = "iterating" /\ active' = Root
  /\ position' = [position EXCEPT ![Root] = 1]
  /\ UNCHANGED <<body, rootOf, parentOrLeaf, exception, value, live, done, taken>>

\* *it and ++it: the value is destroyed and the leaf resumed.
Increment ==
  /\ active = Consumer /\ consumer = "iterating" /\ ~Done(Root)
  /\ taken' = taken \o value[Root]
  /\ value' = [value EXCEPT ![Root] = <<>>]
  /\ active' = parentOrLeaf[Root]
  /\ UNCHANGED <<body, position, rootOf, parentOrLeaf, exception, live, done, consumer>>

\* The generator is destroyed: its value, unless it has ended, and the frames of the
\* nested ones with it, each with its exception if it has a root other than itself.
Destroy(how) ==
  /\ consumer' = how
  /\ live' = {}
  /\ value' = [value EXCEPT ![Root] = IF Done(Root) THEN @ ELSE <<>>]
  /\ exception' = [g \in Generators |-> IF g \in live /\ rootOf[g] # g THEN "unconstructed" ELSE exception[g]]
  /\ UNCHANGED <<body, position, rootOf, parentOrLeaf, done, active, taken>>

LeaveLoop ==
  \/ active = Consumer /\ consumer = "iterating" /\ Done(Root) /\ Destroy("ended")
  \/ active = Consumer /\ consumer = "iterating" /\ ~Done(Root) /\ Destroy("left")
  \/ active = Consumer /\ consumer = "threw" /\ Destroy("failed")

-----------------------------------------------------------------------------
(* The generators *)

YieldValue(g) ==
  /\ AtItem(g, "yield")
  /\ value' = [value EXCEPT ![rootOf[g]] = Append(@, ItemOf(g).value)]
  /\ position' = [position EXCEPT ![g] = @ + 1]
  /\ active' = Consumer
  /\ UNCHANGED <<body, rootOf, parentOrLeaf, exception, live, done, consumer, taken>>

\* The nested generator gets its root and parent and runs at once.
YieldSequence(g) ==
  LET nested == ItemOf(g).of
  IN /\ AtItem(g, "nest") /\ position[nested] = 0
     /\ live' = live \cup {nested}
     /\ rootOf' = [rootOf EXCEPT ![nested] = rootOf[g]]
     /\ parentOrLeaf' = [parentOrLeaf EXCEPT ![nested] = g, ![rootOf[g]] = nested]
     /\ exception' = [exception EXCEPT ![nested] = "empty"]
     /\ position' = [position EXCEPT ![nested] = 1]
     /\ active' = nested
     /\ UNCHANGED <<body, value, done, consumer, taken>>

\* Bug: the generator that has ended stays the leaf.
FinalSuspendLeafStays(g) ==
  /\ done' = done \cup {g}
  /\ IF rootOf[g] # g THEN active' = parentOrLeaf[g] ELSE active' = Consumer
  /\ UNCHANGED parentOrLeaf

\* final_suspend: the parent becomes the leaf and is resumed.
FinalSuspend(g) ==
  /\ done' = done \cup {g}
  /\ IF rootOf[g] # g
     THEN /\ parentOrLeaf' = [parentOrLeaf EXCEPT ![rootOf[g]] = parentOrLeaf[g]]
          /\ active' = parentOrLeaf[g]
     ELSE UNCHANGED parentOrLeaf /\ active' = Consumer

\* unhandled_exception: a nested generator keeps it, out of the root it goes to the
\* consumer; either way the body has ended.
Unhandled(g) ==
  /\ FinalSuspend(g)
  /\ consumer' = IF rootOf[g] # g THEN consumer ELSE "threw"

Throw(g) ==
  /\ AtItem(g, "throw")
  /\ Unhandled(g)
  /\ exception' = IF rootOf[g] # g THEN [exception EXCEPT ![g] = "error"] ELSE exception
  /\ UNCHANGED <<body, position, rootOf, value, live, taken>>

\* await_resume rethrows what the nested generator has kept; its frame is destroyed.
SequenceEnds(g) ==
  LET nested == ItemOf(g).of
      threw == exception[nested] = "error"
      gone == [exception EXCEPT ![nested] = "unconstructed"]
  IN /\ AtItem(g, "nest") /\ position[nested] # 0
     /\ live' = live \ {nested}
     /\ IF threw /\ ~ItemOf(g).catches
        THEN /\ Unhandled(g)
             /\ exception' = IF rootOf[g] # g THEN [gone EXCEPT ![g] = "error"] ELSE gone
             /\ UNCHANGED position
        ELSE /\ position' = [position EXCEPT ![g] = @ + 1]
             /\ exception' = gone
             /\ UNCHANGED <<parentOrLeaf, done, active, consumer>>
     /\ UNCHANGED <<body, rootOf, value, taken>>

EndBody(g) ==
  /\ active = g /\ AtEnd(g)
  /\ FinalSuspend(g)
  /\ UNCHANGED <<body, position, rootOf, exception, value, live, consumer, taken>>

GeneratorNext ==
  \/ Begin \/ Increment \/ LeaveLoop
  \/ \E g \in Generators : YieldValue(g) \/ YieldSequence(g) \/ Throw(g) \/ SequenceEnds(g) \/ EndBody(g)

GeneratorSpec == GeneratorInit /\ [][GeneratorNext]_generatorVars

-----------------------------------------------------------------------------
Outcome(values, throws) == [values |-> values, throws |-> throws]
Silent == Outcome(<<>>, FALSE)
Raised == Outcome(<<>>, TRUE)
Joined(first, next) == Outcome(first.values \o next.values, next.throws)

\* One outcome and, if it throws nothing or what it throws is caught, the next.
Followed(first, catches, next) ==
  IF first.throws /\ ~catches THEN first ELSE Joined(first, next)

\* What comes from a place on, given what comes from later ones.
OutcomeAt(bodies, from, p) ==
  LET item == bodies[p[1]][p[2]]
      rest == from[<<p[1], p[2] + 1>>]
  IN IF p[2] > Len(bodies[p[1]]) THEN Silent
     ELSE IF item.op = "yield" THEN Outcome(<<item.value>> \o rest.values, rest.throws)
     ELSE IF item.op = "throw" THEN Raised
     ELSE Followed(from[<<item.of, 1>>], item.catches, rest)

\* What a generator yields when the nested ones are written out, and if it throws.
Meaning(bodies) ==
  LET from[p \in Places(bodies)] == OutcomeAt(bodies, from, p)
  IN from[<<Root, 1>>]

\* The consumer sees the values of nested generators in the order they would be
\* yielded in if written out, an exception reaches it or the nearest try block, and
\* each value and each exception_ptr is destroyed as often as constructed, however
\* early the consumer stops (generator.hpp:92-97, 105-158, 197-225, 315-323).
YieldsInOrder ==
  LET meaning == Meaning(body)
      whole == taken = meaning.values
  IN /\ Len(taken) <= Len(meaning.values) /\ taken = SubSeq(meaning.values, 1, Len(taken))
     /\ consumer = "ended" => whole /\ ~meaning.throws
     /\ consumer \in {"threw", "failed"} => whole /\ meaning.throws
     /\ Cardinality({g \in Generators : value[g] # <<>>}) =
          IF active = Consumer /\ consumer = "iterating" /\ ~Done(Root) THEN 1 ELSE 0
     /\ Len(value[Root]) <= 1
     /\ \A g \in Generators : exception[g] # "unconstructed" <=> g \in live \ {Root}
=============================================================================
