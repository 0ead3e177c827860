------------------------------ MODULE RpcProofs ------------------------------
(***************************************************************************)
(* Theorems about remote procedure calls, for any number of clients and    *)
(* calls, any capacity of the sockets, whatever pieces the bytes come in.  *)
(***************************************************************************)
EXTENDS Rpc, ListFacts, SequenceTheorems, TLAPS

Active == {"next", "send", "sending", "receive", "receiving", "return", "throw", "done", "failed"}
Labels == Active \cup {"unborn", "accept", "accepting", "connect", "connecting", "spawnHelper", "closeOther"}

\* Where a coroutine can be.
Role(c) ==
  IF c = Acceptor THEN {"accept", "accepting"}
  ELSE IF c \in Clients THEN Active \cup {"connect", "connecting"}
                             \cup (IF c = 1 /\ program.shared THEN {"spawnHelper"} ELSE {})
  ELSE IF c \in Sessions THEN Active \cup {"unborn"}
  ELSE IF c = Helper THEN {"unborn"} \cup (IF program.shared THEN Active ELSE {})
  ELSE {"unborn", "closeOther", "done"}

\* The types of what the loop and the sockets consist of.
Typed ==
  /\ program \in Programs
  /\ waiting \in [Directions -> [Sockets -> Seq(Coroutines)]]
  /\ bits \in [Directions -> SUBSET Sockets]
  /\ open \subseteq Sockets /\ Acceptor \in open
  /\ backlog \in Seq(Clients) /\ connected \subseteq Clients
  /\ ready \in Seq(Coroutines) /\ running \in Coroutines \cup {Nobody}
  /\ pc \in [Coroutines -> Labels]
  /\ \A c \in Coroutines : pc[c] \in Role(c)

Waits == {"connecting", "accepting", "sending", "receiving"}
Side(label) == IF label \in {"accepting", "receiving"} THEN "in" ELSE "out"

\* A coroutine is in one place: it runs, the executor holds it, or it waits, at its socket and
\* for the direction that its operation needs.
Placed ==
  /\ IsInjective(ready) /\ running \notin ToSet(ready)
  /\ \A d \in Directions, s \in Sockets :
       /\ IsInjective(waiting[d][s])
       /\ \A c \in ToSet(waiting[d][s]) :
            /\ Socket(c) = s /\ pc[c] \in Waits /\ Side(pc[c]) = d
            /\ c # running /\ c \notin ToSet(ready)
  /\ \A c \in Coroutines : pc[c] = "unborn" => c # running /\ c \notin ToSet(ready)

\* A session is spawned once for a connection, and the helper once.
Births ==
  /\ IsInjective(backlog) /\ ToSet(backlog) \subseteq connected
  /\ \A i \in Clients : i \notin connected \/ i \in ToSet(backlog) => pc[Session(i)] = "unborn"
  /\ \A i \in Clients : pc[i] = "connect" => i \notin connected
  /\ pc[1] \in {"connect", "connecting", "spawnHelper"} => pc[Helper] = "unborn"

Watched ==
  /\ \A d \in Directions : Waited(d) \subseteq bits[d]
  /\ bits["in"] \subseteq open

\* An operation keeps its socket in non-blocking mode, unless another one uses the socket.
Modes ==
  \A c \in Coroutines :
    pc[c] \in {"sending", "receiving"} /\ Socket(c) \in open /\ ~(program.shared /\ Socket(c) = 1) =>
      Socket(c) \in nonBlocking

Control == Typed /\ Placed /\ Births /\ Watched /\ Modes

-----------------------------------------------------------------------------
\* The coroutines and their sockets.
LEMMA Numbers ==
  /\ N \in Nat /\ N >= 1 /\ Clients = 1..N /\ Sessions = (N + 1)..(2 * N)
  /\ Coroutines = 0..(2 * N + 2) /\ Sockets = 0..(2 * N)
  /\ Clients \cap Sessions = {} /\ Clients \cup Sessions \subseteq Sockets
  /\ Clients \subseteq Coroutines /\ Sessions \subseteq Coroutines
  /\ Acceptor = 0 /\ Helper = 2 * N + 1 /\ Closer = 2 * N + 2
  /\ {Acceptor, Helper, Closer} \subseteq Coroutines
  /\ {Acceptor, Helper, Closer} \cap (Clients \cup Sessions) = {}
  /\ \A c \in Coroutines : c = Acceptor \/ c \in Clients \/ c \in Sessions \/ c = Helper \/ c = Closer
  /\ 1 \in Clients /\ Nobody \notin Coroutines
<1>1. N \in Nat /\ N >= 1 /\ Sockets = 0..(2 * N)
  BY SocketsAssumption
<1>2. Sessions = (N + 1)..(2 * N)
  <2>1. ASSUME NEW i \in Clients PROVE Session(i) \in (N + 1)..(2 * N)
    BY <1>1 DEF Clients, Session
  <2>2. ASSUME NEW s \in (N + 1)..(2 * N) PROVE s - N \in Clients /\ s = Session(s - N)
    BY <1>1 DEF Clients, Session
  <2> QED
    BY <2>1, <2>2 DEF Sessions
<1> QED
  BY <1>1, <1>2 DEF Clients, Coroutines, Acceptor, Helper, Closer, Nobody

LEMMA SocketNumbers ==
  /\ \A c \in Coroutines : c # Closer => Socket(c) \in Sockets
  /\ \A c \in Coroutines : c # Acceptor => Socket(c) # Acceptor
  /\ \A c \in Clients \cup Sessions : Socket(c) = c
  /\ \A c, d \in Coroutines : Socket(c) = Socket(d) => c = d \/ (Helper \in {c, d} /\ Socket(c) = 1)
  /\ Socket(Acceptor) = Acceptor /\ Socket(Helper) = 1
<1>1. \A c \in Coroutines : Socket(c) = IF c = Helper THEN 1 ELSE c
  BY DEF Socket
<1>2. \A c \in Coroutines : c # Closer => Socket(c) \in Sockets
  BY <1>1, Numbers
<1>3. \A c \in Coroutines : c # Acceptor => Socket(c) # Acceptor
  BY <1>1, Numbers
<1>4. \A c \in Clients \cup Sessions : Socket(c) = c
  BY <1>1, Numbers
<1>5. ASSUME NEW c \in Coroutines, NEW d \in Coroutines, Socket(c) = Socket(d), c # d
      PROVE  Helper \in {c, d} /\ Socket(c) = 1
  BY <1>1, <1>5
<1>6. Socket(Acceptor) = Acceptor /\ Socket(Helper) = 1
  BY <1>1, Numbers
<1> QED
  BY <1>2, <1>3, <1>4, <1>5, <1>6

LEMMA SessionNumbers ==
  /\ \A i \in Clients : Session(i) \in Sessions
  /\ \A i, j \in Clients : Session(i) = Session(j) => i = j
BY Numbers DEF Session, Sessions

\* What a running coroutine that goes elsewhere does to the labels.
LEMMA Gone ==
  ASSUME Typed, NEW c \in Coroutines, NEW l \in Labels, Goto(c, l)
  PROVE  /\ pc' \in [Coroutines -> Labels] /\ pc'[c] = l
         /\ \A d \in Coroutines \ {c} : pc'[d] = pc[d]
BY DEF Typed, Goto

-----------------------------------------------------------------------------
(* Where the coroutines are *)

\* What commit_frame takes are the first waiters of some sockets.
LEMMA WalkCounts ==
  ASSUME Typed, NEW d \in Directions, NEW set, NEW taken \in Walks(d, set)
  PROVE  /\ taken \subseteq Entries(d, bits[d] \cap set)
         /\ \A s \in Sockets : \E n \in 0..Len(waiting[d][s]) :
              /\ Cardinality({i \in DOMAIN waiting[d][s] : <<s, i>> \in taken}) = n
              /\ \A i \in DOMAIN waiting[d][s] : <<s, i>> \in taken <=> i <= n
<1> DEFINE all == Entries(d, bits[d] \cap set)
<1>1. /\ \A s \in Sockets : waiting[d][s] \in Seq(Coroutines)
      /\ bits[d] \subseteq Sockets /\ Sockets \subseteq Int
  BY Numbers DEF Typed
<1>2. taken \subseteq all
  BY DEF Walks
<1>3. ASSUME NEW s \in Sockets, NEW n \in 0..Len(waiting[d][s]),
             \A i \in DOMAIN waiting[d][s] : <<s, i>> \in taken <=> i <= n
      PROVE  Cardinality({i \in DOMAIN waiting[d][s] : <<s, i>> \in taken}) = n
  <2>1. Len(waiting[d][s]) \in Nat /\ DOMAIN waiting[d][s] = 1..Len(waiting[d][s])
    BY <1>1
  <2>2. {i \in DOMAIN waiting[d][s] : <<s, i>> \in taken} = 1..n
    BY <1>3, <2>1
  <2>3. 1 \in Int /\ n \in Int /\ (1 > n => n = 0)
    BY <2>1
  <2>4. Cardinality(1..n) = n
    BY <2>3, FS_Interval
  <2> QED
    BY <2>2, <2>4
<1>4. ASSUME NEW s \in Sockets
      PROVE  \E n \in 0..Len(waiting[d][s]) :
               \A i \in DOMAIN waiting[d][s] : <<s, i>> \in taken <=> i <= n
  <2>1. Len(waiting[d][s]) \in Nat /\ DOMAIN waiting[d][s] = 1..Len(waiting[d][s]) /\ s \in Int
    BY <1>1
  <2>2. CASE taken = {}
    BY <2>1, <2>2
  <2>3. CASE s \notin bits[d] \cap set
    <3>1. \A i : <<s, i>> \notin all
      BY <2>3 DEF Entries
    <3>2. \A i : <<s, i>> \notin taken
      BY <1>2, <3>1
    <3> QED
      BY <2>1, <3>2
  <2>4. CASE s \in bits[d] \cap set /\ taken # {}
    <3>1. PICK last \in all : taken = {e \in all : ~Before(last, e)}
      BY <2>4 DEF Walks
    <3>2. PICK u \in bits[d] \cap set : last \in {u} \X DOMAIN waiting[d][u]
      BY <3>1 DEF Entries
    <3>3. last[1] = u /\ last[2] \in 1..Len(waiting[d][u]) /\ u \in Sockets
      <4>1. u \in Sockets /\ last[1] = u /\ last[2] \in DOMAIN waiting[d][u]
        BY <1>1, <3>2
      <4>2. DOMAIN waiting[d][u] = 1..Len(waiting[d][u])
        BY <1>1, <4>1
      <4> QED
        BY <4>1, <4>2
    <3>4. \A i \in DOMAIN waiting[d][s] : <<s, i>> \in all
      BY <2>4 DEF Entries
    <3>5. \A i \in DOMAIN waiting[d][s] :
            <<s, i>> \in taken <=> ~(last[1] < s \/ (last[1] = s /\ last[2] < i))
      BY <3>1, <3>4 DEF Before
    <3>6. u \in Int /\ last[2] \in Int
      BY <1>1, <3>3
    <3>7. CASE u < s
      BY <2>1, <3>3, <3>5, <3>7
    <3>8. CASE u = s
      BY <2>1, <3>3, <3>5, <3>6, <3>8
    <3>9. CASE u > s
      <4>1. \A i \in DOMAIN waiting[d][s] : <<s, i>> \in taken
        BY <2>1, <3>3, <3>5, <3>6, <3>9
      <4>2. /\ Len(waiting[d][s]) \in 0..Len(waiting[d][s])
            /\ \A i \in DOMAIN waiting[d][s] : i <= Len(waiting[d][s])
        BY <2>1
      <4> QED
        BY <4>1, <4>2
    <3> QED
      BY <2>1, <3>6, <3>7, <3>8, <3>9
  <2> QED
    BY <2>2, <2>3, <2>4
<1> QED
  BY <1>2, <1>3, <1>4

\* The frames that a commit pushes do not wait any more; each is pushed once.
LEMMA CommitLists ==
  ASSUME Typed, Placed, NEW d \in Directions, NEW set, NEW taken \in Walks(d, set),
         NEW frames \in Outstanding(d, taken), CommitFrame(d, taken)
  PROVE  /\ frames \in Seq(Coroutines) /\ IsInjective(frames)
         /\ \A c \in ToSet(frames) : \E s \in Sockets : c \in ToSet(waiting[d][s])
         /\ waiting' \in [Directions -> [Sockets -> Seq(Coroutines)]]
         /\ \A b \in Directions, s \in Sockets :
              /\ IsInjective(waiting'[b][s])
              /\ ToSet(waiting'[b][s]) \subseteq ToSet(waiting[b][s]) \ ToSet(frames)
<1> DEFINE count(s) == Cardinality({i \in DOMAIN waiting[d][s] : <<s, i>> \in taken})
<1>1. /\ \A b \in Directions, s \in Sockets : waiting[b][s] \in Seq(Coroutines)
      /\ bits[d] \subseteq Sockets
  BY DEF Typed
<1>2. ASSUME NEW s \in Sockets
      PROVE  /\ count(s) \in 0..Len(waiting[d][s])
             /\ \A i \in DOMAIN waiting[d][s] : <<s, i>> \in taken <=> i <= count(s)
  <2>1. PICK n \in 0..Len(waiting[d][s]) :
          /\ Cardinality({i \in DOMAIN waiting[d][s] : <<s, i>> \in taken}) = n
          /\ \A i \in DOMAIN waiting[d][s] : <<s, i>> \in taken <=> i <= n
    BY WalkCounts
  <2>2. count(s) = n
    BY <2>1
  <2> QED
    BY <2>1, <2>2
<1>3. /\ waiting'[d] = [s \in Sockets |-> SubSeq(waiting[d][s], count(s) + 1, Len(waiting[d][s]))]
      /\ \A b \in Directions \ {d} : waiting'[b] = waiting[b]
      /\ DOMAIN waiting' = Directions
  BY DEF CommitFrame, Typed
<1> HIDE DEF count
<1>4. PICK order \in SetToSeqs(taken) :
        frames = [i \in DOMAIN order |-> waiting[d][order[i][1]][order[i][2]]]
  BY DEF Outstanding
<1>5. /\ DOMAIN order = 1..Cardinality(taken) /\ \A j \in DOMAIN order : order[j] \in taken
      /\ \A j, k \in DOMAIN order : order[j] = order[k] => j = k
  BY DEF SetToSeqs
<1>6. ASSUME NEW e \in taken
      PROVE  /\ e[1] \in Sockets /\ e[2] \in 1..Len(waiting[d][e[1]]) /\ e[2] <= count(e[1])
             /\ e = <<e[1], e[2]>>
             /\ waiting[d][e[1]][e[2]] \in ToSet(waiting[d][e[1]])
  <2>1. e \in Entries(d, bits[d] \cap set)
    BY WalkCounts
  <2>2. PICK s \in bits[d] \cap set : e \in {s} \X DOMAIN waiting[d][s]
    BY <2>1 DEF Entries
  <2>3. e = <<s, e[2]>> /\ e[1] = s /\ e[2] \in DOMAIN waiting[d][s] /\ s \in Sockets
    BY <1>1, <2>2
  <2>4. DOMAIN waiting[d][s] = 1..Len(waiting[d][s])
    BY <1>1, <2>3
  <2> QED
    BY <1>2, <2>3, <2>4 DEF ToSet
<1>7. ASSUME NEW e \in taken, NEW s \in Sockets, NEW i \in DOMAIN waiting[d][s],
             waiting[d][e[1]][e[2]] = waiting[d][s][i]
      PROVE  s = e[1] /\ i = e[2]
  <2>1. Socket(waiting[d][s][i]) = s /\ Socket(waiting[d][s][i]) = e[1]
    BY <1>6, <1>7 DEF Placed, ToSet
  <2>2. DOMAIN waiting[d][s] = 1..Len(waiting[d][s])
    BY <1>1
  <2> QED
    BY <1>6, <1>7, <2>1, <2>2 DEF Placed, IsInjective
<1>8. IsFiniteSet(taken)
  <2> DEFINE f == [e \in taken |-> waiting[d][e[1]][e[2]]]
  <2>1. f \in [taken -> Coroutines]
    BY <1>1, <1>6
  <2>2. \A a, b \in taken : f[a] = f[b] => a = b
    <3> SUFFICES ASSUME NEW a \in taken, NEW b \in taken, f[a] = f[b] PROVE a = b
      OBVIOUS
    <3>1. b[1] \in Sockets /\ b[2] \in DOMAIN waiting[d][b[1]] /\ b = <<b[1], b[2]>> /\ a = <<a[1], a[2]>>
      BY <1>1, <1>6
    <3>2. b[1] = a[1] /\ b[2] = a[2]
      BY <1>7, <3>1
    <3> QED
      BY <3>1, <3>2
  <2>3. f \in Injection(taken, Coroutines)
    BY <2>1, <2>2 DEF Injection, IsInjective
  <2>4. IsFiniteSet(Coroutines)
    BY Numbers, FS_Interval
  <2> QED
    BY <2>3, <2>4, FS_Injection
<1>9. Cardinality(taken) \in Nat
  BY <1>8, FS_CardinalityType
<1>10. ASSUME NEW j \in DOMAIN order
       PROVE  frames[j] = waiting[d][order[j][1]][order[j][2]] /\ frames[j] \in Coroutines
  BY <1>1, <1>4, <1>5, <1>6
<1>11. frames \in Seq(Coroutines) /\ DOMAIN frames = DOMAIN order
  BY <1>4, <1>5, <1>9, <1>10
<1>12. IsInjective(frames)
  <2> SUFFICES ASSUME NEW j \in DOMAIN order, NEW k \in DOMAIN order, frames[j] = frames[k]
               PROVE  j = k
    BY <1>11 DEF IsInjective
  <2>1. /\ order[j] \in taken /\ order[k] \in taken
        /\ order[j] = <<order[j][1], order[j][2]>> /\ order[k] = <<order[k][1], order[k][2]>>
        /\ order[k][1] \in Sockets /\ order[k][2] \in DOMAIN waiting[d][order[k][1]]
    BY <1>1, <1>5, <1>6
  <2>2. order[k][1] = order[j][1] /\ order[k][2] = order[j][2]
    BY <1>7, <1>10, <2>1
  <2> QED
    BY <1>5, <2>1, <2>2
<1>13. \A c \in ToSet(frames) : \E s \in Sockets : c \in ToSet(waiting[d][s])
  BY <1>5, <1>6, <1>10, <1>11 DEF ToSet
<1>14. ASSUME NEW s \in Sockets
       PROVE  /\ waiting'[d][s] \in Seq(Coroutines) /\ IsInjective(waiting'[d][s])
              /\ ToSet(waiting'[d][s]) \subseteq ToSet(waiting[d][s]) \ ToSet(frames)
  <2> DEFINE w == waiting[d][s]
             n == count(s)
             r == SubSeq(w, n + 1, Len(w))
  <2>1. w \in Seq(Coroutines) /\ n \in 0..Len(w) /\ Len(w) \in Nat /\ waiting'[d][s] = r
    <3>1. w \in Seq(Coroutines) /\ Len(w) \in Nat
      BY <1>1
    <3>2. n \in 0..Len(w)
      BY <1>2
    <3>3. waiting'[d][s] = r
      BY <1>3
    <3> QED
      BY <3>1, <3>2, <3>3
  <2>2. IsInjective(w)
    BY DEF Placed
  <2> HIDE DEF w, n
  <2>3. /\ r \in Seq(Coroutines) /\ DOMAIN r = 1..(Len(w) - n)
        /\ \A m \in DOMAIN r : r[m] = w[n + m] /\ n + m \in DOMAIN w
    BY <2>1
  <2>4. IsInjective(r)
    BY <2>1, <2>2, <2>3 DEF IsInjective
  <2>5. ASSUME NEW m \in DOMAIN r, NEW j \in DOMAIN order, r[m] = frames[j] PROVE FALSE
    <3>1. waiting[d][order[j][1]][order[j][2]] = waiting[d][s][n + m] /\ n + m \in DOMAIN waiting[d][s]
      BY <1>10, <2>3, <2>5 DEF w
    <3>2. s = order[j][1] /\ n + m = order[j][2]
      BY <1>5, <1>7, <3>1
    <3>3. order[j][2] <= n
      BY <1>5, <1>6, <3>2 DEF n
    <3> QED
      BY <2>1, <2>3, <3>2, <3>3
  <2>6. ToSet(r) \subseteq ToSet(w) \ ToSet(frames)
    BY <1>11, <2>3, <2>5 DEF ToSet
  <2> QED
    BY <2>1, <2>3, <2>4, <2>6 DEF w
<1>15. waiting' \in [Directions -> [Sockets -> Seq(Coroutines)]]
  <2>1. waiting'[d] \in [Sockets -> Seq(Coroutines)]
    BY <1>3, <1>14
  <2>2. waiting' = [b \in Directions |-> waiting'[b]]
    BY <1>3 DEF CommitFrame, Typed
  <2> QED
    BY <1>3, <2>1, <2>2 DEF Typed
<1>16. ASSUME NEW b \in Directions \ {d}, NEW s \in Sockets
       PROVE  /\ IsInjective(waiting'[b][s])
              /\ ToSet(waiting'[b][s]) \subseteq ToSet(waiting[b][s]) \ ToSet(frames)
  <2>1. waiting'[b][s] = waiting[b][s]
    BY <1>3
  <2>2. \A c \in ToSet(waiting[b][s]) : c \notin ToSet(frames)
    BY <1>13 DEF Placed
  <2> QED
    BY <2>1, <2>2 DEF Placed
<1> QED
  BY <1>11, <1>12, <1>13, <1>14, <1>15, <1>16

\* What commit_frame and close do with those who wait: some go to the executor.
Handed ==
  /\ waiting' \in [Directions -> [Sockets -> Seq(Coroutines)]]
  /\ ready' \in Seq(Coroutines) /\ IsInjective(ready')
  /\ \A c \in ToSet(ready') : c \in ToSet(ready) \/ \E d \in Directions, s \in Sockets : c \in ToSet(waiting[d][s])
  /\ \A d \in Directions, s \in Sockets :
       /\ IsInjective(waiting'[d][s])
       /\ ToSet(waiting'[d][s]) \subseteq ToSet(waiting[d][s]) \ ToSet(ready')

LEMMA HandedKept ==
  ASSUME Typed, Placed, waiting' = waiting, ready' = ready
  PROVE  Handed
BY DEF Typed, Placed, Handed

LEMMA HandedList ==
  ASSUME Typed, Placed, NEW frames \in Seq(Coroutines), IsInjective(frames),
         \A c \in ToSet(frames) : \E d \in Directions, s \in Sockets : c \in ToSet(waiting[d][s]),
         waiting' \in [Directions -> [Sockets -> Seq(Coroutines)]],
         \A d \in Directions, s \in Sockets :
           /\ IsInjective(waiting'[d][s])
           /\ ToSet(waiting'[d][s]) \subseteq ToSet(waiting[d][s]) \ ToSet(frames),
         ready' = ready \o frames
  PROVE  Handed
<1>1. \A d \in Directions, s \in Sockets : ToSet(waiting[d][s]) \cap ToSet(ready) = {}
  BY DEF Placed
<1>2. ToSet(frames) \cap ToSet(ready) = {}
  BY <1>1
<1>3. /\ ready' \in Seq(Coroutines) /\ IsInjective(ready')
      /\ ToSet(ready') = ToSet(ready) \cup ToSet(frames)
  BY <1>2, ListConcat DEF Typed, Placed
<1> QED
  BY <1>1, <1>3 DEF Handed

LEMMA HandedPlaced ==
  ASSUME Typed, Placed, Handed, running' \in {running, Nobody},
         \A c \in Coroutines : pc'[c] = pc[c] \/ (c = running /\ pc'[c] # "unborn")
  PROVE  Placed'
<1>1. Nobody \notin Coroutines
  BY Numbers
<1>2. \A d \in Directions, s \in Sockets : ToSet(waiting[d][s]) \subseteq Coroutines
  BY DEF Typed, ToSet
<1>3. ToSet(ready') \subseteq Coroutines
  BY DEF Handed, ToSet
<1>4. IsInjective(ready') /\ running' \notin ToSet(ready')
  BY <1>1, <1>3 DEF Handed, Placed
<1>5. ASSUME NEW d \in Directions, NEW s \in Sockets, NEW c \in ToSet(waiting'[d][s])
      PROVE  /\ Socket(c) = s /\ pc'[c] \in Waits /\ Side(pc'[c]) = d
             /\ c # running' /\ c \notin ToSet(ready')
  <2>1. c \in ToSet(waiting[d][s]) /\ c \notin ToSet(ready') /\ c \in Coroutines
    BY <1>2, <1>5 DEF Handed
  <2>2. Socket(c) = s /\ pc[c] \in Waits /\ Side(pc[c]) = d /\ c # running
    BY <2>1 DEF Placed
  <2> QED
    BY <1>1, <2>1, <2>2
<1>6. ASSUME NEW c \in Coroutines, pc'[c] = "unborn"
      PROVE  c # running' /\ c \notin ToSet(ready')
  <2>1. pc[c] = "unborn" /\ c # Nobody
    BY <1>1, <1>6
  <2>2. c # running /\ c \notin ToSet(ready) /\ \A d \in Directions, s \in Sockets : c \notin ToSet(waiting[d][s])
    BY <2>1 DEF Placed, Waits
  <2> QED
    BY <2>1, <2>2 DEF Handed
<1> QED
  BY <1>4, <1>5, <1>6 DEF Placed, Handed, Socket

\* A coroutine that did not exist is put behind those that are ready.
LEMMA SpawnPlaced ==
  ASSUME Typed, Placed, NEW x \in Coroutines, pc[x] = "unborn", pc'[x] # "unborn",
         ready' = Append(ready, x), waiting' = waiting, running' = running,
         \A c \in Coroutines \ {x} : pc'[c] = pc[c] \/ (c = running /\ pc'[c] # "unborn")
  PROVE  Placed' /\ ready' \in Seq(Coroutines)
<1>1. x # running /\ x \notin ToSet(ready) /\ \A d \in Directions, s \in Sockets : x \notin ToSet(waiting[d][s])
  BY DEF Placed, Waits
<1>2. /\ ready' \in Seq(Coroutines) /\ IsInjective(ready')
      /\ ToSet(ready') = {x} \cup ToSet(ready)
  BY <1>1, ListAppend DEF Typed, Placed
<1>3. \A d \in Directions, s \in Sockets : ToSet(waiting[d][s]) \subseteq Coroutines
  BY DEF Typed, ToSet
<1>4. ASSUME NEW d \in Directions, NEW s \in Sockets, NEW c \in ToSet(waiting'[d][s])
      PROVE  /\ Socket(c) = s /\ pc'[c] \in Waits /\ Side(pc'[c]) = d
             /\ c # running' /\ c \notin ToSet(ready')
  BY <1>1, <1>2, <1>3, <1>4 DEF Placed
<1>5. ASSUME NEW c \in Coroutines, pc'[c] = "unborn"
      PROVE  c # running' /\ c \notin ToSet(ready')
  BY <1>1, <1>2, <1>5 DEF Placed
<1> QED
  BY <1>1, <1>2, <1>4, <1>5 DEF Placed, Socket

\* A running coroutine waits.
LEMMA SuspendPlaced ==
  ASSUME Typed, Placed, NEW c \in Coroutines, running = c, NEW d \in Directions, NEW label \in Waits,
         Side(label) = d, Socket(c) \in Sockets, Suspend(c, d, label)
  PROVE  /\ Placed' /\ waiting' \in [Directions -> [Sockets -> Seq(Coroutines)]]
         /\ bits' \in [Directions -> SUBSET Sockets]
         /\ pc' \in [Coroutines -> Labels] /\ pc'[c] = label
         /\ \A e \in Coroutines \ {c} : pc'[e] = pc[e]
         /\ bits' = [bits EXCEPT ![d] = @ \cup {Socket(c)}]
         /\ \A b \in Directions, s \in Sockets : waiting'[b][s] # <<>> => waiting[b][s] # <<>> \/ (b = d /\ s = Socket(c))
<1>1. /\ waiting' = [waiting EXCEPT ![d][Socket(c)] = Append(@, c)]
      /\ bits' = [bits EXCEPT ![d] = @ \cup {Socket(c)}]
      /\ running' = Nobody /\ pc' = [pc EXCEPT ![c] = label] /\ ready' = ready
  BY DEF Suspend, PostFrame, Goto
<1> DEFINE q == waiting[d][Socket(c)]
<1>2. /\ pc' \in [Coroutines -> Labels] /\ pc'[c] = label
      /\ \A e \in Coroutines \ {c} : pc'[e] = pc[e]
  BY <1>1 DEF Typed, Waits, Labels, Active
<1>3. q \in Seq(Coroutines) /\ c \notin ToSet(q) /\ IsInjective(q)
  BY DEF Typed, Placed
<1>4. /\ Append(q, c) \in Seq(Coroutines) /\ ToSet(Append(q, c)) = {c} \cup ToSet(q)
      /\ IsInjective(Append(q, c))
  BY <1>3, ListAppend
<1> HIDE DEF q
<1>5. /\ waiting'[d][Socket(c)] = Append(q, c)
      /\ \A b \in Directions, s \in Sockets : b # d \/ s # Socket(c) => waiting'[b][s] = waiting[b][s]
      /\ waiting' \in [Directions -> [Sockets -> Seq(Coroutines)]]
  <2>1. waiting' = [waiting EXCEPT ![d] = [waiting[d] EXCEPT ![Socket(c)] = Append(q, c)]]
    BY <1>1 DEF q
  <2>2. [waiting[d] EXCEPT ![Socket(c)] = Append(q, c)] \in [Sockets -> Seq(Coroutines)]
    BY <1>4 DEF Typed
  <2> QED
    BY <2>1, <2>2 DEF Typed
<1>6. bits' \in [Directions -> SUBSET Sockets]
  BY <1>1 DEF Typed
<1>7. Nobody \notin Coroutines /\ ToSet(ready) \subseteq Coroutines
      /\ \A b \in Directions, s \in Sockets : ToSet(waiting[b][s]) \subseteq Coroutines
  <2>1. Nobody \notin Coroutines
    BY Numbers
  <2>2. ToSet(ready) \subseteq Coroutines
    BY DEF Typed, ToSet
  <2>3. \A b \in Directions, s \in Sockets : ToSet(waiting[b][s]) \subseteq Coroutines
    BY DEF Typed, ToSet
  <2> QED
    BY <2>1, <2>2, <2>3
<1>8. ASSUME NEW b \in Directions, NEW s \in Sockets
      PROVE  /\ IsInjective(waiting'[b][s])
             /\ \A e \in ToSet(waiting'[b][s]) :
                  /\ Socket(e) = s /\ pc'[e] \in Waits /\ Side(pc'[e]) = b
                  /\ e # running' /\ e \notin ToSet(ready')
  <2>1. /\ IsInjective(waiting[b][s])
        /\ \A e \in ToSet(waiting[b][s]) :
              /\ Socket(e) = s /\ pc[e] \in Waits /\ Side(pc[e]) = b
              /\ e # c /\ e \notin ToSet(ready) /\ e \in Coroutines
    BY <1>7 DEF Placed
  <2>2. CASE b = d /\ s = Socket(c)
    <3>1. ToSet(waiting'[b][s]) = {c} \cup ToSet(waiting[b][s]) /\ IsInjective(waiting'[b][s])
      BY <1>4, <1>5, <2>2 DEF q
    <3>2. c \notin ToSet(ready)
      BY DEF Placed
    <3> QED
      BY <1>1, <1>2, <1>7, <2>1, <2>2, <3>1, <3>2
  <2>3. CASE b # d \/ s # Socket(c)
    BY <1>1, <1>2, <1>5, <1>7, <2>1, <2>3
  <2> QED
    BY <2>2, <2>3
<1>9. ASSUME NEW e \in Coroutines, pc'[e] = "unborn"
      PROVE  e # running' /\ e \notin ToSet(ready')
  BY <1>1, <1>2, <1>7, <1>9 DEF Placed, Waits
<1>10. IsInjective(ready') /\ running' \notin ToSet(ready')
  BY <1>1, <1>7 DEF Placed
<1>11. Placed'
  BY <1>8, <1>9, <1>10 DEF Placed, Socket
<1> QED
  BY <1>1, <1>2, <1>5, <1>6, <1>11

LEMMA ResumePlaced ==
  ASSUME Typed, Placed, Resume
  PROVE  Placed' /\ ready' \in Seq(Coroutines) /\ running' \in Coroutines
<1>1. /\ running = Nobody /\ ready # <<>> /\ running' = Head(ready) /\ ready' = Tail(ready)
      /\ waiting' = waiting /\ pc' = pc
  BY DEF Resume, Up, selectVars
<1>2. /\ Head(ready) \in ToSet(ready) /\ Tail(ready) \in Seq(Coroutines)
      /\ ToSet(Tail(ready)) = ToSet(ready) \ {Head(ready)} /\ IsInjective(Tail(ready))
  BY <1>1, ListTail DEF Typed, Placed
<1>3. Head(ready) \in Coroutines
  BY <1>2 DEF ToSet, Typed
<1> QED
  BY <1>1, <1>2, <1>3 DEF Placed, Socket

\* close hands over those whom it cancels, and forgets the socket for reading.
LEMMA CloseHands ==
  ASSUME Typed, Placed, Watched, NEW s \in Sockets, s # Acceptor, Close(s)
  PROVE  /\ Handed /\ Watched' /\ bits' \in [Directions -> SUBSET Sockets]
         /\ open' = open \ {s} /\ nonBlocking' = nonBlocking \ {s}
         /\ open' \subseteq Sockets /\ Acceptor \in open'
<1> DEFINE gone(d) == d \in CancelledAt(s)
           out == IF gone("out") THEN Reverse(waiting["out"][s]) ELSE <<>>
           frames == CancelledFrames(s)
<1>1. /\ waiting' = [d \in Directions |-> IF gone(d) THEN [waiting[d] EXCEPT ![s] = <<>>] ELSE waiting[d]]
      /\ bits' = [d \in Directions |-> IF gone(d) THEN bits[d] \ {s} ELSE bits[d]]
      /\ ready' = ready \o frames /\ open' = open \ {s} /\ nonBlocking' = nonBlocking \ {s}
  BY DEF Close, Cancel
<1>2. frames = Reverse(waiting["in"][s]) \o out
  BY DEF CancelledFrames
<1>3. gone("in") /\ "in" \in Directions /\ "out" \in Directions
  BY DEF CancelledAt, Directions
<1>4. \A d \in Directions, u \in Sockets : waiting[d][u] \in Seq(Coroutines) /\ IsInjective(waiting[d][u])
  BY DEF Typed, Placed
<1>5. \A d \in Directions :
        /\ Reverse(waiting[d][s]) \in Seq(Coroutines)
        /\ ToSet(Reverse(waiting[d][s])) = ToSet(waiting[d][s])
        /\ IsInjective(Reverse(waiting[d][s]))
  BY <1>4, ListReverse
<1>6. out \in Seq(Coroutines) /\ IsInjective(out) /\ ToSet(out) = IF gone("out") THEN ToSet(waiting["out"][s]) ELSE {}
  <2>1. CASE gone("out")
    <3>1. out = Reverse(waiting["out"][s])
      BY <2>1
    <3> QED
      BY <1>3, <1>5, <2>1, <3>1
  <2>2. CASE ~gone("out")
    <3>1. out = <<>>
      BY <2>2
    <3> QED
      BY <2>2, <3>1, ListEmpty
  <2> QED
    BY <2>1, <2>2
<1>7. ToSet(waiting["in"][s]) \cap ToSet(waiting["out"][s]) = {}
  <2> SUFFICES ASSUME NEW c \in ToSet(waiting["in"][s]), c \in ToSet(waiting["out"][s]) PROVE FALSE
    OBVIOUS
  <2>1. Side(pc[c]) = "in" /\ Side(pc[c]) = "out"
    BY <1>3 DEF Placed
  <2> QED
    BY <2>1
<1> HIDE DEF frames, out, gone
<1>8. /\ frames \in Seq(Coroutines) /\ IsInjective(frames)
      /\ ToSet(frames) = ToSet(waiting["in"][s]) \cup IF gone("out") THEN ToSet(waiting["out"][s]) ELSE {}
  BY <1>2, <1>3, <1>5, <1>6, <1>7, ListConcat
<1>9. ASSUME NEW d \in Directions, NEW u \in Sockets
      PROVE  waiting'[d][u] = IF gone(d) /\ u = s THEN <<>> ELSE waiting[d][u]
  BY <1>1 DEF Typed
<1>10. ASSUME NEW d \in Directions, NEW u \in Sockets
       PROVE  /\ IsInjective(waiting'[d][u])
              /\ ToSet(waiting'[d][u]) \subseteq ToSet(waiting[d][u]) \ ToSet(frames)
  <2>1. CASE gone(d) /\ u = s
    BY <1>9, <2>1, ListEmpty
  <2>2. CASE ~(gone(d) /\ u = s)
    <3>1. waiting'[d][u] = waiting[d][u]
      BY <1>9, <2>2
    <3>2. ASSUME NEW c \in ToSet(waiting[d][u]), c \in ToSet(frames) PROVE FALSE
      <4>1. PICK b \in Directions : c \in ToSet(waiting[b][s]) /\ gone(b)
        BY <1>3, <1>8, <3>2
      <4>2. Socket(c) = s /\ Socket(c) = u /\ Side(pc[c]) = d /\ Side(pc[c]) = b
        BY <4>1 DEF Placed
      <4> QED
        BY <2>2, <4>1, <4>2
    <3> QED
      BY <1>4, <3>1, <3>2
  <2> QED
    BY <2>1, <2>2
<1>11. waiting' \in [Directions -> [Sockets -> Seq(Coroutines)]]
  <2>1. ASSUME NEW d \in Directions
        PROVE  [waiting[d] EXCEPT ![s] = <<>>] \in [Sockets -> Seq(Coroutines)] /\ waiting[d] \in [Sockets -> Seq(Coroutines)]
    BY DEF Typed
  <2> QED
    BY <1>1, <2>1
<1>12. Handed
  BY <1>1, <1>3, <1>8, <1>10, <1>11, HandedList
<1>13. bits' \in [Directions -> SUBSET Sockets]
  BY <1>1 DEF Typed
<1>14. Watched'
  <2>1. bits'["in"] \subseteq open'
    BY <1>1, <1>3 DEF Watched
  <2>2. ASSUME NEW d \in Directions, NEW u \in Sockets, waiting'[d][u] # <<>>
        PROVE  u \in bits'[d]
    BY <1>1, <1>9, <2>2 DEF Watched, Waited
  <2> QED
    BY <2>1, <2>2 DEF Watched, Waited
<1> QED
  BY <1>1, <1>12, <1>13, <1>14 DEF Typed

-----------------------------------------------------------------------------
(* The steps of a coroutine *)

Starting == {"connect", "connecting", "spawnHelper"}

\* Who sends, receives or ends can do all of this, and has a socket.
LEMMA ActiveRole ==
  ASSUME Typed, NEW c \in Coroutines,
         pc[c] \in Active \cup {"connecting"}, pc[c] # "done" \/ c # Closer
  PROVE  Active \subseteq Role(c) /\ Socket(c) \in Sockets /\ Socket(c) # Acceptor /\ c # Acceptor /\ c # Closer
<1>1. pc[c] \in Role(c)
  BY DEF Typed
<1>2. c # Acceptor /\ c # Closer
  <2>1. c # Acceptor
    BY <1>1 DEF Role, Active
  <2>2. c # Closer
    <3> SUFFICES ASSUME c = Closer PROVE FALSE
      OBVIOUS
    <3>1. c # Acceptor /\ c \notin Clients /\ c \notin Sessions /\ c # Helper
      BY Numbers
    <3>2. pc[c] \in {"unborn", "closeOther", "done"}
      BY <1>1, <3>1 DEF Role
    <3> QED
      BY <3>2 DEF Active
  <2> QED
    BY <2>1, <2>2
<1>3. c \in Clients \/ c \in Sessions \/ c = Helper
  BY <1>2, Numbers
<1>4. ASSUME c \in Clients PROVE Active \subseteq Role(c)
  BY <1>2, <1>4 DEF Role
<1>5. ASSUME c \in Sessions PROVE Active \subseteq Role(c)
  <2>1. c \notin Clients
    BY <1>5, Numbers
  <2> QED
    BY <1>2, <1>5, <2>1 DEF Role
<1>6. ASSUME c = Helper PROVE Active \subseteq Role(c)
  <2>1. c \notin Clients /\ c \notin Sessions
    BY <1>6, Numbers
  <2>2. program.shared
    BY <1>1, <1>2, <1>6, <2>1 DEF Role, Active
  <2> QED
    BY <1>2, <1>6, <2>1, <2>2 DEF Role
<1>7. Active \subseteq Role(c)
  BY <1>3, <1>4, <1>5, <1>6
<1> QED
  BY <1>2, <1>7, SocketNumbers

\* The helper exists only if the socket is shared.
LEMMA HelperShared ==
  ASSUME Typed, pc[Helper] # "unborn"
  PROVE  program.shared
<1>1. Helper # Acceptor /\ Helper \notin Clients /\ Helper \notin Sessions /\ Helper \in Coroutines
  BY Numbers
<1>2. pc[Helper] \in Role(Helper)
  BY <1>1 DEF Typed
<1> QED
  BY <1>1, <1>2 DEF Role

LEMMA BirthsKept ==
  ASSUME Typed, Placed, Births, NEW c \in Coroutines, running = c,
         \A e \in Coroutines \ {c} : pc'[e] = pc[e], pc'[c] \notin {"unborn", "connect"},
         pc'[c] \in Starting => pc[c] \in Starting, backlog' = backlog, connected' = connected
  PROVE  Births'
<1>1. pc[c] # "unborn"
  BY DEF Placed
<1>2. \A i \in Clients : pc[Session(i)] = "unborn" => pc'[Session(i)] = "unborn"
  BY <1>1, SessionNumbers, Numbers
<1>3. pc[Helper] = "unborn" => pc'[Helper] = "unborn"
  BY <1>1, Numbers
<1>4. pc'[1] \in Starting => pc[1] \in Starting
  BY Numbers
<1>5. \A i \in Clients : pc'[i] = "connect" => pc[i] = "connect"
  BY Numbers
<1> QED
  BY <1>2, <1>3, <1>4, <1>5 DEF Births, Session, Starting

\* A running coroutine leaves the mode of every other socket alone.
LEMMA ModesKept ==
  ASSUME Typed, Placed, Modes, NEW c \in Coroutines, running = c,
         \A e \in Coroutines \ {c} : pc'[e] = pc[e], program' = program, open' \subseteq open,
         \A u \in open' : u # Socket(c) /\ u \in nonBlocking => u \in nonBlocking',
         pc'[c] \in {"sending", "receiving"} => Socket(c) \in nonBlocking'
  PROVE  Modes'
<1> SUFFICES ASSUME NEW e \in Coroutines, e # c, pc[e] \in {"sending", "receiving"}, Socket(e) \in open',
                    ~(program.shared /\ Socket(e) = 1)
             PROVE  Socket(e) \in nonBlocking'
  BY DEF Modes, Socket
<1>1. Socket(e) \in nonBlocking
  BY DEF Modes
<1>2. Socket(e) # Socket(c)
  <2> SUFFICES ASSUME Socket(e) = Socket(c) PROVE FALSE
    OBVIOUS
  <2>1. Helper \in {e, c} /\ Socket(e) = 1
    BY SocketNumbers
  <2>2. pc[c] # "unborn"
    BY DEF Placed
  <2>3. pc[Helper] # "unborn"
    BY <2>1, <2>2
  <2> QED
    BY <2>1, <2>3, HelperShared
<1> QED
  BY <1>1, <1>2

\* A running coroutine goes on, or ends; others may go to the executor.
LEMMA HandedControl ==
  ASSUME Control, NEW c \in Coroutines, running = c, NEW l \in Labels, Goto(c, l), l \in Role(c),
         l \notin {"unborn", "connect"}, l \in Starting => pc[c] \in Starting,
         Handed, Watched', bits' \in [Directions -> SUBSET Sockets],
         program' = program, backlog' = backlog, connected' = connected,
         open' \subseteq open, Acceptor \in open', running' \in {running, Nobody},
         \A u \in open' : u # Socket(c) /\ u \in nonBlocking => u \in nonBlocking',
         l \in {"sending", "receiving"} => Socket(c) \in nonBlocking'
  PROVE  Control'
<1>1. Typed /\ Placed /\ Births /\ Watched /\ Modes
  BY DEF Control
<1>2. pc' \in [Coroutines -> Labels] /\ pc'[c] = l /\ \A e \in Coroutines \ {c} : pc'[e] = pc[e]
  BY <1>1, Gone
<1>3. Typed'
  <2>1. ASSUME NEW e \in Coroutines PROVE pc'[e] \in Role(e)'
    <3>1. Role(e)' = Role(e)
      BY DEF Role, Helper, Sessions, Session, Clients, Acceptor
    <3> QED
      BY <1>1, <1>2, <3>1 DEF Typed
  <2>2. open' \subseteq Sockets /\ running' \in Coroutines \cup {Nobody}
    BY <1>1 DEF Typed
  <2>3. waiting' \in [Directions -> [Sockets -> Seq(Coroutines)]] /\ ready' \in Seq(Coroutines)
    BY DEF Handed
  <2>4. program' \in Programs /\ backlog' \in Seq(Clients) /\ connected' \subseteq Clients
    BY <1>1 DEF Typed
  <2> QED
    BY <1>2, <2>1, <2>2, <2>3, <2>4 DEF Typed
<1>4. Placed'
  BY <1>1, <1>2, HandedPlaced
<1>5. Births'
  BY <1>1, <1>2, BirthsKept
<1>6. Modes'
  BY <1>1, <1>2, ModesKept
<1> QED
  BY <1>3, <1>4, <1>5, <1>6 DEF Control

\* Nobody else is concerned.
LEMMA LocalControl ==
  ASSUME Control, NEW c \in Coroutines, running = c, NEW l \in Labels, Goto(c, l), l \in Role(c),
         l \notin {"unborn", "connect"}, l \in Starting => pc[c] \in Starting,
         UNCHANGED <<program, selectVars, open, backlog, connected, ready>>, running' \in {running, Nobody},
         \A u \in open : u # Socket(c) /\ u \in nonBlocking => u \in nonBlocking',
         l \in {"sending", "receiving"} => Socket(c) \in nonBlocking'
  PROVE  Control'
<1>1. Handed
  BY HandedKept DEF Control, selectVars
<1>2. Watched' /\ bits' \in [Directions -> SUBSET Sockets]
  BY DEF Control, Watched, Waited, Typed, selectVars
<1>3. Acceptor \in open
  BY DEF Control, Typed
<1> QED
  BY <1>1, <1>2, <1>3, HandedControl

\* A running coroutine waits at its socket.
LEMMA SuspendControl ==
  ASSUME Control, NEW c \in Coroutines, running = c, NEW d \in Directions, NEW l \in Waits, Side(l) = d,
         l \in Role(c), Socket(c) \in Sockets, Suspend(c, d, l), Socket(c) \in open \/ d = "out",
         l = "connecting" => pc[c] \in Starting,
         UNCHANGED <<program, open, backlog, connected>>,
         \A u \in open : u # Socket(c) /\ u \in nonBlocking => u \in nonBlocking',
         l \in {"sending", "receiving"} => Socket(c) \in nonBlocking'
  PROVE  Control'
<1>1. Typed /\ Placed /\ Births /\ Watched /\ Modes
  BY DEF Control
<1>2. /\ Placed' /\ waiting' \in [Directions -> [Sockets -> Seq(Coroutines)]]
      /\ bits' \in [Directions -> SUBSET Sockets]
      /\ pc' \in [Coroutines -> Labels] /\ pc'[c] = l
      /\ \A e \in Coroutines \ {c} : pc'[e] = pc[e]
      /\ bits' = [bits EXCEPT ![d] = @ \cup {Socket(c)}]
      /\ \A b \in Directions, s \in Sockets : waiting'[b][s] # <<>> => waiting[b][s] # <<>> \/ (b = d /\ s = Socket(c))
  BY <1>1, SuspendPlaced
<1>3. running' = Nobody /\ ready' = ready
  BY DEF Suspend
<1>4. Typed'
  <2>1. ASSUME NEW e \in Coroutines PROVE pc'[e] \in Role(e)'
    <3>1. Role(e)' = Role(e)
      BY DEF Role, Helper, Sessions, Session, Clients, Acceptor
    <3>2. pc'[e] \in Role(e)
      BY <1>1, <1>2 DEF Typed
    <3> QED
      BY <3>1, <3>2
  <2>2. /\ program' \in Programs /\ open' \subseteq Sockets /\ Acceptor \in open'
        /\ backlog' \in Seq(Clients) /\ connected' \subseteq Clients
        /\ ready' \in Seq(Coroutines) /\ running' \in Coroutines \cup {Nobody}
    BY <1>1, <1>3 DEF Typed
  <2> QED
    BY <1>2, <2>1, <2>2 DEF Typed
<1>5. Births'
  <2>1. l \notin {"unborn", "connect"} /\ (l \in Starting => l = "connecting")
    BY DEF Waits, Starting
  <2> QED
    BY <1>1, <1>2, <2>1, BirthsKept
<1>6. Modes'
  BY <1>1, <1>2, ModesKept
<1>7. Watched'
  <2>1. /\ \A b \in Directions : bits[b] \subseteq bits'[b] /\ (b = d => Socket(c) \in bits'[b])
        /\ bits'["in"] \subseteq bits["in"] \cup (IF d = "in" THEN {Socket(c)} ELSE {})
    BY <1>1, <1>2 DEF Typed, Directions
  <2>2. ASSUME NEW b \in Directions, NEW s \in Sockets, waiting'[b][s] # <<>> PROVE s \in bits'[b]
    BY <1>1, <1>2, <2>1, <2>2 DEF Watched, Waited
  <2>3. bits'["in"] \subseteq open'
    BY <1>1, <2>1 DEF Watched
  <2> QED
    BY <2>2, <2>3 DEF Watched, Waited
<1> QED
  BY <1>2, <1>4, <1>5, <1>6, <1>7 DEF Control

\* The end of a coroutine, and what it closes.
LEMMA EndControl ==
  ASSUME Control, NEW c \in Coroutines, End(c)
  PROVE  Control'
<1>1. Typed /\ Placed /\ Births /\ Watched /\ Modes
  BY DEF Control
<1>2. running = c /\ pc[c] \in {"return", "throw"} /\ running' = Nobody
      /\ UNCHANGED <<program, backlog, connected>>
  BY DEF End, At
<1>3. Active \subseteq Role(c) /\ Socket(c) \in Sockets /\ Socket(c) # Acceptor
  BY <1>1, <1>2, ActiveRole DEF Active
<1>4. PICK l \in {"done", "failed"} : Goto(c, l)
  BY DEF End
<1>5. l \in Active /\ l \in Labels /\ l \notin {"unborn", "connect", "sending", "receiving"} /\ l \notin Starting
  BY DEF Active, Labels, Starting
<1>6. CASE Close(Socket(c))
  <2>1. /\ Handed /\ Watched' /\ bits' \in [Directions -> SUBSET Sockets]
        /\ open' = open \ {Socket(c)} /\ nonBlocking' = nonBlocking \ {Socket(c)}
        /\ open' \subseteq Sockets /\ Acceptor \in open'
    BY <1>1, <1>3, <1>6, CloseHands
  <2> QED
    BY <1>2, <1>3, <1>4, <1>5, <2>1, HandedControl
<1>7. CASE UNCHANGED <<selectVars, ready, open, nonBlocking>>
  BY <1>2, <1>3, <1>4, <1>5, <1>7, LocalControl
<1> QED
  BY <1>6, <1>7 DEF End

LEMMA CloseOtherControl ==
  ASSUME Control, CloseOther
  PROVE  Control'
<1>1. Typed /\ Placed /\ Births /\ Watched /\ Modes
  BY DEF Control
<1>2. running = Closer /\ running' = Nobody /\ Goto(Closer, "done") /\ UNCHANGED <<program, backlog, connected>>
  BY DEF CloseOther, At
<1>3. Closer \in Coroutines /\ "done" \in Role(Closer) /\ 1 \in Sockets /\ 1 # Acceptor
  <2>1. Closer \in Coroutines /\ Closer # Acceptor /\ Closer \notin Clients /\ Closer \notin Sessions /\ Closer # Helper
    BY Numbers
  <2> QED
    BY <2>1, Numbers DEF Role
<1>4. "done" \in Labels /\ "done" \notin {"unborn", "connect", "sending", "receiving"} /\ "done" \notin Starting
  BY DEF Active, Labels, Starting
<1>5. CASE Close(1)
  <2>1. /\ Handed /\ Watched' /\ bits' \in [Directions -> SUBSET Sockets]
        /\ open' = open \ {1} /\ nonBlocking' = nonBlocking \ {1}
        /\ open' \subseteq Sockets /\ Acceptor \in open'
    BY <1>1, <1>3, <1>5, CloseHands
  <2>2. \A u \in open' : u \in nonBlocking => u \in nonBlocking'
    BY <2>1
  <2> QED
    BY <1>2, <1>3, <1>4, <2>1, <2>2, HandedControl
<1>6. CASE UNCHANGED <<selectVars, ready, open, nonBlocking>>
  BY <1>2, <1>3, <1>4, <1>6, LocalControl
<1> QED
  BY <1>5, <1>6 DEF CloseOther

\* The steps of a call keep it.
LEMMA OperationControl ==
  ASSUME Control, NEW c \in Coroutines, OperationStep(c)
  PROVE  Control'
<1>1. Typed /\ Placed /\ Births /\ Watched /\ Modes
  BY DEF Control
<1>2. ASSUME running = c, pc[c] \in {"next", "send", "sending", "receive", "receiving", "connecting"}
      PROVE  Active \subseteq Role(c) /\ Socket(c) \in Sockets
  BY <1>1, <1>2, ActiveRole DEF Active
<1>3. ASSUME NEW l \in {"next", "send", "receive", "return", "throw", "failed"},
             At(c, pc[c]), pc[c] \in {"next", "send", "sending", "receive", "receiving", "connecting"}, Goto(c, l),
             UNCHANGED <<program, selectVars, open, backlog, connected, ready, running>>,
             \A u \in open : u # Socket(c) /\ u \in nonBlocking => u \in nonBlocking'
      PROVE  Control'
  <2>1. l \in Active /\ l \in Labels /\ l \notin {"unborn", "connect", "sending", "receiving"} /\ l \notin Starting
    BY DEF Active, Labels, Starting
  <2>2. running = c /\ l \in Role(c)
    BY <1>2, <1>3, <2>1 DEF At
  <2> QED
    BY <1>3, <2>1, <2>2, LocalControl
<1>4. ASSUME NEW l \in {"sending", "receiving"}, At(c, "send") \/ At(c, "receive"), Goto(c, l), SaveMode(c),
             UNCHANGED <<program, selectVars, open, backlog, connected, ready, running>>
      PROVE  Control'
  <2>1. l \in Active /\ l \in Labels /\ l \notin {"unborn", "connect"} /\ l \notin Starting
    BY DEF Active, Labels, Starting
  <2>2. running = c /\ l \in Role(c)
    BY <1>2, <1>4, <2>1 DEF At
  <2>3. Socket(c) \in nonBlocking' /\ \A u \in open : u \in nonBlocking => u \in nonBlocking'
    BY <1>4 DEF SaveMode
  <2> QED
    BY <1>4, <2>1, <2>2, <2>3, LocalControl
<1>5. ASSUME At(c, pc[c]), Restored(c, previous[c]) = nonBlocking'
      PROVE  \A u \in open : u # Socket(c) /\ u \in nonBlocking => u \in nonBlocking'
  BY <1>5 DEF Restored
<1>6. ASSUME NEW code, Fails(c, code) PROVE \E l \in {"return", "throw", "failed"} : Goto(c, l)
  BY <1>6 DEF Fails, GivesUp, Rethrows, Escapes
<1>7. CASE EnterSend(c)
  <2>1. At(c, "send") /\ UNCHANGED <<program, selectVars, open, backlog, connected, ready, running>>
    BY <1>7 DEF EnterSend
  <2>2. CASE SaveMode(c) /\ Goto(c, "sending")
    BY <1>4, <2>1, <2>2
  <2>3. CASE Fails(c, "bad_file_descriptor") /\ nonBlocking' = nonBlocking
    BY <1>3, <1>6, <2>1, <2>3 DEF At
  <2> QED
    BY <1>7, <2>2, <2>3 DEF EnterSend
<1>8. CASE Send(c)
  <2>1. /\ At(c, "sending") /\ UNCHANGED <<program, selectVars, open, backlog, connected, ready, running>>
        /\ nonBlocking' = Restored(c, previous[c])
        /\ Goto(c, "next") \/ Goto(c, "send")
    BY <1>8 DEF Send, loopVars
  <2> QED
    BY <1>3, <1>5, <2>1 DEF At
<1>9. CASE SendWaits(c)
  <2>1. /\ At(c, "sending") /\ Socket(c) \in nonBlocking /\ Suspend(c, "out", "sending")
        /\ UNCHANGED <<program, open, backlog, connected, nonBlocking>>
    BY <1>9 DEF SendWaits, kernelVars
  <2>2. /\ "out" \in Directions /\ "sending" \in Waits /\ Side("sending") = "out" /\ "sending" \in Active
        /\ "sending" \notin Starting
    BY DEF Directions, Waits, Side, Active, Starting
  <2>3. running = c /\ Active \subseteq Role(c) /\ Socket(c) \in Sockets
    BY <1>2, <2>1 DEF At
  <2> QED
    BY <2>1, <2>2, <2>3, SuspendControl
<1>10. CASE SendFails(c)
  <2>1. /\ At(c, "sending") /\ \E code \in ResetCodes : Fails(c, code)
        /\ UNCHANGED <<program, selectVars, open, backlog, connected, ready, running, nonBlocking>>
    BY <1>10 DEF SendFails, kernelVars
  <2> QED
    BY <1>3, <1>6, <2>1 DEF At
<1>11. CASE EnterReceive(c)
  <2>1. At(c, "receive") /\ UNCHANGED <<program, selectVars, open, backlog, connected, ready, running>>
    BY <1>11 DEF EnterReceive
  <2>2. CASE SaveMode(c) /\ Goto(c, "receiving")
    BY <1>4, <2>1, <2>2
  <2>3. CASE Fails(c, "bad_file_descriptor") /\ nonBlocking' = nonBlocking
    BY <1>3, <1>6, <2>1, <2>3 DEF At
  <2> QED
    BY <1>11, <2>2, <2>3 DEF EnterReceive
<1>12. ASSUME NEW field, Delivered(c, field) PROVE \E l \in {"next", "failed"} : Goto(c, l)
  BY <1>12 DEF Delivered, Escapes
<1>13. CASE Receive(c)
  <2>1. /\ At(c, "receiving") /\ UNCHANGED <<program, selectVars, open, backlog, connected, ready, running>>
        /\ nonBlocking' = Restored(c, previous[c])
    BY <1>13 DEF Receive
  <2>2. \E l \in {"next", "failed", "receive"} : Goto(c, l)
    <3>1. PICK n \in 1..Len(wire[Socket(c)]) :
            LET all == got[c] \o SubSeq(wire[Socket(c)], 1, n)
            IN IF Len(all) >= want[c]
               THEN Consume(c, buffer[c] \o all, want[c])
               ELSE Goto(c, "receive")
      BY <1>13 DEF Receive
    <3> QED
      BY <1>12, <3>1 DEF Consume
  <2> QED
    BY <1>3, <1>5, <2>1, <2>2 DEF At
<1>14. CASE ReceiveEnd(c)
  <2>1. /\ At(c, "receiving") /\ UNCHANGED <<program, selectVars, open, backlog, connected, ready, running>>
        /\ nonBlocking' = Restored(c, previous[c]) /\ Fails(c, "connection_aborted")
    BY <1>14 DEF ReceiveEnd
  <2> QED
    BY <1>3, <1>5, <1>6, <2>1 DEF At
<1>15. CASE ReceiveWaits(c)
  <2>1. /\ At(c, "receiving") /\ Socket(c) \in nonBlocking /\ Suspend(c, "in", "receiving")
        /\ Socket(c) \in open
        /\ UNCHANGED <<program, open, backlog, connected, nonBlocking>>
    BY <1>15 DEF ReceiveWaits, kernelVars, Undisturbed
  <2>2. /\ "in" \in Directions /\ "receiving" \in Waits /\ Side("receiving") = "in" /\ "receiving" \in Active
        /\ "receiving" \notin Starting
    BY DEF Directions, Waits, Side, Active, Starting
  <2>3. running = c /\ Active \subseteq Role(c) /\ Socket(c) \in Sockets
    BY <1>2, <2>1 DEF At
  <2> QED
    BY <2>1, <2>2, <2>3, SuspendControl
<1>16. CASE Disturbed(c)
  <2>1. /\ \E label \in {"connecting", "sending", "receiving"} : At(c, label)
        /\ Goto(c, "throw") /\ UNCHANGED <<program, selectVars, open, backlog, connected, ready, running, nonBlocking>>
    BY <1>16 DEF Disturbed, loopVars, kernelVars
  <2> QED
    BY <1>3, <2>1 DEF At
<1>17. CASE Return(c)
  <2>1. At(c, "next") /\ Goto(c, "return") /\ UNCHANGED <<program, selectVars, open, backlog, connected, ready, running, nonBlocking>>
    BY <1>17 DEF Return, loopVars, kernelVars
  <2> QED
    BY <1>3, <2>1 DEF At
<1>18. CASE Write(c)
  <2>1. At(c, "next") /\ Goto(c, "send") /\ UNCHANGED <<program, selectVars, open, backlog, connected, ready, running, nonBlocking>>
    BY <1>18 DEF Write, loopVars, kernelVars
  <2> QED
    BY <1>3, <2>1 DEF At
<1>19. CASE Read(c)
  <2>1. At(c, "next") /\ UNCHANGED <<program, selectVars, open, backlog, connected, ready, running, nonBlocking>>
    BY <1>19 DEF Read, loopVars, kernelVars
  <2>2. \E l \in {"next", "failed", "receive"} : Goto(c, l)
    BY <1>12, <1>19 DEF Read, Consume
  <2> QED
    BY <1>3, <2>1, <2>2 DEF At
<1>20. CASE End(c)
  BY <1>1, <1>20, EndControl
<1>21. CASE ReceiveFails(c)
  <2>1. /\ At(c, "receiving") /\ \E code \in ResetCodes : Fails(c, code)
        /\ UNCHANGED <<program, selectVars, open, backlog, connected, ready, running, nonBlocking>>
    BY <1>21 DEF ReceiveFails, kernelVars
  <2> QED
    BY <1>3, <1>6, <2>1 DEF At
<1> QED
  BY <1>7, <1>8, <1>9, <1>10, <1>11, <1>13, <1>14, <1>15, <1>16, <1>17, <1>18, <1>19, <1>20, <1>21
  DEF OperationStep

-----------------------------------------------------------------------------
(* Connections *)

\* A connection waits to be accepted, the first of its client.
LEMMA ConnectedOnce ==
  ASSUME Typed, Births, NEW c \in Clients, c \notin connected,
         connected' = connected \cup {c}, backlog' = Append(backlog, c)
  PROVE  /\ connected' \subseteq Clients /\ backlog' \in Seq(Clients)
         /\ IsInjective(backlog') /\ ToSet(backlog') \subseteq connected'
         /\ \A i \in Clients : i \notin connected' \/ i \in ToSet(backlog') => pc[Session(i)] = "unborn"
<1>1. c \notin ToSet(backlog)
  BY DEF Births
<1>2. /\ backlog' \in Seq(Clients) /\ IsInjective(backlog')
      /\ ToSet(backlog') = {c} \cup ToSet(backlog)
  BY <1>1, ListAppend DEF Typed, Births
<1> QED
  BY <1>2 DEF Typed, Births

LEMMA ClientRole ==
  ASSUME Typed, NEW c \in Clients
  PROVE  /\ Active \cup {"connect", "connecting"} \subseteq Role(c)
         /\ AfterConnect(c) \in Role(c) /\ AfterConnect(c) \in {"next", "spawnHelper"}
         /\ c \in Coroutines /\ Socket(c) = c /\ c \in Sockets
<1>1. c # Acceptor /\ c \in Coroutines /\ c \in Sockets
  BY Numbers
<1>2. Socket(c) = c
  BY SocketNumbers
<1>3. Active \cup {"connect", "connecting"} \subseteq Role(c)
  BY <1>1 DEF Role
<1>4. AfterConnect(c) \in {"next", "spawnHelper"}
  BY DEF AfterConnect
<1>5. AfterConnect(c) \in Role(c)
  <2>1. CASE program.shared /\ c = 1
    <3>1. AfterConnect(c) = "spawnHelper"
      BY <2>1 DEF AfterConnect
    <3> QED
      BY <1>1, <2>1, <3>1 DEF Role
  <2>2. CASE ~(program.shared /\ c = 1)
    <3>1. AfterConnect(c) = "next"
      BY <2>2 DEF AfterConnect
    <3> QED
      BY <1>3, <3>1 DEF Active
  <2> QED
    BY <2>1, <2>2
<1> QED
  BY <1>1, <1>2, <1>3, <1>4, <1>5

LEMMA ConnectControl ==
  ASSUME Control, NEW c \in Clients, Connect(c)
  PROVE  Control'
<1>1. Active \cup {"connect", "connecting"} \subseteq Role(c) /\ c \in Coroutines /\ Socket(c) = c /\ c \in Sockets
  BY ClientRole DEF Control
<1>2. /\ running = c /\ pc[c] = "connect" /\ Suspend(c, "out", "connecting")
      /\ UNCHANGED <<program, open, backlog, connected>> /\ SaveMode(c)
  BY DEF Connect, At
<1>3. /\ "out" \in Directions /\ "connecting" \in Waits /\ Side("connecting") = "out" /\ "connect" \in Starting
      /\ "connecting" \notin {"sending", "receiving"}
  BY DEF Directions, Waits, Side, Starting
<1>4. \A u \in open : u \in nonBlocking => u \in nonBlocking'
  BY <1>2 DEF SaveMode
<1> QED
  BY <1>1, <1>2, <1>3, <1>4, SuspendControl

LEMMA ConnectAtOnceControl ==
  ASSUME Control, NEW c \in Clients, ConnectAtOnce(c)
  PROVE  Control'
<1>1. Typed /\ Placed /\ Births /\ Watched /\ Modes
  BY DEF Control
<1>2. /\ running = c /\ pc[c] = "connect" /\ Goto(c, AfterConnect(c))
      /\ connected' = connected \cup {c} /\ backlog' = Append(backlog, c)
      /\ UNCHANGED <<program, waiting, bits, open, nonBlocking, ready, running>>
  BY DEF ConnectAtOnce, At, selectVars, loopVars
<1>3. AfterConnect(c) \in Role(c) /\ AfterConnect(c) \in {"next", "spawnHelper"} /\ c \in Coroutines
  BY <1>1, ClientRole
<1>4. pc' \in [Coroutines -> Labels] /\ pc'[c] = AfterConnect(c) /\ \A e \in Coroutines \ {c} : pc'[e] = pc[e]
  BY <1>1, <1>2, <1>3, Gone DEF Labels, Active
<1>5. c \notin connected
  BY <1>1, <1>2 DEF Births
<1>6. /\ connected' \subseteq Clients /\ backlog' \in Seq(Clients)
      /\ IsInjective(backlog') /\ ToSet(backlog') \subseteq connected'
      /\ \A i \in Clients : i \notin connected' \/ i \in ToSet(backlog') => pc[Session(i)] = "unborn"
  BY <1>1, <1>2, <1>5, ConnectedOnce
<1>7. Typed'
  <2>1. ASSUME NEW e \in Coroutines PROVE pc'[e] \in Role(e)'
    <3>1. Role(e)' = Role(e)
      BY <1>2 DEF Role, Helper, Sessions, Session, Clients, Acceptor
    <3> QED
      BY <1>1, <1>3, <1>4, <3>1 DEF Typed
  <2> QED
    BY <1>1, <1>2, <1>4, <1>6, <2>1 DEF Typed
<1>8. Placed'
  <2>1. Handed
    BY <1>1, <1>2, HandedKept
  <2> QED
    BY <1>1, <1>2, <1>3, <1>4, <2>1, HandedPlaced
<1>9. Births'
  <2>1. \A i \in Clients : pc'[Session(i)] = pc[Session(i)]
    BY <1>4, SessionNumbers, Numbers
  <2>2. \A i \in Clients : pc'[i] = "connect" => i # c /\ i \notin connected'
    <3> SUFFICES ASSUME NEW i \in Clients, pc'[i] = "connect" PROVE i # c /\ i \notin connected'
      OBVIOUS
    <3>1. i # c /\ pc[i] = "connect"
      BY <1>3, <1>4, Numbers
    <3> QED
      BY <1>1, <1>2, <3>1 DEF Births
  <2>3. pc'[1] \in Starting => pc[1] \in Starting
    BY <1>2, <1>4, Numbers DEF Starting
  <2>4. pc'[Helper] = pc[Helper]
    BY <1>4, Numbers
  <2> QED
    BY <1>1, <1>6, <2>1, <2>2, <2>3, <2>4 DEF Births, Session, Starting
<1>10. Modes'
  <2>1. pc'[c] \notin {"sending", "receiving"}
    BY <1>3, <1>4
  <2> QED
    BY <1>1, <1>2, <1>3, <1>4, <2>1, ModesKept
<1>11. Watched'
  BY <1>1, <1>2 DEF Watched, Waited
<1> QED
  BY <1>7, <1>8, <1>9, <1>10, <1>11 DEF Control

\* The system establishes a connection meanwhile.
LEMMA EstablishControl ==
  ASSUME Control, NEW c \in Clients, Establish(c)
  PROVE  Control'
<1>1. Typed /\ Placed /\ Births /\ Watched /\ Modes
  BY DEF Control
<1>2. /\ pc[c] = "connecting" /\ c \notin connected
      /\ UNCHANGED <<program, waiting, bits, open, nonBlocking, ready, running, pc>>
  BY DEF Establish, selectVars, loopVars
<1>3. /\ connected' \subseteq Clients /\ backlog' \in Seq(Clients)
      /\ IsInjective(backlog') /\ ToSet(backlog') \subseteq connected'
      /\ \A i \in Clients : i \notin connected' \/ i \in ToSet(backlog') => pc[Session(i)] = "unborn"
      /\ connected' \subseteq connected \cup {c}
  <2>1. CASE connected' = connected \cup {c} /\ backlog' = Append(backlog, c)
    BY <1>1, <1>2, <2>1, ConnectedOnce
  <2>2. CASE UNCHANGED <<connected, backlog>>
    BY <1>1, <2>2 DEF Typed, Births
  <2> QED
    BY <2>1, <2>2 DEF Establish
<1>4. Births'
  BY <1>1, <1>2, <1>3 DEF Births, Session
<1>5. \A e : Role(e)' = Role(e)
  BY <1>2 DEF Role, Helper, Sessions, Session, Clients, Acceptor
<1>6. Typed'
  BY <1>1, <1>2, <1>3, <1>5 DEF Typed
<1>7. Placed' /\ Watched' /\ Modes'
  BY <1>1, <1>2 DEF Placed, Watched, Waited, Modes, Socket
<1> QED
  BY <1>4, <1>6, <1>7 DEF Control

LEMMA ConnectDoneControl ==
  ASSUME Control, NEW c \in Clients, ConnectDone(c)
  PROVE  Control'
<1>1. /\ Active \cup {"connect", "connecting"} \subseteq Role(c) /\ c \in Coroutines
      /\ AfterConnect(c) \in Role(c) /\ AfterConnect(c) \in {"next", "spawnHelper"}
  BY ClientRole DEF Control
<1>2. /\ running = c /\ pc[c] = "connecting"
      /\ UNCHANGED <<program, selectVars, open, backlog, connected, ready, running>>
      /\ \/ Goto(c, "throw") /\ UNCHANGED nonBlocking
         \/ nonBlocking' = Restored(c, previous[c]) /\ Goto(c, AfterConnect(c))
  BY DEF ConnectDone, At, loopVars
<1>3. \A u \in open : u # Socket(c) /\ u \in nonBlocking => u \in nonBlocking'
  BY <1>2 DEF Restored
<1>4. PICK l \in {"throw", AfterConnect(c)} : Goto(c, l)
  BY <1>2
<1>5. /\ l \in Role(c) /\ l \in Labels /\ l \notin {"unborn", "connect", "sending", "receiving"}
      /\ pc[c] \in Starting
  BY <1>1, <1>2 DEF Active, Labels, Starting
<1> QED
  BY <1>1, <1>2, <1>3, <1>4, <1>5, LocalControl

LEMMA AcceptControl ==
  ASSUME Control, Accept
  PROVE  Control'
<1>1. /\ running = Acceptor /\ Suspend(Acceptor, "in", "accepting")
      /\ UNCHANGED <<program, open, backlog, connected, nonBlocking>>
  BY DEF Accept, At, kernelVars
<1>2. /\ "in" \in Directions /\ "accepting" \in Waits /\ Side("accepting") = "in"
      /\ "accepting" \notin {"sending", "receiving", "connecting"}
  BY DEF Directions, Waits, Side
<1>3. Acceptor \in Coroutines /\ Socket(Acceptor) = Acceptor /\ Acceptor \in Sockets /\ Acceptor \in open
  BY Numbers, SocketNumbers DEF Control, Typed
<1>4. "accepting" \in Role(Acceptor)
  BY DEF Role
<1> QED
  BY <1>1, <1>2, <1>3, <1>4, SuspendControl

\* A connection is accepted, and its session begins.
LEMMA AcceptedControl ==
  ASSUME Control, Accepted
  PROVE  Control'
<1>1. Typed /\ Placed /\ Births /\ Watched /\ Modes
  BY DEF Control
<1> DEFINE i == Head(backlog)
           x == Session(i)
<1>2. /\ running = Acceptor /\ pc[Acceptor] = "accepting" /\ backlog # <<>> /\ backlog' = Tail(backlog)
      /\ open' = open \cup {x} /\ ready' = Append(ready, x)
      /\ pc' = [pc EXCEPT ![Acceptor] = "accept", ![x] = "next"]
      /\ UNCHANGED <<program, waiting, bits, nonBlocking, connected, running>>
  BY DEF Accepted, At, selectVars
<1>3. /\ i \in ToSet(backlog) /\ backlog' \in Seq(Clients)
      /\ ToSet(backlog') = ToSet(backlog) \ {i} /\ IsInjective(backlog')
  BY <1>1, <1>2, ListTail DEF Typed, Births
<1>4. i \in Clients /\ i \in connected
  BY <1>1, <1>3 DEF Typed, Births
<1>5. x \in Sessions /\ x \in Coroutines /\ x \in Sockets /\ x # Acceptor /\ x \notin Clients /\ x # Helper
  BY <1>4, SessionNumbers, Numbers
<1>6. pc[x] = "unborn" /\ \A j \in Clients \ {i} : Session(j) # x
  BY <1>1, <1>3, <1>4, SessionNumbers DEF Births
<1> HIDE DEF x, i
<1>7. /\ pc' \in [Coroutines -> Labels] /\ pc'[x] = "next" /\ pc'[Acceptor] = "accept"
      /\ \A e \in Coroutines \ {x, Acceptor} : pc'[e] = pc[e]
  <2>1. Acceptor \in Coroutines /\ pc \in [Coroutines -> Labels] /\ {"next", "accept"} \subseteq Labels
    BY <1>1, Numbers DEF Typed, Labels, Active
  <2> QED
    BY <1>2, <1>5, <2>1
<1>8. Placed' /\ ready' \in Seq(Coroutines)
  <2>1. \A c \in Coroutines \ {x} : pc'[c] = pc[c] \/ (c = running /\ pc'[c] # "unborn")
    BY <1>2, <1>7
  <2> QED
    BY <1>1, <1>2, <1>5, <1>6, <1>7, <2>1, SpawnPlaced
<1>9. Typed'
  <2>1. ASSUME NEW e \in Coroutines PROVE pc'[e] \in Role(e)'
    <3>1. Role(e)' = Role(e)
      BY <1>2 DEF Role, Helper, Sessions, Session, Clients, Acceptor
    <3>2. "accept" \in Role(Acceptor)
      BY DEF Role
    <3>3. "next" \in Role(x)
      BY <1>5 DEF Role, Active
    <3> QED
      BY <1>1, <1>7, <3>1, <3>2, <3>3 DEF Typed
  <2> QED
    BY <1>1, <1>2, <1>3, <1>5, <1>7, <1>8, <2>1 DEF Typed
<1>10. Births'
  <2>1. ASSUME NEW j \in Clients, j \notin connected' \/ j \in ToSet(backlog')
        PROVE  pc'[Session(j)] = "unborn"
    <3>1. j # i /\ (j \notin connected \/ j \in ToSet(backlog))
      BY <1>2, <1>3, <1>4, <2>1
    <3>2. pc[Session(j)] = "unborn" /\ Session(j) # x
      BY <1>1, <1>6, <3>1 DEF Births
    <3>3. Session(j) \in Coroutines /\ Session(j) # Acceptor
      BY SessionNumbers, Numbers
    <3> QED
      BY <1>7, <3>2, <3>3
  <2>2. \A j \in Clients : pc'[j] = pc[j]
    BY <1>5, <1>7, Numbers
  <2>3. pc'[Helper] = pc[Helper] /\ pc'[1] = pc[1]
    BY <1>5, <1>7, <2>2, Numbers
  <2> QED
    BY <1>1, <1>2, <1>3, <2>1, <2>2, <2>3 DEF Births, Session
<1>11. Modes'
  <2> SUFFICES ASSUME NEW e \in Coroutines, pc'[e] \in {"sending", "receiving"}, Socket(e) \in open',
                      ~(program.shared /\ Socket(e) = 1)
               PROVE  Socket(e) \in nonBlocking
    BY <1>2 DEF Modes, Socket
  <2>1. e # x /\ e # Acceptor /\ pc[e] = pc'[e]
    BY <1>7
  <2>2. Socket(e) # x
    <3> SUFFICES ASSUME Socket(e) = x PROVE FALSE
      OBVIOUS
    <3>1. Socket(x) = x /\ x # 1
      BY <1>5, SocketNumbers, Numbers
    <3> QED
      BY <1>5, <2>1, <3>1, SocketNumbers
  <2> QED
    BY <1>1, <1>2, <2>1, <2>2 DEF Modes
<1>12. Watched'
  BY <1>1, <1>2 DEF Watched, Waited
<1> QED
  BY <1>8, <1>9, <1>10, <1>11, <1>12 DEF Control

LEMMA SpawnHelperControl ==
  ASSUME Control, SpawnHelper
  PROVE  Control'
<1>1. Typed /\ Placed /\ Births /\ Watched /\ Modes
  BY DEF Control
<1>2. /\ running = 1 /\ pc[1] = "spawnHelper" /\ ready' = Append(ready, Helper)
      /\ pc' = [pc EXCEPT ![1] = "next", ![Helper] = "next"]
      /\ UNCHANGED <<program, waiting, bits, open, nonBlocking, backlog, connected, running>>
  BY DEF SpawnHelper, At, selectVars, kernelVars
<1>3. /\ 1 \in Coroutines /\ Helper \in Coroutines /\ 1 # Helper /\ 1 \in Clients /\ 1 # Acceptor
      /\ Helper \notin Clients /\ Helper \notin Sessions /\ Helper # Acceptor
  BY Numbers
<1>4. pc[Helper] = "unborn"
  BY <1>1, <1>2 DEF Births
<1>5. program.shared
  <2>1. pc[1] \in Role(1)
    BY <1>1, <1>3 DEF Typed
  <2> QED
    BY <1>2, <1>3, <2>1 DEF Role, Active
<1>6. /\ pc' \in [Coroutines -> Labels] /\ pc'[1] = "next" /\ pc'[Helper] = "next"
      /\ \A e \in Coroutines \ {1, Helper} : pc'[e] = pc[e]
  BY <1>1, <1>2, <1>3 DEF Typed, Labels, Active
<1>7. Placed' /\ ready' \in Seq(Coroutines)
  <2>1. \A c \in Coroutines \ {Helper} : pc'[c] = pc[c] \/ (c = running /\ pc'[c] # "unborn")
    BY <1>2, <1>6
  <2> QED
    BY <1>1, <1>2, <1>3, <1>4, <1>6, <2>1, SpawnPlaced
<1>8. Typed'
  <2>1. ASSUME NEW e \in Coroutines PROVE pc'[e] \in Role(e)'
    <3>1. Role(e)' = Role(e)
      BY <1>2 DEF Role, Helper, Sessions, Session, Clients, Acceptor
    <3>2. "next" \in Role(1)
      BY <1>3 DEF Role, Active
    <3>3. "next" \in Role(Helper)
      BY <1>3, <1>5 DEF Role, Active
    <3> QED
      BY <1>1, <1>6, <3>1, <3>2, <3>3 DEF Typed
  <2> QED
    BY <1>1, <1>2, <1>6, <1>7, <2>1 DEF Typed
<1>9. Births'
  <2>1. \A j \in Clients : Session(j) \in Coroutines /\ Session(j) # 1 /\ Session(j) # Helper
    BY SessionNumbers, Numbers
  <2>2. \A j \in Clients : pc'[Session(j)] = pc[Session(j)]
    BY <1>6, <2>1
  <2>3. \A j \in Clients : pc'[j] = "connect" => pc[j] = "connect"
    BY <1>3, <1>6, Numbers
  <2> QED
    BY <1>1, <1>2, <1>6, <2>2, <2>3 DEF Births, Session
<1>10. Modes'
  BY <1>1, <1>2, <1>6 DEF Modes, Socket
<1>11. Watched'
  BY <1>1, <1>2 DEF Watched, Waited
<1> QED
  BY <1>7, <1>8, <1>9, <1>10, <1>11 DEF Control

LEMMA CloserControl ==
  ASSUME Control, CloserWakes
  PROVE  Control'
<1>1. Typed /\ Placed /\ Births /\ Watched /\ Modes
  BY DEF Control
<1>2. /\ pc[Closer] = "unborn" /\ ready' = Append(ready, Closer)
      /\ pc' = [pc EXCEPT ![Closer] = "closeOther"]
      /\ UNCHANGED <<program, waiting, bits, open, nonBlocking, backlog, connected, running>>
  BY DEF CloserWakes, selectVars, kernelVars
<1>3. Closer \in Coroutines /\ Closer \notin Clients /\ Closer \notin Sessions /\ Closer # Helper /\ Closer # Acceptor
  BY Numbers
<1>4. pc' \in [Coroutines -> Labels] /\ pc'[Closer] = "closeOther" /\ \A e \in Coroutines \ {Closer} : pc'[e] = pc[e]
  BY <1>1, <1>2, <1>3 DEF Typed, Labels
<1>5. Placed' /\ ready' \in Seq(Coroutines)
  BY <1>1, <1>2, <1>3, <1>4, SpawnPlaced
<1>6. Typed'
  <2>1. ASSUME NEW e \in Coroutines PROVE pc'[e] \in Role(e)'
    <3>1. Role(e)' = Role(e)
      BY <1>2 DEF Role, Helper, Sessions, Session, Clients, Acceptor
    <3>2. "closeOther" \in Role(Closer)
      BY <1>3 DEF Role
    <3> QED
      BY <1>1, <1>4, <3>1, <3>2 DEF Typed
  <2> QED
    BY <1>1, <1>2, <1>4, <1>5, <2>1 DEF Typed
<1>7. Births'
  <2>1. \A j \in Clients : pc'[Session(j)] = pc[Session(j)] /\ pc'[j] = pc[j]
    BY <1>3, <1>4, SessionNumbers, Numbers
  <2>2. pc'[Helper] = pc[Helper] /\ pc'[1] = pc[1]
    BY <1>3, <1>4, Numbers
  <2> QED
    BY <1>1, <1>2, <2>1, <2>2 DEF Births, Session
<1>8. Modes'
  BY <1>1, <1>2, <1>4 DEF Modes, Socket
<1>9. Watched'
  BY <1>1, <1>2 DEF Watched, Waited
<1> QED
  BY <1>5, <1>6, <1>7, <1>8, <1>9 DEF Control

-----------------------------------------------------------------------------
(* The loop *)

LEMMA ResumeControl ==
  ASSUME Control, Resume
  PROVE  Control'
<1>1. Typed /\ Placed /\ Births /\ Watched /\ Modes
  BY DEF Control
<1>2. UNCHANGED <<program, waiting, bits, open, nonBlocking, backlog, connected, pc>>
  BY DEF Resume, selectVars, kernelVars
<1>3. Placed' /\ ready' \in Seq(Coroutines) /\ running' \in Coroutines
  BY <1>1, ResumePlaced
<1>4. \A e : Role(e)' = Role(e)
  BY <1>2 DEF Role, Helper, Sessions, Session, Clients, Acceptor
<1>5. Typed'
  BY <1>1, <1>2, <1>3, <1>4 DEF Typed
<1>6. Births' /\ Watched' /\ Modes'
  BY <1>1, <1>2 DEF Births, Session, Watched, Waited, Modes, Socket
<1> QED
  BY <1>3, <1>5, <1>6 DEF Control

LEMMA StutterControl ==
  ASSUME Control,
         UNCHANGED <<program, waiting, bits, open, nonBlocking, backlog, connected, ready, running, pc>>
  PROVE  Control'
<1>1. Typed /\ Placed /\ Births /\ Watched /\ Modes
  BY DEF Control
<1>2. \A e : Role(e)' = Role(e)
  BY DEF Role, Helper, Sessions, Session, Clients, Acceptor
<1>3. Typed'
  BY <1>1, <1>2 DEF Typed
<1>4. Placed'
  BY <1>1 DEF Placed, Socket
<1>5. Births' /\ Watched' /\ Modes'
  BY <1>1 DEF Births, Session, Watched, Waited, Modes, Socket
<1> QED
  BY <1>3, <1>4, <1>5 DEF Control

LEMMA CommitControl ==
  ASSUME Control, NEW d \in Directions, NEW after, Commit(d, after)
  PROVE  Control'
<1>1. Typed /\ Placed /\ Births /\ Watched /\ Modes
  BY DEF Control
<1>2. UNCHANGED <<program, open, nonBlocking, backlog, connected, running, pc>>
  BY DEF Commit, kernelVars
<1>3. CASE UNCHANGED <<selectVars, ready>>
  BY <1>2, <1>3, StutterControl DEF selectVars
<1>4. CASE ~UNCHANGED <<selectVars, ready>>
  <2>1. PICK taken \in Walks(d, {s \in open : IsReady(d, s)}) :
          /\ CommitFrame(d, taken)
          /\ \E frames \in Outstanding(d, taken) : ready' = ready \o frames
    BY <1>4 DEF Commit
  <2>2. PICK frames \in Outstanding(d, taken) : ready' = ready \o frames
    BY <2>1
  <2>3. /\ frames \in Seq(Coroutines) /\ IsInjective(frames)
        /\ \A c \in ToSet(frames) : \E s \in Sockets : c \in ToSet(waiting[d][s])
        /\ waiting' \in [Directions -> [Sockets -> Seq(Coroutines)]]
        /\ \A b \in Directions, s \in Sockets :
             /\ IsInjective(waiting'[b][s])
             /\ ToSet(waiting'[b][s]) \subseteq ToSet(waiting[b][s]) \ ToSet(frames)
    BY <1>1, <2>1, CommitLists
  <2>4. Handed
    BY <1>1, <2>2, <2>3, HandedList
  <2>5. Placed'
    BY <1>1, <1>2, <2>4, HandedPlaced
  <2>6. \A e : Role(e)' = Role(e)
    BY <1>2 DEF Role, Helper, Sessions, Session, Clients, Acceptor
  <2>7. bits' = bits
    BY <2>1 DEF CommitFrame
  <2>8. Typed'
    <3>1. ready' \in Seq(Coroutines) /\ waiting' \in [Directions -> [Sockets -> Seq(Coroutines)]]
      BY <2>4 DEF Handed
    <3> QED
      BY <1>1, <1>2, <2>6, <2>7, <3>1 DEF Typed
  <2>9. Births' /\ Modes'
    BY <1>1, <1>2 DEF Births, Session, Modes, Socket
  <2>10. Watched'
    <3>1. ASSUME NEW b \in Directions, NEW s \in Sockets, waiting'[b][s] # <<>> PROVE waiting[b][s] # <<>>
      <4>1. waiting'[b][s] \in Seq(Coroutines)
        BY <2>3
      <4>2. waiting'[b][s][1] \in ToSet(waiting'[b][s])
        BY <3>1, <4>1 DEF ToSet
      <4>3. waiting'[b][s][1] \in ToSet(waiting[b][s])
        BY <2>3, <4>2
      <4> QED
        BY <4>3, ListEmpty
    <3> QED
      BY <1>1, <1>2, <2>7, <3>1 DEF Watched, Waited
  <2> QED
    BY <2>5, <2>8, <2>9, <2>10 DEF Control
<1> QED
  BY <1>3, <1>4

LEMMA InitControl ==
  ASSUME SocketsInit
  PROVE  Control
<1>1. /\ program \in Programs
      /\ waiting = [d \in Directions |-> [s \in Sockets |-> <<>>]] /\ bits = [d \in Directions |-> {}]
      /\ open = Clients \cup {Acceptor} /\ backlog = <<>> /\ connected = {}
      /\ ready = [i \in 1..(N + 1) |-> i - 1] /\ running = Nobody
      /\ pc = [c \in Coroutines |-> IF c = Acceptor THEN "accept"
                                    ELSE IF c \in Clients THEN "connect" ELSE "unborn"]
  BY DEF SocketsInit, SelectInit
<1>2. /\ ready \in Seq(Coroutines) /\ IsInjective(ready) /\ \A c \in ToSet(ready) : c = Acceptor \/ c \in Clients
  <2>1. \A i \in 1..(N + 1) : i - 1 \in Coroutines /\ (i - 1 = Acceptor \/ i - 1 \in Clients)
    BY Numbers
  <2>2. N + 1 \in Nat
    BY Numbers
  <2>3. ready \in Seq(Coroutines) /\ DOMAIN ready = 1..(N + 1) /\ \A i \in 1..(N + 1) : ready[i] = i - 1
    BY <1>1, <2>1, <2>2
  <2>4. IsInjective(ready)
    BY <2>3 DEF IsInjective
  <2> QED
    BY <2>1, <2>3, <2>4 DEF ToSet
<1>3. Typed
  <2>1. ASSUME NEW c \in Coroutines PROVE pc[c] \in Role(c) /\ pc[c] \in Labels
    BY <1>1, Numbers DEF Role, Labels
  <2>2. open \subseteq Sockets /\ Acceptor \in open
    BY <1>1, Numbers
  <2> QED
    BY <1>1, <1>2, <2>1, <2>2 DEF Typed
<1>4. Placed
  <2>1. Nobody \notin ToSet(ready)
    BY <1>2, Numbers
  <2>2. \A c \in Coroutines : pc[c] = "unborn" => c # Nobody /\ c # Acceptor /\ c \notin Clients
    BY <1>1, Numbers
  <2> QED
    BY <1>1, <1>2, <2>1, <2>2, ListEmpty DEF Placed
<1>5. Births
  <2>1. \A i \in Clients : pc[Session(i)] = "unborn"
    BY <1>1, SessionNumbers, Numbers
  <2>2. pc[Helper] = "unborn"
    BY <1>1, Numbers
  <2> QED
    BY <1>1, <2>1, <2>2, ListEmpty DEF Births
<1>6. Watched
  BY <1>1 DEF Watched, Waited, Directions
<1>7. Modes
  BY <1>1 DEF Modes
<1> QED
  BY <1>3, <1>4, <1>5, <1>6, <1>7 DEF Control

LEMMA NextControl ==
  ASSUME Control, [RpcNext]_socketVars
  PROVE  Control'
<1>1. CASE UNCHANGED socketVars
  BY <1>1, StutterControl DEF socketVars, selectVars, kernelVars, loopVars
<1>2. ASSUME NEW c \in Coroutines, OperationStep(c) PROVE Control'
  BY <1>2, OperationControl
<1>3. ASSUME NEW c \in Clients, Connect(c) \/ ConnectAtOnce(c) \/ ConnectDone(c) PROVE Control'
  BY <1>3, ConnectControl, ConnectAtOnceControl, ConnectDoneControl
<1>4. CASE Accept \/ Accepted \/ CloseOther \/ SpawnHelper
  BY <1>4, AcceptControl, AcceptedControl, CloseOtherControl, SpawnHelperControl
<1>5. CASE CoroutineStep
  BY <1>2, <1>3, <1>4, <1>5 DEF CoroutineStep
<1>6. CASE LoopStep
  <2>1. CASE Resume
    BY <2>1, ResumeControl
  <2>2. CASE DispatchEnd
    BY <2>2, StutterControl DEF DispatchEnd, selectVars, kernelVars
  <2>3. CASE Commit("in", "out") \/ Commit("out", "dispatch")
    BY <2>3, CommitControl DEF Directions
  <2> QED
    BY <1>6, <2>1, <2>2, <2>3 DEF LoopStep
<1>7. CASE CloserWakes
  BY <1>7, CloserControl
<1>8. ASSUME NEW c \in Clients, Establish(c) PROVE Control'
  BY <1>8, EstablishControl
<1> QED
  BY <1>1, <1>5, <1>6, <1>7, <1>8 DEF RpcNext

\* Everything that a call goes through is where it belongs.
THEOREM CallsControlled == RpcSpec => []Control
<1>1. SocketsInit => Control
  BY InitControl
<1>2. Control /\ [RpcNext]_socketVars => Control'
  BY NextControl
<1> QED
  BY <1>1, <1>2, PTL DEF RpcSpec

\* Whoever waits is looked at by select, waits in one place, and nobody waits to read from a
\* closed socket (select_socket_service.hpp:107-127), for any number of clients and calls.
THEOREM WaitersAreWatched == RpcSpec => []WaitersWatched
<1>1. Control => WaitersWatched
  <2> SUFFICES ASSUME Control PROVE WaitersWatched
    OBVIOUS
  <2>1. Placed /\ Watched
    BY DEF Control
  <2>2. ASSUME NEW c \in Coroutines, c \in UNION {ToSet(waiting[d][s]) : d \in Directions, s \in Sockets}
        PROVE  c \notin ToSet(ready) /\ c # running /\ pc[c] \in {"connecting", "accepting", "sending", "receiving"}
    <3>1. PICK d \in Directions, s \in Sockets : c \in ToSet(waiting[d][s])
      BY <2>2
    <3> QED
      BY <2>1, <3>1 DEF Placed, Waits
  <2> QED
    BY <2>1, <2>2 DEF WaitersWatched, Watched
<1> QED
  BY <1>1, CallsControlled, PTL

\* The loop thread stands in a system call that cannot go on only where two coroutines share
\* the socket (socket.hpp:253-302), for any number of clients and calls.
THEOREM OnlySharedBlock == RpcSpec => []BlocksOnlyShared
<1>1. Control => BlocksOnlyShared
  BY DEF Control, Modes, BlocksOnlyShared, Blocks, Undisturbed
<1> QED
  BY <1>1, CallsControlled, PTL

-----------------------------------------------------------------------------
(* The bytes *)

Parties == Clients \cup Sessions
Byte == Nat \X {"name", "args", "answer"} \X Nat
Sends == {"send", "sending"}
Receives == {"receive", "receiving"}
Dead == {"return", "throw", "done", "failed"}

DataTyped ==
  /\ wire \in [Sockets -> Seq(Byte)]
  /\ rest \in [Coroutines -> Seq(Byte)] /\ got \in [Coroutines -> Seq(Byte)]
  /\ buffer \in [Coroutines -> Seq(Byte)] /\ available \in [Coroutines -> Int]
  /\ want \in [Coroutines -> Nat] /\ step \in [Coroutines -> Nat]
  /\ DOMAIN heard = Coroutines
  /\ \A c \in Clients : heard[c] \in Seq(Seq(Byte))
  /\ \A c \in Sessions : heard[c] \in Seq(Byte)

\* b is the byte at position p of what comes to c: requests of six bytes to a session, answers
\* of two to a client.
IsByte(c, b, p) ==
  IF c \in Sessions
  THEN \/ b[2] = "name" /\ b[3] \in 1..3 /\ p = 6 * (b[1] - 1) + b[3]
       \/ b[2] = "args" /\ b[3] \in 1..3 /\ p = 6 * (b[1] - 1) + 3 + b[3]
  ELSE b[2] = "answer" /\ b[3] \in 1..2 /\ p = 2 * (b[1] - 1) + b[3]

Segment(c, bytes, from) == \A j \in DOMAIN bytes : IsByte(c, bytes[j], from + j)

\* What has come to c and is not delivered yet, and how much came before.
Incoming(c) == (buffer[c] \o got[c]) \o wire[c]
Thirds(n) == 6 * (n \div 3) + (IF n % 3 = 0 THEN 0 ELSE IF n % 3 = 1 THEN 3 ELSE 6)
Taken(c) == IF c \in Sessions THEN Thirds(step[c]) ELSE 2 * Len(heard[c])
Arrived(c) == Taken(c) + Len(Incoming(c))

Shares(c) == program.shared /\ c = 1

\* Who writes to c, and what w has written with its finished fields.
Writer(c) == IF c \in Clients THEN Session(c) ELSE IF Shares(c - N) THEN Helper ELSE c - N
Sent(w) ==
  IF w \in Sessions THEN 2 * (step[w] \div 3) ELSE IF w = Helper THEN 3 * step[w] ELSE Thirds(step[w])
Size(w) == IF w \in Sessions THEN 2 ELSE 3
Count(c) == IF c \in Sessions THEN 3 ELSE 2

\* The next field of c is one to write.
Writing(c) ==
  IF c \in Sessions THEN step[c] % 3 = 2
  ELSE c = Helper \/ (c \in Clients /\ ~Shares(c) /\ step[c] % 3 # 2)

Position(c) ==
  /\ available[c] = Len(buffer[c])
  /\ pc[c] \in Sends => Writing(c)
  /\ pc[c] \in Receives => ~Writing(c) /\ want[c] = Count(c)
  /\ pc[c] \notin Receives \cup Dead => got[c] = <<>>

\* What comes to c is what was written, each byte at its place.
Stream(c) ==
  /\ Segment(c, Incoming(c), Taken(c))
  /\ pc[Writer(c)] \in Sends =>
       /\ Arrived(c) + Len(rest[Writer(c)]) = Sent(Writer(c)) + Size(Writer(c))
       /\ Segment(c, rest[Writer(c)], Arrived(c))
  /\ pc[Writer(c)] \notin Sends \cup Dead => Arrived(c) = Sent(Writer(c))

\* What a session has read of a request.
Heard(c) ==
  LET k == (step[c] \div 3) + 1
  IN /\ step[c] % 3 = 0 => heard[c] = <<>>
     /\ step[c] % 3 # 0 => k \in 1..program.calls
     /\ step[c] % 3 = 1 => heard[c] = Name(k)
     /\ step[c] % 3 = 2 /\ pc[c] \in Sends => heard[c] = <<>>
     /\ step[c] % 3 = 2 /\ pc[c] \notin Sends \cup Dead => heard[c] = Name(k) \o Args(k)

\* What a client has read: the answers to its calls so far.
Answered(c) ==
  /\ Len(heard[c]) = IF Shares(c) THEN step[c] ELSE step[c] \div 3
  /\ \A k \in DOMAIN heard[c] : heard[c][k] = Answer(k)

Flow ==
  /\ DataTyped
  /\ \A c \in Parties \cup {Helper} : Position(c)
  /\ \A c \in Parties : Stream(c)
  /\ \A c \in Sessions : Heard(c)
  /\ \A c \in Clients : Answered(c)

Calls == Control /\ (~escaped => Flow) /\ AnswersMatch

LEMMA Third ==
  ASSUME NEW n \in Nat
  PROVE  /\ n % 3 \in {0, 1, 2} /\ n \div 3 \in Nat
         /\ n % 3 = 0 => (n + 1) % 3 = 1 /\ (n + 1) \div 3 = n \div 3
         /\ n % 3 = 1 => (n + 1) % 3 = 2 /\ (n + 1) \div 3 = n \div 3
         /\ n % 3 = 2 => (n + 1) % 3 = 0 /\ (n + 1) \div 3 = n \div 3 + 1
OBVIOUS

LEMMA Half ==
  ASSUME NEW n \in Nat
  PROVE  /\ n % 2 \in {0, 1} /\ n \div 2 \in Nat
         /\ n % 2 = 0 => 3 * n = 6 * (n \div 2)
         /\ n % 2 = 1 => 3 * n = 6 * (n \div 2) + 3
OBVIOUS

LEMMA ThirdsNext ==
  ASSUME NEW n \in Nat
  PROVE  /\ Thirds(n) \in Nat
         /\ n % 3 # 2 => Thirds(n + 1) = Thirds(n) + 3
         /\ n % 3 = 2 => Thirds(n + 1) = Thirds(n)
BY Third DEF Thirds

LEMMA Split ==
  ASSUME NEW S, NEW s \in Seq(S), NEW n \in 0..Len(s)
  PROVE  /\ SubSeq(s, 1, n) \in Seq(S) /\ Len(SubSeq(s, 1, n)) = n
         /\ SubSeq(s, n + 1, Len(s)) \in Seq(S) /\ Len(SubSeq(s, n + 1, Len(s))) = Len(s) - n
         /\ SubSeq(s, 1, n) \o SubSeq(s, n + 1, Len(s)) = s
<1>1. Len(s) \in Nat /\ n \in Nat /\ n <= Len(s) /\ \A i \in 1..Len(s) : s[i] \in S
  OBVIOUS
<1>2. SubSeq(s, 1, n) \in Seq(S) /\ Len(SubSeq(s, 1, n)) = n
  <2>1. \A i \in 1..n : s[i] \in S
    BY <1>1
  <2>2. SubSeq(s, 1, n) \in Seq(S) /\ Len(SubSeq(s, 1, n)) = IF 1 <= n THEN n - 1 + 1 ELSE 0
    BY <1>1, <2>1, SubSeqProperties
  <2> QED
    BY <1>1, <2>2
<1>3. SubSeq(s, n + 1, Len(s)) \in Seq(S) /\ Len(SubSeq(s, n + 1, Len(s))) = Len(s) - n
  <2>1. n + 1 \in Int /\ Len(s) \in Int /\ \A i \in (n + 1)..Len(s) : s[i] \in S
    BY <1>1
  <2>2. /\ SubSeq(s, n + 1, Len(s)) \in Seq(S)
        /\ Len(SubSeq(s, n + 1, Len(s))) = IF n + 1 <= Len(s) THEN Len(s) - (n + 1) + 1 ELSE 0
    BY <2>1, SubSeqProperties
  <2> QED
    BY <1>1, <2>2
<1>4. SubSeq(s, 1, n) \o SubSeq(s, n + 1, Len(s)) = SubSeq(s, 1, Len(s))
  <2>1. 1 \in 1..Len(s) + 1 /\ n \in (1 - 1)..Len(s) /\ Len(s) \in n..Len(s)
    BY <1>1
  <2> QED
    BY <2>1, ConcatAdjacentSubSeq
<1> QED
  BY <1>2, <1>3, <1>4, SubSeqFull

LEMMA BytesConcat ==
  ASSUME NEW s \in Seq(Byte), NEW t \in Seq(Byte)
  PROVE  /\ s \o t \in Seq(Byte) /\ Len(s \o t) = Len(s) + Len(t) /\ Len(s) \in Nat /\ Len(t) \in Nat
         /\ s \o <<>> = s /\ <<>> \o s = s
         /\ \A u \in Seq(Byte) : (s \o t) \o u = s \o (t \o u)
<1>1. s \o <<>> = s /\ <<>> \o s = s
  BY ConcatEmptySeq
<1>2. \A u \in Seq(Byte) : (s \o t) \o u = s \o (t \o u)
  BY ConcatAssociative
<1> QED
  BY <1>1, <1>2, ConcatProperties

LEMMA SegmentConcat ==
  ASSUME NEW c, NEW s \in Seq(Byte), NEW t \in Seq(Byte), NEW p \in Nat
  PROVE  Segment(c, s \o t, p) <=> Segment(c, s, p) /\ Segment(c, t, p + Len(s))
<1>1. /\ Len(s) \in Nat /\ DOMAIN s = 1..Len(s) /\ Len(t) \in Nat /\ DOMAIN t = 1..Len(t)
      /\ DOMAIN (s \o t) = 1..(Len(s) + Len(t))
      /\ \A j \in DOMAIN s : (s \o t)[j] = s[j] /\ j \in DOMAIN (s \o t)
      /\ \A j \in DOMAIN t : (s \o t)[Len(s) + j] = t[j] /\ Len(s) + j \in DOMAIN (s \o t)
  OBVIOUS
<1>2. ASSUME Segment(c, s \o t, p) PROVE Segment(c, s, p) /\ Segment(c, t, p + Len(s))
  <2>1. Segment(c, s, p)
    BY <1>1, <1>2 DEF Segment
  <2>2. ASSUME NEW j \in DOMAIN t PROVE IsByte(c, t[j], (p + Len(s)) + j)
    <3>1. IsByte(c, (s \o t)[Len(s) + j], p + (Len(s) + j))
      BY <1>1, <1>2 DEF Segment
    <3>2. p + (Len(s) + j) = (p + Len(s)) + j
      BY <1>1
    <3> QED
      BY <1>1, <3>1, <3>2
  <2> QED
    BY <2>1, <2>2 DEF Segment
<1>3. ASSUME Segment(c, s, p), Segment(c, t, p + Len(s)) PROVE Segment(c, s \o t, p)
  <2> SUFFICES ASSUME NEW j \in DOMAIN (s \o t) PROVE IsByte(c, (s \o t)[j], p + j)
    BY DEF Segment
  <2>1. CASE j \in DOMAIN s
    BY <1>1, <1>3, <2>1 DEF Segment
  <2>2. CASE j \notin DOMAIN s
    <3>1. j - Len(s) \in DOMAIN t /\ Len(s) + (j - Len(s)) = j /\ (p + Len(s)) + (j - Len(s)) = p + j
      BY <1>1, <2>2
    <3>2. IsByte(c, t[j - Len(s)], (p + Len(s)) + (j - Len(s)))
      BY <1>3, <3>1 DEF Segment
    <3>3. (s \o t)[j] = t[j - Len(s)]
      BY <1>1, <3>1
    <3> QED
      BY <3>1, <3>2, <3>3
  <2> QED
    BY <2>1, <2>2
<1> QED
  BY <1>2, <1>3

LEMMA MinPair ==
  ASSUME NEW a \in Int, NEW b \in Int, a <= b
  PROVE  Min({a, b}) = a
<1>1. \A x \in {a, b} : (\A y \in {a, b} : x =< y) <=> x = a
  OBVIOUS
<1> QED
  BY <1>1 DEF Min

LEMMA SameSequence ==
  ASSUME NEW S, NEW s \in Seq(S), NEW t \in Seq(S), Len(s) = Len(t), \A j \in 1..Len(s) : s[j] = t[j]
  PROVE  s = t
OBVIOUS

LEMMA Places ==
  ASSUME NEW k \in Nat, NEW a \in Nat, NEW j \in 1..3, NEW b \in 1..3
  PROVE  /\ 6 * (k - 1) + 3 + j # 6 * (a - 1) + b
         /\ 6 * (k - 1) + 3 + j = 6 * (a - 1) + 3 + b => a = k /\ b = j
OBVIOUS

\* The fields, and that the place of its bytes determines a field.
LEMMA FieldBytes ==
  ASSUME NEW k \in Nat
  PROVE  /\ Name(k) \in Seq(Byte) /\ Len(Name(k)) = 3 /\ Args(k) \in Seq(Byte) /\ Len(Args(k)) = 3
         /\ Answer(k) \in Seq(Byte) /\ Len(Answer(k)) = 2
         /\ \A j \in 1..3 : Name(k)[j] = <<k, "name", j>> /\ Args(k)[j] = <<k, "args", j>>
         /\ \A j \in 1..2 : Answer(k)[j] = <<k, "answer", j>>
<1>1. /\ Name(k) = [i \in 1..3 |-> <<k, "name", i>>] /\ Args(k) = [i \in 1..3 |-> <<k, "args", i>>]
      /\ Answer(k) = [i \in 1..2 |-> <<k, "answer", i>>]
  BY DEF Name, Args, Answer, Bytes
<1>2. \A i \in 1..3 : /\ <<k, "name", i>> \in Byte /\ <<k, "args", i>> \in Byte
                      /\ <<k, "answer", i>> \in Byte
  BY DEF Byte
<1>3. Name(k) \in Seq(Byte) /\ Len(Name(k)) = 3
  BY <1>1, <1>2
<1>4. Args(k) \in Seq(Byte) /\ Len(Args(k)) = 3
  BY <1>1, <1>2
<1>5. Answer(k) \in Seq(Byte) /\ Len(Answer(k)) = 2
  BY <1>1, <1>2
<1> QED
  BY <1>1, <1>3, <1>4, <1>5

LEMMA FieldSegments ==
  ASSUME NEW k \in Nat, k >= 1
  PROVE  /\ \A c \in Sessions : Segment(c, Name(k), 6 * (k - 1)) /\ Segment(c, Args(k), 6 * (k - 1) + 3)
         /\ \A c \in Clients : Segment(c, Answer(k), 2 * (k - 1))
<1>1. /\ DOMAIN Name(k) = 1..3 /\ DOMAIN Args(k) = 1..3 /\ DOMAIN Answer(k) = 1..2
      /\ \A j \in 1..3 : Name(k)[j] = <<k, "name", j>> /\ Args(k)[j] = <<k, "args", j>>
      /\ \A j \in 1..2 : Answer(k)[j] = <<k, "answer", j>>
  BY FieldBytes
<1>2. ASSUME NEW c \in Sessions, NEW j \in 1..3
      PROVE  IsByte(c, <<k, "name", j>>, 6 * (k - 1) + j) /\ IsByte(c, <<k, "args", j>>, 6 * (k - 1) + 3 + j)
  BY DEF IsByte
<1>3. ASSUME NEW c \in Clients, NEW j \in 1..2
      PROVE  IsByte(c, <<k, "answer", j>>, 2 * (k - 1) + j)
  BY Numbers DEF IsByte
<1> QED
  BY <1>1, <1>2, <1>3 DEF Segment

LEMMA FieldDetermined ==
  ASSUME NEW k \in Nat, k >= 1, NEW f \in Seq(Byte)
  PROVE  /\ \A c \in Sessions : Len(f) = 3 /\ Segment(c, f, 6 * (k - 1)) => f = Name(k)
         /\ \A c \in Sessions : Len(f) = 3 /\ Segment(c, f, 6 * (k - 1) + 3) => f = Args(k)
         /\ \A c \in Clients : Len(f) = 2 /\ Segment(c, f, 2 * (k - 1)) => f = Answer(k)
<1>1. \A j \in DOMAIN f : /\ f[j] = <<f[j][1], f[j][2], f[j][3]>> /\ f[j][1] \in Nat
  BY DEF Byte
<1>2. ASSUME NEW c \in Sessions, Len(f) = 3, Segment(c, f, 6 * (k - 1)) PROVE f = Name(k)
  <2>1. ASSUME NEW j \in 1..3 PROVE f[j] = <<k, "name", j>>
    <3>1. j \in DOMAIN f /\ IsByte(c, f[j], 6 * (k - 1) + j)
      BY <1>2 DEF Segment
    <3>2. f[j][2] = "name" /\ f[j][1] = k /\ f[j][3] = j
      BY <1>1, <3>1 DEF IsByte
    <3> QED
      BY <1>1, <3>1, <3>2
  <2>2. Name(k) \in Seq(Byte) /\ Len(Name(k)) = 3 /\ \A j \in 1..3 : Name(k)[j] = <<k, "name", j>>
    BY FieldBytes
  <2> QED
    BY <1>2, <2>1, <2>2, SameSequence
<1>3. ASSUME NEW c \in Sessions, Len(f) = 3, Segment(c, f, 6 * (k - 1) + 3) PROVE f = Args(k)
  <2>1. ASSUME NEW j \in 1..3 PROVE f[j] = <<k, "args", j>>
    <3>1. j \in DOMAIN f /\ IsByte(c, f[j], 6 * (k - 1) + 3 + j)
      BY <1>3 DEF Segment
    <3> DEFINE a == f[j][1]  kind == f[j][2]  e == f[j][3]
    <3>2. /\ e \in 1..3
          /\ \/ kind = "name" /\ 6 * (k - 1) + 3 + j = 6 * (a - 1) + e
             \/ kind = "args" /\ 6 * (k - 1) + 3 + j = 6 * (a - 1) + 3 + e
      BY <3>1 DEF IsByte
    <3>3. a \in Nat /\ f[j] = <<a, kind, e>>
      BY <1>1, <3>1
    <3> HIDE DEF a, kind, e
    <3>4. 6 * (k - 1) + 3 + j # 6 * (a - 1) + e
      BY <3>2, <3>3, Places
    <3>5. kind = "args" /\ 6 * (k - 1) + 3 + j = 6 * (a - 1) + 3 + e
      BY <3>2, <3>4
    <3>6. a = k /\ e = j
      BY <3>2, <3>3, <3>5, Places
    <3> QED
      BY <3>3, <3>5, <3>6
  <2>2. Args(k) \in Seq(Byte) /\ Len(Args(k)) = 3 /\ \A j \in 1..3 : Args(k)[j] = <<k, "args", j>>
    BY FieldBytes
  <2> QED
    BY <1>3, <2>1, <2>2, SameSequence
<1>4. ASSUME NEW c \in Clients, Len(f) = 2, Segment(c, f, 2 * (k - 1)) PROVE f = Answer(k)
  <2>1. ASSUME NEW j \in 1..2 PROVE f[j] = <<k, "answer", j>>
    <3>1. j \in DOMAIN f /\ IsByte(c, f[j], 2 * (k - 1) + j) /\ c \notin Sessions
      BY <1>4, Numbers DEF Segment
    <3> DEFINE a == f[j][1]  kind == f[j][2]  e == f[j][3]
    <3>2. kind = "answer" /\ e \in 1..2 /\ 2 * (k - 1) + j = 2 * (a - 1) + e
      BY <3>1 DEF IsByte
    <3>3. a \in Nat /\ f[j] = <<a, kind, e>>
      BY <1>1, <3>1
    <3> HIDE DEF a, kind, e
    <3>4. a = k /\ e = j
      BY <3>2, <3>3
    <3> QED
      BY <3>2, <3>3, <3>4
  <2>2. Answer(k) \in Seq(Byte) /\ Len(Answer(k)) = 2 /\ \A j \in 1..2 : Answer(k)[j] = <<k, "answer", j>>
    BY FieldBytes
  <2> QED
    BY <1>4, <2>1, <2>2, SameSequence
<1> QED
  BY <1>2, <1>3, <1>4

\* The answer to a request.
LEMMA ReplyIs ==
  ASSUME NEW k \in 1..program.calls, program.calls \in Nat
  PROVE  Reply(Name(k) \o Args(k)) = Answer(k)
<1>1. Name(k) \in Seq(Byte) /\ Len(Name(k)) = 3 /\ Args(k) \in Seq(Byte) /\ Name(k)[1] = <<k, "name", 1>>
  BY FieldBytes
<1>2. (Name(k) \o Args(k))[1] = Name(k)[1]
  BY <1>1, ConcatProperties
<1>3. (Name(k) \o Args(k))[1][1] = k
  BY <1>1, <1>2
<1> QED
  BY <1>3 DEF Reply

\* Each stream has one writer.
LEMMA Writers ==
  /\ \A x \in Parties : Writer(x) \in Parties \cup {Helper} /\ Writer(x) # x
  /\ \A w \in Parties \cup {Helper} :
       Writing(w) /\ (w = Helper => program.shared) =>
         /\ Peer(Socket(w)) \in Parties /\ Peer(Socket(w)) # w /\ Writer(Peer(Socket(w))) = w
         /\ \A x \in Parties : Writer(x) = w => x = Peer(Socket(w))
         /\ w \in Sessions => Peer(Socket(w)) \in Clients
         /\ w \notin Sessions => Peer(Socket(w)) \in Sessions
<1>1. \A i \in Clients : Session(i) = N + i /\ Session(i) \in Sessions
  BY SessionNumbers DEF Session
<1>2. \A x \in Sessions : x - N \in Clients /\ Session(x - N) = x
  BY Numbers DEF Session
<1>3. ASSUME NEW x \in Parties PROVE Writer(x) \in Parties \cup {Helper} /\ Writer(x) # x
  <2>1. CASE x \in Clients
    BY <1>1, <2>1, Numbers DEF Writer, Parties
  <2>2. CASE x \in Sessions
    BY <1>2, <2>2, Numbers DEF Writer, Parties
  <2> QED
    BY <2>1, <2>2 DEF Parties
<1>4. ASSUME NEW w \in Clients, ~Shares(w)
      PROVE  /\ Peer(Socket(w)) = Session(w) /\ Session(w) \in Sessions /\ Writer(Session(w)) = w
             /\ \A x \in Parties : Writer(x) = w => x = Session(w)
  <2>1. Peer(Socket(w)) = Session(w) /\ Session(w) \in Sessions /\ Session(w) - N = w /\ Session(w) \notin Clients
    BY <1>1, SocketNumbers, Numbers DEF Peer
  <2>2. Writer(Session(w)) = w
    BY <1>4, <2>1 DEF Writer
  <2>3. ASSUME NEW x \in Parties, Writer(x) = w PROVE x = Session(w)
    <3>1. CASE x \in Clients
      BY <1>1, <2>3, <3>1, Numbers DEF Writer
    <3>2. CASE x \in Sessions
      BY <1>2, <2>3, <3>2, Numbers DEF Writer
    <3> QED
      BY <3>1, <3>2 DEF Parties
  <2> QED
    BY <2>1, <2>2, <2>3
<1>5. ASSUME NEW w \in Sessions
      PROVE  /\ Peer(Socket(w)) = w - N /\ w - N \in Clients /\ Writer(w - N) = w
             /\ \A x \in Parties : Writer(x) = w => x = w - N
  <2>1. Peer(Socket(w)) = w - N /\ w - N \in Clients
    BY <1>2, SocketNumbers, Numbers DEF Peer
  <2>2. Writer(w - N) = w
    BY <1>2, <2>1 DEF Writer
  <2>3. ASSUME NEW x \in Parties, Writer(x) = w PROVE x = w - N
    <3>1. CASE x \in Clients
      <4>1. w = N + x
        BY <1>1, <2>3, <3>1 DEF Writer
      <4> QED
        BY <3>1, <4>1, Numbers
    <3>2. CASE x \in Sessions
      BY <1>2, <2>3, <3>2, Numbers DEF Writer
    <3> QED
      BY <3>1, <3>2 DEF Parties
  <2> QED
    BY <2>1, <2>2, <2>3
<1>6. ASSUME program.shared
      PROVE  /\ Peer(Socket(Helper)) = Session(1) /\ Session(1) \in Sessions /\ Writer(Session(1)) = Helper
             /\ \A x \in Parties : Writer(x) = Helper => x = Session(1)
  <2>1. Peer(Socket(Helper)) = Session(1) /\ Session(1) \in Sessions /\ Session(1) - N = 1 /\ Session(1) \notin Clients
    BY <1>1, SocketNumbers, Numbers DEF Peer
  <2>2. Writer(Session(1)) = Helper
    BY <1>6, <2>1 DEF Writer, Shares
  <2>3. ASSUME NEW x \in Parties, Writer(x) = Helper PROVE x = Session(1)
    <3>1. CASE x \in Clients
      BY <1>1, <2>3, <3>1, Numbers DEF Writer
    <3>2. CASE x \in Sessions
      <4>1. Shares(x - N)
        BY <1>2, <2>3, <3>2, Numbers DEF Writer
      <4> QED
        BY <1>2, <3>2, <4>1 DEF Shares
    <3> QED
      BY <3>1, <3>2 DEF Parties
  <2> QED
    BY <2>1, <2>2, <2>3
<1>7. ASSUME NEW w \in Parties \cup {Helper}, Writing(w), w = Helper => program.shared
      PROVE  /\ Peer(Socket(w)) \in Parties /\ Peer(Socket(w)) # w /\ Writer(Peer(Socket(w))) = w
             /\ \A x \in Parties : Writer(x) = w => x = Peer(Socket(w))
             /\ w \in Sessions => Peer(Socket(w)) \in Clients
             /\ w \notin Sessions => Peer(Socket(w)) \in Sessions
  <2>1. CASE w \in Clients
    <3>1. ~Shares(w) /\ w \notin Sessions
      BY <1>7, <2>1, Numbers DEF Writing
    <3> QED
      BY <1>4, <2>1, <3>1, Numbers DEF Parties
  <2>2. CASE w \in Sessions
    BY <1>5, <2>2, Numbers DEF Parties
  <2>3. CASE w = Helper
    BY <1>6, <1>7, <2>3, Numbers DEF Parties
  <2> QED
    BY <2>1, <2>2, <2>3 DEF Parties
<1> QED
  BY <1>3, <1>7

\* The next field: to a reader, how many bytes it reads; to a writer, bytes whose place in the
\* stream is behind those it has sent.
LEMMA Fields ==
  ASSUME Control, Flow, NEW c \in Parties \cup {Helper}
  PROVE  /\ ~Writing(c) => NextField(c) = Reads(Count(c))
         /\ Writing(c) => NextField(c).bytes # <<>>
         /\ Writing(c) /\ pc[c] = "next" /\ (c = Helper => program.shared) =>
              /\ NextField(c).bytes \in Seq(Byte) /\ Len(NextField(c).bytes) = Size(c)
              /\ Segment(Peer(Socket(c)), NextField(c).bytes, Sent(c))
<1>1. c \in Coroutines /\ step[c] \in Nat /\ program.calls \in Nat
  BY SocketsAssumption, Numbers DEF Control, Typed, Flow, DataTyped, Parties
<1> DEFINE n == step[c]
<1>2. n % 3 \in {0, 1, 2} /\ n \div 3 \in Nat
  BY <1>1, Third
<1>3. CASE c \in Sessions
  <2> DEFINE k == (n \div 3) + 1
  <2>1. NextField(c) = <<Reads(3), Reads(3), Writes(Reply(heard[c]))>>[(n % 3) + 1]
    BY <1>3 DEF NextField
  <2>2. (Writing(c) <=> n % 3 = 2) /\ Count(c) = 3 /\ Size(c) = 2 /\ Sent(c) = 2 * (k - 1)
    <3>1. 2 * (n \div 3) = 2 * (k - 1)
      BY <1>2
    <3> QED
      BY <1>3, <3>1 DEF Writing, Count, Size, Sent
  <2>3. CASE n % 3 # 2
    <3>1. n % 3 = 0 \/ n % 3 = 1
      BY <1>2, <2>3
    <3>2. NextField(c) = Reads(3)
      BY <2>1, <3>1
    <3> QED
      BY <2>2, <2>3, <3>2
  <2>4. CASE n % 3 = 2
    <3>1. NextField(c).bytes = Reply(heard[c])
      BY <2>1, <2>4 DEF Writes
    <3>2. \E m \in Nat : Reply(heard[c]) = Answer(m)
      <4>1. CASE \E m \in 1..program.calls : heard[c] = Name(m) \o Args(m)
        <5>1. PICK m \in 1..program.calls : heard[c] = Name(m) \o Args(m)
          BY <4>1
        <5> QED
          BY <1>1, <5>1, ReplyIs
      <4>2. CASE ~\E m \in 1..program.calls : heard[c] = Name(m) \o Args(m)
        BY <4>2 DEF Reply
      <4> QED
        BY <4>1, <4>2
    <3>3. NextField(c).bytes # <<>>
      BY <3>1, <3>2, FieldBytes
    <3>4. ASSUME pc[c] = "next"
          PROVE  /\ NextField(c).bytes \in Seq(Byte) /\ Len(NextField(c).bytes) = Size(c)
                 /\ Segment(Peer(Socket(c)), NextField(c).bytes, Sent(c))
      <4>1. heard[c] = Name(k) \o Args(k) /\ k \in 1..program.calls
        BY <1>3, <2>4, <3>4 DEF Flow, Heard, Sends, Dead
      <4>2. NextField(c).bytes = Answer(k) /\ k \in Nat /\ k >= 1
        BY <1>1, <3>1, <4>1, ReplyIs
      <4>3. Peer(Socket(c)) \in Clients
        BY <1>3, <2>2, <2>4, Writers, Numbers DEF Parties
      <4>4. Segment(Peer(Socket(c)), Answer(k), 2 * (k - 1))
        BY <4>2, <4>3, FieldSegments
      <4> QED
        BY <2>2, <4>2, <4>4, FieldBytes
    <3> QED
      BY <2>2, <2>4, <3>3, <3>4
  <2> QED
    BY <2>3, <2>4
<1>4. CASE c = Helper
  <2> DEFINE k == (n \div 2) + 1
  <2>1. c \notin Sessions /\ c \notin Clients
    BY <1>4, Numbers
  <2>2. Writing(c) /\ Size(c) = 3 /\ Sent(c) = 3 * n
    BY <1>4, <2>1 DEF Writing, Size, Sent
  <2>3. /\ n % 2 \in {0, 1} /\ k \in Nat /\ k >= 1
        /\ n % 2 = 0 => 3 * n = 6 * (k - 1)
        /\ n % 2 = 1 => 3 * n = 6 * (k - 1) + 3
    <3>1. /\ n % 2 \in {0, 1} /\ n \div 2 \in Nat
          /\ n % 2 = 0 => 3 * n = 6 * (n \div 2)
          /\ n % 2 = 1 => 3 * n = 6 * (n \div 2) + 3
      BY <1>1, Half
    <3>2. k - 1 = n \div 2 /\ k \in Nat /\ k >= 1
      BY <3>1
    <3> QED
      BY <3>1, <3>2
  <2>4. NextField(c) = <<Writes(Name(k)), Writes(Args(k)), Reads(2)>>[(n % 2) + 1]
    BY <1>4, <2>1 DEF NextField, Field, CallFields
  <2>5. ASSUME program.shared PROVE Peer(Socket(c)) \in Sessions
    BY <1>4, <2>1, <2>2, <2>5, Writers
  <2>6. CASE n % 2 = 0
    <3>1. NextField(c).bytes = Name(k)
      BY <2>4, <2>6 DEF Writes
    <3>2. 3 * n = 6 * (k - 1)
      BY <2>3, <2>6
    <3>3. Name(k) \in Seq(Byte) /\ Len(Name(k)) = 3 /\ Name(k) # <<>>
      BY <2>3, FieldBytes
    <3> QED
      BY <1>4, <2>2, <2>3, <2>5, <3>1, <3>2, <3>3, FieldSegments
  <2>7. CASE n % 2 = 1
    <3>1. NextField(c).bytes = Args(k)
      BY <2>4, <2>7 DEF Writes
    <3>2. 3 * n = 6 * (k - 1) + 3
      BY <2>3, <2>7
    <3>3. Args(k) \in Seq(Byte) /\ Len(Args(k)) = 3 /\ Args(k) # <<>>
      BY <2>3, FieldBytes
    <3> QED
      BY <1>4, <2>2, <2>3, <2>5, <3>1, <3>2, <3>3, FieldSegments
  <2> QED
    BY <2>3, <2>6, <2>7
<1>5. CASE c \in Clients
  <2> DEFINE k == (n \div 3) + 1
  <2>1. c \notin Sessions /\ c # Helper
    BY <1>5, Numbers
  <2>2. NextField(c) = <<Writes(Name(k)), Writes(Args(k)), Reads(2)>>[IF Shares(c) THEN 3 ELSE (n % 3) + 1]
    BY <2>1 DEF NextField, Field, CallFields, Shares
  <2>3. (Writing(c) <=> ~Shares(c) /\ n % 3 # 2) /\ Count(c) = 2 /\ Size(c) = 3 /\ Sent(c) = Thirds(n)
    BY <1>5, <2>1 DEF Writing, Count, Size, Sent
  <2>4. CASE Shares(c) \/ n % 3 = 2
    BY <2>2, <2>3, <2>4
  <2>5. CASE ~Shares(c) /\ n % 3 = 0
    <3>1. NextField(c).bytes = Name(k)
      BY <2>2, <2>5 DEF Writes
    <3>2. Thirds(n) = 6 * (k - 1) /\ k \in Nat /\ k >= 1
      BY <1>2, <2>5 DEF Thirds
    <3>3. Name(k) \in Seq(Byte) /\ Len(Name(k)) = 3 /\ Name(k) # <<>>
      BY <3>2, FieldBytes
    <3>4. Writing(c) /\ Peer(Socket(c)) \in Sessions
      BY <2>1, <2>3, <2>5, Writers
    <3> QED
      BY <2>3, <3>1, <3>2, <3>3, <3>4, FieldSegments
  <2>6. CASE ~Shares(c) /\ n % 3 = 1
    <3>1. NextField(c).bytes = Args(k)
      BY <2>2, <2>6 DEF Writes
    <3>2. Thirds(n) = 6 * (k - 1) + 3 /\ k \in Nat /\ k >= 1
      BY <1>2, <2>6 DEF Thirds
    <3>3. Args(k) \in Seq(Byte) /\ Len(Args(k)) = 3 /\ Args(k) # <<>>
      BY <3>2, FieldBytes
    <3>4. Writing(c) /\ Peer(Socket(c)) \in Sessions
      BY <2>1, <2>3, <2>6, Writers
    <3> QED
      BY <2>3, <3>1, <3>2, <3>3, <3>4, FieldSegments
  <2> QED
    BY <1>2, <2>4, <2>5, <2>6
<1> QED
  BY <1>3, <1>4, <1>5 DEF Parties

\* Steps that move no bytes and begin no operation.
LEMMA FlowQuiet ==
  ASSUME Flow, UNCHANGED <<program, wire, rest, want, got, buffer, available, step, heard>>,
         \A c \in Parties \cup {Helper} :
           /\ pc'[c] \in Sends => pc[c] \in Sends
           /\ pc'[c] \in Receives => pc[c] \in Receives
           /\ pc'[c] \notin Sends \cup Dead => pc[c] \notin Sends \cup Dead
           /\ pc'[c] \notin Receives \cup Dead => pc[c] \notin Receives \cup Dead
  PROVE  Flow'
<1>1. DataTyped'
  BY DEF Flow, DataTyped
<1>2. /\ \A c : /\ Writing(c)' <=> Writing(c)
                /\ Incoming(c)' = Incoming(c) /\ Taken(c)' = Taken(c) /\ Arrived(c)' = Arrived(c)
                /\ Writer(c)' = Writer(c) /\ Sent(c)' = Sent(c)
                /\ Shares(c)' <=> Shares(c)
  BY DEF Writing, Shares, Incoming, Taken, Arrived, Writer, Sent
<1>3. ASSUME NEW c \in Parties \cup {Helper} PROVE Position(c)'
  BY <1>2, <1>3 DEF Flow, Position
<1>4. ASSUME NEW c \in Parties PROVE Stream(c)'
  <2>1. Writer(c) \in Parties \cup {Helper}
    BY <1>4, Writers
  <2> QED
    BY <1>2, <1>4, <2>1 DEF Flow, Stream
<1>5. ASSUME NEW c \in Sessions PROVE Heard(c)'
  BY <1>5 DEF Flow, Heard, Parties
<1>6. ASSUME NEW c \in Clients PROVE Answered(c)'
  BY <1>2, <1>6 DEF Flow, Answered
<1> QED
  BY <1>1, <1>3, <1>4, <1>5, <1>6 DEF Flow, Parties

\* A step of one coroutine concerns what it reads, what it writes and its own state.
LEMMA FlowLocal ==
  ASSUME Flow, NEW c \in Parties \cup {Helper}, program' = program, DataTyped',
         \A e \in Coroutines \ {c} :
           /\ pc'[e] = pc[e] /\ rest'[e] = rest[e] /\ want'[e] = want[e] /\ got'[e] = got[e]
           /\ buffer'[e] = buffer[e] /\ available'[e] = available[e] /\ step'[e] = step[e]
           /\ heard'[e] = heard[e],
         \A x \in Parties : x # c /\ Writer(x) # c => wire'[x] = wire[x],
         Position(c)',
         \A x \in Parties : x = c \/ Writer(x) = c => Stream(x)',
         c \in Sessions => Heard(c)', c \in Clients => Answered(c)'
  PROVE  Flow'
<1>1. Parties \cup {Helper} \subseteq Coroutines
  BY Numbers DEF Parties
<1>2. ASSUME NEW e \in Parties \cup {Helper}, e # c PROVE Position(e)'
  <2>1. /\ pc'[e] = pc[e] /\ want'[e] = want[e] /\ buffer'[e] = buffer[e] /\ got'[e] = got[e]
        /\ available'[e] = available[e] /\ step'[e] = step[e]
    BY <1>1, <1>2
  <2>2. Writing(e)' <=> Writing(e)
    BY <2>1 DEF Writing, Shares
  <2> QED
    BY <1>2, <2>1, <2>2 DEF Flow, Position
<1>3. ASSUME NEW x \in Parties, x # c, Writer(x) # c PROVE Stream(x)'
  <2>1. Writer(x) \in Coroutines /\ Writer(x)' = Writer(x)
    BY <1>1, Writers DEF Writer, Shares
  <2>2. pc'[Writer(x)] = pc[Writer(x)] /\ rest'[Writer(x)] = rest[Writer(x)] /\ step'[Writer(x)] = step[Writer(x)]
    BY <1>3, <2>1
  <2>3. /\ x \in Coroutines /\ buffer'[x] = buffer[x] /\ got'[x] = got[x] /\ wire'[x] = wire[x]
        /\ step'[x] = step[x] /\ heard'[x] = heard[x]
    BY <1>1, <1>3
  <2>4. Incoming(x)' = Incoming(x) /\ Taken(x)' = Taken(x)
    BY <2>3 DEF Incoming, Taken
  <2>5. Arrived(x)' = Arrived(x)
    BY <2>4 DEF Arrived
  <2>6. Sent(Writer(x))' = Sent(Writer(x))
    BY <2>1, <2>2 DEF Sent
  <2> QED
    BY <1>3, <2>1, <2>2, <2>4, <2>5, <2>6 DEF Flow, Stream
<1>4. ASSUME NEW e \in Sessions, e # c PROVE Heard(e)'
  <2>1. pc'[e] = pc[e] /\ step'[e] = step[e] /\ heard'[e] = heard[e]
    BY <1>1, <1>4 DEF Parties
  <2> QED
    BY <1>4, <2>1 DEF Flow, Heard
<1>5. ASSUME NEW e \in Clients, e # c PROVE Answered(e)'
  <2>1. step'[e] = step[e] /\ heard'[e] = heard[e]
    BY <1>1, <1>5 DEF Parties
  <2> QED
    BY <1>5, <2>1 DEF Flow, Answered, Shares
<1> QED
  BY <1>2, <1>3, <1>4, <1>5 DEF Flow

\* Who reads or writes has a stream.
LEMMA WhoCalls ==
  ASSUME Typed, NEW c \in Coroutines, running = c,
         pc[c] \in {"next", "send", "sending", "receive", "receiving"}
  PROVE  c \in Parties \cup {Helper} /\ (c = Helper => program.shared)
<1>1. c # Acceptor /\ c # Closer
  BY ActiveRole DEF Active
<1> QED
  BY <1>1, Numbers, HelperShared DEF Parties

LEMMA WriteFlow ==
  ASSUME Control, Flow, NEW c \in Coroutines, Write(c)
  PROVE  Flow'
<1>1. /\ running = c /\ pc[c] = "next" /\ NextField(c).bytes # <<>> /\ pc' = [pc EXCEPT ![c] = "send"]
      /\ rest' = [rest EXCEPT ![c] = NextField(c).bytes]
      /\ heard' = IF c \in Sessions THEN [heard EXCEPT ![c] = <<>>] ELSE heard
      /\ UNCHANGED <<program, wire, want, got, buffer, available, step>>
  BY DEF Write, At, Goto, Set, kernelVars
<1>2. c \in Parties \cup {Helper} /\ (c = Helper => program.shared)
  BY <1>1, WhoCalls DEF Control
<1>3. Writing(c)
  BY <1>1, <1>2, Fields DEF Reads
<1> DEFINE x == Peer(Socket(c))
<1>4. /\ NextField(c).bytes \in Seq(Byte) /\ Len(NextField(c).bytes) = Size(c)
      /\ Segment(x, NextField(c).bytes, Sent(c))
  BY <1>1, <1>2, <1>3, Fields
<1>5. /\ x \in Parties /\ x # c /\ Writer(x) = c /\ \A y \in Parties : Writer(y) = c => y = x
  BY <1>2, <1>3, Writers
<1>6. DataTyped /\ pc \in [Coroutines -> Labels]
  BY DEF Control, Typed, Flow
<1>7. /\ pc'[c] = "send" /\ rest'[c] = NextField(c).bytes /\ (c \in Sessions => heard'[c] = <<>>)
      /\ c \in Clients => heard'[c] = heard[c]
      /\ \A e \in Coroutines \ {c} : pc'[e] = pc[e] /\ rest'[e] = rest[e] /\ heard'[e] = heard[e]
  BY <1>1, <1>6, Numbers DEF DataTyped
<1>8. DataTyped'
  <2>1. rest' \in [Coroutines -> Seq(Byte)] /\ DOMAIN heard' = Coroutines
    BY <1>1, <1>4, <1>6 DEF DataTyped
  <2>2. \A e \in Clients : heard'[e] \in Seq(Seq(Byte))
    BY <1>6, <1>7, Numbers DEF DataTyped
  <2>3. ASSUME NEW e \in Sessions PROVE heard'[e] \in Seq(Byte)
    <3>1. CASE e = c
      <4>1. heard'[e] = <<>>
        BY <1>7, <3>1
      <4> QED
        BY <4>1
    <3>2. CASE e # c
      <4>1. heard'[e] = heard[e]
        BY <1>7, <3>2, Numbers
      <4> QED
        BY <1>6, <4>1 DEF DataTyped
    <3> QED
      BY <3>1, <3>2
  <2> QED
    BY <1>1, <1>6, <2>1, <2>2, <2>3 DEF DataTyped
<1>9. Position(c)'
  <2>1. Position(c) /\ (Writing(c)' <=> Writing(c))
    BY <1>1, <1>2 DEF Flow, Writing, Shares
  <2> QED
    BY <1>1, <1>3, <1>7, <2>1 DEF Position, Sends, Receives, Dead
<1>10. /\ \A y \in Parties : Incoming(y)' = Incoming(y) /\ Taken(y)' = Taken(y)
       /\ \A w : Sent(w)' = Sent(w) /\ Writer(w)' = Writer(w) /\ Size(w)' = Size(w)
  <2>1. \A y \in Parties : Taken(y)' = Taken(y)
    BY <1>1, <1>7, Numbers DEF Taken, Parties
  <2> QED
    BY <1>1, <2>1 DEF Incoming, Sent, Writer, Shares, Size
<1>11. \A y \in Parties : Arrived(y)' = Arrived(y)
  BY <1>10 DEF Arrived
<1>12. Stream(x)'
  <2>1. Stream(x) /\ pc[Writer(x)] = "next"
    BY <1>1, <1>5 DEF Flow
  <2>2. Segment(x, Incoming(x), Taken(x)) /\ Arrived(x) = Sent(c)
    BY <1>5, <2>1 DEF Stream, Sends, Dead
  <2>3. Writer(x)' = c
    BY <1>5, <1>10
  <2>4. Arrived(x)' + Len(rest'[c]) = Sent(c)' + Size(c)' /\ Segment(x, rest'[c], Arrived(x)')
    BY <1>4, <1>5, <1>7, <1>10, <1>11, <2>2
  <2>5. Segment(x, Incoming(x)', Taken(x)')
    BY <1>5, <1>10, <2>2
  <2> QED
    BY <1>7, <2>3, <2>4, <2>5 DEF Stream, Sends
<1>13. ASSUME c \in Parties PROVE Stream(c)'
  <2>1. Stream(c) /\ Writer(c) # c /\ Writer(c) \in Coroutines
    BY <1>13, Writers, Numbers DEF Flow, Parties
  <2>2. pc'[Writer(c)] = pc[Writer(c)] /\ rest'[Writer(c)] = rest[Writer(c)]
    BY <1>7, <2>1
  <2> QED
    BY <1>10, <1>11, <1>13, <2>1, <2>2 DEF Stream
<1>14. ASSUME c \in Sessions PROVE Heard(c)'
  <2>1. step[c] % 3 = 2 /\ Heard(c)
    BY <1>3, <1>14 DEF Writing, Flow
  <2> QED
    BY <1>1, <1>7, <1>14, <2>1 DEF Heard, Sends
<1>15. ASSUME c \in Clients PROVE Answered(c)'
  BY <1>1, <1>7, <1>15 DEF Flow, Answered, Shares
<1> QED
  BY <1>1, <1>2, <1>5, <1>7, <1>8, <1>9, <1>12, <1>13, <1>14, <1>15, FlowLocal

\* Some bytes of a field go under way; behind the last of them the field is written.
LEMMA SendFlow ==
  ASSUME Control, Flow, NEW c \in Coroutines, Send(c)
  PROVE  Flow'
<1>1. running = c /\ pc[c] = "sending"
  BY DEF Send, At
<1>2. c \in Parties \cup {Helper} /\ (c = Helper => program.shared)
  BY <1>1, WhoCalls DEF Control
<1>3. Writing(c) /\ Position(c)
  BY <1>1, <1>2 DEF Flow, Position, Sends
<1> DEFINE x == Peer(Socket(c))
           r == rest[c]
<1>4. /\ x \in Parties /\ x # c /\ Writer(x) = c /\ \A y \in Parties : Writer(y) = c => y = x
  BY <1>2, <1>3, Writers
<1>5. DataTyped /\ pc \in [Coroutines -> Labels]
  BY DEF Control, Typed, Flow
<1>6. r \in Seq(Byte) /\ Len(r) \in Nat /\ x \in Sockets /\ wire[x] \in Seq(Byte) /\ Len(wire[x]) \in Nat
  <2>1. x \in Sockets
    BY <1>4, Numbers DEF Parties
  <2> QED
    BY <1>5, <2>1 DEF DataTyped
<1>7. PICK n \in Sendable(c) :
        /\ wire' = [wire EXCEPT ![x] = @ \o SubSeq(r, 1, n)]
        /\ rest' = [rest EXCEPT ![c] = SubSeq(r, n + 1, Len(r))]
  BY DEF Send, Set
<1>8. n \in 0..Len(r)
  <2>1. CASE Socket(c) \in nonBlocking \/ ~PeerThere(Socket(c))
    <3>1. Room(Socket(c)) \in Int
      BY <1>6, SocketsAssumption DEF Room
    <3>2. Min({Room(Socket(c)), Len(r)}) <= Len(r)
      <4>1. \E a \in {Room(Socket(c)), Len(r)} : \A b \in {Room(Socket(c)), Len(r)} : a =< b
        BY <1>6, <3>1
      <4> QED
        BY <1>6, <4>1 DEF Min
    <3>3. Min({Room(Socket(c)), Len(r)}) \in Int
      <4>1. \E a \in {Room(Socket(c)), Len(r)} : \A b \in {Room(Socket(c)), Len(r)} : a =< b
        BY <1>6, <3>1
      <4> QED
        BY <1>6, <3>1, <4>1 DEF Min
    <3> QED
      BY <1>6, <2>1, <3>2, <3>3 DEF Sendable
  <2>2. CASE ~(Socket(c) \in nonBlocking \/ ~PeerThere(Socket(c)))
    BY <1>6, <2>2 DEF Sendable
  <2> QED
    BY <2>1, <2>2
<1> DEFINE a == SubSeq(r, 1, n)
           b == SubSeq(r, n + 1, Len(r))
<1>9. /\ a \in Seq(Byte) /\ b \in Seq(Byte) /\ a \o b = r /\ Len(a) = n /\ Len(b) = Len(r) - n
  BY <1>6, <1>8, Split
<1>10. /\ wire'[x] = wire[x] \o a /\ \A y \in Sockets \ {x} : wire'[y] = wire[y]
       /\ rest'[c] = b /\ \A e \in Coroutines \ {c} : rest'[e] = rest[e]
       /\ wire' \in [Sockets -> Seq(Byte)] /\ rest' \in [Coroutines -> Seq(Byte)]
  <2>1. wire[x] \o a \in Seq(Byte)
    BY <1>6, <1>9
  <2> QED
    BY <1>5, <1>6, <1>7, <1>9, <2>1 DEF DataTyped
<1> HIDE DEF x, r, a, b
<1>11. /\ UNCHANGED <<program, want, got, buffer, available, heard>>
       /\ \/ b = <<>> /\ pc' = [pc EXCEPT ![c] = "next"] /\ step' = [step EXCEPT ![c] = @ + 1]
          \/ b # <<>> /\ pc' = [pc EXCEPT ![c] = "send"] /\ step' = step
  BY <1>10 DEF Send, Goto, Advance, Set
<1>12. /\ step' \in [Coroutines -> Nat]
       /\ \A e \in Coroutines \ {c} : pc'[e] = pc[e] /\ step'[e] = step[e]
       /\ \/ b = <<>> /\ pc'[c] = "next" /\ step'[c] = step[c] + 1
          \/ b # <<>> /\ pc'[c] = "send" /\ step'[c] = step[c]
  <2>1. step \in [Coroutines -> Nat]
    BY <1>5 DEF DataTyped
  <2>2. CASE b = <<>>
    <3>1. pc' = [pc EXCEPT ![c] = "next"] /\ step' = [step EXCEPT ![c] = @ + 1]
      BY <1>11, <2>2
    <3>2. step' \in [Coroutines -> Nat] /\ step'[c] = step[c] + 1 /\ \A e \in Coroutines \ {c} : step'[e] = step[e]
      BY <2>1, <3>1
    <3> QED
      BY <1>5, <2>2, <3>1, <3>2
  <2>3. CASE b # <<>>
    BY <1>5, <1>11, <2>1, <2>3
  <2> QED
    BY <2>2, <2>3
<1>13. DataTyped'
  BY <1>5, <1>10, <1>11, <1>12 DEF DataTyped
<1>14. step[c] \in Nat /\ c \in Coroutines
  BY <1>5 DEF DataTyped
<1>15. pc'[c] = "send" => (Writing(c)' <=> Writing(c))
  BY <1>11, <1>12 DEF Writing, Shares
<1>16. Position(c)'
  BY <1>1, <1>3, <1>11, <1>12, <1>15 DEF Position, Sends, Receives, Dead
<1>17. /\ Sent(c)' = IF b = <<>> THEN Sent(c) + Size(c) ELSE Sent(c)
       /\ Taken(c)' = Taken(c) /\ Size(c)' = Size(c) /\ Sent(c) \in Nat
  <2>1. CASE c \in Sessions
    <3>1. step[c] % 3 = 2
      BY <1>3, <2>1 DEF Writing
    <3>2. /\ step[c] \div 3 \in Nat /\ (step[c] + 1) \div 3 = step[c] \div 3 + 1
          /\ Thirds(step[c] + 1) = Thirds(step[c])
      BY <1>14, <3>1, Third, ThirdsNext
    <3>3. /\ step'[c] \div 3 = IF b = <<>> THEN step[c] \div 3 + 1 ELSE step[c] \div 3
          /\ Thirds(step'[c]) = Thirds(step[c])
      BY <1>12, <3>2
    <3>4. /\ Sent(c) = 2 * (step[c] \div 3) /\ Sent(c)' = 2 * (step'[c] \div 3)
          /\ Size(c) = 2 /\ Size(c)' = 2 /\ Taken(c) = Thirds(step[c]) /\ Taken(c)' = Thirds(step'[c])
      BY <2>1 DEF Sent, Size, Taken
    <3> QED
      BY <3>2, <3>3, <3>4
  <2>2. CASE c = Helper
    <3>1. c \notin Sessions
      BY <2>2, Numbers
    <3> QED
      BY <1>11, <1>12, <1>14, <2>2, <3>1 DEF Sent, Size, Taken
  <2>3. CASE c \in Clients
    <3>1. c \notin Sessions /\ c # Helper
      BY <2>3, Numbers
    <3>2. step[c] % 3 # 2
      BY <1>3, <2>3, <3>1 DEF Writing
    <3> QED
      BY <1>11, <1>12, <1>14, <2>3, <3>1, <3>2, ThirdsNext DEF Sent, Size, Taken
  <2> QED
    BY <1>2, <2>1, <2>2, <2>3 DEF Parties
<1>18. /\ \A y \in Parties \ {c} : step'[y] = step[y] /\ Taken(y)' = Taken(y)
       /\ \A w : Writer(w)' = Writer(w)
       /\ \A w \in Parties \cup {Helper} : w # c => Sent(w)' = Sent(w) /\ Size(w)' = Size(w)
  <2>1. \A w \in Parties \cup {Helper} : w # c => step'[w] = step[w]
    BY <1>12, Numbers DEF Parties
  <2> QED
    BY <1>11, <2>1 DEF Taken, Writer, Shares, Sent, Size
<1>19. Stream(x)'
  <2>1. Stream(x) /\ x \in Coroutines /\ Taken(x) \in Nat
    <3>1. x \in Coroutines /\ Stream(x)
      BY <1>4, Numbers DEF Flow, Parties
    <3>2. CASE x \in Sessions
      BY <1>5, <3>1, <3>2, ThirdsNext DEF Taken, DataTyped
    <3>3. CASE x \notin Sessions
      <4>1. heard[x] \in Seq(Seq(Byte))
        BY <1>4, <1>5, <3>3 DEF DataTyped, Parties
      <4>2. Len(heard[x]) \in Nat
        BY <4>1
      <4>3. Taken(x) = 2 * Len(heard[x])
        BY <3>3 DEF Taken
      <4> QED
        BY <3>1, <4>2, <4>3
    <3> QED
      BY <3>1, <3>2, <3>3
  <2> DEFINE before == buffer[x] \o got[x]
  <2>2. before \in Seq(Byte) /\ Incoming(x) = before \o wire[x] /\ Incoming(x)' = before \o (wire[x] \o a)
    BY <1>5, <1>10, <1>11, <2>1 DEF DataTyped, Incoming
  <2> HIDE DEF before
  <2>3. Incoming(x)' = Incoming(x) \o a /\ Incoming(x) \in Seq(Byte)
    <3>1. (before \o wire[x]) \o a = before \o (wire[x] \o a)
      <4>1. before \in Seq(Byte) /\ wire[x] \in Seq(Byte) /\ a \in Seq(Byte)
        BY <1>6, <1>9, <2>2
      <4>2. \A u \in Seq(Byte) : (before \o wire[x]) \o u = before \o (wire[x] \o u)
        BY <4>1, BytesConcat
      <4> QED
        BY <4>1, <4>2
    <3>2. before \o wire[x] \in Seq(Byte)
      BY <1>6, <2>2, BytesConcat
    <3> QED
      BY <2>2, <3>1, <3>2
  <2>4. Len(Incoming(x)') = Len(Incoming(x)) + n /\ Len(Incoming(x)) \in Nat
    BY <1>9, <2>3, BytesConcat
  <2>5. Arrived(x) = Taken(x) + Len(Incoming(x)) /\ Arrived(x)' = Arrived(x) + n /\ Arrived(x) \in Nat
    BY <1>4, <1>8, <1>18, <2>1, <2>4 DEF Arrived
  <2>6. /\ Segment(x, Incoming(x), Taken(x)) /\ Arrived(x) + Len(r) = Sent(c) + Size(c) /\ Segment(x, r, Arrived(x))
    BY <1>1, <1>4, <2>1 DEF Stream, Sends, r
  <2>7. Segment(x, a, Arrived(x)) /\ Segment(x, b, Arrived(x) + n)
    BY <1>9, <2>5, <2>6, SegmentConcat
  <2>8. Segment(x, Incoming(x)', Taken(x))
    BY <1>9, <2>1, <2>3, <2>5, <2>6, <2>7, SegmentConcat
  <2>9. Size(c) \in Nat
    BY DEF Size
  <2>10. CASE b = <<>>
    <3>1. n = Len(r)
      BY <1>6, <1>8, <1>9, <2>10
    <3>2. Arrived(x)' = Sent(c)' /\ pc'[c] = "next"
      BY <1>12, <1>17, <2>5, <2>6, <2>10, <3>1
    <3> QED
      BY <1>4, <1>18, <2>8, <3>2 DEF Stream, Sends
  <2>11. CASE b # <<>>
    <3>1. Arrived(x)' + Len(rest'[c]) = Sent(c)' + Size(c)'
      <4>1. rest'[c] = b /\ Sent(c)' = Sent(c) /\ Size(c)' = Size(c)
        BY <1>10, <1>17, <2>11
      <4>2. Len(r) = n + Len(b) /\ Len(b) \in Nat /\ n \in Nat
        BY <1>6, <1>8, <1>9
      <4> QED
        BY <2>5, <2>6, <2>9, <4>1, <4>2
    <3>2. Segment(x, rest'[c], Arrived(x)') /\ pc'[c] = "send"
      BY <1>10, <1>12, <2>5, <2>7, <2>11
    <3> QED
      BY <1>4, <1>18, <2>8, <3>1, <3>2 DEF Stream, Sends
  <2> QED
    BY <2>10, <2>11
<1>20. ASSUME c \in Parties PROVE Stream(c)'
  <2>1. Stream(c) /\ Writer(c) # c /\ Writer(c) \in Parties \cup {Helper} /\ Writer(c) \in Coroutines
    BY <1>20, Writers, Numbers DEF Flow, Parties
  <2>2. pc'[Writer(c)] = pc[Writer(c)] /\ rest'[Writer(c)] = rest[Writer(c)]
    BY <1>10, <1>12, <2>1
  <2>3. Sent(Writer(c))' = Sent(Writer(c)) /\ Size(Writer(c))' = Size(Writer(c)) /\ Writer(c)' = Writer(c)
    BY <1>18, <2>1
  <2>4. Incoming(c)' = Incoming(c)
    <3>1. c \in Sockets /\ c # x
      BY <1>4, <1>20, Numbers DEF Parties
    <3> QED
      BY <1>10, <1>11, <3>1 DEF Incoming
  <2>5. Arrived(c)' = Arrived(c)
    BY <1>17, <2>4 DEF Arrived
  <2> QED
    BY <1>17, <2>1, <2>2, <2>3, <2>4, <2>5 DEF Stream
<1>21. ASSUME c \in Sessions PROVE Heard(c)'
  <2>1. step[c] % 3 = 2 /\ Heard(c)
    BY <1>3, <1>21 DEF Writing, Flow
  <2>2. heard'[c] = <<>>
    BY <1>1, <1>11, <2>1 DEF Heard, Sends
  <2>3. CASE b = <<>>
    <3>1. step'[c] % 3 = 0
      BY <1>12, <1>14, <2>1, <2>3, Third
    <3> QED
      BY <2>2, <3>1 DEF Heard
  <2>4. CASE b # <<>>
    BY <1>1, <1>11, <1>12, <2>1, <2>2, <2>4 DEF Heard, Sends
  <2> QED
    BY <2>3, <2>4
<1>22. ASSUME c \in Clients PROVE Answered(c)'
  <2>1. ~Shares(c) /\ step[c] % 3 # 2 /\ Answered(c)
    BY <1>3, <1>22, Numbers DEF Writing, Flow
  <2>2. step'[c] \div 3 = step[c] \div 3
    BY <1>12, <1>14, <2>1, Third
  <2> QED
    BY <1>11, <2>1, <2>2 DEF Answered, Shares
<1>23. \A y \in Parties : y # c /\ Writer(y) # c => wire'[y] = wire[y]
  BY <1>4, <1>10, Numbers DEF Parties
<1>24. \A y \in Parties : y = c \/ Writer(y) = c => Stream(y)'
  BY <1>4, <1>19, <1>20
<1>25. \A e \in Coroutines \ {c} :
         /\ pc'[e] = pc[e] /\ rest'[e] = rest[e] /\ want'[e] = want[e] /\ got'[e] = got[e]
         /\ buffer'[e] = buffer[e] /\ available'[e] = available[e] /\ step'[e] = step[e]
         /\ heard'[e] = heard[e]
  BY <1>10, <1>11, <1>12
<1> QED
  BY <1>2, <1>11, <1>13, <1>16, <1>21, <1>22, <1>23, <1>24, <1>25, FlowLocal

LEMMA TakenNat ==
  ASSUME DataTyped, NEW x \in Parties
  PROVE  Taken(x) \in Nat /\ Incoming(x) \in Seq(Byte) /\ Len(Incoming(x)) \in Nat
<1>1. x \in Coroutines /\ x \in Sockets
  BY Numbers DEF Parties
<1>2. ASSUME x \in Sessions PROVE Taken(x) \in Nat
  BY <1>1, <1>2, ThirdsNext DEF Taken, DataTyped
<1>3. ASSUME x \notin Sessions PROVE Taken(x) \in Nat
  <2>1. heard[x] \in Seq(Seq(Byte))
    BY <1>3 DEF DataTyped, Parties
  <2>2. Len(heard[x]) \in Nat
    BY <2>1
  <2>3. Taken(x) = 2 * Len(heard[x])
    BY <1>3 DEF Taken
  <2> QED
    BY <2>2, <2>3
<1>4. buffer[x] \in Seq(Byte) /\ got[x] \in Seq(Byte) /\ wire[x] \in Seq(Byte)
  BY <1>1 DEF DataTyped
<1>5. buffer[x] \o got[x] \in Seq(Byte)
  BY <1>4
<1>6. Incoming(x) \in Seq(Byte) /\ Len(Incoming(x)) \in Nat
  BY <1>4, <1>5, BytesConcat DEF Incoming
<1> QED
  BY <1>2, <1>3, <1>6

\* A field that is read is the next one of the stream.
LEMMA TakeFlow ==
  ASSUME Control, Flow, ~escaped', NEW c \in Parties, ~Writing(c), pc[c] \in {"next", "receiving"},
         NEW bytes \in Seq(Byte), NEW left \in Seq(Byte), bytes \o left = Incoming(c),
         Len(bytes) >= Count(c),
         buffer' = Set(buffer, c, SubSeq(bytes, Count(c) + 1, Len(bytes))),
         available' = Set(available, c, available[c] + Len(bytes) - Len(buffer[c]) - Count(c)),
         got' \in [Coroutines -> Seq(Byte)], got'[c] = <<>>, \A e \in Coroutines \ {c} : got'[e] = got[e],
         wire' \in [Sockets -> Seq(Byte)], wire'[c] = left, \A s \in Sockets \ {c} : wire'[s] = wire[s],
         Delivered(c, SubSeq(bytes, 1, Min({Count(c), Len(bytes)}))),
         UNCHANGED <<program, rest, want>>
  PROVE  Flow'
<1> DEFINE n == Count(c)
           f == SubSeq(bytes, 1, n)
           b == SubSeq(bytes, n + 1, Len(bytes))
<1>1. n \in Nat /\ n = (IF c \in Sessions THEN 3 ELSE 2) /\ n \in 0..Len(bytes) /\ Len(bytes) \in Nat
  BY DEF Count
<1>2. f \in Seq(Byte) /\ Len(f) = n /\ b \in Seq(Byte) /\ Len(b) = Len(bytes) - n /\ f \o b = bytes
  BY <1>1, Split
<1>3. Min({Count(c), Len(bytes)}) = n
  <2>1. Count(c) \in Int /\ Len(bytes) \in Int /\ Count(c) <= Len(bytes)
    BY <1>1
  <2> QED
    BY <2>1, MinPair
<1>4. Delivered(c, f) /\ buffer' = Set(buffer, c, b)
  BY <1>3
<1> HIDE DEF f, b, n
<1>5. /\ ~(c \in Sessions /\ step[c] % 3 = 0 /\ ~Known(f))
      /\ step' = [step EXCEPT ![c] = @ + 1] /\ pc' = [pc EXCEPT ![c] = "next"]
      /\ IF c \in Sessions THEN heard' = [heard EXCEPT ![c] = heard[c] \o f]
         ELSE heard' = [heard EXCEPT ![c] = Append(heard[c], f)]
  BY <1>4 DEF Delivered, Escapes, Advance, Goto, Set, Keeps, Collects
<1>6. DataTyped /\ pc \in [Coroutines -> Labels] /\ program.calls \in Nat
  BY SocketsAssumption DEF Control, Typed, Flow
<1>7. c \in Coroutines /\ c \in Sockets /\ c # Helper
  BY Numbers DEF Parties
<1>8. step[c] \in Nat /\ step[c] % 3 \in {0, 1, 2} /\ step[c] \div 3 \in Nat
  BY <1>6, <1>7, Third DEF DataTyped
<1>9. /\ step' \in [Coroutines -> Nat] /\ step'[c] = step[c] + 1 /\ pc'[c] = "next"
      /\ \A e \in Coroutines \ {c} : pc'[e] = pc[e] /\ step'[e] = step[e]
  <2>1. step \in [Coroutines -> Nat]
    BY <1>6 DEF DataTyped
  <2>2. step' \in [Coroutines -> Nat] /\ step'[c] = step[c] + 1 /\ \A e \in Coroutines \ {c} : step'[e] = step[e]
    BY <1>5, <1>7, <2>1
  <2> QED
    BY <1>5, <1>6, <1>7, <2>2
<1>10. /\ DOMAIN heard' = Coroutines /\ \A e \in Coroutines \ {c} : heard'[e] = heard[e]
       /\ heard'[c] = IF c \in Sessions THEN heard[c] \o f ELSE Append(heard[c], f)
  BY <1>5, <1>6, <1>7 DEF DataTyped
<1>11. /\ buffer' \in [Coroutines -> Seq(Byte)] /\ buffer'[c] = b
       /\ \A e \in Coroutines \ {c} : buffer'[e] = buffer[e]
  <2>1. buffer \in [Coroutines -> Seq(Byte)]
    BY <1>6 DEF DataTyped
  <2>2. buffer' = [buffer EXCEPT ![c] = b]
    BY <1>4 DEF Set
  <2> QED
    BY <1>2, <1>7, <2>1, <2>2
<1>12. available[c] = Len(buffer[c]) /\ Len(buffer[c]) \in Nat
  BY <1>6, <1>7 DEF Flow, Position, DataTyped
<1>13. /\ available' \in [Coroutines -> Int] /\ available'[c] = Len(b)
       /\ \A e \in Coroutines \ {c} : available'[e] = available[e]
  <2>1. available[c] + Len(bytes) - Len(buffer[c]) - n = Len(b)
    BY <1>1, <1>2, <1>12
  <2>2. available' = [available EXCEPT ![c] = Len(b)]
    <3>1. available' = [available EXCEPT ![c] = available[c] + Len(bytes) - Len(buffer[c]) - n]
      BY DEF Set, n
    <3> QED
      BY <2>1, <3>1
  <2>3. Len(b) \in Int
    BY <1>1, <1>2
  <2> QED
    BY <1>6, <1>7, <2>2, <2>3 DEF DataTyped
<1>14. DataTyped'
  <2>1. ASSUME NEW e \in Clients PROVE heard'[e] \in Seq(Seq(Byte))
    <3>1. heard[e] \in Seq(Seq(Byte)) /\ e \in Coroutines /\ e \notin Sessions
      BY <1>6, Numbers DEF DataTyped
    <3>2. Append(heard[e], f) \in Seq(Seq(Byte))
      BY <1>2, <3>1
    <3> QED
      BY <1>10, <3>1, <3>2
  <2>2. ASSUME NEW e \in Sessions PROVE heard'[e] \in Seq(Byte)
    <3>1. heard[e] \in Seq(Byte) /\ e \in Coroutines
      BY <1>6, Numbers DEF DataTyped
    <3>2. heard[e] \o f \in Seq(Byte)
      BY <1>2, <3>1
    <3> QED
      BY <1>10, <3>1, <3>2
  <2> QED
    BY <1>6, <1>9, <1>10, <1>11, <1>13, <2>1, <2>2 DEF DataTyped
<1>15. Position(c)'
  BY <1>9, <1>11, <1>13 DEF Position, Sends, Receives
<1>16. Taken(c) \in Nat /\ Incoming(c) \in Seq(Byte) /\ Len(Incoming(c)) \in Nat
  BY <1>6, TakenNat
<1>17. Incoming(c)' = b \o left /\ f \o (b \o left) = Incoming(c) /\ b \o left \in Seq(Byte)
  <2>1. Incoming(c)' = (b \o <<>>) \o left
    BY <1>11 DEF Incoming
  <2>2. b \o <<>> = b /\ b \o left \in Seq(Byte)
    BY <1>2, BytesConcat
  <2>3. \A u \in Seq(Byte) : (f \o b) \o u = f \o (b \o u)
    BY <1>2, BytesConcat
  <2>4. (f \o b) \o left = f \o (b \o left)
    BY <2>3
  <2> QED
    BY <1>2, <2>1, <2>2, <2>4
<1>18. Stream(c)
  BY DEF Flow
<1>19. Segment(c, f, Taken(c)) /\ Segment(c, b \o left, Taken(c) + n)
  <2>1. Segment(c, f \o (b \o left), Taken(c))
    BY <1>17, <1>18 DEF Stream
  <2> QED
    BY <1>2, <1>16, <1>17, <2>1, SegmentConcat
<1>20. Taken(c)' = Taken(c) + n
  <2>1. CASE c \in Sessions
    <3>1. step[c] % 3 # 2
      BY <2>1 DEF Writing
    <3>2. Taken(c)' = Thirds(step'[c]) /\ Taken(c) = Thirds(step[c])
      BY <2>1 DEF Taken
    <3> QED
      BY <1>1, <1>8, <1>9, <2>1, <3>1, <3>2, ThirdsNext
  <2>2. CASE c \notin Sessions
    <3>1. heard[c] \in Seq(Seq(Byte))
      BY <1>6, <2>2 DEF DataTyped, Parties
    <3>2. heard'[c] = Append(heard[c], f)
      BY <1>10, <2>2
    <3>3. Len(heard'[c]) = Len(heard[c]) + 1 /\ Len(heard[c]) \in Nat
      BY <1>2, <3>1, <3>2
    <3>4. Taken(c)' = 2 * Len(heard'[c]) /\ Taken(c) = 2 * Len(heard[c])
      BY <2>2 DEF Taken
    <3> QED
      BY <1>1, <2>2, <3>3, <3>4
  <2> QED
    BY <2>1, <2>2
<1>21. Arrived(c)' = Arrived(c)
  <2>1. Len(Incoming(c)) = n + Len(b \o left) /\ Len(b \o left) \in Nat
    <3>1. b \o left \in Seq(Byte) /\ Len(b \o left) \in Nat
      BY <1>2, <1>17, BytesConcat
    <3>2. Len(f \o (b \o left)) = Len(f) + Len(b \o left)
      BY <1>2, <3>1, BytesConcat
    <3> QED
      BY <1>2, <1>17, <3>1, <3>2
  <2>2. Arrived(c)' = (Taken(c) + n) + Len(b \o left) /\ Arrived(c) = Taken(c) + (n + Len(b \o left))
    BY <1>17, <1>20, <2>1 DEF Arrived
  <2>3. (Taken(c) + n) + Len(b \o left) = Taken(c) + (n + Len(b \o left))
    <3>1. Taken(c) \in Int
      BY <1>16
    <3>2. n \in Int
      BY <1>1
    <3>3. Len(b \o left) \in Int
      BY <2>1
    <3> QED
      BY <3>1, <3>2, <3>3
  <2> QED
    BY <2>2, <2>3
<1>22. Stream(c)'
  <2>1. Writer(c) # c /\ Writer(c) \in Coroutines /\ Writer(c)' = Writer(c)
    <3>1. Writer(c) # c /\ Writer(c) \in Parties \cup {Helper}
      BY Writers
    <3>2. Writer(c) \in Coroutines
      BY <3>1, Numbers DEF Parties
    <3>3. Writer(c)' = Writer(c)
      BY DEF Writer, Shares
    <3> QED
      BY <3>1, <3>2, <3>3
  <2>2. pc'[Writer(c)] = pc[Writer(c)] /\ rest'[Writer(c)] = rest[Writer(c)] /\ step'[Writer(c)] = step[Writer(c)]
    BY <1>9, <2>1
  <2>3. Sent(Writer(c))' = Sent(Writer(c)) /\ Size(Writer(c))' = Size(Writer(c))
    BY <2>1, <2>2 DEF Sent, Size
  <2>4. Segment(c, Incoming(c)', Taken(c)')
    BY <1>17, <1>19, <1>20
  <2> QED
    BY <1>18, <1>21, <2>1, <2>2, <2>3, <2>4 DEF Stream
<1>23. ASSUME NEW x \in Parties, Writer(x) = c PROVE Stream(x)'
  <2>1. x # c /\ Writer(x)' = c /\ x \in Coroutines /\ x \in Sockets /\ Stream(x)
    BY <1>23, Writers, Numbers DEF Writer, Shares, Parties, Flow
  <2>2. Sent(c)' = Sent(c)
    <3>1. CASE c \in Sessions
      <4>1. step[c] % 3 # 2
        BY <3>1 DEF Writing
      <4>2. step'[c] \div 3 = step[c] \div 3
        BY <1>8, <1>9, <4>1, Third
      <4> QED
        BY <3>1, <4>2 DEF Sent
    <3>2. CASE c \in Clients
      <4>1. ~Shares(c)
        <5>1. x \in Sessions /\ x - N = c
          BY <1>23, <3>2, SessionNumbers, Numbers DEF Writer, Parties
        <5> QED
          BY <1>23, <1>7, <5>1, Numbers DEF Writer
      <4>2. step[c] % 3 = 2 /\ c \notin Sessions
        BY <3>2, <4>1, Numbers DEF Writing
      <4>3. Thirds(step'[c]) = Thirds(step[c])
        BY <1>8, <1>9, <4>2, ThirdsNext
      <4> QED
        BY <1>7, <4>2, <4>3 DEF Sent
    <3> QED
      BY <3>1, <3>2 DEF Parties
  <2>3. Incoming(x)' = Incoming(x) /\ Taken(x)' = Taken(x)
    <3>1. buffer'[x] = buffer[x] /\ wire'[x] = wire[x] /\ got'[x] = got[x] /\ heard'[x] = heard[x] /\ step'[x] = step[x]
      BY <1>9, <1>10, <1>11, <2>1
    <3> QED
      BY <3>1 DEF Incoming, Taken
  <2>4. Arrived(x)' = Arrived(x)
    BY <2>3 DEF Arrived
  <2>5. Segment(x, Incoming(x), Taken(x)) /\ Arrived(x) = Sent(c)
    BY <1>23, <2>1 DEF Stream, Sends, Dead
  <2> QED
    BY <1>9, <2>1, <2>2, <2>3, <2>4, <2>5 DEF Stream, Sends
<1>24. ASSUME c \in Sessions PROVE Heard(c)'
  <2> DEFINE k == (step[c] \div 3) + 1
  <2>1. Heard(c) /\ step[c] % 3 \in {0, 1} /\ Taken(c) = Thirds(step[c]) /\ Len(f) = 3 /\ k \in Nat /\ k >= 1
    <3>1. Heard(c) /\ Taken(c) = Thirds(step[c])
      BY <1>24 DEF Flow, Taken
    <3>2. step[c] % 3 \in {0, 1}
      BY <1>8, <1>24 DEF Writing
    <3>3. Len(f) = 3
      BY <1>1, <1>2, <1>24
    <3>4. k \in Nat /\ k >= 1
      BY <1>8
    <3> QED
      BY <3>1, <3>2, <3>3, <3>4
  <2>2. CASE step[c] % 3 = 0
    <3>1. Taken(c) = 6 * (k - 1)
      <4>1. Thirds(step[c]) = 6 * (step[c] \div 3) /\ k - 1 = step[c] \div 3
        BY <1>8, <2>2 DEF Thirds
      <4> QED
        BY <2>1, <4>1
    <3>2. f = Name(k)
      BY <1>2, <1>19, <1>24, <2>1, <3>1, FieldDetermined
    <3>3. k \in 1..program.calls
      <4>1. PICK m \in 1..program.calls : f = Name(m)
        BY <1>5, <1>24, <2>2 DEF Known
      <4>2. Name(k)[1] = <<k, "name", 1>> /\ Name(m)[1] = <<m, "name", 1>>
        <5>1. m \in Nat /\ 1 \in 1..3
          BY <1>6
        <5> QED
          BY <2>1, <5>1, FieldBytes
      <4> QED
        BY <3>2, <4>1, <4>2
    <3>4. heard'[c] = Name(k)
      <4>1. heard[c] = <<>>
        BY <2>1, <2>2 DEF Heard
      <4>2. <<>> \o f = f
        BY <1>2, BytesConcat
      <4> QED
        BY <1>10, <1>24, <3>2, <4>1, <4>2
    <3>5. step'[c] % 3 = 1 /\ (step'[c] \div 3) + 1 = k
      BY <1>8, <1>9, <2>2, Third
    <3> QED
      BY <3>3, <3>4, <3>5 DEF Heard
  <2>3. CASE step[c] % 3 = 1
    <3>1. Taken(c) = 6 * (k - 1) + 3
      <4>1. k - 1 = step[c] \div 3
        BY <1>8
      <4>2. Thirds(step[c]) = 6 * (step[c] \div 3) + 3
        BY <2>3 DEF Thirds
      <4> QED
        BY <2>1, <4>1, <4>2
    <3>2. f = Args(k)
      BY <1>2, <1>19, <1>24, <2>1, <3>1, FieldDetermined
    <3>3. heard[c] = Name(k) /\ k \in 1..program.calls
      BY <2>1, <2>3 DEF Heard
    <3>4. heard'[c] = Name(k) \o Args(k)
      BY <1>10, <1>24, <3>2, <3>3
    <3>5. step'[c] % 3 = 2 /\ (step'[c] \div 3) + 1 = k
      <4>1. step[c] \in Nat /\ step'[c] = step[c] + 1
        BY <1>8, <1>9
      <4>2. (step[c] + 1) % 3 = 2 /\ (step[c] + 1) \div 3 = step[c] \div 3
        BY <2>3, <4>1, Third
      <4> QED
        BY <4>1, <4>2
    <3> QED
      <4>1. /\ (step'[c] \div 3) + 1 \in 1..program'.calls
            /\ heard'[c] = Name((step'[c] \div 3) + 1) \o Args((step'[c] \div 3) + 1)
        BY <3>3, <3>4, <3>5
      <4>2. step'[c] % 3 = 2 /\ pc'[c] \notin Sends
        BY <1>9, <3>5 DEF Sends
      <4> QED
        BY <4>1, <4>2 DEF Heard
  <2> QED
    BY <2>1, <2>2, <2>3
<1>25. ASSUME c \in Clients PROVE Answered(c)'
  <2> DEFINE h == heard[c]
             k == Len(h) + 1
  <2>1. c \notin Sessions /\ Answered(c) /\ h \in Seq(Seq(Byte)) /\ Len(h) \in Nat /\ Len(f) = 2
    <3>1. c \notin Sessions /\ Answered(c) /\ h \in Seq(Seq(Byte))
      BY <1>6, <1>25, Numbers DEF Flow, DataTyped
    <3> QED
      BY <1>1, <1>2, <3>1
  <2>2. Taken(c) = 2 * (k - 1) /\ k \in Nat /\ k >= 1
    <3>1. Taken(c) = 2 * Len(h) /\ k - 1 = Len(h)
      BY <2>1 DEF Taken
    <3> QED
      BY <2>1, <3>1
  <2>3. f = Answer(k)
    BY <1>2, <1>19, <1>25, <2>1, <2>2, FieldDetermined
  <2>4. heard'[c] = Append(h, f)
    BY <1>10, <2>1
  <2>5. /\ Len(heard'[c]) = k /\ DOMAIN heard'[c] = 1..k /\ heard'[c][k] = f
        /\ \A j \in 1..Len(h) : heard'[c][j] = h[j]
    BY <1>2, <2>1, <2>4
  <2>6. \A j \in DOMAIN heard'[c] : heard'[c][j] = Answer(j)
    <3> SUFFICES ASSUME NEW j \in 1..k PROVE heard'[c][j] = Answer(j)
      BY <2>5
    <3>1. CASE j = k
      BY <2>3, <2>5, <3>1
    <3>2. CASE j # k
      <4>1. j \in 1..Len(h) /\ DOMAIN h = 1..Len(h)
        BY <2>1, <3>2
      <4>2. h[j] = Answer(j)
        BY <2>1, <4>1 DEF Answered
      <4> QED
        BY <2>5, <4>1, <4>2
    <3> QED
      BY <3>1, <3>2
  <2>7. k = IF Shares(c) THEN step'[c] ELSE step'[c] \div 3
    <3>1. CASE Shares(c)
      <4>1. Len(h) = step[c]
        BY <2>1, <3>1 DEF Answered
      <4> QED
        BY <1>9, <3>1, <4>1
    <3>2. CASE ~Shares(c)
      <4>1. step[c] % 3 = 2
        BY <1>25, <2>1, <3>2 DEF Writing
      <4>2. Len(h) = step[c] \div 3
        BY <2>1, <3>2 DEF Answered
      <4>3. step'[c] \div 3 = step[c] \div 3 + 1
        BY <1>8, <1>9, <4>1, Third
      <4> QED
        BY <3>2, <4>2, <4>3
    <3> QED
      BY <3>1, <3>2
  <2> QED
    BY <2>5, <2>6, <2>7 DEF Answered, Shares
<1>26. \A x \in Parties : x # c /\ Writer(x) # c => wire'[x] = wire[x]
  BY Numbers DEF Parties
<1>27. \A x \in Parties : x = c \/ Writer(x) = c => Stream(x)'
  BY <1>22, <1>23
<1>28. \A e \in Coroutines \ {c} :
         /\ pc'[e] = pc[e] /\ rest'[e] = rest[e] /\ want'[e] = want[e] /\ got'[e] = got[e]
         /\ buffer'[e] = buffer[e] /\ available'[e] = available[e] /\ step'[e] = step[e]
         /\ heard'[e] = heard[e]
  BY <1>9, <1>10, <1>11, <1>13
<1> QED
  BY <1>14, <1>15, <1>24, <1>25, <1>26, <1>27, <1>28, FlowLocal

\* What is left untouched while c waits for more of what it reads.
LEMMA PartlyFlow ==
  ASSUME Control, Flow, NEW c \in Parties, ~Writing(c), pc[c] \in {"next", "receiving"}, Goto(c, "receive"),
         want' \in [Coroutines -> Nat], want'[c] = Count(c), \A e \in Coroutines \ {c} : want'[e] = want[e],
         got' \in [Coroutines -> Seq(Byte)], \A e \in Coroutines \ {c} : got'[e] = got[e],
         wire' \in [Sockets -> Seq(Byte)], \A s \in Sockets \ {c} : wire'[s] = wire[s],
         (buffer[c] \o got'[c]) \o wire'[c] = Incoming(c),
         UNCHANGED <<program, rest, buffer, available, step, heard>>
  PROVE  Flow'
<1>1. c \in Coroutines /\ c \in Sockets /\ pc \in [Coroutines -> Labels] /\ DataTyped
  BY Numbers DEF Parties, Control, Typed, Flow
<1>2. pc'[c] = "receive" /\ \A e \in Coroutines \ {c} : pc'[e] = pc[e]
  BY <1>1 DEF Goto
<1>3. DataTyped'
  BY <1>1 DEF DataTyped
<1>4. Position(c)'
  <2>1. Position(c) /\ (Writing(c)' <=> Writing(c)) /\ Count(c)' = Count(c)
    BY DEF Flow, Writing, Shares, Count
  <2> QED
    BY <1>2, <2>1 DEF Position, Sends, Receives
<1>5. \A x \in Parties : Incoming(x)' = Incoming(x) /\ Taken(x)' = Taken(x)
  <2>1. ASSUME NEW x \in Parties PROVE Incoming(x)' = Incoming(x)
    <3>1. CASE x = c
      BY <3>1 DEF Incoming
    <3>2. CASE x # c
      <4>1. got'[x] = got[x] /\ wire'[x] = wire[x]
        BY <3>2, Numbers DEF Parties
      <4> QED
        BY <4>1 DEF Incoming
    <3> QED
      BY <3>1, <3>2
  <2> QED
    BY <2>1 DEF Taken
<1>6. \A x \in Parties : Arrived(x)' = Arrived(x)
  BY <1>5 DEF Arrived
<1>7. \A w : Writer(w)' = Writer(w) /\ Sent(w)' = Sent(w) /\ Size(w)' = Size(w)
  BY DEF Writer, Shares, Sent, Size
<1>8. ASSUME NEW x \in Parties PROVE Stream(x)'
  <2>1. Stream(x) /\ Writer(x) \in Coroutines
    BY Writers, Numbers DEF Flow, Parties
  <2>2. CASE Writer(x) = c
    <3>1. Segment(x, Incoming(x), Taken(x)) /\ Arrived(x) = Sent(Writer(x))
      BY <2>1, <2>2 DEF Stream, Sends, Dead
    <3>2. pc'[Writer(x)'] = "receive"
      BY <1>2, <1>7, <2>2
    <3> QED
      BY <1>5, <1>6, <1>7, <3>1, <3>2 DEF Stream, Sends
  <2>3. CASE Writer(x) # c
    <3>1. pc'[Writer(x)] = pc[Writer(x)]
      BY <1>2, <2>1, <2>3
    <3> QED
      BY <1>5, <1>6, <1>7, <2>1, <3>1 DEF Stream
  <2> QED
    BY <2>2, <2>3
<1>9. ASSUME c \in Sessions PROVE Heard(c)'
  <2>1. Heard(c) /\ step[c] % 3 # 2
    BY <1>9 DEF Flow, Writing
  <2> QED
    BY <2>1 DEF Heard
<1>10. ASSUME c \in Clients PROVE Answered(c)'
  BY <1>10 DEF Flow, Answered, Shares
<1>11. \A x \in Parties : x # c /\ Writer(x) # c => wire'[x] = wire[x]
  BY Numbers DEF Parties
<1> QED
  BY <1>2, <1>3, <1>4, <1>8, <1>9, <1>10, <1>11, FlowLocal

LEMMA ReadFlow ==
  ASSUME Control, Flow, ~escaped', NEW c \in Coroutines, Read(c)
  PROVE  Flow'
<1>1. /\ running = c /\ pc[c] = "next" /\ NextField(c).bytes = <<>>
      /\ UNCHANGED <<program, wire, rest, got>>
  BY DEF Read, At, kernelVars
<1>2. c \in Parties \cup {Helper} /\ (c = Helper => program.shared)
  BY <1>1, WhoCalls DEF Control
<1>3. ~Writing(c) /\ NextField(c) = Reads(Count(c))
  BY <1>1, <1>2, Fields
<1>4. c \in Parties
  BY <1>2, <1>3, Numbers DEF Writing
<1>5. NextField(c).count = Count(c) /\ Count(c) \in Nat
  BY <1>3 DEF Reads, Count
<1>6. DataTyped /\ Position(c)
  BY <1>4 DEF Flow
<1>7. /\ got[c] = <<>> /\ available[c] = Len(buffer[c]) /\ buffer[c] \in Seq(Byte) /\ wire[c] \in Seq(Byte)
      /\ want \in [Coroutines -> Nat] /\ got \in [Coroutines -> Seq(Byte)] /\ wire \in [Sockets -> Seq(Byte)]
      /\ Len(buffer[c]) \in Nat
  <2>1. c \in Sockets
    BY <1>4, Numbers DEF Parties
  <2>2. got[c] = <<>> /\ available[c] = Len(buffer[c])
    BY <1>1, <1>6 DEF Position, Receives, Dead
  <2> QED
    BY <1>6, <2>1, <2>2 DEF DataTyped
<1>8. CASE available[c] < Count(c)
  <2>1. /\ want' = [want EXCEPT ![c] = Count(c)] /\ Goto(c, "receive")
        /\ UNCHANGED <<buffer, available, step, heard>>
    BY <1>5, <1>8 DEF Read, Set, streamVars
  <2>2. /\ want' \in [Coroutines -> Nat] /\ want'[c] = Count(c)
        /\ \A e \in Coroutines \ {c} : want'[e] = want[e]
    BY <1>5, <1>7, <2>1
  <2>3. (buffer[c] \o got'[c]) \o wire'[c] = Incoming(c)
    BY <1>1 DEF Incoming
  <2> QED
    BY <1>1, <1>3, <1>4, <1>7, <2>1, <2>2, <2>3, PartlyFlow
<1>9. CASE ~(available[c] < Count(c))
  <2>1. want' = want /\ Consume(c, buffer[c], Count(c))
    BY <1>5, <1>9 DEF Read
  <2>2. /\ buffer' = Set(buffer, c, SubSeq(buffer[c], Count(c) + 1, Len(buffer[c])))
        /\ available' = Set(available, c, available[c] + Len(buffer[c]) - Len(buffer[c]) - Count(c))
        /\ Delivered(c, SubSeq(buffer[c], 1, Min({Count(c), Len(buffer[c])})))
    BY <2>1 DEF Consume
  <2>3. Len(buffer[c]) >= Count(c)
    BY <1>5, <1>7, <1>9
  <2>4. buffer[c] \o wire[c] = Incoming(c)
    <3>1. buffer[c] \o <<>> = buffer[c]
      BY <1>7, BytesConcat
    <3> QED
      BY <1>7, <3>1 DEF Incoming
  <2> QED
    BY <1>1, <1>3, <1>4, <1>7, <2>1, <2>2, <2>3, <2>4, TakeFlow
<1> QED
  BY <1>8, <1>9

LEMMA ReceiveFlow ==
  ASSUME Control, Flow, ~escaped', NEW c \in Coroutines, Receive(c)
  PROVE  Flow'
<1>1. /\ running = c /\ pc[c] = "receiving" /\ UNCHANGED <<program, rest, want>>
  BY DEF Receive, At
<1>2. c \in Parties \cup {Helper}
  BY <1>1, WhoCalls DEF Control
<1>3. DataTyped /\ Position(c)
  BY <1>2 DEF Flow
<1>4. ~Writing(c) /\ want[c] = Count(c)
  BY <1>1, <1>3 DEF Position, Receives
<1>5. c \in Parties
  BY <1>2, <1>4, Numbers DEF Writing
<1>6. Socket(c) = c /\ c \in Sockets
  BY <1>5, SocketNumbers, Numbers DEF Parties
<1>7. PICK n \in 1..Len(wire[c]) :
        LET all == got[c] \o SubSeq(wire[c], 1, n)
        IN /\ wire' = [wire EXCEPT ![c] = SubSeq(@, n + 1, Len(@))]
           /\ IF Len(all) >= want[c]
              THEN got' = Set(got, c, <<>>) /\ Consume(c, buffer[c] \o all, want[c])
              ELSE /\ got' = Set(got, c, all) /\ Goto(c, "receive")
                   /\ UNCHANGED <<streamVars, escaped>>
  BY <1>6 DEF Receive
<1> DEFINE a == SubSeq(wire[c], 1, n)
           left == SubSeq(wire[c], n + 1, Len(wire[c]))
           all == got[c] \o a
<1>8. /\ buffer[c] \in Seq(Byte) /\ got[c] \in Seq(Byte) /\ wire[c] \in Seq(Byte) /\ Len(wire[c]) \in Nat
      /\ want \in [Coroutines -> Nat] /\ got \in [Coroutines -> Seq(Byte)] /\ wire \in [Sockets -> Seq(Byte)]
  BY <1>3, <1>6 DEF DataTyped
<1>9. a \in Seq(Byte) /\ left \in Seq(Byte) /\ a \o left = wire[c]
  <2>1. n \in 0..Len(wire[c])
    BY <1>8
  <2> QED
    BY <1>8, <2>1, Split
<1>10. wire' = [wire EXCEPT ![c] = left]
  BY <1>7
<1> HIDE DEF a, left
<1>11. wire' \in [Sockets -> Seq(Byte)] /\ wire'[c] = left /\ \A s \in Sockets \ {c} : wire'[s] = wire[s]
  BY <1>6, <1>8, <1>9, <1>10
<1>12. all \in Seq(Byte) /\ Len(all) \in Nat
  BY <1>8, <1>9, BytesConcat
<1>13. (buffer[c] \o all) \o left = Incoming(c) /\ buffer[c] \o all \in Seq(Byte)
  <2>1. \A u \in Seq(Byte) : (buffer[c] \o got[c]) \o u = buffer[c] \o (got[c] \o u)
    BY <1>8, BytesConcat
  <2>2. (buffer[c] \o got[c]) \o a = buffer[c] \o all
    BY <1>9, <2>1
  <2>3. buffer[c] \o got[c] \in Seq(Byte)
    BY <1>8, BytesConcat
  <2>4. \A u \in Seq(Byte) : ((buffer[c] \o got[c]) \o a) \o u = (buffer[c] \o got[c]) \o (a \o u)
    BY <1>9, <2>3, BytesConcat
  <2>5. ((buffer[c] \o got[c]) \o a) \o left = (buffer[c] \o got[c]) \o (a \o left)
    BY <1>9, <2>4
  <2>6. buffer[c] \o all \in Seq(Byte)
    BY <1>8, <1>12, BytesConcat
  <2> QED
    BY <1>9, <2>2, <2>5, <2>6 DEF Incoming
<1> HIDE DEF all
<1>14. IF Len(all) >= Count(c)
       THEN got' = Set(got, c, <<>>) /\ Consume(c, buffer[c] \o all, Count(c))
       ELSE got' = Set(got, c, all) /\ Goto(c, "receive") /\ UNCHANGED streamVars
  BY <1>4, <1>7 DEF a, all
<1>15. CASE Len(all) >= Count(c)
  <2> DEFINE bytes == buffer[c] \o all
  <2>1. got' = [got EXCEPT ![c] = <<>>] /\ Consume(c, bytes, Count(c))
    BY <1>14, <1>15 DEF Set
  <2>2. bytes \in Seq(Byte) /\ bytes \o left = Incoming(c) /\ Len(bytes) >= Count(c)
    <3>1. Len(bytes) = Len(buffer[c]) + Len(all) /\ Len(buffer[c]) \in Nat
      BY <1>8, <1>12, BytesConcat
    <3>2. Count(c) \in Nat
      BY DEF Count
    <3> QED
      BY <1>12, <1>13, <1>15, <3>1, <3>2
  <2>3. /\ got' \in [Coroutines -> Seq(Byte)] /\ got'[c] = <<>>
        /\ \A e \in Coroutines \ {c} : got'[e] = got[e]
    <3>1. <<>> \in Seq(Byte)
      OBVIOUS
    <3> QED
      BY <1>8, <2>1, <3>1
  <2> HIDE DEF bytes
  <2>4. /\ buffer' = Set(buffer, c, SubSeq(bytes, Count(c) + 1, Len(bytes)))
        /\ available' = Set(available, c, available[c] + Len(bytes) - Len(buffer[c]) - Count(c))
        /\ Delivered(c, SubSeq(bytes, 1, Min({Count(c), Len(bytes)})))
    BY <2>1 DEF Consume
  <2> QED
    BY <1>1, <1>4, <1>5, <1>9, <1>11, <2>2, <2>3, <2>4, TakeFlow
<1>16. CASE ~(Len(all) >= Count(c))
  <2>1. got' = [got EXCEPT ![c] = all] /\ Goto(c, "receive") /\ UNCHANGED <<buffer, available, step, heard>>
    BY <1>14, <1>16 DEF Set, streamVars
  <2>2. got' \in [Coroutines -> Seq(Byte)] /\ got'[c] = all /\ \A e \in Coroutines \ {c} : got'[e] = got[e]
    BY <1>8, <1>12, <2>1
  <2>3. (buffer[c] \o got'[c]) \o wire'[c] = Incoming(c)
    BY <1>11, <1>13, <2>2
  <2>4. want' \in [Coroutines -> Nat] /\ want'[c] = Count(c) /\ \A e \in Coroutines \ {c} : want'[e] = want[e]
    BY <1>1, <1>4, <1>8
  <2> QED
    BY <1>1, <1>4, <1>5, <1>11, <2>1, <2>2, <2>3, <2>4, PartlyFlow
<1> QED
  BY <1>15, <1>16

\* What no step does any more after an exception has left the loop: it hears nothing.
LEMMA EscapedHears ==
  ASSUME Control, [RpcNext]_socketVars, escaped'
  PROVE  heard' = heard
<1>1. CASE UNCHANGED socketVars
  BY <1>1 DEF socketVars, streamVars
<1>2. ASSUME NEW c, NEW f, Delivered(c, f), escaped', ~escaped PROVE heard' = heard
  BY <1>2 DEF Delivered
<1>3. ASSUME NEW c \in Coroutines, OperationStep(c) PROVE heard' = heard
  <2>1. CASE EnterSend(c) \/ SendWaits(c) \/ SendFails(c) \/ EnterReceive(c) \/ ReceiveEnd(c) \/ ReceiveFails(c)
             \/ ReceiveWaits(c) \/ Disturbed(c) \/ Return(c) \/ End(c)
    BY <2>1 DEF EnterSend, SendWaits, SendFails, EnterReceive, ReceiveEnd, ReceiveFails, ReceiveWaits, Disturbed,
                Return, End, streamVars
  <2>2. CASE Send(c)
    BY <2>2 DEF Send
  <2>3. CASE Receive(c)
    BY <1>2, <2>3 DEF Receive, Consume, At, streamVars
  <2>4. CASE Write(c)
    BY <2>4 DEF Write, At, loopVars
  <2>5. CASE Read(c)
    BY <1>2, <2>5 DEF Read, Consume, At, streamVars
  <2> QED
    BY <1>3, <2>1, <2>2, <2>3, <2>4, <2>5 DEF OperationStep
<1>4. CASE CoroutineStep
  BY <1>3, <1>4 DEF CoroutineStep, Connect, ConnectAtOnce, ConnectDone, Accept, Accepted, CloseOther, SpawnHelper,
                    streamVars
<1>5. CASE LoopStep \/ CloserWakes \/ \E c \in Clients : Establish(c)
  BY <1>5 DEF LoopStep, Resume, DispatchEnd, Commit, CloserWakes, Establish, streamVars
<1> QED
  BY <1>1, <1>4, <1>5 DEF RpcNext

LEMMA EscapedStays ==
  ASSUME [RpcNext]_socketVars, escaped
  PROVE  escaped'
<1>1. CASE UNCHANGED socketVars
  BY <1>1 DEF socketVars, loopVars
<1>2. ASSUME NEW c \in Coroutines, OperationStep(c) PROVE FALSE
  <2>1. ~At(c, "send") /\ ~At(c, "sending") /\ ~At(c, "receive") /\ ~At(c, "receiving") /\ ~At(c, "next")
        /\ ~At(c, "connecting") /\ ~At(c, "return") /\ ~At(c, "throw")
    BY DEF At
  <2> QED
    BY <1>2, <2>1 DEF OperationStep, EnterSend, Send, SendWaits, SendFails, EnterReceive, Receive, ReceiveEnd,
                      ReceiveFails, ReceiveWaits, Disturbed, Return, Write, Read, End
<1>3. CASE CoroutineStep
  BY <1>2, <1>3 DEF CoroutineStep, Connect, ConnectAtOnce, ConnectDone, Accept, Accepted, CloseOther, SpawnHelper, At
<1>4. CASE LoopStep \/ CloserWakes \/ \E c \in Clients : Establish(c)
  BY <1>4 DEF LoopStep, Resume, DispatchEnd, Commit, Up, CloserWakes, Establish, loopVars
<1> QED
  BY <1>1, <1>3, <1>4 DEF RpcNext

LEMMA GoQuiet ==
  ASSUME Control, Flow, NEW c \in Coroutines, NEW l, Goto(c, l),
         UNCHANGED <<program, wire, rest, want, got, buffer, available, step, heard>>,
         l \in Sends => pc[c] \in Sends, l \in Receives => pc[c] \in Receives,
         l \notin Sends \cup Dead => pc[c] \notin Sends \cup Dead,
         l \notin Receives \cup Dead => pc[c] \notin Receives \cup Dead
  PROVE  Flow'
<1>1. pc'[c] = l /\ \A e \in Coroutines \ {c} : pc'[e] = pc[e]
  BY DEF Control, Typed, Goto
<1>2. ASSUME NEW e \in Parties \cup {Helper}
      PROVE  /\ pc'[e] \in Sends => pc[e] \in Sends
             /\ pc'[e] \in Receives => pc[e] \in Receives
             /\ pc'[e] \notin Sends \cup Dead => pc[e] \notin Sends \cup Dead
             /\ pc'[e] \notin Receives \cup Dead => pc[e] \notin Receives \cup Dead
  <2>1. e \in Coroutines
    BY Numbers DEF Parties
  <2>2. CASE e = c
    BY <1>1, <2>2
  <2>3. CASE e # c
    BY <1>1, <2>1, <2>3
  <2> QED
    BY <2>2, <2>3
<1> QED
  BY <1>2, FlowQuiet

LEMMA OperationFlow ==
  ASSUME Control, Flow, ~escaped', NEW c \in Coroutines, OperationStep(c)
  PROVE  Flow'
<1>1. ASSUME NEW l \in Dead, Goto(c, l), UNCHANGED <<program, wire, rest, want, got, buffer, available, step, heard>>
      PROVE  Flow'
  <2>1. l \notin Sends /\ l \notin Receives
    BY DEF Dead, Sends, Receives
  <2> QED
    BY <1>1, <2>1, GoQuiet
<1>2. ASSUME NEW code, Fails(c, code) PROVE \E l \in Dead : Goto(c, l)
  BY <1>2 DEF Fails, GivesUp, Rethrows, Escapes, Dead
<1>3. ASSUME NEW l \in Sends, pc[c] \in Sends, Goto(c, l),
             UNCHANGED <<program, wire, rest, want, got, buffer, available, step, heard>>
      PROVE  Flow'
  <2>1. l \notin Receives \cup Dead /\ pc[c] \notin Receives \cup Dead
    BY <1>3 DEF Dead, Sends, Receives
  <2> QED
    BY <1>3, <2>1, GoQuiet
<1>4. ASSUME NEW l \in Receives, pc[c] \in Receives, Goto(c, l),
             UNCHANGED <<program, wire, rest, want, got, buffer, available, step, heard>>
      PROVE  Flow'
  <2>1. l \notin Sends \cup Dead /\ pc[c] \notin Sends \cup Dead
    BY <1>4 DEF Dead, Sends, Receives
  <2> QED
    BY <1>4, <2>1, GoQuiet
<1>5. CASE EnterSend(c)
  <2>1. pc[c] \in Sends /\ "sending" \in Sends /\ UNCHANGED <<program, wire, rest, want, got, buffer, available, step, heard>>
    BY <1>5 DEF EnterSend, At, Sends, streamVars
  <2> QED
    BY <1>1, <1>2, <1>3, <1>5, <2>1 DEF EnterSend
<1>6. CASE Send(c)
  BY <1>6, SendFlow
<1>7. CASE SendWaits(c)
  <2>1. /\ pc[c] \in Sends /\ "sending" \in Sends /\ Goto(c, "sending")
        /\ UNCHANGED <<program, wire, rest, want, got, buffer, available, step, heard>>
    BY <1>7 DEF SendWaits, At, Sends, streamVars, opVars, kernelVars, Suspend
  <2> QED
    BY <1>3, <2>1
<1>8. CASE SendFails(c)
  <2>1. /\ \E code \in ResetCodes : Fails(c, code)
        /\ UNCHANGED <<program, wire, rest, want, got, buffer, available, step, heard>>
    BY <1>8 DEF SendFails, streamVars, opVars, kernelVars
  <2> QED
    BY <1>1, <1>2, <2>1
<1>9. CASE EnterReceive(c)
  <2>1. pc[c] \in Receives /\ "receiving" \in Receives /\ UNCHANGED <<program, wire, rest, want, got, buffer, available, step, heard>>
    BY <1>9 DEF EnterReceive, At, Receives, streamVars
  <2> QED
    BY <1>1, <1>2, <1>4, <1>9, <2>1 DEF EnterReceive
<1>10. CASE Receive(c)
  BY <1>10, ReceiveFlow
<1>11. CASE ReceiveEnd(c)
  <2>1. /\ Fails(c, "connection_aborted")
        /\ UNCHANGED <<program, wire, rest, want, got, buffer, available, step, heard>>
    BY <1>11 DEF ReceiveEnd, streamVars, opVars
  <2> QED
    BY <1>1, <1>2, <2>1
<1>12. CASE ReceiveWaits(c)
  <2>1. /\ pc[c] \in Receives /\ "receiving" \in Receives /\ Goto(c, "receiving")
        /\ UNCHANGED <<program, wire, rest, want, got, buffer, available, step, heard>>
    BY <1>12 DEF ReceiveWaits, At, Receives, streamVars, opVars, kernelVars, Suspend
  <2> QED
    BY <1>4, <2>1
<1>13. CASE Disturbed(c)
  <2>1. Goto(c, "throw") /\ "throw" \in Dead /\ UNCHANGED <<program, wire, rest, want, got, buffer, available, step, heard>>
    BY <1>13 DEF Disturbed, Dead, streamVars, kernelVars
  <2> QED
    BY <1>1, <2>1
<1>14. CASE Return(c)
  <2>1. Goto(c, "return") /\ "return" \in Dead /\ UNCHANGED <<program, wire, rest, want, got, buffer, available, step, heard>>
    BY <1>14 DEF Return, Dead, streamVars, opVars, kernelVars
  <2> QED
    BY <1>1, <2>1
<1>15. CASE Write(c)
  BY <1>15, WriteFlow
<1>16. CASE Read(c)
  BY <1>16, ReadFlow
<1>17. CASE End(c)
  <2>1. /\ \E l \in Dead : Goto(c, l)
        /\ UNCHANGED <<program, wire, rest, want, got, buffer, available, step, heard>>
    BY <1>17 DEF End, Dead, streamVars
  <2> QED
    BY <1>1, <2>1
<1>18. CASE ReceiveFails(c)
  <2>1. /\ \E code \in ResetCodes : Fails(c, code)
        /\ UNCHANGED <<program, wire, rest, want, got, buffer, available, step, heard>>
    BY <1>18 DEF ReceiveFails, streamVars, opVars, kernelVars
  <2> QED
    BY <1>1, <1>2, <2>1
<1> QED
  BY <1>18, <1>5, <1>6, <1>7, <1>8, <1>9, <1>10, <1>11, <1>12, <1>13, <1>14, <1>15, <1>16, <1>17 DEF OperationStep

LEMMA ConnectionFlow ==
  ASSUME Control, Flow,
         \/ \E c \in Clients : Connect(c) \/ ConnectAtOnce(c) \/ ConnectDone(c)
         \/ Accept \/ Accepted \/ CloseOther \/ SpawnHelper \/ CloserWakes
  PROVE  Flow'
<1> DEFINE Calm == {"unborn", "connect", "connecting", "accept", "accepting", "next", "spawnHelper", "closeOther"}
<1>1. Typed /\ Births /\ pc \in [Coroutines -> Labels]
  BY DEF Control, Typed
<1>2. \A l \in Calm : l \notin Sends /\ l \notin Receives /\ l \notin Dead
  BY DEF Sends, Receives, Dead
<1>3. ASSUME \A e \in Coroutines : pc'[e] = pc[e] \/ (pc[e] \in Calm /\ pc'[e] \in Calm \cup Dead),
             UNCHANGED <<program, wire, rest, want, got, buffer, available, step, heard>>
      PROVE  Flow'
  <2>1. \A l \in Dead : l \notin Sends /\ l \notin Receives
    BY DEF Sends, Receives, Dead
  <2>2. Parties \cup {Helper} \subseteq Coroutines
    BY Numbers DEF Parties
  <2>3. \A e \in Parties \cup {Helper} :
          /\ pc'[e] \in Sends => pc[e] \in Sends
          /\ pc'[e] \in Receives => pc[e] \in Receives
          /\ pc'[e] \notin Sends \cup Dead => pc[e] \notin Sends \cup Dead
          /\ pc'[e] \notin Receives \cup Dead => pc[e] \notin Receives \cup Dead
    BY <1>2, <1>3, <2>1, <2>2
  <2> QED
    BY <1>3, <2>3, FlowQuiet
<1>4. ASSUME NEW c \in Clients, Connect(c) \/ ConnectAtOnce(c) \/ ConnectDone(c) PROVE Flow'
  <2>1. UNCHANGED <<program, wire, rest, want, got, buffer, available, step, heard>>
    BY <1>4 DEF Connect, ConnectAtOnce, ConnectDone, streamVars, opVars
  <2>2. pc[c] \in Calm /\ \E l \in Calm \cup Dead : Goto(c, l)
    <3>1. AfterConnect(c) \in Calm
      BY DEF AfterConnect
    <3> QED
      BY <1>4, <3>1 DEF Connect, ConnectAtOnce, ConnectDone, At, Suspend, Dead
  <2> QED
    BY <1>1, <1>3, <2>1, <2>2 DEF Goto
<1>5. CASE Accept
  <2>1. UNCHANGED <<program, wire, rest, want, got, buffer, available, step, heard>>
    BY <1>5 DEF Accept, streamVars, opVars, kernelVars
  <2>2. pc[Acceptor] = "accept" /\ Goto(Acceptor, "accepting")
    BY <1>5 DEF Accept, At, Suspend
  <2> QED
    BY <1>1, <1>3, <2>1, <2>2 DEF Goto
<1>6. CASE Accepted
  <2>1. UNCHANGED <<program, wire, rest, want, got, buffer, available, step, heard>>
    BY <1>6 DEF Accepted, streamVars, opVars
  <2>2. /\ backlog # <<>> /\ pc[Acceptor] = "accepting"
        /\ pc' = [pc EXCEPT ![Acceptor] = "accept", ![Session(Head(backlog))] = "next"]
    BY <1>6 DEF Accepted, At
  <2>3. Head(backlog) \in Clients /\ Head(backlog) \in ToSet(backlog)
    BY <1>1, <2>2, ListTail DEF Typed, Births
  <2>4. pc[Session(Head(backlog))] = "unborn"
    BY <1>1, <2>3 DEF Births
  <2> QED
    BY <1>1, <1>3, <2>1, <2>2, <2>4
<1>7. CASE CloseOther
  <2>1. UNCHANGED <<program, wire, rest, want, got, buffer, available, step, heard>>
    BY <1>7 DEF CloseOther, streamVars
  <2>2. pc[Closer] = "closeOther" /\ Goto(Closer, "done") /\ "done" \in Dead
    BY <1>7 DEF CloseOther, At, Dead
  <2> QED
    BY <1>1, <1>3, <2>1, <2>2 DEF Goto
<1>8. CASE SpawnHelper
  <2>1. UNCHANGED <<program, wire, rest, want, got, buffer, available, step, heard>>
    BY <1>8 DEF SpawnHelper, streamVars, opVars, kernelVars
  <2>2. pc[1] = "spawnHelper" /\ pc' = [pc EXCEPT ![1] = "next", ![Helper] = "next"]
    BY <1>8 DEF SpawnHelper, At
  <2>3. pc[Helper] = "unborn"
    BY <1>1, <2>2 DEF Births
  <2> QED
    BY <1>1, <1>3, <2>1, <2>2, <2>3
<1>9. CASE CloserWakes
  <2>1. UNCHANGED <<program, wire, rest, want, got, buffer, available, step, heard>>
    BY <1>9 DEF CloserWakes, streamVars, opVars, kernelVars
  <2>2. pc[Closer] = "unborn" /\ pc' = [pc EXCEPT ![Closer] = "closeOther"]
    BY <1>9 DEF CloserWakes
  <2> QED
    BY <1>1, <1>3, <2>1, <2>2
<1> QED
  BY <1>4, <1>5, <1>6, <1>7, <1>8, <1>9

LEMMA StillFlow ==
  ASSUME Flow, UNCHANGED <<program, wire, rest, want, got, buffer, available, step, heard, pc>>
  PROVE  Flow'
BY FlowQuiet

LEMMA NextFlow ==
  ASSUME Control, Flow, ~escaped', [RpcNext]_socketVars
  PROVE  Flow'
<1>1. CASE UNCHANGED socketVars
  BY <1>1, StillFlow DEF socketVars, kernelVars, opVars, streamVars
<1>2. ASSUME NEW c \in Coroutines, OperationStep(c) PROVE Flow'
  BY <1>2, OperationFlow
<1>3. CASE \/ \E c \in Clients : Connect(c) \/ ConnectAtOnce(c) \/ ConnectDone(c)
           \/ Accept \/ Accepted \/ CloseOther \/ SpawnHelper \/ CloserWakes
  BY <1>3, ConnectionFlow
<1>4. CASE LoopStep
  <2>1. UNCHANGED <<program, wire, rest, want, got, buffer, available, step, heard, pc>>
    BY <1>4 DEF LoopStep, Resume, DispatchEnd, Commit, kernelVars, opVars, streamVars
  <2> QED
    BY <2>1, StillFlow
<1>5. ASSUME NEW c \in Clients, Establish(c) PROVE Flow'
  <2>1. UNCHANGED <<program, wire, rest, want, got, buffer, available, step, heard, pc>>
    BY <1>5 DEF Establish, opVars, streamVars
  <2> QED
    BY <2>1, StillFlow
<1> QED
  BY <1>1, <1>2, <1>3, <1>4, <1>5 DEF RpcNext, CoroutineStep

LEMMA InitFlow ==
  ASSUME SocketsInit
  PROVE  Flow /\ AnswersMatch
<1>1. /\ wire = [s \in Sockets |-> <<>>] /\ rest = [c \in Coroutines |-> <<>>] /\ want = [c \in Coroutines |-> 0]
      /\ got = [c \in Coroutines |-> <<>>] /\ buffer = [c \in Coroutines |-> <<>>]
      /\ available = [c \in Coroutines |-> 0] /\ step = [c \in Coroutines |-> 0]
      /\ heard = [c \in Coroutines |-> <<>>]
      /\ pc = [c \in Coroutines |-> IF c = Acceptor THEN "accept"
                                    ELSE IF c \in Clients THEN "connect" ELSE "unborn"]
  BY DEF SocketsInit, Each
<1>2. \A c \in Parties \cup {Helper} : c \in Coroutines /\ pc[c] \in {"connect", "unborn"}
  BY <1>1, Numbers DEF Parties
<1>3. \A c \in Parties : c \in Sockets /\ wire[c] = <<>>
  BY <1>1, Numbers DEF Parties
<1>4. 0 % 3 = 0 /\ 0 \div 3 = 0 /\ Thirds(0) = 0
  <2>1. 0 % 3 = 0 /\ 0 \div 3 = 0
    OBVIOUS
  <2> QED
    BY <2>1 DEF Thirds
<1>5. DataTyped
  <2>1. <<>> \in Seq(Byte) /\ <<>> \in Seq(Seq(Byte))
    OBVIOUS
  <2> QED
    BY <1>1, <2>1, Numbers DEF DataTyped
<1>6. ASSUME NEW c \in Parties \cup {Helper} PROVE Position(c)
  BY <1>1, <1>2 DEF Position, Sends, Receives
<1>7. ASSUME NEW c \in Parties PROVE Stream(c)
  <2>1. Incoming(c) = <<>>
    BY <1>1, <1>2, <1>3 DEF Incoming
  <2>2. Taken(c) = 0
    BY <1>1, <1>2, <1>4 DEF Taken
  <2>3. Arrived(c) = 0
    BY <2>1, <2>2 DEF Arrived
  <2>4. Writer(c) \in Parties \cup {Helper}
    BY Writers
  <2>5. Sent(Writer(c)) = 0 /\ pc[Writer(c)] \notin Sends
    BY <1>1, <1>2, <1>4, <2>4 DEF Sent, Sends
  <2>6. Segment(c, <<>>, 0)
    BY DEF Segment
  <2> QED
    BY <2>1, <2>2, <2>3, <2>5, <2>6 DEF Stream
<1>8. ASSUME NEW c \in Sessions PROVE Heard(c)
  <2>1. c \in Coroutines
    BY <1>2 DEF Parties
  <2>2. step[c] = 0 /\ heard[c] = <<>>
    BY <1>1, <2>1
  <2>3. step[c] \div 3 = 0 /\ step[c] % 3 = 0 /\ Thirds(step[c]) = 0
    BY <1>4, <2>2
  <2> QED
    BY <2>2, <2>3 DEF Heard
<1>9. ASSUME NEW c \in Clients PROVE Answered(c)
  BY <1>1, <1>2, <1>4 DEF Answered, Parties
<1> QED
  BY <1>5, <1>6, <1>7, <1>8, <1>9 DEF Flow, AnswersMatch, Answered

\* Each answer that a client gets is the answer to its own call (serde_stream.hpp:42-55), for any
\* number of clients and calls, whatever pieces the bytes come in and whoever closes or shares
\* the sockets.
THEOREM OwnAnswers == RpcSpec => []AnswersMatch
<1>1. SocketsInit => Calls
  BY InitControl, InitFlow DEF Calls
<1>2. Calls /\ [RpcNext]_socketVars => Calls'
  <2> SUFFICES ASSUME Calls, [RpcNext]_socketVars PROVE Calls'
    OBVIOUS
  <2>1. Control /\ (~escaped => Flow) /\ AnswersMatch
    BY DEF Calls
  <2>2. Control'
    BY <2>1, NextControl
  <2>3. CASE escaped'
    <3>1. AnswersMatch'
      BY <2>1, <2>3, EscapedHears DEF AnswersMatch
    <3> QED
      BY <2>2, <2>3, <3>1 DEF Calls
  <2>4. CASE ~escaped'
    <3>1. ~escaped
      BY <2>4, EscapedStays
    <3>2. Flow'
      BY <2>1, <2>4, <3>1, NextFlow
    <3>3. AnswersMatch'
      BY <3>2 DEF Flow, Answered, AnswersMatch
    <3> QED
      BY <2>2, <3>2, <3>3 DEF Calls
  <2> QED
    BY <2>3, <2>4
<1>3. Calls => AnswersMatch
  BY DEF Calls
<1> QED
  BY <1>1, <1>2, <1>3, PTL DEF RpcSpec

=============================================================================
