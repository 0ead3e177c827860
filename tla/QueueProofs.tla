---------------------------- MODULE QueueProofs ----------------------------
(***************************************************************************)
(* Theorems about the two queues of the frame executor.                    *)
(*                                                                         *)
(* WorkStealing: for every number of thieves, every initial capacity and   *)
(* every number of pushes.                                                 *)
(*                                                                         *)
(* RemoteQueue: for any number of workers and pushes, what goes wrong with *)
(* several threads goes wrong only when pop_front looks at the link of its *)
(* front node while a push is half done.                                   *)
(***************************************************************************)
EXTENDS WorkStealing, RemoteQueue, SequenceTheorems, TLAPS

-----------------------------------------------------------------------------
(* Arithmetic of the ring: index & (capacity - 1). *)

LEMMA ModRange ==
  ASSUME NEW n \in Nat, n >= 1, NEW i \in Int
  PROVE  i % n \in 0..(n - 1)
OBVIOUS

\* Two indices less than a capacity apart never share a slot.
LEMMA ModInjective ==
  ASSUME NEW n \in Nat, n >= 1, NEW i \in Int, NEW j \in Int,
         i < j, j - i < n
  PROVE  i % n # j % n
<1> SUFFICES ASSUME i % n = j % n PROVE FALSE
  OBVIOUS
<1> DEFINE p == i \div n
           q == j \div n
<1>1. p \in Int /\ q \in Int
  OBVIOUS
<1>2. i = (n * p) + (i % n) /\ j = (n * q) + (j % n)
  OBVIOUS
<1> HIDE DEF p, q
<1>3. j - i = n * (q - p)
  BY <1>1, <1>2
<1>4. q - p >= 1
  BY <1>1, <1>3
<1>5. n * (q - p) >= n
  BY <1>1, <1>4
<1> QED
  BY <1>3, <1>5
-----------------------------------------------------------------------------
(* What store, load and resize do to a ring. *)

LEMMA CellType ==
  ASSUME NEW ring \in Seq(Frames), Len(ring) >= 1, NEW i \in Int
  PROVE  Cell(ring, i) \in 1..Len(ring)
<1>1. Len(ring) \in Nat
  BY LenProperties
<1>2. i % Len(ring) \in 0..(Len(ring) - 1)
  BY <1>1, ModRange
<1> QED
  BY <1>1, <1>2 DEF Cell

LEMMA LoadType ==
  ASSUME NEW ring \in Seq(Frames), Len(ring) >= 1, NEW i \in Int
  PROVE  Load(ring, i) \in Frames
BY CellType, ElementOfSeq DEF Load

\* A store changes its own cell and no other index within a capacity of it.
LEMMA StoreLemma ==
  ASSUME NEW ring \in Seq(Frames), Len(ring) >= 1,
         NEW i \in Int, NEW frame \in Frames
  PROVE  /\ Store(ring, i, frame) \in Seq(Frames)
         /\ Len(Store(ring, i, frame)) = Len(ring)
         /\ Load(Store(ring, i, frame), i) = frame
         /\ \A j \in Int : j < i /\ i - j < Len(ring) =>
              Load(Store(ring, i, frame), j) = Load(ring, j)
<1>1. Len(ring) \in Nat
  BY LenProperties
<1>2. Cell(ring, i) \in 1..Len(ring)
  BY CellType
<1>3. /\ Store(ring, i, frame) \in Seq(Frames)
      /\ Len(Store(ring, i, frame)) = Len(ring)
      /\ \A c \in 1..Len(ring) :
           Store(ring, i, frame)[c] = IF c = Cell(ring, i) THEN frame ELSE ring[c]
  BY <1>2, ExceptSeq DEF Store
<1>4. \A j \in Int : Cell(Store(ring, i, frame), j) = Cell(ring, j)
  BY <1>3 DEF Cell
<1>5. Load(Store(ring, i, frame), i) = frame
  BY <1>2, <1>3, <1>4 DEF Load
<1>6. ASSUME NEW j \in Int, j < i, i - j < Len(ring)
      PROVE  Load(Store(ring, i, frame), j) = Load(ring, j)
  <2>1. j % Len(ring) # i % Len(ring)
    BY <1>1, <1>6, ModInjective
  <2>2. j % Len(ring) \in Int /\ i % Len(ring) \in Int
    BY <1>1, ModRange
  <2>3. Cell(ring, j) # Cell(ring, i)
    BY <2>1, <2>2 DEF Cell
  <2>4. Cell(ring, j) \in 1..Len(ring)
    BY CellType
  <2> QED
    BY <1>3, <1>4, <2>3, <2>4 DEF Load
<1> QED
  BY <1>3, <1>5, <1>6

\* A ring of twice the capacity holds the same frames at the same indices.
LEMMA ResizeLemma ==
  ASSUME NEW ring \in Seq(Frames), Len(ring) >= 1,
         NEW to \in Int, NEW from \in Int, to - from <= Len(ring)
  PROVE  /\ Resize(ring, to, from) \in Seq(Frames)
         /\ Len(Resize(ring, to, from)) = 2 * Len(ring)
         /\ \A k \in from..(to - 1) : Load(Resize(ring, to, from), k) = Load(ring, k)
<1> DEFINE n == 2 * Len(ring)
           I == from..(to - 1)
           Holds(c, k) == k % n = c - 1
           Pick(c) == CHOOSE k \in I : Holds(c, k)
           f == [c \in 1..n |->
                  IF \E k \in I : Holds(c, k) THEN Load(ring, Pick(c)) ELSE NoFrame]
<1>1. Len(ring) \in Nat /\ n \in Nat /\ n >= 1 /\ I \subseteq Int
  BY LenProperties
<1>2. Resize(ring, to, from) = f
  BY DEF Resize
<1>3. \A c : (\E k \in I : Holds(c, k)) => Pick(c) \in I /\ Holds(c, Pick(c))
  <2> HIDE DEF Holds, I
  <2> QED
    BY Zenon
<1>4. ASSUME NEW c \in 1..n
      PROVE  f[c] \in Frames
  <2> HIDE DEF Holds, Pick
  <2>1. (\E k \in I : Holds(c, k)) => Load(ring, Pick(c)) \in Frames
    BY <1>1, <1>3, LoadType
  <2>2. NoFrame \in Frames
    BY PushAssumption DEF NoFrame, Frames
  <2>3. f[c] = IF \E k \in I : Holds(c, k) THEN Load(ring, Pick(c)) ELSE NoFrame
    BY <1>4
  <2> HIDE DEF f, I
  <2> QED
    BY <2>1, <2>2, <2>3
<1>5. f \in Seq(Frames) /\ Len(f) = n
  <2>1. f \in [1..n -> Frames] /\ DOMAIN f = 1..n
    BY <1>4
  <2> HIDE DEF f, n
  <2>2. f \in Seq(Frames)
    BY <1>1, <2>1, SeqDef
  <2> QED
    BY <1>1, <2>1, <2>2, LenProperties
<1>6. ASSUME NEW k \in I
      PROVE  Load(f, k) = Load(ring, k)
  <2> DEFINE c == (k % n) + 1
  <2>1. k \in Int
    BY <1>1
  <2>2. c \in 1..n /\ Holds(c, k)
    <3> HIDE DEF n
    <3>1. k % n \in 0..(n - 1)
      BY <1>1, <2>1, ModRange
    <3> QED
      BY <1>1, <3>1
  <2>3. ASSUME NEW m \in I, Holds(c, m), m # k
        PROVE  FALSE
    <3>1. m \in Int /\ (m < k => k - m < n) /\ (k < m => m - k < n) /\ (m < k \/ k < m)
      BY <1>1, <2>3
    <3> HIDE DEF n
    <3>2. k % n \in 0..(n - 1) /\ m % n \in 0..(n - 1)
      BY <1>1, <2>1, <3>1, ModRange
    <3>3. m % n = k % n
      BY <1>1, <2>3, <3>2
    <3> QED
      BY <1>1, <2>1, <3>1, <3>3, ModInjective
  <2> HIDE DEF Holds, I, c
  <2>4. Pick(c) = k
    BY <1>3, <2>2, <2>3, Zenon
  <2>5. f[c] = Load(ring, Pick(c))
    BY <2>2
  <2>6. Cell(f, k) = c
    BY <1>5 DEF Cell, c
  <2> QED
    BY <2>4, <2>5, <2>6 DEF Load
<1> QED
  BY <1>2, <1>5, <1>6
-----------------------------------------------------------------------------
(* Inv is inductive. *)

LEMMA CurrentType ==
  ASSUME StealingTypeOK
  PROVE  /\ Len(rings) \in Nat /\ Len(rings) >= 1
         /\ \A r \in 1..Len(rings) : rings[r] \in Seq(Frames) /\ Len(rings[r]) >= 2
         /\ Current \in Seq(Frames)
         /\ Len(Current) \in Nat /\ Len(Current) >= 2
         /\ \A i \in Int : Slot(i) \in Frames
         /\ End \in Int
<1>1. Len(rings) \in Nat /\ Len(rings) >= 1
  BY LenProperties DEF StealingTypeOK
<1>2. \A r \in 1..Len(rings) : rings[r] \in Seq(Frames) /\ Len(rings[r]) >= 2
  BY ElementOfSeq DEF StealingTypeOK
<1>3. Current \in Seq(Frames) /\ Len(Current) >= 2 /\ Len(Current) \in Nat
  BY <1>1, <1>2, LenProperties DEF Current
<1>4. \A i \in Int : Slot(i) \in Frames
  BY <1>3, LoadType DEF Slot
<1>5. End \in Int
  BY DEF StealingTypeOK, End
<1> QED
  BY <1>1, <1>2, <1>3, <1>4, <1>5

LEMMA InitInv == StealingInit => Inv
<1> SUFFICES ASSUME StealingInit PROVE Inv
  OBVIOUS
<1> DEFINE ring == EmptyRing(InitialCapacity)
<1>1. ring \in [1..InitialCapacity -> Frames] /\ DOMAIN ring = 1..InitialCapacity
  BY PushAssumption DEF EmptyRing, NoFrame, Frames
<1>2. ring \in Seq(Frames)
  BY <1>1, CapacityAssumption, SeqDef
<1>3. Len(ring) = InitialCapacity
  BY <1>1, <1>2, CapacityAssumption, LenProperties
<1> HIDE DEF ring
<1>4. rings = <<ring>>
  BY DEF StealingInit, ring
<1>5. rings \in Seq(Seq(Frames)) /\ Len(rings) = 1 /\ rings[1] = ring
  BY <1>2, <1>4
<1>6. Current = ring
  BY <1>5 DEF Current
<1>7. End = 0 /\ ~Popping
  BY DEF StealingInit, End, Popping
<1>8. StealingTypeOK
  BY <1>3, <1>5, CapacityAssumption, PushAssumption
  DEF StealingInit, StealingTypeOK, Tickets, Frames, NoFrame
<1>9. ContentsOK
  BY <1>3, <1>6, <1>7, CapacityAssumption DEF StealingInit, ContentsOK
<1>10. OwnerOK
  BY DEF StealingInit, OwnerOK
<1>11. \A t \in Thieves : ThiefOK(t)
  BY DEF StealingInit, ThiefOK
<1>12. AtMostOnce /\ NothingLost
  BY PushAssumption DEF StealingInit, AtMostOnce, NothingLost, Tickets
<1> QED
  BY <1>8, <1>9, <1>10, <1>11, <1>12 DEF Inv

\* The deque is untouched by a step that keeps top, End, the rings, and the
\* two histories.
LEMMA ContentsUntouched ==
  ASSUME Inv, UNCHANGED <<top, rings, pushed, takes>>, End' = End
  PROVE  /\ Current' = Current
         /\ \A i : Slot(i)' = Slot(i)
         /\ ContentsOK' /\ AtMostOnce' /\ NothingLost'
<1>1. Current' = Current /\ \A i : Slot(i)' = Slot(i)
  BY DEF Current, Slot
<1>2. ContentsOK'
  BY <1>1 DEF Inv, ContentsOK
<1>3. AtMostOnce'
  BY DEF Inv, AtMostOnce
<1>4. NothingLost'
  BY <1>1 DEF Inv, NothingLost
<1> QED
  BY <1>1, <1>2, <1>3, <1>4

\* A thief that does not move keeps its invariant when top, End and the rings
\* are kept.
LEMMA ThievesUntouched ==
  ASSUME Inv, UNCHANGED <<top, rings>>, End' = End,
         NEW t \in Thieves, thief'[t] = thief[t]
  PROVE  ThiefOK(t)'
BY DEF Inv, ThiefOK, Slot, Current

\* Steps of the owner that move no frame.
LEMMA OwnerQuietInv ==
  ASSUME Inv,
         PushLoadTop \/ PopDecrement \/ PopLast \/ PopEmpty \/ PopCasLost \/ PopRestore
  PROVE  Inv'
<1>1. UNCHANGED <<top, rings, thief, pushed, takes>>
  BY DEF PushLoadTop, PopDecrement, PopLast, PopEmpty, PopCasLost, PopRestore
<1>2. End' = End
  BY DEF Inv, StealingTypeOK, End, Popping, PushLoadTop, PopDecrement, PopLast, PopEmpty,
         PopCasLost, PopRestore
<1>3. StealingTypeOK'
  BY <1>1 DEF Inv, StealingTypeOK, PushLoadTop, PopDecrement, PopLast, PopEmpty, PopCasLost, PopRestore
<1>4. Current' = Current /\ ContentsOK' /\ AtMostOnce' /\ NothingLost'
  BY <1>1, <1>2, ContentsUntouched
<1>5. \A t \in Thieves : ThiefOK(t)'
  BY <1>1, <1>2, ThievesUntouched
<1>6. OwnerOK'
  <2>1. Len(Current) \in Nat
    BY CurrentType DEF Inv
  <2>2. CASE PushLoadTop
    BY <1>4, <2>1, <2>2 DEF Inv, StealingTypeOK, ContentsOK, OwnerOK, PushLoadTop, End, Popping
  <2>3. CASE PopDecrement
    BY <2>3 DEF Inv, StealingTypeOK, OwnerOK, PopDecrement
  <2>4. CASE PopLast
    BY <2>4 DEF Inv, StealingTypeOK, OwnerOK, PopLast
  <2>5. CASE PopEmpty
    BY <1>2, <2>5 DEF Inv, StealingTypeOK, ContentsOK, OwnerOK, PopEmpty, End, Popping
  <2>6. CASE PopCasLost
    BY <1>2, <2>6 DEF Inv, StealingTypeOK, ContentsOK, OwnerOK, PopCasLost, End, Popping
  <2>7. CASE PopRestore
    BY <2>7 DEF Inv, StealingTypeOK, OwnerOK, PopRestore
  <2> QED
    BY <2>2, <2>3, <2>4, <2>5, <2>6, <2>7
<1> QED
  BY <1>3, <1>4, <1>5, <1>6 DEF Inv

\* Growing the ring moves every frame to the new ring and keeps the old one.
LEMMA PushResizeRings ==
  ASSUME Inv, PushResize
  PROVE  /\ rings' \in Seq(Seq(Frames)) /\ Len(rings') = Len(rings) + 1
         /\ rings'[Len(rings) + 1] = Current' /\ Len(Current') = 2 * Len(Current)
         /\ \A r \in 1..Len(rings) : rings'[r] = rings[r]
         /\ \A k \in top..(bottom - 1) : Slot(k)' = Slot(k)
<1> DEFINE ring == Resize(Current, bottom, owner.top)
<1>1. /\ Current \in Seq(Frames) /\ Len(Current) \in Nat /\ Len(Current) >= 2
      /\ Len(rings) \in Nat /\ Len(rings) >= 1
  BY CurrentType DEF Inv
<1>2. bottom \in Int /\ owner.top \in Int /\ owner.top <= top /\ bottom - owner.top <= Len(Current)
      /\ top \in Int /\ End = bottom /\ End' = bottom
  BY DEF Inv, StealingTypeOK, OwnerOK, PushResize, End, Popping
<1>3. /\ ring \in Seq(Frames) /\ Len(ring) = 2 * Len(Current)
      /\ \A k \in owner.top..(bottom - 1) : Load(ring, k) = Load(Current, k)
  BY <1>1, <1>2, ResizeLemma
<1>4. rings' = Append(rings, ring) /\ UNCHANGED <<top, bottom, thief, pushed, takes>>
      /\ owner' = [owner EXCEPT !.pc = "store"]
  BY DEF PushResize
<1> HIDE DEF ring
<1>5. /\ rings' \in Seq(Seq(Frames)) /\ Len(rings') = Len(rings) + 1
      /\ rings'[Len(rings) + 1] = ring
      /\ \A r \in 1..Len(rings) : rings'[r] = rings[r]
  BY <1>1, <1>3, <1>4 DEF Inv, StealingTypeOK
<1>6. Current' = ring
  BY <1>5 DEF Current
<1>7. \A k \in top..(bottom - 1) : Slot(k)' = Slot(k)
  BY <1>2, <1>3, <1>6 DEF Slot
<1> QED
  BY <1>3, <1>5, <1>6, <1>7

LEMMA PushResizeInv == Inv /\ PushResize => Inv'
<1> SUFFICES ASSUME Inv, PushResize PROVE Inv'
  OBVIOUS
<1>1. /\ Len(Current) \in Nat /\ Len(Current) >= 2
      /\ Len(rings) \in Nat /\ Len(rings) >= 1
  BY CurrentType DEF Inv
<1>2. /\ bottom \in Int /\ top \in Int /\ owner.top \in Int /\ owner.top <= top
      /\ bottom - owner.top <= Len(Current) /\ End = bottom /\ End' = bottom
      /\ pushed < MaxPush
      /\ UNCHANGED <<top, bottom, thief, pushed, takes>>
      /\ owner' = [owner EXCEPT !.pc = "store"]
  BY DEF Inv, StealingTypeOK, OwnerOK, PushResize, End, Popping
<1>3. /\ rings' \in Seq(Seq(Frames)) /\ Len(rings') = Len(rings) + 1
      /\ rings'[Len(rings) + 1] = Current' /\ Len(Current') = 2 * Len(Current)
      /\ \A r \in 1..Len(rings) : rings'[r] = rings[r]
      /\ \A k \in top..(bottom - 1) : Slot(k)' = Slot(k)
  BY PushResizeRings
<1>4. StealingTypeOK'
  <2>1. \A r \in 1..Len(rings') : Len(rings'[r]) >= 2
    <3>1. \A r \in 1..Len(rings) : Len(rings'[r]) >= 2
      BY <1>3 DEF Inv, StealingTypeOK
    <3> QED
      BY <1>1, <1>3, <3>1
  <2>2. owner' \in [pc : {"idle", "push", "store", "publish", "popTop", "popCas", "popRestore"},
                    top : Nat]
    BY <1>2 DEF Inv, StealingTypeOK
  <2>3. \A t \in Thieves : thief'[t].pc = "slot" => thief'[t].ring \in 1..Len(rings')
    BY SMTT(30), <1>1, <1>2, <1>3 DEF Inv, StealingTypeOK
  <2> QED
    BY SMTT(30), <1>1, <1>2, <1>3, <2>1, <2>2, <2>3 DEF Inv, StealingTypeOK
<1>5. ContentsOK'
  BY SMTT(30), <1>1, <1>2, <1>3 DEF Inv, ContentsOK
<1>6. OwnerOK'
  BY SMTT(30), <1>1, <1>2, <1>3 DEF Inv, StealingTypeOK, OwnerOK
<1>7. \A t \in Thieves : ThiefOK(t)'
  <2> TAKE t \in Thieves
  <2>1. thief[t].pc = "slot" => thief[t].ring \in 1..Len(rings)
    BY DEF Inv, StealingTypeOK
  <2>2. ThiefOK(t)
    BY DEF Inv
  <2> QED
    BY SMTT(30), <1>2, <1>3, <2>1, <2>2 DEF ThiefOK
<1>8. AtMostOnce'
  BY <1>2 DEF Inv, AtMostOnce
<1>9. NothingLost'
  BY <1>2, <1>3 DEF Inv, NothingLost
<1> QED
  BY <1>4, <1>5, <1>6, <1>7, <1>8, <1>9 DEF Inv

\* A store fills the free slot at the bottom and disturbs no other frame.
LEMMA PushStoreRings ==
  ASSUME Inv, PushStore
  PROVE  /\ rings' \in Seq(Seq(Frames)) /\ Len(rings') = Len(rings)
         /\ Len(Current') = Len(Current) /\ Slot(bottom)' = pushed + 1
         /\ \A r \in 1..Len(rings) : rings'[r] = IF r = Len(rings) THEN Current' ELSE rings[r]
         /\ \A k \in top..(bottom - 1) : Slot(k)' = Slot(k)
<1> DEFINE ring == Store(Current, bottom, pushed + 1)
<1>1. /\ Current \in Seq(Frames) /\ Len(Current) \in Nat /\ Len(Current) >= 2
      /\ Len(rings) \in Nat /\ Len(rings) >= 1
  BY CurrentType DEF Inv
<1>2. /\ bottom \in Int /\ top \in Int /\ pushed \in Nat /\ pushed < MaxPush
      /\ owner.top \in Int /\ owner.top <= top /\ bottom - owner.top < Len(Current)
      /\ End = bottom /\ End' = bottom
  BY <1>1 DEF Inv, StealingTypeOK, OwnerOK, PushStore, IsFull, End, Popping
<1>3. pushed + 1 \in Frames
  BY <1>2, PushAssumption DEF Frames
<1>4. /\ ring \in Seq(Frames) /\ Len(ring) = Len(Current)
      /\ Load(ring, bottom) = pushed + 1
      /\ \A k \in Int : k < bottom /\ bottom - k < Len(Current) => Load(ring, k) = Load(Current, k)
  BY <1>1, <1>2, <1>3, StoreLemma
<1>5. rings' = [rings EXCEPT ![Len(rings)] = ring] /\ UNCHANGED <<top, bottom, thief, pushed, takes>>
      /\ owner' = [owner EXCEPT !.pc = "publish"]
  BY DEF PushStore
<1> HIDE DEF ring
<1>6. /\ rings' \in Seq(Seq(Frames)) /\ Len(rings') = Len(rings)
      /\ \A r \in 1..Len(rings) : rings'[r] = IF r = Len(rings) THEN ring ELSE rings[r]
  BY <1>1, <1>4, <1>5, ExceptSeq DEF Inv, StealingTypeOK
<1>7. Current' = ring
  BY <1>1, <1>6 DEF Current
<1>8. \A k \in top..(bottom - 1) : Slot(k)' = Slot(k)
  BY <1>2, <1>4, <1>7 DEF Slot
<1> QED
  BY <1>2, <1>4, <1>5, <1>6, <1>7, <1>8 DEF Slot

LEMMA PushStoreInv == Inv /\ PushStore => Inv'
<1> SUFFICES ASSUME Inv, PushStore PROVE Inv'
  OBVIOUS
<1>1. /\ Len(Current) \in Nat /\ Len(Current) >= 2
      /\ Len(rings) \in Nat /\ Len(rings) >= 1
  BY CurrentType DEF Inv
<1>2. /\ bottom \in Int /\ top \in Int /\ pushed \in Nat /\ pushed < MaxPush
      /\ owner.top \in Int /\ owner.top <= top /\ bottom - owner.top < Len(Current)
      /\ End = bottom /\ End' = bottom
      /\ UNCHANGED <<top, bottom, thief, pushed, takes>>
      /\ owner' = [owner EXCEPT !.pc = "publish"]
  BY <1>1 DEF Inv, StealingTypeOK, OwnerOK, PushStore, IsFull, End, Popping
<1>3. /\ rings' \in Seq(Seq(Frames)) /\ Len(rings') = Len(rings)
      /\ Len(Current') = Len(Current) /\ Slot(bottom)' = pushed + 1
      /\ \A r \in 1..Len(rings) : rings'[r] = IF r = Len(rings) THEN Current' ELSE rings[r]
      /\ \A k \in top..(bottom - 1) : Slot(k)' = Slot(k)
  BY PushStoreRings
<1>4. StealingTypeOK'
  <2>1. \A r \in 1..Len(rings') : Len(rings'[r]) >= 2
    BY <1>1, <1>3 DEF Inv, StealingTypeOK
  <2>2. owner' \in [pc : {"idle", "push", "store", "publish", "popTop", "popCas", "popRestore"},
                    top : Nat]
    BY <1>2 DEF Inv, StealingTypeOK
  <2> QED
    BY <1>1, <1>2, <1>3, <2>1, <2>2 DEF Inv, StealingTypeOK
<1>5. ContentsOK'
  BY <1>1, <1>2, <1>3 DEF Inv, ContentsOK
<1>6. OwnerOK'
  BY <1>2, <1>3 DEF Inv, StealingTypeOK, OwnerOK
<1>7. \A t \in Thieves : ThiefOK(t)'
  <2> TAKE t \in Thieves
  <2>1. thief[t].pc = "slot" => thief[t].ring \in 1..Len(rings)
    BY DEF Inv, StealingTypeOK
  <2>2. ThiefOK(t)
    BY DEF Inv
  <2>3. top < bottom => Slot(top)' = Slot(top)
    BY <1>2, <1>3 DEF Slot
  <2>4. ASSUME thief[t].pc = "slot", thief[t].top = top
        PROVE  Load(rings'[thief[t].ring], top) = Slot(top)'
    <3>1. CASE thief[t].ring = Len(rings)
      <4>1. rings'[thief[t].ring] = Current'
        <5>1. Len(rings) \in 1..Len(rings)
          BY <1>1
        <5> QED
          BY <1>3, <3>1, <5>1
      <4> QED
        BY <1>2, <4>1 DEF Slot
    <3>2. CASE thief[t].ring # Len(rings)
      BY <1>2, <1>3, <2>1, <2>2, <2>3, <2>4, <3>2 DEF ThiefOK
    <3> QED
      BY <3>1, <3>2
  <2>5. ASSUME thief[t].pc = "cas", thief[t].top = top
        PROVE  thief[t].frame = Slot(top)'
    BY <1>2, <2>2, <2>3, <2>5 DEF ThiefOK
  <2> QED
    BY <1>2, <2>2, <2>4, <2>5 DEF ThiefOK
<1>8. AtMostOnce'
  BY <1>2 DEF Inv, AtMostOnce
<1>9. NothingLost'
  BY <1>2, <1>3 DEF Inv, NothingLost
<1> QED
  BY <1>4, <1>5, <1>6, <1>7, <1>8, <1>9 DEF Inv

LEMMA PushPublishInv == Inv /\ PushPublish => Inv'
<1> SUFFICES ASSUME Inv, PushPublish PROVE Inv'
  OBVIOUS
<1>1. /\ Len(Current) \in Nat /\ bottom \in Int /\ top \in Int /\ pushed \in Nat /\ pushed < MaxPush
      /\ owner.top \in Int /\ owner.top <= top /\ bottom - owner.top < Len(Current)
      /\ End = bottom /\ End' = bottom + 1 /\ Slot(bottom) = pushed + 1
  BY CurrentType DEF Inv, StealingTypeOK, OwnerOK, PushPublish, End, Popping
<1>2. Current' = Current /\ \A i : Slot(i)' = Slot(i)
  BY DEF PushPublish, Current, Slot
<1>3. /\ UNCHANGED <<top, rings, thief, takes>> /\ bottom' = bottom + 1 /\ pushed' = pushed + 1
      /\ owner' = [owner EXCEPT !.pc = "idle"]
  BY DEF PushPublish
<1>4. StealingTypeOK'
  <2>1. owner' \in [pc : {"idle", "push", "store", "publish", "popTop", "popCas", "popRestore"},
                    top : Nat]
    BY <1>3 DEF Inv, StealingTypeOK
  <2>2. bottom' \in Int /\ pushed' \in 0..MaxPush
    BY <1>1, <1>3, PushAssumption
  <2> QED
    BY <1>3, <2>1, <2>2 DEF Inv, StealingTypeOK
<1>5. takes[pushed + 1] = 0
  BY <1>1, PushAssumption DEF Inv, StealingTypeOK, AtMostOnce, Tickets
<1>6. ContentsOK'
  <2>1. top <= End' /\ End' - top <= Len(Current)
    BY <1>1 DEF Inv, ContentsOK
  <2>2. \A i \in top..bottom : Slot(i) \in 1..(pushed + 1) /\ takes[Slot(i)] = 0
    BY <1>1, <1>5 DEF Inv, ContentsOK
  <2>3. \A i, j \in top..bottom : i < j => Slot(i) < Slot(j)
    BY <1>1 DEF Inv, ContentsOK
  <2> QED
    BY SMTT(30), <1>1, <1>2, <1>3, <2>1, <2>2, <2>3 DEF ContentsOK
<1>7. OwnerOK'
  BY <1>3 DEF Inv, StealingTypeOK, OwnerOK
<1>8. \A t \in Thieves : ThiefOK(t)'
  BY <1>1, <1>2, <1>3 DEF Inv, ThiefOK
<1>9. AtMostOnce'
  BY <1>1, <1>3, PushAssumption DEF Inv, StealingTypeOK, AtMostOnce, Tickets
<1>10. NothingLost'
  <2> SUFFICES ASSUME NEW n \in 1..(pushed + 1), takes[n] = 0
               PROVE  \E i \in top..bottom : Slot(i) = n
    BY <1>1, <1>2, <1>3 DEF NothingLost
  <2>1. CASE n = pushed + 1
    BY <1>1, <2>1 DEF Inv, ContentsOK
  <2>2. CASE n \in 1..pushed
    BY <1>1, <2>2 DEF Inv, NothingLost
  <2> QED
    BY <1>1, <2>1, <2>2
<1> QED
  BY <1>4, <1>6, <1>7, <1>8, <1>9, <1>10 DEF Inv

\* The thieves and the histories when the frame at the top is handed out by
\* the exchange of top with top + 1.
LEMMA TopTakenInv ==
  ASSUME Inv, UNCHANGED <<rings, pushed>>, End' = End, top < End,
         top' = top + 1, Take(Slot(top))
  PROVE  /\ Current' = Current /\ \A i : Slot(i)' = Slot(i)
         /\ takes' \in [Tickets -> Nat]
         /\ ContentsOK' /\ AtMostOnce' /\ NothingLost'
         /\ \A t \in Thieves : thief'[t] = thief[t] => ThiefOK(t)'
<1>1. Current' = Current /\ \A i : Slot(i)' = Slot(i)
  BY DEF Current, Slot
<1>2. /\ top \in Nat /\ End \in Int /\ pushed \in Nat /\ pushed <= MaxPush /\ MaxPush \in Nat
      /\ takes \in [Tickets -> Nat]
      /\ Len(Current) \in Nat
  BY CurrentType, PushAssumption DEF Inv, StealingTypeOK
<1>3. /\ Slot(top) \in 1..pushed /\ Slot(top) \in Tickets /\ takes[Slot(top)] = 0
      /\ \A i \in (top + 1)..(End - 1) : Slot(i) # Slot(top)
  BY <1>2 DEF Inv, ContentsOK, Tickets
<1>4. /\ takes' \in [Tickets -> Nat]
      /\ \A n \in Tickets : takes'[n] = IF n = Slot(top) THEN 1 ELSE takes[n]
  BY <1>2, <1>3 DEF Take
<1>5. ContentsOK'
  <2>1. top + 1 <= End /\ End - (top + 1) <= Len(Current)
    BY <1>2 DEF Inv, ContentsOK
  <2>2. \A i \in (top + 1)..(End - 1) : Slot(i) \in 1..pushed /\ takes'[Slot(i)] = 0
    BY <1>2, <1>3, <1>4 DEF Inv, ContentsOK, Tickets
  <2>3. \A i, j \in (top + 1)..(End - 1) : i < j => Slot(i) < Slot(j)
    BY <1>2 DEF Inv, ContentsOK
  <2> QED
    BY <1>1, <2>1, <2>2, <2>3 DEF ContentsOK
<1>6. AtMostOnce'
  BY <1>2, <1>3, <1>4 DEF Inv, AtMostOnce
<1>7. NothingLost'
  <2> SUFFICES ASSUME NEW n \in 1..pushed, takes'[n] = 0
               PROVE  \E i \in (top + 1)..(End - 1) : Slot(i) = n
    BY <1>1 DEF NothingLost
  <2>1. n # Slot(top) /\ takes[n] = 0
    BY <1>2, <1>4 DEF Tickets
  <2>2. PICK i \in top..(End - 1) : Slot(i) = n
    BY <2>1 DEF Inv, NothingLost
  <2> QED
    BY <1>2, <2>1, <2>2
<1>8. \A t \in Thieves : thief'[t] = thief[t] => ThiefOK(t)'
  <2> SUFFICES ASSUME NEW t \in Thieves, thief'[t] = thief[t] PROVE ThiefOK(t)'
    OBVIOUS
  <2>1. thief[t].top \in Nat /\ (thief[t].pc # "idle" => thief[t].top <= top)
    BY DEF Inv, StealingTypeOK, ThiefOK
  <2> QED
    BY <1>2, <2>1 DEF ThiefOK
<1> QED
  BY <1>1, <1>4, <1>5, <1>6, <1>7, <1>8

LEMMA PopManyInv == Inv /\ PopMany => Inv'
<1> SUFFICES ASSUME Inv, PopMany PROVE Inv'
  OBVIOUS
<1>1. /\ top \in Nat /\ bottom \in Int /\ pushed \in Nat /\ pushed <= MaxPush /\ MaxPush \in Nat
      /\ takes \in [Tickets -> Nat] /\ Len(Current) \in Nat
      /\ End = bottom + 1 /\ End' = bottom /\ top < bottom
  BY CurrentType, PushAssumption DEF Inv, StealingTypeOK, PopMany, End, Popping
<1>2. Current' = Current /\ \A i : Slot(i)' = Slot(i)
  BY DEF PopMany, Current, Slot
<1>3. /\ UNCHANGED <<top, bottom, rings, thief, pushed>>
      /\ owner' = [owner EXCEPT !.pc = "idle"] /\ Take(Slot(bottom))
  BY DEF PopMany, Slot
<1>4. /\ Slot(bottom) \in 1..pushed /\ Slot(bottom) \in Tickets /\ takes[Slot(bottom)] = 0
      /\ \A i \in top..(bottom - 1) : Slot(i) # Slot(bottom)
  BY <1>1 DEF Inv, ContentsOK, Tickets
<1>5. /\ takes' \in [Tickets -> Nat]
      /\ \A n \in Tickets : takes'[n] = IF n = Slot(bottom) THEN 1 ELSE takes[n]
  BY <1>1, <1>3, <1>4 DEF Take
<1>6. StealingTypeOK'
  <2>1. owner' \in [pc : {"idle", "push", "store", "publish", "popTop", "popCas", "popRestore"},
                    top : Nat]
    BY <1>3 DEF Inv, StealingTypeOK
  <2> QED
    BY <1>3, <1>5, <2>1 DEF Inv, StealingTypeOK
<1>7. ContentsOK'
  <2>1. top <= bottom /\ bottom - top <= Len(Current)
    BY <1>1 DEF Inv, ContentsOK
  <2>2. \A i \in top..(bottom - 1) : Slot(i) \in 1..pushed /\ takes'[Slot(i)] = 0
    BY <1>1, <1>4, <1>5 DEF Inv, ContentsOK, Tickets
  <2>3. \A i, j \in top..(bottom - 1) : i < j => Slot(i) < Slot(j)
    BY <1>1 DEF Inv, ContentsOK
  <2> QED
    BY <1>1, <1>2, <1>3, <2>1, <2>2, <2>3 DEF ContentsOK
<1>8. OwnerOK'
  BY <1>3 DEF Inv, StealingTypeOK, OwnerOK
<1>9. \A t \in Thieves : ThiefOK(t)'
  <2> TAKE t \in Thieves
  <2>1. ThiefOK(t)
    BY DEF Inv
  <2>2. Slot(top)' = Slot(top)
    BY <1>2, <1>3 DEF Slot
  <2> QED
    BY <1>1, <1>3, <2>1, <2>2 DEF ThiefOK
<1>10. AtMostOnce'
  BY <1>1, <1>3, <1>4, <1>5 DEF Inv, AtMostOnce
<1>11. NothingLost'
  <2> SUFFICES ASSUME NEW n \in 1..pushed, takes'[n] = 0
               PROVE  \E i \in top..(bottom - 1) : Slot(i) = n
    BY <1>1, <1>2, <1>3 DEF NothingLost
  <2>1. n # Slot(bottom) /\ takes[n] = 0
    BY <1>1, <1>5 DEF Tickets
  <2>2. PICK i \in top..bottom : Slot(i) = n
    BY <1>1, <2>1 DEF Inv, NothingLost
  <2> QED
    BY <1>1, <2>1, <2>2
<1> QED
  BY <1>6, <1>7, <1>8, <1>9, <1>10, <1>11 DEF Inv

LEMMA PopCasWonInv == Inv /\ PopCasWon => Inv'
<1> SUFFICES ASSUME Inv, PopCasWon PROVE Inv'
  OBVIOUS
<1>1. /\ top \in Nat /\ bottom = top /\ End = bottom + 1 /\ End' = End
      /\ UNCHANGED <<bottom, rings, thief, pushed>> /\ top' = top + 1
      /\ owner' = [owner EXCEPT !.pc = "popRestore"]
  BY DEF Inv, StealingTypeOK, OwnerOK, PopCasWon, End, Popping
<1>2. Take(Slot(top))
  BY <1>1 DEF PopCasWon, Slot
<1>3. /\ Current' = Current /\ takes' \in [Tickets -> Nat]
      /\ ContentsOK' /\ AtMostOnce' /\ NothingLost' /\ \A t \in Thieves : ThiefOK(t)'
  BY <1>1, <1>2, TopTakenInv
<1>4. StealingTypeOK'
  <2>1. owner' \in [pc : {"idle", "push", "store", "publish", "popTop", "popCas", "popRestore"},
                    top : Nat]
    BY <1>1 DEF Inv, StealingTypeOK
  <2>2. top' \in Nat
    BY <1>1
  <2> QED
    BY <1>1, <1>3, <2>1, <2>2 DEF Inv, StealingTypeOK
<1>5. OwnerOK'
  BY <1>1 DEF Inv, StealingTypeOK, OwnerOK
<1> QED
  BY <1>3, <1>4, <1>5 DEF Inv

\* Steps of a thief that hand out no frame.
LEMMA StealQuietInv ==
  ASSUME Inv, NEW t \in Thieves,
         \/ StealLoadTop(t) \/ StealLoadBottom(t) \/ StealLoadRing(t)
         \/ StealLoadSlot(t) \/ StealCasLost(t)
  PROVE  Inv'
<1>1. UNCHANGED <<top, bottom, rings, owner, pushed, takes>>
  BY DEF StealLoadTop, StealLoadBottom, StealLoadRing, StealLoadSlot, StealCasLost
<1>2. End' = End
  BY <1>1 DEF End, Popping
<1>3. Current' = Current /\ ContentsOK' /\ AtMostOnce' /\ NothingLost'
      /\ \A i : Slot(i)' = Slot(i)
  BY <1>1, <1>2, ContentsUntouched
<1>4. OwnerOK'
  <2>1. Slot(bottom)' = Slot(bottom)
    BY <1>1, <1>3 DEF Slot
  <2> QED
    BY <1>1, <1>2, <1>3, <2>1 DEF Inv, OwnerOK
<1>5. /\ Len(rings) \in Nat /\ Len(rings) >= 1 /\ top \in Nat /\ bottom \in Int
      /\ \A r \in 1..Len(rings) : rings[r] \in Seq(Frames) /\ Len(rings[r]) >= 2
      /\ bottom <= End /\ End \in Int
  BY CurrentType DEF Inv, StealingTypeOK, End
<1>6. thief[t] \in [pc : {"idle", "bottom", "ring", "slot", "cas"},
                    top : Nat, ring : Nat, frame : Frames]
      /\ (thief[t].pc = "slot" => thief[t].ring \in 1..Len(rings))
      /\ ThiefOK(t)
  BY DEF Inv, StealingTypeOK
<1> DEFINE Goal == /\ thief' = [thief EXCEPT ![t] = thief'[t]]
                   /\ thief'[t] \in [pc : {"idle", "bottom", "ring", "slot", "cas"},
                                     top : Nat, ring : Nat, frame : Frames]
                   /\ thief'[t].pc = "slot" => thief'[t].ring \in 1..Len(rings)
                   /\ ThiefOK(t)'
<1>7. Goal
  <2>1. thief \in [Thieves -> [pc : {"idle", "bottom", "ring", "slot", "cas"},
                               top : Nat, ring : Nat, frame : Frames]]
    BY DEF Inv, StealingTypeOK
  <2>2. CASE StealLoadTop(t)
    <3>1. /\ thief' = [thief EXCEPT ![t].pc = "bottom", ![t].top = top]
          /\ thief'[t].pc = "bottom" /\ thief'[t].top = top
          /\ thief'[t] \in [pc : {"idle", "bottom", "ring", "slot", "cas"},
                            top : Nat, ring : Nat, frame : Frames]
      BY <1>5, <1>6, <2>1, <2>2 DEF StealLoadTop
    <3>2. thief' = [thief EXCEPT ![t] = thief'[t]]
      BY <2>1, <3>1
    <3> QED
      BY <1>1, <1>5, <3>1, <3>2 DEF ThiefOK
  <2>3. CASE StealLoadBottom(t)
    BY SMTT(30), <1>1, <1>2, <1>5, <1>6, <2>1, <2>3 DEF StealLoadBottom, ThiefOK
  <2>4. CASE StealLoadRing(t)
    <3>1. /\ thief' = [thief EXCEPT ![t].pc = "slot", ![t].ring = Len(rings)]
          /\ thief'[t].pc = "slot" /\ thief'[t].ring = Len(rings)
          /\ thief'[t].top = thief[t].top /\ thief[t].pc = "ring"
          /\ thief'[t] \in [pc : {"idle", "bottom", "ring", "slot", "cas"},
                            top : Nat, ring : Nat, frame : Frames]
      BY <1>5, <1>6, <2>1, <2>4 DEF StealLoadRing
    <3>2. thief' = [thief EXCEPT ![t] = thief'[t]]
      BY <2>1, <3>1
    <3>3. Load(rings'[thief'[t].ring], top') = Slot(top)'
      BY <1>1, <3>1 DEF Slot, Current
    <3> QED
      BY <1>1, <1>2, <1>5, <1>6, <3>1, <3>2, <3>3 DEF ThiefOK
  <2>5. CASE StealLoadSlot(t)
    <3>1. Load(rings[thief[t].ring], thief[t].top) \in Frames
      BY SMTT(30), <1>5, <1>6, <2>5, LoadType DEF StealLoadSlot
    <3> QED
      BY <1>1, <1>2, <1>3, <1>5, <1>6, <2>1, <2>5, <3>1 DEF StealLoadSlot, ThiefOK
  <2>6. CASE StealCasLost(t)
    BY <1>1, <1>2, <1>5, <1>6, <2>1, <2>6 DEF StealCasLost, ThiefOK
  <2> QED
    BY <2>2, <2>3, <2>4, <2>5, <2>6
<1>8. StealingTypeOK'
  BY <1>1, <1>7 DEF Inv, StealingTypeOK
<1>9. \A u \in Thieves : ThiefOK(u)'
  <2> TAKE u \in Thieves
  <2>1. CASE u = t
    BY <1>7, <2>1
  <2>2. CASE u # t
    BY <1>1, <1>2, <1>7, <2>2, ThievesUntouched DEF Inv, StealingTypeOK
  <2> QED
    BY <2>1, <2>2
<1> QED
  BY <1>3, <1>4, <1>8, <1>9 DEF Inv

LEMMA StealCasWonInv ==
  ASSUME Inv, NEW t \in Thieves, StealCasWon(t)
  PROVE  Inv'
<1>1. /\ UNCHANGED <<bottom, rings, owner, pushed>> /\ top' = top + 1
      /\ thief' = [thief EXCEPT ![t].pc = "idle"]
      /\ End' = End
  BY DEF StealCasWon, End, Popping
<1>2. top < End /\ Take(Slot(top)) /\ top \in Nat /\ End \in Int
  BY CurrentType DEF Inv, StealingTypeOK, ThiefOK, StealCasWon
<1>3. /\ Current' = Current /\ \A i : Slot(i)' = Slot(i)
      /\ takes' \in [Tickets -> Nat]
      /\ ContentsOK' /\ AtMostOnce' /\ NothingLost'
      /\ \A u \in Thieves : thief'[u] = thief[u] => ThiefOK(u)'
  BY <1>1, <1>2, TopTakenInv
<1>4. thief' \in [Thieves -> [pc : {"idle", "bottom", "ring", "slot", "cas"},
                              top : Nat, ring : Nat, frame : Frames]]
      /\ thief'[t].pc = "idle"
      /\ \A u \in Thieves \ {t} : thief'[u] = thief[u]
  BY <1>1 DEF Inv, StealingTypeOK
<1>5. StealingTypeOK'
  <2>1. \A u \in Thieves : thief'[u].pc = "slot" => thief'[u].ring \in 1..Len(rings)
    BY <1>4 DEF Inv, StealingTypeOK
  <2> QED
    BY SMTT(30), <1>1, <1>2, <1>3, <1>4, <2>1 DEF Inv, StealingTypeOK
<1>6. OwnerOK'
  BY SMTT(30), <1>1, <1>2, <1>3 DEF Inv, StealingTypeOK, OwnerOK, ContentsOK, End, Popping
<1>7. \A u \in Thieves : ThiefOK(u)'
  <2>1. ThiefOK(t)'
    BY <1>4 DEF ThiefOK
  <2> QED
    BY <1>3, <1>4, <2>1
<1> QED
  BY <1>3, <1>5, <1>6, <1>7 DEF Inv

LEMMA NextInv == Inv /\ [StealingNext]_stealingVars => Inv'
<1> SUFFICES ASSUME Inv, [StealingNext]_stealingVars PROVE Inv'
  OBVIOUS
<1>1. CASE PushLoadTop \/ PopDecrement \/ PopLast \/ PopEmpty \/ PopCasLost \/ PopRestore
  BY <1>1, OwnerQuietInv
<1>2. CASE PushResize
  BY <1>2, PushResizeInv
<1>3. CASE PushStore
  BY <1>3, PushStoreInv
<1>4. CASE PushPublish
  BY <1>4, PushPublishInv
<1>5. CASE PopMany
  BY <1>5, PopManyInv
<1>6. CASE PopCasWon
  BY <1>6, PopCasWonInv
<1>7. ASSUME NEW t \in Thieves, Steal(t)
      PROVE  Inv'
  BY <1>7, StealQuietInv, StealCasWonInv DEF Steal
<1>8. CASE UNCHANGED stealingVars
  <2>1. End' = End /\ UNCHANGED <<top, bottom, rings, owner, thief, pushed, takes>>
    BY <1>8 DEF stealingVars, End, Popping
  <2>2. Current' = Current /\ ContentsOK' /\ AtMostOnce' /\ NothingLost'
        /\ \A i : Slot(i)' = Slot(i)
    BY <2>1, ContentsUntouched
  <2>3. \A t \in Thieves : ThiefOK(t)'
    BY <2>1, ThievesUntouched
  <2>4. StealingTypeOK' /\ OwnerOK'
    BY <2>1, <2>2 DEF Inv, StealingTypeOK, OwnerOK
  <2> QED
    BY <2>2, <2>3, <2>4 DEF Inv
<1> QED
  BY <1>1, <1>2, <1>3, <1>4, <1>5, <1>6, <1>7, <1>8 DEF StealingNext, OwnerStep

-----------------------------------------------------------------------------
\* The invariant holds of every reachable state of the deque.
THEOREM Invariance == StealingSpec => []Inv
<1>1. StealingInit => Inv
  BY InitInv
<1>2. Inv /\ [StealingNext]_stealingVars => Inv'
  BY NextInv
<1> QED
  BY <1>1, <1>2, PTL DEF StealingSpec

\* Every variable keeps its type, and a thief's copy of the ring pointer
\* always points to a ring the deque still owns (_M_garbage, line 86).
THEOREM TypeCorrect == StealingSpec => []StealingTypeOK
<1>1. Inv => StealingTypeOK
  BY DEF Inv
<1> QED
  BY <1>1, Invariance, PTL

\* No frame is handed out twice, however pushes, pops and steals interleave
\* (the races on _M_top at lines 105 and 129).
THEOREM NoDoubleTake == StealingSpec => []AtMostOnce
<1>1. Inv => AtMostOnce
  BY DEF Inv
<1> QED
  BY <1>1, Invariance, PTL

\* No published frame disappears, across resizes (line 86) and lost races.
THEOREM NoFrameLost == StealingSpec => []NothingLost
<1>1. Inv => NothingLost
  BY DEF Inv
<1> QED
  BY <1>1, Invariance, PTL

-----------------------------------------------------------------------------
(* The deque implements its abstract specification. *)

LEMMA ContentsSeq ==
  ASSUME Inv
  PROVE  /\ Contents \in Seq(Nat) /\ Len(Contents) = End - top
         /\ \A i \in 1..(End - top) : Contents[i] = Slot(top + i - 1)
<1>1. top \in Nat /\ End \in Int /\ top <= End
  BY CurrentType DEF Inv, StealingTypeOK, ContentsOK
<1>2. \A i \in 1..(End - top) : Slot(top + i - 1) \in Nat
  <2>1. \A i \in Int : Slot(i) \in Nat
    <3>1. StealingTypeOK
      BY DEF Inv
    <3>2. \A i \in Int : Slot(i) \in Frames
      BY <3>1, CurrentType
    <3> QED
      BY <3>2 DEF Frames
  <2> QED
    BY <1>1, <2>1
<1>3. Contents \in [1..(End - top) -> Nat] /\ DOMAIN Contents = 1..(End - top)
  BY <1>2 DEF Contents
<1>4. Contents \in Seq(Nat)
  BY <1>1, <1>3, SeqDef
<1>5. Len(Contents) = End - top
  BY <1>1, <1>3, <1>4, LenProperties
<1> QED
  BY <1>4, <1>5 DEF Contents

LEMMA ContentsStutter ==
  ASSUME UNCHANGED <<top, rings, pushed, takes>>, End' = End
  PROVE  UNCHANGED <<Contents, pushed, takes>>
BY DEF Contents, Slot, Current

LEMMA AbstractSteal ==
  ASSUME Inv, Inv', UNCHANGED <<rings, pushed>>, End' = End, top < End,
         top' = top + 1, Take(Slot(top))
  PROVE  Abstract!Steal
<1>1. top \in Nat /\ End \in Int
  BY CurrentType DEF Inv, StealingTypeOK
<1>2. /\ Contents \in Seq(Nat) /\ Len(Contents) = End - top
      /\ \A i \in 1..(End - top) : Contents[i] = Slot(top + i - 1)
  BY ContentsSeq
<1>3. /\ Contents' \in Seq(Nat) /\ Len(Contents') = End - (top + 1)
      /\ \A i \in 1..(End - (top + 1)) : Contents'[i] = Slot(top + i)
  <2>1. /\ (Contents \in Seq(Nat))' /\ (Len(Contents) = End - top)'
        /\ (\A i \in 1..(End - top) : Contents[i] = Slot(top + i - 1))'
    BY ContentsSeq, PTL
  <2>2. \A i : Slot(i)' = Slot(i)
    BY DEF Slot, Current
  <2>3. \A i \in 1..(End - (top + 1)) : Contents'[i] = Slot(top + i)
    BY <1>1, <2>1, <2>2 DEF Contents
  <2> QED
    BY <1>1, <2>1, <2>3
<1>4. Contents # <<>> /\ Head(Contents) = Slot(top)
  BY <1>1, <1>2
<1>5. Contents' = Tail(Contents)
  <2>1. /\ Tail(Contents) \in Seq(Nat) /\ Len(Tail(Contents)) = End - top - 1
        /\ \A i \in 1..Len(Tail(Contents)) : Tail(Contents)[i] = Contents[i + 1]
    BY <1>2, <1>4, HeadTailProperties
  <2>2. \A i \in 1..(End - (top + 1)) : Contents'[i] = Tail(Contents)[i]
    BY <1>1, <1>2, <1>3, <2>1
  <2>3. Len(Contents') = Len(Tail(Contents))
    BY <1>1, <1>3, <2>1
  <2>4. \A i \in 1..Len(Contents') : Contents'[i] = Tail(Contents)[i]
    BY <1>3, <2>2
  <2> QED
    BY <1>3, <2>1, <2>3, <2>4, SeqEqual
<1> QED
  BY <1>4, <1>5 DEF Abstract!Steal, Abstract!HandOut, Take

LEMMA AbstractPop ==
  ASSUME Inv, Inv', PopMany
  PROVE  Abstract!Pop
<1>1. top \in Nat /\ bottom \in Int /\ End = bottom + 1 /\ End' = bottom /\ top < bottom
      /\ UNCHANGED <<top, bottom, rings, pushed>> /\ Take(Slot(bottom))
  BY DEF Inv, StealingTypeOK, PopMany, End, Popping, Slot
<1>2. /\ Contents \in Seq(Nat) /\ Len(Contents) = bottom + 1 - top
      /\ \A i \in 1..(bottom + 1 - top) : Contents[i] = Slot(top + i - 1)
  BY <1>1, ContentsSeq
<1>3. /\ Contents' \in Seq(Nat) /\ Len(Contents') = bottom - top
      /\ \A i \in 1..(bottom - top) : Contents'[i] = Slot(top + i - 1)
  <2>1. /\ (Contents \in Seq(Nat))' /\ (Len(Contents) = End - top)'
        /\ (\A i \in 1..(End - top) : Contents[i] = Slot(top + i - 1))'
    BY ContentsSeq, PTL
  <2>2. \A i : Slot(i)' = Slot(i)
    BY <1>1 DEF Slot, Current
  <2>3. \A i \in 1..(bottom - top) : Contents'[i] = Slot(top + i - 1)
    BY <1>1, <2>1, <2>2 DEF Contents
  <2> QED
    BY <1>1, <2>1, <2>3
<1>4. Contents # <<>> /\ Abstract!Last(Contents) = Slot(bottom)
  <2>1. Len(Contents) > 0 /\ Contents[Len(Contents)] = Slot(top + (bottom + 1 - top) - 1)
    BY <1>1, <1>2
  <2>2. top + (bottom + 1 - top) - 1 = bottom
    BY <1>1
  <2> QED
    BY <2>1, <2>2, EmptySeq DEF Abstract!Last
<1>5. Contents' = Abstract!Front(Contents)
  <2>1. \A i \in 1..(Len(Contents) - 1) : Contents[i] \in Nat
    BY <1>2, ElementOfSeq
  <2>2. /\ Abstract!Front(Contents) \in Seq(Nat)
        /\ Len(Abstract!Front(Contents)) = bottom - top
        /\ \A i \in 1..(bottom - top) : Abstract!Front(Contents)[i] = Contents[i]
    BY <1>1, <1>2, <2>1, SubSeqProperties DEF Abstract!Front
  <2>3. \A i \in 1..(bottom - top) : Contents'[i] = Abstract!Front(Contents)[i]
    BY <1>1, <1>2, <1>3, <2>2
  <2> QED
    BY <1>3, <2>2, <2>3, SeqEqual
<1> QED
  BY <1>1, <1>4, <1>5 DEF Abstract!Pop, Abstract!HandOut, Take

LEMMA AbstractPush ==
  ASSUME Inv, Inv', PushPublish
  PROVE  Abstract!Push
<1>1. /\ top \in Nat /\ bottom \in Int /\ End = bottom /\ End' = bottom + 1 /\ top <= bottom
      /\ UNCHANGED <<top, rings, takes>> /\ pushed' = pushed + 1
      /\ pushed \in Nat /\ pushed < MaxPush /\ Slot(bottom) = pushed + 1
  BY DEF Inv, StealingTypeOK, ContentsOK, OwnerOK, PushPublish, End, Popping
<1>2. /\ Contents \in Seq(Nat) /\ Len(Contents) = bottom - top
      /\ \A i \in 1..(bottom - top) : Contents[i] = Slot(top + i - 1)
  BY <1>1, ContentsSeq
<1>3. /\ Contents' \in Seq(Nat) /\ Len(Contents') = bottom + 1 - top
      /\ \A i \in 1..(bottom + 1 - top) : Contents'[i] = Slot(top + i - 1)
  <2>1. /\ (Contents \in Seq(Nat))' /\ (Len(Contents) = End - top)'
        /\ (\A i \in 1..(End - top) : Contents[i] = Slot(top + i - 1))'
    BY ContentsSeq, PTL
  <2>2. \A i : Slot(i)' = Slot(i)
    BY <1>1 DEF Slot, Current
  <2>3. \A i \in 1..(bottom + 1 - top) : Contents'[i] = Slot(top + i - 1)
    BY <1>1, <2>1, <2>2 DEF Contents
  <2> QED
    BY <1>1, <2>1, <2>3
<1>4. /\ Append(Contents, pushed + 1) \in Seq(Nat)
      /\ Len(Append(Contents, pushed + 1)) = bottom + 1 - top
      /\ \A i \in 1..(bottom - top) : Append(Contents, pushed + 1)[i] = Contents[i]
      /\ Append(Contents, pushed + 1)[bottom + 1 - top] = pushed + 1
  <2>1. \A s \in Seq(Nat), e \in Nat :
          /\ Append(s, e) \in Seq(Nat) /\ Len(Append(s, e)) = Len(s) + 1
          /\ \A i \in 1..Len(s) : Append(s, e)[i] = s[i]
          /\ Append(s, e)[Len(s) + 1] = e
    OBVIOUS
  <2>2. bottom + 1 - top = Len(Contents) + 1 /\ pushed + 1 \in Nat
    BY <1>1, <1>2
  <2> QED
    BY <1>2, <2>1, <2>2
<1>5. \A i \in 1..(bottom + 1 - top) : Contents'[i] = Append(Contents, pushed + 1)[i]
  <2> TAKE i \in 1..(bottom + 1 - top)
  <2>1. CASE i = bottom + 1 - top
    <3>1. top + i - 1 = bottom
      BY <1>1, <2>1
    <3> QED
      BY <1>1, <1>3, <1>4, <2>1, <3>1
  <2>2. CASE i \in 1..(bottom - top)
    BY <1>2, <1>3, <1>4, <2>2
  <2>3. i = bottom + 1 - top \/ i \in 1..(bottom - top)
    BY <1>1
  <2> QED
    BY <2>1, <2>2, <2>3
<1>6. Contents' = Append(Contents, pushed + 1)
  BY <1>3, <1>4, <1>5, SeqEqual
<1> QED
  BY <1>1, <1>6 DEF Abstract!Push

\* Every behaviour of the fine-grained deque is one of the abstract deque:
\* the owner sees a stack and the thieves a FIFO queue (lines 58-63).
THEOREM Refinement == StealingSpec => ImplementsDeque
<1>1. StealingInit => Abstract!Init
  <2> SUFFICES ASSUME StealingInit PROVE Abstract!Init
    OBVIOUS
  <2>1. Contents \in Seq(Nat) /\ Len(Contents) = 0
    <3>1. Inv
      BY InitInv
    <3>2. End = 0 /\ top = 0
      BY DEF StealingInit, End, Popping
    <3> QED
      BY <3>1, <3>2, ContentsSeq
  <2>2. Contents = <<>>
    BY <2>1, EmptySeq
  <2> QED
    BY <2>2 DEF StealingInit, Abstract!Init, Tickets
<1>2. Inv /\ Inv' /\ [StealingNext]_stealingVars => [Abstract!Next]_<<Contents, pushed, takes>>
  <2> SUFFICES ASSUME Inv, Inv', [StealingNext]_stealingVars
               PROVE  [Abstract!Next]_<<Contents, pushed, takes>>
    OBVIOUS
  <2>1. CASE PushLoadTop \/ PopDecrement \/ PopLast \/ PopEmpty \/ PopCasLost \/ PopRestore
    <3>1. UNCHANGED <<top, rings, pushed, takes>>
      BY <2>1 DEF PushLoadTop, PopDecrement, PopLast, PopEmpty, PopCasLost, PopRestore
    <3>2. End' = End
      BY SMTT(30), <2>1 DEF Inv, StealingTypeOK, End, Popping, PushLoadTop, PopDecrement, PopLast, PopEmpty,
             PopCasLost, PopRestore
    <3> QED
      BY <3>1, <3>2, ContentsStutter
  <2>2. CASE PushResize \/ PushStore
    <3>1. /\ UNCHANGED <<top, pushed, takes>> /\ End' = End
          /\ \A k \in top..(End - 1) : Slot(k)' = Slot(k)
      <4>1. UNCHANGED <<top, bottom, pushed, takes>> /\ End' = bottom /\ End = bottom
        BY <2>2 DEF Inv, StealingTypeOK, PushResize, PushStore, End, Popping
      <4>2. \A k \in top..(bottom - 1) : Slot(k)' = Slot(k)
        BY <2>2, PushResizeRings, PushStoreRings
      <4> QED
        BY <4>1, <4>2
    <3>2. Contents' = Contents
      BY SMTT(30), <3>1, CurrentType DEF Contents, Inv, StealingTypeOK
    <3> QED
      BY <3>1, <3>2
  <2>3. CASE PushPublish
    BY <2>3, AbstractPush DEF Abstract!Next
  <2>4. CASE PopMany
    BY <2>4, AbstractPop DEF Abstract!Next
  <2>5. CASE PopCasWon
    <3>1. /\ UNCHANGED <<rings, pushed>> /\ top' = top + 1 /\ End' = End /\ top < End
          /\ Take(Slot(top))
      BY <2>5 DEF Inv, StealingTypeOK, OwnerOK, PopCasWon, End, Popping, Slot
    <3> QED
      BY <3>1, AbstractSteal DEF Abstract!Next
  <2>6. ASSUME NEW t \in Thieves, Steal(t)
        PROVE  [Abstract!Next]_<<Contents, pushed, takes>>
    <3>1. CASE StealCasWon(t)
      <4>1. /\ UNCHANGED <<rings, pushed>> /\ top' = top + 1 /\ End' = End /\ top < End
            /\ Take(Slot(top))
        BY <3>1 DEF Inv, StealingTypeOK, ThiefOK, StealCasWon, End, Popping
      <4> QED
        BY <4>1, AbstractSteal DEF Abstract!Next
    <3>2. CASE ~StealCasWon(t)
      <4>1. UNCHANGED <<top, bottom, rings, owner, pushed, takes>>
        BY <2>6, <3>2 DEF Steal, StealLoadTop, StealLoadBottom, StealLoadRing,
                          StealLoadSlot, StealCasLost
      <4>2. End' = End
        BY <4>1 DEF End, Popping
      <4> QED
        BY <4>1, <4>2, ContentsStutter
    <3> QED
      BY <3>1, <3>2
  <2>7. CASE UNCHANGED stealingVars
    <3>1. UNCHANGED <<top, rings, pushed, takes>> /\ End' = End
      BY <2>7 DEF stealingVars, End, Popping
    <3> QED
      BY <3>1, ContentsStutter
  <2> QED
    BY <2>1, <2>2, <2>3, <2>4, <2>5, <2>6, <2>7 DEF StealingNext, OwnerStep
<1> QED
  BY <1>1, <1>2, Invariance, PTL DEF StealingSpec, ImplementsDeque, Abstract!Spec

-----------------------------------------------------------------------------
(* The remote queue. *)

\* No push is half done while pop_front looks whether its front node has a successor.
\* Nothing in the code ensures it; without workers it is always so.
Separate == stage[Main] = "next" => \A w \in Workers : stage[w] = "idle"

Nowhere == -1

\* The number of frames that have been dispatched.
Count == Len(popped)

\* The node n is in the queue, but its predecessor has no link to it.
Pending(n) == \E t \in Threads : stage[t] = "link" /\ node[t] = n

\* The frames 1..Count have been dispatched in order, and the nodes behind them are linked
\* in order but for the pending ones.  The embedded node stands behind node g, or is not in
\* the queue if g is Nowhere.
Chain(g) ==
  /\ \A i \in DOMAIN popped : popped[i] = i
  /\ Count <= exchanged
  /\ g \in Count..exchanged \/ (g = Nowhere /\ Count < exchanged)
  /\ front = IF g = Count THEN Nil ELSE Count + 1
  /\ back = IF g = exchanged THEN Nil ELSE exchanged
  /\ \A j \in Nodes :
       j > Count =>
         next[j] = IF j = g THEN IF stage[Main] = "linkNil" THEN Null ELSE Nil
                   ELSE IF j >= exchanged \/ Pending(j + 1) THEN Null ELSE j + 1
  /\ g # Nowhere => nil = IF g = exchanged \/ Pending(g + 1) THEN Null ELSE g + 1

\* Who pushes a node knows its predecessor.
Pushers(g) ==
  /\ \A t \in Threads : stage[t] = "link" =>
       /\ node[t] \in (Count + 1)..exchanged
       /\ node[t] = Count + 1 => g = Count
       /\ prev[t] = IF node[t] = g + 1 /\ g # Nowhere THEN Nil ELSE node[t] - 1
  /\ \A t, u \in Threads : stage[t] = "link" /\ stage[u] = "link" /\ node[t] = node[u] => t = u

\* pop_front puts the embedded node into the queue only if it is not there.
Popper(g) ==
  /\ stage[Main] \in {"next", "reset", "exchangeNil", "linkNil", "spin"} => g # Count
  /\ stage[Main] \in {"reset", "exchangeNil"} => g = Nowhere
  /\ stage[Main] = "exchangeNil" => nil = Null
  /\ stage[Main] = "linkNil" => g # Nowhere /\ prev[Main] = g
  /\ stage[Main] = "spin" => g # Nowhere
  /\ ~wild

Queue == \E g \in Nowhere..MaxPushes : Chain(g) /\ Pushers(g) /\ Popper(g)
Sound(g) == QueueTypeOK /\ Chain(g) /\ Pushers(g) /\ Popper(g)

-----------------------------------------------------------------------------
\* Facts that every case below needs.
LEMMA Basics ==
  ASSUME NEW g \in Nowhere..MaxPushes, Sound(g)
  PROVE  /\ MaxPushes \in Nat /\ Count \in Nat /\ exchanged \in Nat /\ exchanged <= MaxPushes
         /\ g \in Int /\ Main \in Threads /\ Main \notin Workers /\ Workers \subseteq Threads
         /\ DOMAIN popped = 1..Count
BY MainAssumption, PushesAssumption DEF Sound, QueueTypeOK, Count, Threads, Nowhere

\* Where the queue begins: at a node that is linked, unless everything has been dispatched or
\* pop_front has come to the embedded node.
LEMMA Front ==
  ASSUME NEW g \in Nowhere..MaxPushes, Sound(g), g # Count
  PROVE  front = Count + 1 /\ front \in Nodes /\ front <= exchanged /\ ~Pending(front)
<1>1. front = Count + 1 /\ Count < exchanged
  BY Basics DEF Sound, Chain, Nowhere
<1>2. front \in Nodes /\ front <= exchanged
  BY <1>1, Basics DEF Nodes
<1>3. ~Pending(front)
  BY <1>1 DEF Pending, Sound, Pushers
<1> QED
  BY <1>1, <1>2, <1>3

LEMMA ExchangeSound ==
  ASSUME NEW g \in Nowhere..MaxPushes, Sound(g), NEW t \in Threads, PushExchange(t)
  PROVE  Sound(g)'
<1>1. /\ stage[t] = "idle" /\ exchanged < MaxPushes /\ exchanged' = exchanged + 1 /\ back' = exchanged + 1
      /\ node' = [node EXCEPT ![t] = exchanged + 1] /\ prev' = [prev EXCEPT ![t] = back]
      /\ stage' = [stage EXCEPT ![t] = "link"] /\ UNCHANGED <<front, nil, next, popped, wild>>
  BY DEF PushExchange
<1>2. /\ MaxPushes \in Nat /\ Count \in Nat /\ exchanged \in Nat /\ g \in Int /\ Main \in Threads
      /\ Count' = Count
  BY <1>1, Basics DEF Count
<1>3. QueueTypeOK'
  BY <1>1, <1>2 DEF Sound, QueueTypeOK, Nodes, Links
<1>4. /\ stage'[t] = "link" /\ node'[t] = exchanged + 1 /\ prev'[t] = back
      /\ \A u \in Threads \ {t} : stage'[u] = stage[u] /\ node'[u] = node[u] /\ prev'[u] = prev[u]
  BY <1>1 DEF Sound, QueueTypeOK
<1>5. ASSUME NEW n PROVE Pending(n)' <=> Pending(n) \/ n = exchanged + 1
  BY <1>1, <1>4 DEF Pending
<1>6. g # exchanged + 1 /\ g <= exchanged
  BY <1>2 DEF Sound, Chain, Nowhere
<1>7. stage'[Main] = "linkNil" <=> stage[Main] = "linkNil"
  BY <1>1, <1>2, <1>4
<1>8. Chain(g)'
  <2>1. /\ \A i \in DOMAIN popped : popped[i] = i
        /\ Count <= exchanged /\ (g \in Count..exchanged \/ (g = Nowhere /\ Count < exchanged))
        /\ front = IF g = Count THEN Nil ELSE Count + 1
    BY DEF Sound, Chain
  <2>2. ASSUME NEW j \in Nodes, j > Count
        PROVE  next'[j] = IF j = g THEN IF stage'[Main] = "linkNil" THEN Null ELSE Nil
                          ELSE IF j >= exchanged' \/ Pending(j + 1)' THEN Null ELSE j + 1
    <3>1. next[j] = IF j = g THEN IF stage[Main] = "linkNil" THEN Null ELSE Nil
                    ELSE IF j >= exchanged \/ Pending(j + 1) THEN Null ELSE j + 1
      BY <2>2 DEF Sound, Chain
    <3>2. j \in Int /\ (Pending(j + 1)' <=> Pending(j + 1) \/ j + 1 = exchanged + 1)
      BY <1>2, <1>5 DEF Nodes
    <3>3. j >= exchanged' \/ Pending(j + 1)' <=> j >= exchanged \/ Pending(j + 1)
      BY <1>1, <1>2, <3>2
    <3> QED
      BY <1>1, <1>7, <3>1, <3>3
  <2>3. g # Nowhere => nil' = IF g = exchanged' \/ Pending(g + 1)' THEN Null ELSE g + 1
    <3>1. g # Nowhere => nil = IF g = exchanged \/ Pending(g + 1) THEN Null ELSE g + 1
      BY DEF Sound, Chain
    <3>2. Pending(g + 1)' <=> Pending(g + 1) \/ g + 1 = exchanged + 1
      BY <1>5
    <3> QED
      BY <1>1, <1>2, <1>6, <3>1, <3>2
  <2> QED
    BY <1>1, <1>2, <1>6, <2>1, <2>2, <2>3 DEF Chain
<1>9. Pushers(g)'
  <2>1. \A u \in Threads \ {t} : stage[u] = "link" => node[u] <= exchanged
    BY <1>2 DEF Sound, Pushers
  <2>2. \A u \in Threads \ {t} : stage'[u] = "link" =>
          /\ node'[u] \in (Count' + 1)..exchanged'
          /\ node'[u] = Count' + 1 => g = Count'
          /\ prev'[u] = IF node'[u] = g + 1 /\ g # Nowhere THEN Nil ELSE node'[u] - 1
    BY <1>1, <1>2, <1>4 DEF Sound, Pushers
  <2>3. /\ node'[t] \in (Count' + 1)..exchanged'
        /\ node'[t] = Count' + 1 => g = Count'
        /\ prev'[t] = IF node'[t] = g + 1 /\ g # Nowhere THEN Nil ELSE node'[t] - 1
    BY <1>1, <1>2, <1>4 DEF Sound, Chain, Nowhere
  <2>4. \A u, v \in Threads : stage'[u] = "link" /\ stage'[v] = "link" /\ node'[u] = node'[v] => u = v
    BY <1>2, <1>4, <2>1 DEF Sound, Pushers
  <2> QED
    BY <2>2, <2>3, <2>4 DEF Pushers
<1>10. Popper(g)'
  BY <1>1, <1>2, <1>4 DEF Sound, Popper
<1> QED
  BY <1>3, <1>8, <1>9, <1>10 DEF Sound

LEMMA LinkSound ==
  ASSUME NEW g \in Nowhere..MaxPushes, Sound(g), NEW t \in Threads,
         PushLinkNil(t) \/ PushLinkNode(t)
  PROVE  Sound(g)'
<1>1. /\ stage[t] = "link" /\ stage' = [stage EXCEPT ![t] = "idle"]
      /\ UNCHANGED <<back, front, node, prev, exchanged, popped, wild>>
  BY DEF PushLinkNil, PushLinkNode
<1>2. /\ MaxPushes \in Nat /\ Count \in Nat /\ exchanged \in Nat /\ exchanged <= MaxPushes /\ g \in Int
      /\ Main \in Threads /\ Count' = Count
  BY <1>1, Basics DEF Count
<1>3. /\ node[t] \in (Count + 1)..exchanged /\ (node[t] = Count + 1 => g = Count)
      /\ prev[t] = IF node[t] = g + 1 /\ g # Nowhere THEN Nil ELSE node[t] - 1
  BY <1>1 DEF Sound, Pushers
<1>4. stage'[t] = "idle" /\ \A u \in Threads \ {t} : stage'[u] = stage[u]
  BY <1>1 DEF Sound, QueueTypeOK
<1>5. ASSUME NEW n PROVE Pending(n)' <=> Pending(n) /\ n # node[t]
  BY <1>1, <1>4 DEF Pending, Sound, Pushers
<1>6. Pending(node[t])
  BY <1>1 DEF Pending
<1>7. stage'[Main] = "linkNil" <=> stage[Main] = "linkNil"
  BY <1>1, <1>2, <1>4
<1>8. Pushers(g)'
  BY <1>1, <1>2, <1>4 DEF Sound, Pushers
<1>9. /\ \A i \in DOMAIN popped : popped[i] = i
      /\ Count <= exchanged /\ (g \in Count..exchanged \/ (g = Nowhere /\ Count < exchanged))
      /\ front = IF g = Count THEN Nil ELSE Count + 1
      /\ back = IF g = exchanged THEN Nil ELSE exchanged
  BY DEF Sound, Chain
<1>10. CASE PushLinkNil(t)
  <2>1. nil' = node[t] /\ next' = next /\ prev[t] = Nil
    BY <1>10 DEF PushLinkNil
  <2>2. node[t] = g + 1 /\ g # Nowhere
    BY <1>2, <1>3, <2>1 DEF Nil
  <2>3. QueueTypeOK'
    BY <1>1, <1>2, <1>3, <2>1 DEF Sound, QueueTypeOK, Nodes
  <2>4. ASSUME NEW j \in Nodes, j > Count
        PROVE  next'[j] = IF j = g THEN IF stage'[Main] = "linkNil" THEN Null ELSE Nil
                          ELSE IF j >= exchanged' \/ Pending(j + 1)' THEN Null ELSE j + 1
    <3>1. next[j] = IF j = g THEN IF stage[Main] = "linkNil" THEN Null ELSE Nil
                    ELSE IF j >= exchanged \/ Pending(j + 1) THEN Null ELSE j + 1
      BY <2>4 DEF Sound, Chain
    <3>2. j # g => (Pending(j + 1)' <=> Pending(j + 1))
      BY <1>2, <1>5, <2>2 DEF Nodes
    <3> QED
      BY <1>1, <1>7, <2>1, <3>1, <3>2
  <2>5. nil' = IF g = exchanged' \/ Pending(g + 1)' THEN Null ELSE g + 1
    <3>1. ~Pending(g + 1)'
      BY <1>5, <2>2
    <3> QED
      BY <1>1, <1>2, <1>3, <2>1, <2>2, <3>1
  <2>6. Chain(g)'
    BY <1>1, <1>2, <1>9, <2>4, <2>5 DEF Chain
  <2>7. Popper(g)'
    BY <1>1, <1>2, <1>4, <2>1, <2>2 DEF Sound, Popper
  <2> QED
    BY <1>8, <2>3, <2>6, <2>7 DEF Sound
<1>11. CASE PushLinkNode(t)
  <2> DEFINE m == node[t] - 1
  <2>1. nil' = nil /\ next' = [next EXCEPT ![prev[t]] = node[t]] /\ prev[t] # Nil
    BY <1>11 DEF PushLinkNode
  <2>2. prev[t] = m /\ (g = Nowhere \/ node[t] # g + 1)
    BY <1>3, <2>1
  <2>3. m \in Nodes /\ m > Count /\ m < exchanged /\ m # g /\ node[t] = m + 1
    BY <1>2, <1>3, <2>2 DEF Nodes, Nowhere
  <2> HIDE DEF m
  <2>4. next' = [next EXCEPT ![m] = m + 1]
    BY <2>1, <2>2, <2>3
  <2>5. QueueTypeOK'
    <3>1. m + 1 \in Links
      BY <1>2, <1>3, <2>3 DEF Nodes, Links
    <3>2. next' \in [Nodes -> Links]
      BY <2>3, <2>4, <3>1 DEF Sound, QueueTypeOK
    <3> QED
      BY <1>1, <1>2, <2>1, <3>2 DEF Sound, QueueTypeOK
  <2>6. ASSUME NEW j \in Nodes, j > Count
        PROVE  next'[j] = IF j = g THEN IF stage'[Main] = "linkNil" THEN Null ELSE Nil
                          ELSE IF j >= exchanged' \/ Pending(j + 1)' THEN Null ELSE j + 1
    <3>1. next[j] = IF j = g THEN IF stage[Main] = "linkNil" THEN Null ELSE Nil
                    ELSE IF j >= exchanged \/ Pending(j + 1) THEN Null ELSE j + 1
      BY <2>6 DEF Sound, Chain
    <3>2. j \in Int /\ m \in Int /\ next \in [Nodes -> Links]
      BY <2>3 DEF Nodes, Sound, QueueTypeOK
    <3>3. Pending(j + 1)' <=> Pending(j + 1) /\ j # m
      BY <1>5, <2>3, <3>2
    <3>4. CASE j = m
      <4>1. next'[j] = j + 1
        BY <2>3, <2>4, <3>2, <3>4
      <4> QED
        BY <1>1, <1>2, <2>3, <3>2, <3>3, <3>4, <4>1
    <3>5. CASE j # m
      <4>1. next'[j] = next[j]
        BY <2>4, <3>2, <3>5
      <4> QED
        BY <1>1, <1>7, <3>1, <3>3, <3>5, <4>1
    <3> QED
      BY <3>4, <3>5
  <2>7. g # Nowhere => nil' = IF g = exchanged' \/ Pending(g + 1)' THEN Null ELSE g + 1
    <3>1. g # Nowhere => (Pending(g + 1)' <=> Pending(g + 1))
      BY <1>5, <2>2
    <3> QED
      BY <1>1, <2>1, <3>1 DEF Sound, Chain
  <2>8. Chain(g)'
    BY <1>1, <1>2, <1>9, <2>6, <2>7 DEF Chain
  <2>9. Popper(g)'
    BY <1>1, <1>2, <1>4, <2>1 DEF Sound, Popper
  <2> QED
    BY <1>8, <2>5, <2>8, <2>9 DEF Sound
<1> QED
  BY <1>10, <1>11

LEMMA StartSound ==
  ASSUME NEW g \in Nowhere..MaxPushes, Sound(g), PopStart
  PROVE  \E h \in Nowhere..MaxPushes : Sound(h)'
<1>1. /\ stage[Main] = "idle" /\ stage' = [stage EXCEPT ![Main] = "next"]
      /\ UNCHANGED <<back, nil, next, node, prev, exchanged, popped, wild>>
  BY DEF PopStart
<1>2. /\ MaxPushes \in Nat /\ Count \in Nat /\ exchanged \in Nat /\ exchanged <= MaxPushes /\ g \in Int
      /\ Main \in Threads /\ Main \notin Workers /\ Count' = Count
  BY <1>1, Basics DEF Count
<1>3. stage'[Main] = "next" /\ \A u \in Threads \ {Main} : stage'[u] = stage[u]
  BY <1>1, <1>2 DEF Sound, QueueTypeOK
<1>4. ASSUME NEW n PROVE Pending(n)' <=> Pending(n)
  BY <1>1, <1>3 DEF Pending
<1>5. /\ \A i \in DOMAIN popped : popped[i] = i
      /\ Count <= exchanged /\ (g \in Count..exchanged \/ (g = Nowhere /\ Count < exchanged))
      /\ front = IF g = Count THEN Nil ELSE Count + 1
      /\ back = IF g = exchanged THEN Nil ELSE exchanged
  BY DEF Sound, Chain
<1>6. ASSUME NEW j \in Nodes, j > Count
      PROVE  next[j] = IF j = g THEN Nil
                       ELSE IF j >= exchanged \/ Pending(j + 1) THEN Null ELSE j + 1
  BY <1>1, <1>6 DEF Sound, Chain
<1>7. g # Nowhere => nil = IF g = exchanged \/ Pending(g + 1) THEN Null ELSE g + 1
  BY DEF Sound, Chain
<1>8. CASE front # Nil
  <2>1. front' = front /\ g # Count
    BY <1>2, <1>5, <1>8 DEF PopStart
  <2>2. QueueTypeOK'
    BY <1>1, <1>2, <2>1 DEF Sound, QueueTypeOK
  <2>3. Chain(g)'
    BY <1>1, <1>2, <1>3, <1>4, <1>5, <1>6, <1>7, <2>1 DEF Chain
  <2>4. Pushers(g)'
    BY <1>1, <1>2, <1>3 DEF Sound, Pushers
  <2>5. Popper(g)'
    BY <1>1, <1>2, <1>3, <2>1 DEF Sound, Popper
  <2> QED
    BY <2>2, <2>3, <2>4, <2>5 DEF Sound
<1>9. CASE front = Nil
  <2>1. front' = nil /\ nil # Null
    BY <1>9 DEF PopStart
  <2>2. g = Count /\ g # Nowhere
    BY <1>2, <1>5, <1>9 DEF Nil, Nowhere
  <2>3. nil = Count + 1 /\ Count < exchanged /\ ~Pending(Count + 1)
    BY <1>2, <1>5, <1>7, <2>1, <2>2
  <2>4. Nowhere \in Nowhere..MaxPushes
    BY <1>2 DEF Nowhere
  <2>5. QueueTypeOK'
    BY <1>1, <1>2, <2>1 DEF Sound, QueueTypeOK
  <2>6. ASSUME NEW j \in Nodes, j > Count
        PROVE  next'[j] = IF j = Nowhere THEN IF stage'[Main] = "linkNil" THEN Null ELSE Nil
                          ELSE IF j >= exchanged' \/ Pending(j + 1)' THEN Null ELSE j + 1
    BY <1>1, <1>2, <1>4, <1>6, <2>2, <2>6 DEF Nowhere, Nodes
  <2>7. Chain(Nowhere)'
    BY <1>1, <1>2, <1>5, <2>1, <2>2, <2>3, <2>6 DEF Chain, Nowhere
  <2>8. Pushers(Nowhere)'
    <3>1. ASSUME NEW t \in Threads, stage'[t] = "link"
          PROVE  /\ node'[t] \in (Count' + 1)..exchanged' /\ node'[t] # Count' + 1
                 /\ prev'[t] = node'[t] - 1
      <4>1. stage[t] = "link" /\ node'[t] = node[t] /\ prev'[t] = prev[t]
        BY <1>1, <1>3, <3>1
      <4>2. node[t] \in (Count + 1)..exchanged
            /\ prev[t] = IF node[t] = g + 1 /\ g # Nowhere THEN Nil ELSE node[t] - 1
        BY <4>1 DEF Sound, Pushers
      <4>3. node[t] # Count + 1
        BY <2>3, <4>1 DEF Pending
      <4> QED
        BY <1>1, <1>2, <2>2, <4>1, <4>2, <4>3
    <3>2. \A t, u \in Threads : stage'[t] = "link" /\ stage'[u] = "link" /\ node'[t] = node'[u] => t = u
      BY <1>1, <1>3 DEF Sound, Pushers
    <3> QED
      BY <3>1, <3>2 DEF Pushers
  <2>9. Popper(Nowhere)'
    BY <1>1, <1>2, <1>3 DEF Sound, Popper, Nowhere
  <2> QED
    BY <2>4, <2>5, <2>7, <2>8, <2>9 DEF Sound
<1> QED
  BY <1>8, <1>9

LEMMA ReturnSound ==
  ASSUME NEW g \in Nowhere..MaxPushes, Sound(g), stage[Main] \in {"next", "spin"}, PopReturn
  PROVE  Sound(g)'
<1>1. /\ next[front] # Null /\ popped' = Append(popped, front) /\ front' = next[front]
      /\ stage' = [stage EXCEPT ![Main] = "idle"]
      /\ UNCHANGED <<back, nil, next, node, prev, exchanged, wild>>
  BY DEF PopReturn
<1>2. g # Count
  BY DEF Sound, Popper
<1>3. front = Count + 1 /\ front \in Nodes /\ front <= exchanged /\ ~Pending(front)
  BY <1>2, Front
<1>4. /\ MaxPushes \in Nat /\ Count \in Nat /\ exchanged \in Nat /\ exchanged <= MaxPushes /\ g \in Int
      /\ Main \in Threads /\ DOMAIN popped = 1..Count
  BY Basics
<1>5. /\ Count' = Count + 1 /\ DOMAIN popped' = 1..(Count + 1) /\ popped'[Count + 1] = front
      /\ \A i \in 1..Count : popped'[i] = popped[i]
      /\ popped' \in Seq(Nodes)
  BY <1>1, <1>3 DEF Count, Sound, QueueTypeOK
<1>6. stage'[Main] = "idle" /\ \A u \in Threads \ {Main} : stage'[u] = stage[u]
  BY <1>1, <1>4 DEF Sound, QueueTypeOK
<1>7. ASSUME NEW n PROVE Pending(n)' <=> Pending(n)
  BY <1>1, <1>6 DEF Pending
<1>8. /\ \A i \in DOMAIN popped : popped[i] = i
      /\ Count <= exchanged /\ (g \in Count..exchanged \/ (g = Nowhere /\ Count < exchanged))
      /\ back = IF g = exchanged THEN Nil ELSE exchanged
  BY DEF Sound, Chain
<1>9. ASSUME NEW j \in Nodes, j > Count
      PROVE  next[j] = IF j = g THEN Nil
                       ELSE IF j >= exchanged \/ Pending(j + 1) THEN Null ELSE j + 1
  BY <1>9 DEF Sound, Chain
<1>10. g # Nowhere => nil = IF g = exchanged \/ Pending(g + 1) THEN Null ELSE g + 1
  BY DEF Sound, Chain
<1>11. next[front] = IF front = g THEN Nil ELSE front + 1
  BY <1>1, <1>3, <1>4, <1>9
<1>12. front # g => front < exchanged /\ ~Pending(front + 1)
  BY <1>1, <1>3, <1>4, <1>9
<1>13. QueueTypeOK'
  <2>1. front' \in Nodes \cup {Nil}
    BY <1>1, <1>3, <1>4, <1>11, <1>12 DEF Nodes
  <2> QED
    BY <1>1, <1>4, <1>5, <2>1, MainAssumption DEF Sound, QueueTypeOK, Threads
<1>14. Chain(g)'
  <2>1. \A i \in DOMAIN popped' : popped'[i] = i
    BY <1>3, <1>4, <1>5, <1>8
  <2>2. Count' <= exchanged' /\ (g \in Count'..exchanged' \/ (g = Nowhere /\ Count' < exchanged'))
    BY <1>1, <1>2, <1>3, <1>4, <1>5, <1>8, <1>12 DEF Nowhere
  <2>3. front' = IF g = Count' THEN Nil ELSE Count' + 1
    BY <1>1, <1>3, <1>5, <1>11
  <2>4. ASSUME NEW j \in Nodes, j > Count'
        PROVE  next'[j] = IF j = g THEN IF stage'[Main] = "linkNil" THEN Null ELSE Nil
                          ELSE IF j >= exchanged' \/ Pending(j + 1)' THEN Null ELSE j + 1
    <3>1. j > Count
      BY <1>4, <1>5, <2>4 DEF Nodes
    <3> QED
      BY <1>1, <1>6, <1>7, <1>9, <3>1
  <2> QED
    BY <1>1, <1>7, <1>8, <1>10, <2>1, <2>2, <2>3, <2>4 DEF Chain
<1>15. Pushers(g)'
  <2>1. ASSUME NEW t \in Threads, stage'[t] = "link"
        PROVE  /\ node'[t] \in (Count' + 1)..exchanged' /\ (node'[t] = Count' + 1 => g = Count')
               /\ prev'[t] = IF node'[t] = g + 1 /\ g # Nowhere THEN Nil ELSE node'[t] - 1
    <3>1. stage[t] = "link" /\ node'[t] = node[t] /\ prev'[t] = prev[t]
      BY <1>1, <1>6, <2>1
    <3>2. node[t] \in (Count + 1)..exchanged
          /\ prev[t] = IF node[t] = g + 1 /\ g # Nowhere THEN Nil ELSE node[t] - 1
      BY <3>1 DEF Sound, Pushers
    <3>3. Pending(node[t])
      BY <3>1 DEF Pending
    <3>4. node[t] # Count + 1 /\ (node[t] = Count + 2 => front = g)
      BY <1>3, <1>4, <1>12, <3>3
    <3> QED
      BY <1>1, <1>3, <1>4, <1>5, <3>1, <3>2, <3>4
  <2>2. \A t, u \in Threads : stage'[t] = "link" /\ stage'[u] = "link" /\ node'[t] = node'[u] => t = u
    BY <1>1, <1>6 DEF Sound, Pushers
  <2> QED
    BY <2>1, <2>2 DEF Pushers
<1>16. Popper(g)'
  BY <1>1, <1>6 DEF Sound, Popper
<1> QED
  BY <1>13, <1>14, <1>15, <1>16 DEF Sound

\* The front node has no successor: nothing is half done, so that it is the last one pushed,
\* and the embedded node is not in the queue.
LEMMA ResetNilSound ==
  ASSUME NEW g \in Nowhere..MaxPushes, Sound(g), Separate, PopResetNil
  PROVE  Sound(g)'
<1>1. /\ stage[Main] = "next" /\ next[front] = Null /\ stage' = [stage EXCEPT ![Main] = "reset"]
      /\ UNCHANGED <<back, front, nil, next, node, prev, exchanged, popped, wild>>
  BY DEF PopResetNil
<1>2. /\ MaxPushes \in Nat /\ Count \in Nat /\ exchanged \in Nat /\ exchanged <= MaxPushes /\ g \in Int
      /\ Main \in Threads /\ Main \notin Workers /\ Count' = Count
  BY <1>1, Basics DEF Count
<1>3. stage'[Main] = "reset" /\ \A u \in Threads \ {Main} : stage'[u] = stage[u]
  BY <1>1, <1>2 DEF Sound, QueueTypeOK
<1>4. g # Count
  BY <1>1 DEF Sound, Popper
<1>5. front = Count + 1 /\ front \in Nodes /\ front <= exchanged
  BY <1>4, Front
<1>6. ~Pending(front + 1)
  BY <1>1 DEF Separate, Pending, Threads
<1>7. next[front] = IF front = g THEN Nil
                    ELSE IF front >= exchanged \/ Pending(front + 1) THEN Null ELSE front + 1
  BY <1>1, <1>2, <1>5 DEF Sound, Chain
<1>8. front = exchanged /\ front # g
  BY <1>1, <1>2, <1>5, <1>6, <1>7 DEF Null, Nil
<1>9. g = Nowhere
  BY <1>2, <1>4, <1>5, <1>8 DEF Sound, Chain
<1>10. ASSUME NEW n PROVE Pending(n)' <=> Pending(n)
  BY <1>1, <1>3 DEF Pending
<1>11. QueueTypeOK'
  BY <1>1, <1>2 DEF Sound, QueueTypeOK
<1>12. Chain(g)'
  BY <1>1, <1>2, <1>3, <1>10 DEF Sound, Chain
<1>13. Pushers(g)'
  BY <1>1, <1>2, <1>3 DEF Sound, Pushers
<1>14. Popper(g)'
  BY <1>1, <1>2, <1>3, <1>4, <1>9 DEF Sound, Popper
<1> QED
  BY <1>11, <1>12, <1>13, <1>14 DEF Sound

LEMMA NilResetSound ==
  ASSUME NEW g \in Nowhere..MaxPushes, Sound(g), NilReset
  PROVE  Sound(g)'
<1>1. /\ stage[Main] = "reset" /\ nil' = Null /\ stage' = [stage EXCEPT ![Main] = "exchangeNil"]
      /\ UNCHANGED <<back, front, next, node, prev, exchanged, popped, wild>>
  BY DEF NilReset
<1>2. /\ MaxPushes \in Nat /\ Count \in Nat /\ exchanged \in Nat /\ exchanged <= MaxPushes /\ g \in Int
      /\ Main \in Threads /\ Main \notin Workers /\ Count' = Count
  BY <1>1, Basics DEF Count
<1>3. stage'[Main] = "exchangeNil" /\ \A u \in Threads \ {Main} : stage'[u] = stage[u]
  BY <1>1, <1>2 DEF Sound, QueueTypeOK
<1>4. g = Nowhere /\ g # Count
  BY <1>1 DEF Sound, Popper
<1>5. ASSUME NEW n PROVE Pending(n)' <=> Pending(n)
  BY <1>1, <1>3 DEF Pending
<1>6. QueueTypeOK'
  BY <1>1, <1>2 DEF Sound, QueueTypeOK
<1>7. Chain(g)'
  BY <1>1, <1>2, <1>3, <1>4, <1>5 DEF Sound, Chain
<1>8. Pushers(g)'
  BY <1>1, <1>2, <1>3 DEF Sound, Pushers
<1>9. Popper(g)'
  BY <1>1, <1>2, <1>3, <1>4 DEF Sound, Popper
<1> QED
  BY <1>6, <1>7, <1>8, <1>9 DEF Sound

\* The embedded node now stands behind the last node pushed.
LEMMA NilExchangeSound ==
  ASSUME NEW g \in Nowhere..MaxPushes, Sound(g), NilExchange
  PROVE  \E h \in Nowhere..MaxPushes : Sound(h)'
<1> SUFFICES ASSUME NEW h, h = exchanged PROVE h \in Nowhere..MaxPushes /\ Sound(h)'
  OBVIOUS
<1>1. /\ stage[Main] = "exchangeNil" /\ prev' = [prev EXCEPT ![Main] = back] /\ back' = Nil
      /\ stage' = [stage EXCEPT ![Main] = "linkNil"]
      /\ UNCHANGED <<front, nil, next, node, exchanged, popped, wild>>
  BY DEF NilExchange
<1>2. /\ MaxPushes \in Nat /\ Count \in Nat /\ exchanged \in Nat /\ exchanged <= MaxPushes /\ g \in Int
      /\ Main \in Threads /\ Main \notin Workers /\ Count' = Count
  BY <1>1, Basics DEF Count
<1>3. /\ stage'[Main] = "linkNil" /\ prev'[Main] = back
      /\ \A u \in Threads \ {Main} : stage'[u] = stage[u] /\ prev'[u] = prev[u]
  BY <1>1, <1>2 DEF Sound, QueueTypeOK
<1>4. g = Nowhere /\ g # Count /\ nil = Null
  BY <1>1 DEF Sound, Popper
<1>5. /\ \A i \in DOMAIN popped : popped[i] = i
      /\ Count < exchanged /\ front = Count + 1 /\ back = exchanged
  BY <1>2, <1>4 DEF Sound, Chain, Nowhere
<1>6. ASSUME NEW n PROVE Pending(n)' <=> Pending(n)
  BY <1>1, <1>3 DEF Pending
<1>7. QueueTypeOK'
  BY <1>1, <1>2, <1>3 DEF Sound, QueueTypeOK, Links
<1>8. Chain(h)'
  <2>1. ASSUME NEW j \in Nodes, j > Count
        PROVE  next'[j] = IF j = h THEN Null
                          ELSE IF j >= exchanged \/ Pending(j + 1)' THEN Null ELSE j + 1
    BY <1>1, <1>2, <1>4, <1>6, <2>1 DEF Sound, Chain, Nowhere, Nodes
  <2> QED
    BY <1>1, <1>2, <1>3, <1>4, <1>5, <2>1 DEF Chain
<1>9. Pushers(h)'
  <2>1. ASSUME NEW t \in Threads, stage'[t] = "link"
        PROVE  /\ node'[t] \in (Count' + 1)..exchanged' /\ node'[t] # Count' + 1
               /\ prev'[t] = node'[t] - 1 /\ node'[t] # h + 1
    BY <1>1, <1>2, <1>3, <1>4, <2>1 DEF Sound, Pushers
  <2>2. \A t, u \in Threads : stage'[t] = "link" /\ stage'[u] = "link" /\ node'[t] = node'[u] => t = u
    BY <1>1, <1>3 DEF Sound, Pushers
  <2> QED
    BY <1>1, <2>1, <2>2 DEF Pushers
<1>10. Popper(h)'
  BY <1>1, <1>2, <1>3, <1>5 DEF Sound, Popper, Nowhere
<1> QED
  BY <1>1, <1>2, <1>7, <1>8, <1>9, <1>10 DEF Sound, Nowhere

\* The store goes to a node: the embedded node was not in the queue before the exchange.
LEMMA NilLinkSound ==
  ASSUME NEW g \in Nowhere..MaxPushes, Sound(g), NilLink
  PROVE  Sound(g)'
<1>1. /\ stage[Main] = "linkNil" /\ stage' = [stage EXCEPT ![Main] = "spin"]
      /\ IF prev[Main] = Nil
         THEN wild' = TRUE /\ next' = next
         ELSE wild' = wild /\ next' = [next EXCEPT ![prev[Main]] = Nil]
      /\ UNCHANGED <<back, front, nil, node, prev, exchanged, popped>>
  BY DEF NilLink
<1>2. /\ MaxPushes \in Nat /\ Count \in Nat /\ exchanged \in Nat /\ exchanged <= MaxPushes /\ g \in Int
      /\ Main \in Threads /\ Main \notin Workers /\ Count' = Count
  BY <1>1, Basics DEF Count
<1>3. stage'[Main] = "spin" /\ \A u \in Threads \ {Main} : stage'[u] = stage[u]
  BY <1>1, <1>2 DEF Sound, QueueTypeOK
<1>4. g # Nowhere /\ g # Count /\ prev[Main] = g
  BY <1>1 DEF Sound, Popper
<1>5. /\ \A i \in DOMAIN popped : popped[i] = i
      /\ Count <= exchanged /\ g \in (Count + 1)..exchanged
      /\ front = Count + 1 /\ back = IF g = exchanged THEN Nil ELSE exchanged
  BY <1>2, <1>4 DEF Sound, Chain
<1>6. ASSUME NEW n PROVE Pending(n)' <=> Pending(n)
  BY <1>1, <1>3 DEF Pending
<1>7. wild' = wild /\ next' = [next EXCEPT ![g] = Nil] /\ g \in Nodes /\ g > Count
  BY <1>1, <1>2, <1>4, <1>5 DEF Nil, Nodes
<1>8. next \in [Nodes -> Links]
  BY DEF Sound, QueueTypeOK
<1>9. QueueTypeOK'
  BY <1>1, <1>2, <1>7, <1>8 DEF Sound, QueueTypeOK, Links
<1>10. Chain(g)'
  <2>1. ASSUME NEW j \in Nodes, j > Count
        PROVE  next'[j] = IF j = g THEN Nil
                          ELSE IF j >= exchanged \/ Pending(j + 1)' THEN Null ELSE j + 1
    BY <1>1, <1>6, <1>7, <1>8, <2>1 DEF Sound, Chain
  <2> QED
    BY <1>1, <1>2, <1>3, <1>4, <1>6, <2>1 DEF Sound, Chain
<1>11. Pushers(g)'
  BY <1>1, <1>2, <1>3 DEF Sound, Pushers
<1>12. Popper(g)'
  <2>1. ~wild'
    BY <1>7, Zenon DEF Sound, Popper
  <2> QED
    BY <1>2, <1>3, <1>4, <1>5, <1>7, <2>1 DEF Popper
<1> QED
  BY <1>9, <1>10, <1>11, <1>12 DEF Sound

-----------------------------------------------------------------------------
LEMMA InitSound == QueueInit => QueueTypeOK /\ Queue
<1> SUFFICES ASSUME QueueInit PROVE 0 \in Nowhere..MaxPushes /\ Sound(0)
  BY DEF Queue, Sound
<1>1. MaxPushes \in Nat /\ Main \in Threads
  BY PushesAssumption DEF Threads
<1>2. QueueTypeOK
  <2>1. popped \in Seq(Nodes)
    BY DEF QueueInit
  <2>2. \A w \in Workers : stage[w] = "idle"
    BY DEF QueueInit, Threads
  <2>3. wild \in BOOLEAN
    BY Zenon DEF QueueInit
  <2> QED
    BY <1>1, <2>1, <2>2, <2>3 DEF QueueInit, QueueTypeOK, Links
<1>3. Count = 0 /\ \A n : ~Pending(n)
  BY DEF QueueInit, Count, Pending
<1>4. Chain(0)
  BY <1>1, <1>3 DEF QueueInit, Chain, Nowhere, Nodes
<1>5. Pushers(0) /\ Popper(0)
  BY <1>1 DEF QueueInit, Pushers, Popper
<1> QED
  BY <1>1, <1>2, <1>4, <1>5 DEF Sound, Nowhere

LEMMA NextSound ==
  ASSUME QueueTypeOK, Queue, Separate, [QueueNext]_queueVars
  PROVE  QueueTypeOK' /\ Queue'
<1> SUFFICES \E h \in Nowhere..MaxPushes : Sound(h)'
  BY DEF Queue, Sound
<1>1. PICK g \in Nowhere..MaxPushes : Sound(g)
  BY DEF Queue, Sound
<1>2. ASSUME UNCHANGED queueVars
      PROVE  Sound(g)'
  <2>1. QueueTypeOK'
    BY <1>1, <1>2 DEF queueVars, Sound, QueueTypeOK
  <2>2. (\A n : Pending(n)' <=> Pending(n)) /\ Count' = Count
    BY <1>2 DEF queueVars, Pending, Count
  <2>3. Chain(g)'
    BY <1>1, <1>2, <2>2 DEF queueVars, Sound, Chain
  <2>4. Pushers(g)'
    BY <1>1, <1>2, <2>2 DEF queueVars, Sound, Pushers
  <2>5. Popper(g)'
    BY <1>1, <1>2, <2>2, Zenon DEF queueVars, Sound, Popper
  <2> QED
    BY <2>1, <2>3, <2>4, <2>5 DEF Sound
<1>3. ASSUME PopNull
      PROVE  Sound(g)'
  BY <1>2, <1>3 DEF PopNull
<1>4. ASSUME NEW t \in Threads, Push(t)
      PROVE  Sound(g)'
  BY <1>1, <1>4, ExchangeSound, LinkSound DEF Push
<1>5. CASE PopStep
  <2>1. CASE PopStart
    BY <1>1, <2>1, StartSound
  <2>2. CASE PopNext \/ PopSpin
    BY <1>1, <2>2, ReturnSound DEF PopNext, PopSpin
  <2>3. CASE PopResetNil
    BY <1>1, <2>3, ResetNilSound
  <2>4. CASE NilReset
    BY <1>1, <2>4, NilResetSound
  <2>5. CASE NilExchange
    BY <1>1, <2>5, NilExchangeSound
  <2>6. CASE NilLink
    BY <1>1, <2>6, NilLinkSound
  <2> QED
    BY <1>5, <2>1, <2>2, <2>3, <2>4, <2>5, <2>6 DEF PopStep
<1> QED
  BY <1>1, <1>2, <1>3, <1>4, <1>5 DEF QueueNext

\* What the invariant says of the two properties.
LEMMA QueueInOrder == QueueTypeOK /\ Queue => OrderKept
<1> SUFFICES ASSUME NEW g \in Nowhere..MaxPushes, Sound(g) PROVE OrderKept
  BY DEF Queue, Sound
<1>1. DOMAIN popped = 1..Count /\ \A i \in DOMAIN popped : popped[i] = i
  BY Basics DEF Sound, Chain
<1>2. ~wild
  BY DEF Sound, Popper
<1> QED
  BY <1>1, <1>2 DEF OrderKept

LEMMA QueueEmpty == QueueTypeOK /\ Queue => NothingStranded
<1> SUFFICES ASSUME NEW g \in Nowhere..MaxPushes, Sound(g), Quiet, front = Nil, nil = Null
             PROVE  Count = exchanged
  BY DEF Queue, Sound, NothingStranded, Count
<1>1. Count \in Nat /\ g \in Int
  BY Basics
<1>2. g = Count /\ g # Nowhere
  BY <1>1 DEF Sound, Chain, Nil, Nowhere
<1>3. nil = IF g = exchanged \/ Pending(g + 1) THEN Null ELSE g + 1
  BY <1>2 DEF Sound, Chain
<1>4. ~Pending(g + 1)
  BY DEF Quiet, Pending
<1> QED
  BY <1>1, <1>2, <1>3, <1>4 DEF Null

LEMMA SeparateSound == QueueSpec /\ []Separate => [](QueueTypeOK /\ Queue)
<1>1. QueueTypeOK /\ Queue /\ Separate /\ [QueueNext]_queueVars => (QueueTypeOK /\ Queue)'
  BY NextSound
<1> QED
  BY <1>1, InitSound, PTL DEF QueueSpec

-----------------------------------------------------------------------------
\* As long as no push of a worker is half done while pop_front looks at the link of its front
\* node, the frames are dispatched once and in order, and no store goes through _M_nil.
THEOREM OrderIfSeparate == QueueSpec /\ []Separate => []OrderKept
BY SeparateSound, QueueInOrder, PTL

\* Under the same condition, a pop_front that returns nullptr while no push is under way has
\* dispatched everything.
THEOREM NothingLostIfSeparate == QueueSpec /\ []Separate => []NothingStranded
BY SeparateSound, QueueEmpty, PTL

LEMMA AloneSeparate == Workers = {} => Separate
BY DEF Separate

\* Without workers only the loop thread pushes: the frames are dispatched once and in order.
THEOREM OrderAlone == ASSUME Workers = {} PROVE QueueSpec => []OrderKept
<1>1. Separate
  BY AloneSeparate
<1> QED
  BY <1>1, OrderIfSeparate, PTL

\* Without workers none is left behind.
THEOREM NothingLostAlone == ASSUME Workers = {} PROVE QueueSpec => []NothingStranded
<1>1. Separate
  BY AloneSeparate
<1> QED
  BY <1>1, NothingLostIfSeparate, PTL
=============================================================================
