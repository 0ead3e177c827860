---------------------------- MODULE WorkStealing ----------------------------
(***************************************************************************)
(* The work-stealing deque of one worker, src/include/coasync/detail/      *)
(* workstealing.hpp, at the grain of its atomic accesses.                  *)
(*                                                                         *)
(* The owner side is one process: frame_executor::push_local (the loop     *)
(* thread) and frame_executor::try_pop_local (the worker) both hold        *)
(* _M_endpoint_mutex of the deque, so a push and a try_pop never overlap.  *)
(* The thieves, try_steal_local of the other workers, hold no lock.        *)
(*                                                                         *)
(* The fences of the code give the accesses that matter here a single      *)
(* order, so the model interleaves them sequentially.  A read of a cell    *)
(* that only the owner writes is merged into the owner's next step.        *)
(*                                                                         *)
(* A frame handle is pushed again every time its coroutine suspends, so    *)
(* what is stored is the ticket of the push: 1 for the first push, 2 for   *)
(* the second, ...; 0 is the null handle.                                  *)
(***************************************************************************)
EXTENDS Integers, Sequences

CONSTANTS
  Thieves,          \* the workers that may steal from this deque
  InitialCapacity,  \* 1024 in the code
  MaxPush           \* bound: how many pushes a behaviour makes

ASSUME CapacityAssumption == InitialCapacity \in Nat /\ InitialCapacity >= 2
ASSUME PushAssumption == MaxPush \in Nat

VARIABLES
  top,     \* _M_top
  bottom,  \* _M_bottom
  rings,   \* _M_garbage followed by the ring _M_buffer points to
  owner,   \* the owner's program counter and its local copy of top
  thief,   \* the same for each thief, with the ring and the frame it loaded
  pushed,  \* history: number of pushes that have been published
  takes    \* history: how often the frame of each push was handed out

stealingVars == <<top, bottom, rings, owner, thief, pushed, takes>>

Tickets == 1..MaxPush
NoFrame == 0

(***************************************************************************)
(* ring_buffer: a ring is the sequence of its slots; its capacity is the   *)
(* length of the sequence, a power of two, so that index & (capacity - 1)  *)
(* is the index modulo the capacity.                                       *)
(***************************************************************************)
EmptyRing(capacity) == [i \in 1..capacity |-> NoFrame]

Cell(ring, index) == (index % Len(ring)) + 1

Load(ring, index) == ring[Cell(ring, index)]

Store(ring, index, frame) == [ring EXCEPT ![Cell(ring, index)] = frame]

\* A ring of twice the capacity that holds the frames of [from, to).
Resize(ring, to, from) ==
  LET Holds(c, k) == k % (2 * Len(ring)) = c - 1
  IN [c \in 1..(2 * Len(ring)) |->
       IF \E k \in from..(to - 1) : Holds(c, k)
       THEN Load(ring, CHOOSE k \in from..(to - 1) : Holds(c, k))
       ELSE NoFrame]

Current == rings[Len(rings)]

StealingInit ==
  /\ top = 0
  /\ bottom = 0
  /\ rings = <<EmptyRing(InitialCapacity)>>
  /\ owner = [pc |-> "idle", top |-> 0]
  /\ thief = [t \in Thieves |-> [pc |-> "idle", top |-> 0, ring |-> 0, frame |-> NoFrame]]
  /\ pushed = 0
  /\ takes = [n \in Tickets |-> 0]

Take(frame) == takes' = [takes EXCEPT ![frame] = @ + 1]

-----------------------------------------------------------------------------
(* push *)

PushLoadTop ==
  /\ owner.pc = "idle"
  /\ pushed < MaxPush
  /\ owner' = [pc |-> "push", top |-> top]
  /\ UNCHANGED <<top, bottom, rings, thief, pushed, takes>>

IsFull == Len(Current) < (bottom - owner.top) + 1

PushResize ==
  /\ owner.pc = "push"
  /\ IsFull
  /\ rings' = Append(rings, Resize(Current, bottom, owner.top))
  /\ owner' = [owner EXCEPT !.pc = "store"]
  /\ UNCHANGED <<top, bottom, thief, pushed, takes>>

PushStore ==
  /\ \/ owner.pc = "push" /\ ~IsFull
     \/ owner.pc = "store"
  /\ rings' = [rings EXCEPT ![Len(rings)] = Store(Current, bottom, pushed + 1)]
  /\ owner' = [owner EXCEPT !.pc = "publish"]
  /\ UNCHANGED <<top, bottom, thief, pushed, takes>>

PushPublish ==
  /\ owner.pc = "publish"
  /\ bottom' = bottom + 1
  /\ pushed' = pushed + 1
  /\ owner' = [owner EXCEPT !.pc = "idle"]
  /\ UNCHANGED <<top, rings, thief, takes>>

-----------------------------------------------------------------------------
(* try_pop; bottom_edge is the value of bottom while it runs *)

PopDecrement ==
  /\ owner.pc = "idle"
  /\ bottom' = bottom - 1
  /\ owner' = [owner EXCEPT !.pc = "popTop"]
  /\ UNCHANGED <<top, rings, thief, pushed, takes>>

\* Bug: <= for <; the last frame is popped without the exchange.
PopManyOrLast ==
  /\ owner.pc = "popTop"
  /\ top <= bottom
  /\ Take(Load(Current, bottom))
  /\ owner' = [owner EXCEPT !.pc = "idle"]
  /\ UNCHANGED <<top, bottom, rings, thief, pushed>>

\* Several frames are left: the bottom one is the owner's without a race.
PopMany ==
  /\ owner.pc = "popTop"
  /\ top < bottom
  /\ Take(Load(Current, bottom))
  /\ owner' = [owner EXCEPT !.pc = "idle"]
  /\ UNCHANGED <<top, bottom, rings, thief, pushed>>

PopLast ==
  /\ owner.pc = "popTop"
  /\ top = bottom
  /\ owner' = [pc |-> "popCas", top |-> top]
  /\ UNCHANGED <<top, bottom, rings, thief, pushed, takes>>

\* Bug: bottom is not restored.
PopEmptyKeeps ==
  /\ owner.pc = "popTop"
  /\ top > bottom
  /\ owner' = [owner EXCEPT !.pc = "idle"]
  /\ UNCHANGED <<top, bottom, rings, thief, pushed, takes>>

PopEmpty ==
  /\ owner.pc = "popTop"
  /\ top > bottom
  /\ owner' = [owner EXCEPT !.pc = "popRestore"]
  /\ UNCHANGED <<top, bottom, rings, thief, pushed, takes>>

\* The frame is read after the exchange; only the owner writes its slot.
PopCasWon ==
  /\ owner.pc = "popCas"
  /\ top = owner.top
  /\ top' = top + 1
  /\ Take(Load(Current, bottom))
  /\ owner' = [owner EXCEPT !.pc = "popRestore"]
  /\ UNCHANGED <<bottom, rings, thief, pushed>>

PopCasLost ==
  /\ owner.pc = "popCas"
  /\ top # owner.top
  /\ owner' = [owner EXCEPT !.pc = "popRestore"]
  /\ UNCHANGED <<top, bottom, rings, thief, pushed, takes>>

PopRestore ==
  /\ owner.pc = "popRestore"
  /\ bottom' = bottom + 1
  /\ owner' = [owner EXCEPT !.pc = "idle"]
  /\ UNCHANGED <<top, rings, thief, pushed, takes>>

-----------------------------------------------------------------------------
(* try_steal *)

StealLoadTop(t) ==
  /\ thief[t].pc = "idle"
  /\ thief' = [thief EXCEPT ![t].pc = "bottom", ![t].top = top]
  /\ UNCHANGED <<top, bottom, rings, owner, pushed, takes>>

\* Bug: <= for <; an empty deque is stolen from.
StealLoadBottomEmpty(t) ==
  /\ thief[t].pc = "bottom"
  /\ thief' = [thief EXCEPT ![t].pc = IF thief[t].top <= bottom THEN "ring" ELSE "idle"]
  /\ UNCHANGED <<top, bottom, rings, owner, pushed, takes>>

\* Bug: the last frame is left to the owner.
StealLoadBottomNotLast(t) ==
  /\ thief[t].pc = "bottom"
  /\ thief' = [thief EXCEPT ![t].pc = IF thief[t].top + 1 < bottom THEN "ring" ELSE "idle"]
  /\ UNCHANGED <<top, bottom, rings, owner, pushed, takes>>

StealLoadBottom(t) ==
  /\ thief[t].pc = "bottom"
  /\ thief' = [thief EXCEPT ![t].pc = IF thief[t].top < bottom THEN "ring" ELSE "idle"]
  /\ UNCHANGED <<top, bottom, rings, owner, pushed, takes>>

StealLoadRing(t) ==
  /\ thief[t].pc = "ring"
  /\ thief' = [thief EXCEPT ![t].pc = "slot", ![t].ring = Len(rings)]
  /\ UNCHANGED <<top, bottom, rings, owner, pushed, takes>>

StealLoadSlot(t) ==
  /\ thief[t].pc = "slot"
  /\ thief' = [thief EXCEPT ![t].pc = "cas",
                            ![t].frame = Load(rings[thief[t].ring], thief[t].top)]
  /\ UNCHANGED <<top, bottom, rings, owner, pushed, takes>>

\* Bug: top is stored without comparing it.
StealBlind(t) ==
  /\ thief[t].pc = "cas"
  /\ top' = thief[t].top + 1
  /\ Take(thief[t].frame)
  /\ thief' = [thief EXCEPT ![t].pc = "idle"]
  /\ UNCHANGED <<bottom, rings, owner, pushed>>

StealCasWon(t) ==
  /\ thief[t].pc = "cas"
  /\ top = thief[t].top
  /\ top' = top + 1
  /\ Take(thief[t].frame)
  /\ thief' = [thief EXCEPT ![t].pc = "idle"]
  /\ UNCHANGED <<bottom, rings, owner, pushed>>

StealCasLost(t) ==
  /\ thief[t].pc = "cas"
  /\ top # thief[t].top
  /\ thief' = [thief EXCEPT ![t].pc = "idle"]
  /\ UNCHANGED <<top, bottom, rings, owner, pushed, takes>>

-----------------------------------------------------------------------------
\* An operation the owner has started; it holds the endpoint lock.
OwnerStep ==
  \/ PushResize \/ PushStore \/ PushPublish
  \/ PopMany \/ PopLast \/ PopEmpty \/ PopCasWon \/ PopCasLost \/ PopRestore

Steal(t) ==
  \/ StealLoadTop(t) \/ StealLoadBottom(t) \/ StealLoadRing(t)
  \/ StealLoadSlot(t) \/ StealCasWon(t) \/ StealCasLost(t)

StealingNext ==
  \/ PushLoadTop
  \/ PopDecrement
  \/ OwnerStep
  \/ \E t \in Thieves : Steal(t)

StealingSpec == StealingInit /\ [][StealingNext]_stealingVars

(***************************************************************************)
(* The owner finishes what it started and the idle workers keep trying to  *)
(* steal (frame_executor::local_thread_invoke never blocks).  Nothing      *)
(* makes the owner pop: its worker may be busy inside a coroutine.         *)
(***************************************************************************)
StealingFairness == WF_stealingVars(OwnerStep) /\ \A t \in Thieves : WF_stealingVars(Steal(t))

StealingFairSpec == StealingSpec /\ StealingFairness

-----------------------------------------------------------------------------
Popping == owner.pc \in {"popTop", "popCas", "popRestore"}

\* One past the last frame; try_pop lowers bottom before it owns the frame.
End == IF Popping THEN bottom + 1 ELSE bottom

Slot(i) == Load(Current, i)

\* The frames in the deque, oldest first.
Contents == [i \in 1..(End - top) |-> Slot(top + i - 1)]

Frames == 0..MaxPush

\* The type of every variable, with what the program counters imply for
\* the local copies of top, ring and frame.
StealingTypeOK ==
  /\ top \in Nat
  /\ bottom \in Int
  /\ rings \in Seq(Seq(Frames)) /\ Len(rings) >= 1
  /\ \A i \in 1..Len(rings) : Len(rings[i]) >= 2
  /\ owner \in [pc : {"idle", "push", "store", "publish", "popTop", "popCas", "popRestore"},
                top : Nat]
  /\ thief \in [Thieves -> [pc : {"idle", "bottom", "ring", "slot", "cas"},
                            top : Nat, ring : Nat, frame : Frames]]
  /\ \A t \in Thieves : thief[t].pc = "slot" => thief[t].ring \in 1..Len(rings)
  /\ pushed \in 0..MaxPush
  /\ takes \in [Tickets -> Nat]

\* No frame is handed to two workers, nor twice to one: a coroutine handle
\* resumed twice is undefined behaviour (workstealing.hpp:105, 129 race).
AtMostOnce == \A n \in Tickets : takes[n] <= (IF n <= pushed THEN 1 ELSE 0)

\* A published frame that was not handed out is in the deque, whatever the
\* resizes and the lost races so far: no suspended coroutine is forgotten.
NothingLost ==
  \A n \in 1..pushed : takes[n] = 0 => \E i \in top..(End - 1) : Slot(i) = n

-----------------------------------------------------------------------------
(* The inductive invariant behind AtMostOnce, NothingLost and the refinement *)

\* The frames between top and End are the published ones that were not
\* handed out, oldest first.
ContentsOK ==
  /\ top <= End
  /\ End - top <= Len(Current)
  /\ \A i \in top..(End - 1) : Slot(i) \in 1..pushed /\ takes[Slot(i)] = 0
  /\ \A i, j \in top..(End - 1) : i < j => Slot(i) < Slot(j)

\* The owner's copy of top is at most behind, and the slot it writes is free.
OwnerOK ==
  /\ owner.pc \in {"push", "store", "publish"} =>
       /\ owner.top <= top
       /\ pushed < MaxPush
       /\ bottom - owner.top <= Len(Current)
  /\ owner.pc \in {"store", "publish"} => bottom - owner.top < Len(Current)
  /\ owner.pc = "publish" => Slot(bottom) = pushed + 1
  /\ owner.pc = "popCas" => owner.top = bottom /\ bottom <= top
  /\ owner.pc = "popRestore" => top = End

\* A thief whose copy of top is still current holds the frame at the top,
\* even when it read it from a ring that was replaced since.
ThiefOK(t) ==
  /\ thief[t].pc # "idle" => thief[t].top <= top
  /\ thief[t].pc \in {"ring", "slot", "cas"} /\ thief[t].top = top => top < End
  /\ thief[t].pc = "slot" /\ thief[t].top = top =>
       Load(rings[thief[t].ring], top) = Slot(top)
  /\ thief[t].pc = "cas" /\ thief[t].top = top => thief[t].frame = Slot(top)

\* Together they are inductive: every step of the owner and of the thieves
\* preserves them (lines 79-134).
Inv ==
  /\ StealingTypeOK
  /\ ContentsOK
  /\ OwnerOK
  /\ \A t \in Thieves : ThiefOK(t)
  /\ AtMostOnce
  /\ NothingLost

-----------------------------------------------------------------------------
(* The deque a caller sees *)

Abstract == INSTANCE Deque WITH deque <- Contents

\* The fine-grained deque implements the one the comment at lines 58-63
\* promises: pushes and pops at one end, steals at the other, each in one step.
ImplementsDeque == Abstract!Spec

\* Every published frame is run by somebody even if its owner never pops.
EveryFrameTaken == \A n \in Tickets : (pushed >= n) ~> (takes[n] = 1)
=============================================================================
