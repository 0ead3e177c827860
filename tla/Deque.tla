------------------------------- MODULE Deque -------------------------------
(***************************************************************************)
(* What workstealing promises (comment at workstealing.hpp:58-63): for its *)
(* owner the deque is a stack, for the others it is a FIFO queue, and each *)
(* push is handed out once.  Every operation takes effect in one step.     *)
(***************************************************************************)
EXTENDS Integers, Sequences, SequencesExt

CONSTANT MaxPush

VARIABLES deque, pushed, takes

Init ==
  /\ deque = <<>>
  /\ pushed = 0
  /\ takes = [n \in 1..MaxPush |-> 0]

Push ==
  /\ pushed < MaxPush
  /\ deque' = Append(deque, pushed + 1)
  /\ pushed' = pushed + 1
  /\ UNCHANGED takes

HandOut(frame) ==
  /\ takes' = [takes EXCEPT ![frame] = @ + 1]
  /\ UNCHANGED pushed

Pop ==
  /\ deque # <<>>
  /\ HandOut(Last(deque))
  /\ deque' = Front(deque)

Steal ==
  /\ deque # <<>>
  /\ HandOut(Head(deque))
  /\ deque' = Tail(deque)

Next == Push \/ Pop \/ Steal

Spec == Init /\ [][Next]_<<deque, pushed, takes>>
=============================================================================
