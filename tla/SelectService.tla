---------------------------- MODULE SelectService ----------------------------
(***************************************************************************)
(* detail/service/select_socket_service.hpp: the coroutines that wait      *)
(* until a socket can be read ("in") or written ("out").  It runs here on  *)
(* the loop thread only, so the lock is left out.                          *)
(*                                                                         *)
(* commit_frame erases from the multimap what it iterates over, which is   *)
(* undefined; the outcomes here are that the walk goes on behind the       *)
(* erased entry or that it ends there.                                     *)
(***************************************************************************)
EXTENDS Integers, Sequences, FiniteSets, SequencesExt, FiniteSetsExt

CONSTANT Sockets  \* native handles, numbers in the order of the multimap

VARIABLES
  waiting,  \* _M_multimap of each service: who waits at each socket, oldest first
  bits      \* _M_fd_set of each service

selectVars == <<waiting, bits>>

Directions == {"in", "out"}

SelectInit ==
  /\ waiting = [d \in Directions |-> [s \in Sockets |-> <<>>]]
  /\ bits = [d \in Directions |-> {}]

PostFrame(c, d, s) ==
  /\ waiting' = [waiting EXCEPT ![d][s] = Append(@, c)]
  /\ bits' = [bits EXCEPT ![d] = @ \cup {s}]

Waited(d) == {s \in Sockets : waiting[d][s] # <<>>}

\* The entries of the multimap, sockets and positions, and their order.
Entries(d, set) == UNION {{s} \X DOMAIN waiting[d][s] : s \in set}
Before(e, f) == e[1] < f[1] \/ (e[1] = f[1] /\ e[2] < f[2])

\* What commit_frame may take: the entries of the ready sockets up to some last one ...
Walks(d, readySockets) ==
  LET all == Entries(d, bits[d] \cap readySockets)
  IN IF all = {} THEN {{}} ELSE {{e \in all : ~Before(last, e)} : last \in all}

\* ... whose frames emplace_front puts before each other.
Outstanding(d, taken) ==
  {[i \in DOMAIN order |-> waiting[d][order[i][1]][order[i][2]]] :
     order \in {o \in SetToSeqs(taken) : \A i, j \in DOMAIN o : i < j => Before(o[j], o[i])}}

\* Each socket loses its first waiters.  The bits stay: nobody clears the one of a socket at
\* which nobody waits any more.
CommitFrame(d, taken) ==
  LET count(s) == Cardinality({i \in DOMAIN waiting[d][s] : <<s, i>> \in taken})
  IN /\ waiting' = [waiting EXCEPT ![d] = [s \in Sockets |-> SubSeq(@[s], count(s) + 1, Len(@[s]))]]
     /\ UNCHANGED bits

\* The first select service in which nobody waits for the socket throws
\* no_frame_registered, which socket_base::cancel swallows with the rest: the
\* coroutines that wait to write are cancelled only together with a reader.
CancelledAt(s) == {d \in Directions : d = "in" \/ waiting["in"][s] # <<>>}

\* Those whom cancel gives a cancellation_error, in the order they are pushed.
CancelledFrames(s) ==
  Reverse(waiting["in"][s]) \o
  (IF "out" \in CancelledAt(s) THEN Reverse(waiting["out"][s]) ELSE <<>>)

\* Bug: cancel_frame leaves the socket in the set that select looks at.
CancelKeepsBit(s) ==
  /\ waiting' = [d \in Directions |-> IF d \in CancelledAt(s) THEN [waiting[d] EXCEPT ![s] = <<>>]
                                      ELSE waiting[d]]
  /\ UNCHANGED bits

Cancel(s) ==
  /\ waiting' = [d \in Directions |-> IF d \in CancelledAt(s) THEN [waiting[d] EXCEPT ![s] = <<>>]
                                      ELSE waiting[d]]
  /\ bits' = [d \in Directions |-> IF d \in CancelledAt(s) THEN bits[d] \ {s} ELSE bits[d]]
=============================================================================
