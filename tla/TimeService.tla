----------------------------- MODULE TimeService -----------------------------
(***************************************************************************)
(* detail/service/time_service.hpp: the frames that wait for a point in    *)
(* time, as a set of entries.  An entry is due when its time has passed;   *)
(* its token identifies it for cancel_frame, which turns the token into    *)
(* Cancelled, hands the frame out with an exception, and leaves the entry  *)
(* in the queue.                                                           *)
(***************************************************************************)
EXTENDS Integers, Sequences, SequencesExt

CONSTANT Coroutines  \* whose frames wait

VARIABLES
  now,      \* system_clock
  timers,   \* _M_queue
  counter,  \* _M_counter
  token,    \* where post_frame stores the token of each coroutine's timer
  cause     \* why each waiting frame is resumed

timeVars == <<now, timers, counter, token, cause>>

Cancelled == -1
Unset == -2      \* the token has not been written

Entry(frame, due, id) == [frame |-> frame, due |-> due, token |-> id]

TimeInit ==
  /\ now = 0
  /\ timers = {}
  /\ counter = 0
  /\ token = [c \in Coroutines |-> Unset]
  /\ cause = [c \in Coroutines |-> "none"]

\* post_frame stores the token before it takes the lock ...
TokenRead(c) ==
  /\ token' = [token EXCEPT ![c] = counter]
  /\ UNCHANGED <<now, timers, counter, cause>>

\* ... under which it numbers the entry.
TimePost(c, duration) ==
  /\ timers' = timers \cup {Entry(c, now + duration, counter)}
  /\ counter' = counter + 1
  /\ UNCHANGED <<now, token, cause>>

Due == {e \in timers : e.due < now}

Fired == {e \in Due : e.token # Cancelled}

\* The heap pops the earliest first and emplace_front reverses it; frames that
\* are due at the same time come in any order.
LatestFirst(entries) ==
  {s \in SetToSeqs(entries) : \A i, j \in DOMAIN s : i < j => s[i].due >= s[j].due}

Frames(s) == [i \in DOMAIN s |-> s[i].frame]

\* What commit_frame may push.
TimeOutstanding == {Frames(s) : s \in LatestFirst(Fired)}

TimeCommit ==
  /\ timers' = timers \ Due
  /\ cause' = [c \in Coroutines |->
                 IF \E e \in Fired : e.frame = c THEN "expired" ELSE cause[c]]
  /\ UNCHANGED <<now, counter, token>>

\* The entries a call cancel_frame(id) can find.
Found(id) == {e \in timers : e.token = id}

\* Bug: the entry stays valid.
TimeCancelKeeps(e) ==
  /\ cause' = [cause EXCEPT ![e.frame] = "cancelled"]
  /\ UNCHANGED <<now, timers, counter, token>>

\* cancel_frame with the entry it found; its caller pushes the frame.
TimeCancel(e) ==
  /\ timers' = (timers \ {e}) \cup {[e EXCEPT !.token = Cancelled]}
  /\ cause' = [cause EXCEPT ![e.frame] = "cancelled"]
  /\ UNCHANGED <<now, counter, token>>
=============================================================================
