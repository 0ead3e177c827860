------------------------------- MODULE Channel -------------------------------
(***************************************************************************)
(* A bounded channel: channel.hpp, its buffer detail/ring_container.hpp,   *)
(* and the two services that carry out its operations on the loop thread,  *)
(* detail/service/enqueue_service.hpp and dequeue_service.hpp.             *)
(*                                                                         *)
(* send and receive only post the coroutine to a service and suspend it.   *)
(* Each pass of the loop commits both services once; a commit holds the    *)
(* lock of its service and tries every coroutine that waits, newest first, *)
(* one step for each.  A coroutine whose operation took place is resumed   *)
(* by the executor (see ExecutionContext) once the commit has unlocked.    *)
(***************************************************************************)
EXTENDS Integers, Sequences, FiniteSets, SequencesExt

CONSTANTS
  Senders,    \* coroutines that send
  Receivers,  \* coroutines that receive
  Bound,      \* the template parameter of the channel
  MaxSend,    \* bound: how many messages each sender sends
  Window      \* bound: how many messages the program lets be under way at once

ASSUME BoundAssumption == Bound \in Nat \ {0}
ASSUME SendAssumption == MaxSend \in Nat /\ Window \in Nat

Messages == Senders \X (1..MaxSend)
NoMessage == <<>>

VARIABLES
  slots,     \* the array of the ring
  head,      \* _M_head
  tail,      \* _M_tail
  sending,   \* _M_forward of the enqueue service: coroutine and message
  receiving, \* _M_forward of the dequeue service: coroutines
  suspended,   \* the coroutines suspended in send or receive
  turn,      \* which service the loop commits, or will commit next
  passed,    \* how many coroutines the commit has tried in vain
  outstanding, \* the coroutines that it will push
  posted,      \* history: how many messages each sender has posted
  accepted,  \* history: the messages put into the ring, in order
  received   \* history: the messages taken out of it, in order

channelVars == <<slots, head, tail, sending, receiving, suspended, turn, passed, outstanding, posted, accepted,
          received>>

ChannelInit ==
  /\ slots = [i \in 0..(Bound - 1) |-> NoMessage]
  /\ head = 0
  /\ tail = 0
  /\ sending = <<>>
  /\ receiving = <<>>
  /\ suspended = {}
  /\ turn \in {"enqueue", "dequeue"}
  /\ passed = 0
  /\ outstanding = <<>>
  /\ posted = [s \in Senders |-> 0]
  /\ accepted = <<>>
  /\ received = <<>>

-----------------------------------------------------------------------------
(* ring_container *)

RingSize(first, last) == (last + Bound - first) % Bound

\* Bug: off by one.
RingEmptyAtOne(first, last) == RingSize(first, last) <= 1

RingEmpty(first, last) == first = last

EmplaceBack(message) ==
  /\ slots' = [slots EXCEPT ![tail] = message]
  /\ tail' = (tail + 1) % Bound

\* Bug: the head is not advanced.
PopFrontNot == UNCHANGED head

PopFront == head' = (head + 1) % Bound

-----------------------------------------------------------------------------
(* post_frame of the two services; it waits for the lock that a commit of  *)
(* its service holds                                                       *)

Locked(service) == turn = service /\ (passed > 0 \/ outstanding # <<>>)

\* Bug: the sender is not suspended.
PostEnqueueAndGoOn(s, message) ==
  /\ ~Locked("enqueue")
  /\ sending' = <<[coroutine |-> s, message |-> message]>> \o sending
  /\ UNCHANGED suspended

PostEnqueue(s, message) ==
  /\ ~Locked("enqueue")
  /\ sending' = <<[coroutine |-> s, message |-> message]>> \o sending
  /\ suspended' = suspended \cup {s}

PostDequeue(r) ==
  /\ ~Locked("dequeue")
  /\ receiving' = <<r>> \o receiving
  /\ suspended' = suspended \cup {r}

-----------------------------------------------------------------------------
(* The coroutines *)

UnderWay == Len(sending) + Len(accepted) - Len(received)

SendMessage(s) ==
  /\ s \notin suspended
  /\ posted[s] < MaxSend
  /\ UnderWay < Window
  /\ posted' = [posted EXCEPT ![s] = @ + 1]
  /\ PostEnqueue(s, <<s, posted[s] + 1>>)
  /\ UNCHANGED <<slots, head, tail, receiving, turn, passed, outstanding, accepted, received>>

ReceiveMessage(r) ==
  /\ r \notin suspended
  /\ PostDequeue(r)
  /\ UNCHANGED <<slots, head, tail, sending, turn, passed, outstanding, posted, accepted, received>>

-----------------------------------------------------------------------------
(* commit_frame of the two services; remove_if goes through the list from  *)
(* its front, and each coroutine tried sees the ring the one before left   *)

\* The next coroutine to be tried.
Tried == passed + 1

\* Bug: the coroutine stays in the list.
TryEnqueueKeeps ==
  /\ turn = "enqueue" /\ passed < Len(sending)
  /\ EmplaceBack(sending[Tried].message)
  /\ accepted' = Append(accepted, sending[Tried].message)
  /\ outstanding' = <<sending[Tried].coroutine>> \o outstanding
  /\ passed' = Tried
  /\ UNCHANGED <<head, sending, receiving, suspended, turn, posted, received>>

TryEnqueue ==
  /\ turn = "enqueue" /\ passed < Len(sending)
  /\ IF RingSize(head, tail) < Bound
     THEN /\ EmplaceBack(sending[Tried].message)
          /\ accepted' = Append(accepted, sending[Tried].message)
          /\ outstanding' = <<sending[Tried].coroutine>> \o outstanding
          /\ sending' = RemoveAt(sending, Tried)
          /\ UNCHANGED passed
     ELSE passed' = Tried /\ UNCHANGED <<slots, tail, accepted, outstanding, sending>>
  /\ UNCHANGED <<head, receiving, suspended, turn, posted, received>>

TryDequeue ==
  /\ turn = "dequeue" /\ passed < Len(receiving)
  /\ IF RingEmpty(head, tail)
     THEN passed' = Tried /\ UNCHANGED <<head, received, outstanding, receiving>>
     ELSE /\ received' = Append(received, slots[head])
          /\ PopFront
          /\ outstanding' = <<receiving[Tried]>> \o outstanding
          /\ receiving' = RemoveAt(receiving, Tried)
          /\ UNCHANGED passed
  /\ UNCHANGED <<slots, tail, sending, suspended, turn, posted, accepted>>

\* All have been tried: the coroutines whose operation took place are pushed.
EndCommit(service, list, next) ==
  /\ turn = service /\ passed = Len(list)
  /\ suspended' = suspended \ ToSet(outstanding)
  /\ outstanding' = <<>>
  /\ passed' = 0
  /\ turn' = next
  /\ UNCHANGED <<slots, head, tail, sending, receiving, posted, accepted, received>>

CommitService ==
  \/ TryEnqueue \/ EndCommit("enqueue", sending, "dequeue")
  \/ TryDequeue \/ EndCommit("dequeue", receiving, "enqueue")

ChannelNext ==
  \/ \E s \in Senders : SendMessage(s)
  \/ \E r \in Receivers : ReceiveMessage(r)
  \/ CommitService

ChannelSpec == ChannelInit /\ [][ChannelNext]_channelVars

\* The loop keeps committing and the receivers keep receiving.
ChannelFairness ==
  WF_channelVars(CommitService) /\ \A r \in Receivers : WF_channelVars(ReceiveMessage(r))

ChannelFairSpec == ChannelSpec /\ ChannelFairness

-----------------------------------------------------------------------------
\* The type of every variable.
ChannelTypeOK ==
  /\ slots \in [0..(Bound - 1) -> Messages \cup {NoMessage}]
  /\ head \in 0..(Bound - 1) /\ tail \in 0..(Bound - 1)
  /\ sending \in Seq([coroutine : Senders, message : Messages])
  /\ receiving \in Seq(Receivers)
  /\ suspended \subseteq Senders \cup Receivers
  /\ turn \in {"enqueue", "dequeue"} /\ passed \in Nat
  /\ outstanding \in Seq(Senders \cup Receivers)
  /\ posted \in [Senders -> 0..MaxSend]
  /\ accepted \in Seq(Messages) /\ received \in Seq(Messages \cup {NoMessage})

\* The messages the ring holds, oldest first.
Contents == [i \in 1..RingSize(head, tail) |-> slots[(head + i - 1) % Bound]]

\* What was sent and not received is in the channel, in order: a message is
\* delivered once, to one receiver, and none is overwritten (channel.hpp:21-23).
NothingLost == accepted = received \o Contents

\* A suspended coroutine is on exactly one service list or about to be pushed, once,
\* and a coroutine that runs is on none (all are type-erased handles into its frame).
PostedOnce ==
  /\ suspended = {sending[i].coroutine : i \in DOMAIN sending} \cup ToSet(receiving)
               \cup ToSet(outstanding)
  /\ Len(sending) + Len(receiving) + Len(outstanding) = Cardinality(suspended)

\* Messages of one sender arrive in the order they were sent, although the
\* services try their coroutines newest first.
SenderOrder ==
  \A i, j \in DOMAIN received :
    i < j /\ received[i][1] = received[j][1] => received[i][2] < received[j][2]

\* Every message that was posted is received.
EveryMessageReceived ==
  \A s \in Senders, k \in 1..MaxSend :
    (posted[s] >= k) ~> (<<s, k>> \in ToSet(received))
=============================================================================
