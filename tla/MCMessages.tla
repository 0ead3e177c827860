----------------------------- MODULE MCMessages -----------------------------
(***************************************************************************)
(* What passes messages and values, for TLC: the calls of rpc, the remote  *)
(* queue where only the loop thread pushes, a channel, the stream, the     *)
(* addresses, generators and the frames of a group of coroutines.  `subject` *)
(* says which of them runs; the variables of the others stand still.       *)
(***************************************************************************)
EXTENDS MCRpc, MCCodec, MCNames, RemoteQueue, Channel, Generator, Frames

VARIABLE subject  \* the component that runs; never changes

Subjects == {"calls", "queue", "channel", "codec", "addresses", "generator", "frames"}
Runs(part) == subject = part

-----------------------------------------------------------------------------
(* Generator *)

MCBodies ==
  {<<<<Yield(1), Yield(2)>>>>,
   <<<<Yield(1), Nest(2, FALSE), Yield(2)>>, <<Yield(3), Nest(3, FALSE), Nest(4, TRUE), Yield(4)>>,
     <<>>, <<Yield(5), ThrowError>>>>,
   <<<<Nest(2, TRUE), Yield(2)>>, <<Nest(3, FALSE), Yield(4)>>, <<Yield(5), Yield(6), Nest(4, FALSE)>>,
     <<Yield(7), ThrowError>>>>,
   <<<<Yield(1), Nest(2, FALSE), Yield(2)>>, <<Yield(3), Nest(3, FALSE), Yield(4)>>,
     <<Yield(5), ThrowError>>>>}

-----------------------------------------------------------------------------
(* Frames: frames that suspend as leaves and between other awaits; sources *)
(* within sources; exceptions before and after a cancellation              *)

Plain(g) == AwaitItem(g, FALSE, 0)
Tries(g) == AwaitItem(g, TRUE, 0)

MCScripts ==
  {<<<<Tries(2), SuspendItem>>, <<Plain(3), Plain(4)>>, <<SuspendItem>>, <<SuspendItem, SuspendItem>>>>,
   <<<<AwaitItem(2, TRUE, 1), Plain(5)>>, <<AwaitItem(3, FALSE, 2), SuspendItem>>, <<Plain(4)>>, <<SuspendItem>>,
     <<AwaitItem(6, FALSE, 3)>>, <<Plain(7)>>, <<SuspendItem>>>>,
   <<<<Tries(2), Plain(3)>>, <<SuspendItem, ThrowItem>>, <<Tries(4), SuspendItem, Plain(5)>>, <<ThrowItem>>,
     <<ThrowItem>>>>,
   <<<<SuspendItem, ThrowItem>>>>}

-----------------------------------------------------------------------------
\* One component varies; the others are at one of their initial states.
MCInit ==
  /\ subject \in Subjects
  /\ program \in IF Runs("calls") THEN Programs ELSE {Calls(2, {})}
  /\ transfer \in IF Runs("codec") THEN Transfers ELSE {As(<<V("char", 1)>>, <<"short">>)}
  /\ network \in IF Runs("addresses") THEN Networks ELSE {[address |-> <<127, 0, 0, 1>>, prefix |-> 32]}
  /\ body \in IF Runs("generator") THEN Bodies ELSE {<<<<Yield(1), Yield(2)>>>>}
  /\ script \in IF Runs("frames") THEN Scripts ELSE {<<<<SuspendItem, ThrowItem>>>>}
  /\ SocketsInit /\ QueueInit /\ ChannelInit
  /\ CodecInit /\ AddressesInit /\ GeneratorInit /\ FramesInit
  /\ Runs("channel") \/ turn = "enqueue"

\* A step of the component that runs.
MCNext ==
  /\ UNCHANGED subject
  /\ \/ /\ Runs("calls") /\ RpcNext
        /\ UNCHANGED <<queueVars, channelVars, codecVars, addressVars, generatorVars, framesVars>>
     \/ /\ Runs("queue") /\ QueueNext
        /\ UNCHANGED <<socketVars, channelVars, codecVars, addressVars, generatorVars, framesVars>>
     \/ /\ Runs("channel") /\ ChannelNext
        /\ UNCHANGED <<socketVars, queueVars, codecVars, addressVars, generatorVars, framesVars>>
     \/ /\ Runs("codec") /\ CodecNext
        /\ UNCHANGED <<socketVars, queueVars, channelVars, addressVars, generatorVars, framesVars>>
     \/ /\ Runs("addresses") /\ NextHost
        /\ UNCHANGED <<socketVars, queueVars, channelVars, codecVars, generatorVars, framesVars>>
     \/ /\ Runs("generator") /\ GeneratorNext
        /\ UNCHANGED <<socketVars, queueVars, channelVars, codecVars, addressVars, framesVars>>
     \/ /\ Runs("frames") /\ FramesNext
        /\ UNCHANGED <<socketVars, queueVars, channelVars, codecVars, addressVars, generatorVars>>

messageVars ==
  <<subject, socketVars, queueVars, channelVars, codecVars, addressVars, generatorVars, framesVars>>

MCSpec == MCInit /\ [][MCNext]_messageVars

\* RpcFairness, QueueFairness and ChannelFairness, each where its component runs.
MCFairSpec ==
  /\ MCSpec
  /\ WF_socketVars(Runs("calls") /\ CoroutineStep) /\ WF_socketVars(Runs("calls") /\ LoopStep)
  /\ \A c \in Clients : WF_socketVars(Runs("calls") /\ Establish(c))
  /\ WF_queueVars(Runs("queue") /\ PopStep)
  /\ \A t \in Threads : WF_queueVars(Runs("queue") /\ (PushLinkNil(t) \/ PushLinkNode(t)))
  /\ WF_channelVars(Runs("channel") /\ CommitService)
  /\ \A r \in Receivers : WF_channelVars(Runs("channel") /\ ReceiveMessage(r))

-----------------------------------------------------------------------------
\* Properties of the addresses, and of the ends of rpc's clients, where these run:
\* addresses and networks compute what their definitions over bits say, texts are read
\* back and hosts are found (net/network_v4.hpp:69-114, net/address_v6.hpp:250-332),
AddressesAgreeWithBits == Runs("addresses") => AddressesAgree /\ TextsComeBack /\ NamesResolve /\ SixNetworksTell

\* and every client of rpc ends, with answers or with an error (rpc/rpc_client.hpp:45-56).
EveryCallEnds == Runs("calls") => EveryClientEnds
=============================================================================
