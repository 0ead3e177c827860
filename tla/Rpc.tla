--------------------------------- MODULE Rpc ---------------------------------
(***************************************************************************)
(* The calls over the sockets of Sockets: send and receive, send_exactly   *)
(* and receive_at_least, the read and write of serde_stream, and the       *)
(* client and the sessions of rpc/.                                        *)
(***************************************************************************)
EXTENDS Sockets

Advance(c) == step' = Set(step, c, step[c] + 1)

\* An exception leaves a session, which is spawned detached, and then loop().
Escapes(c) == escaped' = TRUE /\ Goto(c, "failed")

\* The codes that a session catches, and the services it calls.
Swallowed == {"connection_aborted", "connection_reset"}

\* The peer has closed its end with bytes that it has not read, or they came later:
\* its system resets the connection.
Reset(s) == ~PeerThere(s) /\ wire[Peer(s)] # <<>>

InService(c) == c \in Sessions /\ step[c] % 3 # 0

\* A client throws, and a session that catches the code returns ...
GivesUp(c, code) ==
  /\ c \in Sessions => code \in Swallowed
  /\ Goto(c, IF c \in Sessions THEN "return" ELSE "throw")
  /\ UNCHANGED escaped

\* ... but another code it throws again.  A service that catches one returns to its session,
\* which goes on with the next request: the answers reach nobody, but on a reset connection
\* it may meet another code, or bytes that are the name of no service.
Rethrows(c, code) ==
  /\ c \in Sessions /\ (code \in Swallowed => InService(c) /\ Reset(Socket(c)))
  /\ Escapes(c)

Fails(c, code) == GivesUp(c, code) \/ Rethrows(c, code)

\* What an operation on a reset connection gives, if the program ignores SIGPIPE; the
\* second stands for the codes of Windows too, which are in a category of their own.
ResetCodes == {"connection_reset", "broken_pipe"}

-----------------------------------------------------------------------------
(* send_exactly *)

EnterSend(c) ==
  /\ At(c, "send")
  /\ IF Socket(c) \in open THEN SaveMode(c) /\ Goto(c, "sending") /\ UNCHANGED escaped
     ELSE Fails(c, "bad_file_descriptor") /\ UNCHANGED <<previous, nonBlocking>>
  /\ UNCHANGED <<program, selectVars, open, backlog, connected, refused, wire, ready, running, phase,
                 cancelled, rest, want, got, streamVars>>

\* A blocking socket takes everything or keeps the thread, while the peer is there.
Sendable(c) ==
  IF Socket(c) \in nonBlocking \/ ~PeerThere(Socket(c)) THEN 1..Min({Room(Socket(c)), Len(rest[c])})
  ELSE {Len(rest[c])} \cap (0..Room(Socket(c)))

\* ::send takes some bytes, if the peer is there or not; send_exactly sends the others
\* next.
Send(c) ==
  /\ At(c, "sending") /\ Undisturbed(c)
  /\ \E n \in Sendable(c) :
       /\ wire' = [wire EXCEPT ![Peer(Socket(c))] = @ \o SubSeq(rest[c], 1, n)]
       /\ rest' = Set(rest, c, SubSeq(rest[c], n + 1, Len(rest[c])))
  /\ nonBlocking' = Restored(c, previous[c])
  /\ IF rest'[c] = <<>> THEN Goto(c, "next") /\ Advance(c)
     ELSE Goto(c, "send") /\ UNCHANGED step
  /\ UNCHANGED <<program, selectVars, open, backlog, connected, refused, loopVars, previous, cancelled,
                 want, got, buffer, available, heard>>

\* Bug: it waits until the socket can be read.
SendWaitsIn(c) ==
  /\ At(c, "sending") /\ Undisturbed(c) /\ Socket(c) \in nonBlocking /\ Room(Socket(c)) = 0
  /\ PeerThere(Socket(c))
  /\ Suspend(c, "in", "sending")
  /\ UNCHANGED <<program, kernelVars, opVars, streamVars>>

\* EWOULDBLOCK
SendWaits(c) ==
  /\ At(c, "sending") /\ Undisturbed(c) /\ Socket(c) \in nonBlocking /\ Room(Socket(c)) = 0
  /\ PeerThere(Socket(c))
  /\ Suspend(c, "out", "sending")
  /\ UNCHANGED <<program, kernelVars, opVars, streamVars>>

\* The error leaves the mode as it is.
SendFails(c) ==
  /\ At(c, "sending") /\ Undisturbed(c) /\ Reset(Socket(c))
  /\ \E code \in ResetCodes : Fails(c, code)
  /\ UNCHANGED <<program, selectVars, kernelVars, ready, running, phase, opVars, streamVars>>

-----------------------------------------------------------------------------
(* receive and receive_at_least, as serde_stream's read calls it *)

EnterReceive(c) ==
  /\ At(c, "receive")
  /\ IF Socket(c) \in open THEN SaveMode(c) /\ Goto(c, "receiving") /\ UNCHANGED escaped
     ELSE Fails(c, "bad_file_descriptor") /\ UNCHANGED <<previous, nonBlocking>>
  /\ UNCHANGED <<program, selectVars, open, backlog, connected, refused, wire, ready, running, phase,
                 cancelled, rest, want, got, streamVars>>

Known(name) == \E k \in (1..program.calls) \ program.unknown : name = Name(k)

\* The fields a session has read are the arguments of the next ...
Keeps(c, field) == heard' = Set(heard, c, heard[c] \o field)

\* ... and those of a client are its answers.
Collects(c, field) == heard' = Set(heard, c, Append(heard[c], field))

\* A session that does not find the service throws, and nobody catches it.
Delivered(c, field) ==
  IF c \in Sessions /\ step[c] % 3 = 0 /\ ~Known(field)
  THEN Escapes(c) /\ UNCHANGED <<step, heard>>
  ELSE /\ Advance(c) /\ Goto(c, "next")
       /\ IF c \in Sessions THEN Keeps(c, field) ELSE Collects(c, field)
       /\ UNCHANGED escaped

\* Bug: what is read stays in the buffer.
ConsumePeeks(c, bytes, n) ==
  /\ buffer' = Set(buffer, c, bytes)
  /\ available' = Set(available, c, available[c] + Len(bytes) - Len(buffer[c]) - n)
  /\ Delivered(c, SubSeq(bytes, 1, Min({n, Len(bytes)})))

\* _M_buffer.read: n of the bytes are delivered, the others stay.
Consume(c, bytes, n) ==
  /\ buffer' = Set(buffer, c, SubSeq(bytes, n + 1, Len(bytes)))
  /\ available' = Set(available, c, available[c] + Len(bytes) - Len(buffer[c]) - n)
  /\ Delivered(c, SubSeq(bytes, 1, Min({n, Len(bytes)})))

\* The bytes come; receive_at_least wants more, or the read is done.
Receive(c) ==
  /\ At(c, "receiving") /\ Undisturbed(c) /\ wire[Socket(c)] # <<>>
  /\ \E n \in 1..Len(wire[Socket(c)]) :
       LET all == got[c] \o SubSeq(wire[Socket(c)], 1, n)
       IN /\ wire' = [wire EXCEPT ![Socket(c)] = SubSeq(@, n + 1, Len(@))]
          /\ IF Len(all) >= want[c]
             THEN got' = Set(got, c, <<>>) /\ Consume(c, buffer[c] \o all, want[c])
             ELSE /\ got' = Set(got, c, all) /\ Goto(c, "receive")
                  /\ UNCHANGED <<streamVars, escaped>>
  /\ nonBlocking' = Restored(c, previous[c])
  /\ UNCHANGED <<program, selectVars, open, backlog, connected, refused, ready, running, phase, previous,
                 cancelled, rest, want>>

\* The end of the stream: receive returns 0, receive_at_least throws connection_aborted.
ReceiveEnd(c) ==
  /\ At(c, "receiving") /\ Undisturbed(c) /\ wire[Socket(c)] = <<>> /\ Readable(Socket(c))
  /\ nonBlocking' = Restored(c, previous[c])
  /\ Fails(c, "connection_aborted")
  /\ UNCHANGED <<program, selectVars, open, backlog, connected, refused, wire, ready, running, phase, opVars,
                 streamVars>>

\* The error of the socket, read after the suspension or given by ::recv, even if there
\* are bytes that could still be read.
ReceiveFails(c) ==
  /\ At(c, "receiving") /\ Undisturbed(c) /\ Reset(Socket(c))
  /\ \E code \in ResetCodes : Fails(c, code)
  /\ UNCHANGED <<program, selectVars, kernelVars, ready, running, phase, opVars, streamVars>>

ReceiveWaits(c) ==
  /\ At(c, "receiving") /\ Undisturbed(c) /\ Socket(c) \in nonBlocking /\ ~Readable(Socket(c))
  /\ Suspend(c, "in", "receiving")
  /\ UNCHANGED <<program, kernelVars, opVars, streamVars>>

\* A cancellation_error comes out of the suspension; or the socket was closed after
\* select had found it ready, and its error cannot be read.
Disturbed(c) ==
  /\ \E label \in {"connecting", "sending", "receiving"} : At(c, label)
  /\ ~Undisturbed(c)
  /\ cancelled' = Set(cancelled, c, FALSE)
  /\ Goto(c, "throw")
  /\ UNCHANGED <<program, selectVars, kernelVars, loopVars, previous, rest, want, got, streamVars>>

-----------------------------------------------------------------------------
(* The fields of the requests and answers, in the order of the code *)

Writes(bytes) == [bytes |-> bytes, count |-> 0]
Reads(n) == [bytes |-> <<>>, count |-> n]

Reply(fields) ==
  IF \E k \in 1..program.calls : fields = Name(k) \o Args(k)
  THEN Answer(fields[1][1]) ELSE Answer(0)

CallFields(k) == <<Writes(Name(k)), Writes(Args(k)), Reads(2)>>

\* A client that shares its socket reads the first answer and then stops reading,
\* while the helper sends all requests.
FieldCount(c) ==
  IF c = Helper THEN 2 * program.calls ELSE IF program.shared /\ c = 1 THEN 1 ELSE 3 * program.calls

Field(c) ==
  LET n == step[c]
  IN IF c = Helper THEN CallFields((n \div 2) + 1)[(n % 2) + 1]
     ELSE CallFields((n \div 3) + 1)[IF program.shared /\ c = 1 THEN 3 ELSE (n % 3) + 1]

NextField(c) ==
  IF c \in Sessions THEN <<Reads(3), Reads(3), Writes(Reply(heard[c]))>>[(step[c] % 3) + 1] ELSE Field(c)

Finished(c) == c \notin Sessions /\ step[c] = FieldCount(c)

Return(c) ==
  /\ At(c, "next") /\ Finished(c)
  /\ Goto(c, "return")
  /\ UNCHANGED <<program, selectVars, kernelVars, loopVars, opVars, streamVars>>

\* serde_stream::write
Write(c) ==
  /\ At(c, "next") /\ ~Finished(c) /\ NextField(c).bytes # <<>>
  /\ rest' = Set(rest, c, NextField(c).bytes)
  /\ heard' = IF c \in Sessions THEN Set(heard, c, <<>>) ELSE heard
  /\ Goto(c, "send")
  /\ UNCHANGED <<program, selectVars, kernelVars, loopVars, previous, cancelled, want, got, buffer,
                 available, step>>

\* serde_stream::read: what is there suffices, or as much as is read is received
\* on top of it.
Read(c) ==
  /\ At(c, "next") /\ ~Finished(c) /\ NextField(c).bytes = <<>>
  /\ IF available[c] < NextField(c).count
     THEN /\ want' = Set(want, c, NextField(c).count)
          /\ Goto(c, "receive")
          /\ UNCHANGED <<streamVars, escaped>>
     ELSE UNCHANGED want /\ Consume(c, buffer[c], NextField(c).count)
  /\ UNCHANGED <<program, selectVars, kernelVars, ready, running, phase, previous, cancelled, rest, got>>

-----------------------------------------------------------------------------
OperationStep(c) ==
  \/ EnterSend(c) \/ Send(c) \/ SendWaits(c) \/ SendFails(c)
  \/ EnterReceive(c) \/ Receive(c) \/ ReceiveEnd(c) \/ ReceiveFails(c) \/ ReceiveWaits(c) \/ Disturbed(c)
  \/ Return(c) \/ Write(c) \/ Read(c) \/ End(c)

CoroutineStep ==
  \/ \E c \in Coroutines : OperationStep(c)
  \/ \E c \in Clients : Connect(c) \/ ConnectAtOnce(c) \/ ConnectDone(c)
  \/ Accept \/ Accepted \/ CloseOther \/ SpawnHelper

LoopStep == Resume \/ DispatchEnd \/ Commit("in", "out") \/ Commit("out", "dispatch")

RpcNext == CoroutineStep \/ LoopStep \/ CloserWakes \/ \E c \in Clients : Establish(c)

RpcSpec == SocketsInit /\ [][RpcNext]_socketVars

\* The thread of the loop runs, and a connection is established or refused.
RpcFairness ==
  /\ WF_socketVars(CoroutineStep) /\ WF_socketVars(LoopStep)
  /\ \A c \in Clients : WF_socketVars(Establish(c))

-----------------------------------------------------------------------------
\* Each answer that a client gets is the answer to its own call, whatever pieces
\* the bytes come in and whoever else calls (serde_stream.hpp:42-55).
AnswersMatch ==
  \A c \in Clients : \A k \in DOMAIN heard[c] : heard[c][k] = Answer(k)

\* select looks at the socket of everybody who waits; nobody waits to read from a
\* closed socket, and no closed socket is left among those looked at for readers
\* (select_socket_service.hpp:107-127).
WaitersWatched ==
  /\ \A d \in Directions : Waited(d) \subseteq bits[d]
  /\ bits["in"] \subseteq open
  /\ \A c \in Coroutines :
       c \in UNION {ToSet(waiting[d][s]) : d \in Directions, s \in Sockets} =>
         /\ c \notin ToSet(ready) /\ c # running
         /\ pc[c] \in {"connecting", "accepting", "sending", "receiving"}

\* The loop thread stands in a system call that cannot go on.
Blocks(c) ==
  /\ running = c /\ Socket(c) \in Sockets \ nonBlocking /\ Undisturbed(c)
  /\ \/ pc[c] = "receiving" /\ ~Readable(Socket(c))
     \/ pc[c] = "sending" /\ PeerThere(Socket(c)) /\ Room(Socket(c)) < Len(rest[c])

\* The mode of a socket is saved and restored around an operation that suspends in
\* between; only if two coroutines use the socket at a time can the loop thread
\* meet it in blocking mode and stand still (socket.hpp:253-302).
BlocksOnlyShared == \A c \in Coroutines : Blocks(c) => program.shared /\ Socket(c) = 1

\* A read receives only while the bytes that it needs are not there: "If there are not
\* enough bytes of data in the current buffer, more data needs to be read from the
\* socket" (serde_stream.hpp:46-47).  It receives as many as it needs in all, though some
\* are there already, and waits for bytes that nobody sends.
Starves(c) == pc[c] = "receiving" /\ Len(got[c]) < want[c] /\ want[c] <= available[c] + Len(got[c])
ReadsUntilEnough == \A c \in Coroutines : ~Starves(c)

\* If all services are known, no session fails: "The peer end actively disconnects when
\* sending and receiving packets" (rpc_server.hpp:81) is a way to end.
SessionsEndQuietly == program.unknown = {} => \A c \in Sessions : pc[c] # "failed"

\* The others that use the connection of a client.
Connection(c) == {c, Session(c)} \cup IF program.shared /\ c = 1 THEN {Helper} ELSE {}

\* The loop ends by an exception that one of these explains: a service that is not
\* known, a connection closed under its session, or select looking at a closed socket,
\* which nobody has taken out of the set of the writers (socket_base.hpp:66).  Or two
\* share a socket, and its thread stands still.
Stops ==
  \/ escaped /\ (program.unknown # {} \/ program.closed \/ program.shared \/ ~(LookedAt("out") \subseteq open))
  \/ program.shared /\ \E c \in Coroutines : Blocks(c)

\* Every client ends, with its answers or with an error, unless the loop stops for one
\* of these reasons, or somebody at its own connection starves
\* (receive.hpp:94-111, rpc_server.hpp:109-137).
EveryClientEnds ==
  \A c \in Clients :
    <>(pc[c] \in {"done", "failed"} \/ Stops) \/ <>[](\E d \in Connection(c) : Starves(d))
=============================================================================
