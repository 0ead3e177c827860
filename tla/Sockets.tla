------------------------------- MODULE Sockets -------------------------------
(***************************************************************************)
(* net/socket.hpp, socket_base.hpp, acceptor.hpp, receive.hpp, send.hpp,   *)
(* serde_stream.hpp and rpc/: remote procedure calls over stream sockets,  *)
(* served by the loop thread of one context.                               *)
(*                                                                         *)
(* Client i connects socket i and calls the services; the acceptor, whose  *)
(* socket is 0, accepts and spawns session N + i.  A coroutine has the     *)
(* number of its socket; the helper sends on the socket of client 1 while  *)
(* the client receives, and the closer closes that socket.                 *)
(*                                                                         *)
(* A byte is <<call, field, position>>.  A field is written by one write   *)
(* of serde_stream and read by one read, and travels in pieces: a send or  *)
(* a receive moves any positive number of bytes there is room or data for. *)
(***************************************************************************)
EXTENDS SelectService

CONSTANTS
  N,         \* number of clients
  Capacity,  \* bound: bytes under way in one direction
  Programs   \* what the coroutines do

Clients == 1..N
Session(i) == N + i
Sessions == {Session(i) : i \in Clients}
Acceptor == 0
Helper == 2 * N + 1
Closer == 2 * N + 2
Coroutines == 0..Closer
Nobody == -1

ASSUME SocketsAssumption ==
  /\ N \in Nat \ {0} /\ Capacity \in Nat \ {0}
  /\ Sockets = 0..(2 * N)
  /\ \A p \in Programs :
       /\ p.calls \in Nat /\ p.unknown \subseteq 1..p.calls
       /\ {p.shared, p.closed, p.refused} \subseteq BOOLEAN

VARIABLES
  program,   \* what runs; never changes
  open,      \* the sockets that are open
  nonBlocking, \* the sockets in non-blocking mode
  backlog,   \* clients whose connections wait to be accepted
  connected, \* clients whose connection the peer's system has acknowledged
  refused,   \* clients whose connection failed
  wire,      \* the bytes that each socket can receive
  ready,     \* what the executor holds
  running,   \* who occupies the loop thread
  phase,     \* what the loop does: dispatch, or commit a service
  escaped,   \* an exception has left loop()
  pc,        \* where each coroutine is
  previous,  \* previous_non_blocking of its operation
  cancelled, \* a cancellation_error waits for it
  rest,      \* what it has still to send
  want,      \* the count it reads
  got,       \* what receive_at_least has got
  buffer,    \* _M_buffer of its stream
  available, \* _M_available of its stream
  step,      \* how many fields it has written or read
  heard      \* clients: the answers; sessions: the fields of this request

kernelVars == <<open, nonBlocking, backlog, connected, refused, wire>>
loopVars == <<ready, running, phase, escaped>>
opVars == <<previous, cancelled, rest, want, got>>
streamVars == <<buffer, available, step, heard>>
socketVars == <<program, selectVars, kernelVars, loopVars, pc, opVars, streamVars>>

Socket(c) == IF c = Helper THEN 1 ELSE c
Peer(s) == IF s \in Clients THEN Session(s) ELSE s - N

Bytes(k, field, n) == [i \in 1..n |-> <<k, field, i>>]
Name(k) == Bytes(k, "name", 3)
Args(k) == Bytes(k, "args", 3)
Answer(k) == Bytes(k, "answer", 2)

Each(value) == [c \in Coroutines |-> value]

SocketsInit ==
  /\ program \in Programs
  /\ SelectInit
  /\ open = Clients \cup {Acceptor}
  /\ nonBlocking = {}
  /\ backlog = <<>>
  /\ connected = {} /\ refused = {}
  /\ wire = [s \in Sockets |-> <<>>]
  /\ ready = [i \in 1..(N + 1) |-> i - 1]
  /\ running = Nobody /\ phase = "dispatch" /\ escaped = FALSE
  /\ pc = [c \in Coroutines |-> IF c = Acceptor THEN "accept"
                                ELSE IF c \in Clients THEN "connect" ELSE "unborn"]
  /\ previous = Each(FALSE) /\ cancelled = Each(FALSE)
  /\ rest = Each(<<>>) /\ want = Each(0) /\ got = Each(<<>>)
  /\ buffer = Each(<<>>) /\ available = Each(0)
  /\ step = Each(0) /\ heard = Each(<<>>)

-----------------------------------------------------------------------------
(* The loop *)

Up == ~escaped /\ running = Nobody

Resume ==
  /\ Up /\ phase = "dispatch" /\ ready # <<>>
  /\ running' = Head(ready) /\ ready' = Tail(ready)
  /\ UNCHANGED <<program, selectVars, kernelVars, phase, escaped, pc, opVars, streamVars>>

DispatchEnd ==
  /\ Up /\ phase = "dispatch" /\ ready = <<>>
  /\ phase' = "in"
  /\ UNCHANGED <<program, selectVars, kernelVars, ready, running, escaped, pc, opVars, streamVars>>

\* The other end is open, or its connection waits to be accepted.
PeerThere(s) == Peer(s) \in open \/ pc[Peer(s)] = "unborn"

Readable(s) == IF s = Acceptor THEN backlog # <<>> ELSE wire[s] # <<>> \/ ~PeerThere(s)

Room(s) == Capacity - Len(wire[Peer(s)])

Writable(s) ==
  s # Acceptor /\ IF s \in Clients \ connected THEN s \in refused ELSE Room(s) > 0 \/ ~PeerThere(s)

IsReady(d, s) == IF d = "in" THEN Readable(s) ELSE Writable(s)

\* The sockets of its set that select looks at: those up to the last one at which
\* somebody waits (_M_max_fdsock), none if nobody waits.
LookedAt(d) == {s \in bits[d] : \E last \in Waited(d) : s <= last}

\* select throws if it looks at a closed socket.
Commit(d, after) ==
  /\ Up /\ phase = d
  /\ phase' = after
  /\ IF ~(LookedAt(d) \subseteq open)
     THEN escaped' = TRUE /\ UNCHANGED <<selectVars, ready>>
     ELSE \E taken \in Walks(d, {s \in open : IsReady(d, s)}) :
            /\ CommitFrame(d, taken)
            /\ \E frames \in Outstanding(d, taken) : ready' = ready \o frames
            /\ UNCHANGED escaped
  /\ UNCHANGED <<program, kernelVars, running, pc, opVars, streamVars>>

\* A timer of the closer, or whatever else it waits for, expires.
CloserWakes ==
  /\ program.closed /\ pc[Closer] = "unborn"
  /\ pc' = [pc EXCEPT ![Closer] = "closeOther"]
  /\ ready' = Append(ready, Closer)
  /\ UNCHANGED <<program, selectVars, kernelVars, running, phase, escaped, opVars, streamVars>>

Goto(c, label) == pc' = [pc EXCEPT ![c] = label]
At(c, label) == running = c /\ pc[c] = label /\ ~escaped

\* related_suspendible: post the frame, suspend.
Suspend(c, d, label) ==
  /\ PostFrame(c, d, Socket(c))
  /\ running' = Nobody
  /\ Goto(c, label)
  /\ UNCHANGED <<ready, phase, escaped>>

\* Each(...) of one coroutine.
Set(f, c, value) == [f EXCEPT ![c] = value]

-----------------------------------------------------------------------------
(* connect, accept, close *)

\* Bug: the socket keeps the mode it has.
SaveModeNot(c) ==
  /\ previous' = Set(previous, c, Socket(c) \in nonBlocking)
  /\ UNCHANGED nonBlocking

\* The mode is saved and the socket made non-blocking ...
SaveMode(c) ==
  /\ previous' = Set(previous, c, Socket(c) \in nonBlocking)
  /\ nonBlocking' = nonBlocking \cup {Socket(c)}

\* ... until the operation returns; an exception leaves it so.
Restored(c, was) == IF was THEN nonBlocking \cup {Socket(c)} ELSE nonBlocking \ {Socket(c)}

AfterConnect(c) == IF program.shared /\ c = 1 THEN "spawnHelper" ELSE "next"

Connect(c) ==
  /\ At(c, "connect")
  /\ SaveMode(c)
  /\ Suspend(c, "out", "connecting")
  /\ UNCHANGED <<program, open, backlog, connected, refused, wire, cancelled, rest, want, got, streamVars>>

\* The system connects at once.
ConnectAtOnce(c) ==
  /\ At(c, "connect") /\ ~program.refused
  /\ connected' = connected \cup {c} /\ backlog' = Append(backlog, c)
  /\ Goto(c, AfterConnect(c))
  /\ UNCHANGED <<program, selectVars, open, nonBlocking, refused, wire, loopVars, opVars, streamVars>>

\* The answer of the peer's system.
Establish(c) ==
  /\ pc[c] = "connecting" /\ c \notin connected \cup refused /\ c \in open
  /\ IF program.refused THEN refused' = refused \cup {c} /\ UNCHANGED <<connected, backlog>>
     ELSE /\ connected' = connected \cup {c} /\ backlog' = Append(backlog, c)
          /\ UNCHANGED refused
  /\ UNCHANGED <<program, selectVars, open, nonBlocking, wire, loopVars, pc, opVars, streamVars>>

Undisturbed(c) == ~cancelled[c] /\ Socket(c) \in open

ConnectDone(c) ==
  /\ At(c, "connecting") /\ Undisturbed(c)
  /\ IF c \in refused THEN Goto(c, "throw") /\ UNCHANGED nonBlocking
     ELSE nonBlocking' = Restored(c, previous[c]) /\ Goto(c, AfterConnect(c))
  /\ UNCHANGED <<program, selectVars, open, backlog, connected, refused, wire, loopVars, opVars, streamVars>>

Accept ==
  /\ At(Acceptor, "accept")
  /\ Suspend(Acceptor, "in", "accepting")
  /\ UNCHANGED <<program, kernelVars, opVars, streamVars>>

\* accept, and the session spawned detached; the acceptor goes on.
Accepted ==
  /\ At(Acceptor, "accepting") /\ backlog # <<>>
  /\ LET session == Session(Head(backlog))
     IN /\ backlog' = Tail(backlog)
        /\ open' = open \cup {session}
        /\ ready' = Append(ready, session)
        /\ pc' = [pc EXCEPT ![Acceptor] = "accept", ![session] = "next"]
  /\ UNCHANGED <<program, selectVars, nonBlocking, connected, refused, wire, running, phase, escaped,
                 opVars, streamVars>>

\* close: cancel, then the system closes the socket; who was cancelled is pushed.
Close(s) ==
  /\ Cancel(s)
  /\ ready' = ready \o CancelledFrames(s)
  /\ cancelled' = [c \in Coroutines |-> cancelled[c] \/ c \in ToSet(CancelledFrames(s))]
  /\ open' = open \ {s}
  /\ nonBlocking' = nonBlocking \ {s}

\* Nobody else uses the socket any more.
LastUser(c) ==
  \A other \in Coroutines \ {c, Closer} :
    Socket(other) = Socket(c) => pc[other] \in {"unborn", "done", "failed"}

\* The coroutine returns, or what was thrown reaches it; its socket is destroyed.
End(c) ==
  /\ At(c, "return") \/ At(c, "throw")
  /\ Goto(c, IF pc[c] = "return" THEN "done" ELSE "failed")
  /\ running' = Nobody
  /\ IF LastUser(c) /\ Socket(c) \in open THEN Close(Socket(c))
     ELSE UNCHANGED <<selectVars, ready, cancelled, open, nonBlocking>>
  /\ UNCHANGED <<program, backlog, connected, refused, wire, phase, escaped, previous, rest, want, got,
                 streamVars>>

CloseOther ==
  /\ At(Closer, "closeOther")
  /\ Goto(Closer, "done")
  /\ running' = Nobody
  /\ IF 1 \in open THEN Close(1)
     ELSE UNCHANGED <<selectVars, ready, cancelled, open, nonBlocking>>
  /\ UNCHANGED <<program, backlog, connected, refused, wire, phase, escaped, previous, rest, want, got,
                 streamVars>>

SpawnHelper ==
  /\ At(1, "spawnHelper")
  /\ pc' = [pc EXCEPT ![1] = "next", ![Helper] = "next"]
  /\ ready' = Append(ready, Helper)
  /\ UNCHANGED <<program, selectVars, kernelVars, running, phase, escaped, opVars, streamVars>>
=============================================================================
