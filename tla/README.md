# A verification of coasync

coasync is a header-only C++20 coroutine library: an event loop with an
optional pool of worker threads, services that resume suspended coroutines,
and what is built on them: channels, mutexes, condition variables, semaphores,
latches, timers, combinators, sockets, serialization and rpc. This directory
models it in TLA+, checks the models with TLC, and proves the two lock-free
queues, the loop with its pool, the services, the channel, the primitives, the
combinators, the streams, rpc, generators and frames with TLAPS. Paths below are
relative to `src/include/coasync/`.

1. [The system](#1-the-system)
2. [The modules](#2-the-modules)
3. [What the runs show](#3-what-the-runs-show)
4. [What is proved](#4-what-is-proved)
5. [Only model-checked](#5-only-model-checked)
6. [Not modelled, and why](#6-not-modelled-and-why)
7. [What could follow](#7-what-could-follow)

## 1. The system

### Components, state, operations

| Component | State | Operations | What makes it correct | Module |
|---|---|---|---|---|
| `execution_context.hpp` | executor, lifetime list, service registry | `loop`, `push_frame_to_executor`, `push_frame_to_lifetime`, `use_service` | `loop()` returns exactly when every spawned coroutine has been destroyed | ExecutionContext, Services |
| `detail/frame_executor.hpp` | remote queue, one deque and endpoint lock per worker, rotation | `push_frame`, `dispatch_frame`, worker loop, `resume_to`, launch, stop | a frame is resumed once, by one thread, and eventually | ExecutionContext, RemoteQueue, WorkStealing |
| `detail/remote_queue.hpp` | `_M_back`, `_M_front`, embedded node `_M_nil` | `push_back` (all threads), `pop_front` (loop thread) | FIFO, nothing lost or doubled | RemoteQueue |
| `detail/workstealing.hpp` | `_M_top`, `_M_bottom`, ring, retired rings | `push`, `try_pop` (owner), `try_steal` (others) | stack for the owner, queue for the thieves, each push handed out once | WorkStealing, Deque |
| `detail/frame_lifetime.hpp` | list of frames and their semaphores | `push_frame`, `remove_frame`, `empty` | a coroutine is destroyed once, after its last resumption | ExecutionContext |
| `detail/basic_lockable.hpp` | an atomic boolean | `lock`, `unlock` | exclusion, no thread sleeps for ever | BasicLockable |
| `detail/service_registry.hpp` | lock-free list of services | `find_from`, `commit_after`, `erase_after` | one instance of each service, committed in every pass | Services |
| `detail/service/{yield,flag,latch,future}_service.hpp` | list of frames, each with what it waits for | `post_frame`, `commit_frame` | a posted frame is scheduled once, when its condition holds | ExecutionContext, Services, Combinators |
| `detail/service/{enqueue,dequeue}_service.hpp`, `channel.hpp`, `detail/ring_container.hpp` | two lists of waiting coroutines, a ring | `send`, `receive`, `commit_frame` | every message delivered once, in the order of its sender | Channel |
| `co_mutex.hpp`, `co_condition_variable.hpp` | flag; list of waiters with a lock | `lock`, `unlock`, `wait`, `notify_one`, `notify_all` | exclusion; no wakeup lost | CoMonitor |
| `co_semaphore.hpp`, `co_latch.hpp` | a count under a mutex and a condition variable | `acquire`, `release`, `try_release`; `count_down`, `wait`, `arrive_and_wait` | permits taken only when there; nobody passes early or is stranded | CoSemaphore, CoLatch, CoPrimitives |
| `detail/service/time_service.hpp`, `deadline_timer.hpp` | timers by expiry, tokens | `post_frame`, `commit_frame`, `cancel_frame` | a timer fires or is cancelled, once | TimeService |
| `when_all.hpp`, `when_any.hpp`, `awaitable_group.hpp`, `functional.hpp`, `co_spawn.hpp`, `co_bind.hpp`, `co_signal.hpp` | latches, flags, futures and storage shared with spawned branches | `when_all`, `when_any`, `&&`, `\|\|`, `timeout`, awaited `co_spawn`, `co_bind`, signals | the result of all or of the first, exceptions included; everything ends | Combinators |
| `awaitable.hpp`, `detail/awaitable_frame*.hpp`, `detail/suspendible.hpp`, `this_coro.hpp`, `set_stop_source.hpp` | the stack of frames of a group, stop tokens, stored exceptions | await, return, throw, suspend, cancel | an await gives what a call would give | Frames |
| `generator.hpp` | stack of nested generators, root and leaf | `begin`, `++`, yield, nest, destroy | values in the order of the nesting; each destroyed once | Generator |
| `detail/service/select_socket_service.hpp` | waiting coroutines by socket, two `fd_set`s | `post_frame`, `commit_frame`, `cancel` | who waits is watched, and woken once | SelectService |
| `net/socket*.hpp`, `net/acceptor.hpp`, `net/receive.hpp`, `net/send.hpp` | handle, blocking mode | connect, accept, send, receive, cancel, close | the loop thread does not block | Sockets |
| `net/serde_stream.hpp`, `detail/meta/serde_stream_base.hpp`, `rpc/` | buffer, tag flag, services by name | `<<`, `>>`, calls, sessions | what is written is read back; an answer goes to its call | Codec, Rpc |
| `net/address*.hpp`, `net/network*.hpp`, `net/endpoint.hpp`, `net/resolver.hpp` | values | classification, conversion, iteration, texts, look-up | agreement with the definitions over bits | Addresses, Names |

The rest (the epoll and iocp services, socket options, allocators,
configuration, metaprogramming) is listed in PROJECT.json and in section 6.

### How they interact

A coroutine suspends by posting its frame to a service (`suspendible.hpp`).
Each pass of the loop (`execution_context.hpp:43-55`) moves frames from the
remote queue to the deques of the workers (or, without workers, resumes them in
place), commits every service, which pushes the frames whose condition holds
back to the remote queue, and destroys the coroutines that are done. Workers
pop frames from their deque, steal from others, and resume them under the
semaphore of the coroutine group. `notify_one`, `notify_all` and `co_spawn`
push to the remote queue directly, from whatever thread runs the coroutine.
The combinators spawn their branches detached and wait at the flag, latch,
future or time service for what the branches set. A socket operation tries its
system call, waits at the socket service, and tries again; a stream collects
the bytes of such operations, and rpc writes and reads its calls through one.

### What is hard

- Frames are posted before the coroutine has suspended, so that a second thread
  may try to resume a coroutine that still runs.
- Two lock-free queues and a lock-free registry, each with a case in which two
  threads meet on the last element.
- Locks that are taken only "if concurrent", and a list whose hint is inverted.
- Unlock-then-register in the condition variable; tokens read before the lock.
- Lists tried newest first, rings that wrap and are full.
- Timers, cancellation, combinators and exceptions that race each other.
- Partial reads and writes, modes saved and restored around a suspension, sockets
  closed while others wait.
- Boundaries of encodings and addresses: one bit, one byte, one prefix.

PROJECT.json lists each of them as a hazard at its line, with the properties
that would catch it going wrong.

## 2. The modules

```
Deque  <-refines-  WorkStealing          RemoteQueue       BasicLockable
                        :                     :                 |
                        : atomic queues of    :              Services
                        ExecutionContext ......
                        : one coroutine per group, resumed after it suspended
         ...............:..................
         :              :                 :
  Channel   CoMonitor <- CoSemaphore   TimeService <- Combinators
                      <- CoLatch
                 CoPrimitives
  SelectService <- Sockets <- Rpc  |
  Codec          Addresses <- Names          ItemPlaces <- Generator, Frames
```

An arrow is EXTENDS; a dotted line is an assumption that the upper module
justifies and the lower one makes.

### The executor

**WorkStealing** models `workstealing.hpp` with one action per atomic access. A
push is `PushLoadTop`, then `PushResize` if the ring is full, `PushStore`,
`PushPublish`. A pop is `PopDecrement` and then one of `PopMany`, `PopEmpty`,
or `PopLast` with its exchange won or lost, and `PopRestore`. A steal is four
loads and the exchange. The owner's operations are one process because
`push_local` and `try_pop_local` both take `_M_endpoint_mutex`. A ring is a
sequence of its slots; replaced rings stay in `rings`, as `_M_garbage` keeps
them, because a thief may still read one. Each push stores a ticket in place of
the handle, so that handing out a frame twice can be told from pushing the same
coroutine again. The accesses are interleaved sequentially. That is what the
fences give on x86; the relaxed store of the new ring at line 87 could be seen
too early on a weaker machine, and this is outside the model. A thief that
reads a slot while the owner overwrites it always fails its exchange, so the
value it reads does not matter.

**Deque** is what the comment of the class promises: a stack for the owner, a
FIFO queue for the others, each operation in one step. `ImplementsDeque` states
the refinement, with the frames between `_M_top` and `_M_bottom` as the
abstract deque.

**RemoteQueue** models `remote_queue.hpp` at the same grain, with the embedded
node `_M_nil` that the consumer re-inserts behind the last element. Nodes are
numbered by their exchange with `_M_back`, which defines the order of the queue.
`_M_nil` is the address of an `atomic<Node*>`, not of a node: a write through it
as if it were a node is recorded in `wild`.

**ExecutionContext** models the loop, the workers, `resume_to` with the
semaphore of the group, the lifetime list link by link, the yield service, and
the detached `co_spawn` both before `loop()` and from a coroutine. A group, a
spawned coroutine with everything it awaits, is one coroutine here; Frames opens
it up. The queues are atomic sequences; that is what WorkStealing is proved to
implement, and what RemoteQueue does when only the loop thread pushes.
`frame_lifetime` locks if it is told to; the context tells it to exactly when
there are no workers, so the model has no lock. The program (how many workers,
which groups are spawned by whom) is a variable that nothing changes, so one run
covers several programs and the theorems all of them.

### Services

**BasicLockable** is the lock of the services, one action per atomic access,
with a thread that decides to block, a notification before and after it does,
and one that takes the lock in between.

**Services** uses it for the registry and the flag, latch and future services.
`find_from` walks the list, prepares an entry, and appends it by compare and
exchange, or finds that another thread has; the constructor of a service runs in
the winner. The loop walks the same list and commits each service: it takes out,
under the lock, the frames whose condition holds, and pushes them after
unlocking.

**Channel** models `channel.hpp` with its ring and its two services. A commit
holds the lock of its service and visits the waiting coroutines from the front,
one action each, as `remove_if` does; those whose callback succeeds are pushed
when the walk has ended. The order in which the
two services are committed is that of their creation and is chosen in `Init`.

**TimeService** keeps entries with expiry, token and frame. **Combinators** puts
on top of it, and of the yield, flag, latch and future services, the wrappers
that `when_all`, `when_any`, `timeout`, awaited `co_spawn`, `co_bind` and
`co_signal` spawn. A branch yields, returns, throws, waits at a timer, or runs
until its stop token is triggered. On the loop thread the order of the executor
and of the services is the code's; with workers any thread may resume what the
executor holds, and the token of a timer is read before its entry is numbered.
Exceptions that leave a detached coroutine leave `loop()` (`escaped`).

### Primitives

**CoMonitor** models `co_mutex` and `co_condition_variable`, with the threads
that coroutines occupy between suspensions; **CoSemaphore** and **CoLatch** add
the counts and the operations; **CoPrimitives** composes them into programs that
share a semaphore or a latch. The spin count of `lock()` (1024) is abstracted: a
coroutine that finds the mutex locked may yield at any time. The internal list
lock is held across one registration or notification, which is one action. The
concurrency of the context is a variable that `Init` chooses and nothing
changes, so one run covers the loop thread and a pool.

### Coroutines

**Frames** models one group: a stack of frames that await each other, inside a
try block or not and with a stop source or not, that post their handle and
suspend, throw, or are cancelled while suspended. `Called` is the reference: the
same script run as ordinary calls. **Generator** does the same for nested
generators, with `Meaning` as the reference, and counts what is constructed and
destroyed when the consumer stops early. Both references are functions on the
places of lists of items (**ItemPlaces**).

### Network

**SelectService** is `select_socket_service.hpp` on the loop thread. Its walk
erases from the multimap it iterates over, which is undefined behaviour: the
model chooses between going on behind the erased entry and stopping, so that what
is taken are the entries of the ready sockets up to one of them (`Walks`). **Sockets**
adds stream sockets with their blocking mode, which is saved before an operation
and restored after it, and the kernel as environment: connections that come up
or are refused, a pipe of bounded capacity in each direction, closing. **Rpc**
has `send_exactly`, `receive_at_least`, the buffer of the stream, the calls of
`rpc_client` and the sessions of `rpc_server`. A byte is a triple of call,
field and position; a transfer moves any positive number of them.

A connection whose peer has closed its end with bytes unread, or to which bytes
were sent later, is reset (`Reset`), and an operation on it gives one of
`ResetCodes`; the program is taken to ignore SIGPIPE, and `broken_pipe` stands
for every code that a session does not swallow, those of Windows included, whose
category is another. A client throws. A session ends (`GivesUp`) for the two
codes of `rpc_server.hpp:123-126`, `connection_aborted` and `connection_reset`,
and throws every other one again (`Rethrows`), which leaves `loop()` (`Escapes`).
A service that swallows a code returns to its session, which reads the next
request; on a reset connection that may give another code, or garbage that names
no service. The model leaves out what such a session reads and lets it give up
or escape at once.

`select` on Linux looks at the sockets below its first argument only, the highest
one that somebody waits for plus one; a closed socket whose bit was left behind makes
it fail if it is among those (`LookedAt`).

**Codec** is `serde_stream_base.hpp`: a coroutine is a list of instructions (tag,
size, plain value, integer, or a composite that unfolds into others) and may be
suspended between any two; integers are zigzagged and cut into groups of bits.
The width of the integers, that of a group and that of a `desc_t` are
constants, given as powers of two. A tag is the hash of the type, and a size a
number, after `_S_condense`: the upper halves are laid over the lower ones by
exclusive or, twice (`Folded`, `Condense`). The hashes are a constant, so that
two types may share a tag (`Tag`), and then one is read as the other without an
exception. Zigzag writes exclusive or with the four numbers that it is used with
(`Mixed`). **Addresses** and **Names** are functions over chosen
inputs: iteration, comparison, classification, texts, conversion to `sockaddr`
and the resolver over an external directory. `inet_pton`, `getaddrinfo` and
`getnameinfo` are modelled by how the code uses them and marked external.

The `MC*` modules instantiate these for TLC. Four of them compose components for
one run each: **MCExecutor** (WorkStealing and ExecutionContext),
**MCServices** (Services and Combinators), **MCCoPrimitives**, and
**MCMessages** (Rpc, RemoteQueue, Channel, Codec, Addresses with Names, Generator and
Frames; **MCRpc**, **MCCodec** and **MCNames** have their constants). The parts of such a run share no
state: a variable `subject`, chosen in `MCInit`, says which of them runs, and
the variables of the others stand still at one initial state, so that the state
space is the sum of the parts. The `*Proofs` modules and
**ListFacts** hold the theorems. Definitions whose comment starts with "Bug:"
are deliberate mistakes, used to show that each property can fail; no
specification uses them.

## 3. What the runs show

| Run | Instance | Checked |
|---|---|---|
| `executor` | a deque with 2 thieves, capacity 2, 4 pushes | no frame handed out twice or lost; the inductive invariant of the proofs; refinement of Deque; thieves empty an abandoned deque |
| | the context: no workers with 4 groups of which 2 are spawned by others, 2 yields each; 2 workers with 2 groups, one yield each | one thread per group; what is resumed is suspended; a suspended group has one handle; `loop()` returns, and last |
| `queue_workers` | 1 worker, 4 pushes | *violated*: a frame is lost |
| `spawn_on_workers` | 2 workers, 4 groups of which 2 are spawned by others | *violated*: `loop()` ends while a coroutine lives |
| `channel_full` | 2 senders, 2 receivers, ring of 3, 3 messages under way | *violated*: the full ring loses its messages |
| `primitives` | loop thread and 2 workers; 3 acquirers, a trier, releases of 1 and 2; or 2 counters, an arriver, 2 waiters | exclusion, one place per coroutine, permits exist when taken, nobody passes the latch early; on the loop thread no lost wakeup, every acquire returns, everybody passes |
| `semaphore_lost` | 2 workers | *violated*: an acquirer sleeps although permits are free |
| `services` | 2 posters of one service or of two, and the loop | one instance of each service, constructed before it is used; exclusion; a frame whose condition holds is pushed |
| | combinators: loop thread and 2 workers; up to 3 branches, 1 yield | results and exceptions accounted for; one branch decides; a timer is fired or cancelled, once, and by the right cancellation; everything ends |
| `messages` | rpc of 2 clients | answers match calls, waiters are watched, the loop thread blocks only on a shared socket, every call ends |
| | remote queue, loop thread only, 8 pushes | order, no frame lost or doubled, every frame dispatched |
| | channel: 2 senders with 3 messages each, 2 receivers, ring of 3, at most 2 under way | each message once, in order, and delivered |
| | the stream; addresses and networks; generators; frames | values come back, addresses agree with their bits, generators yield in order, awaits are calls |
| `reads_wait` | 2 clients of 2 calls, nothing disturbs them | *violated*: a read waits for bytes that it has |
| `session_escapes` | 2 clients, the connection of one is closed | *violated*: the exception of a session leaves `loop()` |
| `not_reversible` | the transfers of `messages` | *violated*: a value is not read as it was written |
| `version_matters` | the addresses of `messages` | *violated*: versions 4 and 6 are not treated alike |

### Bounds, and why they are enough

- `InitialCapacity = 2` (1024 in the code) makes the third outstanding push
  resize the ring, `MaxPush = 4` lets the owner push and race for the last frame
  afterwards, and two thieves can hold the old and the new ring at once. The
  theorems hold for every capacity, number of thieves and of pushes.
- Eight pushes take the remote queue through several emptyings, with 0 to 8
  frames in it when it is popped.
- `maxYield`: a yield brings a coroutine back to the executor after it has been
  stolen or popped once, two do so twice; four groups let the lifetime list lose
  its first, a middle and its last entry while another is linked in.
- A ring of three with six messages wraps around twice. `Window` is the number
  of messages under way that the program allows: 2 keeps the ring from filling,
  3 fills it.
- Three acquirers allow two registered waiters and a newcomer that overtakes a
  woken one; the updates 1 and 2 take both branches of `release`. The permits
  suffice for the acquirers and the trier, so that every acquire must return.
- Two posters are enough to race for one entry of the registry, and for the loop
  to walk past an entry that is being constructed.
- Three branches of `when_all` allow two to throw while the third yields; two of
  `when_any` arrive in either order, throwing or not; two timers can share a
  token. `Duration` 0 and 1 put expiry before, at and after the end of the other
  branch. `MaxRaise = 2` raises a signal before and during its callback.
- The pipe of a socket holds two bytes (`Capacity`), less than a field, so every
  field travels in pieces. The five rpc programs are: two calls per client, an
  unknown service, a client socket that a helper sends on, one that is closed
  under its reader, a connection that is refused.
- Integers of eight bits (`Modulus = 256`) in groups of three (`Base = 8`) have
  one, two or three groups, and all 256 values are tried; `SizeModulus = 4`
  (a `desc_t` of two bits) makes a string of four characters one too long. The
  hashes have eight bits, folded to two: among the eleven types some share a tag,
  and `MCTransfers` reads a value as a type with another tag and as one with the same.
- Networks: eleven addresses at the borders of classes and of bytes with eight
  prefixes, 0, 31 and 32 among them; `Walked = 28` is the shortest prefix whose
  hosts are walked to the end. The v6 addresses are one of each class and the
  neighbours of the borders.
- Bodies and scripts: empty, nested three deep, throwing with and without a try
  block, suspended before, between and after other awaits.

`messages` has CHECK_DEADLOCK FALSE, like the runs of its parts `reads_wait`,
`session_escapes`, `not_reversible` and `version_matters`: a subject stops when it is done, or when an
exception has left the loop.

### Fairness

- WorkStealing: an operation the owner has begun continues, and idle workers
  keep stealing (the worker loop never blocks). Nothing makes the owner pop: its
  worker may be busy inside a coroutine.
- RemoteQueue: the loop keeps calling `pop_front`, and a `push_back` that has
  made its exchange makes its link.
- ExecutionContext: every thread runs, and a coroutine that runs goes on to
  yield, spawn or finish. Weak fairness suffices: what a thread waits for
  (a semaphore, a join) is not taken away again.
- Channel: the loop commits both services in turn, and receivers that are not
  suspended call `receive` again.
- CoPrimitives, Combinators: a coroutine that has a thread runs (weak fairness).
  One that is handed to the executor gets a thread although others compete for
  it (strong fairness): on the loop thread the executor is the FIFO remote
  queue, and each pass appends what has yielded. For `semaphore_lost` the
  assumption is stronger than the code's, and its counterexample does not depend
  on it: it ends in a state in which nothing can run. Time passes. Nothing makes
  a program cancel a timer or a signal be raised.
- Services: threads run; the lock is not fair, so a thread gets it only if it is
  quick enough once among the times it finds it free (strong fairness of the two
  steps that need a free lock).
- Rpc: the loop thread runs, and a connection that was begun comes up or is
  refused. The kernel delivers what was sent at once.

### Disagreements found

1. `remote_queue.hpp:27-32`. The comment at 15-18 promises a multi-producer
   queue. The consumer stores null into `_M_nil` and exchanges it for the back
   without excluding a producer that has seen `_M_nil` as the back and stores
   its node there: one worker is enough to lose a frame (`queue_workers`).
   With more pushes or workers a frame can also be handed out twice and a
   producer can write a link through `_M_nil` as if it were a node (`wild`);
   `OrderKept` then fails as well. The queue is right when only the loop thread
   pushes.
2. `execution_context.hpp:22` passes `concurrency == 0` as the hint by which
   `frame_lifetime` decides to lock (64, 78, 88). With workers, coroutines that
   spawn race on the list, an entry is lost, and `loop()` returns early
   (`spawn_on_workers`).
3. `ring_container.hpp:97,101`: size and emptiness are computed modulo the
   capacity, so a full ring is empty, and the channel's capacity (README:195,
   `channel.hpp:78`) is one more than it can hold (`channel_full`).
4. `co_condition_variable.hpp:59-66` unlocks the mutex before it registers the
   waiter: with workers, a notification in between is lost (`semaphore_lost`).
5. `serde_stream.hpp:49`: a read that has some of its bytes receives as many as it
   needs in all, on top of them, where the comment at 46-47 says "more data" if
   there are not enough. When the peer has sent everything, the reader waits for
   good (`reads_wait`). Any reply does whose last field is split between two pieces,
   if the first piece was received by the read of an earlier field.
6. `rpc_server.hpp:81` calls a peer that disconnects while packets are sent or
   received a way to end, and 82 and 124 swallow two codes. Another code, which a
   closed connection gives as well (a broken pipe on the second send), is thrown
   out of `loop()`, and all other coroutines stand still (`session_escapes`).
7. `serde_stream_base.hpp:17-19` says that values are turned "reversibly" into
   another representation. Each of these alone breaks `Reversible`: zigzag shifts
   by one bit less than the sign (252), so only integers below 2^(w-2) in magnitude
   come back; the size of a range is folded to 16 bits (285); sets and maps lose
   their elements (437); two coroutines that use one stream in opposite directions
   see each other's tag flag (283) (`not_reversible`).
8. `address.hpp:17-18` promises addresses that are "version-independent", and
   `endpoint.hpp:153-158` formats those of version 6. Each of these alone breaks
   `VersionIndependent`: the text of an address of version 6 throws (103), and so
   does that of its endpoint; the order of two v4 addresses compares one with itself
   (111), that of two v6 addresses asks for their v4 alternative (115); the third
   byte of a mapped address is its second (193) (`version_matters`).

### Conditions in the properties

Some properties hold only under a condition, and the condition is what the code
does and a reader might not expect. They have no run of their own:

- Encoding (`DecodesToItself`): what comes back are the leaves that `Fits`
  admits, in one direction at a time; the others are those of `not_reversible`. An
  exception for a wrong type is claimed only if the two types have different tags.
- Addresses (`AddressesAgree`, `TextsComeBack`, `NamesResolve`): the operations
  in which the versions differ are left to `version_matters`; `is_v4_mapped` skips a
  byte; the largest scope is refused; hosts are looked up without a service, as the
  resolver otherwise asks for the service by the name of the host
  (`resolver.hpp:374`); several functions of `network_v6` end the
  program (COASYNC_TERMINATE) for ordinary arguments (`Terminates`).
- Sockets and rpc: two operations on one socket restore each other's mode, and
  the loop thread then stands in a system call (`BlocksOnlyShared`); `cancel`
  skips the writers if nobody reads, select then fails on the closed socket, and its
  exception leaves `loop()`. `EveryCallEnds` says of each client that it ends, with
  its answers or with an error, unless the loop stops for a reason that is named
  (`Stops`: an unknown service, a connection closed under its session, two that
  share a socket, a writer left behind), or somebody at its own connection waits
  for bytes that it has (`Starves`, the case of `reads_wait`).
- Combinators and frames: an exception of a coroutine spawned with a future
  leaves `loop()` (`escaped`); `co_bind` to a void function drops its exception;
  with workers two timers may share a token, so `CancelsItsOwn` is about the
  loop thread; the losers of a `when_any` over a group are not asked to stop; the
  cancellation of a root that is suspended itself is lost; the value of a
  cancelled frame, or of a detached root, is not destroyed.

## 4. What is proved

For every value of the constants, under the assumptions the modules declare:
any number of thieves, workers, coroutines, pushes, permits, services, branches,
clients and calls, any bound of a channel or a socket, any types and values, any
programs, bodies and scripts.

| Module | Theorem | Statement |
|---|---|---|
| QueueProofs | `Invariance` | `StealingSpec => []Inv` |
| | `TypeCorrect` | `StealingSpec => []StealingTypeOK` |
| | `NoDoubleTake` | `StealingSpec => []AtMostOnce` |
| | `NoFrameLost` | `StealingSpec => []NothingLost` |
| | `Refinement` | `StealingSpec => ImplementsDeque` |
| | `OrderAlone` | without workers, `QueueSpec => []OrderKept` |
| | `NothingLostAlone` | without workers, `QueueSpec => []NothingStranded` |
| | `OrderIfSeparate` | `QueueSpec /\ []Separate => []OrderKept` |
| | `NothingLostIfSeparate` | `QueueSpec /\ []Separate => []NothingStranded` |
| ExecutionContextProofs | `TypesKept` | `Spec => []TypeOK` |
| | `GroupExclusion` | `Spec => []OneThreadPerGroup` |
| | `ResumesRight` | `Spec => []ResumesSuspended` |
| | `HandlesCounted` | `Spec => []OneHandle` |
| | `LoopLeavesNobody` | `Spec => [](Confined => LoopEndsLast)` |
| ServicesProofs | `OneOfEachType` | `ServicesSpec => []OneInstance` |
| | `CommitsExclude` | `ServicesSpec => []Exclusive` |
| PrimitivesProofs | `EverythingDelivered` | if `Window < Bound`, `ChannelSpec => []NothingLost` |
| | `ReachedOnce` | `ChannelSpec => []PostedOnce` |
| | `SendersInOrder` | if `Window < Bound`, `ChannelSpec => []SenderOrder` |
| | `Exclusion` | `Spec => []MutualExclusion` |
| | `PermitExists` | `Spec => []PredicateHeld` |
| | `LatchBarrier` | `Spec => []Barrier` |
| | `NoHandleLost` | `Spec => []OnePlace` |
| | `NoWakeupLost` | `Spec => []WakeupsCover` |
| CombinatorsProofs | `OneHandlePerCoroutine` | `Spec => []FiredOrCancelled` |
| | `OneBranchAnswers` | `Spec => []FirstOrError` |
| | `AllAccountedFor` | `Spec => []AllOrErrors` |
| | `CancelledIsMeant` | `Spec => []CancelsItsOwn` |
| RpcProofs | `WaitersAreWatched` | `RpcSpec => []WaitersWatched` |
| | `OnlySharedBlock` | `RpcSpec => []BlocksOnlyShared` |
| | `OwnAnswers` | `RpcSpec => []AnswersMatch` |
| SequentialProofs | `GeneratorsYieldInOrder` | `GeneratorSpec => []YieldsInOrder` |
| | `AwaitsNestAsCalls` | `FramesSpec => []CallsNest` |
| | `StreamsDecodeToThemselves` | `CodecSpec => []DecodesToItself` |

ListFacts has the facts about sequences that these proofs share: what adding
at either end, removing at any place, reversing and concatenating do to the
elements of a list and to the absence of duplicates, and how many there are;
what taking lists apart gives; and that a function which is defined by
recursion on what comes first exists. `ToSet`, `IsInjective` and the rest are
those of the community modules.

### The deque

The only assumptions are `CapacityAssumption` and `PushAssumption` of
WorkStealing. That the capacity is a power of two, which the code asserts
(line 28), is needed only for `index & mask` to be the remainder. `AtMostOnce`
and `NothingLost` are not inductive. `Inv` adds:

- `ContentsOK`: the frames from `top` to `End` (`bottom`, or one more while a
  pop has lowered it) are distinct, increasing tickets that were pushed and not
  taken, and they fit into the ring;
- `OwnerOK`: the owner's copy of `top` is at most behind, the slot it is about
  to write is free, and it restores `bottom` only when the deque is empty;
- `ThiefOK`: a thief whose copy of `top` is still current holds the frame at the
  top, even when it read it from a ring that was replaced in between. This is
  why its exchange suffices.

The proof has one lemma per action. `StoreLemma` and `ResizeLemma` say what
writing a slot and doubling the ring leave unchanged; they rest on
`ModInjective`: fewer than n consecutive indices have different remainders
modulo n. The refinement maps `PushPublish` to `Push`, `PopMany` and
`PopCasWon` to `Pop`, `StealCasWon` to `Steal`, and everything else to a
stutter.

### The remote queue

With one worker the queue loses frames (`queue_workers`), so nothing can be
proved of it as it stands. The theorems say how far it is right: all goes well,
for any number of workers, as long as `Separate` holds, that is, no push of a
worker is between its exchange and its link while `pop_front` looks whether its
front node has a successor. Nothing in the code ensures that, except that there
are no workers; then it holds trivially (`OrderAlone`, `NothingLostAlone`). So
the window of the bug is exactly this one: with a push half done, `pop_front`
takes a node for the last one that is not.

The invariant is `Queue`: there is a place `g` for the embedded node, behind the
g-th push or nowhere, such that the frames popped are 1 to `Count`, each node
behind them is linked to the next unless a push is pending or `g` stands between
(`Chain`), a pending push knows its predecessor (`Pushers`), and `pop_front`
re-inserts the embedded node only when it is nowhere, behind a node that is not
itself (`Popper`). Pushing keeps `g`; passing the embedded node makes it
nowhere; the exchange of `pop_front` puts it behind the last push.

### The loop and the pool

The assumptions are `ProgramAssumption` and `NodeAssumption` (the ends of the
lifetime list are not coroutines). `IInv` is `TypeOK` with

- `Scheduled`: whatever is in a queue, a deque, the yield service or a thread
  has been spawned. Without it `cur[t]` need not be a group, and the types
  themselves are not inductive;
- `Guarded`: a thread inside a group holds its semaphore, and no other thread is
  inside. This gives `GroupExclusion`.

`ResumesSuspended` needs to know where handles are. `Handled` says that no list
holds a handle twice (`Injective`), that no two places hold the same one
(`Apart`), that a group that is unborn, done or destroyed has none and a free
semaphore means suspended or done (`GroupState`), what the group of a thread is
at each point of `resume_to` (`ThreadState`), and that `commit_frame` starts
from an empty list (`Committed`). The proof is by movement: `Moved` shows that
a step that takes one handle from one place to another keeps `Apart`, and each
action instantiates it. `Kept` adds the other half: every group that is neither
unborn nor finished is in some place. With `ListCardinality` the two give
`OneHandle`, which counts.

`LoopEndsLast` is false when workers run coroutines that spawn (`spawn_on_workers`):
the unlocked list loses an entry. `Confined` is what the theorem asks for
instead, that there are no workers or that no coroutine spawns. Its invariant
`LoopList` says that the entries from the head are exactly the groups that live
and have been linked (`Chain`), which is stated with sets that are closed under
`link`, because reachability along the list would need induction; that at most
one thread is linking (`OneLinks`); and where the loop's cursor is.

### The services

`ServicesAssumption` and `NodeAssumption` (posters are not the ends of the
list). For `OneInstance`: the registry has one last entry that everybody
reaches (`Ends`), an entry that a thread has passed is not of its type
(`Ahead`), and where each thread is in the list (`Placed`). An entry that was
appended while a thread was searching is ahead of it, so its exchange fails and
it finds that entry. For `Exclusive`: who is inside holds the lock (`Locked`),
and the frame of each coroutine that has posted is in one list (`Frames`).

### The channel

`BoundAssumption` and `SendAssumption` of Channel. `NothingLost` and `SenderOrder` are
about programs that never have as many messages under way as the ring has slots
(`Window < Bound`); `channel_full` shows that with as many the ring is lost.
`Ring` says where head and tail are modulo the bound and which messages the
slots between them hold. `PostedOnce` follows from `ChannelPlaced`: a waiting coroutine
is in one of the lists, those under commit included. `Ordered`: a sender has at
most its last message waiting, and what the ring has accepted of it before is in
the order of its numbers. That is why visiting the newest waiter first does not
reorder the messages of one sender.

### The primitives

The assumptions are `MonitorAssumption`, `SemaphoreAssumption`,
`LatchAssumption` and `UsersAssumption`: there are finitely many coroutines, the
users of the semaphore are not those of the latch, each coroutine has one role,
each release adds at least one permit.

- `Exclusion`: with the types, `MutualExclusion` is inductive. Every step takes
  the mutex, gives it back, or leaves both the flag and who is inside alone
  (`Taken`, `Given`, `Passed`).
- `PermitExists` from exclusion: between the check and the decrement the
  coroutine keeps the mutex, and whoever lowers the count has it.
- `LatchBarrier`: `LatchInv` says that the count is at least the number of
  those that have still to count down (`Missing`), and that whoever passes has
  seen zero.
- `NoHandleLost`: `Placed` is `OnePlace` with the types of the lists.

These hold with workers as well. What does not is that a waiter is woken
(`semaphore_lost`): a coroutine keeps its one place in the list of waiters, for
ever. `NoWakeupLost` is about the loop thread. There one coroutine runs at a
time and keeps the thread until it waits or ends, so that the mutex is free when
somebody asks for it (`Single`). `Covered` is `WakeupsCover` with the permits
for which a release has still to notify, and with the count that an acquirer saw
before it registered.

### The combinators

`ProgramAssumption` says which programs there are: branches that end by
returning, throwing, being stopped or waiting at a timer, in numbers that fit
the combinator; durations are natural numbers. The order of the services and the
number of workers are chosen in `Init`, so the theorems hold for all of them,
`CancelledIsMeant` for the loop thread only, as the property says.

- `OneHandlePerCoroutine`: `Sound` says that the lists, the timers and those who
  run are a partition of the coroutines that have been spawned and have not
  ended (`Placed`, over an abstract `Partition` whose moves are lemmas).
- `OneBranchAnswers`: what Main returns was promised by a branch (`Promised`,
  `Outcome`), the branch that sets the flag first stores alone (`First`), and a
  timer's end has its cause (`Causes`).
- `AllAccountedFor`: the latch counts the branches that have not ended, and the
  list of exceptions has those that threw (`Counted`).
- `CancelledIsMeant`: on the loop thread nothing runs between reading the token
  and numbering the entry (`Alone`), so that Main's token is that of its timer
  (`Started`, `Meant`).

### Remote procedure calls

`SocketsAssumption`: at least one client, and a capacity of the sockets that is
not zero; any number of calls, any set of unknown services. The theorems are
about every coroutine of the run, the acceptor, the clients, their sessions, the
helper that shares a client's socket and the one that closes another's.

`Control` is what the loop, the select service and the modes of the sockets
need. None of its parts is inductive alone:

- `Typed`, with where each coroutine can be (`Role`);
- `Placed`: a coroutine runs, is queued or waits at one socket, its own, for the
  direction of its operation. Taking a set of entries out of the service and
  queueing their frames keeps it: the frames are those of the entries, each
  once, however the walk ends (`Walks`, `Outstanding`);
- `Births`: a connection is accepted once, so that its session starts once, and
  the helper once. Otherwise a coroutine could be queued twice;
- `Watched`: the bits of the `fd_set`s cover the waiters, and only open sockets
  are watched for reading;
- `Modes`: a socket on which one coroutine at a time works stays non-blocking
  while that coroutine waits, because nobody restores the mode meanwhile. When
  two share it this fails, and the loop thread can stand still.

`OwnAnswers` needs where every byte is. `Flow` holds until an exception escapes
the loop, that of a session on a reset connection included, after which no
coroutine moves:

- `Stream`: what is on its way to a coroutine (its buffer, what the operation
  has received so far, the pipe, in this order) is a segment of the one sequence
  of bytes that its peer writes, beginning where the coroutine has read to and
  ending where the peer has written to (`Taken`, `Arrived`, `Sent`). A position
  determines a byte (`IsByte`), so that no field need be compared with another;
- `Position`: who is in the middle of `send_exactly` is at a field to write, who
  is in `receive_at_least` waits for the size of the field it reads;
- `Heard`: what a session has read of a request belongs to the call it is at;
- `Answered`: a client has read the answers to its calls, as many as it is past.

A read takes the front of the segment and a transfer moves a part of it from the
sender to the pipe: `FieldDetermined` says that a segment of the right length at
the right place is the field that was meant, whatever the pieces were.

### Generators

`GeneratorAssumption` says what a set of bodies is: lists of items over
`Yielded`, in which every nested generator comes later than the one that nests
it and is nested at one place, as the source builds one frame per call.

`Meaning` is a function that is defined by recursion over the places of the
bodies, and the provers have no induction over data. `RecursionSolved` does
without, for any recursion in which a value depends on those of later places
only: of the places that no solution of a part of the equations reaches, one
would be the last, and it could be added to those of the places after it. In the
same way two solutions cannot differ (`SolvedOnce`). The last place comes from
`WFMin` of the library over a well-founded order of the naturals (`LeastOf`,
`GreatestOf`, `LastPlace`).

`GeneratorInv` relates the pointers to the nesting and the nesting to the rest
of the computation:

- `Stack`: the generators that have begun and not ended are a chain from the
  leaf, to which the root points, along the parents to the root; each but the
  leaf is at the item that nests the next one;
- `Frame` and `OneValue`: which frames, exceptions and values exist;
- `Rest`: what the consumer has taken, the value it is given, and what is still
  to come are together the meaning of the bodies. What is still to come is that
  of the leaf, continued with what its parent does when it returns or when it
  throws, and so on up to the root (`Continuations`). The two continuations of
  every open generator are given by an existential quantifier over functions
  that satisfy the equations at each link of the chain, so that no step needs
  more than the links it changes.

### Frames

`ScriptsAssumption` is that of the generators for frames: an awaited frame comes
later than the one that awaits it and is awaited at one place, as a call builds
one frame. The assumption leaves open which sources there are, where a frame
throws, suspends or catches. `Called` and `OuterSource` are solved by
`RecursionSolved` as `Meaning` is.

`FramesInv` has, beside the types:

- `InControl`: until the root has ended, one frame runs or its handle is at one
  place, and that frame is the last of the stack (`LastFrame`);
- `CallStack`: the frames that have begun and not ended lead along `previous` to
  the root, each but the last at the item that awaits the next one; a frame that
  is awaited later does not exist yet;
- `Promised`: where the exception and the value of a frame may be, before it has
  ended, when it is done and when it is destroyed;
- `Tokens`: each frame has the token of its caller, or the one it was given if
  the caller has none. That this is the source of the outermost one follows by
  induction along the stack (`OuterTokens`);
- `CallRest`: the results so far, followed by what is to come from the last frame
  and then from each frame above it, are what the calls give.

A suspended frame may be cancelled later, so what is to come is not known before
the group has ended. `CallRest` therefore holds for every set of cancelled frames
that agrees with the real one on the frames that have ended; a cancellation only
changes which of them is real. What comes after a frame depends on how its
body ends, and a cancellation may change that: `CallsAfter` has, for each frame
of the stack and each of the three ends, what follows in its callers.

### Codec

`CodecAssumption` says what types and values are: the parts of a value are values
of the types of its parts, signed and unsigned integers have the width of the
build, the numbers of bits are such that a sign and the bit below it exist, and
each type has a hash; no assumption says that tags differ.
Types may be nested in any way, in themselves too. The theorem is about streams
that are used in one direction, as the property is; the condition that all leaves
fit (`Fits`) is checked in the state the property is about.

Three facts are about data. `ZigzagUndone` and `DigitsGiveNumber` say that an
integer comes back from its digits. `Digits` and `Number` are recursive functions;
`RecursionSolved` gives their equations, and what they compute follows from the
order of the numbers, as every number that is not a digit is greater than its
quotient. `ReadingBecomes` says that a reader unfolds a value into the answers to
what the writer unfolds it into.

What the writer does depends on nobody else. `Written` is the sequence of the
configurations it goes through, alone: what it has still to do within the values
it has begun, the next value, how deep it is, and all it has put on the wire and
sent. `WrittenInOrder` says that what was put on the wire only grows, and that
nothing is sent without a token. `CodecInv` then says where the two are in this
one sequence:

- `WritesAt`: the writer is at a configuration w, and the tokens on the wire are
  those of w without the ones that were taken;
- `ReadsAt`: the reader is at a configuration r whose tokens are those taken, and
  its list of instructions is the answer to that of the writer at r (`Back`). It
  may also be within the step: it has read a tag and not yet the size, or it has
  still to empty a container that keeps nothing. The flag and the saved flags of
  both are those of the depth (`Inside`);
- `Limit`: all this holds up to the first value whose tag differs from that of the
  type the reader expects, if those before it are of the types it expects. There the
  reader finds the tag of the writer where it expects another, and throws (`Threw`).

`InFlight` is the step from one to the other: if the reader waits for a token and
there is one, r is before w, and the first token on the wire is the one that the
writer emitted at r. A reader that has nothing left to do is at a configuration
where the writer stops, so that all that was sent has been read (`EndReached`,
`AllSent`).

## 5. Only model-checked

- Liveness, in every module: the prover has no rule for fairness that these
  proofs could use.
- Names and Addresses (`AddressesAgreeWithBits`): the property compares what
  computations give with a reference over bits for the chosen inputs, and the
  computations are recursive or fold over data.
- The queue with workers: `OrderKept` and `NothingStranded` are false then; what
  is proved is the condition under which they hold.

Types: WorkStealing and ExecutionContext have a proved type invariant, and the
invariants of the other proofs contain the types they need. RemoteQueue, Channel
and CoPrimitives state one that no run lists, because it says nothing that their
other invariants would not notice.

## 6. Not modelled, and why

- Memory: allocators, the memory resources of the context, move semantics,
  alignment. Move assignment of awaitables and `async_fn` wrap what Frames has.
- The destruction of services (`erase_after`), which happens after everything
  has stopped; the models give the primitives unbounded lifetime.
- Four hazards of PROJECT.json that are real and that no property catches: two
  threads that post timers may get one token (`time_service.hpp:89`;
  `CancelsItsOwn` is about the loop thread); nothing asks the losers of a
  `when_any` over a group to end (`when_any.hpp:92`; in the programs they end by
  themselves); `cancel` skips the writers (`socket_base.hpp:66`; one of `Stops`);
  coroutines that wake each other for ever keep the services waiting
  (`frame_executor.hpp:52`).
- Weak memory orders and spurious failures of `compare_exchange_weak`: the
  models interleave accesses as x86 does.
- The epoll and iocp services, whose interface is that of the select service;
  socket options, flags and unix paths; hashing and stream insertion of
  addresses.
- Datagrams: `receive_from` and `send_to` return to their caller only when no
  byte was transferred. `receive_exactly` and `receive_until` are loops over the
  same receive.
- `wait` without a predicate has no way out of its loop
  (`co_condition_variable.hpp:39-51`).
- `rpc_control_variable` and exceptions that a service throws.
- The number of a signal chooses the instance of `co_signal`; it installs the
  handler of SIGILL for SIGFPE. One signal is modelled.
- `varint.hpp` is included nowhere; `config.hpp` and `detail/meta/` other than
  the stream keep no state.

## 7. What could follow

1. A refinement from Channel to a queue of messages, and from the monitor to an
   atomic semaphore.
2. A refinement from Frames to the single coroutine of ExecutionContext.
3. The epoll service, with its edge-triggered kernel.
4. Datagram sockets, once the code returns what it received.
