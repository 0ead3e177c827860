----------------------------- MODULE RemoteQueue -----------------------------
(***************************************************************************)
(* The intrusive queue through which every thread hands frames to the loop *)
(* thread: src/include/coasync/detail/remote_queue.hpp, one action per     *)
(* atomic access.  push_back runs on the workers and on the loop thread    *)
(* itself (frame_executor::push_frame); pop_front runs on the loop thread  *)
(* only (frame_executor::dispatch_frame).                                  *)
(*                                                                         *)
(* A node comes from a monotonic buffer that never reuses memory, so every *)
(* push has a fresh node: the nodes are numbered in the order of their     *)
(* exchange with _M_back, which is the order of the queue.                 *)
(***************************************************************************)
EXTENDS Integers, Sequences

CONSTANTS
  Workers,   \* the worker threads that push
  Main,      \* the loop thread
  MaxPushes    \* bound: how many pushes a behaviour makes

ASSUME MainAssumption == Main \notin Workers
ASSUME PushesAssumption == MaxPushes \in Nat

Threads == Workers \cup {Main}
Nodes == 1..MaxPushes
Null == 0     \* nullptr
Nil == -1     \* the address of the embedded node _M_nil

VARIABLES
  back,    \* _M_back
  front,   \* _M_front, used by the loop thread only
  nil,     \* _M_nil, the link that follows the embedded node
  next,    \* _M_next of each node
  stage,   \* where each thread is in push_back or pop_front
  node,    \* the node each thread is pushing
  prev,    \* what the last exchange of each thread returned
  exchanged,  \* history: number of exchanged nodes
  popped,  \* history: the nodes pop_front returned
  wild     \* history: _M_nil was written to as if it were a Node

queueVars == <<back, front, nil, next, stage, node, prev, exchanged, popped, wild>>

QueueInit ==
  /\ back = Nil
  /\ front = Nil
  /\ nil = Null
  /\ next = [n \in Nodes |-> Null]
  /\ stage = [t \in Threads |-> "idle"]
  /\ node = [t \in Threads |-> Null]
  /\ prev = [t \in Threads |-> Null]
  /\ exchanged = 0
  /\ popped = <<>>
  /\ wild = FALSE

-----------------------------------------------------------------------------
(* push_back *)

\* The new node is reset and becomes the back; it is not linked yet.
PushExchange(t) ==
  /\ stage[t] = "idle"
  /\ exchanged < MaxPushes
  /\ exchanged' = exchanged + 1
  /\ node' = [node EXCEPT ![t] = exchanged + 1]
  /\ prev' = [prev EXCEPT ![t] = back]
  /\ back' = exchanged + 1
  /\ stage' = [stage EXCEPT ![t] = "link"]
  /\ UNCHANGED <<front, nil, next, popped, wild>>

\* Bug: the first node is not linked to _M_nil.
PushLinkNilNot(t) ==
  /\ stage[t] = "link"
  /\ prev[t] = Nil
  /\ stage' = [stage EXCEPT ![t] = "idle"]
  /\ UNCHANGED <<back, front, nil, next, node, prev, exchanged, popped, wild>>

PushLinkNil(t) ==
  /\ stage[t] = "link"
  /\ prev[t] = Nil
  /\ nil' = node[t]
  /\ stage' = [stage EXCEPT ![t] = "idle"]
  /\ UNCHANGED <<back, front, next, node, prev, exchanged, popped, wild>>

PushLinkNode(t) ==
  /\ stage[t] = "link"
  /\ prev[t] # Nil
  /\ next' = [next EXCEPT ![prev[t]] = node[t]]
  /\ stage' = [stage EXCEPT ![t] = "idle"]
  /\ UNCHANGED <<back, front, nil, node, prev, exchanged, popped, wild>>

-----------------------------------------------------------------------------
(* pop_front *)

\* The queue looks empty: pop_front returns nullptr.
PopNull ==
  /\ stage[Main] = "idle"
  /\ front = Nil
  /\ nil = Null
  /\ UNCHANGED queueVars

PopStart ==
  /\ stage[Main] = "idle"
  /\ \/ front = Nil /\ nil # Null /\ front' = nil
     \/ front # Nil /\ front' = front
  /\ stage' = [stage EXCEPT ![Main] = "next"]
  /\ UNCHANGED <<back, nil, next, node, prev, exchanged, popped, wild>>

\* pop_front returns the front node and moves to its successor.
PopReturn ==
  /\ next[front] # Null
  /\ popped' = Append(popped, front)
  /\ front' = next[front]
  /\ stage' = [stage EXCEPT ![Main] = "idle"]
  /\ UNCHANGED <<back, nil, next, node, prev, exchanged, wild>>

PopNext == stage[Main] = "next" /\ PopReturn

\* The front node is the last one linked: put the embedded node behind it.
PopResetNil ==
  /\ stage[Main] = "next"
  /\ next[front] = Null
  /\ stage' = [stage EXCEPT ![Main] = "reset"]
  /\ UNCHANGED <<back, front, nil, next, node, prev, exchanged, popped, wild>>

\* Bug: the link of _M_nil is not reset.
NilResetNot ==
  /\ stage[Main] = "reset"
  /\ stage' = [stage EXCEPT ![Main] = "exchangeNil"]
  /\ UNCHANGED <<back, front, nil, next, node, prev, exchanged, popped, wild>>

NilReset ==
  /\ stage[Main] = "reset"
  /\ nil' = Null
  /\ stage' = [stage EXCEPT ![Main] = "exchangeNil"]
  /\ UNCHANGED <<back, front, next, node, prev, exchanged, popped, wild>>

NilExchange ==
  /\ stage[Main] = "exchangeNil"
  /\ prev' = [prev EXCEPT ![Main] = back]
  /\ back' = Nil
  /\ stage' = [stage EXCEPT ![Main] = "linkNil"]
  /\ UNCHANGED <<front, nil, next, node, exchanged, popped, wild>>

\* prev->*_M_next: when prev is the embedded node the store hits the memory
\* behind it, which is not a link of the queue.
NilLink ==
  /\ stage[Main] = "linkNil"
  /\ IF prev[Main] = Nil
     THEN wild' = TRUE /\ next' = next
     ELSE wild' = wild /\ next' = [next EXCEPT ![prev[Main]] = Nil]
  /\ stage' = [stage EXCEPT ![Main] = "spin"]
  /\ UNCHANGED <<back, front, nil, node, prev, exchanged, popped>>

PopSpin == stage[Main] = "spin" /\ PopReturn

-----------------------------------------------------------------------------
Push(t) == PushExchange(t) \/ PushLinkNil(t) \/ PushLinkNode(t)

PopStep ==
  \/ PopStart \/ PopNext \/ PopResetNil \/ NilReset \/ NilExchange \/ NilLink \/ PopSpin

QueueNext == PopNull \/ PopStep \/ \E t \in Threads : Push(t)

QueueSpec == QueueInit /\ [][QueueNext]_queueVars

\* The loop calls dispatch_frame again and again, and a push once started
\* does not block.
QueueFairness ==
  /\ WF_queueVars(PopStep)
  /\ \A t \in Threads : WF_queueVars(PushLinkNil(t) \/ PushLinkNode(t))

QueueFairSpec == QueueSpec /\ QueueFairness

-----------------------------------------------------------------------------
Links == Nodes \cup {Null, Nil}

\* The type of every variable.
QueueTypeOK ==
  /\ back \in Nodes \cup {Nil}
  /\ front \in Nodes \cup {Nil}
  /\ nil \in Nodes \cup {Null}
  /\ next \in [Nodes -> Links]
  /\ stage \in [Threads -> {"idle", "link", "next", "reset", "exchangeNil", "linkNil", "spin"}]
  /\ \A t \in Workers : stage[t] \in {"idle", "link"}
  /\ node \in [Threads -> Nodes \cup {Null}]
  /\ prev \in [Threads -> Links]
  /\ exchanged \in 0..MaxPushes
  /\ popped \in Seq(Nodes)
  /\ wild \in BOOLEAN

\* No frame is dispatched twice or before one that was pushed earlier, even
\* while pushes are half done (lines 37-42) and the embedded node moves
\* (line 60); and the node behind which that is put is never itself, so that
\* the cast at line 30 is right.
OrderKept ==
  /\ \A i, j \in DOMAIN popped : i < j => popped[i] < popped[j]
  /\ ~wild

Quiet == \A t \in Threads : stage[t] = "idle"

\* When no thread is inside push_back, a pop_front that returns nullptr means
\* that every frame was dispatched.
NothingStranded == Quiet /\ front = Nil /\ nil = Null => Len(popped) = exchanged

\* Every frame pushed by any thread is dispatched.
EveryFramePopped == \A n \in Nodes : (exchanged >= n) ~> (Len(popped) >= n)
=============================================================================
