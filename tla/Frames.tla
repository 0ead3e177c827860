------------------------------- MODULE Frames -------------------------------
(***************************************************************************)
(* awaitable.hpp and detail/awaitable_frame*.hpp: the frames of one group  *)
(* of coroutines.  Frame 1, the root, was spawned detached; each other one *)
(* belongs to the awaitable that its caller holds, is awaited by it, and   *)
(* runs until it is done.  What a frame does is a list of items: await     *)
(* another frame, inside a try block or not and with a stop source or      *)
(* without; post its own handle to a service and suspend; throw.  The      *)
(* frames of suspendible's operator() consist of one such suspension, an   *)
(* awaited duration or flag (transformed_awaitable) suspends its caller.   *)
(*                                                                         *)
(* Each script runs a frame once.                                          *)
(***************************************************************************)
EXTENDS ItemPlaces

CONSTANTS
  Sources,  \* stop sources, or 0 for none
  Scripts   \* what the frames of a group do, the root first

VARIABLES
  script,   \* never changes
  frame,    \* the promise of each frame, and where it is
  resumed,  \* the frame that runs, or NoFrame
  handle,   \* the handle by which the group is resumed, and who has it
  results,  \* what each await has given to its caller, in order
  hit,      \* the frames that were cancelled
  thrownOut \* an exception has left the root, resume() and loop()

framesVars == <<script, frame, resumed, handle, results, hit, thrownOut>>

NoFrame == 0
RootFrame == 1
FrameIds == DOMAIN script

AwaitItem(g, catches, source) == [op |-> "await", of |-> g, catches |-> catches, source |-> source]
SuspendItem == [op |-> "suspend"]
ThrowItem == [op |-> "throw"]

ScriptItems(n) ==
  {AwaitItem(g, catches, source) : g \in 1..n, catches \in BOOLEAN, source \in Sources}
  \cup {SuspendItem, ThrowItem}

\* Items name frames that come later, and each of them at one place only.
ASSUME ScriptsAssumption ==
  \A s \in Scripts :
    /\ s # <<>> /\ s \in Seq(Seq(ScriptItems(Len(s))))
    /\ \A g \in DOMAIN s : \A i \in DOMAIN s[g] :
         s[g][i].op = "await" =>
           /\ s[g][i].of > g
           /\ \A h \in DOMAIN s : \A j \in DOMAIN s[h] :
                s[h][j].op = "await" /\ s[h][j].of = s[g][i].of => h = g /\ j = i

Nowhere == [of |-> NoFrame, at |-> "nowhere"]

\* A promise as it is constructed: context, id and semaphore are not initialised.
\* The token 0 is that of no source.
NewFrame(state) ==
  [state |-> state, position |-> 1, previous |-> NoFrame, control |-> "garbage", token |-> 0,
   exception |-> "none", value |-> FALSE]

\* co_spawn: the lifetime sets the semaphore, the context itself and the id, and the
\* executor gets the handle.
FramesInit ==
  /\ script \in Scripts
  /\ frame = [g \in FrameIds |->
                IF g = RootFrame THEN [NewFrame("initial") EXCEPT !.control = "group"]
                ELSE NewFrame("absent")]
  /\ resumed = NoFrame
  /\ handle = [of |-> RootFrame, at |-> "executor"]
  /\ results = <<>> /\ hit = {} /\ thrownOut = FALSE

Item(g) == script[g][frame[g].position]
AtFrameItem(g, op) ==
  /\ resumed = g /\ frame[g].position <= Len(script[g])
  /\ Item(g).op = op

-----------------------------------------------------------------------------
(* The executor and the services *)

ResumeTo ==
  /\ handle.at = "executor" /\ ~thrownOut
  /\ resumed' = handle.of
  /\ frame' = [frame EXCEPT ![handle.of].state = "started"]
  /\ handle' = Nowhere
  /\ UNCHANGED <<script, results, hit, thrownOut>>

\* commit_frame finds that the condition holds.
PushToExecutor ==
  /\ handle.at = "service"
  /\ handle' = [handle EXCEPT !.at = "executor"]
  /\ UNCHANGED <<script, frame, resumed, results, hit, thrownOut>>

\* cancel_frame of a service: the frame that was posted gets the exception.
SetException ==
  /\ handle.at = "service"
  /\ frame' = [frame EXCEPT ![handle.of].exception = "cancelled"]
  /\ hit' = hit \cup {handle.of}
  /\ handle' = [handle EXCEPT !.at = "executor"]
  /\ UNCHANGED <<script, resumed, results, thrownOut>>

\* The frame is in a service before it suspends; nobody else runs here.
PostAndSuspend(g) ==
  /\ AtFrameItem(g, "suspend")
  /\ handle' = [of |-> g, at |-> "service"]
  /\ frame' = [frame EXCEPT ![g].position = @ + 1]
  /\ resumed' = NoFrame
  /\ UNCHANGED <<script, results, hit, thrownOut>>

-----------------------------------------------------------------------------
(* Await *)

\* set_stop_token keeps the token it has if the new one has no source.
WithToken(token, new) == IF new # 0 THEN new ELSE token

\* The coroutine is called: its frame is suspended initially and may get the token
\* of a stop source.
GetReturnObject(g) ==
  LET child == Item(g).of
  IN /\ AtFrameItem(g, "await") /\ frame[child].state = "absent"
     /\ frame' = [frame EXCEPT ![child] =
                    [NewFrame("initial") EXCEPT !.token = WithToken(0, Item(g).source)]]
     /\ UNCHANGED <<script, resumed, handle, results, hit, thrownOut>>

\* push_frame
PushedFrame(child, parent) ==
  [child EXCEPT !.previous = parent, !.control = frame[parent].control,
                !.token = WithToken(@, frame[parent].token), !.state = "started"]

AwaitSuspend(g) ==
  LET child == Item(g).of
  IN /\ AtFrameItem(g, "await") /\ frame[child].state = "initial"
     /\ frame' = [frame EXCEPT ![child] = PushedFrame(@, g)]
     /\ resumed' = child
     /\ UNCHANGED <<script, handle, results, hit, thrownOut>>

\* final_suspend: the caller goes on, or whoever has resumed the root.
FinalSuspendOf(g) == resumed' = frame[g].previous

\* Bug: the exception is kept by nobody.
UnhandledExceptionForgets(g, what, frames) ==
  /\ frame' = [frames EXCEPT ![g].state = "done"]
  /\ thrownOut' = (frame[g].previous = NoFrame)
  /\ FinalSuspendOf(g)

\* With a caller the exception is stored for it; the root has none and lets it out.
UnhandledException(g, what, frames) ==
  /\ frame' = [frames EXCEPT ![g].state = "done",
                             ![g].exception = IF frame[g].previous = NoFrame THEN @ ELSE what]
  /\ thrownOut' = (frame[g].previous = NoFrame)
  /\ FinalSuspendOf(g)

\* rethrow_exception, which empties the exception, or get_value, which destroys the
\* value; and the awaitable is destroyed.
AwaitResume(g) ==
  LET child == Item(g).of
      what == frame[child].exception
      gone == [frame EXCEPT ![child].state = "destroyed",
                            ![child].exception = "none",
                            ![child].value = @ /\ what # "none"]
  IN /\ AtFrameItem(g, "await") /\ frame[child].state = "done"
     /\ results' = Append(results, <<child, what>>)
     /\ IF what = "none" \/ Item(g).catches
        THEN /\ frame' = [gone EXCEPT ![g].position = @ + 1]
             /\ UNCHANGED <<resumed, thrownOut>>
        ELSE UnhandledException(g, what, gone)
     /\ UNCHANGED <<script, handle, hit>>

ThrowOut(g) ==
  /\ AtFrameItem(g, "throw")
  /\ UnhandledException(g, "thrown", frame)
  /\ UNCHANGED <<script, handle, results, hit>>

\* return_value
ReturnValue(g) ==
  /\ resumed = g /\ frame[g].position > Len(script[g])
  /\ frame' = [frame EXCEPT ![g].state = "done", ![g].value = TRUE]
  /\ FinalSuspendOf(g)
  /\ UNCHANGED <<script, handle, results, hit, thrownOut>>

\* The lifetime finds that the root is done.
OpDestroy ==
  /\ resumed = NoFrame /\ ~thrownOut
  /\ frame[RootFrame].state = "done"
  /\ frame' = [frame EXCEPT ![RootFrame].state = "destroyed"]
  /\ UNCHANGED <<script, resumed, handle, results, hit, thrownOut>>

FramesNext ==
  \/ ResumeTo \/ PushToExecutor \/ SetException \/ OpDestroy
  \/ \E g \in FrameIds :
       \/ PostAndSuspend(g) \/ GetReturnObject(g) \/ AwaitSuspend(g)
       \/ AwaitResume(g) \/ ThrowOut(g) \/ ReturnValue(g)

FramesSpec == FramesInit /\ [][FramesNext]_framesVars

-----------------------------------------------------------------------------
(* The same calls as those of functions *)

Given(list, ends) == [results |-> list, ends |-> ends]

\* A frame that was cancelled ends with the cancellation unless it throws something else.
EndOf(g, ends, cancelled) == IF ends = "none" /\ g \in cancelled THEN "cancelled" ELSE ends

\* What the items of a frame from one on give, if those that come later give what
\* `from` says: the results of the awaits within, and how the body ends.
GivenAt(s, cancelled, from, p) ==
  LET item == s[p[1]][p[2]]
      rest == from[<<p[1], p[2] + 1>>]
      inner == from[<<item.of, 1>>]
      ends == EndOf(item.of, inner.ends, cancelled)
      here == Append(inner.results, <<item.of, ends>>)
  IN IF p[2] > Len(s[p[1]]) THEN Given(<<>>, "none")
     ELSE IF item.op = "throw" THEN Given(<<>>, "thrown")
     ELSE IF item.op = "suspend" THEN rest
     ELSE IF ends = "none" \/ item.catches THEN Given(here \o rest.results, rest.ends)
     ELSE Given(here, ends)

\* What the whole script gives as calls.
Called(s, cancelled) ==
  LET from[p \in Places(s)] == GivenAt(s, cancelled, from, p)
  IN from[<<RootFrame, 1>>]

\* The frames by which g was awaited, the root first, and g.
Callers(g) ==
  LET path[f \in {NoFrame} \cup FrameIds] ==
        IF f = NoFrame THEN <<>> ELSE Append(path[frame[f].previous], f)
  IN path[g]

\* The source given to the outermost of a frame and its callers that was given one.
OuterSource(g) ==
  LET calls == Callers(g)
      given(k) == Item(calls[k - 1]).source
      sources == {k \in 2..Len(calls) : given(k) # 0}
  IN IF sources = {} THEN 0 ELSE given(CHOOSE k \in sources : \A other \in sources : k <= other)

\* Awaits give what calls of functions would give, in the same order, wherever the
\* group is suspended and whichever of its frames is cancelled while it is: an
\* exception reaches the caller of the frame that has it, once, or leaves the root;
\* only a cancellation of the root is lost.  Every frame that can suspend belongs to
\* the group, with the stop token of its outermost source; control is never lost; and
\* a value that nobody takes is that of a cancelled frame or of the root
\* (awaitable_frame_base.hpp:54-58, 96-143, awaitable.hpp:71-85).
CallsNest ==
  LET calls == Called(script, hit)
      over == frame[RootFrame].state \in {"done", "destroyed"}
  IN /\ Len(results) <= Len(calls.results) /\ results = SubSeq(calls.results, 1, Len(results))
     /\ over => results = calls.results /\ (thrownOut <=> calls.ends # "none")
     /\ over <=> resumed = NoFrame /\ handle = Nowhere
     /\ \A g \in FrameIds :
          /\ frame[g].state = "started" => frame[g].control = "group" /\ frame[g].token = OuterSource(g)
          /\ frame[g].state = "destroyed" =>
               /\ frame[g].exception # "none" => g = RootFrame /\ RootFrame \in hit
               /\ frame[g].value => g = RootFrame \/ g \in hit
=============================================================================
