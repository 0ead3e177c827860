----------------------------- MODULE Combinators -----------------------------
(***************************************************************************)
(* when_all, when_any, timeout, deadline_timer, co_spawn with a future,    *)
(* co_bind and co_signal on top of the services their coroutines wait at:  *)
(* flag, latch, future, time and yield service.                            *)
(*                                                                         *)
(* Main is the coroutine that calls the combinator; it spawns the branches *)
(* detached, in order, and waits.  A branch yields some number of times    *)
(* and then returns or throws; one that is stoppable yields until its stop *)
(* token is triggered; one that is a timer waits at the time service.      *)
(*                                                                         *)
(* Without workers the loop thread resumes what the executor holds, in     *)
(* order, and then commits the services in the order of their creation.    *)
(* With workers, they resume in any order what the executor holds.  A      *)
(* coroutine posts its frame and suspends in one step here;                *)
(* ExecutionContext shows that a frame which is scheduled in between is    *)
(* resumed after the suspension.                                           *)
(***************************************************************************)
EXTENDS TimeService, FiniteSets

CONSTANTS
  Programs,       \* what Main calls, see ProgramAssumption
  Concurrencies,  \* numbers of workers
  Duration,       \* of the timer of each branch
  MaxRaise        \* bound: how many signals are raised

Main == 0
Branches == Coroutines \ {Main}

Kinds == {"all", "any", "anyGroup", "timeout", "timer", "await", "bind", "bindVoid", "signal"}

(***************************************************************************)
(* A program has a kind, and for each branch 1..Len(ends) how often it     *)
(* yields and how it ends: "value", "throw", "stopped" (it yields until it *)
(* is stopped) or "timer".  Its second branch is the timer of a timeout, a *)
(* future has one branch and a signal has none.                            *)
(***************************************************************************)
ASSUME ProgramAssumption ==
  \A p \in Programs :
    /\ p.kind \in Kinds
    /\ p.ends \in Seq({"value", "throw", "stopped", "timer"})
    /\ p.yields \in [DOMAIN p.ends -> Nat]
    /\ DOMAIN p.ends \subseteq Branches
    /\ \A b \in DOMAIN p.ends :
         p.ends[b] = "timer" <=> p.kind = "timer" \/ (p.kind = "timeout" /\ b = 2)
    /\ p.kind = "timeout" => Len(p.ends) = 2
    /\ p.kind \in {"await", "bind", "bindVoid"} => Len(p.ends) = 1
    /\ p.kind = "signal" => Len(p.ends) = 0
ASSUME DurationAssumption == \A b \in Branches : Duration[b] \in Nat
ASSUME MainAssumption == Main \in Coroutines

VARIABLES
  program,     \* what runs; never changes
  concurrency, \* never changes
  order,       \* the services in the order of their creation; never changes
  committing,  \* the services the loop has still to commit in this pass
  ready,       \* what the executor holds
  running,     \* the coroutines that occupy a thread
  waiting,     \* the lists of the services, newest first
  pc,          \* where each coroutine is
  left,        \* how often each branch has still to yield
  spawned,     \* how many branches Main has spawned
  result,      \* how each branch has ended
  latch,       \* local_latch of when_all
  errors,      \* eptr_collection of when_all
  flag,        \* flag_arrive of when_any, _S_flag of co_signal
  arrived,     \* first_arrive, with first_value and first_eptr
  stop,        \* request_stop was called
  promise,     \* the shared state of the future
  outcome,     \* what the combinator returns or throws
  escaped,     \* an exception has left loop()
  signal       \* co_signal: handler installed, signals raised, callbacks made

rigid == <<program, concurrency, order>>
sync == <<latch, errors, flag, arrived, stop, promise, escaped, signal>>
vars == <<timeVars, rigid, committing, ready, running, waiting, pc, left, spawned, result,
          sync, outcome>>

Kind == program.kind
Used == DOMAIN program.ends
None == "none"
Nobody == [by |-> Main, threw |-> FALSE]  \* first_arrive = -1

\* The services a program uses; each is created by its first post_frame.
Services ==
  {"yield"} \cup
  CASE Kind = "all" -> {"latch"}
    [] Kind \in {"any", "anyGroup", "signal"} -> {"flag"}
    [] Kind = "timeout" -> {"flag", "time"}
    [] Kind = "timer" -> {"time"}
    [] OTHER -> {"future"}

Init ==
  /\ TimeInit
  /\ program \in Programs
  /\ concurrency \in Concurrencies
  /\ order \in SetToSeqs(Services)
  /\ committing = <<>>
  /\ ready = <<Main>>
  /\ running = {}
  /\ waiting = [s \in {"yield", "flag", "latch", "future"} |-> <<>>]
  /\ pc = [c \in Coroutines |-> IF c # Main THEN "unborn"
                               ELSE IF Kind = "signal" THEN "install" ELSE "spawn"]
  /\ left = [b \in Branches |-> IF b \in Used THEN program.yields[b] ELSE 0]
  /\ spawned = 0
  /\ result = [b \in Branches |-> None]
  /\ latch = Cardinality(Used)
  /\ errors = <<>>
  /\ flag = FALSE
  /\ arrived = Nobody
  /\ stop = FALSE
  /\ promise = None
  /\ outcome = <<None>>
  /\ escaped = FALSE
  /\ signal = [handler |-> FALSE, raised |-> 0, called |-> 0]

At(c, label) == c \in running /\ pc[c] = label

Goto(c, label) == pc' = [pc EXCEPT ![c] = label]

Leaves(c) == running' = running \ {c}

\* c posts its frame to the service and suspends.
Suspend(c, service) ==
  /\ waiting' = [waiting EXCEPT ![service] = <<c>> \o @]
  /\ Leaves(c)

-----------------------------------------------------------------------------
(* The executor and the loop *)

Resume(c) ==
  /\ \E i \in DOMAIN ready :
       /\ ready[i] = c
       /\ concurrency = 0 => i = 1
       /\ ready' = RemoveAt(ready, i)
  /\ c \notin running
  /\ IF concurrency = 0 THEN running = {} /\ committing = <<>>
     ELSE Cardinality(running) < concurrency
  /\ running' = running \cup {c}
  /\ UNCHANGED <<timeVars, committing, waiting, pc, left, spawned, result, sync, outcome>>

\* Without workers dispatch_frame returns when the queue is empty.
PassStart ==
  /\ committing = <<>>
  /\ concurrency = 0 => ready = <<>> /\ running = {}
  /\ committing' = order
  /\ UNCHANGED <<timeVars, ready, running, waiting, pc, left, spawned, result, sync, outcome>>

\* Bug: the condition of the frames is not tested.
CommitListAlways(service, condition) ==
  /\ committing # <<>> /\ Head(committing) = service
  /\ committing' = Tail(committing)
  /\ ready' = ready \o waiting[service]
  /\ waiting' = [waiting EXCEPT ![service] = <<>>]
  /\ UNCHANGED <<timeVars, running, pc, left, spawned, result, sync, outcome>>

\* commit_frame of a service whose frames all wait for the same condition here.
\* That of the yield service pushes its list as it is, the others reverse what
\* they take (emplace_front).
CommitList(service, condition) ==
  /\ committing # <<>> /\ Head(committing) = service
  /\ committing' = Tail(committing)
  /\ IF condition
     THEN /\ ready' = ready \o (IF service = "yield" THEN waiting[service] ELSE Reverse(waiting[service]))
          /\ waiting' = [waiting EXCEPT ![service] = <<>>]
     ELSE UNCHANGED <<ready, waiting>>
  /\ UNCHANGED <<timeVars, running, pc, left, spawned, result, sync, outcome>>

CommitYield == CommitList("yield", TRUE)
CommitFlag == CommitList("flag", flag)
CommitLatch == CommitList("latch", latch = 0)
CommitFuture == CommitList("future", promise # None)

CommitTime ==
  /\ committing # <<>>
  /\ Head(committing) = "time"
  /\ committing' = Tail(committing)
  /\ \E outstanding \in TimeOutstanding : ready' = ready \o outstanding
  /\ TimeCommit
  /\ UNCHANGED <<running, waiting, pc, left, spawned, result, sync, outcome>>

\* Time is let pass only while somebody waits for it: this bounds the clock.
Tick ==
  /\ \E e \in timers : e.due >= now
  /\ now' = now + 1
  /\ UNCHANGED <<timers, counter, token, cause, committing, ready, running, waiting, pc, left,
                 spawned, result, sync, outcome>>

-----------------------------------------------------------------------------
(* A branch *)

Yield(b) ==
  /\ At(b, "run")
  /\ program.ends[b] # "timer"
  /\ IF program.ends[b] = "stopped" THEN ~stop ELSE left[b] > 0
  /\ left' = [left EXCEPT ![b] = IF @ = 0 THEN 0 ELSE @ - 1]
  /\ Suspend(b, "yield")
  /\ UNCHANGED <<timeVars, committing, ready, pc, spawned, result, sync, outcome>>

\* What the wrapper around the awaited coroutine does once that has ended.
After(end) ==
  CASE Kind = "all" -> IF end = "throw" THEN "caught" ELSE "count"
    [] Kind \in {"any", "anyGroup", "timeout"} -> "arrive"
    [] Kind \in {"await", "bind", "bindVoid"} -> "set"

End(b) ==
  /\ At(b, "run")
  /\ program.ends[b] # "timer"
  /\ IF program.ends[b] = "stopped" THEN stop ELSE left[b] = 0
  /\ LET end == IF program.ends[b] = "throw" THEN "throw" ELSE "value"
     IN result' = [result EXCEPT ![b] = end] /\ Goto(b, After(end))
  /\ UNCHANGED <<timeVars, committing, ready, running, waiting, left, spawned, sync, outcome>>

TimerToken(b) ==
  /\ At(b, "run")
  /\ program.ends[b] = "timer"
  /\ TokenRead(b)
  /\ Goto(b, "post")
  /\ UNCHANGED <<committing, ready, running, waiting, left, spawned, result, sync, outcome>>

TimerPost(b) ==
  /\ At(b, "post")
  /\ TimePost(b, Duration[b])
  /\ Goto(b, "asleep")
  /\ Leaves(b)
  /\ UNCHANGED <<committing, ready, waiting, left, spawned, result, sync, outcome>>

\* The wait of a deadline_timer returns; in a timeout a cancelled wait throws.
TimerEnd(b) ==
  /\ At(b, "asleep")
  /\ IF Kind = "timer"
     THEN /\ result' = [result EXCEPT ![b] = cause[b]]
          /\ Goto(b, "done") /\ Leaves(b)
     ELSE /\ result' = [result EXCEPT ![b] = IF cause[b] = "cancelled" THEN "throw" ELSE "value"]
          /\ Goto(b, "arrive") /\ UNCHANGED running
  /\ UNCHANGED <<timeVars, committing, ready, waiting, left, spawned, sync, outcome>>

\* when_all_wrapper, under the lock of the exceptions.
Caught(b) ==
  /\ At(b, "caught")
  /\ errors' = Append(errors, b)
  /\ Goto(b, "count")
  /\ UNCHANGED <<timeVars, committing, ready, running, waiting, left, spawned, result, latch,
                 flag, arrived, stop, promise, escaped, signal, outcome>>

CountDown(b) ==
  /\ At(b, "count")
  /\ latch' = latch - 1
  /\ Goto(b, "done") /\ Leaves(b)
  /\ UNCHANGED <<timeVars, committing, ready, waiting, left, spawned, result, errors,
                 flag, arrived, stop, promise, escaped, signal, outcome>>

\* Bug: the flag is tested and set in two steps, so two branches can be first.
ArriveAlways(b) ==
  /\ At(b, "arrive")
  /\ flag' = TRUE
  /\ Goto(b, "store") /\ UNCHANGED running
  /\ UNCHANGED <<timeVars, committing, ready, waiting, left, spawned, result, latch, errors,
                 arrived, stop, promise, escaped, signal, outcome>>

\* when_any_wrapper: the first to set the flag stores its result ...
Arrive(b) ==
  /\ At(b, "arrive")
  /\ flag' = TRUE
  /\ IF flag THEN Goto(b, "done") /\ Leaves(b) ELSE Goto(b, "store") /\ UNCHANGED running
  /\ UNCHANGED <<timeVars, committing, ready, waiting, left, spawned, result, latch, errors,
                 arrived, stop, promise, escaped, signal, outcome>>

\* ... and then its place.
Store(b) ==
  /\ At(b, "store")
  /\ arrived' = [by |-> b, threw |-> result[b] = "throw"]
  /\ Goto(b, "done") /\ Leaves(b)
  /\ UNCHANGED <<timeVars, committing, ready, waiting, left, spawned, result, latch, errors,
                 flag, stop, promise, escaped, signal, outcome>>

\* The promise is set; packaged_task keeps an exception, but the wrapper of
\* use_future lets it out of the coroutine, of resume() and of loop().
SetPromise(b) ==
  /\ At(b, "set")
  /\ IF Kind = "await" /\ result[b] = "throw"
     THEN escaped' = TRUE /\ UNCHANGED promise
     ELSE promise' = result[b] /\ UNCHANGED escaped
  /\ Goto(b, "done") /\ Leaves(b)
  /\ UNCHANGED <<timeVars, committing, ready, waiting, left, spawned, result, latch, errors,
                 flag, arrived, stop, signal, outcome>>

-----------------------------------------------------------------------------
(* Main *)

SpawnBranch ==
  /\ At(Main, "spawn")
  /\ spawned < Cardinality(Used)
  /\ spawned' = spawned + 1
  /\ ready' = Append(ready, spawned')
  /\ Goto(spawned', "run")
  /\ UNCHANGED <<timeVars, committing, running, waiting, left, result, sync, outcome>>

\* All are spawned: Main waits at the service of its kind ...
AwaitAt(service, kinds, label) ==
  /\ At(Main, "spawn")
  /\ spawned = Cardinality(Used)
  /\ Kind \in kinds
  /\ Goto(Main, label)
  /\ Suspend(Main, service)
  /\ UNCHANGED <<timeVars, committing, ready, left, spawned, result, sync, outcome>>

AwaitAll == AwaitAt("latch", {"all"}, "awaiting")
AwaitAny == AwaitAt("flag", {"any", "anyGroup", "timeout"}, "awaiting")
AwaitFuture == AwaitAt("future", {"await", "bind", "bindVoid"}, "awaiting")

\* ... or, in a program of timers, goes on to cancel one.
AwaitNothing == AwaitAt("yield", {"timer"}, "cancel")

Return(value) == outcome' = value /\ Goto(Main, "done") /\ Leaves(Main)

\* The vector of exceptions is thrown if there is one, else the results are returned.
ReturnAll ==
  /\ At(Main, "awaiting")
  /\ Kind = "all"
  /\ Return(IF errors # <<>> THEN <<"errors", errors>> ELSE <<"values">>)
  /\ UNCHANGED <<timeVars, committing, ready, waiting, left, spawned, result, sync>>

\* Bug: the request is made on a source without shared state.
RequestStopNot ==
  /\ At(Main, "awaiting")
  /\ Kind \in {"any", "anyGroup", "timeout"}
  /\ Goto(Main, "spin")
  /\ UNCHANGED <<timeVars, committing, ready, running, waiting, left, spawned, result, sync, outcome>>

\* The branches of a group have no token of this source.
RequestStop ==
  /\ At(Main, "awaiting")
  /\ Kind \in {"any", "anyGroup", "timeout"}
  /\ stop' = (Kind # "anyGroup")
  /\ Goto(Main, "spin")
  /\ UNCHANGED <<timeVars, committing, ready, running, waiting, left, spawned, result, latch,
                 errors, flag, arrived, promise, escaped, signal, outcome>>

\* Main keeps its thread until the first branch has stored its place.
ReturnAny ==
  /\ At(Main, "spin")
  /\ arrived # Nobody
  /\ CASE arrived.threw -> Return(<<"error", arrived.by>>)
       [] ~arrived.threw /\ Kind = "timeout" /\ arrived.by = 2 -> Return(<<"nullopt">>)
       [] ~arrived.threw /\ Kind = "timeout" /\ arrived.by = 1 ->
            Goto(Main, "cancel") /\ UNCHANGED <<running, outcome>>
       [] OTHER -> Return(<<"value", arrived.by>>)
  /\ UNCHANGED <<timeVars, committing, ready, waiting, left, spawned, result, sync>>

\* The values a token may have: any, as long as nothing has been stored in it.
TokenValues(b) == IF token[b] = Unset THEN 0..counter ELSE {token[b]}

CancelFrame(id) ==
  \/ Found(id) = {} /\ UNCHANGED <<timeVars, ready>>
  \/ \E e \in Found(id) : TimeCancel(e) /\ ready' = Append(ready, e.frame)

\* Bug: timeout() leaves its timer alone.
TimeoutCancelNot ==
  /\ At(Main, "cancel")
  /\ Kind = "timeout"
  /\ Return(<<"value", 1>>)
  /\ UNCHANGED <<timeVars, committing, ready, waiting, left, spawned, result, sync>>

\* timeout() cancels its timer and returns.
TimeoutCancel ==
  /\ At(Main, "cancel")
  /\ Kind = "timeout"
  /\ \E id \in TokenValues(2) : CancelFrame(id)
  /\ Return(<<"value", 1>>)
  /\ UNCHANGED <<committing, waiting, left, spawned, result, sync>>

\* The program cancels one of its timers that has been started ...
TimerCancel(b) ==
  /\ At(Main, "cancel")
  /\ Kind = "timer"
  /\ token[b] # Unset
  /\ CancelFrame(token[b])
  /\ Return(<<"cancelled", b>>)
  /\ UNCHANGED <<committing, waiting, left, spawned, result, sync>>

\* ... when it likes.
TimerLater ==
  /\ At(Main, "cancel")
  /\ Kind = "timer"
  /\ Suspend(Main, "yield")
  /\ UNCHANGED <<timeVars, committing, ready, pc, left, spawned, result, sync, outcome>>

\* Awaiting a co_spawn or a co_bind; the void form of co_bind does not call
\* get() and loses the exception.
ReturnFuture ==
  /\ At(Main, "awaiting")
  /\ Kind \in {"await", "bind", "bindVoid"}
  /\ Return(IF promise = "throw" /\ Kind = "bind" THEN <<"error", 1>> ELSE <<"value", 1>>)
  /\ UNCHANGED <<timeVars, committing, ready, waiting, left, spawned, result, sync>>

Install ==
  /\ At(Main, "install")
  /\ signal' = [signal EXCEPT !.handler = TRUE]
  /\ Goto(Main, "post")
  /\ UNCHANGED <<timeVars, committing, ready, running, waiting, left, spawned, result, latch,
                 errors, flag, arrived, stop, promise, escaped, outcome>>

SignalWait ==
  /\ At(Main, "post")
  /\ Suspend(Main, "flag")
  /\ Goto(Main, "awaiting")
  /\ UNCHANGED <<timeVars, committing, ready, left, spawned, result, sync, outcome>>

\* The handler runs on any thread, between any two steps.
Raise ==
  /\ signal.handler /\ signal.raised < MaxRaise
  /\ flag' = TRUE
  /\ signal' = [signal EXCEPT !.raised = @ + 1]
  /\ UNCHANGED <<timeVars, committing, ready, running, waiting, pc, left, spawned, result, latch,
                 errors, arrived, stop, promise, escaped, outcome>>

Callback ==
  /\ At(Main, "awaiting")
  /\ Kind = "signal"
  /\ signal' = [signal EXCEPT !.called = @ + 1]
  /\ Goto(Main, "restore")
  /\ UNCHANGED <<timeVars, committing, ready, running, waiting, left, spawned, result, latch,
                 errors, flag, arrived, stop, promise, escaped, outcome>>

Restore ==
  /\ At(Main, "restore")
  /\ signal' = [signal EXCEPT !.handler = FALSE]
  /\ Goto(Main, "clear")
  /\ UNCHANGED <<timeVars, committing, ready, running, waiting, left, spawned, result, latch,
                 errors, flag, arrived, stop, promise, escaped, outcome>>

Clear ==
  /\ At(Main, "clear")
  /\ flag' = FALSE
  /\ Return(<<"called">>)
  /\ UNCHANGED <<timeVars, committing, ready, waiting, left, spawned, result, latch, errors,
                 arrived, stop, promise, escaped, signal>>

-----------------------------------------------------------------------------
BranchStep(b) ==
  \/ Yield(b) \/ End(b)
  \/ TimerToken(b) \/ TimerPost(b) \/ TimerEnd(b)
  \/ Caught(b) \/ CountDown(b) \/ Arrive(b) \/ Store(b) \/ SetPromise(b)

MainStep ==
  \/ SpawnBranch \/ AwaitAll \/ AwaitAny \/ AwaitFuture \/ AwaitNothing
  \/ ReturnAll \/ RequestStop \/ ReturnAny \/ TimeoutCancel
  \/ (\E b \in Used : TimerCancel(b)) \/ TimerLater
  \/ ReturnFuture
  \/ Install \/ SignalWait \/ Callback \/ Restore \/ Clear

Step(c) == IF c = Main THEN MainStep ELSE BranchStep(c)

Commit ==
  PassStart \/ CommitYield \/ CommitFlag \/ CommitLatch \/ CommitFuture \/ CommitTime

\* Once an exception has left loop() nothing runs.
Run(A) == ~escaped /\ A /\ UNCHANGED rigid

Escaped == escaped /\ UNCHANGED vars

Next ==
  \/ Run(Commit) \/ Run(Tick) \/ Run(Raise)
  \/ \E c \in Coroutines : Run(Resume(c)) \/ Run(Step(c))
  \/ Escaped

Spec == Init /\ [][Next]_vars

(***************************************************************************)
(* The loop thread goes round, time passes, a coroutine that has a thread  *)
(* runs, and one that the executor holds gets a thread although others     *)
(* compete for it (the queues are FIFO, ExecutionContext).  Nothing makes  *)
(* a program cancel its timers or a signal be raised.                      *)
(***************************************************************************)
Fairness ==
  /\ WF_vars(Run(Commit)) /\ WF_vars(Run(Tick))
  /\ \A c \in Coroutines : WF_vars(Run(Step(c))) /\ SF_vars(Run(Resume(c)))

FairSpec == Spec /\ Fairness

-----------------------------------------------------------------------------
Ended(c) == pc[c] = "done"

\* when_all: what it returns or throws accounts for every branch.  It goes on only
\* after all have ended; it throws the exceptions of exactly those that threw,
\* each once, and returns only if none did (when_all.hpp:33-38, 54-57).
AllOrErrors ==
  Kind = "all" /\ Ended(Main) =>
    LET threw == {b \in Used : program.ends[b] = "throw"}
    IN /\ \A b \in Used : result[b] # None
       /\ IF threw = {} THEN outcome = <<"values">>
          ELSE /\ outcome[1] = "errors" /\ ToSet(outcome[2]) = threw
               /\ Len(outcome[2]) = Cardinality(threw)

\* when_any, timeout and the futures: the outcome is that of one branch that has
\* ended, as a value if it returned and as an exception if it threw, whatever the
\* others do meanwhile; only one branch ever stores a result (when_any.hpp:41-47,
\* 72-77).  A timeout says nullopt only after its time has passed.  An exception
\* is lost only by co_bind to a void function, and leaves loop() only out of
\* co_spawn with a future.
FirstOrError ==
  /\ Cardinality({b \in Used : pc[b] = "store"} \cup
                 IF arrived = Nobody THEN {} ELSE {arrived.by}) <= 1
  /\ outcome[1] = "value" => result[outcome[2]] = "value" \/ Kind = "bindVoid"
  /\ outcome[1] = "error" => result[outcome[2]] = "throw"
  /\ outcome[1] = "nullopt" => cause[2] = "expired" /\ now > Duration[2]
  /\ escaped => Kind = "await" /\ result[1] = "throw"

\* Where a handle of c is.
Handles(c) ==
  LET In(s) == Cardinality({i \in DOMAIN s : s[i] = c})
  IN In(ready)
     + In(waiting["yield"]) + In(waiting["flag"]) + In(waiting["latch"]) + In(waiting["future"])
     + Cardinality({e \in timers : e.frame = c /\ e.token # Cancelled})

\* A coroutine that has been spawned and has not ended runs or has one handle,
\* so a timer is fired or cancelled, not both, and never twice (time_service.hpp:
\* 113-121, 134-147).
FiredOrCancelled ==
  \A c \in Coroutines :
    Handles(c) + (IF c \in running THEN 1 ELSE 0) = IF Ended(c) \/ pc[c] = "unborn" THEN 0 ELSE 1

\* On the loop thread a cancellation reaches the timer it was meant for and no
\* other, although a token is read before the entry is numbered and a timeout
\* keeps it in a local variable; and a timeout that returns a value leaves no
\* timer behind that would keep loop() waiting (time_service.hpp:89-94,
\* functional.hpp:123-131).  With workers two timers may get the same token.
CancelsItsOwn ==
  concurrency = 0 =>
    /\ \A b \in Used : cause[b] = "cancelled" =>
         (Kind = "timeout" /\ b = 2) \/ outcome = <<"cancelled", b>>
    /\ Kind = "timeout" /\ outcome[1] = "value" => \A e \in timers : e.token = Cancelled

\* Everything ends: the combinator returns, the branches that were not the first
\* end as well, those that only a stop request ends included, and every timer
\* fires; unless an exception has left loop().  A registered signal that is raised
\* is answered.
EverythingEnds ==
  /\ Kind # "signal" =>
       <>(escaped \/ \A c \in Used \cup (IF Kind = "timer" THEN {} ELSE {Main}) : Ended(c))
  /\ signal.raised > 0 ~> signal.called > 0
=============================================================================
