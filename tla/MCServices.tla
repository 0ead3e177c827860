----------------------------- MODULE MCServices -----------------------------
(***************************************************************************)
(* The services for TLC: their registry and locks, with two posters of one *)
(* service or of two, and the combinators, whose coroutines wait in them:  *)
(* three branches at most, of which each may yield once.  `subject` says   *)
(* which of the two runs; the variables of the other stand still.          *)
(***************************************************************************)
EXTENDS Services, Combinators

CONSTANTS p1, p2

VARIABLE subject  \* services or combinators; never changes

-----------------------------------------------------------------------------
(* Services *)

MCPosters == {p1, p2}
MCThreads == MCPosters \cup {Loop}
MCTypes == {"flag", "latch"}

-----------------------------------------------------------------------------
(* Combinators *)

MCCoroutines == 0..3
MCDuration == [b \in 1..3 |-> IF b = 2 THEN 1 ELSE 0]

Program(kind, ends, yields) == [kind |-> kind, ends |-> ends, yields |-> yields]

Ends == {"value", "throw"}

MCSignal == Program("signal", <<>>, <<>>)

MCPrograms ==
  {Program("all", <<a, "throw", b>>, <<0, 1, 0>>) : a, b \in Ends}
  \cup {Program("all", <<"value", "value">>, <<0, 1>>)}
  \cup {Program("any", <<a, b>>, <<1, 0>>) : a, b \in Ends}
  \cup {Program("anyGroup", <<a, b>>, <<0, 0>>) : a, b \in Ends}
  \cup {Program("any", <<"stopped", a>>, <<0, 1>>) : a \in Ends}
  \cup {Program("timeout", <<a, "timer">>, <<y, 0>>) : a \in Ends, y \in 0..1}
  \cup {Program("timer", <<"timer", "timer">>, <<0, 0>>)}
  \cup {Program(kind, <<a>>, <<1>>) : kind \in {"await", "bind", "bindVoid"}, a \in Ends}
  \cup {MCSignal}

-----------------------------------------------------------------------------
MCInit ==
  /\ subject \in {"services", "combinators"}
  /\ program \in IF subject = "combinators" THEN Programs ELSE {MCSignal}
  /\ ServicesInit /\ Init
  /\ subject = "services" => concurrency = 0 /\ order = <<"yield", "flag">>
  /\ subject = "combinators" => type[p1] = "flag" /\ type[p2] = "latch"

MCNext ==
  /\ UNCHANGED subject
  /\ \/ subject = "services" /\ ServicesNext /\ UNCHANGED vars
     \/ subject = "combinators" /\ Next /\ UNCHANGED servicesVars

MCSpec == MCInit /\ [][MCNext]_<<subject, servicesVars, vars>>

\* The fairness of the part that runs.
MCFairSpec ==
  /\ MCSpec
  /\ \/ subject = "services" /\ ServicesFairness
     \/ subject = "combinators" /\ Fairness

-----------------------------------------------------------------------------
\* Where the services run, every frame that is posted reaches the executor
\* (flag_service.hpp:56-81).
EveryPostArrives == subject = "services" => EveryFramePushed
=============================================================================
