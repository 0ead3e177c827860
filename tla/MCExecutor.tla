----------------------------- MODULE MCExecutor -----------------------------
(***************************************************************************)
(* The executor for TLC: the deque of a worker and, over the atomic deque  *)
(* it implements, the context with its threads.  `subject` says which of   *)
(* the two runs; the variables of the other stand still.                   *)
(*                                                                         *)
(* An initial capacity of 2 (1024 in the code) makes the ring of the deque *)
(* grow on the third outstanding push, while the thieves may still hold    *)
(* the ring it replaces.                                                   *)
(***************************************************************************)
EXTENDS WorkStealing, MCExecutionContext

VARIABLE subject  \* deque or context; never changes

executorVars == <<subject, stealingVars, vars>>

MCInit ==
  /\ subject \in {"deque", "context"}
  /\ program \in IF subject = "context" THEN Programs ELSE {MCLoop}
  /\ StealingInit /\ Init

MCNext ==
  /\ UNCHANGED subject
  /\ \/ subject = "deque" /\ StealingNext /\ UNCHANGED vars
     \/ subject = "context" /\ Next /\ UNCHANGED stealingVars

MCSpec == MCInit /\ [][MCNext]_executorVars

Runs(part) == subject = part

\* StealingFairness and Fairness, each where its part runs.
MCFairSpec ==
  /\ MCSpec
  /\ WF_stealingVars(Runs("deque") /\ OwnerStep)
  /\ \A t \in Thieves : WF_stealingVars(Runs("deque") /\ Steal(t))
  /\ WF_vars(Runs("context") /\ Keep(\E g \in Groups : ProgramSpawn(g)))
  /\ WF_vars(Runs("context") /\ Keep(Launch)) /\ WF_vars(Runs("context") /\ Keep(MainStep))
  /\ \A w \in AllWorkers : WF_vars(Runs("context") /\ Keep(w \in Workers /\ WorkerStep(w)))
  /\ \A t \in AllWorkers \cup {Main} : WF_vars(Runs("context") /\ Keep(t \in Threads /\ ResumeStep(t)))

-----------------------------------------------------------------------------
\* Where the context runs, loop() returns in the end (execution_context.hpp:37-57).
EveryLoopEnds == subject = "context" => LoopEnds
=============================================================================
