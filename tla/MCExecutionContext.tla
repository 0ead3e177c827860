------------------------- MODULE MCExecutionContext -------------------------
(***************************************************************************)
(* Programs for ExecutionContext: without workers, where coroutines yield  *)
(* and spawn; with two workers, where they yield; and with two workers     *)
(* whose coroutines spawn.                                                 *)
(***************************************************************************)
EXTENDS ExecutionContext

CONSTANTS g1, g2, g3, g4

MCLoop == [concurrency |-> 0, initial |-> {g1, g2}, spawned |-> {g3, g4}, maxYield |-> 2]
MCPool == [concurrency |-> 2, initial |-> {g1, g2}, spawned |-> {}, maxYield |-> 1]
MCPrograms == {MCLoop, MCPool}
MCSpawning ==
  {[concurrency |-> 2, initial |-> {g1, g2}, spawned |-> {g3, g4}, maxYield |-> 0]}
=============================================================================
