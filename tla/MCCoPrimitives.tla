--------------------------- MODULE MCCoPrimitives ---------------------------
(***************************************************************************)
(* CoPrimitives for TLC: one releaser for one permit, one for two.         *)
(***************************************************************************)
EXTENDS CoPrimitives

CONSTANTS r1, r2

MCUpdate == [r \in {r1, r2} |-> IF r = r1 THEN 1 ELSE 2]
MCCoroutines == Acquirers \cup Triers \cup {r1, r2} \cup LatchUsers
=============================================================================
