------------------------------- MODULE MCRpc --------------------------------
(***************************************************************************)
(* Rpc for TLC: two clients of a server, which call its services at most   *)
(* twice; the programs differ in what disturbs the calls.                  *)
(***************************************************************************)
EXTENDS Rpc

Calls(n, unknown) ==
  [calls |-> n, unknown |-> unknown, shared |-> FALSE, closed |-> FALSE, refused |-> FALSE]

MCPrograms ==
  {Calls(2, {}), Calls(1, {1}),
   [Calls(2, {}) EXCEPT !.shared = TRUE], [Calls(1, {}) EXCEPT !.closed = TRUE],
   [Calls(1, {}) EXCEPT !.refused = TRUE]}
MCSockets == 0..4

\* Nothing disturbs the calls, or a coroutine closes the socket of a session.
MCOrdinary == {Calls(2, {})}
MCClosed == {[Calls(1, {}) EXCEPT !.closed = TRUE]}
=============================================================================
