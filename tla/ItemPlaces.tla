------------------------------ MODULE ItemPlaces ------------------------------
(***************************************************************************)
(* What generators and frames do is given by lists of items, one list for  *)
(* each of them, the first one for the root.  Items name later lists.      *)
(***************************************************************************)
EXTENDS Naturals, Sequences, FiniteSets

\* The items of the lists, and their ends.
Places(lists) == UNION {{<<g, i>> : i \in 1..(Len(lists[g]) + 1)} : g \in DOMAIN lists}
=============================================================================
