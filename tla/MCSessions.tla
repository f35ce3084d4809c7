----------------------------- MODULE MCSessions -----------------------------
(***************************************************************************)
(* Sessions on small instances.  Workers are interchangeable, and so are   *)
(* clients.                                                                *)
(***************************************************************************)
EXTENDS Sessions, TLC

Symmetry == Permutations(Workers) \cup Permutations(Clients)
                \cup Permutations(Accounts \ Gm)
NotCrossed == ~crossed
=============================================================================
