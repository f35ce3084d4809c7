--------------------------- MODULE MCNpcLifecycle ---------------------------
(***************************************************************************)
(* NpcLifecycle on small instances.  Workers are interchangeable, and so   *)
(* are players: no action or invariant tells one from another.             *)
(***************************************************************************)
EXTENDS NpcLifecycle, TLC

Symmetry == Permutations(Workers) \cup Permutations(Players)
=============================================================================
