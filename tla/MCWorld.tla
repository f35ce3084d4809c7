------------------------------- MODULE MCWorld -------------------------------
(***************************************************************************)
(* World on a plane of two sectors in a row; the accounts start in the     *)
(* first, at the border, and the NPC in the second.  A handler is named by *)
(* its object and a number, so that numbers 1 and 2 let two workers handle *)
(* one object.                                                             *)
(***************************************************************************)
EXTENDS World, TLC

Symmetry == Permutations(Players)
TwoEach == (Players \cup Npcs) \X {1, 2}
MCObject == [h \in Handlers |-> h[1]]
MCSpawns == {[x |-> 1, y |-> 0]}
MCHomes == {[x |-> 2, y |-> 0]}

(* What one player and the NPC can do to each other is explored with two   *)
(* handlers of one object, the NPC's in the player's first session or the  *)
(* player's; what two players can do, with one handler of each object, and *)
(* with the NPC moving while both are still.                               *)
Explored ==
    /\ strays # {} => Cardinality(used) <= 1
    /\ revivals > 0 => sessions <= 1
    /\ strays \cap Players # {} => Busy \subseteq PlayerHandlers
    /\ Cardinality(used) = 2 /\ Busy \cap NpcHandlers # {} => Cardinality(Busy) = 1
=============================================================================
