------------------------------- MODULE Sectors -------------------------------
(***************************************************************************)
(* The plane the game is played on and its grid of sectors: positions, the *)
(* sight of an object, the step of a move packet, and the operations of    *)
(* SectorManager on one instance of its grid (a function from sectors to   *)
(* the ids they hold).                                                     *)
(***************************************************************************)
EXTENDS Integers, FiniteSets

CONSTANTS Width, Height,              \* WORLD_WIDTH, WORLD_HEIGHT
          SectorWidth, SectorHeight,  \* SECTOR_WIDTH, SECTOR_HEIGHT
          Range                       \* RANGE, how far an object sees

(* Protocol.h divides the world into whole sectors, and a sector is at     *)
(* least as large as the sight (20 and 10).                                *)
ASSUME GridAssumption ==
    /\ Width \in Nat /\ Height \in Nat
    /\ SectorWidth \in Nat \ {0} /\ SectorHeight \in Nat \ {0} /\ Range \in Nat
    /\ Range <= SectorWidth /\ Range <= SectorHeight
    /\ \E k \in 1..Width : Width = k * SectorWidth
    /\ \E k \in 1..Height : Height = k * SectorHeight

Positions == [x : 0..Width - 1, y : 0..Height - 1]
Rows == 0..(Height \div SectorHeight) - 1
Columns == 0..(Width \div SectorWidth) - 1
SectorIndexes == Rows \X Columns

Distance(a, b) == IF a - b < 0 THEN b - a ELSE a - b

IsNear(a, b) == Distance(a.x, b.x) <= Range /\ Distance(a.y, b.y) <= Range

(* Mutant: the border is tested one position too far.                      *)
MovePositionOverBorder(at, direction) ==
    CASE direction = 0 -> [at EXCEPT !.y = IF @ > 0 THEN @ - 1 ELSE @]
      [] direction = 1 -> [at EXCEPT !.y = IF @ < Height THEN @ + 1 ELSE @]
      [] direction = 2 -> [at EXCEPT !.x = IF @ > 0 THEN @ - 1 ELSE @]
      [] direction = 3 -> [at EXCEPT !.x = IF @ < Width THEN @ + 1 ELSE @]
      [] OTHER -> at

(* One step of a move packet; at the border the object stays.              *)
MovePosition(at, direction) ==
    CASE direction = 0 -> [at EXCEPT !.y = IF @ > 0 THEN @ - 1 ELSE @]
      [] direction = 1 -> [at EXCEPT !.y = IF @ < Height - 1 THEN @ + 1 ELSE @]
      [] direction = 2 -> [at EXCEPT !.x = IF @ > 0 THEN @ - 1 ELSE @]
      [] direction = 3 -> [at EXCEPT !.x = IF @ < Width - 1 THEN @ + 1 ELSE @]
      [] OTHER -> at

(* The direction in which a chasing NPC steps; on its target it stays.     *)
GetDirectionToTarget(me, target) ==
    LET dx == Distance(target.x, me.x)
        dy == Distance(target.y, me.y)
    IN  IF dx = 0 /\ dy = 0 THEN -1
        ELSE IF dx < dy THEN IF target.y < me.y THEN 0 ELSE 1
        ELSE IF target.x < me.x THEN 2 ELSE 3

GetSectorIndex(at) == <<at.y \div SectorHeight, at.x \div SectorWidth>>

(* Mutant: only the sector that holds the position is searched.            *)
OwnSectorOnly(at) == {GetSectorIndex(at)}

(* The sectors that a handler searches around a position: its own, and     *)
(* every neighbour that the sight reaches without leaving the world.       *)
GetNearSectorIndexes(at) ==
    LET cur == GetSectorIndex(at)
        row == cur[1]
        col == cur[2]
        top == at.y - Range >= 0 /\ at.y - Range < SectorHeight * row
        bottom == /\ at.y + Range < Height
                  /\ at.y + Range > SectorHeight * row + SectorHeight - 1
        left == at.x - Range >= 0 /\ at.x - Range < SectorWidth * col
        right == /\ at.x + Range < Width
                 /\ at.x + Range > SectorWidth * col + SectorWidth - 1
        rows == {row} \cup (IF top THEN {row - 1} ELSE {})
                      \cup (IF bottom THEN {row + 1} ELSE {})
        cols == {col} \cup (IF left THEN {col - 1} ELSE {})
                      \cup (IF right THEN {col + 1} ELSE {})
    IN  rows \X cols

WithID(grid, id, at) == [grid EXCEPT ![GetSectorIndex(at)] = @ \cup {id}]

(* Mutant: an object is taken out of its old sector and listed in no new   *)
(* one.                                                                    *)
MovedOutOnly(grid, id, from, to) ==
    [s \in SectorIndexes |-> IF s = GetSectorIndex(from) /\ from # to
                             THEN grid[s] \ {id} ELSE grid[s]]

(* MoveID: out of the sector of the old position, into that of the new;    *)
(* an object that did not move is left where it is listed.                 *)
MovedID(grid, id, from, to) ==
    IF from = to THEN grid
    ELSE [s \in SectorIndexes |->
            LET kept == IF s = GetSectorIndex(from) THEN grid[s] \ {id}
                                                    ELSE grid[s]
            IN  IF s = GetSectorIndex(to) THEN kept \cup {id} ELSE kept]
=============================================================================
