----------------------------- MODULE WorldProofs -----------------------------
(***************************************************************************)
(* For every size of the world and every number of players, NPCs and       *)
(* workers: the sectors a handler searches contain everything in its       *)
(* sight, every object in play is listed in the sector it stands in, a     *)
(* client displays what its view list says, a move that runs alone leaves  *)
(* the lists of the player right whatever they were, and handlers that     *)
(* run one after the other keep all lists right.                           *)
(*                                                                         *)
(* GridInv is about the grid, RestTypes about the other types, ToldInv     *)
(* about what clients display, HandlerInv about a handler that runs alone, *)
(* SeqInv about handlers of which no two have overlapped.                  *)
(***************************************************************************)
EXTENDS World, TLAPS

-----------------------------------------------------------------------------
(* The grid.  Division by the size of a sector is bounded once, here.      *)

LEMMA DivFacts ==
    ASSUME NEW S \in Nat \ {0}, NEW p \in Nat
    PROVE  /\ p \div S \in Nat
           /\ S * (p \div S) <= p /\ p < S * (p \div S) + S
  OBVIOUS

LEMMA DivBound ==
    ASSUME NEW S \in Nat \ {0}, NEW k \in Nat, NEW W, W = k * S, NEW p \in 0..W - 1
    PROVE  W \div S = k /\ p \div S \in 0..k - 1
  OBVIOUS

(* Products of a sector size grow with the index: what a non-linear step   *)
(* of the cover argument needs.                                            *)
LEMMA ProductFacts ==
    ASSUME NEW S \in Nat \ {0}, NEW i \in Nat, NEW j \in Nat
    PROVE  /\ i + 1 < j => S * i + S + S <= S * j
           /\ i < j => S * i + S <= S * j
  <1>1. ASSUME i + 1 < j PROVE S * i + S + S <= S * j
    <2>1. PICK d \in Nat : j = i + 2 + d
      <3>1. j - i - 2 \in Nat /\ j = i + 2 + (j - i - 2)
        BY <1>1
      <3> QED
        BY <3>1
    <2>2. S * j = S * i + S + S + S * d /\ S * d \in Nat
      BY <2>1
    <2> QED
      BY <2>2
  <1>2. ASSUME i < j PROVE S * i + S <= S * j
    <2>1. PICK d \in Nat : j = i + 1 + d
      <3>1. j - i - 1 \in Nat /\ j = i + 1 + (j - i - 1)
        BY <1>2
      <3> QED
        BY <3>1
    <2>2. S * j = S * i + S + S * d /\ S * d \in Nat
      BY <2>1
    <2> QED
      BY <2>2
  <1> QED
    BY <1>1, <1>2

(* Along one axis: what is in sight of a is in the sector of a, or in the  *)
(* neighbour that GetNearSectorIndexes adds for that side.                 *)
OnAxis(S, R, W, a, b) ==
    /\ S \in Nat \ {0} /\ R \in Nat /\ R <= S
    /\ W \in Nat /\ \E k \in Nat : W = k * S
    /\ a \in 0..W - 1 /\ b \in 0..W - 1 /\ Distance(a, b) <= R
Covered(S, R, W, a, b) ==
    \/ b \div S = a \div S
    \/ b \div S = a \div S - 1 /\ a - R >= 0 /\ a - R < S * (a \div S)
    \/ /\ b \div S = a \div S + 1 /\ a + R < W
       /\ a + R > S * (a \div S) + S - 1

LEMMA AxisCovered ==
    ASSUME NEW S, NEW R, NEW W, NEW a, NEW b, OnAxis(S, R, W, a, b)
    PROVE  Covered(S, R, W, a, b)
  <1>0. /\ S \in Nat \ {0} /\ R \in Nat /\ R <= S /\ W \in Nat
        /\ a \in 0..W - 1 /\ b \in 0..W - 1 /\ Distance(a, b) <= R
    BY DEF OnAxis
  <1>a. PICK k \in Nat : W = k * S
    BY DEF OnAxis
  <1> DEFINE i == a \div S
             j == b \div S
  <1>1. i \in Nat /\ S * i <= a /\ a < S * i + S
    BY <1>0, DivFacts
  <1>2. j \in Nat /\ S * j <= b /\ b < S * j + S
    BY <1>0, DivFacts
  <1>3. b - a <= R /\ a - b <= R
    BY <1>0 DEF Distance
  <1>4. S * i \in Nat /\ S * j \in Nat
    BY <1>0, <1>1, <1>2
  <1>5. i \in 0..k - 1 /\ j \in 0..k - 1
    BY <1>0, <1>a, DivBound
  <1> HIDE DEF i, j
  <1>6. ~(i + 1 < j)
    BY <1>0, <1>1, <1>2, <1>3, <1>4, ProductFacts
  <1>7. ~(j + 1 < i)
    BY <1>0, <1>1, <1>2, <1>3, <1>4, ProductFacts
  <1>8. j = i \/ j = i + 1 \/ j = i - 1
    BY <1>1, <1>2, <1>6, <1>7
  <1>9. ASSUME j = i + 1 PROVE a + R > S * i + S - 1 /\ a + R < W
    <2>1. a + R > S * i + S - 1
      BY <1>0, <1>1, <1>2, <1>3, <1>4, <1>9, ProductFacts
    <2>2. i + 1 < k /\ S * k = W
      BY <1>0, <1>a, <1>5, <1>9
    <2>3. S * i + S + S <= S * k
      BY <1>0, <2>2, <1>1, ProductFacts
    <2>4. a + R < W
      BY <1>0, <2>2, <2>3, <1>1, <1>4
    <2> QED
      BY <2>1, <2>4
  <1>10. ASSUME j = i - 1 PROVE a - R < S * i /\ a - R >= 0
    <2>1. a - R < S * i
      BY <1>0, <1>1, <1>2, <1>3, <1>4, <1>10, ProductFacts
    <2>2. 0 < i
      BY <1>1, <1>2, <1>10
    <2>3. S * 0 = 0 /\ S * 0 + S <= S * i
      BY <1>0, <2>2, <1>1, ProductFacts
    <2>4. a - R >= 0
      BY <1>0, <2>3, <1>1, <1>4
    <2> QED
      BY <2>1, <2>4
  <1> QED
    BY <1>8, <1>9, <1>10 DEF i, j, Covered

(* What the proofs need of the grid.                                       *)
LEMMA GridFacts ==
    /\ Width \in Nat /\ Height \in Nat /\ Range \in Nat
    /\ SectorWidth \in Nat \ {0} /\ SectorHeight \in Nat \ {0}
    /\ Range <= SectorWidth /\ Range <= SectorHeight
    /\ \E k \in Nat : Width = k * SectorWidth
    /\ \E k \in Nat : Height = k * SectorHeight
  BY GridAssumption

(* A position lies in a sector of the grid.                                *)
LEMMA SectorOfPosition ==
    ASSUME NEW at \in Positions
    PROVE  GetSectorIndex(at) \in SectorIndexes
  <1>1. PICK kx \in Nat : Width = kx * SectorWidth
    BY GridFacts
  <1>2. PICK ky \in Nat : Height = ky * SectorHeight
    BY GridFacts
  <1>3. at.x \in 0..Width - 1 /\ at.y \in 0..Height - 1
    BY DEF Positions
  <1>4. Width \div SectorWidth = kx /\ at.x \div SectorWidth \in 0..kx - 1
    BY <1>1, <1>3, DivBound, GridFacts
  <1>5. Height \div SectorHeight = ky /\ at.y \div SectorHeight \in 0..ky - 1
    BY <1>2, <1>3, DivBound, GridFacts
  <1> QED
    BY <1>4, <1>5 DEF GetSectorIndex, SectorIndexes, Rows, Columns

(* GetNearSectorIndexes: whatever is in sight of a position is in one of   *)
(* the sectors searched around it, also at the borders of the world, where *)
(* the search leaves neighbours out.                                       *)
THEOREM NearSectorsCoverSight ==
    ASSUME NEW a \in Positions, NEW b \in Positions, IsNear(a, b)
    PROVE  GetSectorIndex(b) \in GetNearSectorIndexes(a)
  <1>1. PICK kx \in Nat : Width = kx * SectorWidth
    BY GridFacts
  <1>2. PICK ky \in Nat : Height = ky * SectorHeight
    BY GridFacts
  <1>3. /\ a.x \in 0..Width - 1 /\ b.x \in 0..Width - 1
        /\ a.y \in 0..Height - 1 /\ b.y \in 0..Height - 1
    BY DEF Positions
  <1>4. Distance(a.x, b.x) <= Range /\ Distance(a.y, b.y) <= Range
    BY DEF IsNear
  <1>0. /\ SectorWidth \in Nat \ {0} /\ SectorHeight \in Nat \ {0}
        /\ Width \in Nat /\ Height \in Nat /\ Range \in Nat
        /\ Range <= SectorWidth /\ Range <= SectorHeight
    BY GridFacts
  <1> DEFINE col == a.x \div SectorWidth
             row == a.y \div SectorHeight
             c == b.x \div SectorWidth
             r == b.y \div SectorHeight
  <1>5. \/ c = col
        \/ c = col - 1 /\ a.x - Range >= 0 /\ a.x - Range < SectorWidth * col
        \/ /\ c = col + 1 /\ a.x + Range < Width
           /\ a.x + Range > SectorWidth * col + SectorWidth - 1
    <2>1. OnAxis(SectorWidth, Range, Width, a.x, b.x)
      BY <1>1, <1>3, <1>4, <1>0 DEF OnAxis
    <2> QED
      BY <2>1, AxisCovered DEF Covered
  <1>6. \/ r = row
        \/ r = row - 1 /\ a.y - Range >= 0 /\ a.y - Range < SectorHeight * row
        \/ /\ r = row + 1 /\ a.y + Range < Height
           /\ a.y + Range > SectorHeight * row + SectorHeight - 1
    <2>1. OnAxis(SectorHeight, Range, Height, a.y, b.y)
      BY <1>2, <1>3, <1>4, <1>0 DEF OnAxis
    <2> QED
      BY <2>1, AxisCovered DEF Covered
  <1>7. GetSectorIndex(a) = <<row, col>> /\ GetSectorIndex(b) = <<r, c>>
    BY DEF GetSectorIndex
  <1>8. GetSectorIndex(a)[1] = row /\ GetSectorIndex(a)[2] = col
    BY <1>7
  <1> HIDE DEF row, col, r, c
  <1> QED
    BY <1>5, <1>6, <1>7, <1>8 DEF GetNearSectorIndexes

(* A step of a move packet stays in the world.                             *)
LEMMA MoveStays ==
    ASSUME NEW at \in Positions, NEW d
    PROVE  MovePosition(at, d) \in Positions
  <1>1. /\ at.x \in 0..Width - 1 /\ at.y \in 0..Height - 1
        /\ at = [x |-> at.x, y |-> at.y] /\ Width \in Nat /\ Height \in Nat
    BY GridFacts DEF Positions
  <1>2. CASE d = 0 \/ d = 1
    BY <1>1, <1>2 DEF MovePosition, Positions
  <1>3. CASE d = 2 \/ d = 3
    BY <1>1, <1>3 DEF MovePosition, Positions
  <1>4. CASE d \notin {0, 1, 2, 3}
    BY <1>4 DEF MovePosition
  <1> QED
    BY <1>2, <1>3, <1>4

-----------------------------------------------------------------------------
(* The sector every object stands in.  The invariant says also where an    *)
(* object is listed while it is being moved, and that a login enters the   *)
(* game only when it is listed.                                            *)
-----------------------------------------------------------------------------
(* The sector every object stands in.  For an object that is no stray the  *)
(* invariant says that one handler at most treats it, and where it is      *)
(* listed and what that handler knows while it is being moved.             *)

GridTypes ==
    /\ pos \in [Ids -> Positions]
    /\ state \in [Ids -> {"FREE", "ACCEPT", "INGAME", "SLEEP"}]
    /\ grid \in [SectorIndexes -> SUBSET Ids]
    /\ pc \in [Handlers -> Pcs]
    /\ prev \in [Handlers -> Positions \cup {None}]
    /\ next \in [Handlers -> Positions \cup {None}]
    /\ strays \subseteq Ids
InHand(h) == pc[h] \in {"teleport", "moveid", "relist"}
Knows(h) ==
    /\ pc[h] = "old" \/ InHand(h) => prev[h] \in Positions
    /\ pc[h] = "relist" => next[h] \in Positions
NpcsInPlay == \A n \in Npcs : InPlay(n)

ListedAt(i, at) == i \in grid[GetSectorIndex(at)]
HandlerGrid(h) ==
    LET i == Object[h]
    IN  /\ InHand(h) => ListedAt(i, prev[h])
        /\ pc[h] = "relist" => next[h] = pos[i]
        /\ pc[h] = "enter" => ListedAt(i, pos[i])
        /\ pc[h] = "old" => prev[h] = pos[i]
GridOf(i) ==
    /\ \A g, h \in Busy : Object[g] = i /\ Object[h] = i => g = h
    /\ InPlay(i) /\ ~Moving(i) => ListedAt(i, pos[i])
    /\ \A h \in Handlers : Object[h] = i => HandlerGrid(h)

GridInv ==
    /\ GridTypes /\ NpcsInPlay
    /\ \A h \in Handlers : Knows(h)
    /\ \A i \in Ids \ strays : GridOf(i)

LEMMA IdFacts ==
    /\ Players \subseteq Ids /\ Npcs \subseteq Ids
    /\ \A p \in Players : p \notin Npcs
    /\ \A h \in Handlers : Object[h] \in Ids
    /\ \A h \in PlayerHandlers : h \in Handlers /\ Object[h] \in Players
    /\ \A h \in NpcHandlers : h \in Handlers /\ Object[h] \in Npcs
    /\ \A h \in Handlers : h \in PlayerHandlers \/ h \in NpcHandlers
    /\ \A h \in PlayerHandlers : h \notin NpcHandlers
    /\ \A i \in Ids : i # None
  <1>1. \A h \in Handlers : Object[h] \in Ids
    BY WorldAssumption DEF Ids
  <1> QED
    BY <1>1, WorldAssumption DEF Ids, PlayerHandlers, NpcHandlers

\* What a step leaves alone of an object, its handlers and its listing.
KeepsGridOf(j) ==
    /\ pos'[j] = pos[j]
    /\ j \in strays => j \in strays'
    /\ InPlay(j)' => InPlay(j)
    /\ \A s \in SectorIndexes : j \in grid[s] => j \in grid'[s]
    /\ \A h \in Handlers : Object[h] = j =>
           pc'[h] = pc[h] /\ prev'[h] = prev[h] /\ next'[h] = next[h]

LEMMA OthersKeepGrid ==
    ASSUME GridInv, NEW j \in Ids, KeepsGridOf(j), j \notin strays'
    PROVE  GridOf(j)'
  <1>1. GridOf(j) /\ pos[j] \in Positions /\ \A h \in Handlers : Knows(h)
    BY DEF GridInv, GridTypes, KeepsGridOf
  <1>2. \A h \in Handlers : Object[h] = j =>
            /\ pc'[h] = pc[h] /\ prev'[h] = prev[h] /\ next'[h] = next[h]
            /\ h \in Busy' <=> h \in Busy
            /\ InHand(h)' <=> InHand(h)
    BY DEF KeepsGridOf, Busy, InHand
  <1>3. Moving(j)' <=> Moving(j)
    BY <1>2 DEF Moving
  <1>4. \A at \in Positions : ListedAt(j, at) => ListedAt(j, at)'
    BY SectorOfPosition DEF ListedAt, KeepsGridOf
  <1>5. \A h \in Handlers : Object[h] = j => HandlerGrid(h)'
    <2> SUFFICES ASSUME NEW h \in Handlers, Object[h] = j PROVE HandlerGrid(h)'
      OBVIOUS
    <2>1. HandlerGrid(h) /\ Knows(h)
      BY <1>1 DEF GridOf
    <2> QED
      BY <1>1, <1>2, <1>4, <2>1 DEF HandlerGrid, Knows, KeepsGridOf
  <1>6. \A g, h \in Busy' : Object[g] = j /\ Object[h] = j => g = h
    BY <1>1, <1>2 DEF GridOf, Busy
  <1>7. InPlay(j)' /\ ~Moving(j)' => ListedAt(j, pos[j])'
    BY <1>1, <1>3, <1>4 DEF GridOf, KeepsGridOf
  <1> QED
    BY <1>5, <1>6, <1>7 DEF GridOf

(* The steps of no handler, and those that leave their handler where it is.*)
LEMMA ReadsKeepGrid ==
    ASSUME GridInv, UNCHANGED <<pos, grid, pc, prev, next>>,
           strays' \subseteq Ids, strays \subseteq strays',
           state' \in [Ids -> {"FREE", "ACCEPT", "INGAME", "SLEEP"}],
           \A j \in Ids : InPlay(j)' => InPlay(j), NpcsInPlay'
    PROVE  GridInv'
  <1>1. GridTypes' /\ \A h \in Handlers : Knows(h)'
    BY DEF GridInv, GridTypes, Knows, InHand
  <1>2. \A j \in Ids : KeepsGridOf(j)
    BY DEF KeepsGridOf
  <1> QED
    BY <1>1, <1>2, OthersKeepGrid DEF GridInv

LEMMA OnlyHandler ==
    ASSUME NEW h \in Handlers,
           \/ Others(h) = {}
           \/ pc[h] # "idle" /\ GridOf(Object[h])
    PROVE  \A g \in Handlers \ {h} : Object[g] = Object[h] => pc[g] = "idle"
  BY DEF Others, Busy, GridOf

(* What a step of the handler h has to keep.                               *)
LEMMA HandlerKeepsGrid ==
    ASSUME GridInv, NEW h \in Handlers, NEW i, i = Object[h],
           GridTypes', NpcsInPlay', Knows(h)', strays \subseteq strays' \cup {i},
           \A j \in Ids \ {i} : /\ pos'[j] = pos[j]
                                /\ InPlay(j)' => InPlay(j)
                                /\ \A s \in SectorIndexes : j \in grid[s] => j \in grid'[s],
           \A g \in Handlers \ {h} :
               pc'[g] = pc[g] /\ prev'[g] = prev[g] /\ next'[g] = next[g],
           i \notin strays' =>
               /\ Others(h) = {} \/ (pc[h] # "idle" /\ i \notin strays)
               /\ HandlerGrid(h)'
               /\ InPlay(i)' /\ ~InHand(h)' => ListedAt(i, pos[i])'
    PROVE  GridInv'
  <1>0. i \in Ids
    BY IdFacts
  <1>1. \A g \in Handlers : Knows(g)'
    BY DEF GridInv, Knows, InHand
  <1>2. \A j \in Ids \ {i} : KeepsGridOf(j)
    BY DEF KeepsGridOf
  <1>3. \A j \in Ids \ strays' : j # i => GridOf(j)'
    BY <1>2, OthersKeepGrid
  <1>4. ASSUME i \notin strays' PROVE GridOf(i)'
    <2>1. \A g \in Handlers \ {h} : Object[g] = i => pc'[g] = "idle"
      BY <1>0, <1>4, OnlyHandler DEF GridInv
    <2>2. \A g \in Handlers : Object[g] = i => HandlerGrid(g)'
      BY <1>4, <2>1 DEF HandlerGrid, InHand
    <2>3. \A f, g \in Busy' : Object[f] = i /\ Object[g] = i => f = g
      BY <2>1 DEF Busy
    <2>4. Moving(i)' <=> InHand(h)'
      BY <2>1 DEF Moving, InHand
    <2> QED
      BY <1>4, <2>2, <2>3, <2>4 DEF GridOf
  <1> QED
    BY <1>1, <1>3, <1>4 DEF GridInv

(* A handler that comes to a place of which the invariant says nothing.    *)
Elsewhere == {"idle", "insert", "scan", "update", "leave", "new", "keep", "revive"}
LEMMA PassKeepsGrid ==
    ASSUME GridInv, NEW h \in Handlers, NEW at \in Elsewhere,
           UNCHANGED <<pos, grid, prev, next>>, GoTo(h, at),
           strays' \subseteq Ids, strays \subseteq strays',
           state' \in [Ids -> {"FREE", "ACCEPT", "INGAME", "SLEEP"}],
           \A j \in Ids : InPlay(j)' => InPlay(j), NpcsInPlay', ~InHand(h),
           Object[h] \notin strays' => Others(h) = {} \/ pc[h] # "idle"
    PROVE  GridInv'
  <1> DEFINE i == Object[h]
  <1>0. i \in Ids
    BY IdFacts
  <1>1. /\ pc' \in [Handlers -> Pcs] /\ pc'[h] = at
        /\ \A g \in Handlers \ {h} : pc'[g] = pc[g]
    BY DEF GridInv, GridTypes, GoTo, Elsewhere, Pcs, PlayerPcs, NpcPcs
  <1>2. GridTypes'
    BY <1>1 DEF GridInv, GridTypes
  <1>3. Knows(h)' /\ HandlerGrid(h)'
    BY <1>1 DEF Knows, HandlerGrid, InHand, Elsewhere
  <1>4. ASSUME i \notin strays', InPlay(i)' PROVE ListedAt(i, pos[i])'
    <2>1. GridOf(i) /\ InPlay(i)
      BY <1>0, <1>4 DEF GridInv
    <2>2. ~Moving(i)
      <3>1. \A g \in Handlers \ {h} : Object[g] = i => pc[g] = "idle"
        BY <1>4, <2>1, OnlyHandler
      <3> QED
        BY <3>1 DEF Moving, InHand
    <2> QED
      BY <2>1, <2>2 DEF GridOf, ListedAt
  <1> QED
    BY <1>0, <1>1, <1>2, <1>3, <1>4, HandlerKeepsGrid

(* The common case of both: the state of nobody changes.                   *)
LEMMA QuietKeepsGrid ==
    ASSUME GridInv, NEW h \in Handlers, UNCHANGED <<pos, grid, prev, next, state, strays>>,
           \/ UNCHANGED pc
           \/ \E at \in Elsewhere : GoTo(h, at) /\ ~InHand(h) /\ pc[h] # "idle"
    PROVE  GridInv'
  <1>1. /\ strays' \subseteq Ids /\ strays \subseteq strays' /\ NpcsInPlay'
        /\ state' \in [Ids -> {"FREE", "ACCEPT", "INGAME", "SLEEP"}]
        /\ \A j \in Ids : InPlay(j)' => InPlay(j)
    BY DEF GridInv, GridTypes, NpcsInPlay, InPlay
  <1>2. CASE UNCHANGED pc
    BY <1>1, <1>2, ReadsKeepGrid
  <1>3. CASE \E at \in Elsewhere : GoTo(h, at) /\ ~InHand(h) /\ pc[h] # "idle"
    BY <1>1, <1>3, PassKeepsGrid
  <1> QED
    BY <1>2, <1>3

(* ActivateNPC wakes an NPC: it was in play before.                        *)
LEMMA ActivateKeeps ==
    ASSUME GridInv, NEW n \in Npcs, NEW p, ActivateNPC(n, p)
    PROVE  /\ state' \in [Ids -> {"FREE", "ACCEPT", "INGAME", "SLEEP"}]
           /\ \A j \in Ids : InPlay(j)' => InPlay(j)
           /\ NpcsInPlay'
  <1>1. CASE state[n] = "SLEEP"
    <2>1. state' = [state EXCEPT ![n] = "INGAME"]
      BY <1>1 DEF ActivateNPC
    <2> QED
      BY <1>1, <2>1, IdFacts DEF GridInv, GridTypes, InPlay, NpcsInPlay
  <1>2. CASE state[n] # "SLEEP"
    <2>1. UNCHANGED state
      BY <1>2 DEF ActivateNPC
    <2> QED
      BY <2>1, IdFacts DEF GridInv, GridTypes, InPlay, NpcsInPlay
  <1> QED
    BY <1>1, <1>2

(* A new state of one object that is not in play afterwards, or was before.*)
LEMMA StoreKeeps ==
    ASSUME GridInv, NEW i \in Ids, NEW s \in {"FREE", "ACCEPT", "INGAME", "SLEEP"},
           state' = [state EXCEPT ![i] = s],
           \/ i \in Npcs /\ s \in {"INGAME", "SLEEP"}
           \/ i \notin Npcs /\ s \in {"FREE", "ACCEPT"}
    PROVE  /\ state' \in [Ids -> {"FREE", "ACCEPT", "INGAME", "SLEEP"}]
           /\ \A j \in Ids : InPlay(j)' => InPlay(j)
           /\ NpcsInPlay'
  BY IdFacts DEF GridInv, GridTypes, InPlay, NpcsInPlay

(* Starts: an object that is no stray has no other handler.                *)
LEMMA StartsFacts ==
    ASSUME GridInv, NEW h \in Handlers, NEW astray, Starts(h, astray)
    PROVE  /\ pc[h] = "idle" /\ ~InHand(h)
           /\ strays \subseteq strays' /\ strays' \subseteq Ids
           /\ Object[h] \notin strays' => Others(h) = {} /\ ~astray /\ Object[h] \notin strays
  BY IdFacts DEF Starts, InHand, GridInv, GridTypes

-----------------------------------------------------------------------------
(* The steps that move an object or list it.                               *)

LEMMA GridAdd ==
    ASSUME GridTypes, NEW i \in Ids, NEW at \in Positions
    PROVE  /\ WithID(grid, i, at) \in [SectorIndexes -> SUBSET Ids]
           /\ i \in WithID(grid, i, at)[GetSectorIndex(at)]
           /\ \A s \in SectorIndexes : grid[s] \subseteq WithID(grid, i, at)[s]
  BY SectorOfPosition DEF GridTypes, WithID

LEMMA GridMove ==
    ASSUME GridTypes, NEW i \in Ids, NEW from \in Positions, NEW to \in Positions
    PROVE  /\ MovedID(grid, i, from, to) \in [SectorIndexes -> SUBSET Ids]
           /\ i \in grid[GetSectorIndex(from)] \/ from # to
                => i \in MovedID(grid, i, from, to)[GetSectorIndex(to)]
           /\ \A s \in SectorIndexes, j \in Ids :
                 j # i /\ j \in grid[s] => j \in MovedID(grid, i, from, to)[s]
  BY SectorOfPosition DEF GridTypes, MovedID

(* A handler that starts to move a player stores where it stood.           *)
LEMMA MoveStartKeepsGrid ==
    ASSUME GridInv, NEW h \in Handlers, NEW p \in Players, p = Object[h],
           Starts(h, state[p] # "INGAME"),
           NEW to \in Positions, NEW at \in {"moveid", "teleport"},
           pos' = [pos EXCEPT ![p] = to],
           prev' = [prev EXCEPT ![h] = pos[p]],
           GoTo(h, at), UNCHANGED <<grid, state, next>>
    PROVE  GridInv'
  <1>0. p \in Ids /\ pos[p] \in Positions
    BY IdFacts DEF GridInv, GridTypes
  <1>1. /\ pc' \in [Handlers -> Pcs] /\ pc'[h] = at
        /\ prev' \in [Handlers -> Positions \cup {None}] /\ prev'[h] = pos[p]
        /\ \A g \in Handlers \ {h} : pc'[g] = pc[g] /\ prev'[g] = prev[g]
        /\ pos' \in [Ids -> Positions]
        /\ \A j \in Ids \ {p} : pos'[j] = pos[j]
    BY <1>0 DEF GridInv, GridTypes, GoTo, Pcs, PlayerPcs
  <1>2. GridTypes' /\ NpcsInPlay' /\ strays \subseteq strays'
    BY <1>1, StartsFacts DEF GridInv, GridTypes, NpcsInPlay, InPlay
  <1>3. Knows(h)'
    BY <1>0, <1>1 DEF Knows
  <1>4. ASSUME p \notin strays'
        PROVE  Others(h) = {} /\ HandlerGrid(h)' /\ InHand(h)'
    <2>1. Others(h) = {} /\ state[p] = "INGAME" /\ GridOf(p) /\ pc[h] = "idle"
      BY <1>0, <1>4, StartsFacts DEF GridInv
    <2>2. ~Moving(p)
      <3>1. \A g \in Handlers \ {h} : Object[g] = p => pc[g] = "idle"
        BY <2>1, OnlyHandler
      <3> QED
        BY <2>1, <3>1 DEF Moving
    <2>3. ListedAt(p, pos[p])
      BY <2>1, <2>2 DEF GridOf, InPlay
    <2> QED
      BY <1>1, <2>1, <2>3 DEF HandlerGrid, InHand, ListedAt
  <1>5. \A j \in Ids \ {p} : InPlay(j)' => InPlay(j)
    BY DEF InPlay
  <1> QED
    BY <1>1, <1>2, <1>3, <1>4, <1>5, HandlerKeepsGrid

(* The second store of a teleport, and the step of an NPC.                 *)
LEMMA MoveGoesOnKeepsGrid ==
    ASSUME GridInv, NEW h \in Handlers, NEW i \in Ids, i = Object[h],
           NEW to \in Positions, pc[h] \in {"teleport", "old"},
           pc[h] = "old" => i \in Npcs,
           pos' = [pos EXCEPT ![i] = to], GoTo(h, "moveid"),
           UNCHANGED <<prev, next, grid, state, strays>>
    PROVE  GridInv'
  <1>1. /\ pc' \in [Handlers -> Pcs] /\ pc'[h] = "moveid"
        /\ \A g \in Handlers \ {h} : pc'[g] = pc[g]
        /\ pos' \in [Ids -> Positions]
        /\ \A j \in Ids \ {i} : pos'[j] = pos[j]
    BY DEF GridInv, GridTypes, GoTo, Pcs
  <1>2. GridTypes' /\ NpcsInPlay'
    BY <1>1 DEF GridInv, GridTypes, NpcsInPlay, InPlay
  <1>3. Knows(h)'
    BY <1>1 DEF Knows, InHand, GridInv
  <1>4. ASSUME i \notin strays PROVE HandlerGrid(h)' /\ InHand(h)'
    <2>1. HandlerGrid(h) /\ GridOf(i)
      BY <1>4 DEF GridInv, GridOf
    <2>2. ListedAt(i, prev[h])
      <3>1. CASE pc[h] = "teleport"
        BY <2>1, <3>1 DEF HandlerGrid, InHand
      <3>2. CASE pc[h] = "old"
        <4>1. InPlay(i) /\ prev[h] = pos[i]
          BY <2>1, <3>2 DEF HandlerGrid, GridInv, NpcsInPlay
        <4>2. ~Moving(i)
          <5>1. \A g \in Handlers \ {h} : Object[g] = i => pc[g] = "idle"
            BY <2>1, OnlyHandler
          <5> QED
            BY <3>2, <5>1 DEF Moving
        <4> QED
          BY <2>1, <4>1, <4>2 DEF GridOf
      <3> QED
        BY <3>1, <3>2
    <2> QED
      BY <1>1, <2>2 DEF HandlerGrid, InHand, ListedAt
  <1>5. \A j \in Ids \ {i} : InPlay(j)' => InPlay(j)
    BY DEF InPlay
  <1> QED
    BY <1>1, <1>2, <1>3, <1>4, <1>5, HandlerKeepsGrid

(* The object is listed where its only handler knows it to stand: also one *)
(* that was a stray is in its sector then.                                 *)
LEMMA ListingKeepsGrid ==
    ASSUME GridInv, NEW h \in Handlers, NEW i \in Ids, i = Object[h],
           NEW at \in {"new", "scan", "enter"}, pc[h] # "idle",
           GoTo(h, at), UNCHANGED <<pos, state>>,
           prev' \in [Handlers -> Positions \cup {None}],
           next' \in [Handlers -> Positions \cup {None}],
           \A g \in Handlers \ {h} : prev'[g] = prev[g] /\ next'[g] = next[g],
           grid' \in [SectorIndexes -> SUBSET Ids],
           \A s \in SectorIndexes, j \in Ids : j # i /\ j \in grid[s] => j \in grid'[s],
           strays' \in {strays, strays \ {i}},
           i \notin strays' => i \in grid'[GetSectorIndex(pos[i])],
           i \in strays /\ i \notin strays' => Others(h) = {}
    PROVE  GridInv'
  <1>1. /\ pc' \in [Handlers -> Pcs] /\ pc'[h] = at
        /\ \A g \in Handlers \ {h} : pc'[g] = pc[g]
    BY DEF GridInv, GridTypes, GoTo, Pcs, PlayerPcs, NpcPcs
  <1>2. GridTypes' /\ NpcsInPlay' /\ strays \subseteq strays' \cup {i}
    BY <1>1 DEF GridInv, GridTypes, NpcsInPlay, InPlay
  <1>3. Knows(h)' /\ ~InHand(h)'
    BY <1>1 DEF Knows, InHand
  <1>4. i \notin strays' => HandlerGrid(h)' /\ ListedAt(i, pos[i])'
    BY <1>1 DEF HandlerGrid, InHand, ListedAt
  <1>5. \A j \in Ids \ {i} : pos'[j] = pos[j] /\ (InPlay(j)' => InPlay(j))
    BY DEF InPlay
  <1> QED
    BY <1>1, <1>2, <1>3, <1>4, <1>5, HandlerKeepsGrid

LEMMA GridInvInit == Init => GridInv
  <1> SUFFICES ASSUME Init PROVE GridInv
    OBVIOUS
  <1>1. /\ pos \in [Ids -> Positions] /\ strays = {}
        /\ \A h \in Handlers : pc[h] = "idle" /\ prev[h] = None /\ next[h] = None
        /\ grid = [s \in SectorIndexes |-> {n \in Npcs : GetSectorIndex(pos[n]) = s}]
    BY WorldAssumption DEF Init
  <1>2. GridTypes /\ NpcsInPlay
    BY <1>1, IdFacts DEF Init, GridTypes, Pcs, NpcsInPlay, InPlay
  <1>3. \A h \in Handlers : Knows(h) /\ HandlerGrid(h)
    BY <1>1 DEF Knows, HandlerGrid, InHand
  <1>4. ASSUME NEW i \in Ids PROVE GridOf(i)
    <2>1. ASSUME InPlay(i) PROVE ListedAt(i, pos[i])
      <3>1. i \in Npcs
        BY <2>1 DEF Init, InPlay, Ids
      <3>2. GetSectorIndex(pos[i]) \in SectorIndexes
        BY <1>1, SectorOfPosition
      <3> QED
        BY <1>1, <3>1, <3>2 DEF ListedAt
    <2> QED
      BY <1>1, <1>3, <2>1 DEF GridOf, Busy
  <1> QED
    BY <1>2, <1>3, <1>4 DEF GridInv

(* A new client is not in the game yet.                                    *)
LEMMA AcceptKeepsGrid ==
    ASSUME GridInv, NEW p \in Players, Accept(p)
    PROVE  GridInv'
  <1>1. /\ UNCHANGED <<pos, grid, pc, prev, next, strays>>
        /\ state' = [state EXCEPT ![p] = "ACCEPT"]
        /\ p \in Ids /\ p \notin Npcs
    BY IdFacts DEF Accept, locals
  <1>2. /\ strays' \subseteq Ids /\ NpcsInPlay'
        /\ state' \in [Ids -> {"FREE", "ACCEPT", "INGAME", "SLEEP"}]
        /\ \A j \in Ids : InPlay(j)' => InPlay(j)
    BY <1>1, StoreKeeps DEF GridInv, GridTypes
  <1> QED
    BY <1>1, <1>2, ReadsKeepGrid

(* A login fills in the position of a slot: it is lost for the sectors if  *)
(* somebody else is at work for the slot, or it is in the game.            *)
LEMMA LoginKeepsGrid ==
    ASSUME GridInv, NEW h \in PlayerHandlers, NEW at \in Spawns, Login(h, at)
    PROVE  GridInv'
  <1> DEFINE p == Object[h]
  <1>1. /\ h \in Handlers /\ p \in Ids /\ p \notin Npcs /\ at \in Positions
        /\ Starts(h, state[p] # "ACCEPT")
        /\ pos' = [pos EXCEPT ![p] = at] /\ UNCHANGED <<prev, next, grid, state>>
        /\ pc' = [pc EXCEPT ![h] = "insert"] /\ pc[h] = "idle"
    BY IdFacts, WorldAssumption DEF Login, GoTo, Starts
  <1>2. /\ pc' \in [Handlers -> Pcs] /\ pc'[h] = "insert"
        /\ \A g \in Handlers \ {h} : pc'[g] = pc[g]
        /\ pos' \in [Ids -> Positions]
        /\ \A j \in Ids \ {p} : pos'[j] = pos[j]
    BY <1>1 DEF GridInv, GridTypes, Pcs, PlayerPcs
  <1>3. GridTypes' /\ NpcsInPlay' /\ strays \subseteq strays'
    BY <1>1, <1>2, StartsFacts DEF GridInv, GridTypes, NpcsInPlay, InPlay
  <1>4. Knows(h)' /\ HandlerGrid(h)'
    BY <1>2 DEF Knows, HandlerGrid, InHand
  <1>5. p \notin strays' => Others(h) = {} /\ ~InPlay(p)'
    BY <1>1, StartsFacts DEF InPlay
  <1>6. \A j \in Ids \ {p} : InPlay(j)' => InPlay(j)
    BY <1>1 DEF InPlay
  <1> HIDE DEF p
  <1> QED
    BY <1>1, <1>2, <1>3, <1>4, <1>5, <1>6, HandlerKeepsGrid DEF p

(* The login has listed the player, and nobody else has moved it since.    *)
LEMMA EnterKeepsGrid ==
    ASSUME GridInv, NEW h \in PlayerHandlers, Enter(h)
    PROVE  GridInv'
  <1> DEFINE p == Object[h]
  <1>1. /\ h \in Handlers /\ p \in Ids /\ p \notin Npcs /\ pc[h] = "enter"
        /\ UNCHANGED <<pos, prev, next, grid, strays>>
        /\ state' = [state EXCEPT ![p] = "INGAME"]
        /\ pc' = [pc EXCEPT ![h] = "scan"]
    BY IdFacts DEF Enter, Runs, GoTo, history
  <1>2. /\ pc' \in [Handlers -> Pcs] /\ pc'[h] = "scan"
        /\ \A g \in Handlers \ {h} : pc'[g] = pc[g]
    BY <1>1 DEF GridInv, GridTypes, Pcs, PlayerPcs
  <1>3. GridTypes' /\ NpcsInPlay'
    BY <1>1, <1>2, IdFacts DEF GridInv, GridTypes, NpcsInPlay, InPlay
  <1>4. Knows(h)' /\ HandlerGrid(h)'
    BY <1>2 DEF Knows, HandlerGrid, InHand
  <1>5. p \notin strays => ListedAt(p, pos[p])'
    <2> SUFFICES ASSUME p \notin strays PROVE ListedAt(p, pos[p])'
      OBVIOUS
    <2>1. HandlerGrid(h)
      BY <1>1 DEF GridInv, GridOf
    <2> QED
      BY <1>1, <2>1 DEF HandlerGrid, ListedAt
  <1>6. \A j \in Ids \ {p} : InPlay(j)' => InPlay(j)
    BY <1>1 DEF InPlay, GridInv, GridTypes
  <1> HIDE DEF p
  <1> QED
    BY <1>1, <1>2, <1>3, <1>4, <1>5, <1>6, HandlerKeepsGrid DEF p

LEMMA InsertKeepsGrid ==
    ASSUME GridInv, NEW h \in PlayerHandlers, InsertID(h)
    PROVE  GridInv'
  <1> DEFINE p == Object[h]
  <1>1. /\ h \in Handlers /\ p \in Ids /\ pos[p] \in Positions
        /\ GetSectorIndex(pos[p]) \in SectorIndexes
    BY IdFacts, SectorOfPosition DEF GridInv, GridTypes
  <1>2. /\ pc[h] # "idle" /\ GoTo(h, "enter") /\ UNCHANGED <<pos, state, prev, next>>
        /\ grid' = WithID(grid, p, pos[p]) /\ PutRight(h, pos[p], TRUE)
    BY DEF InsertID, Runs
  <1>3. /\ strays' \in {strays, strays \ {p}}
        /\ p \in strays /\ p \notin strays' => Others(h) = {}
    BY <1>2 DEF PutRight
  <1>4. /\ grid' \in [SectorIndexes -> SUBSET Ids]
        /\ p \in grid'[GetSectorIndex(pos[p])]
        /\ \A s \in SectorIndexes, j \in Ids : j # p /\ j \in grid[s] => j \in grid'[s]
    BY <1>1, <1>2, GridAdd DEF GridInv
  <1>5. /\ prev' \in [Handlers -> Positions \cup {None}]
        /\ next' \in [Handlers -> Positions \cup {None}]
        /\ \A g \in Handlers \ {h} : prev'[g] = prev[g] /\ next'[g] = next[g]
    BY <1>2 DEF GridInv, GridTypes
  <1> HIDE DEF p
  <1> QED
    BY <1>1, <1>2, <1>3, <1>4, <1>5, ListingKeepsGrid DEF p

LEMMA ReadNextKeepsGrid ==
    ASSUME GridInv, NEW h \in Handlers, ReadNext(h)
    PROVE  GridInv'
  <1> DEFINE i == Object[h]
  <1>1. /\ i \in Ids /\ pos[i] \in Positions /\ pc[h] = "moveid"
        /\ UNCHANGED <<pos, grid, state, prev, strays>>
        /\ next' = [next EXCEPT ![h] = pos[i]] /\ pc' = [pc EXCEPT ![h] = "relist"]
    BY IdFacts DEF ReadNext, Runs, GoTo, history, GridInv, GridTypes
  <1>2. /\ pc' \in [Handlers -> Pcs] /\ pc'[h] = "relist"
        /\ next' \in [Handlers -> Positions \cup {None}] /\ next'[h] = pos[i]
        /\ \A g \in Handlers \ {h} : pc'[g] = pc[g] /\ next'[g] = next[g]
    BY <1>1 DEF GridInv, GridTypes, Pcs
  <1>3. GridTypes' /\ NpcsInPlay'
    BY <1>1, <1>2 DEF GridInv, GridTypes, NpcsInPlay, InPlay
  <1>4. Knows(h)' /\ InHand(h)'
    BY <1>1, <1>2 DEF Knows, InHand, GridInv
  <1>5. i \notin strays => HandlerGrid(h)'
    <2> SUFFICES ASSUME i \notin strays PROVE HandlerGrid(h)'
      OBVIOUS
    <2>1. HandlerGrid(h)
      BY <1>1 DEF GridInv, GridOf
    <2> QED
      BY <1>1, <1>2, <2>1 DEF HandlerGrid, InHand, ListedAt
  <1>6. \A j \in Ids \ {i} : InPlay(j)' => InPlay(j)
    BY <1>1 DEF InPlay
  <1> HIDE DEF i
  <1> QED
    BY <1>1, <1>2, <1>3, <1>4, <1>5, <1>6, HandlerKeepsGrid DEF i

(* MoveID: the only handler of an object that is no stray knows where it   *)
(* is listed and where it stands; a stray that is listed where it stands   *)
(* by the only handler it has is none any more.                            *)
LEMMA MoveIDKeepsGrid ==
    ASSUME GridInv, NEW h \in Handlers, MoveID(h)
    PROVE  GridInv'
  <1> DEFINE i == Object[h]
  <1>1. i \in Ids /\ pos[i] \in Positions
    BY IdFacts DEF GridInv, GridTypes
  <1>2. /\ pc[h] = "relist" /\ UNCHANGED <<pos, state>>
        /\ GoTo(h, "new") \/ GoTo(h, "scan")
        /\ grid' = MovedID(grid, i, prev[h], next[h])
        /\ PutRight(h, next[h], prev[h] # next[h])
        /\ prev' = [prev EXCEPT ![h] = None] /\ next' = [next EXCEPT ![h] = None]
    BY DEF MoveID, Runs
  <1>3. /\ strays' \in {strays, strays \ {i}}
        /\ i \in strays /\ i \notin strays'
             => Others(h) = {} /\ prev[h] # next[h] /\ next[h] = pos[i]
    BY <1>2 DEF PutRight
  <1>4. prev[h] \in Positions /\ next[h] \in Positions
    BY <1>2 DEF GridInv, Knows, InHand
  <1>5. /\ grid' \in [SectorIndexes -> SUBSET Ids]
        /\ i \in grid[GetSectorIndex(prev[h])] \/ prev[h] # next[h]
             => i \in grid'[GetSectorIndex(next[h])]
        /\ \A s \in SectorIndexes, j \in Ids : j # i /\ j \in grid[s] => j \in grid'[s]
    BY <1>1, <1>2, <1>4, GridMove DEF GridInv
  <1>6. i \notin strays' => i \in grid'[GetSectorIndex(pos[i])]
    <2>1. CASE i \in strays
      BY <1>3, <1>5, <2>1
    <2>2. CASE i \notin strays
      <3>1. HandlerGrid(h)
        BY <1>1, <2>2 DEF GridInv, GridOf
      <3> QED
        BY <1>2, <1>5, <3>1 DEF HandlerGrid, InHand, ListedAt
    <2> QED
      BY <2>1, <2>2
  <1>7. /\ prev' \in [Handlers -> Positions \cup {None}]
        /\ next' \in [Handlers -> Positions \cup {None}]
        /\ \A g \in Handlers \ {h} : prev'[g] = prev[g] /\ next'[g] = next[g]
    BY <1>2 DEF GridInv, GridTypes
  <1> HIDE DEF i
  <1> QED
    BY <1>1, <1>2, <1>3, <1>5, <1>6, <1>7, ListingKeepsGrid DEF i

-----------------------------------------------------------------------------
(* The steps of a player's handler.                                        *)
LEMMA PlayerKeepsGrid ==
    ASSUME GridInv, NEW h \in PlayerHandlers, PlayerNext(h)
    PROVE  GridInv'
  <1> DEFINE p == Object[h]
  <1>0. /\ h \in Handlers /\ p \in Players /\ p \in Ids /\ p \notin Npcs
        /\ pos[p] \in Positions
    BY IdFacts DEF GridInv, GridTypes
  <1>1. CASE \E at \in Spawns : Login(h, at)
    BY <1>1, LoginKeepsGrid
  <1>2. CASE InsertID(h)
    BY <1>2, InsertKeepsGrid
  <1>3. CASE Enter(h)
    BY <1>3, EnterKeepsGrid
  <1>4. CASE \E direction \in 0..3 : Move(h, direction)
    <2>1. PICK direction \in 0..3 : Move(h, direction)
      BY <1>4
    <2>2. MovePosition(pos[p], direction) \in Positions
      BY <1>0, MoveStays
    <2>3. /\ pos' = [pos EXCEPT ![p] = MovePosition(pos[p], direction)]
          /\ prev' = [prev EXCEPT ![h] = pos[p]]
          /\ GoTo(h, "moveid") /\ UNCHANGED <<grid, state, next>>
          /\ Starts(h, state[p] # "INGAME")
      BY <2>1 DEF Move
    <2> HIDE DEF p
    <2> QED
      BY <1>0, <2>2, <2>3, MoveStartKeepsGrid DEF p
  <1>5. CASE \E x \in 0..Width - 1 : Teleport(h, x)
    <2>1. PICK x \in 0..Width - 1 : Teleport(h, x)
      BY <1>5
    <2>2. [pos[p] EXCEPT !.x = x] \in Positions
      BY <1>0 DEF Positions
    <2>3. /\ pos' = [pos EXCEPT ![p] = [pos[p] EXCEPT !.x = x]]
          /\ prev' = [prev EXCEPT ![h] = pos[p]]
          /\ GoTo(h, "teleport") /\ UNCHANGED <<grid, state, next>>
          /\ Starts(h, state[p] # "INGAME")
      BY <2>1 DEF Teleport
    <2> HIDE DEF p
    <2> QED
      BY <1>0, <2>2, <2>3, MoveStartKeepsGrid DEF p
  <1>6. CASE \E y \in 0..Height - 1 : TeleportY(h, y)
    <2>1. PICK y \in 0..Height - 1 : TeleportY(h, y)
      BY <1>6
    <2>2. [pos[p] EXCEPT !.y = y] \in Positions
      BY <1>0 DEF Positions
    <2>3. /\ pos' = [pos EXCEPT ![p] = [pos[p] EXCEPT !.y = y]]
          /\ pc[h] = "teleport" /\ GoTo(h, "moveid")
          /\ UNCHANGED <<prev, next, grid, state, strays>>
      BY <2>1 DEF TeleportY, Runs, history
    <2> HIDE DEF p
    <2> QED
      BY <1>0, <2>2, <2>3, MoveGoesOnKeepsGrid DEF p
  <1>7. CASE \E s \in SectorIndexes : ReadSector(h, s)
    BY <1>0, <1>7, QuietKeepsGrid DEF ReadSector, history
  <1>8. CASE \E o \in Ids : Look(h, o)
    <2>1. PICK o \in Ids : Look(h, o)
      BY <1>8
    <2>2. UNCHANGED <<pos, grid, pc, prev, next, strays>>
      BY <2>1 DEF Look
    <2>3. CASE UNCHANGED state
      BY <1>0, <2>2, <2>3, QuietKeepsGrid
    <2>4. CASE o \in Npcs /\ ActivateNPC(o, p)
      <3>1. strays' \subseteq Ids /\ strays \subseteq strays'
        BY <2>2 DEF GridInv, GridTypes
      <3> QED
        BY <2>2, <2>4, <3>1, ActivateKeeps, ReadsKeepGrid
    <2> QED
      BY <2>1, <2>3, <2>4 DEF Look
  <1>9. CASE \E o \in Ids : PlayerSight(h, o) \/ PlayerGone(h, o)
    BY <1>0, <1>9, QuietKeepsGrid DEF PlayerSight, PlayerGone
  <1>10. CASE Tell(h)
    <2>1. UNCHANGED <<pos, grid, pc, prev, next, strays>>
      BY <1>10 DEF Tell
    <2>2. CASE UNCHANGED state
      BY <1>0, <2>1, <2>2, QuietKeepsGrid
    <2>3. CASE who[h] \in Npcs /\ ActivateNPC(who[h], p)
      <3>1. strays' \subseteq Ids /\ strays \subseteq strays'
        BY <2>1 DEF GridInv, GridTypes
      <3> QED
        BY <2>1, <2>3, <3>1, ActivateKeeps, ReadsKeepGrid
    <2> QED
      BY <1>10, <2>2, <2>3 DEF Tell
  <1>11. CASE Scanned(h) \/ PlayerMoved(h) \/ EnterRefused(h)
    <2>1. UNCHANGED <<pos, grid, prev, next, state, strays>> /\ ~InHand(h) /\ pc[h] # "idle"
      BY <1>11 DEF Scanned, PlayerMoved, EnterRefused, Runs, InHand, history
    <2>2. GoTo(h, "idle") \/ GoTo(h, "update")
      BY <1>11 DEF Scanned, PlayerMoved, EnterRefused, Finish
    <2> QED
      BY <1>0, <2>1, <2>2, QuietKeepsGrid DEF Elsewhere
  <1>12. CASE Leave(h)
    <2>1. /\ UNCHANGED <<pos, grid, prev, next, state>> /\ GoTo(h, "leave")
          /\ Starts(h, state[p] = "FREE")
      BY <1>12 DEF Leave
    <2>2. /\ NpcsInPlay' /\ \A j \in Ids : InPlay(j)' => InPlay(j)
          /\ state' \in [Ids -> {"FREE", "ACCEPT", "INGAME", "SLEEP"}]
      BY <2>1 DEF GridInv, GridTypes, NpcsInPlay, InPlay
    <2>3. /\ ~InHand(h) /\ strays \subseteq strays' /\ strays' \subseteq Ids
          /\ Object[h] \notin strays' => Others(h) = {}
      BY <1>0, <2>1, StartsFacts
    <2> QED
      BY <1>0, <2>1, <2>2, <2>3, PassKeepsGrid DEF Elsewhere
  <1>13. CASE Left(h)
    <2>1. /\ UNCHANGED <<pos, grid, prev, next, strays>> /\ pc[h] = "leave" /\ ~InHand(h)
          /\ state' = [state EXCEPT ![p] = "FREE"] /\ GoTo(h, "idle")
      BY <1>13 DEF Left, Finish, Runs, history, InHand
    <2>2. /\ NpcsInPlay' /\ \A j \in Ids : InPlay(j)' => InPlay(j)
          /\ state' \in [Ids -> {"FREE", "ACCEPT", "INGAME", "SLEEP"}]
          /\ strays' \subseteq Ids /\ strays \subseteq strays'
      BY <1>0, <2>1, StoreKeeps DEF GridInv, GridTypes
    <2> QED
      BY <1>0, <2>1, <2>2, PassKeepsGrid DEF Elsewhere
  <1>14. CASE \E o \in Players : LeaveView(h, o)
    BY <1>0, <1>14, QuietKeepsGrid DEF LeaveView
  <1> QED
    BY <1>1, <1>2, <1>3, <1>4, <1>5, <1>6, <1>7, <1>8, <1>9, <1>10, <1>11,
       <1>12, <1>13, <1>14 DEF PlayerNext

(* The handler of an NPC's move notes where the NPC stands.                *)
LEMMA MoveNPCKeepsGrid ==
    ASSUME GridInv, NEW h \in NpcHandlers, NEW p, MoveNPC(h, p)
    PROVE  GridInv'
  <1> DEFINE n == Object[h]
  <1>1. /\ h \in Handlers /\ n \in Ids /\ pos[n] \in Positions
        /\ Starts(h, FALSE) /\ UNCHANGED <<pos, grid, state, next>>
        /\ pc' = [pc EXCEPT ![h] = "old"] /\ prev' = [prev EXCEPT ![h] = pos[n]]
    BY IdFacts DEF MoveNPC, GoTo, GridInv, GridTypes
  <1>2. /\ pc' \in [Handlers -> Pcs] /\ pc'[h] = "old"
        /\ prev' \in [Handlers -> Positions \cup {None}] /\ prev'[h] = pos[n]
        /\ \A g \in Handlers \ {h} : pc'[g] = pc[g] /\ prev'[g] = prev[g]
    BY <1>1 DEF GridInv, GridTypes, Pcs, NpcPcs
  <1>3. GridTypes' /\ NpcsInPlay' /\ strays \subseteq strays'
    BY <1>1, <1>2, StartsFacts DEF GridInv, GridTypes, NpcsInPlay, InPlay
  <1>4. Knows(h)' /\ HandlerGrid(h)' /\ ~InHand(h)'
    BY <1>1, <1>2 DEF Knows, HandlerGrid, InHand
  <1>5. ASSUME n \notin strays', InPlay(n)'
        PROVE  Others(h) = {} /\ ListedAt(n, pos[n])'
    <2>1. Others(h) = {} /\ GridOf(n) /\ InPlay(n) /\ pc[h] = "idle"
      BY <1>1, <1>5, StartsFacts DEF GridInv, InPlay
    <2>2. ~Moving(n)
      <3>1. \A g \in Handlers \ {h} : Object[g] = n => pc[g] = "idle"
        BY <1>1, <2>1, OnlyHandler
      <3> QED
        BY <2>1, <3>1 DEF Moving
    <2> QED
      BY <1>1, <2>1, <2>2 DEF GridOf, ListedAt
  <1>6. n \notin strays' => Others(h) = {}
    BY <1>1, StartsFacts
  <1>7. \A j \in Ids \ {n} : InPlay(j)' => InPlay(j)
    BY <1>1 DEF InPlay
  <1> HIDE DEF n
  <1> QED
    BY <1>1, <1>2, <1>3, <1>4, <1>5, <1>6, <1>7, HandlerKeepsGrid DEF n

(* The steps of an NPC's handler.                                          *)
LEMMA NpcKeepsGrid ==
    ASSUME GridInv, NEW h \in NpcHandlers, NpcNext(h)
    PROVE  GridInv'
  <1> DEFINE n == Object[h]
  <1>0. h \in Handlers /\ n \in Npcs /\ n \in Ids /\ pos[n] \in Positions
    BY IdFacts DEF GridInv, GridTypes
  <1>1. CASE \E p \in Players : MoveNPC(h, p)
    BY <1>1, MoveNPCKeepsGrid
  <1>2. CASE NpcStep(h)
    <2> DEFINE to == MovePosition(pos[n], GetDirectionToTarget(pos[n], pos[target[h]]))
    <2>1. to \in Positions
      BY <1>0, MoveStays
    <2>2. /\ pc[h] = "old" /\ GoTo(h, "moveid") /\ pos' = [pos EXCEPT ![n] = to]
          /\ UNCHANGED <<prev, next, grid, state, strays>>
      BY <1>2 DEF NpcStep, Runs, history
    <2> HIDE DEF to, n
    <2> QED
      BY <1>0, <2>1, <2>2, MoveGoesOnKeepsGrid DEF n
  <1>3. CASE Sleep(h)
    <2>1. /\ UNCHANGED <<pos, grid, prev, next, strays>> /\ pc[h] # "idle" /\ ~InHand(h)
          /\ state' = [state EXCEPT ![n] = "SLEEP"] /\ GoTo(h, "idle")
      BY <1>3 DEF Sleep, Finish, Runs, history, InHand
    <2>2. /\ NpcsInPlay' /\ \A j \in Ids : InPlay(j)' => InPlay(j)
          /\ state' \in [Ids -> {"FREE", "ACCEPT", "INGAME", "SLEEP"}]
          /\ strays' \subseteq Ids /\ strays \subseteq strays'
      BY <1>0, <2>1, StoreKeeps DEF GridInv, GridTypes
    <2> QED
      BY <1>0, <2>1, <2>2, PassKeepsGrid DEF Elsewhere
  <1>4. CASE NpcMoved(h)
    BY <1>0, <1>4, QuietKeepsGrid DEF NpcMoved, Runs, InHand, Elsewhere, history
  <1>5. CASE \E p \in Players : \/ NpcOld(h, p) \/ NpcNew(h, p) \/ NpcSight(h, p)
                               \/ NpcGone(h, p) \/ ReviveLook(h, p)
    BY <1>0, <1>5, QuietKeepsGrid
    DEF NpcOld, NpcNew, NpcSight, NpcGone, ReviveLook, history
  <1>6. CASE (\E p \in Players : Keep(h, p)) \/ Revived(h)
    <2>1. /\ UNCHANGED <<pos, grid, prev, next, state, strays>>
          /\ pc[h] # "idle" /\ ~InHand(h)
      BY <1>6 DEF Keep, Revived, Runs, InHand, history
    <2>2. GoTo(h, "idle") \/ UNCHANGED pc
      BY <1>6 DEF Keep, Revived, Finish
    <2> QED
      BY <1>0, <2>1, <2>2, QuietKeepsGrid DEF Elsewhere
  <1>7. CASE ReviveNPC(h)
    <2>1. /\ UNCHANGED <<pos, grid, prev, next>> /\ Starts(h, FALSE)
          /\ state' = [state EXCEPT ![n] = "INGAME"] /\ GoTo(h, "revive")
      BY <1>7 DEF ReviveNPC
    <2>2. /\ NpcsInPlay' /\ \A j \in Ids : InPlay(j)' => InPlay(j)
          /\ state' \in [Ids -> {"FREE", "ACCEPT", "INGAME", "SLEEP"}]
      BY <1>0, <2>1, StoreKeeps
    <2>3. /\ ~InHand(h) /\ strays \subseteq strays' /\ strays' \subseteq Ids
          /\ Object[h] \notin strays' => Others(h) = {}
      BY <1>0, <2>1, StartsFacts
    <2> QED
      BY <1>0, <2>1, <2>2, <2>3, PassKeepsGrid DEF Elsewhere
  <1> QED
    BY <1>1, <1>2, <1>3, <1>4, <1>5, <1>6, <1>7 DEF NpcNext

LEMMA GridInvNext == GridInv /\ [Next]_vars => GridInv'
  <1> SUFFICES ASSUME GridInv, [Next]_vars PROVE GridInv'
    OBVIOUS
  <1>1. CASE \E p \in Players : Accept(p)
    BY <1>1, AcceptKeepsGrid
  <1>2. CASE \E h \in PlayerHandlers : PlayerNext(h)
    BY <1>2, PlayerKeepsGrid
  <1>3. CASE \E h \in NpcHandlers : NpcNext(h)
    BY <1>3, NpcKeepsGrid
  <1>4. CASE \E h \in Handlers : Send(h)
    BY <1>4, QuietKeepsGrid DEF Send, history
  <1>5. CASE \E h \in Handlers : ReadNext(h) \/ MoveID(h)
    BY <1>5, ReadNextKeepsGrid, MoveIDKeepsGrid
  <1>6. CASE \/ \E n \in Npcs, p \in Players : DropMove(n, p)
             \/ UNCHANGED vars
    <2>1. UNCHANGED <<pos, grid, pc, prev, next, state, strays>>
      BY <1>6 DEF DropMove, vars, locals, history
    <2>2. /\ strays' \subseteq Ids /\ strays \subseteq strays' /\ NpcsInPlay'
          /\ state' \in [Ids -> {"FREE", "ACCEPT", "INGAME", "SLEEP"}]
          /\ \A j \in Ids : InPlay(j)' => InPlay(j)
      BY <2>1 DEF GridInv, GridTypes, NpcsInPlay, InPlay
    <2> QED
      BY <2>1, <2>2, ReadsKeepGrid
  <1> QED
    BY <1>1, <1>2, <1>3, <1>4, <1>5, <1>6 DEF Next

(* SectorManager::MoveID and InsertID keep every object in play in the     *)
(* sector it stands in, whatever handlers of other objects run at the same *)
(* time: together with the cover of the sight, no search can miss it.      *)
(* Handlers of one object, which the server does not keep apart, may list  *)
(* it elsewhere; the next change of place that nobody else of its own gets *)
(* into the way of puts it right.                                          *)
THEOREM InOwnSectorTheorem == Spec => []InOwnSector
  <1>1. Init => GridInv
    BY GridInvInit
  <1>2. GridInv /\ [Next]_vars => GridInv'
    BY GridInvNext
  <1>3. GridInv => InOwnSector
    BY DEF GridInv, GridOf, InOwnSector, ListedAt
  <1> QED
    BY <1>1, <1>2, <1>3, PTL DEF Spec

-----------------------------------------------------------------------------
(* Types.  The sectors searched around a position are sectors of the grid. *)
LEMMA NeighbourInGrid ==
    ASSUME NEW S \in Nat \ {0}, NEW R \in Nat, NEW k \in Nat, NEW W, W = k * S,
           NEW a \in 0..W - 1
    PROVE  /\ W \div S = k
           /\ a \div S \in 0..k - 1
           /\ a - R >= 0 /\ a - R < S * (a \div S) => a \div S - 1 \in 0..k - 1
           /\ a + R < W /\ a + R > S * (a \div S) + S - 1 => a \div S + 1 \in 0..k - 1
  <1> DEFINE i == a \div S
  <1>1. W \div S = k /\ i \in 0..k - 1 /\ a \in Nat
    <2>1. W \div S = k /\ i \in 0..k - 1
      BY DivBound
    <2>2. W \in Nat
      OBVIOUS
    <2> QED
      BY <2>1, <2>2
  <1>2. i \in Nat /\ S * i <= a /\ S * i \in Nat
    <2>1. i \in Nat /\ S * i <= a
      BY <1>1, DivFacts
    <2> HIDE DEF i
    <2> QED
      BY <2>1
  <1> HIDE DEF i
  <1>3. ASSUME a - R >= 0, a - R < S * i PROVE i - 1 \in 0..k - 1
    <2>1. i # 0
      BY <1>3
    <2> QED
      BY <1>1, <1>2, <2>1
  <1>4. ASSUME a + R < W, a + R > S * i + S - 1 PROVE i + 1 \in 0..k - 1
    <2>1. CASE i + 1 < k
      BY <1>1, <1>2, <2>1
    <2>2. CASE ~(i + 1 < k)
      <3>1. k = i + 1
        BY <1>1, <1>2, <2>2
      <3>2. W = S * i + S
        BY <1>2, <3>1
      <3> QED
        BY <1>2, <1>4, <3>2
    <2> QED
      BY <2>1, <2>2
  <1> QED
    BY <1>1, <1>3, <1>4 DEF i

LEMMA NearInGrid ==
    ASSUME NEW at \in Positions
    PROVE  GetNearSectorIndexes(at) \subseteq SectorIndexes
  <1>1. PICK kx \in Nat : Width = kx * SectorWidth
    BY GridFacts
  <1>2. PICK ky \in Nat : Height = ky * SectorHeight
    BY GridFacts
  <1>3. at.x \in 0..Width - 1 /\ at.y \in 0..Height - 1
    BY DEF Positions
  <1> DEFINE row == at.y \div SectorHeight
             col == at.x \div SectorWidth
             top == at.y - Range >= 0 /\ at.y - Range < SectorHeight * row
             bottom == /\ at.y + Range < Height
                       /\ at.y + Range > SectorHeight * row + SectorHeight - 1
             left == at.x - Range >= 0 /\ at.x - Range < SectorWidth * col
             right == /\ at.x + Range < Width
                      /\ at.x + Range > SectorWidth * col + SectorWidth - 1
             rows == {row} \cup (IF top THEN {row - 1} ELSE {})
                           \cup (IF bottom THEN {row + 1} ELSE {})
             cols == {col} \cup (IF left THEN {col - 1} ELSE {})
                           \cup (IF right THEN {col + 1} ELSE {})
  <1>4. /\ Height \div SectorHeight = ky /\ row \in 0..ky - 1
        /\ top => row - 1 \in 0..ky - 1
        /\ bottom => row + 1 \in 0..ky - 1
    BY <1>2, <1>3, NeighbourInGrid, GridFacts
  <1>5. /\ Width \div SectorWidth = kx /\ col \in 0..kx - 1
        /\ left => col - 1 \in 0..kx - 1
        /\ right => col + 1 \in 0..kx - 1
    BY <1>1, <1>3, NeighbourInGrid, GridFacts
  <1>6. GetNearSectorIndexes(at) = rows \X cols
    BY DEF GetNearSectorIndexes, GetSectorIndex
  <1>7. rows \subseteq Rows
    <2> HIDE DEF row, top, bottom
    <2> QED
      BY <1>4 DEF Rows
  <1>8. cols \subseteq Columns
    <2> HIDE DEF col, left, right
    <2> QED
      BY <1>5 DEF Columns
  <1> HIDE DEF rows, cols
  <1> QED
    BY <1>6, <1>7, <1>8 DEF SectorIndexes

(* What TypeOK says beyond the types of the grid, in three parts.          *)
ListTypes ==
    /\ view \in [Players -> SUBSET Ids]
    /\ out \in [Handlers -> Messages \cup {NoMsg}]
    /\ crossed \subseteq Players \X Ids
LocalTypes ==
    /\ target \in [Handlers -> Players \cup {None}]
    /\ secs \in [Handlers -> SUBSET SectorIndexes]
    /\ cand \in [Handlers -> SUBSET Ids]
    /\ near \in [Handlers -> SUBSET Ids]
    /\ list \in [Handlers -> SUBSET Ids]
    /\ who \in [Handlers -> Ids \cup {None}]
    /\ armed \in [Npcs -> [Players -> Nat]]
HistoryTypes ==
    /\ shown \in [Players -> SUBSET Ids]
    /\ moves \in 0..MaxMoves /\ sessions \in 0..MaxSessions /\ revivals \in 0..MaxRevivals
    /\ alone \in [Handlers -> BOOLEAN] /\ overlapped \in BOOLEAN
    /\ used \subseteq Players
    /\ inherited \subseteq Players \X Ids
RestTypes == ListTypes /\ LocalTypes /\ HistoryTypes

\* The ways in which a step can change view lists.
Lists(h, to, obj) == \/ Put(h, to, obj) \/ Remove(h, to, obj)
                     \/ FindAndInsertViewID(h, to, obj) \/ FindAndEraseViewID(h, to, obj)
                     \/ UNCHANGED <<view, out, crossed>>

LEMMA ListsTyped ==
    ASSUME ListTypes, NEW h \in Handlers, NEW to \in Players, NEW obj \in Ids,
           Lists(h, to, obj)
    PROVE  ListTypes'
  <1>1. CASE UNCHANGED <<view, out, crossed>>
    BY <1>1 DEF ListTypes
  <1>2. [kind |-> "put", to |-> to, obj |-> obj] \in Messages
        /\ [kind |-> "remove", to |-> to, obj |-> obj] \in Messages
    BY DEF Messages
  <1>3. CASE Put(h, to, obj) \/ Remove(h, to, obj)
    <2>1. crossed' \subseteq Players \X Ids
      BY <1>3 DEF Put, Remove, Crosses, ListTypes
    <2> QED
      BY <1>2, <1>3, <2>1 DEF Put, Remove, ListTypes
  <1> QED
    BY <1>1, <1>3 DEF Lists, FindAndInsertViewID, FindAndEraseViewID

LEMMA StartsTyped ==
    ASSUME HistoryTypes, NEW h \in Handlers, NEW astray \in BOOLEAN, Starts(h, astray)
    PROVE  alone' \in [Handlers -> BOOLEAN] /\ overlapped' \in BOOLEAN
  BY DEF Starts, HistoryTypes

LEMMA FinishTyped ==
    ASSUME LocalTypes, NEW h \in Handlers, Finish(h), UNCHANGED <<secs, who>>,
           armed' \in [Npcs -> [Players -> Nat]]
    PROVE  LocalTypes'
  BY DEF Finish, LocalTypes

LEMMA AddMoveTyped ==
    ASSUME LocalTypes, NEW n \in Npcs, NEW p \in Players \cup {None}, AddMove(n, p)
    PROVE  armed' \in [Npcs -> [Players -> Nat]]
  <1>1. armed[n] \in [Players -> Nat]
    BY DEF LocalTypes
  <1>2. [armed[n] EXCEPT ![p] = @ + 1] \in [Players -> Nat]
    <2>1. CASE p \in Players
      BY <1>1, <2>1
    <2>2. CASE p \notin Players
      <3>1. \A q \in Players : q # p
        BY <2>2
      <3> QED
        BY <1>1, <3>1
    <2> QED
      BY <2>1, <2>2
  <1> QED
    BY <1>2 DEF AddMove, LocalTypes

LEMMA TakeMoveTyped ==
    ASSUME LocalTypes, NEW n \in Npcs, NEW p \in Players, TakeMove(n, p)
    PROVE  armed' \in [Npcs -> [Players -> Nat]]
  <1>1. armed[n] \in [Players -> Nat] /\ armed[n][p] \in Nat \ {0}
    BY DEF LocalTypes, TakeMove
  <1>2. [armed[n] EXCEPT ![p] = @ - 1] \in [Players -> Nat]
    BY <1>1
  <1> QED
    BY <1>2 DEF TakeMove, LocalTypes

LEMMA ActivateTyped ==
    ASSUME LocalTypes, NEW n \in Npcs, NEW p \in Players,
           ActivateNPC(n, p) \/ UNCHANGED armed
    PROVE  armed' \in [Npcs -> [Players -> Nat]]
  <1>1. CASE AddMove(n, p)
    BY <1>1, AddMoveTyped
  <1>2. CASE UNCHANGED armed
    BY <1>2 DEF LocalTypes
  <1> QED
    BY <1>1, <1>2 DEF ActivateNPC

LEMMA AcceptTyped ==
    ASSUME RestTypes, NEW p \in Players, Accept(p)
    PROVE  RestTypes'
  <1> USE DEF RestTypes
  <1>1. LocalTypes'
    BY DEF Accept, LocalTypes, locals
  <1>2. ListTypes'
    BY DEF Accept, ListTypes, locals
  <1>3. {out[h].obj : h \in {g \in Handlers : out[g].to = p}} \subseteq Ids
    <2>1. NoMsg.to = None /\ None # p
      BY WorldAssumption DEF NoMsg
    <2>2. \A g \in Handlers : out[g].to = p => out[g].obj \in Ids
      BY <2>1 DEF ListTypes, Messages
    <2> QED
      BY <2>2
  <1>4. inherited' \subseteq Players \X Ids
    <2>1. view[p] \subseteq Ids
      BY DEF ListTypes
    <2> QED
      BY <1>3, <2>1 DEF Accept, HistoryTypes
  <1>5. sessions' \in 0..MaxSessions
    BY WorldAssumption DEF Accept, HistoryTypes
  <1>6. overlapped' \in BOOLEAN
    BY DEF Accept, HistoryTypes
  <1> QED
    BY <1>1, <1>2, <1>4, <1>5, <1>6 DEF Accept, HistoryTypes

LEMMA PlayerTyped ==
    ASSUME GridInv, RestTypes, NEW h \in PlayerHandlers, PlayerNext(h)
    PROVE  RestTypes'
  <1> DEFINE p == Object[h]
  <1>0. /\ h \in Handlers /\ p \in Players /\ p \in Ids /\ pos[p] \in Positions
    BY IdFacts DEF GridInv, GridTypes
  <1> HIDE DEF p
  <1> USE DEF RestTypes
  <1>1. ASSUME NEW at \in Spawns, Login(h, at) PROVE RestTypes'
    <2>1. moves' \in 0..MaxMoves
      BY <1>1, WorldAssumption DEF Login, HistoryTypes
    <2>2. alone' \in [Handlers -> BOOLEAN] /\ overlapped' \in BOOLEAN
      BY <1>0, <1>1, StartsTyped DEF Login
    <2> QED
      BY <1>1, <2>1, <2>2 DEF Login, ListTypes, LocalTypes, HistoryTypes
  <1>2. CASE InsertID(h)
    BY <1>2 DEF InsertID, ListTypes, LocalTypes, HistoryTypes, counters
  <1>3. CASE Enter(h)
    <2>1. GetNearSectorIndexes(pos[p]) \subseteq SectorIndexes
      BY <1>0, NearInGrid
    <2> QED
      BY <1>0, <1>3, <2>1
      DEF Enter, ListTypes, LocalTypes, HistoryTypes, counters, history, p
  <1>4. CASE \/ \E direction \in 0..3 : Move(h, direction)
             \/ \E x \in 0..Width - 1 : Teleport(h, x)
    <2>1. moves' \in 0..MaxMoves
      <3>1. moves < MaxMoves /\ moves' = moves + 1
        BY <1>4 DEF Move, Teleport
      <3> QED
        BY <3>1, WorldAssumption DEF HistoryTypes
    <2>2. alone' \in [Handlers -> BOOLEAN] /\ overlapped' \in BOOLEAN
      BY <1>0, <1>4, StartsTyped DEF Move, Teleport
    <2> QED
      BY <1>4, <2>1, <2>2 DEF Move, Teleport, ListTypes, LocalTypes, HistoryTypes
  <1>5. CASE \E y \in 0..Height - 1 : TeleportY(h, y)
    BY <1>5 DEF TeleportY, ListTypes, LocalTypes, HistoryTypes, counters, history
  <1>6. CASE \E s \in SectorIndexes : ReadSector(h, s)
    BY <1>0, <1>6 DEF ReadSector, ListTypes, LocalTypes, HistoryTypes, counters, history,
                      GridInv, GridTypes
  <1>7. ASSUME NEW o \in Ids, Look(h, o) PROVE RestTypes'
    <2>1. Lists(h, p, o)
      BY <1>7 DEF Look, Lists, p
    <2>2. armed' \in [Npcs -> [Players -> Nat]]
      <3>1. UNCHANGED armed \/ (o \in Npcs /\ ActivateNPC(o, p))
        BY <1>7 DEF Look, p
      <3> QED
        BY <1>0, <3>1, ActivateTyped DEF LocalTypes
    <2>3. near' \in [Handlers -> SUBSET Ids] /\ who' \in [Handlers -> Ids \cup {None}]
          /\ cand' \in [Handlers -> SUBSET Ids]
      BY <1>0, <1>7 DEF Look, LocalTypes
    <2> QED
      BY <1>0, <1>7, <2>1, <2>2, <2>3, ListsTyped DEF Look, LocalTypes, HistoryTypes, counters
  <1>8. CASE Tell(h)
    <2> DEFINE o == who[h]
    <2>1. o \in Ids /\ who' = [who EXCEPT ![h] = None]
      BY <1>0, <1>8 DEF Tell, LocalTypes
    <2>2. /\ o \in Npcs => UNCHANGED <<view, out, crossed>>
          /\ o \notin Npcs => Lists(h, o, p) /\ UNCHANGED armed
          /\ UNCHANGED armed \/ (o \in Npcs /\ ActivateNPC(o, p))
      BY <1>8 DEF Tell, Lists, p
    <2> HIDE DEF o
    <2>3. ListTypes'
      BY <1>0, <2>1, <2>2, ListsTyped DEF Ids, ListTypes
    <2>4. armed' \in [Npcs -> [Players -> Nat]]
      BY <1>0, <2>2, ActivateTyped DEF LocalTypes
    <2> QED
      BY <1>0, <1>8, <2>1, <2>3, <2>4 DEF Tell, LocalTypes, HistoryTypes, counters
  <1>9. CASE Scanned(h) \/ EnterRefused(h)
    <2>1. LocalTypes'
      <3>1. CASE Finish(h)
        BY <1>0, <1>9, <3>1, FinishTyped DEF Scanned, EnterRefused, LocalTypes
      <3>2. CASE Scanned(h) /\ ~Entering(h)
        BY <1>0, <3>2 DEF Scanned, LocalTypes, ListTypes, p
      <3> QED
        BY <1>9, <3>1, <3>2 DEF Scanned, EnterRefused
    <2> QED
      BY <1>9, <2>1 DEF Scanned, EnterRefused, ListTypes, HistoryTypes, counters, history
  <1>10. ASSUME NEW o \in Ids, PlayerSight(h, o) \/ PlayerGone(h, o) PROVE RestTypes'
    <2>1. Lists(h, p, o)
      BY <1>10 DEF PlayerSight, PlayerGone, Lists, p
    <2>2. LocalTypes'
      BY <1>0, <1>10 DEF PlayerSight, PlayerGone, LocalTypes
    <2> QED
      BY <1>0, <1>10, <2>1, <2>2, ListsTyped
      DEF PlayerSight, PlayerGone, HistoryTypes, counters
  <1>11. CASE PlayerMoved(h)
    <2>1. LocalTypes'
      BY <1>0, <1>11, FinishTyped DEF PlayerMoved, LocalTypes
    <2> QED
      BY <1>11, <2>1 DEF PlayerMoved, ListTypes, HistoryTypes, counters, history
  <1>12. CASE Leave(h)
    <2>1. view[p] \cap Players \in SUBSET Ids
      BY <1>0 DEF ListTypes
    <2>2. LocalTypes'
      BY <1>0, <1>12, <2>1 DEF Leave, LocalTypes, p
    <2>3. moves' \in 0..MaxMoves
      BY <1>12, WorldAssumption DEF Leave, HistoryTypes
    <2>4. alone' \in [Handlers -> BOOLEAN] /\ overlapped' \in BOOLEAN
      BY <1>0, <1>12, StartsTyped DEF Leave
    <2> QED
      BY <1>12, <2>2, <2>3, <2>4 DEF Leave, ListTypes, HistoryTypes
  <1>13. CASE Left(h)
    <2>1. LocalTypes'
      BY <1>0, <1>13, FinishTyped DEF Left, LocalTypes
    <2> QED
      BY <1>0, <1>13, <2>1 DEF Left, ListTypes, HistoryTypes, counters, history
  <1>14. ASSUME NEW o \in Players, LeaveView(h, o) PROVE RestTypes'
    <2>1. Lists(h, o, p)
      BY <1>14 DEF LeaveView, Lists, p
    <2>2. LocalTypes'
      BY <1>0, <1>14 DEF LeaveView, LocalTypes
    <2> QED
      BY <1>0, <1>14, <2>1, <2>2, ListsTyped DEF LeaveView, HistoryTypes, counters
  <1> QED
    BY <1>1, <1>2, <1>3, <1>4, <1>5, <1>6, <1>7, <1>8, <1>9, <1>10, <1>11,
       <1>12, <1>13, <1>14 DEF PlayerNext

LEMMA NpcTyped ==
    ASSUME GridInv, RestTypes, NEW h \in NpcHandlers, NpcNext(h)
    PROVE  RestTypes'
  <1> DEFINE n == Object[h]
  <1>0. h \in Handlers /\ n \in Npcs /\ n \in Ids /\ Players \subseteq Ids
    BY IdFacts
  <1> HIDE DEF n
  <1> USE DEF RestTypes
  <1>1. ASSUME NEW p \in Players, MoveNPC(h, p) PROVE RestTypes'
    <2>1. armed' \in [Npcs -> [Players -> Nat]]
      BY <1>0, <1>1, TakeMoveTyped DEF MoveNPC, n
    <2>2. alone' \in [Handlers -> BOOLEAN] /\ overlapped' \in BOOLEAN
      BY <1>0, <1>1, StartsTyped DEF MoveNPC
    <2> QED
      BY <1>0, <1>1, <2>1, <2>2 DEF MoveNPC, ListTypes, LocalTypes, HistoryTypes, counters
  <1>2. CASE NpcStep(h)
    BY <1>2 DEF NpcStep, ListTypes, LocalTypes, HistoryTypes, counters, history
  <1>3. CASE NpcMoved(h)
    BY <1>0, <1>3 DEF NpcMoved, ListTypes, LocalTypes, HistoryTypes, counters, history
  <1>4. CASE Sleep(h)
    <2>1. LocalTypes'
      BY <1>0, <1>4, FinishTyped DEF Sleep, LocalTypes
    <2> QED
      BY <1>4, <2>1 DEF Sleep, ListTypes, HistoryTypes, counters, history
  <1>5. ASSUME NEW p \in Players, NpcOld(h, p) \/ NpcNew(h, p) PROVE RestTypes'
    <2>1. p \in Ids
      BY <1>0
    <2>2. /\ cand' \in [Handlers -> SUBSET Ids] /\ list' \in [Handlers -> SUBSET Ids]
          /\ near' \in [Handlers -> SUBSET Ids]
      BY <1>0, <1>5, <2>1 DEF NpcOld, NpcNew, LocalTypes
    <2> QED
      BY <1>5, <2>2 DEF NpcOld, NpcNew, ListTypes, LocalTypes, HistoryTypes, counters, history
  <1>6. ASSUME NEW p \in Players, NpcSight(h, p) \/ NpcGone(h, p) \/ ReviveLook(h, p)
        PROVE  RestTypes'
    <2>1. Lists(h, p, n)
      BY <1>6 DEF NpcSight, NpcGone, ReviveLook, Lists, n
    <2>2. LocalTypes'
      BY <1>0, <1>6 DEF NpcSight, NpcGone, ReviveLook, LocalTypes
    <2> QED
      BY <1>0, <1>6, <2>1, <2>2, ListsTyped
      DEF NpcSight, NpcGone, ReviveLook, HistoryTypes, counters
  <1>7. CASE (\E p \in Players : Keep(h, p)) \/ Revived(h)
    <2>1. armed' \in [Npcs -> [Players -> Nat]]
      <3>1. AddMove(n, target[h]) \/ UNCHANGED armed
        BY <1>7 DEF Keep, Revived, n
      <3>2. target[h] \in Players \cup {None}
        BY <1>0 DEF LocalTypes
      <3> QED
        BY <1>0, <3>1, <3>2, AddMoveTyped DEF LocalTypes
    <2>2. LocalTypes'
      <3>1. CASE Finish(h)
        BY <1>0, <1>7, <2>1, <3>1, FinishTyped DEF Keep, Revived, LocalTypes
      <3>2. CASE ~Finish(h)
        BY <1>0, <1>7, <2>1, <3>2 DEF Keep, Revived, LocalTypes
      <3> QED
        BY <3>1, <3>2
    <2> QED
      BY <1>7, <2>2 DEF Keep, Revived, ListTypes, HistoryTypes, counters, history
  <1>8. CASE ReviveNPC(h)
    <2>1. revivals' \in 0..MaxRevivals
      BY <1>8, WorldAssumption DEF ReviveNPC, HistoryTypes
    <2>2. alone' \in [Handlers -> BOOLEAN] /\ overlapped' \in BOOLEAN
      BY <1>0, <1>8, StartsTyped DEF ReviveNPC
    <2> QED
      BY <1>0, <1>8, <2>1, <2>2 DEF ReviveNPC, ListTypes, LocalTypes, HistoryTypes
  <1> QED
    BY <1>1, <1>2, <1>3, <1>4, <1>5, <1>6, <1>7, <1>8 DEF NpcNext

LEMMA TypesNext ==
    ASSUME GridInv, RestTypes, [Next]_vars
    PROVE  RestTypes'
  <1> USE DEF RestTypes
  <1>1. ASSUME NEW h \in Handlers, Send(h) PROVE RestTypes'
    <2>1. out[h] \in Messages
      BY <1>1 DEF Send, ListTypes
    <2>2. out[h].to \in Players /\ out[h].obj \in Ids
      BY <2>1 DEF Messages
    <2>3. shown' \in [Players -> SUBSET Ids]
      BY <1>1, <2>2 DEF Send, HistoryTypes
    <2> QED
      BY <1>1, <2>3 DEF Send, ListTypes, LocalTypes, HistoryTypes, counters, history
  <1>2. ASSUME NEW h \in Handlers, ReadNext(h) \/ MoveID(h) PROVE RestTypes'
    <2>1. GetNearSectorIndexes(pos[Object[h]]) \subseteq SectorIndexes
      BY NearInGrid, IdFacts DEF GridInv, GridTypes
    <2>2. LocalTypes'
      BY <1>2, <2>1, IdFacts DEF ReadNext, MoveID, LocalTypes
    <2> QED
      BY <1>2, <2>2 DEF ReadNext, MoveID, ListTypes, HistoryTypes, counters, history
  <1>3. ASSUME NEW n \in Npcs, NEW p \in Players, DropMove(n, p) PROVE RestTypes'
    <2>1. armed' \in [Npcs -> [Players -> Nat]]
      BY <1>3, TakeMoveTyped DEF DropMove
    <2> QED
      BY <1>3, <2>1 DEF DropMove, ListTypes, LocalTypes, HistoryTypes, locals, counters, history
  <1>4. CASE UNCHANGED vars
    BY <1>4 DEF vars, locals, counters, history, ListTypes, LocalTypes, HistoryTypes
  <1> QED
    BY <1>1, <1>2, <1>3, <1>4, AcceptTyped, PlayerTyped, NpcTyped DEF Next

LEMMA TypesInit == Init => RestTypes
  <1> SUFFICES ASSUME Init PROVE RestTypes
    OBVIOUS
  <1>1. ListTypes
    BY DEF Init, ListTypes
  <1>2. LocalTypes
    BY DEF Init, LocalTypes
  <1>3. HistoryTypes
    <2>1. 0 \in 0..MaxMoves /\ 0 \in 0..MaxSessions /\ 0 \in 0..MaxRevivals
      BY WorldAssumption
    <2> QED
      BY <2>1 DEF Init, HistoryTypes
  <1> QED
    BY <1>1, <1>2, <1>3 DEF RestTypes

(* Every variable keeps its type: in particular the sectors a handler has  *)
(* still to read are sectors of the grid (GetNearSectorIndexes), and the   *)
(* NPC's pending moves are counted down only as often as they were armed.  *)
THEOREM WorldTypes == Spec => []TypeOK
  <1>1. GridInv /\ RestTypes => TypeOK
    BY DEF GridInv, GridTypes, RestTypes, ListTypes, LocalTypes, HistoryTypes, TypeOK
  <1> QED
    BY <1>1, GridInvInit, GridInvNext, TypesInit, TypesNext, PTL DEF Spec

-----------------------------------------------------------------------------
(* What a client displays.  As long as nothing went wrong about an object, *)
(* at most one message about it is under way, it says what the list says,  *)
(* and when there is none the client displays what is listed.              *)

About(h, p, o) == out[h].to = p /\ out[h].obj = o
Clean(p, o) == state[p] # "FREE" /\ <<p, o>> \notin crossed \cup inherited
Told(p, o) ==
    /\ \A g, h \in Handlers : About(g, p, o) /\ About(h, p, o) => g = h
    /\ \A h \in Handlers : About(h, p, o) => (o \in view[p] <=> out[h].kind = "put")
    /\ (\A h \in Handlers : ~About(h, p, o)) => (o \in shown[p] <=> o \in view[p])
ToldInv == \A p \in Players, o \in Ids : Clean(p, o) => Told(p, o)

LEMMA ToldQuiet ==
    ASSUME ToldInv, UNCHANGED <<view, out, crossed, inherited>>,
           \A p \in Players : state'[p] # "FREE" => state[p] # "FREE" /\ shown'[p] = shown[p]
    PROVE  ToldInv'
  <1>1. ASSUME NEW p \in Players, NEW o \in Ids, Clean(p, o)' PROVE Told(p, o)'
    <2>1. Clean(p, o) /\ shown'[p] = shown[p]
      BY <1>1 DEF Clean
    <2>2. Told(p, o)
      BY <2>1 DEF ToldInv
    <2> QED
      BY <2>1, <2>2 DEF Told, About
  <1> QED
    BY <1>1 DEF ToldInv

LEMMA NoMsgFacts == NoMsg.to \notin Players /\ NoMsg \notin Messages
  BY WorldAssumption DEF NoMsg, Messages

LEMMA ToldListed ==
    ASSUME RestTypes, ToldInv, NEW h \in Handlers, out[h] = NoMsg,
           NEW to \in Players, NEW obj \in Ids, Lists(h, to, obj),
           UNCHANGED <<shown, inherited>>,
           \A p \in Players : state'[p] # "FREE" => state[p] # "FREE"
    PROVE  ToldInv'
  <1>1. CASE UNCHANGED <<view, out, crossed>>
    BY <1>1, ToldQuiet
  <1>2. ASSUME NEW kind \in {"put", "remove"},
               out' = [out EXCEPT ![h] = [kind |-> kind, to |-> to, obj |-> obj]],
               view' = [view EXCEPT ![to] = IF kind = "put" THEN @ \cup {obj} ELSE @ \ {obj}],
               Crosses(h, to, obj)
        PROVE  ToldInv'
    <2>1. /\ out'[h] = [kind |-> kind, to |-> to, obj |-> obj]
          /\ \A g \in Handlers \ {h} : out'[g] = out[g]
          /\ obj \in view'[to] <=> kind = "put"
          /\ \A p \in Players, o \in Ids : <<p, o>> # <<to, obj>> =>
                 (o \in view'[p] <=> o \in view[p])
      BY <1>2 DEF RestTypes, ListTypes
    <2>2. /\ crossed \subseteq crossed'
          /\ (\E g \in Handlers \ {h} : About(g, to, obj)) => <<to, obj>> \in crossed'
      BY <1>2 DEF Crosses, About
    <2>3. ASSUME NEW p \in Players, NEW o \in Ids, Clean(p, o)' PROVE Told(p, o)'
      <3>1. Clean(p, o)
        BY <2>2, <2>3 DEF Clean
      <3>2. Told(p, o)
        BY <3>1 DEF ToldInv
      <3>3. CASE <<p, o>> = <<to, obj>>
        <4>1. \A g \in Handlers \ {h} : ~About(g, p, o)
          BY <2>2, <2>3, <3>3 DEF Clean
        <4>2. \A g \in Handlers \ {h} : ~About(g, p, o)'
          BY <2>1, <4>1 DEF About
        <4>3. About(h, p, o)' /\ (o \in view'[p] <=> out'[h].kind = "put")
          BY <2>1, <3>3 DEF About
        <4> QED
          BY <4>2, <4>3 DEF Told
      <3>4. CASE <<p, o>> # <<to, obj>>
        <4>1. ~About(h, p, o) /\ ~About(h, p, o)'
          BY <2>1, <3>4, NoMsgFacts DEF About
        <4>2. \A g \in Handlers \ {h} : About(g, p, o)' <=> About(g, p, o)
          BY <2>1 DEF About
        <4>3. \A g \in Handlers : About(g, p, o)' <=> About(g, p, o)
          BY <4>1, <4>2
        <4>4. \A g \in Handlers : About(g, p, o) => out'[g] = out[g]
          BY <2>1, <4>1
        <4> QED
          BY <2>1, <3>2, <3>4, <4>3, <4>4 DEF Told
      <3> QED
        BY <3>3, <3>4
    <2> QED
      BY <2>3 DEF ToldInv
  <1>3. CASE Put(h, to, obj)
    BY <1>2, <1>3 DEF Put
  <1>4. CASE Remove(h, to, obj)
    BY <1>2, <1>4 DEF Remove
  <1> QED
    BY <1>1, <1>3, <1>4 DEF Lists, FindAndInsertViewID, FindAndEraseViewID

LEMMA ToldSent ==
    ASSUME RestTypes, ToldInv, NEW h \in Handlers, Send(h)
    PROVE  ToldInv'
  <1> DEFINE to == out[h].to
             obj == out[h].obj
  <1>1. out[h] \in Messages /\ out[h].kind \in {"put", "remove"} /\ to \in Players /\ obj \in Ids
    BY DEF Send, RestTypes, ListTypes, Messages
  <1>2. /\ out'[h] = NoMsg /\ \A g \in Handlers \ {h} : out'[g] = out[g]
        /\ UNCHANGED <<view, state, crossed, inherited>>
    BY DEF Send, RestTypes, ListTypes, history
  <1>3. /\ state[to] # "FREE" => (obj \in shown'[to] <=> out[h].kind = "put")
        /\ \A p \in Players, o \in Ids : <<p, o>> # <<to, obj>> =>
               (o \in shown'[p] <=> o \in shown[p])
    <2>1. shown \in [Players -> SUBSET Ids]
      BY DEF RestTypes, HistoryTypes
    <2>2. CASE state[to] = "FREE"
      BY <2>2 DEF Send
    <2>3. CASE state[to] # "FREE"
      <3>1. shown' = [shown EXCEPT ![to] = IF out[h].kind = "put" THEN @ \cup {obj}
                                                                   ELSE @ \ {obj}]
        BY <2>3 DEF Send
      <3> HIDE DEF to, obj
      <3> QED
        BY <1>1, <2>1, <3>1
    <2> QED
      BY <2>2, <2>3
  <1> HIDE DEF to, obj
  <1>4. ASSUME NEW p \in Players, NEW o \in Ids, Clean(p, o)' PROVE Told(p, o)'
    <2>1. Clean(p, o) /\ Told(p, o)
      BY <1>2, <1>4 DEF Clean, ToldInv
    <2>2. ~About(h, p, o)'
      BY <1>2, NoMsgFacts DEF About
    <2>3. \A g \in Handlers \ {h} : /\ About(g, p, o)' <=> About(g, p, o)
                              /\ out'[g] = out[g]
      BY <1>2 DEF About
    <2>4. CASE <<p, o>> = <<to, obj>>
      <3>1. About(h, p, o)
        BY <2>4 DEF About, to, obj
      <3>2. \A g \in Handlers : ~About(g, p, o)'
        BY <2>1, <2>2, <2>3, <3>1 DEF Told
      <3>3. o \in shown'[p] <=> out[h].kind = "put"
        BY <1>3, <2>1, <2>4 DEF Clean
      <3>4. o \in view'[p] <=> out[h].kind = "put"
        BY <1>2, <2>1, <3>1 DEF Told
      <3> QED
        BY <3>2, <3>3, <3>4 DEF Told
    <2>5. CASE <<p, o>> # <<to, obj>>
      <3>1. ~About(h, p, o)
        BY <2>5 DEF About, to, obj
      <3>2. \A g \in Handlers : About(g, p, o)' <=> About(g, p, o)
        BY <2>2, <2>3, <3>1
      <3>3. \A g \in Handlers : About(g, p, o) => out'[g] = out[g]
        BY <2>3, <3>1
      <3>4. o \in shown'[p] <=> o \in shown[p]
        BY <1>3, <2>5
      <3> QED
        BY <1>2, <2>1, <3>2, <3>3, <3>4 DEF Told
    <2> QED
      BY <2>4, <2>5
  <1> QED
    BY <1>4 DEF ToldInv

LEMMA ToldAccept ==
    ASSUME RestTypes, GridInv, ToldInv, NEW p \in Players, Accept(p)
    PROVE  ToldInv'
  <1>1. /\ UNCHANGED <<view, out>>
        /\ state' = [state EXCEPT ![p] = "ACCEPT"]
        /\ shown' = [shown EXCEPT ![p] = {}]
        /\ crossed' = {c \in crossed : c[1] # p}
        /\ inherited' = {c \in inherited : c[1] # p} \cup {<<p, o>> : o \in
                view[p] \cup {out[h].obj : h \in {g \in Handlers : out[g].to = p}}}
    BY DEF Accept, locals
  <1>2. ASSUME NEW q \in Players, NEW o \in Ids, Clean(q, o)' PROVE Told(q, o)'
    <2>1. CASE q = p
      <3>1. <<q, o>> \notin inherited'
        BY <1>2 DEF Clean
      <3>2. o \notin view[p] /\ \A h \in Handlers : ~About(h, p, o)
        BY <1>1, <2>1, <3>1 DEF About
      <3>3. shown'[p] = {}
        BY <1>1 DEF RestTypes, HistoryTypes
      <3> QED
        BY <1>1, <2>1, <3>2, <3>3 DEF Told, About
    <2>2. CASE q # p
      <3>1. /\ state'[q] = state[q] /\ shown'[q] = shown[q]
            /\ <<q, o>> \in crossed => <<q, o>> \in crossed'
            /\ <<q, o>> \in inherited => <<q, o>> \in inherited'
        BY <1>1, <2>2, IdFacts DEF RestTypes, HistoryTypes, GridInv, GridTypes
      <3>2. Clean(q, o)
        BY <1>2, <3>1 DEF Clean
      <3>3. Told(q, o)
        BY <3>2 DEF ToldInv
      <3> QED
        BY <1>1, <3>1, <3>3 DEF Told, About
    <2> QED
      BY <2>1, <2>2
  <1> QED
    BY <1>2 DEF ToldInv

LEMMA StoreAlive ==
    ASSUME GridInv, NEW n \in Npcs,
           \/ \E q : ActivateNPC(n, q)
           \/ \E s : state' = [state EXCEPT ![n] = s]
           \/ UNCHANGED state
    PROVE  \A p \in Players : state'[p] = state[p]
  BY IdFacts DEF ActivateNPC, GridInv, GridTypes

LEMMA PlayerTold ==
    ASSUME RestTypes, GridInv, ToldInv, NEW h \in PlayerHandlers, PlayerNext(h)
    PROVE  ToldInv'
  <1> DEFINE p == Object[h]
  <1>0. h \in Handlers /\ p \in Players /\ p \in Ids
    BY IdFacts
  <1> HIDE DEF p
  <1>1. CASE \/ InsertID(h) \/ Scanned(h) \/ PlayerMoved(h) \/ Leave(h) \/ EnterRefused(h)
             \/ \E at \in Spawns : Login(h, at)
             \/ \E direction \in 0..3 : Move(h, direction)
             \/ \E x \in 0..Width - 1 : Teleport(h, x)
             \/ \E y \in 0..Height - 1 : TeleportY(h, y)
             \/ \E s \in SectorIndexes : ReadSector(h, s)
    <2>1. UNCHANGED <<state, shown, view, out, crossed, inherited>>
      BY <1>1 DEF InsertID, Scanned, PlayerMoved, Leave, EnterRefused, Login, Move,
                  Teleport, TeleportY, ReadSector, history
    <2> QED
      BY <2>1, ToldQuiet
  <1>2. CASE Enter(h)
    <2>1. state' = [state EXCEPT ![p] = "INGAME"] /\ state[p] = "ACCEPT"
          /\ UNCHANGED <<shown, view, out, crossed, inherited>>
      BY <1>2 DEF Enter, history, p
    <2>2. \A q \in Players : state'[q] # "FREE" => state[q] # "FREE"
      BY <2>1, IdFacts DEF GridInv, GridTypes
    <2> QED
      BY <2>1, <2>2, ToldQuiet
  <1>3. CASE Left(h)
    <2>1. /\ state' = [state EXCEPT ![p] = "FREE"] /\ shown' = [shown EXCEPT ![p] = {}]
          /\ UNCHANGED <<view, out, crossed, inherited>>
      BY <1>3 DEF Left, history, p
    <2>2. \A q \in Players : state'[q] # "FREE" => state[q] # "FREE" /\ shown'[q] = shown[q]
      BY <2>1, IdFacts DEF GridInv, GridTypes, RestTypes, HistoryTypes
    <2> QED
      BY <2>1, <2>2, ToldQuiet
  <1>4. ASSUME NEW o \in Ids, Look(h, o) PROVE ToldInv'
    <2>1. /\ Lists(h, p, o) /\ out[h] = NoMsg /\ UNCHANGED <<shown, inherited>>
          /\ UNCHANGED state \/ (o \in Npcs /\ ActivateNPC(o, p))
      BY <1>4 DEF Look, Lists, Runs, p
    <2>2. \A q \in Players : state'[q] = state[q]
      BY <2>1, StoreAlive
    <2> QED
      BY <1>0, <2>1, <2>2, ToldListed
  <1>5. CASE Tell(h)
    <2> DEFINE o == who[h]
    <2>1. /\ o # None /\ out[h] = NoMsg /\ UNCHANGED <<shown, inherited>>
          /\ o \in Npcs => UNCHANGED <<view, out, crossed>>
          /\ o \notin Npcs => Lists(h, o, p)
          /\ UNCHANGED state \/ (o \in Npcs /\ ActivateNPC(o, p))
      BY <1>5 DEF Tell, Lists, p
    <2>2. o \in Npcs \/ o \in Players
      BY <1>0, <2>1 DEF RestTypes, LocalTypes, Ids
    <2> HIDE DEF o
    <2>3. \A q \in Players : state'[q] = state[q]
      BY <2>1, StoreAlive
    <2>4. CASE o \in Npcs
      BY <2>1, <2>3, <2>4, ToldQuiet
    <2>5. CASE o \notin Npcs
      BY <1>0, <2>1, <2>2, <2>3, <2>5, ToldListed
    <2> QED
      BY <2>4, <2>5
  <1>6. ASSUME NEW o \in Ids, PlayerSight(h, o) \/ PlayerGone(h, o) PROVE ToldInv'
    <2>1. Lists(h, p, o) /\ out[h] = NoMsg /\ UNCHANGED <<shown, inherited, state>>
      BY <1>6 DEF PlayerSight, PlayerGone, Lists, Runs, p
    <2> QED
      BY <1>0, <2>1, ToldListed
  <1>7. ASSUME NEW o \in Players, LeaveView(h, o) PROVE ToldInv'
    <2>1. Lists(h, o, p) /\ out[h] = NoMsg /\ UNCHANGED <<shown, inherited, state>>
      BY <1>7 DEF LeaveView, Lists, Runs, p
    <2> QED
      BY <1>0, <2>1, ToldListed
  <1> QED
    BY <1>1, <1>2, <1>3, <1>4, <1>5, <1>6, <1>7 DEF PlayerNext

LEMMA NpcTold ==
    ASSUME RestTypes, GridInv, ToldInv, NEW h \in NpcHandlers, NpcNext(h)
    PROVE  ToldInv'
  <1> DEFINE n == Object[h]
  <1>0. h \in Handlers /\ n \in Npcs /\ n \in Ids
    BY IdFacts
  <1> HIDE DEF n
  <1>1. CASE \/ NpcStep(h) \/ NpcMoved(h) \/ Revived(h) \/ Sleep(h) \/ ReviveNPC(h)
             \/ \E p \in Players : MoveNPC(h, p) \/ NpcOld(h, p) \/ NpcNew(h, p) \/ Keep(h, p)
    <2>1. /\ UNCHANGED <<shown, view, out, crossed, inherited>>
          /\ UNCHANGED state \/ \E s : state' = [state EXCEPT ![n] = s]
      BY <1>1 DEF NpcStep, NpcMoved, Revived, Sleep, ReviveNPC, MoveNPC, NpcOld, NpcNew,
                  Keep, history, n
    <2>2. \A p \in Players : state'[p] = state[p]
      BY <1>0, <2>1, StoreAlive
    <2> QED
      BY <2>1, <2>2, ToldQuiet
  <1>2. ASSUME NEW p \in Players, NpcSight(h, p) \/ NpcGone(h, p) \/ ReviveLook(h, p)
        PROVE  ToldInv'
    <2>1. Lists(h, p, n) /\ out[h] = NoMsg /\ UNCHANGED <<shown, inherited, state>>
      BY <1>2 DEF NpcSight, NpcGone, ReviveLook, Lists, Runs, n
    <2> QED
      BY <1>0, <2>1, ToldListed
  <1> QED
    BY <1>1, <1>2 DEF NpcNext

LEMMA ToldNext ==
    ASSUME RestTypes, GridInv, ToldInv, [Next]_vars
    PROVE  ToldInv'
  <1>1. CASE \/ \E h \in Handlers : ReadNext(h) \/ MoveID(h)
             \/ \E n \in Npcs, p \in Players : DropMove(n, p)
             \/ UNCHANGED vars
    <2>1. UNCHANGED <<state, shown, view, out, crossed, inherited>>
      BY <1>1 DEF ReadNext, MoveID, DropMove, vars, locals, history
    <2> QED
      BY <2>1, ToldQuiet
  <1> QED
    BY <1>1, ToldSent, ToldAccept, PlayerTold, NpcTold DEF Next

(* The client of a player in game displays exactly what the view list of   *)
(* the player says, however handlers interleave, those of one player or    *)
(* NPC too, except about an object whose messages two handlers sent in the *)
(* wrong order (InsertViewID and SendPutObjectPacket are two steps) or     *)
(* that the slot had listed before.                                        *)
THEOREM ShownIsAlwaysView == Spec => []ShownIsView
  <1>1. Init => ToldInv
    <2>1. Init => \A p \in Players : state[p] = "FREE"
      BY IdFacts DEF Init
    <2> QED
      BY <2>1 DEF ToldInv, Clean
  <1>2. ToldInv => ShownIsView
    <2>1. ASSUME ToldInv, NEW p \in Players, state[p] = "INGAME", NEW o \in Ids,
                 <<p, o>> \notin crossed \cup inherited,
                 \A h \in Handlers : out[h].to # p \/ out[h].obj # o
          PROVE  o \in shown[p] <=> o \in view[p]
      <3>1. Told(p, o)
        BY <2>1 DEF ToldInv, Clean
      <3> QED
        BY <2>1, <3>1 DEF Told, About
    <2> QED
      BY <2>1 DEF ShownIsView
  <1> QED
    BY <1>1, <1>2, GridInvInit, GridInvNext, TypesInit, TypesNext, ToldNext, PTL DEF Spec
-----------------------------------------------------------------------------
(* Handlers that run alone.  A step belongs to one handler, and leaves the *)
(* local variables of all others as they are; or it is an accept, or the   *)
(* end of a chain of moves, which no handler knows of.                     *)

Acts(h) == \/ Send(h) \/ ReadNext(h) \/ MoveID(h)
           \/ h \in PlayerHandlers /\ PlayerNext(h)
           \/ h \in NpcHandlers /\ NpcNext(h)
Aside == \/ \E p \in Players : Accept(p)
         \/ \E n \in Npcs, p \in Players : DropMove(n, p)

LEMMA NextActs == Next => (\E h \in Handlers : Acts(h)) \/ Aside
  BY IdFacts DEF Next, Acts, Aside

\* What a step of another handler leaves alone of g.
Untouched(g) ==
    /\ pc'[g] = pc[g] /\ secs'[g] = secs[g] /\ cand'[g] = cand[g]
    /\ near'[g] = near[g] /\ list'[g] = list[g] /\ target'[g] = target[g]
    /\ who'[g] = who[g] /\ out'[g] = out[g]

LEMMA ListsUntouched ==
    ASSUME RestTypes, NEW h \in Handlers, NEW to, NEW obj, Lists(h, to, obj)
    PROVE  \A g \in Handlers \ {h} : out'[g] = out[g]
  BY DEF Lists, Put, Remove, FindAndInsertViewID, FindAndEraseViewID, RestTypes, ListTypes

LEMMA PlayerUntouched ==
    ASSUME RestTypes, GridTypes, NEW h \in PlayerHandlers, PlayerNext(h),
           NEW g \in Handlers \ {h}
    PROVE  Untouched(g)
  <1> DEFINE p == Object[h]
  <1>0. h \in Handlers
    BY IdFacts
  <1> USE DEF RestTypes, ListTypes, LocalTypes, GridTypes, Untouched
  <1>1. CASE \/ \E at \in Spawns : Login(h, at)
             \/ InsertID(h) \/ Enter(h) \/ Leave(h)
    BY <1>0, <1>1 DEF Login, InsertID, Enter, Leave, GoTo
  <1>2. CASE \/ \E direction \in 0..3 : Move(h, direction)
             \/ \E x \in 0..Width - 1 : Teleport(h, x)
             \/ \E y \in 0..Height - 1 : TeleportY(h, y)
             \/ \E s \in SectorIndexes : ReadSector(h, s)
    BY <1>0, <1>2 DEF Move, Teleport, TeleportY, ReadSector, GoTo
  <1>3. CASE Scanned(h) \/ PlayerMoved(h) \/ Left(h) \/ EnterRefused(h)
    BY <1>0, <1>3 DEF Scanned, PlayerMoved, Left, EnterRefused, Finish, GoTo
  <1>4. ASSUME NEW o \in Ids, Look(h, o) PROVE Untouched(g)
    <2>1. out'[g] = out[g]
      <3>1. Lists(h, p, o)
        BY <1>4 DEF Look, Lists
      <3> QED
        BY <1>0, <3>1, ListsUntouched
    <2>2. near'[g] = near[g] /\ who'[g] = who[g] /\ cand'[g] = cand[g]
      BY <1>0, <1>4 DEF Look
    <2> QED
      BY <1>0, <1>4, <2>1, <2>2 DEF Look
  <1>5. ASSUME NEW o \in Ids, PlayerSight(h, o) \/ PlayerGone(h, o) PROVE Untouched(g)
    <2>1. out'[g] = out[g]
      <3>1. Lists(h, p, o)
        BY <1>5 DEF PlayerSight, PlayerGone, Lists
      <3> QED
        BY <1>0, <3>1, ListsUntouched
    <2> QED
      BY <1>0, <1>5, <2>1 DEF PlayerSight, PlayerGone
  <1>6. CASE Tell(h)
    <2>1. out'[g] = out[g]
      <3>1. Lists(h, who[h], p)
        BY <1>6 DEF Tell, Lists
      <3> QED
        BY <1>0, <3>1, ListsUntouched
    <2> QED
      BY <1>0, <1>6, <2>1 DEF Tell
  <1>7. ASSUME NEW o \in Players, LeaveView(h, o) PROVE Untouched(g)
    <2>1. out'[g] = out[g]
      <3>1. Lists(h, o, p)
        BY <1>7 DEF LeaveView, Lists
      <3> QED
        BY <1>0, <3>1, ListsUntouched
    <2> QED
      BY <1>0, <1>7, <2>1 DEF LeaveView
  <1> QED
    BY <1>1, <1>2, <1>3, <1>4, <1>5, <1>6, <1>7 DEF PlayerNext

LEMMA NpcUntouched ==
    ASSUME RestTypes, GridTypes, NEW h \in NpcHandlers, NpcNext(h), NEW g \in Handlers \ {h}
    PROVE  Untouched(g)
  <1>0. h \in Handlers
    BY IdFacts
  <1> USE DEF RestTypes, ListTypes, LocalTypes, GridTypes, Untouched
  <1>1. CASE NpcStep(h) \/ NpcMoved(h) \/ ReviveNPC(h) \/ \E p \in Players : MoveNPC(h, p)
    BY <1>0, <1>1 DEF MoveNPC, NpcStep, NpcMoved, ReviveNPC, GoTo
  <1>2. CASE Sleep(h) \/ Revived(h) \/ \E p \in Players : Keep(h, p)
    BY <1>0, <1>2 DEF Sleep, Revived, Keep, Finish, GoTo
  <1>3. CASE \E p \in Players : NpcOld(h, p) \/ NpcNew(h, p)
    BY <1>0, <1>3 DEF NpcOld, NpcNew
  <1>4. ASSUME NEW p \in Players, NpcSight(h, p) \/ NpcGone(h, p) \/ ReviveLook(h, p)
        PROVE  Untouched(g)
    <2>1. out'[g] = out[g]
      <3>1. Lists(h, p, Object[h])
        BY <1>4 DEF NpcSight, NpcGone, ReviveLook, Lists
      <3> QED
        BY <1>0, <3>1, ListsUntouched
    <2>2. target'[g] = target[g]
      BY <1>0, <1>4 DEF NpcSight, NpcGone, ReviveLook
    <2> QED
      BY <1>0, <1>4, <2>1, <2>2 DEF NpcSight, NpcGone, ReviveLook
  <1> QED
    BY <1>1, <1>2, <1>3, <1>4 DEF NpcNext

LEMMA ActsUntouched ==
    ASSUME RestTypes, GridTypes, NEW h \in Handlers, Acts(h), NEW g \in Handlers \ {h}
    PROVE  Untouched(g)
  <1>1. CASE Send(h) \/ ReadNext(h) \/ MoveID(h)
    BY <1>1 DEF Send, ReadNext, MoveID, GoTo, RestTypes, ListTypes, LocalTypes, GridTypes,
                Untouched
  <1> QED
    BY <1>1, PlayerUntouched, NpcUntouched DEF Acts

\* Nor does it move another object.
LEMMA ActsStand ==
    ASSUME GridTypes, NEW h \in Handlers, Acts(h), NEW j \in Ids, j # Object[h]
    PROVE  pos'[j] = pos[j]
  <1>1. CASE Send(h) \/ ReadNext(h) \/ MoveID(h)
    BY <1>1 DEF Send, ReadNext, MoveID
  <1>2. CASE h \in PlayerHandlers /\ PlayerNext(h)
    <2>1. CASE \/ \E at \in Spawns : Login(h, at)
               \/ \E direction \in 0..3 : Move(h, direction)
               \/ \E x \in 0..Width - 1 : Teleport(h, x)
               \/ \E y \in 0..Height - 1 : TeleportY(h, y)
      BY <2>1 DEF Login, Move, Teleport, TeleportY, GridTypes
    <2>2. CASE \/ InsertID(h) \/ Enter(h) \/ EnterRefused(h) \/ Tell(h) \/ Scanned(h)
               \/ PlayerMoved(h) \/ Leave(h) \/ Left(h)
               \/ \E s \in SectorIndexes : ReadSector(h, s)
               \/ \E o \in Ids : Look(h, o) \/ PlayerSight(h, o) \/ PlayerGone(h, o)
               \/ \E o \in Players : LeaveView(h, o)
      BY <2>2 DEF InsertID, Enter, EnterRefused, Tell, Scanned, PlayerMoved, Leave, Left,
                  ReadSector, Look, PlayerSight, PlayerGone, LeaveView
    <2> QED
      BY <1>2, <2>1, <2>2 DEF PlayerNext
  <1>3. CASE h \in NpcHandlers /\ NpcNext(h)
    BY <1>3 DEF NpcNext, NpcStep, NpcMoved, Sleep, ReviveNPC, Revived, MoveNPC, NpcOld,
                NpcNew, NpcSight, NpcGone, Keep, ReviveLook, GridTypes
  <1> QED
    BY <1>1, <1>2, <1>3 DEF Acts

(* A handler at its start and, of a player, until it reads the sectors has *)
(* nothing to send and an empty memory; nor does the scan of a move send.  *)
Quiet(h) == out[h] = NoMsg /\ who[h] = None
Fresh(h) ==
    /\ pc[h] = "idle" => /\ Quiet(h) /\ near[h] = {} /\ list[h] = {}
                         /\ cand[h] = {} /\ target[h] = None
    /\ h \in PlayerHandlers /\ pc[h] \in {"insert", "enter", "teleport", "moveid", "relist"} =>
           Quiet(h) /\ near[h] = {} /\ list[h] = {}
    /\ h \in PlayerHandlers /\ pc[h] = "scan" /\ ~Entering(h) => Quiet(h)
    /\ h \in PlayerHandlers /\ who[h] # None => pc[h] \in {"scan", "update"}
    /\ h \in NpcHandlers /\ pc[h] \in {"old", "moveid", "relist"} => near[h] = {}
FreshInv == \A h \in Handlers : Fresh(h)

LEMMA PlayerFresh ==
    ASSUME RestTypes, GridTypes, NEW h \in PlayerHandlers, Fresh(h), PlayerNext(h)
    PROVE  Fresh(h)'
  <1>0. h \in Handlers /\ h \notin NpcHandlers
    BY IdFacts
  <1> USE DEF RestTypes, ListTypes, LocalTypes, GridTypes, Fresh, Quiet, Entering
  <1>1. CASE \/ \E at \in Spawns : Login(h, at)
             \/ InsertID(h) \/ Enter(h) \/ Leave(h)
    BY <1>0, <1>1 DEF Login, InsertID, Enter, Leave, GoTo, Runs, Starts
  <1>2. CASE \/ \E direction \in 0..3 : Move(h, direction)
             \/ \E x \in 0..Width - 1 : Teleport(h, x)
             \/ \E y \in 0..Height - 1 : TeleportY(h, y)
             \/ \E s \in SectorIndexes : ReadSector(h, s)
    BY <1>0, <1>2 DEF Move, Teleport, TeleportY, ReadSector, GoTo, Runs, Starts
  <1>3. CASE Scanned(h) \/ PlayerMoved(h) \/ Left(h) \/ EnterRefused(h)
    BY <1>0, <1>3 DEF Scanned, PlayerMoved, Left, EnterRefused, Finish, GoTo, Runs
  <1>4. CASE \E o \in Ids : Look(h, o)
    BY <1>0, <1>4 DEF Look, Runs
  <1>5. CASE \E o \in Ids : PlayerSight(h, o) \/ PlayerGone(h, o)
    BY <1>0, <1>5 DEF PlayerSight, PlayerGone, Runs
  <1>6. CASE Tell(h)
    BY <1>0, <1>6 DEF Tell
  <1>7. CASE \E o \in Players : LeaveView(h, o)
    BY <1>0, <1>7 DEF LeaveView, Runs
  <1> QED
    BY <1>1, <1>2, <1>3, <1>4, <1>5, <1>6, <1>7 DEF PlayerNext

LEMMA NpcFresh ==
    ASSUME RestTypes, GridTypes, NEW h \in NpcHandlers, Fresh(h), NpcNext(h)
    PROVE  Fresh(h)'
  <1>0. h \in Handlers /\ h \notin PlayerHandlers
    BY IdFacts
  <1> USE DEF RestTypes, ListTypes, LocalTypes, GridTypes, Fresh, Quiet
  <1>1. CASE NpcStep(h) \/ NpcMoved(h) \/ ReviveNPC(h) \/ \E p \in Players : MoveNPC(h, p)
    BY <1>0, <1>1 DEF MoveNPC, NpcStep, NpcMoved, ReviveNPC, GoTo, Runs, Starts
  <1>2. CASE Sleep(h) \/ Revived(h) \/ \E p \in Players : Keep(h, p)
    BY <1>0, <1>2 DEF Sleep, Revived, Keep, Finish, GoTo, Runs
  <1>3. CASE \E p \in Players : \/ NpcOld(h, p) \/ NpcNew(h, p) \/ NpcSight(h, p)
                               \/ NpcGone(h, p) \/ ReviveLook(h, p)
    BY <1>0, <1>3 DEF NpcOld, NpcNew, NpcSight, NpcGone, ReviveLook, Runs
  <1> QED
    BY <1>1, <1>2, <1>3 DEF NpcNext

LEMMA AsideSame ==
    ASSUME Aside
    PROVE  UNCHANGED <<pos, grid, view, pc, target, secs, cand, near, list, who, out, strays>>
  BY DEF Aside, Accept, DropMove, locals, history

LEMMA FreshNext ==
    ASSUME RestTypes, GridTypes, FreshInv, [Next]_vars
    PROVE  FreshInv'
  <1>1. ASSUME NEW h \in Handlers, Acts(h) PROVE FreshInv'
    <2>1. ASSUME NEW g \in Handlers \ {h} PROVE Fresh(g)'
      BY <1>1, ActsUntouched DEF Untouched, FreshInv, Fresh, Quiet, Entering
    <2>2. Fresh(h)'
      <3>1. CASE Send(h) \/ ReadNext(h) \/ MoveID(h)
        BY <3>1, IdFacts DEF Send, ReadNext, MoveID, FreshInv, Fresh, Quiet, Entering, GoTo,
                    Runs, RestTypes, ListTypes, LocalTypes, GridTypes, PlayerHandlers,
                    NpcHandlers
      <3> QED
        BY <1>1, <3>1, PlayerFresh, NpcFresh DEF Acts, FreshInv
    <2> QED
      BY <2>1, <2>2 DEF FreshInv
  <1>2. CASE UNCHANGED vars \/ Aside
    <2>1. UNCHANGED <<pc, target, cand, near, list, who, out>>
      BY <1>2, AsideSame DEF vars, locals
    <2> QED
      BY <2>1 DEF FreshInv, Fresh, Quiet, Entering
  <1> QED
    BY <1>1, <1>2, NextActs

(* A step of an idle handler starts it, and only then do the histories of  *)
(* running alone change.                                                   *)
Idle == \A g \in Handlers : pc[g] = "idle"
Begins(h) == /\ \A g \in Handlers \ {h} : ~alone'[g]
             /\ alone'[h] => Idle
             /\ ~overlapped' => ~overlapped /\ Idle
             /\ Idle => alone'[h]

LEMMA StartsAlone ==
    ASSUME NEW h \in Handlers, NEW astray, Starts(h, astray)
    PROVE  Begins(h)
  BY DEF Starts, Busy, Begins, Idle

LEMMA IdleStarts ==
    ASSUME FreshInv, NEW h \in Handlers, Acts(h), pc[h] = "idle"
    PROVE  Begins(h)
  <1> USE DEF FreshInv, Fresh, Quiet
  <1>1. ~Send(h) /\ ~ReadNext(h) /\ ~MoveID(h)
    BY DEF Send, ReadNext, MoveID, Runs
  <1>2. ASSUME h \in PlayerHandlers, PlayerNext(h) PROVE Begins(h)
    <2>1. /\ ~Tell(h) /\ ~InsertID(h) /\ ~Enter(h) /\ ~EnterRefused(h) /\ ~Scanned(h)
          /\ ~PlayerMoved(h) /\ ~Left(h)
      BY DEF Tell, InsertID, Enter, EnterRefused, Scanned, PlayerMoved, Left, Runs
    <2>2. /\ ~\E y \in 0..Height - 1 : TeleportY(h, y)
          /\ ~\E s \in SectorIndexes : ReadSector(h, s)
          /\ ~\E o \in Ids : Look(h, o) \/ PlayerSight(h, o) \/ PlayerGone(h, o)
          /\ ~\E o \in Players : LeaveView(h, o)
      BY DEF TeleportY, ReadSector, Look, PlayerSight, PlayerGone, LeaveView, Runs
    <2> QED
      BY <1>2, <2>1, <2>2, StartsAlone DEF PlayerNext, Login, Move, Teleport, Leave
  <1>3. ASSUME h \in NpcHandlers, NpcNext(h) PROVE Begins(h)
    BY <1>3, StartsAlone
    DEF NpcNext, MoveNPC, ReviveNPC, NpcStep, NpcMoved, Sleep, Revived, NpcOld, NpcNew,
        NpcSight, NpcGone, Keep, ReviveLook, Runs
  <1> QED
    BY <1>1, <1>2, <1>3 DEF Acts

LEMMA BusyGoesOn ==
    ASSUME NEW h \in Handlers, Acts(h), pc[h] # "idle"
    PROVE  UNCHANGED <<alone, overlapped>>
  <1>1. CASE Send(h) \/ ReadNext(h) \/ MoveID(h)
    BY <1>1 DEF Send, ReadNext, MoveID, history
  <1>2. ASSUME h \in PlayerHandlers, PlayerNext(h) PROVE UNCHANGED <<alone, overlapped>>
    <2>1. CASE \/ \E at \in Spawns : Login(h, at)
               \/ InsertID(h) \/ Enter(h) \/ EnterRefused(h) \/ Leave(h) \/ Tell(h)
               \/ Scanned(h) \/ PlayerMoved(h) \/ Left(h)
      BY <2>1 DEF Login, InsertID, Enter, EnterRefused, Leave, Tell, Scanned, PlayerMoved,
                  Left, Starts, history
    <2>2. CASE \/ \E direction \in 0..3 : Move(h, direction)
               \/ \E x \in 0..Width - 1 : Teleport(h, x)
               \/ \E y \in 0..Height - 1 : TeleportY(h, y)
               \/ \E s \in SectorIndexes : ReadSector(h, s)
      BY <2>2 DEF Move, Teleport, TeleportY, ReadSector, Starts, history
    <2>3. CASE \/ \E o \in Ids : Look(h, o) \/ PlayerSight(h, o) \/ PlayerGone(h, o)
               \/ \E o \in Players : LeaveView(h, o)
      BY <2>3 DEF Look, PlayerSight, PlayerGone, LeaveView
    <2> QED
      BY <1>2, <2>1, <2>2, <2>3 DEF PlayerNext
  <1>3. ASSUME h \in NpcHandlers, NpcNext(h) PROVE UNCHANGED <<alone, overlapped>>
    BY <1>3 DEF NpcNext, MoveNPC, NpcStep, NpcMoved, Sleep, NpcOld, NpcNew, NpcSight,
                NpcGone, Keep, ReviveNPC, ReviveLook, Revived, Starts, history
  <1> QED
    BY <1>1, <1>2, <1>3 DEF Acts

(* While a handler is marked as alone, no other one runs.                  *)
AloneInv ==
    \A h \in Handlers :
        alone[h] /\ pc[h] # "idle" => \A g \in Handlers \ {h} : pc[g] = "idle"

\* The handler that acts is the only one that can still be alone.
LEMMA AloneActs ==
    ASSUME RestTypes, GridTypes, FreshInv, AloneInv, NEW h \in Handlers, Acts(h),
           NEW g \in Handlers, alone'[g], pc'[g] # "idle"
    PROVE  h = g /\ \A f \in Handlers \ {g} : pc[f] = "idle" /\ pc'[f] = "idle"
  <1>1. \A f \in Handlers \ {h} : pc'[f] = pc[f]
    BY ActsUntouched DEF Untouched
  <1>2. CASE pc[h] = "idle"
    BY <1>1, <1>2, IdleStarts DEF Begins, Idle
  <1>3. CASE pc[h] # "idle"
    <2>1. alone'[g] = alone[g]
      BY <1>3, BusyGoesOn
    <2> QED
      BY <1>1, <1>3, <2>1 DEF AloneInv
  <1> QED
    BY <1>2, <1>3

LEMMA AsideAlone ==
    ASSUME Aside
    PROVE  /\ UNCHANGED pc
           /\ UNCHANGED alone \/ \A h \in Handlers : ~alone'[h]
  BY DEF Aside, Accept, DropMove, locals, history

LEMMA AloneNext ==
    ASSUME RestTypes, GridTypes, FreshInv, AloneInv, [Next]_vars
    PROVE  AloneInv'
  <1>1. ASSUME NEW h \in Handlers, Acts(h) PROVE AloneInv'
    BY <1>1, AloneActs DEF AloneInv
  <1>2. CASE UNCHANGED vars \/ Aside
    BY <1>2, AsideAlone DEF vars, locals, history, AloneInv
  <1> QED
    BY <1>1, <1>2, NextActs

-----------------------------------------------------------------------------
(* The move of a player during which no other handler runs.  While it      *)
(* reads the sectors, whatever it sees and can find is collected or still  *)
(* to be looked at; while it works through nearlist, what is left to       *)
(* correct is in nearlist or in the copy of the view list.                 *)

ToScan(h, o) == o \in cand[h] \/ GetSectorIndex(pos[o]) \in secs[h]
SoloScan(h) ==
    LET p == Object[h]
    IN  /\ \A o \in Ids \ strays : Visible(p, o) => o \in near[h] \/ ToScan(h, o)
        /\ \A o \in near[h] : Visible(p, o)
SoloUpdate(h) ==
    LET p == Object[h]
    IN  /\ \A o \in near[h] : Visible(p, o)
        /\ \A o \in Ids \ strays : Visible(p, o) => o \in near[h]
        /\ \A o \in cand[h] : o \in near[h]
        /\ \A o \in near[h] : o \in cand[h] \/ o \in view[p]
        /\ \A o \in view[p] : o \in near[h] \cup list[h]
        /\ \A o \in near[h] \cap Players : o \in cand[h] \/ who[h] = o \/ p \in view[o]
        /\ \A o \in near[h] \cap list[h] : o \in view[p]
Solo(h) == alone[h] => /\ pc[h] = "scan" /\ ~Entering(h) => SoloScan(h)
                       /\ pc[h] = "update" => SoloUpdate(h)
SoloInv == \A h \in PlayerHandlers : Solo(h)

LEMMA NearSymmetric ==
    ASSUME NEW a \in Positions, NEW b \in Positions
    PROVE  IsNear(a, b) <=> IsNear(b, a)
  <1>1. /\ a.x \in Int /\ a.y \in Int /\ b.x \in Int /\ b.y \in Int
    BY GridFacts DEF Positions
  <1>2. Distance(a.x, b.x) = Distance(b.x, a.x) /\ Distance(a.y, b.y) = Distance(b.y, a.y)
    BY <1>1 DEF Distance
  <1> QED
    BY <1>2 DEF IsNear

LEMMA VisibleSame ==
    ASSUME NEW p, NEW o, pos'[o] = pos[o], pos'[p] = pos[p], InPlay(o)' <=> InPlay(o)
    PROVE  Visible(p, o)' <=> Visible(p, o)
  BY DEF Visible, InPlay

(* An object at rest that is in sight is found by the search.              *)
LEMMA VisibleFound ==
    ASSUME GridInv, NEW p \in Ids, NEW o \in Ids \ strays, Visible(p, o),
           \A g \in Handlers : Object[g] = o => pc[g] = "idle"
    PROVE  /\ o \in grid[GetSectorIndex(pos[o])]
           /\ GetSectorIndex(pos[o]) \in GetNearSectorIndexes(pos[p])
  <1>1. pos[p] \in Positions /\ pos[o] \in Positions /\ IsNear(pos[p], pos[o])
    BY NearSymmetric DEF GridInv, GridTypes, Visible
  <1>2. o \in grid[GetSectorIndex(pos[o])]
    <2>1. InPlay(o) /\ ~Moving(o) /\ GridOf(o)
      BY DEF GridInv, InPlay, Visible, Moving
    <2> QED
      BY <2>1 DEF GridOf, ListedAt
  <1> QED
    BY <1>1, <1>2, NearSectorsCoverSight

LEMMA ActivatePlay ==
    ASSUME GridTypes, NEW n \in Npcs, NEW q, ActivateNPC(n, q) \/ UNCHANGED state
    PROVE  \A o \in Ids : InPlay(o)' <=> InPlay(o)
  BY IdFacts DEF ActivateNPC, GridTypes, InPlay

\* A list changes about one object only.
LEMMA ListChange ==
    ASSUME RestTypes, NEW h, NEW to \in Players, NEW obj \in Ids
    PROVE  /\ Put(h, to, obj) =>
                  /\ obj \in view'[to]
                  /\ \A q \in Players, o \in Ids : q # to \/ o # obj =>
                         (o \in view'[q] <=> o \in view[q])
           /\ Remove(h, to, obj) =>
                  /\ obj \notin view'[to]
                  /\ \A q \in Players, o \in Ids : q # to \/ o # obj =>
                         (o \in view'[q] <=> o \in view[q])
           /\ FindAndInsertViewID(h, to, obj) =>
                  /\ obj \in view'[to]
                  /\ \A q \in Players, o \in Ids : q # to \/ o # obj =>
                         (o \in view'[q] <=> o \in view[q])
           /\ FindAndEraseViewID(h, to, obj) =>
                  /\ obj \notin view'[to]
                  /\ \A q \in Players, o \in Ids : q # to \/ o # obj =>
                         (o \in view'[q] <=> o \in view[q])
  BY DEF Put, Remove, FindAndInsertViewID, FindAndEraseViewID, RestTypes, ListTypes

LEMMA SoloScanned ==
    ASSUME RestTypes, GridInv, NEW h \in PlayerHandlers, Fresh(h), Solo(h), alone[h],
           \A g \in Handlers \ {h} : pc[g] = "idle",
           \/ MoveID(h)
           \/ \E s \in SectorIndexes : ReadSector(h, s)
           \/ \E o \in Ids : Look(h, o),
           ~Entering(h)
    PROVE  Solo(h)'
  <1> DEFINE p == Object[h]
  <1>0. h \in Handlers /\ p \in Players /\ p \in Ids /\ p \notin Npcs
    BY IdFacts
  <1> USE DEF RestTypes, LocalTypes, GridInv, GridTypes
  <1>1. CASE MoveID(h)
    <2>1. /\ pc'[h] = "scan" /\ secs'[h] = GetNearSectorIndexes(pos[p]) /\ near'[h] = {}
          /\ UNCHANGED <<pos, state>> /\ strays' \in {strays, strays \ {p}}
      BY <1>0, <1>1 DEF MoveID, PutRight, GoTo, Runs, Fresh
    <2>2. \A o \in Ids : Visible(p, o)' <=> Visible(p, o)
      BY <1>0, <2>1 DEF Visible
    <2>3. \A o \in Ids \ strays' : Visible(p, o) =>
              GetSectorIndex(pos[o]) \in GetNearSectorIndexes(pos[p])
      <3> SUFFICES ASSUME NEW o \in Ids \ strays', Visible(p, o)
                   PROVE  GetSectorIndex(pos[o]) \in GetNearSectorIndexes(pos[p])
        OBVIOUS
      <3>1. o # p /\ o \notin strays
        BY <2>1 DEF Visible
      <3>2. \A g \in Handlers : Object[g] = o => pc[g] = "idle"
        BY <3>1
      <3> QED
        BY <1>0, <3>1, <3>2, VisibleFound
    <2>4. SoloScan(h)'
      BY <1>0, <2>1, <2>2, <2>3 DEF SoloScan, ToScan
    <2> QED
      BY <2>1, <2>4 DEF Solo
  <1>2. ASSUME NEW s \in SectorIndexes, ReadSector(h, s) PROVE Solo(h)'
    <2>1. /\ pc'[h] = "scan" /\ pc[h] = "scan" /\ cand[h] = {} /\ cand'[h] = grid[s]
          /\ secs'[h] = secs[h] \ {s} /\ UNCHANGED <<pos, state, near, strays>>
      BY <1>0, <1>2 DEF ReadSector, Runs, history
    <2>2. \A o \in Ids : Visible(p, o)' <=> Visible(p, o)
      BY <2>1 DEF Visible
    <2>3. \A o \in Ids \ strays : Visible(p, o) => o \in grid[GetSectorIndex(pos[o])]
      <3> SUFFICES ASSUME NEW o \in Ids \ strays, Visible(p, o)
                   PROVE  o \in grid[GetSectorIndex(pos[o])]
        OBVIOUS
      <3>1. \A g \in Handlers : Object[g] = o => pc[g] = "idle"
        BY DEF Visible
      <3> QED
        BY <1>0, <3>1, VisibleFound
    <2>4. SoloScan(h)
      BY <2>1 DEF Solo
    <2>5. near[h] \subseteq Ids
      BY <1>0
    <2>6. SoloScan(h)'
      BY <2>1, <2>2, <2>3, <2>4, <2>5 DEF SoloScan, ToScan
    <2> QED
      BY <2>1, <2>6 DEF Solo
  <1>3. ASSUME NEW o \in Ids, Look(h, o) PROVE Solo(h)'
    <2>1. /\ pc'[h] = "scan" /\ pc[h] = "scan" /\ cand'[h] = cand[h] \ {o}
          /\ UNCHANGED <<pos, secs, strays>>
      BY <1>0, <1>3 DEF Look, Runs
    <2>6. near'[h] = IF Visible(p, o) THEN near[h] \cup {o} ELSE near[h]
      <3>1. CASE Visible(p, o)
        <4>1. near' = [near EXCEPT ![h] = @ \cup {o}]
          BY <1>3, <3>1 DEF Look
        <4> QED
          BY <1>0, <3>1, <4>1
      <3>2. CASE ~Visible(p, o)
        BY <1>3, <3>2 DEF Look
      <3> QED
        BY <3>1, <3>2
    <2>7. UNCHANGED state \/ (o \in Npcs /\ ActivateNPC(o, p))
      BY <1>3 DEF Look
    <2>2. \A k \in Ids : InPlay(k)' <=> InPlay(k)
      <3>1. CASE UNCHANGED state
        BY <3>1 DEF InPlay
      <3> QED
        BY <2>7, <3>1, ActivatePlay
    <2>3. \A k \in Ids : Visible(p, k)' <=> Visible(p, k)
      BY <2>1, <2>2, VisibleSame
    <2>4. SoloScan(h) /\ \A k \in near'[h] : k \in Ids
      BY <1>0, <2>1, <2>6 DEF Solo
    <2>5. SoloScan(h)'
      BY <2>1, <2>3, <2>4, <2>6 DEF SoloScan, ToScan
    <2> QED
      BY <2>1, <2>5 DEF Solo
  <1> QED
    BY <1>1, <1>2, <1>3

LEMMA SoloUpdated ==
    ASSUME RestTypes, GridInv, NEW h \in PlayerHandlers, Fresh(h), Solo(h), alone[h],
           \/ Scanned(h) /\ ~Entering(h)
           \/ \E o \in Ids : PlayerSight(h, o) \/ PlayerGone(h, o)
           \/ Tell(h) /\ pc[h] = "update"
    PROVE  Solo(h)'
  <1> DEFINE p == Object[h]
  <1>0. h \in Handlers /\ p \in Players /\ p \in Ids /\ p \notin Npcs /\ Players \subseteq Ids
    BY IdFacts
  <1> USE DEF RestTypes, LocalTypes, ListTypes, GridInv, GridTypes
  <1>1. UNCHANGED <<pos, strays>> /\ \A k \in Ids : InPlay(k)' <=> InPlay(k)
    <2>1. UNCHANGED <<pos, strays>>
      BY DEF Scanned, PlayerSight, PlayerGone, Tell, history
    <2>2. UNCHANGED state
      BY DEF Scanned, PlayerSight, PlayerGone, Tell
    <2> QED
      BY <2>1, <2>2 DEF InPlay
  <1>2. \A k \in Ids : Visible(p, k)' <=> Visible(p, k)
    BY <1>1, VisibleSame
  <1>3. CASE Scanned(h) /\ ~Entering(h)
    <2>1. /\ pc[h] = "scan" /\ pc'[h] = "update" /\ secs[h] = {} /\ cand[h] = {}
          /\ cand'[h] = near[h] /\ near'[h] = near[h] /\ list'[h] = view[p]
          /\ UNCHANGED <<view, who>>
      BY <1>0, <1>3 DEF Scanned, Runs, GoTo
    <2>2. SoloScan(h)
      BY <1>3, <2>1 DEF Solo
    <2>3. /\ \A k \in near[h] : Visible(p, k)
          /\ \A k \in Ids \ strays : Visible(p, k) => k \in near[h]
      BY <2>1, <2>2 DEF SoloScan, ToScan
    <2>4. SoloUpdate(h)'
      BY <1>0, <1>1, <1>2, <2>1, <2>3 DEF SoloUpdate
    <2> QED
      BY <2>1, <2>4 DEF Solo
  <1>4. ASSUME NEW o \in Ids, PlayerSight(h, o) PROVE Solo(h)'
    <2>1. /\ pc[h] = "update" /\ pc'[h] = "update" /\ who[h] = None
          /\ o \in cand[h] /\ cand'[h] = cand[h] \ {o} /\ who'[h] = o
          /\ UNCHANGED <<near, list>>
      BY <1>0, <1>4 DEF PlayerSight, Runs
    <2>2. SoloUpdate(h)
      BY <2>1 DEF Solo
    <2>3. o \in near[h] /\ o # p
      BY <2>1, <2>2 DEF SoloUpdate, Visible
    <2>4. /\ o \in view'[p]
          /\ \A q \in Players, k \in Ids : q # p \/ k # o => (k \in view'[q] <=> k \in view[q])
      <3>1. CASE o \in list[h]
        <4>1. view' = view
          BY <1>4, <3>1 DEF PlayerSight
        <4> QED
          BY <2>2, <2>3, <3>1, <4>1 DEF SoloUpdate
      <3>2. CASE o \notin list[h]
        BY <1>0, <1>4, <3>2, ListChange DEF PlayerSight
      <3> QED
        BY <3>1, <3>2
    <2>5. \A k \in view'[p] : k \in view[p] \/ k = o
      <3>1. view' \in [Players -> SUBSET Ids]
        BY <1>0, <1>4 DEF PlayerSight, Put
      <3> QED
        BY <1>0, <2>4, <3>1
    <2>6. \A k \in Players : None # k
      BY WorldAssumption
    <2>7. SoloUpdate(h)'
      BY <1>0, <1>1, <1>2, <2>1, <2>2, <2>3, <2>4, <2>5, <2>6 DEF SoloUpdate
    <2> QED
      BY <2>1, <2>7 DEF Solo
  <1>5. ASSUME NEW o \in Ids, PlayerGone(h, o) PROVE Solo(h)'
    <2>1. /\ pc[h] = "update" /\ pc'[h] = "update" /\ who[h] = None
          /\ cand[h] = {} /\ o \in list[h] \ near[h] /\ list'[h] = list[h] \ {o} /\ who'[h] = o
          /\ UNCHANGED <<near, cand>> /\ Remove(h, p, o)
      BY <1>0, <1>5 DEF PlayerGone, Runs
    <2>2. SoloUpdate(h)
      BY <2>1 DEF Solo
    <2>3. /\ view'[p] = view[p] \ {o}
          /\ \A q \in Players : q # p => view'[q] = view[q]
      BY <1>0, <2>1 DEF Remove
    <2>4. \A k \in Players : None # k
      BY WorldAssumption
    <2>5. ~Visible(p, p)
      BY DEF Visible
    <2>6. SoloUpdate(h)'
      BY <1>0, <1>1, <1>2, <2>1, <2>2, <2>3, <2>4, <2>5 DEF SoloUpdate
    <2> QED
      BY <2>1, <2>6 DEF Solo
  <1>6. CASE Tell(h) /\ pc[h] = "update"
    <2> DEFINE o == who[h]
    <2>1. /\ o \in Ids /\ who'[h] = None /\ pc'[h] = "update"
          /\ UNCHANGED <<near, cand, list>>
      BY <1>0, <1>6 DEF Tell
    <2>2. SoloUpdate(h)
      BY <1>6 DEF Solo
    <2>3. CASE o \in Npcs
      <3>1. view' = view /\ \A k \in Players : k # o
        BY <1>0, <1>6, <2>3, IdFacts DEF Tell
      <3> HIDE DEF o
      <3>2. SoloUpdate(h)'
        BY <1>0, <1>1, <1>2, <2>1, <2>2, <3>1 DEF SoloUpdate, o
      <3> QED
        BY <2>1, <3>2 DEF Solo
    <2>4. CASE o \notin Npcs
      <3>1. /\ o \in near[h] => FindAndInsertViewID(h, o, p)
            /\ o \notin near[h] => FindAndEraseViewID(h, o, p)
            /\ o \in Players
        BY <1>0, <1>6, <2>1, <2>4 DEF Tell, Ids
      <3>2. /\ o \in near[h] => p \in view'[o]
            /\ \A q \in Players, k \in Ids : q # o \/ k # p => (k \in view'[q] <=> k \in view[q])
            /\ view' \in [Players -> SUBSET Ids]
        <4>1. view' \in [Players -> SUBSET Ids]
          BY <1>0, <3>1 DEF FindAndInsertViewID, FindAndEraseViewID, Put, Remove
        <4> QED
          BY <1>0, <3>1, <4>1, ListChange
      <3>3. o \in near[h] => o # p
        BY <2>1, <2>2 DEF SoloUpdate, Visible
      <3>4. p \notin near[h]
        BY <1>0, <2>2 DEF SoloUpdate, Visible
      <3>5. \A k \in Ids : k # p => (k \in view'[p] <=> k \in view[p])
        BY <1>0, <3>2
      <3>6. p \in view'[p] => p \in view[p]
        <4>1. CASE o = p
          <5>1. FindAndEraseViewID(h, p, p)
            BY <3>1, <3>4, <4>1
          <5> QED
            BY <1>0, <5>1, ListChange
        <4>2. CASE o # p
          BY <1>0, <3>2, <4>2
        <4> QED
          BY <4>1, <4>2
      <3>7. \A k \in near[h] \cap Players : k \in cand[h] \/ p \in view'[k]
        BY <1>0, <2>2, <3>2 DEF SoloUpdate
      <3> HIDE DEF o
      <3>8. SoloUpdate(h)'
        <4>1. view'[p] \subseteq Ids
          BY <1>0, <3>2
        <4> QED
          BY <1>0, <1>1, <1>2, <2>1, <2>2, <3>4, <3>5, <3>6, <3>7, <4>1 DEF SoloUpdate
      <3> QED
        BY <2>1, <3>8 DEF Solo
    <2> QED
      BY <2>3, <2>4
  <1> QED
    BY <1>3, <1>4, <1>5, <1>6

\* The steps of a player that are no part of reading the sectors of a move.
LEMMA SoloElsewhere ==
    ASSUME RestTypes, GridTypes, NEW h \in PlayerHandlers, Fresh(h), Acts(h)
    PROVE  \/ UNCHANGED <<pos, state, view, pc, secs, cand, near, list, who, strays>>
           \/ pc'[h] \notin {"scan", "update"}
           \/ pc[h] # "idle" /\ pc'[h] = "scan" /\ Entering(h)'
           \/ /\ pc[h] # "idle" /\ ~Entering(h)
              /\ \/ MoveID(h)
                 \/ \E s \in SectorIndexes : ReadSector(h, s)
                 \/ \E o \in Ids : Look(h, o)
           \/ /\ pc[h] # "idle"
              /\ \/ Scanned(h) /\ ~Entering(h)
                 \/ \E o \in Ids : PlayerSight(h, o) \/ PlayerGone(h, o)
                 \/ Tell(h) /\ pc[h] = "update"
  <1> DEFINE p == Object[h]
  <1>0. h \in Handlers /\ p \in Players /\ p \in Ids /\ p \notin Npcs
    BY IdFacts
  <1> USE DEF RestTypes, LocalTypes, ListTypes, GridTypes
  <1>1. CASE Send(h)
    BY <1>1 DEF Send, history
  <1>5. CASE ReadNext(h)
    BY <1>0, <1>5 DEF ReadNext, GoTo
  <1>2. CASE MoveID(h)
    BY <1>0, <1>2 DEF MoveID, Runs, Fresh, Entering
  <1>3. CASE PlayerNext(h)
    <2>1. CASE \/ \E at \in Spawns : Login(h, at)
               \/ InsertID(h) \/ Leave(h)
               \/ \E direction \in 0..3 : Move(h, direction)
               \/ \E x \in 0..Width - 1 : Teleport(h, x)
               \/ \E y \in 0..Height - 1 : TeleportY(h, y)
      BY <1>0, <2>1 DEF Login, InsertID, Leave, Move, Teleport, TeleportY, GoTo
    <2>2. CASE PlayerMoved(h) \/ Left(h) \/ EnterRefused(h) \/ (Scanned(h) /\ Entering(h))
      BY <1>0, <2>2 DEF PlayerMoved, Left, EnterRefused, Scanned, Finish, GoTo
    <2>3. CASE Enter(h)
      BY <1>0, <2>3 DEF Enter, GoTo, Runs, Entering
    <2>4. CASE \/ \E s \in SectorIndexes : ReadSector(h, s)
               \/ \E o \in Ids : Look(h, o)
      <3>1. pc[h] = "scan" /\ UNCHANGED <<pc, list>>
        BY <2>4 DEF ReadSector, Look, Runs
      <3> QED
        BY <2>4, <3>1 DEF Entering
    <2>5. CASE Scanned(h) /\ ~Entering(h)
      BY <2>5 DEF Scanned, Runs
    <2>6. CASE \E o \in Ids : PlayerSight(h, o) \/ PlayerGone(h, o)
      BY <2>6 DEF PlayerSight, PlayerGone, Runs
    <2>7. CASE Tell(h)
      <3>1. UNCHANGED <<pc, list>> /\ who[h] # None
        BY <2>7 DEF Tell
      <3>2. pc[h] = "scan" => Entering(h)
        BY <3>1 DEF Fresh, Quiet
      <3> QED
        BY <2>7, <3>1, <3>2 DEF Entering
    <2>8. CASE \E o \in Players : LeaveView(h, o)
      BY <2>8 DEF LeaveView, Runs
    <2> QED
      BY <1>3, <2>1, <2>2, <2>3, <2>4, <2>5, <2>6, <2>7, <2>8 DEF PlayerNext
  <1>4. h \notin NpcHandlers
    BY IdFacts
  <1> QED
    BY <1>1, <1>2, <1>3, <1>4, <1>5 DEF Acts

LEMMA SoloNext ==
    ASSUME RestTypes, GridInv, FreshInv, AloneInv, SoloInv, [Next]_vars
    PROVE  SoloInv'
  <1>1. ASSUME NEW f \in Handlers, Acts(f), NEW h \in PlayerHandlers PROVE Solo(h)'
    <2> SUFFICES ASSUME alone'[h], pc'[h] \in {"scan", "update"} PROVE Solo(h)'
      BY DEF Solo
    <2>0. h \in Handlers /\ GridTypes /\ Fresh(h) /\ Solo(h)
      BY IdFacts DEF GridInv, FreshInv, SoloInv
    <2>1. f = h /\ \A g \in Handlers \ {h} : pc[g] = "idle"
      BY <1>1, <2>0, AloneActs
    <2>2. pc[h] # "idle" => alone[h]
      BY <1>1, <2>0, <2>1, BusyGoesOn
    <2>3. CASE UNCHANGED <<pos, state, view, pc, secs, cand, near, list, who, strays>>
      <3>1. Solo(h) /\ pc[h] # "idle" /\ alone[h]
        BY <2>0, <2>2, <2>3
      <3> QED
        BY <2>3, <3>1 DEF Solo, SoloScan, SoloUpdate, ToScan, Visible, Entering
    <2>4. CASE pc'[h] = "scan" /\ Entering(h)'
      BY <2>4 DEF Solo
    <2>5. CASE /\ pc[h] # "idle" /\ ~Entering(h)
               /\ \/ MoveID(h)
                  \/ \E s \in SectorIndexes : ReadSector(h, s)
                  \/ \E o \in Ids : Look(h, o)
      BY <2>0, <2>1, <2>2, <2>5, SoloScanned
    <2>6. CASE /\ pc[h] # "idle"
               /\ \/ Scanned(h) /\ ~Entering(h)
                  \/ \E o \in Ids : PlayerSight(h, o) \/ PlayerGone(h, o)
                  \/ Tell(h) /\ pc[h] = "update"
      BY <2>0, <2>2, <2>6, SoloUpdated
    <2>7. Acts(h)
      BY <1>1, <2>1
    <2> QED
      BY <2>0, <2>3, <2>4, <2>5, <2>6, <2>7, SoloElsewhere
  <1>2. CASE UNCHANGED vars
    BY <1>2 DEF vars, locals, history, SoloInv, Solo, SoloScan, SoloUpdate, ToScan, Visible,
                Entering
  <1>3. CASE Aside
    <2>1. /\ UNCHANGED <<pos, view, pc, secs, cand, near, list, who, strays>>
          /\ UNCHANGED <<state, alone>> \/ \A h \in Handlers : ~alone'[h]
      BY <1>3 DEF Aside, Accept, DropMove, locals, history
    <2>2. \A h \in PlayerHandlers : h \in Handlers
      BY IdFacts
    <2> QED
      BY <2>1, <2>2 DEF SoloInv, Solo, SoloScan, SoloUpdate, ToScan, Visible, Entering
  <1> QED
    BY <1>1, <1>2, <1>3, NextActs DEF SoloInv

HandlerInv == FreshInv /\ AloneInv /\ SoloInv

LEMMA HandlerInvInit == Init => HandlerInv
  <1> SUFFICES ASSUME Init PROVE HandlerInv
    OBVIOUS
  <1>1. /\ \A h \in Handlers : /\ pc[h] = "idle" /\ near[h] = {} /\ list[h] = {}
                               /\ out[h] = NoMsg /\ who[h] = None
                               /\ cand[h] = {} /\ target[h] = None
        /\ \A h \in PlayerHandlers : h \in Handlers
    BY IdFacts DEF Init
  <1> QED
    BY <1>1 DEF HandlerInv, FreshInv, Fresh, Quiet, AloneInv, SoloInv, Solo

\* The invariant that the theorems about whole handlers rest on.
WorldInv == GridInv /\ RestTypes /\ HandlerInv

LEMMA WorldInvNext == WorldInv /\ [Next]_vars => WorldInv'
  <1> SUFFICES ASSUME WorldInv, [Next]_vars PROVE WorldInv'
    OBVIOUS
  <1>1. GridInv' /\ RestTypes'
    BY GridInvNext, TypesNext DEF WorldInv
  <1>2. HandlerInv'
    BY FreshNext, AloneNext, SoloNext DEF WorldInv, HandlerInv, GridInv
  <1> QED
    BY <1>1, <1>2 DEF WorldInv

(* Whatever wrong entries races have left behind: a move during which no   *)
(* other handler runs ends with a view list that has only what is in the   *)
(* sight of the player, and all of it that is no stray, and with every     *)
(* player in the list listing it (MoveObject: SendNearPlayersInfo,         *)
(* HandlePlayersInSight, HandleDisappearedPlayers).                        *)
THEOREM LoneMoveAlwaysRepairs == Spec => LoneMoveRepairs
  <1>1. WorldInv /\ [Next]_vars
            => [\A h \in PlayerHandlers : PlayerMoved(h) /\ alone[h] => Repairs(Object[h])]_vars
    <2> SUFFICES ASSUME WorldInv, NEW h \in PlayerHandlers, PlayerMoved(h), alone[h]
                 PROVE  Repairs(Object[h])
      OBVIOUS
    <2>0. h \in Handlers /\ Object[h] \in Players
      BY IdFacts
    <2>1. /\ pc[h] = "update" /\ cand[h] = {} /\ list[h] \subseteq near[h] /\ who[h] = None
          /\ UNCHANGED view
      BY DEF PlayerMoved, Runs
    <2>2. SoloUpdate(h)
      BY <2>1 DEF WorldInv, HandlerInv, SoloInv, Solo
    <2>3. \A o \in Players : None # o
      BY WorldAssumption
    <2>4. view[Object[h]] \subseteq Ids
      BY <2>0 DEF WorldInv, RestTypes, ListTypes
    <2> QED
      BY <2>0, <2>1, <2>2, <2>3, <2>4, IdFacts DEF SoloUpdate, Repairs
  <1>2. Init => WorldInv
    BY GridInvInit, TypesInit, HandlerInvInit DEF WorldInv
  <1> QED
    BY <1>1, <1>2, WorldInvNext, PTL DEF Spec, LoneMoveRepairs

-----------------------------------------------------------------------------
(* Handlers one after the other.  Right(p, o): the view list of p is right *)
(* about o, or names o for a former client of the slot.                    *)

InGame(p) == state[p] = "INGAME"
Right(p, o) == /\ Visible(p, o) => o \in view[p]
               /\ o \in view[p] => Visible(p, o) \/ <<p, o>> \in inherited

\* What a step of h changes about two other objects: nothing.
Apart(h) ==
    LET i == Object[h]
    IN  /\ \A q \in Players \ {i} : state'[q] = state[q]
        /\ \A o \in Ids \ {i} : InPlay(o)' <=> InPlay(o)
        /\ \A q \in Players \ {i}, o \in Ids \ {i} : o \in view'[q] <=> o \in view[q]

LEMMA ListsApart ==
    ASSUME RestTypes, NEW h \in Handlers, NEW to \in Players, NEW obj \in Ids,
           Object[h] \in {to, obj}, Lists(h, to, obj),
           \A q \in Players \ {Object[h]} : state'[q] = state[q],
           \A o \in Ids \ {Object[h]} : InPlay(o)' <=> InPlay(o)
    PROVE  Apart(h)
  <1>1. \A q \in Players, o \in Ids : q # to \/ o # obj => (o \in view'[q] <=> o \in view[q])
    <2>1. CASE UNCHANGED <<view, out, crossed>>
      BY <2>1
    <2> QED
      BY <2>1, ListChange DEF Lists
  <1> QED
    BY <1>1 DEF Apart

LEMMA PlayerApart ==
    ASSUME RestTypes, GridInv, NEW h \in PlayerHandlers, PlayerNext(h)
    PROVE  Apart(h)
  <1> DEFINE p == Object[h]
  <1>0. h \in Handlers /\ p \in Players /\ p \in Ids /\ p \notin Npcs /\ GridTypes
    BY IdFacts DEF GridInv
  <1>1. CASE \/ \E at \in Spawns : Login(h, at)
             \/ InsertID(h) \/ Leave(h) \/ Enter(h) \/ EnterRefused(h) \/ Left(h)
             \/ Scanned(h) \/ PlayerMoved(h)
    <2>1. UNCHANGED view /\ \A o \in Ids \ {p} : state'[o] = state[o]
      BY <1>0, <1>1 DEF Login, InsertID, Leave, Enter, EnterRefused, Left, Scanned,
                        PlayerMoved, GridTypes
    <2> QED
      BY <2>1, IdFacts DEF Apart, InPlay
  <1>3. CASE \/ \E direction \in 0..3 : Move(h, direction)
             \/ \E x \in 0..Width - 1 : Teleport(h, x)
             \/ \E y \in 0..Height - 1 : TeleportY(h, y)
             \/ \E s \in SectorIndexes : ReadSector(h, s)
    <2>1. UNCHANGED <<view, state>>
      BY <1>3 DEF Move, Teleport, TeleportY, ReadSector
    <2> QED
      BY <2>1 DEF Apart, InPlay
  <1>4. ASSUME NEW o \in Ids, Look(h, o) PROVE Apart(h)
    <2>1. Lists(h, p, o)
      BY <1>4 DEF Look, Lists
    <2>2. UNCHANGED state \/ (o \in Npcs /\ ActivateNPC(o, p))
      BY <1>4 DEF Look
    <2>3. (\A q \in Players : state'[q] = state[q]) /\ \A k \in Ids : InPlay(k)' <=> InPlay(k)
      <3>1. CASE UNCHANGED state
        BY <3>1 DEF InPlay
      <3> QED
        BY <1>0, <2>2, <3>1, StoreAlive, ActivatePlay
    <2> QED
      BY <1>0, <2>1, <2>3, ListsApart
  <1>5. ASSUME NEW o \in Ids, PlayerSight(h, o) \/ PlayerGone(h, o) PROVE Apart(h)
    <2>1. Lists(h, p, o) /\ UNCHANGED state
      BY <1>5 DEF PlayerSight, PlayerGone, Lists
    <2> QED
      BY <1>0, <2>1, ListsApart DEF InPlay
  <1>6. CASE Tell(h)
    <2> DEFINE o == who[h]
    <2>1. /\ o # None
          /\ o \in Npcs => UNCHANGED view
          /\ o \notin Npcs => Lists(h, o, p) /\ UNCHANGED state
          /\ UNCHANGED state \/ (o \in Npcs /\ ActivateNPC(o, p))
      BY <1>6 DEF Tell, Lists
    <2>2. o \in Npcs \/ o \in Players
      BY <1>0, <2>1 DEF RestTypes, LocalTypes, Ids
    <2> HIDE DEF o
    <2>3. (\A q \in Players : state'[q] = state[q]) /\ \A k \in Ids : InPlay(k)' <=> InPlay(k)
      <3>1. CASE UNCHANGED state
        BY <3>1 DEF InPlay
      <3> QED
        BY <1>0, <2>1, <3>1, StoreAlive, ActivatePlay
    <2>4. CASE o \in Npcs
      BY <2>1, <2>3, <2>4 DEF Apart
    <2>5. CASE o \notin Npcs
      BY <1>0, <2>1, <2>2, <2>3, <2>5, ListsApart
    <2> QED
      BY <2>4, <2>5
  <1>7. ASSUME NEW o \in Players, LeaveView(h, o) PROVE Apart(h)
    <2>1. Lists(h, o, p) /\ UNCHANGED state
      BY <1>7 DEF LeaveView, Lists
    <2> QED
      BY <1>0, <2>1, ListsApart DEF InPlay
  <1> QED
    BY <1>1, <1>3, <1>4, <1>5, <1>6, <1>7 DEF PlayerNext

LEMMA NpcApart ==
    ASSUME RestTypes, GridInv, NEW h \in NpcHandlers, NpcNext(h)
    PROVE  Apart(h)
  <1> DEFINE n == Object[h]
  <1>0. h \in Handlers /\ n \in Npcs /\ n \in Ids /\ n \notin Players
    BY IdFacts
  <1>1. CASE \/ NpcStep(h) \/ NpcMoved(h) \/ Revived(h)
             \/ \E p \in Players : MoveNPC(h, p) \/ NpcOld(h, p) \/ NpcNew(h, p) \/ Keep(h, p)
    <2>1. UNCHANGED <<state, view>>
      BY <1>1 DEF MoveNPC, NpcStep, NpcMoved, Revived, NpcOld, NpcNew, Keep
    <2> QED
      BY <2>1 DEF Apart, InPlay
  <1>2. CASE Sleep(h) \/ ReviveNPC(h)
    <2>1. UNCHANGED view /\ \A o \in Ids \ {n} : state'[o] = state[o]
      BY <1>2 DEF Sleep, ReviveNPC, GridInv, GridTypes
    <2> QED
      BY <2>1, IdFacts DEF Apart, InPlay
  <1>3. ASSUME NEW p \in Players, NpcSight(h, p) \/ NpcGone(h, p) \/ ReviveLook(h, p)
        PROVE  Apart(h)
    <2>1. Lists(h, p, n) /\ UNCHANGED state
      BY <1>3 DEF NpcSight, NpcGone, ReviveLook, Lists
    <2> QED
      BY <1>0, <2>1, ListsApart DEF InPlay
  <1> QED
    BY <1>1, <1>2, <1>3 DEF NpcNext

LEMMA ActsApart ==
    ASSUME RestTypes, GridInv, NEW h \in Handlers, Acts(h)
    PROVE  Apart(h)
  <1>1. CASE Send(h) \/ ReadNext(h) \/ MoveID(h)
    BY <1>1 DEF Send, ReadNext, MoveID, Apart, InPlay
  <1> QED
    BY <1>1, PlayerApart, NpcApart DEF Acts

\* Only an accept says anew what a client has inherited.
LEMMA ActsInherits ==
    ASSUME NEW h \in Handlers, Acts(h)
    PROVE  UNCHANGED inherited
  <1>1. CASE Send(h) \/ ReadNext(h) \/ MoveID(h)
    BY <1>1 DEF Send, ReadNext, MoveID, history
  <1>2. ASSUME PlayerNext(h) PROVE UNCHANGED inherited
    <2>1. CASE \/ \E at \in Spawns : Login(h, at)
               \/ InsertID(h) \/ Enter(h) \/ EnterRefused(h) \/ Leave(h) \/ Tell(h)
               \/ Scanned(h) \/ PlayerMoved(h) \/ Left(h)
      BY <2>1 DEF Login, InsertID, Enter, EnterRefused, Leave, Tell, Scanned, PlayerMoved,
                  Left, history
    <2>2. CASE \/ \E direction \in 0..3 : Move(h, direction)
               \/ \E x \in 0..Width - 1 : Teleport(h, x)
               \/ \E y \in 0..Height - 1 : TeleportY(h, y)
               \/ \E s \in SectorIndexes : ReadSector(h, s)
      BY <2>2 DEF Move, Teleport, TeleportY, ReadSector, history
    <2>3. CASE \/ \E o \in Ids : Look(h, o) \/ PlayerSight(h, o) \/ PlayerGone(h, o)
               \/ \E o \in Players : LeaveView(h, o)
      BY <2>3 DEF Look, PlayerSight, PlayerGone, LeaveView
    <2> QED
      BY <1>2, <2>1, <2>2, <2>3 DEF PlayerNext
  <1>3. ASSUME NpcNext(h) PROVE UNCHANGED inherited
    BY <1>3 DEF NpcNext, MoveNPC, NpcStep, NpcMoved, Sleep, NpcOld, NpcNew, NpcSight,
                NpcGone, Keep, ReviveNPC, ReviveLook, Revived, history
  <1> QED
    BY <1>1, <1>2, <1>3 DEF Acts

(* In sequence nothing goes astray.                                        *)
LEMMA ActsOrderly ==
    ASSUME NEW h \in Handlers, Acts(h), ~overlapped', strays = {}
    PROVE  strays' = {}
  <1>1. \A astray : Starts(h, astray) => strays' = {}
    BY DEF Starts, Others, Busy
  <1>2. CASE Send(h) \/ ReadNext(h) \/ MoveID(h)
    BY <1>2 DEF Send, ReadNext, MoveID, PutRight, history
  <1>3. ASSUME PlayerNext(h) PROVE strays' = {}
    <2>1. CASE \/ InsertID(h) \/ Enter(h) \/ EnterRefused(h) \/ Tell(h)
               \/ Scanned(h) \/ PlayerMoved(h) \/ Left(h)
               \/ \E y \in 0..Height - 1 : TeleportY(h, y)
               \/ \E s \in SectorIndexes : ReadSector(h, s)
      BY <2>1 DEF InsertID, PutRight, Enter, EnterRefused, Tell, Scanned, PlayerMoved, Left,
                  TeleportY, ReadSector, history
    <2>2. CASE \/ \E at \in Spawns : Login(h, at)
               \/ \E direction \in 0..3 : Move(h, direction)
               \/ \E x \in 0..Width - 1 : Teleport(h, x)
               \/ Leave(h)
      BY <1>1, <2>2 DEF Login, Move, Teleport, Leave
    <2>3. CASE \/ \E o \in Ids : Look(h, o) \/ PlayerSight(h, o) \/ PlayerGone(h, o)
               \/ \E o \in Players : LeaveView(h, o)
      BY <2>3 DEF Look, PlayerSight, PlayerGone, LeaveView
    <2> QED
      BY <1>3, <2>1, <2>2, <2>3 DEF PlayerNext
  <1>4. ASSUME NpcNext(h) PROVE strays' = {}
    BY <1>1, <1>4 DEF NpcNext, MoveNPC, NpcStep, NpcMoved, Sleep, NpcOld, NpcNew, NpcSight,
                NpcGone, Keep, ReviveNPC, ReviveLook, Revived, history
  <1> QED
    BY <1>2, <1>3, <1>4 DEF Acts

(* What holds of an object while every other one is at rest.  Between the  *)
(* handlers, and while a login has not entered the game or an NPC has not  *)
(* moved, the lists of the others are right about it; between handlers its *)
(* own is.  The phases of a handler say what is still to be corrected.     *)
Waiting(h) == pc[h] \in {"idle", "insert", "enter", "old", "keep", "revive"}
RightAbout(h) ==
    Waiting(h) => \A q \in Players \ {Object[h]} : InGame(q) => Right(q, Object[h])
RightFor(h) ==
    h \in PlayerHandlers /\ InGame(Object[h]) /\ pc[h] = "idle" =>
        \A o \in Ids \ {Object[h]} : Right(Object[h], o)

\* A list entry of q about p that the handler of p need not correct.
Excused(q, p) == p \in view[q] => <<q, p>> \in inherited
\* What a client that is not in the game yet has listed is not its own; and
\* players never sleep.
Newcomers == \A p \in Players :
    /\ state[p] # "SLEEP"
    /\ state[p] = "ACCEPT" => \A o \in Ids : Excused(p, o)

Playing(h) == pc[h] \in {"teleport", "moveid", "relist", "scan", "update"} =>
    InGame(Object[h])
Coming(h) == pc[h] \in {"insert", "enter"} => state[Object[h]] = "ACCEPT"
TargetSeen(h) == \A o \in Ids : who[h] = o => Visible(Object[h], o)
ListsFound(h) ==
    LET p == Object[h]
    IN  \A o \in Ids \ {p} : /\ Visible(p, o) => o \in view[p] \/ ToScan(h, o)
                             /\ o \in view[p] => Visible(p, o) \/ <<p, o>> \in inherited
FoundLists(h) ==
    LET p == Object[h]
    IN  \A q \in Players \ {p} : InGame(q) =>
            /\ Visible(q, p) => p \in view[q] \/ who[h] = q \/ ToScan(h, q)
            /\ p \in view[q] => Visible(q, p) \/ <<q, p>> \in inherited
Entered(h) == pc[h] = "scan" /\ Entering(h) =>
    TargetSeen(h) /\ ListsFound(h) /\ FoundLists(h)
Mutual(h) ==
    pc[h] \in {"teleport", "moveid", "relist"} \/ (pc[h] = "scan" /\ ~Entering(h)) =>
        \A q \in Players \ {Object[h]} :
            InGame(q) => Excused(q, Object[h]) \/ q \in view[Object[h]]
Updating(h) == pc[h] = "update" =>
    \A q \in Players \ {Object[h]} : InGame(q) =>
        Excused(q, Object[h]) \/ q \in near[h] \/ q \in list[h] \/ who[h] = q
Leaving(h) == pc[h] = "leave" =>
    \A q \in Players \ {Object[h]} : InGame(q) => Excused(q, Object[h]) \/ q \in cand[h]
PlayerPhase(h) ==
    Playing(h) /\ Coming(h) /\ Entered(h) /\ Mutual(h) /\ Updating(h) /\ Leaving(h)

OldSeen(h) == pc[h] = "old" =>
    \A p \in Players : p \in list[h] <=> p \notin cand[h] /\ Sees(Object[h], p)
ListsRight(h) == pc[h] \in {"moveid", "relist", "new"} =>
    LET n == Object[h]
    IN  \A p \in Players : /\ p \in list[h] => InGame(p) /\ n \in view[p]
                           /\ InGame(p) => Excused(p, n) \/ p \in list[h]
NewSeen(h) == pc[h] = "new" =>
    \A p \in Players : p \in near[h] <=> p \notin cand[h] /\ Sees(Object[h], p)
NpcPhase(h) == OldSeen(h) /\ ListsRight(h) /\ NewSeen(h)

SeqOf(h) == /\ RightAbout(h) /\ RightFor(h)
            /\ h \in PlayerHandlers => PlayerPhase(h)
            /\ h \in NpcHandlers => NpcPhase(h)

\* What a step of h starts from when no other handler runs.
Single(h) == /\ RestTypes /\ GridInv /\ strays = {} /\ Newcomers /\ Fresh(h) /\ SeqOf(h)
             /\ \A g \in Handlers \ {h} : pc[g] = "idle"

LEMMA SingleFacts ==
    ASSUME NEW h \in PlayerHandlers, Single(h)
    PROVE  /\ h \in Handlers /\ h \notin NpcHandlers
           /\ Object[h] \in Players /\ Object[h] \in Ids /\ Object[h] \notin Npcs
           /\ RestTypes /\ GridInv /\ GridTypes /\ Players \subseteq Ids
           /\ RightAbout(h) /\ RightFor(h) /\ PlayerPhase(h) /\ Fresh(h)
  BY IdFacts DEF Single, GridInv, SeqOf

LEMMA SingleFound ==
    ASSUME NEW h \in Handlers, Single(h), NEW o \in Ids, Visible(Object[h], o)
    PROVE  /\ o \in grid[GetSectorIndex(pos[o])]
           /\ GetSectorIndex(pos[o]) \in GetNearSectorIndexes(pos[Object[h]])
  <1>1. GridInv /\ Object[h] \in Ids /\ o \notin strays /\ o # Object[h]
    BY IdFacts DEF Single, Visible
  <1>2. \A g \in Handlers : Object[g] = o => pc[g] = "idle"
    BY <1>1 DEF Single
  <1> QED
    BY <1>1, <1>2, VisibleFound

LEMMA VisibleBoth ==
    ASSUME GridTypes, NEW p \in Ids, NEW q \in Ids, InPlay(p), InPlay(q)
    PROVE  Visible(p, q) <=> Visible(q, p)
  BY NearSymmetric DEF GridTypes, Visible, InPlay

LEMMA LoginInTurn ==
    ASSUME NEW h \in PlayerHandlers, Single(h), ~overlapped',
           (\E at \in Spawns : Login(h, at)) \/ InsertID(h)
    PROVE  SeqOf(h)'
  <1> DEFINE p == Object[h]
  <1>0. /\ h \in Handlers /\ h \notin NpcHandlers /\ p \in Players /\ p \in Ids
        /\ RestTypes /\ GridInv /\ GridTypes /\ PlayerPhase(h)
    BY SingleFacts
  <1>1. /\ UNCHANGED <<view, state, inherited>> /\ pc'[h] \in {"insert", "enter"} /\ Waiting(h)
        /\ state[p] = "ACCEPT"
    <2>1. CASE \E at \in Spawns : Login(h, at)
      BY <1>0, <2>1 DEF Login, Starts, GoTo, GridTypes, Waiting
    <2>2. CASE InsertID(h)
      BY <1>0, <2>2 DEF InsertID, Runs, GoTo, GridTypes, Waiting, PlayerPhase, Coming
    <2> QED
      BY <2>1, <2>2
  <1>2. RightAbout(h)'
    <2>1. ASSUME NEW q \in Players \ {p}, InGame(q)' PROVE Right(q, p)'
      <3>1. InGame(q)
        BY <1>1, <2>1 DEF InGame
      <3>2. Right(q, p)
        BY <1>1, <3>1 DEF Single, SeqOf, RightAbout
      <3>3. ~Visible(q, p) /\ ~Visible(q, p)'
        BY <1>1 DEF Visible
      <3> QED
        BY <1>1, <3>2, <3>3 DEF Right
    <2> QED
      BY <2>1 DEF RightAbout
  <1>3. RightFor(h)' /\ PlayerPhase(h)'
    BY <1>1 DEF RightFor, PlayerPhase, Playing, Coming, Entered, Mutual, Updating, Leaving
  <1> QED
    BY <1>0, <1>2, <1>3 DEF SeqOf

LEMMA EnterInTurn ==
    ASSUME NEW h \in PlayerHandlers, Single(h), Enter(h)
    PROVE  SeqOf(h)'
  <1> DEFINE p == Object[h]
  <1>0. /\ h \in Handlers /\ h \notin NpcHandlers /\ p \in Players /\ p \in Ids
        /\ RestTypes /\ GridInv /\ GridTypes /\ RightAbout(h)
    BY SingleFacts
  <1>1. /\ UNCHANGED <<view, inherited, pos, who>> /\ pc[h] = "enter" /\ pc'[h] = "scan"
        /\ state[p] = "ACCEPT" /\ state'[p] = "INGAME" /\ who[h] = None
        /\ secs'[h] = GetNearSectorIndexes(pos[p]) /\ Entering(h)'
        /\ \A o \in Ids \ {p} : state'[o] = state[o]
    BY <1>0 DEF Enter, Runs, GoTo, history, Entering, RestTypes, LocalTypes, GridTypes
  <1>2. \A o \in Ids \ {p} : Visible(p, o)' => GetSectorIndex(pos[o]) \in secs'[h]
    <2>1. ASSUME NEW o \in Ids \ {p}, Visible(p, o)'
          PROVE  GetSectorIndex(pos[o]) \in secs'[h]
      <3>1. Visible(p, o)
        BY <1>1, <2>1 DEF Visible
      <3> QED
        BY <1>0, <1>1, <3>1, SingleFound
    <2> QED
      BY <2>1
  <1>3. ASSUME NEW q \in Players \ {p}, InGame(q)'
        PROVE  /\ Visible(q, p)' => GetSectorIndex(pos[q]) \in secs'[h]
               /\ p \in view[q] => <<q, p>> \in inherited
    <2>1. q \in Ids /\ InGame(q) /\ ~Visible(q, p)
      BY <1>1, <1>3, IdFacts DEF InGame, Visible
    <2>2. Right(q, p)
      BY <1>0, <1>1, <2>1 DEF RightAbout, Waiting
    <2>3. Visible(q, p)' => Visible(p, q)'
      <3>1. IsNear(pos[p], pos[q]) <=> IsNear(pos[q], pos[p])
        BY <1>0, <2>1, NearSymmetric DEF GridTypes
      <3> QED
        BY <1>1, <1>3, <2>1, <3>1 DEF Visible, InGame
    <2> QED
      BY <1>2, <2>1, <2>2, <2>3 DEF Right
  <1>4. Entered(h)'
    <2>1. \A o \in Ids : o \in view[p] => <<p, o>> \in inherited
      BY <1>0, <1>1 DEF Single, Newcomers, Excused
    <2>2. TargetSeen(h)'
      BY <1>1, WorldAssumption DEF TargetSeen, Ids
    <2>3. ListsFound(h)'
      BY <1>1, <1>2, <2>1 DEF ListsFound, ToScan
    <2>4. FoundLists(h)'
      BY <1>0, <1>1, <1>3 DEF FoundLists, ToScan
    <2> QED
      BY <2>2, <2>3, <2>4 DEF Entered
  <1> QED
    BY <1>0, <1>1, <1>4 DEF SeqOf, RightAbout, Waiting, RightFor, PlayerPhase, Playing, Coming,
                           Mutual, Updating, Leaving, InGame

LEMMA MoveInTurn ==
    ASSUME NEW h \in PlayerHandlers, Single(h), ~overlapped',
           \/ \E direction \in 0..3 : Move(h, direction)
           \/ \E x \in 0..Width - 1 : Teleport(h, x)
           \/ \E y \in 0..Height - 1 : TeleportY(h, y)
           \/ ReadNext(h) \/ MoveID(h)
    PROVE  SeqOf(h)'
  <1> DEFINE p == Object[h]
  <1>0. /\ h \in Handlers /\ h \notin NpcHandlers /\ p \in Players /\ p \in Ids /\ p \notin Npcs
        /\ RestTypes /\ GridInv /\ GridTypes /\ RightAbout(h) /\ RightFor(h) /\ PlayerPhase(h)
    BY SingleFacts
  <1>1. CASE \/ \E direction \in 0..3 : Move(h, direction)
             \/ \E x \in 0..Width - 1 : Teleport(h, x)
    <2>1. /\ UNCHANGED <<state, view, inherited>> /\ pc[h] = "idle" /\ InGame(p)
          /\ pc'[h] \in {"teleport", "moveid"}
      BY <1>0, <1>1 DEF Move, Teleport, Starts, GoTo, GridTypes, InGame
    <2>2. ASSUME NEW q \in Players \ {p}, InGame(q)
          PROVE  Excused(q, p) \/ q \in view[p]
      <3>1. Right(q, p) /\ Right(p, q) /\ q \in Ids
        BY <1>0, <2>1, <2>2, IdFacts DEF RightAbout, RightFor, Waiting
      <3>2. Visible(q, p) <=> Visible(p, q)
        BY <1>0, <2>1, <2>2, <3>1, VisibleBoth DEF InGame, InPlay
      <3> QED
        BY <3>1, <3>2 DEF Right, Excused
    <2>3. Mutual(h)'
      BY <2>1, <2>2 DEF Mutual, Excused, InGame
    <2> QED
      BY <1>0, <2>1, <2>3 DEF SeqOf, RightAbout, Waiting, RightFor, PlayerPhase, Playing,
                             Coming, Entered, Updating, Leaving, InGame
  <1>2. CASE (\E y \in 0..Height - 1 : TeleportY(h, y)) \/ ReadNext(h) \/ MoveID(h)
    <2>1. /\ UNCHANGED <<state, view, inherited, list>>
          /\ pc[h] \in {"teleport", "moveid", "relist"}
          /\ pc'[h] \in {"moveid", "relist", "scan"}
      BY <1>0, <1>2 DEF TeleportY, ReadNext, MoveID, Runs, GoTo, GridTypes, history
    <2>2. ~Entering(h)'
      BY <2>1 DEF Single, Fresh, Entering
    <2>3. Mutual(h)' /\ Playing(h)'
      BY <1>0, <2>1 DEF PlayerPhase, Mutual, Playing, Excused, InGame
    <2> QED
      BY <1>0, <2>1, <2>2, <2>3 DEF SeqOf, RightAbout, Waiting, RightFor, PlayerPhase,
                                   Coming, Entered, Updating, Leaving
  <1> QED
    BY <1>1, <1>2

LEMMA TellInScan ==
    ASSUME NEW h, Tell(h), pc[h] = "scan", who[h] \notin Npcs
    PROVE  Put(h, who[h], Object[h])
  BY DEF Tell

LEMMA ScanInTurn ==
    ASSUME NEW h \in PlayerHandlers, Single(h),
           \/ \E s \in SectorIndexes : ReadSector(h, s)
           \/ \E o \in Ids : Look(h, o)
           \/ Tell(h) /\ pc[h] = "scan"
    PROVE  SeqOf(h)'
  <1> DEFINE p == Object[h]
  <1>0. /\ h \in Handlers /\ h \notin NpcHandlers /\ p \in Players /\ p \in Ids /\ p \notin Npcs
        /\ RestTypes /\ GridInv /\ GridTypes /\ Players \subseteq Ids
        /\ RightAbout(h) /\ RightFor(h) /\ PlayerPhase(h) /\ Fresh(h)
    BY SingleFacts
  <1> USE DEF RestTypes, LocalTypes, ListTypes, GridTypes
  <1>1. /\ pc[h] = "scan" /\ UNCHANGED <<pc, list, pos, inherited>>
        /\ UNCHANGED near \/ ~Entering(h)
    BY DEF ReadSector, Look, Tell, Runs, history
  <1>2. InGame(p) /\ (Entering(h)' <=> Entering(h))
    BY <1>0, <1>1 DEF PlayerPhase, Playing, Entering
  <1>3. /\ \A o \in Ids : InPlay(o)' <=> InPlay(o)
        /\ \A q \in Players : state'[q] = state[q]
    <2>1. UNCHANGED state \/ \E o \in Npcs : ActivateNPC(o, p)
      BY DEF ReadSector, Look, Tell
    <2> QED
      BY <1>0, <2>1, ActivatePlay, StoreAlive DEF InPlay, Single
  <1>4. \A o, q \in Ids : Visible(o, q)' <=> Visible(o, q)
    BY <1>1, <1>3, VisibleSame
  <1>5. \A q \in Players : InGame(q)' <=> InGame(q)
    BY <1>3 DEF InGame
  <1>6. CASE ~Entering(h)
    <2>1. UNCHANGED view
      <3>1. who[h] = None
        BY <1>0, <1>1, <1>6 DEF Fresh, Quiet
      <3> QED
        BY <1>6, <3>1 DEF ReadSector, Look, Tell
    <2>2. Mutual(h)'
      BY <1>0, <1>1, <1>2, <1>5, <1>6, <2>1 DEF PlayerPhase, Mutual, Excused
    <2> QED
      BY <1>0, <1>1, <1>2, <1>5, <1>6, <2>2
      DEF SeqOf, RightAbout, Waiting, RightFor, PlayerPhase, Playing, Coming, Entered,
          Updating, Leaving
  <1>7. CASE Entering(h)
    <2>0. TargetSeen(h) /\ ListsFound(h) /\ FoundLists(h)
      BY <1>0, <1>1, <1>7 DEF PlayerPhase, Entered
    <2>1. ASSUME NEW s \in SectorIndexes, ReadSector(h, s) PROVE Entered(h)'
      <3>1. /\ cand[h] = {} /\ cand'[h] = grid[s] /\ secs'[h] = secs[h] \ {s}
            /\ UNCHANGED <<view, who>> /\ who[h] = None
        BY <1>0, <2>1 DEF ReadSector, Runs
      <3>2. \A o \in Ids : Visible(p, o) => o \in grid[GetSectorIndex(pos[o])]
        BY <1>0, SingleFound
      <3>3. \A o \in Ids : Visible(p, o) /\ ToScan(h, o) => ToScan(h, o)'
        BY <1>1, <3>1, <3>2 DEF ToScan
      <3>4. \A q \in Players \ {p} : InGame(q) => (Visible(q, p) <=> Visible(p, q))
        BY <1>0, <1>2, VisibleBoth DEF InGame, InPlay
      <3> QED
        BY <1>0, <1>1, <1>2, <1>4, <1>5, <1>7, <2>0, <3>1, <3>3, <3>4
        DEF Entered, TargetSeen, ListsFound, FoundLists
    <2>2. ASSUME NEW o \in Ids, Look(h, o) PROVE Entered(h)'
      <3>1. /\ cand'[h] = cand[h] \ {o} /\ UNCHANGED secs /\ who[h] = None
        BY <1>0, <2>2 DEF Look, Runs
      <3>2. \A x \in Ids \ {o} : ToScan(h, x)' <=> ToScan(h, x)
        BY <1>1, <3>1 DEF ToScan
      <3>3. CASE ~Visible(p, o)
        <4>1. UNCHANGED <<view, who>>
          BY <2>2, <3>3 DEF Look
        <4>2. \A q \in Players \ {p} : InGame(q) => (Visible(q, p) <=> Visible(p, q))
          BY <1>0, <1>2, VisibleBoth DEF InGame, InPlay
        <4> QED
          BY <1>0, <1>1, <1>2, <1>4, <1>5, <1>7, <2>0, <3>1, <3>2, <3>3, <4>1, <4>2
          DEF Entered, TargetSeen, ListsFound, FoundLists
      <3>4. CASE Visible(p, o)
        <4>1. Put(h, p, o) /\ who'[h] = o
          BY <1>0, <1>7, <2>2, <3>4 DEF Look
        <4>2. /\ o \in view'[p]
              /\ \A q \in Players, x \in Ids : q # p \/ x # o =>
                     (x \in view'[q] <=> x \in view[q])
          BY <1>0, <4>1, ListChange
        <4>3. ListsFound(h)'
          BY <1>0, <1>1, <1>4, <2>0, <3>2, <3>4, <4>2 DEF ListsFound
        <4>4. ASSUME NEW q \in Players \ {p}, InGame(q)'
              PROVE  /\ Visible(q, p)' => p \in view'[q] \/ who'[h] = q \/ ToScan(h, q)'
                     /\ p \in view'[q] => Visible(q, p)' \/ <<q, p>> \in inherited'
          <5>1. p \in view'[q] <=> p \in view[q]
            BY <1>0, <4>2, <4>4
          <5>2. who[h] # q
            BY <3>1, WorldAssumption
          <5> QED
            BY <1>0, <1>1, <1>4, <1>5, <2>0, <3>2, <4>1, <4>4, <5>1, <5>2 DEF FoundLists
        <4>5. FoundLists(h)'
          BY <4>4 DEF FoundLists
        <4>6. TargetSeen(h)'
          BY <1>0, <1>4, <3>4, <4>1 DEF TargetSeen
        <4> QED
          BY <4>3, <4>5, <4>6 DEF Entered
      <3> QED
        BY <3>3, <3>4
    <2>3. ASSUME Tell(h) PROVE Entered(h)'
      <3> DEFINE o == who[h]
      <3>1. /\ o \in Ids /\ Visible(p, o) /\ o # p /\ who'[h] = None /\ UNCHANGED <<cand, secs>>
        BY <1>0, <1>1, <1>7, <2>0, <2>3 DEF Tell, TargetSeen, Visible
      <3>2. \A x \in Ids : ToScan(h, x)' <=> ToScan(h, x)
        BY <1>1, <3>1 DEF ToScan
      <3>3. /\ o \in Npcs => UNCHANGED view
            /\ o \notin Npcs => Put(h, o, p) /\ o \in Players
        <4>1. o \in Npcs => UNCHANGED view
          BY <2>3 DEF Tell
        <4>2. o \notin Npcs => Put(h, o, p)
          BY <1>1, <2>3, TellInScan
        <4> QED
          BY <3>1, <4>1, <4>2 DEF Ids
      <3>4. /\ o \in Players => p \in view'[o]
            /\ \A q \in Players, x \in Ids : q # o \/ x # p =>
                     (x \in view'[q] <=> x \in view[q])
        <4> HIDE DEF o
        <4>1. CASE o \in Npcs
          BY <3>3, <4>1, IdFacts
        <4>2. CASE o \notin Npcs
          BY <1>0, <3>3, <4>2, ListChange
        <4> QED
          BY <4>1, <4>2
      <3>5. o \in Players => (Visible(o, p) <=> Visible(p, o))
        BY <1>0, <1>2, <3>1, VisibleBoth DEF InGame, InPlay, Visible
      <3>6. ListsFound(h)'
        BY <1>0, <1>1, <1>4, <2>0, <3>2, <3>4 DEF ListsFound
      <3>7. ASSUME NEW q \in Players \ {p}, InGame(q)'
            PROVE  /\ Visible(q, p)' => p \in view'[q] \/ who'[h] = q \/ ToScan(h, q)'
                   /\ p \in view'[q] => Visible(q, p)' \/ <<q, p>> \in inherited'
        <4>1. CASE q = o
          BY <1>0, <1>4, <3>1, <3>4, <3>5, <4>1
        <4>2. CASE q # o
          BY <1>0, <1>1, <1>4, <1>5, <2>0, <3>2, <3>4, <3>7, <4>2 DEF FoundLists
        <4> QED
          BY <4>1, <4>2
      <3>8. TargetSeen(h)'
        BY <3>1, WorldAssumption DEF TargetSeen, Ids
      <3>9. FoundLists(h)'
        BY <3>7 DEF FoundLists
      <3> QED
        BY <3>6, <3>8, <3>9 DEF Entered
    <2>4. Entered(h)'
      BY <2>1, <2>2, <2>3
    <2> QED
      BY <1>0, <1>1, <1>2, <1>5, <1>7, <2>4
      DEF SeqOf, RightAbout, Waiting, RightFor, PlayerPhase, Playing, Coming, Mutual,
          Updating, Leaving
  <1> QED
    BY <1>6, <1>7

LEMMA ScannedInTurn ==
    ASSUME NEW h \in PlayerHandlers, Single(h), Scanned(h)
    PROVE  SeqOf(h)'
  <1> DEFINE p == Object[h]
  <1>0. /\ h \in Handlers /\ h \notin NpcHandlers /\ p \in Players /\ p \in Ids /\ p \notin Npcs
        /\ RestTypes /\ GridInv /\ GridTypes /\ Players \subseteq Ids
        /\ RightAbout(h) /\ RightFor(h) /\ PlayerPhase(h) /\ Fresh(h)
    BY SingleFacts
  <1> USE DEF RestTypes, LocalTypes, ListTypes, GridTypes
  <1>1. /\ pc[h] = "scan" /\ who[h] = None /\ secs[h] = {} /\ cand[h] = {}
        /\ UNCHANGED <<pos, state, view, inherited>>
    BY DEF Scanned, Runs, history
  <1>2. \A o, q \in Ids : Visible(o, q)' <=> Visible(o, q)
    BY <1>1 DEF Visible
  <1>3. \A k \in Players : None # k
    BY WorldAssumption
  <1>4. CASE Entering(h)
    <2>1. pc'[h] = "idle"
      BY <1>0, <1>4 DEF Scanned, Finish, GoTo
    <2>2. ListsFound(h) /\ FoundLists(h)
      BY <1>0, <1>1, <1>4 DEF PlayerPhase, Entered
    <2>3. \A o \in Ids : ~ToScan(h, o)
      BY <1>1 DEF ToScan
    <2>4. RightAbout(h)'
      BY <1>0, <1>1, <1>2, <1>3, <1>4, <2>2, <2>3 DEF RightAbout, Right, FoundLists, InGame
    <2>5. RightFor(h)'
      BY <1>0, <1>1, <1>2, <1>4, <2>2, <2>3 DEF RightFor, Right, ListsFound
    <2> QED
      BY <1>0, <2>1, <2>4, <2>5 DEF SeqOf, PlayerPhase, Playing, Coming, Entered, Mutual,
                                    Updating, Leaving
  <1>5. CASE ~Entering(h)
    <2>1. pc'[h] = "update" /\ list'[h] = view[p]
      BY <1>0, <1>5 DEF Scanned, GoTo
    <2>2. Mutual(h) /\ InGame(p)
      BY <1>0, <1>1 DEF PlayerPhase, Playing
    <2>3. Updating(h)'
      BY <1>1, <1>5, <2>1, <2>2 DEF Updating, Mutual, Excused, InGame
    <2> QED
      BY <1>0, <1>1, <2>1, <2>2, <2>3
      DEF SeqOf, RightAbout, Waiting, RightFor, PlayerPhase, Playing, Coming, Entered,
          Mutual, Leaving, InGame
  <1> QED
    BY <1>4, <1>5

LEMMA TellInUpdate ==
    ASSUME RestTypes, NEW h \in PlayerHandlers, Tell(h), pc[h] = "update"
    PROVE  /\ who[h] \in Ids /\ who'[h] = None
           /\ who[h] \in Npcs => UNCHANGED view
           /\ who[h] \notin Npcs =>
                  /\ who[h] \in Players
                  /\ who[h] \notin near[h] => Object[h] \notin view'[who[h]]
           /\ \A q \in Players, o \in Ids : q # who[h] \/ o # Object[h] =>
                  (o \in view'[q] <=> o \in view[q])
  <1> DEFINE o == who[h]
  <1> DEFINE p == Object[h]
  <1>0. h \in Handlers /\ p \in Players /\ p \in Ids
    BY IdFacts
  <1>1. o \in Ids /\ who'[h] = None
    BY <1>0 DEF Tell, RestTypes, LocalTypes
  <1>2. /\ o \in Npcs => UNCHANGED view
        /\ o \notin Npcs /\ o \in near[h] => FindAndInsertViewID(h, o, p)
        /\ o \notin Npcs /\ o \notin near[h] => FindAndEraseViewID(h, o, p)
    BY DEF Tell
  <1> HIDE DEF o
  <1>3. CASE o \in Npcs
    BY <1>1, <1>2, <1>3 DEF o
  <1>4. CASE o \notin Npcs
    <2>1. o \in Players
      BY <1>1, <1>4 DEF Ids
    <2>2. /\ o \notin near[h] => p \notin view'[o]
          /\ \A q \in Players, x \in Ids : q # o \/ x # p => (x \in view'[q] <=> x \in view[q])
      BY <1>0, <1>2, <1>4, <2>1, ListChange
    <2> QED
      BY <1>1, <1>4, <2>1, <2>2 DEF o
  <1> QED
    BY <1>3, <1>4

LEMMA UpdateInTurn ==
    ASSUME NEW h \in PlayerHandlers, Single(h),
           \/ \E o \in Ids : PlayerSight(h, o) \/ PlayerGone(h, o)
           \/ Tell(h) /\ pc[h] = "update"
    PROVE  SeqOf(h)'
  <1> DEFINE p == Object[h]
  <1>0. /\ h \in Handlers /\ h \notin NpcHandlers /\ p \in Players /\ p \in Ids /\ p \notin Npcs
        /\ RestTypes /\ GridInv /\ GridTypes /\ Players \subseteq Ids
        /\ RightAbout(h) /\ RightFor(h) /\ PlayerPhase(h) /\ Fresh(h)
    BY SingleFacts
  <1>1. /\ pc[h] = "update" /\ UNCHANGED <<pc, near, inherited>>
        /\ \A q \in Players : state'[q] = state[q]
    <2>1. UNCHANGED state \/ \E o \in Npcs : ActivateNPC(o, p)
      BY DEF PlayerSight, PlayerGone, Tell
    <2>2. \A q \in Players : state'[q] = state[q]
      BY <1>0, <2>1, StoreAlive DEF Single
    <2> QED
      BY <2>2 DEF PlayerSight, PlayerGone, Tell, Runs
  <1>2. Updating(h) /\ InGame(p)
    BY <1>0, <1>1 DEF PlayerPhase, Playing
  <1>3. ASSUME NEW o \in Ids, PlayerSight(h, o) \/ PlayerGone(h, o) PROVE Updating(h)'
    <2>1. /\ who[h] = None /\ who'[h] = o
          /\ \A x \in Ids : x \in list[h] => x \in list'[h] \/ x = o
      BY <1>0, <1>3 DEF PlayerSight, PlayerGone, Runs, RestTypes, LocalTypes
    <2>2. \A q \in Players \ {p} : p \in view'[q] <=> p \in view[q]
      <3>1. Lists(h, p, o)
        BY <1>3 DEF PlayerSight, PlayerGone, Lists
      <3> QED
        BY <1>0, <1>3, ListChange DEF PlayerSight, PlayerGone
    <2>3. \A q \in Players : who[h] # q
      BY <2>1, WorldAssumption
    <2> QED
      BY <1>0, <1>1, <1>2, <2>1, <2>2, <2>3 DEF Updating, Excused, InGame
  <1>4. ASSUME Tell(h) PROVE Updating(h)'
    <2>1. UNCHANGED list
      BY <1>4 DEF Tell
    <2>2. ASSUME NEW q \in Players \ {p}, InGame(q)'
          PROVE  Excused(q, p)' \/ q \in near'[h] \/ q \in list'[h]
      <3>1. InGame(q)
        BY <1>1, <2>2 DEF InGame
      <3>2. CASE q = who[h]
        <4>1. q \notin Npcs
          BY IdFacts
        <4>2. q \notin near[h] => p \notin view'[q]
          BY <1>0, <1>1, <1>4, <3>2, <4>1, TellInUpdate
        <4> QED
          BY <1>1, <4>2 DEF Excused
      <3>3. CASE q # who[h]
        <4>1. p \in view'[q] <=> p \in view[q]
          BY <1>0, <1>1, <1>4, <3>3, TellInUpdate
        <4> QED
          BY <1>1, <1>2, <2>1, <3>1, <3>3, <4>1 DEF Updating, Excused
      <3> QED
        BY <3>2, <3>3
    <2> QED
      BY <2>2 DEF Updating
  <1>5. Updating(h)'
    BY <1>3, <1>4
  <1> QED
    BY <1>0, <1>1, <1>2, <1>5 DEF SeqOf, RightAbout, Waiting, RightFor, PlayerPhase, Playing,
       Coming, Entered, Mutual, Leaving, InGame

LEMMA MovedInTurn ==
    ASSUME NEW h \in PlayerHandlers, Single(h), SoloUpdate(h), PlayerMoved(h)
    PROVE  SeqOf(h)'
  <1> DEFINE p == Object[h]
  <1>0. /\ h \in Handlers /\ h \notin NpcHandlers /\ p \in Players /\ p \in Ids /\ p \notin Npcs
        /\ RestTypes /\ GridInv /\ GridTypes /\ Players \subseteq Ids
        /\ RightAbout(h) /\ RightFor(h) /\ PlayerPhase(h) /\ Fresh(h)
    BY SingleFacts
  <1>1. /\ pc[h] = "update" /\ who[h] = None /\ cand[h] = {} /\ list[h] \subseteq near[h]
        /\ UNCHANGED <<pos, state, view, inherited>> /\ pc'[h] = "idle"
    BY <1>0 DEF PlayerMoved, Runs, Finish, GoTo, history, GridTypes
  <1>2. \A o, q \in Ids : Visible(o, q)' <=> Visible(o, q)
    BY <1>1 DEF Visible
  <1>3. InGame(p) /\ Updating(h)
    BY <1>0, <1>1 DEF PlayerPhase, Playing
  <1>4. RightFor(h)'
    <2>1. view[p] \subseteq Ids
      BY <1>0 DEF RestTypes, ListTypes
    <2>2. \A o \in Ids : o \in view[p] <=> Visible(p, o)
      BY <1>1, <2>1 DEF SoloUpdate, Single
    <2> QED
      BY <1>0, <1>1, <1>2, <2>2 DEF RightFor, Right
  <1>5. RightAbout(h)'
    <2>1. ASSUME NEW q \in Players \ {p}, InGame(q)' PROVE Right(q, p)'
      <3>1. InGame(q) /\ q \in Ids /\ who[h] # q
        BY <1>0, <1>1, <2>1, WorldAssumption DEF InGame
      <3>2. (Visible(q, p) <=> Visible(p, q)) /\ (q \in near[h] <=> Visible(p, q))
        BY <1>0, <1>3, <3>1, VisibleBoth DEF InGame, InPlay, SoloUpdate, Single
      <3>3. Visible(p, q) => p \in view[q]
        BY <1>1, <3>1, <3>2 DEF SoloUpdate
      <3>4. p \in view[q] => Visible(p, q) \/ <<q, p>> \in inherited
        BY <1>1, <1>3, <2>1, <3>1, <3>2 DEF Updating, Excused
      <3> QED
        BY <1>0, <1>1, <1>2, <3>1, <3>2, <3>3, <3>4 DEF Right
    <2> QED
      BY <2>1 DEF RightAbout
  <1> QED
    BY <1>0, <1>1, <1>4, <1>5 DEF SeqOf, PlayerPhase, Playing, Coming, Entered, Mutual,
                                  Updating, Leaving

LEMMA LeaveInTurn ==
    ASSUME NEW h \in PlayerHandlers, Single(h), ~overlapped',
           Leave(h) \/ Left(h) \/ \E o \in Players : LeaveView(h, o)
    PROVE  SeqOf(h)'
  <1> DEFINE p == Object[h]
  <1>0. /\ h \in Handlers /\ h \notin NpcHandlers /\ p \in Players /\ p \in Ids /\ p \notin Npcs
        /\ RestTypes /\ GridInv /\ GridTypes /\ Players \subseteq Ids
        /\ RightAbout(h) /\ RightFor(h) /\ PlayerPhase(h) /\ Fresh(h)
    BY SingleFacts
  <1>1. CASE Leave(h)
    <2>1. /\ pc[h] = "idle" /\ pc'[h] = "leave" /\ state[p] # "FREE"
          /\ UNCHANGED <<state, view, inherited>> /\ cand'[h] = view[p] \cap Players
      BY <1>0, <1>1 DEF Leave, Starts, GoTo, GridTypes, RestTypes, LocalTypes
    <2>2. ASSUME NEW q \in Players \ {p}, InGame(q)
          PROVE  Excused(q, p) \/ q \in view[p]
      <3>1. Right(q, p) /\ q \in Ids
        BY <1>0, <2>1, <2>2 DEF RightAbout, Waiting
      <3>2. CASE InGame(p)
        <4>1. Right(p, q)
          BY <1>0, <2>1, <2>2, <3>2 DEF RightFor
        <4>2. Visible(q, p) <=> Visible(p, q)
          BY <1>0, <2>2, <3>1, <3>2, VisibleBoth DEF InGame, InPlay
        <4> QED
          BY <3>1, <4>1, <4>2 DEF Right, Excused
      <3>3. CASE state[p] = "ACCEPT"
        <4>1. ~Visible(q, p)
          BY <3>3 DEF Visible
        <4> QED
          BY <3>1, <4>1 DEF Right, Excused
      <3>4. CASE state[p] = "SLEEP"
        BY <1>0, <3>4 DEF Single, Newcomers
      <3> QED
        BY <1>0, <2>1, <3>2, <3>3, <3>4 DEF GridTypes, InGame
    <2>3. Leaving(h)'
      BY <2>1, <2>2 DEF Leaving, Excused, InGame
    <2> QED
      BY <1>0, <2>1, <2>3 DEF SeqOf, RightAbout, Waiting, RightFor, PlayerPhase, Playing,
                             Coming, Entered, Mutual, Updating, InGame
  <1>2. ASSUME NEW o \in Players, LeaveView(h, o) PROVE SeqOf(h)'
    <2>1. /\ pc[h] = "leave" /\ UNCHANGED <<pc, state, inherited>>
          /\ cand'[h] = cand[h] \ {o}
      BY <1>0, <1>2 DEF LeaveView, Runs, RestTypes, LocalTypes
    <2>2. Leaving(h)
      BY <1>0 DEF PlayerPhase
    <2>3. ASSUME NEW q \in Players \ {p}, InGame(q)
          PROVE  Excused(q, p)' \/ q \in cand'[h]
      <3>1. CASE q = o
        <4>1. FindAndEraseViewID(h, o, p)
          BY <1>2, <2>3, <3>1 DEF LeaveView, InGame
        <4>2. p \notin view'[q]
          BY <1>0, <3>1, <4>1, ListChange
        <4> QED
          BY <4>2 DEF Excused
      <3>2. CASE q # o
        <4>1. p \in view'[q] <=> p \in view[q]
          BY <1>0, <1>2, <3>2, ListChange DEF LeaveView
        <4> QED
          BY <2>1, <2>2, <2>3, <3>2, <4>1 DEF Leaving, Excused
      <3> QED
        BY <3>1, <3>2
    <2>4. Leaving(h)'
      BY <2>1, <2>3 DEF Leaving, InGame
    <2> QED
      BY <1>0, <2>1, <2>2, <2>4 DEF SeqOf, RightAbout, Waiting, RightFor, PlayerPhase,
                                   Playing, Coming, Entered, Mutual, Updating, InGame
  <1>3. CASE Left(h)
    <2>1. /\ pc[h] = "leave" /\ pc'[h] = "idle" /\ cand[h] = {} /\ UNCHANGED <<view, inherited>>
          /\ state'[p] = "FREE" /\ \A q \in Ids \ {p} : state'[q] = state[q]
      BY <1>0, <1>3 DEF Left, Runs, Finish, GoTo, GridTypes, history
    <2>2. Leaving(h)
      BY <1>0 DEF PlayerPhase
    <2>3. RightAbout(h)'
      BY <1>0, <2>1, <2>2 DEF RightAbout, Right, Visible, Leaving, Excused, InGame
    <2> QED
      BY <1>0, <2>1, <2>3 DEF SeqOf, RightFor, PlayerPhase, Playing, Coming, Entered, Mutual,
                             Updating, Leaving, InGame
  <1> QED
    BY <1>1, <1>2, <1>3

LEMMA SameInTurn ==
    ASSUME NEW h \in Handlers, SeqOf(h),
           UNCHANGED <<pos, state, view, pc, secs, cand, near, list, who, inherited>>
    PROVE  SeqOf(h)'
  <1>1. RightAbout(h)' /\ RightFor(h)'
    BY DEF SeqOf, RightAbout, RightFor, Waiting, Right, Visible, InGame
  <1>2. ASSUME PlayerPhase(h) PROVE PlayerPhase(h)'
    BY <1>2 DEF PlayerPhase, Playing, Coming, Entered, TargetSeen, ListsFound,
       FoundLists, Mutual, Updating, Leaving, Excused, ToScan, Visible, InGame, Entering
  <1>3. ASSUME NpcPhase(h) PROVE NpcPhase(h)'
    BY <1>3 DEF NpcPhase, OldSeen, ListsRight, NewSeen, Excused, Sees, InGame
  <1> QED
    BY <1>1, <1>2, <1>3 DEF SeqOf

\* A player in game sees an NPC just when the NPC sees the player.
LEMMA SeesVisible ==
    ASSUME GridInv, NEW n \in Npcs, NEW p \in Players, InGame(p)
    PROVE  Visible(p, n) <=> Sees(n, p)
  BY IdFacts DEF GridInv, NpcsInPlay, InPlay, Visible, Sees, InGame

LEMMA NpcInTurn ==
    ASSUME NEW h \in NpcHandlers, Single(h), NpcNext(h) \/ ReadNext(h) \/ MoveID(h)
    PROVE  SeqOf(h)'
  <1> DEFINE n == Object[h]
  <1>0. /\ h \in Handlers /\ h \notin PlayerHandlers /\ n \in Npcs /\ n \in Ids /\ n \notin Players
        /\ RestTypes /\ GridTypes /\ Players \subseteq Ids /\ GridInv
    BY IdFacts DEF Single, GridInv
  <1> USE DEF RestTypes, LocalTypes, ListTypes, GridTypes
  <1>1. \A p \in Players : InGame(p) => (Visible(p, n) <=> Sees(n, p))
    BY <1>0, SeesVisible
  <1>a. RightAbout(h) /\ NpcPhase(h)
    BY DEF Single, SeqOf
  <1>2. CASE \E p \in Players : MoveNPC(h, p)
    <2>1. /\ pc[h] = "idle" /\ pc'[h] = "old" /\ list'[h] = {} /\ cand'[h] = Players
          /\ UNCHANGED <<pos, state, view, inherited>>
      BY <1>0, <1>2 DEF MoveNPC, Starts, GoTo, Single, Fresh
    <2>2. RightAbout(h)'
      BY <1>a, <2>1 DEF RightAbout, Waiting, Right, Visible, InGame
    <2> QED
      BY <1>0, <2>1, <2>2 DEF SeqOf, RightFor, NpcPhase, OldSeen, ListsRight, NewSeen
  <1>3. ASSUME NEW p \in Players, NpcOld(h, p) PROVE SeqOf(h)'
    <2>1. /\ pc[h] = "old" /\ cand'[h] = cand[h] \ {p}
          /\ list'[h] = (IF Sees(n, p) THEN list[h] \cup {p} ELSE list[h])
          /\ UNCHANGED <<pc, pos, state, view, inherited>> /\ p \in cand[h]
      BY <1>0, <1>3 DEF NpcOld, Runs, history
    <2>2. RightAbout(h)'
      BY <1>a, <2>1 DEF RightAbout, Waiting, Right, Visible, InGame
    <2>3. \A q \in Players : Sees(n, q)' <=> Sees(n, q)
      BY <2>1 DEF Sees
    <2>4. OldSeen(h)'
      BY <1>a, <2>1, <2>3 DEF NpcPhase, OldSeen
    <2> QED
      BY <1>0, <2>1, <2>2, <2>4 DEF SeqOf, RightFor, NpcPhase, ListsRight, NewSeen
  <1>4. CASE NpcStep(h)
    <2>1. /\ pc[h] = "old" /\ pc'[h] = "moveid" /\ cand[h] = {}
          /\ UNCHANGED <<state, view, list, inherited>>
      BY <1>0, <1>4 DEF NpcStep, Runs, GoTo, history
    <2>2. \A p \in Players : p \in list[h] <=> Sees(n, p)
      BY <1>a, <2>1 DEF NpcPhase, OldSeen
    <2>3. \A p \in Players : InGame(p) => Right(p, n)
      BY <1>0, <1>a, <2>1 DEF RightAbout, Waiting
    <2>4. \A p \in Players : Sees(n, p) => InGame(p)
      BY DEF Sees, InGame
    <2>5. ListsRight(h)'
      BY <1>1, <2>1, <2>2, <2>3, <2>4 DEF ListsRight, Right, Excused, InGame
    <2> QED
      BY <1>0, <2>1, <2>5 DEF SeqOf, RightAbout, Waiting, RightFor, NpcPhase, OldSeen, NewSeen
  <1>10. CASE ReadNext(h)
    <2>1. /\ pc[h] = "moveid" /\ pc'[h] = "relist"
          /\ UNCHANGED <<state, view, list, inherited>>
      BY <1>0, <1>10 DEF ReadNext, Runs, GoTo, history
    <2>2. ListsRight(h)'
      BY <1>a, <2>1 DEF NpcPhase, ListsRight, Excused, InGame
    <2> QED
      BY <1>0, <2>1, <2>2 DEF SeqOf, RightAbout, Waiting, RightFor, NpcPhase, OldSeen, NewSeen
  <1>5. CASE MoveID(h)
    <2>1. /\ pc[h] = "relist" /\ pc'[h] = "new" /\ cand'[h] = Players /\ near'[h] = {}
          /\ UNCHANGED <<state, view, list, inherited>>
      BY <1>0, <1>5 DEF MoveID, Runs, GoTo, history, Single, Fresh
    <2>2. ListsRight(h)'
      BY <1>a, <2>1 DEF NpcPhase, ListsRight, Excused, InGame
    <2> QED
      BY <1>0, <2>1, <2>2 DEF SeqOf, RightAbout, Waiting, RightFor, NpcPhase, OldSeen, NewSeen
  <1>6. ASSUME NEW p \in Players, NpcNew(h, p) PROVE SeqOf(h)'
    <2>1. /\ pc[h] = "new" /\ cand'[h] = cand[h] \ {p} /\ p \in cand[h]
          /\ near'[h] = (IF Sees(n, p) THEN near[h] \cup {p} ELSE near[h])
          /\ UNCHANGED <<pc, pos, state, view, list, inherited>>
      BY <1>0, <1>6 DEF NpcNew, Runs, history
    <2>2. ListsRight(h)'
      BY <1>a, <2>1 DEF NpcPhase, ListsRight, Excused, InGame
    <2>3. \A q \in Players : Sees(n, q)' <=> Sees(n, q)
      BY <2>1 DEF Sees
    <2>4. NewSeen(h)'
      BY <1>a, <2>1, <2>3 DEF NpcPhase, NewSeen
    <2> QED
      BY <1>0, <2>1, <2>2, <2>4 DEF SeqOf, RightAbout, Waiting, RightFor, NpcPhase, OldSeen
  <1>7. ASSUME NEW p \in Players, NpcSight(h, p) \/ NpcGone(h, p) PROVE SeqOf(h)'
    <2>1. /\ pc[h] = "new" /\ cand[h] = {}
          /\ UNCHANGED <<pc, pos, state, cand, near, inherited>>
      BY <1>7 DEF NpcSight, NpcGone, Runs
    <2>2. \A q \in Players \ {p} : n \in view'[q] <=> n \in view[q]
      BY <1>0, <1>7, ListChange DEF NpcSight, NpcGone
    <2>6. \A q \in Players \ {p} : q \in list'[h] <=> q \in list[h]
      BY <1>0, <1>7 DEF NpcSight, NpcGone
    <2>3. \/ p \in list'[h] /\ n \in view'[p] /\ InGame(p)
          \/ p \notin list'[h] /\ n \notin view'[p]
      <3>1. CASE NpcSight(h, p)
        <4>1. p \in near[h] /\ p \in list'[h] /\ Put(h, p, n)
          BY <1>0, <3>1 DEF NpcSight
        <4>2. Sees(n, p)
          BY <1>a, <2>1, <4>1 DEF NpcPhase, NewSeen
        <4> QED
          BY <1>0, <4>1, <4>2, ListChange DEF Sees, InGame
      <3>2. CASE NpcGone(h, p)
        <4>1. p \notin list'[h] /\ Remove(h, p, n)
          BY <1>0, <3>2 DEF NpcGone
        <4> QED
          BY <1>0, <4>1, ListChange
      <3> QED
        BY <1>7, <3>1, <3>2
    <2>4. ListsRight(h)'
      <3>1. ListsRight(h)
        BY <1>a DEF NpcPhase
      <3>2. ASSUME NEW q \in Players
            PROVE  /\ q \in list'[h] => InGame(q)' /\ n \in view'[q]
                   /\ InGame(q)' => Excused(q, n)' \/ q \in list'[h]
        <4>1. CASE q = p
          BY <2>1, <2>3, <4>1 DEF Excused, InGame
        <4>2. CASE q # p
          <5>1. /\ q \in list[h] => InGame(q) /\ n \in view[q]
                /\ InGame(q) => Excused(q, n) \/ q \in list[h]
            BY <2>1, <3>1 DEF ListsRight
          <5>2. /\ n \in view'[q] <=> n \in view[q]
                /\ q \in list'[h] <=> q \in list[h]
            BY <2>2, <2>6, <4>2
          <5> QED
            BY <2>1, <5>1, <5>2 DEF Excused, InGame
        <4> QED
          BY <4>1, <4>2
      <3> QED
        BY <3>2 DEF ListsRight
    <2>5. NewSeen(h)'
      BY <1>a, <2>1 DEF NpcPhase, NewSeen, Sees
    <2> QED
      BY <1>0, <2>1, <2>4, <2>5 DEF SeqOf, RightAbout, Waiting, RightFor, NpcPhase, OldSeen
  <1>8. CASE NpcMoved(h)
    <2>1. /\ pc[h] = "new" /\ pc'[h] = "keep" /\ cand[h] = {} /\ list[h] = near[h]
          /\ UNCHANGED <<pos, state, view, inherited>>
      BY <1>0, <1>8 DEF NpcMoved, Runs, GoTo, history
    <2>2. \A p \in Players : p \in list[h] <=> Sees(n, p)
      BY <1>a, <2>1 DEF NpcPhase, NewSeen
    <2>3. ListsRight(h)
      BY <1>a DEF NpcPhase
    <2>4. \A p \in Players : Visible(p, n)' <=> Visible(p, n)
      BY <2>1 DEF Visible
    <2>5. RightAbout(h)'
      BY <1>0, <1>1, <2>1, <2>2, <2>3, <2>4 DEF RightAbout, Right, ListsRight, Excused, InGame
    <2> QED
      BY <1>0, <2>1, <2>5 DEF SeqOf, RightFor, NpcPhase, OldSeen, ListsRight, NewSeen
  <1>9. CASE Sleep(h) \/ ReviveNPC(h) \/ Revived(h) \/ \E p \in Players : Keep(h, p)
    <2>1. /\ pc[h] \in {"idle", "keep", "revive"} /\ pc'[h] \in {"idle", "keep", "revive"}
          /\ UNCHANGED <<pos, view, inherited>>
      BY <1>0, <1>9 DEF Sleep, ReviveNPC, Revived, Keep, Starts, Runs, Finish, GoTo, history
    <2>4. UNCHANGED state \/ \E s \in {"INGAME", "SLEEP"} : state' = [state EXCEPT ![n] = s]
      BY <1>9 DEF Sleep, ReviveNPC, Revived, Keep
    <2>5. /\ \A q \in Players : state'[q] = state[q]
          /\ InPlay(n)' /\ InPlay(n)
      BY <1>0, <2>4 DEF InPlay, GridInv, NpcsInPlay
    <2>2. \A q \in Players : Visible(q, n)' <=> Visible(q, n)
      BY <2>1, <2>5, VisibleSame
    <2>3. RightAbout(h)'
      BY <1>a, <2>1, <2>2, <2>5 DEF RightAbout, Waiting, Right, InGame
    <2> QED
      BY <1>0, <2>1, <2>3 DEF SeqOf, RightFor, NpcPhase, OldSeen, ListsRight, NewSeen
  <1>11. ASSUME NEW p \in Players, ReviveLook(h, p) PROVE SeqOf(h)'
    <2>1. /\ pc[h] = "revive" /\ UNCHANGED <<pc, pos, state, inherited>>
          /\ Sees(n, p) => Put(h, p, n)
          /\ ~Sees(n, p) => UNCHANGED view
      BY <1>11 DEF ReviveLook, Runs
    <2>2. /\ \A q \in Players \ {p} : n \in view'[q] <=> n \in view[q]
          /\ Sees(n, p) => n \in view'[p]
      <3>1. CASE Sees(n, p)
        <4>1. Put(h, p, n) /\ RestTypes
          BY <1>0, <2>1, <3>1
        <4> HIDE DEF n
        <4>2. /\ n \in view'[p]
              /\ \A q \in Players, o \in Ids : q # p \/ o # n =>
                     (o \in view'[q] <=> o \in view[q])
          BY <1>0, <4>1, ListChange
        <4> QED
          BY <1>0, <4>2
      <3>2. CASE ~Sees(n, p)
        BY <2>1, <3>2
      <3> QED
        BY <3>1, <3>2
    <2>3. ASSUME NEW q \in Players, InGame(q)' PROVE Right(q, n)'
      <3>1. InGame(q) /\ Right(q, n) /\ (Visible(q, n)' <=> Visible(q, n))
        BY <1>0, <1>a, <2>1, <2>3 DEF RightAbout, Waiting, InGame, Visible
      <3>2. CASE q = p /\ Sees(n, p)
        BY <1>1, <2>1, <2>2, <3>1, <3>2 DEF Right
      <3>3. CASE q # p \/ ~Sees(n, p)
        <4>1. n \in view'[q] <=> n \in view[q]
          BY <2>1, <2>2, <3>3
        <4> QED
          BY <2>1, <3>1, <4>1 DEF Right
      <3> QED
        BY <3>2, <3>3
    <2>4. RightAbout(h)'
      BY <2>3 DEF RightAbout
    <2> QED
      BY <1>0, <2>1, <2>4 DEF SeqOf, RightFor, NpcPhase, OldSeen, ListsRight, NewSeen
  <1> QED
    BY <1>2, <1>3, <1>4, <1>5, <1>6, <1>7, <1>8, <1>9, <1>10, <1>11 DEF NpcNext

LEMMA ActsInTurn ==
    ASSUME NEW h \in Handlers, Single(h), Acts(h), ~overlapped',
           h \in PlayerHandlers /\ pc[h] = "update" => SoloUpdate(h)
    PROVE  SeqOf(h)'
  <1>1. CASE h \in PlayerHandlers /\ (PlayerNext(h) \/ ReadNext(h) \/ MoveID(h))
    <2>0. Fresh(h) /\ PlayerPhase(h)
      BY <1>1, SingleFacts
    <2>1. Tell(h) => pc[h] \in {"scan", "update"}
      <3>1. ASSUME Tell(h) PROVE pc[h] \in {"scan", "update"}
        <4>1. who[h] # None
          BY <3>1 DEF Tell
        <4> QED
          BY <1>1, <2>0, <4>1 DEF Fresh
      <3> QED
        BY <3>1
    <2>2. PlayerMoved(h) => pc[h] = "update"
      BY DEF PlayerMoved, Runs
    <2>3. ~EnterRefused(h)
      BY <2>0 DEF EnterRefused, Runs, PlayerPhase, Coming
    <2> QED
      BY <1>1, <2>1, <2>2, <2>3, LoginInTurn, EnterInTurn, MoveInTurn, ScanInTurn,
         ScannedInTurn, UpdateInTurn, MovedInTurn, LeaveInTurn DEF PlayerNext
  <1>2. CASE h \in NpcHandlers /\ (NpcNext(h) \/ ReadNext(h) \/ MoveID(h))
    BY <1>2, NpcInTurn
  <1>3. CASE Send(h)
    BY <1>3, SameInTurn DEF Send, history, Single
  <1> QED
    BY <1>1, <1>2, <1>3, IdFacts DEF Acts

\* No handler makes a player a newcomer, or puts one to sleep.
LEMMA ActsStates ==
    ASSUME GridInv, NEW h \in Handlers, Acts(h), NEW q \in Players
    PROVE  state'[q] \in {state[q], "INGAME", "FREE"}
  <1>1. CASE Send(h) \/ ReadNext(h) \/ MoveID(h)
    BY <1>1 DEF Send, ReadNext, MoveID
  <1>2. CASE h \in PlayerHandlers /\ PlayerNext(h)
    <2>0. Object[h] \in Ids /\ q \in Ids
      BY IdFacts
    <2>1. CASE \/ \E at \in Spawns : Login(h, at)
               \/ InsertID(h) \/ EnterRefused(h) \/ Leave(h) \/ Scanned(h) \/ PlayerMoved(h)
               \/ \E direction \in 0..3 : Move(h, direction)
               \/ \E x \in 0..Width - 1 : Teleport(h, x)
               \/ \E y \in 0..Height - 1 : TeleportY(h, y)
               \/ \E s \in SectorIndexes : ReadSector(h, s)
               \/ \E o \in Ids : PlayerSight(h, o) \/ PlayerGone(h, o)
               \/ \E o \in Players : LeaveView(h, o)
      BY <2>1 DEF Login, InsertID, EnterRefused, Leave, Scanned, PlayerMoved, Move, Teleport,
                  TeleportY, ReadSector, PlayerSight, PlayerGone, LeaveView
    <2>2. CASE Enter(h) \/ Left(h)
      BY <2>0, <2>2 DEF Enter, Left, GridInv, GridTypes
    <2>3. CASE Tell(h) \/ \E o \in Ids : Look(h, o)
      <3>1. UNCHANGED state \/ \E n \in Npcs : ActivateNPC(n, Object[h])
        BY <2>3 DEF Tell, Look
      <3> QED
        BY <3>1, StoreAlive
    <2> QED
      BY <1>2, <2>1, <2>2, <2>3 DEF PlayerNext
  <1>3. CASE h \in NpcHandlers /\ NpcNext(h)
    <2>1. \/ UNCHANGED state
          \/ \E s : state' = [state EXCEPT ![Object[h]] = s]
      BY <1>3 DEF NpcNext, NpcStep, NpcMoved, Sleep, ReviveNPC, Revived, MoveNPC, NpcOld,
                  NpcNew, NpcSight, NpcGone, Keep, ReviveLook
    <2> QED
      BY <1>3, <2>1, IdFacts, StoreAlive
  <1> QED
    BY <1>1, <1>2, <1>3 DEF Acts

\* In sequence no list of a newcomer grows.
LEMMA ListsNewcomers ==
    ASSUME RestTypes, NEW h \in Handlers, NEW to \in Players, NEW obj \in Ids,
           \/ Remove(h, to, obj) \/ FindAndEraseViewID(h, to, obj) \/ UNCHANGED view
           \/ state[to] # "ACCEPT" /\ Lists(h, to, obj),
           NEW q \in Players, state[q] = "ACCEPT", NEW o \in Ids, o \in view'[q]
    PROVE  o \in view[q]
  BY ListChange DEF Lists

LEMMA PlayerNewcomers ==
    ASSUME NEW h \in PlayerHandlers, Single(h), PlayerNext(h),
           pc[h] = "update" => SoloUpdate(h),
           NEW q \in Players, state[q] = "ACCEPT", NEW o \in Ids, o \in view'[q]
    PROVE  o \in view[q]
  <1> DEFINE p == Object[h]
  <1>0. /\ h \in Handlers /\ p \in Players /\ p \in Ids /\ Players \subseteq Ids
        /\ RestTypes /\ PlayerPhase(h) /\ Fresh(h)
    BY SingleFacts
  <1>p. pc[h] \in {"scan", "update"} => state[p] # "ACCEPT"
    BY <1>0 DEF PlayerPhase, Playing, InGame
  <1>1. CASE \/ \E at \in Spawns : Login(h, at)
             \/ InsertID(h) \/ Enter(h) \/ EnterRefused(h) \/ Leave(h) \/ Left(h)
             \/ Scanned(h) \/ PlayerMoved(h)
             \/ \E direction \in 0..3 : Move(h, direction)
             \/ \E x \in 0..Width - 1 : Teleport(h, x)
             \/ \E y \in 0..Height - 1 : TeleportY(h, y)
             \/ \E s \in SectorIndexes : ReadSector(h, s)
    BY <1>1 DEF Login, InsertID, Enter, EnterRefused, Leave, Left, Scanned, PlayerMoved, Move,
                Teleport, TeleportY, ReadSector
  <1>2. ASSUME NEW k \in Ids, Look(h, k) \/ PlayerSight(h, k) PROVE o \in view[q]
    <2>1. pc[h] \in {"scan", "update"} /\ Lists(h, p, k)
      BY <1>2 DEF Look, PlayerSight, Runs, Lists
    <2> QED
      BY <1>0, <1>p, <2>1, ListsNewcomers
  <1>3. ASSUME NEW k \in Ids, PlayerGone(h, k) PROVE o \in view[q]
    BY <1>0, <1>3, ListsNewcomers DEF PlayerGone
  <1>4. ASSUME NEW k \in Players, LeaveView(h, k) PROVE o \in view[q]
    BY <1>0, <1>4, ListsNewcomers DEF LeaveView
  <1>5. CASE Tell(h)
    <2> DEFINE k == who[h]
    <2>1. k \in Ids /\ k # None
      BY <1>0, <1>5 DEF Tell, RestTypes, LocalTypes
    <2>2. pc[h] \in {"scan", "update"} /\ (pc[h] = "scan" => Entering(h))
      BY <1>0, <2>1 DEF Fresh, Quiet
    <2>3. CASE k \in Npcs
      BY <1>5, <2>3 DEF Tell
    <2>4. CASE k \notin Npcs
      <3>1. k \in Players
        BY <2>1, <2>4 DEF Ids
      <3>2. CASE pc[h] = "scan"
        <4>1. Put(h, k, p)
          BY <1>5, <2>4, <3>2, TellInScan
        <4>2. Visible(p, k)
          BY <1>0, <2>1, <2>2, <3>2 DEF PlayerPhase, Entered, TargetSeen
        <4>3. state[k] # "ACCEPT"
          BY <4>2 DEF Visible
        <4> HIDE DEF k
        <4> QED
          BY <1>0, <3>1, <4>1, <4>3, ListsNewcomers DEF Lists
      <3>3. CASE pc[h] = "update"
        <4>1. /\ k \in near[h] => FindAndInsertViewID(h, k, p)
              /\ k \notin near[h] => FindAndEraseViewID(h, k, p)
          BY <1>5, <2>4, <3>3 DEF Tell
        <4>2. k \in near[h] => state[k] # "ACCEPT"
          BY <3>3 DEF SoloUpdate, Visible
        <4> HIDE DEF k
        <4> QED
          BY <1>0, <3>1, <4>1, <4>2, ListsNewcomers DEF Lists
      <3> QED
        BY <2>2, <3>2, <3>3
    <2> QED
      BY <2>3, <2>4
  <1> QED
    BY <1>1, <1>2, <1>3, <1>4, <1>5 DEF PlayerNext

LEMMA NpcNewcomers ==
    ASSUME NEW h \in NpcHandlers, Single(h), NpcNext(h),
           NEW q \in Players, state[q] = "ACCEPT", NEW o \in Ids, o \in view'[q]
    PROVE  o \in view[q]
  <1> DEFINE n == Object[h]
  <1>0. h \in Handlers /\ n \in Ids /\ RestTypes /\ NpcPhase(h)
    BY IdFacts DEF Single, SeqOf
  <1>1. CASE \/ NpcStep(h) \/ NpcMoved(h) \/ Sleep(h) \/ ReviveNPC(h) \/ Revived(h)
             \/ \E p \in Players : MoveNPC(h, p) \/ NpcOld(h, p) \/ NpcNew(h, p) \/ Keep(h, p)
    BY <1>1 DEF NpcStep, NpcMoved, Sleep, ReviveNPC, Revived, MoveNPC, NpcOld, NpcNew, Keep
  <1>2. ASSUME NEW p \in Players, NpcSight(h, p) PROVE o \in view[q]
    <2>1. pc[h] = "new" /\ cand[h] = {} /\ p \in near[h] /\ Put(h, p, n)
      BY <1>2 DEF NpcSight, Runs
    <2>2. Sees(n, p)
      BY <1>0, <2>1 DEF NpcPhase, NewSeen
    <2>3. state[p] # "ACCEPT" /\ Lists(h, p, n)
      BY <2>1, <2>2 DEF Sees, Lists
    <2> QED
      BY <1>0, <2>3, ListsNewcomers
  <1>3. ASSUME NEW p \in Players, NpcGone(h, p) PROVE o \in view[q]
    BY <1>0, <1>3, ListsNewcomers DEF NpcGone
  <1>4. ASSUME NEW p \in Players, ReviveLook(h, p) PROVE o \in view[q]
    <2>1. \/ UNCHANGED view
          \/ state[p] # "ACCEPT" /\ Lists(h, p, n)
      BY <1>4 DEF ReviveLook, Sees, Lists
    <2> QED
      BY <1>0, <2>1, ListsNewcomers
  <1> QED
    BY <1>1, <1>2, <1>3, <1>4 DEF NpcNext

LEMMA NewcomersInTurn ==
    ASSUME NEW h \in Handlers, Single(h), Acts(h),
           h \in PlayerHandlers /\ pc[h] = "update" => SoloUpdate(h)
    PROVE  Newcomers'
  <1>1. GridInv /\ Newcomers /\ UNCHANGED inherited
    BY ActsInherits DEF Single
  <1>2. ASSUME NEW q \in Players, state[q] = "ACCEPT", NEW o \in Ids, o \in view'[q]
        PROVE  o \in view[q]
    <2>1. CASE Send(h) \/ ReadNext(h) \/ MoveID(h)
      BY <1>2, <2>1 DEF Send, ReadNext, MoveID
    <2> QED
      BY <1>2, <2>1, PlayerNewcomers, NpcNewcomers DEF Acts
  <1>3. ASSUME NEW q \in Players
        PROVE  /\ state'[q] # "SLEEP"
               /\ state'[q] = "ACCEPT" => \A o \in Ids : Excused(q, o)'
    <2>1. state'[q] \in {state[q], "INGAME", "FREE"}
      BY <1>1, ActsStates
    <2> QED
      BY <1>1, <1>2, <2>1 DEF Newcomers, Excused
  <1> QED
    BY <1>3 DEF Newcomers

(* As long as no two handlers have overlapped: nothing has gone astray,    *)
(* every handler that runs runs alone, lists are right between objects at  *)
(* rest, and what its phase says holds of the object that is being treated.*)
Resting(i) == \A h \in Handlers : Object[h] = i => pc[h] = "idle"
AtRest ==
    \A p \in Players : \A o \in Ids \ {p} :
        InGame(p) /\ Resting(p) /\ Resting(o) => Right(p, o)
InTurn == \A h \in Handlers : (\A g \in Handlers \ {h} : pc[g] = "idle") => SeqOf(h)
SeqInv == ~overlapped => /\ \A h \in Handlers : pc[h] # "idle" => alone[h]
                         /\ strays = {} /\ Newcomers /\ AtRest /\ InTurn

\* Between handlers there is nothing to say beyond AtRest.
LEMMA RestInTurn ==
    ASSUME AtRest, Idle, NEW h \in Handlers
    PROVE  SeqOf(h)
  <1>1. \A i \in Ids : Resting(i)
    BY DEF Idle, Resting
  <1>2. pc[h] = "idle"
    BY DEF Idle
  <1>3. RightAbout(h) /\ RightFor(h)
    BY <1>1, IdFacts DEF AtRest, RightAbout, RightFor
  <1> QED
    BY <1>2, <1>3 DEF SeqOf, PlayerPhase, Playing, Coming, Entered, Mutual, Updating, Leaving,
       NpcPhase, OldSeen, ListsRight, NewSeen

LEMMA RestsInTurn ==
    ASSUME AtRest', Idle', NEW h \in Handlers
    PROVE  SeqOf(h)'
  <1>1. \A i \in Ids : Resting(i)'
    BY DEF Idle, Resting
  <1>2. pc'[h] = "idle"
    BY DEF Idle
  <1>3. RightAbout(h)' /\ RightFor(h)'
    BY <1>1, IdFacts DEF AtRest, RightAbout, RightFor
  <1> QED
    BY <1>2, <1>3 DEF SeqOf, PlayerPhase, Playing, Coming, Entered, Mutual, Updating, Leaving,
       NpcPhase, OldSeen, ListsRight, NewSeen

(* A step of a handler in sequence.                                        *)
LEMMA SeqActs ==
    ASSUME WorldInv, SeqInv, NEW h \in Handlers, Acts(h), ~overlapped'
    PROVE  /\ \A g \in Handlers : pc'[g] # "idle" => alone'[g]
           /\ strays' = {} /\ Newcomers' /\ AtRest' /\ InTurn'
  <1>0. RestTypes /\ GridInv /\ GridTypes /\ FreshInv /\ AloneInv /\ SoloInv
    BY DEF WorldInv, HandlerInv, GridInv
  <1>1. /\ ~overlapped /\ alone'[h] /\ \A g \in Handlers \ {h} : pc[g] = "idle"
        /\ pc[h] # "idle" => alone[h]
    <2>1. CASE pc[h] = "idle"
      BY <1>0, <2>1, IdleStarts DEF Begins, Idle
    <2>2. CASE pc[h] # "idle"
      <3>1. UNCHANGED <<alone, overlapped>>
        BY <2>2, BusyGoesOn
      <3>2. alone[h]
        BY <2>2, <3>1 DEF SeqInv
      <3> QED
        BY <1>0, <2>2, <3>1, <3>2 DEF AloneInv
    <2> QED
      BY <2>1, <2>2
  <1>2. \A g \in Handlers \ {h} : pc'[g] = "idle"
    BY <1>0, <1>1, ActsUntouched DEF Untouched
  <1>3. strays = {} /\ Newcomers /\ AtRest /\ SeqOf(h)
    BY <1>1 DEF SeqInv, InTurn
  <1>4. Single(h)
    BY <1>0, <1>1, <1>3 DEF Single, FreshInv
  <1>5. h \in PlayerHandlers /\ pc[h] = "update" => SoloUpdate(h)
    BY <1>0, <1>1 DEF SoloInv, Solo
  <1>6. SeqOf(h)'
    BY <1>4, <1>5, ActsInTurn
  <1>7. Apart(h) /\ UNCHANGED inherited
    BY <1>0, ActsApart, ActsInherits
  <1>8. ASSUME NEW p \in Players, NEW o \in Ids \ {p}, InGame(p)', Resting(p)', Resting(o)'
        PROVE  Right(p, o)'
    <2>0. p \in Ids
      BY IdFacts
    <2>1. CASE p = Object[h]
      <3>1. h \in PlayerHandlers /\ pc'[h] = "idle"
        BY <1>8, <2>1 DEF PlayerHandlers, Resting
      <3> QED
        BY <1>6, <1>8, <2>1, <3>1 DEF SeqOf, RightFor
    <2>2. CASE o = Object[h]
      <3>1. pc'[h] = "idle"
        BY <1>8, <2>2 DEF Resting
      <3> QED
        BY <1>6, <1>8, <2>2, <3>1 DEF SeqOf, RightAbout, Waiting
    <2>3. CASE p # Object[h] /\ o # Object[h]
      <3>1. InGame(p) /\ Resting(p) /\ Resting(o)
        BY <1>1, <1>7, <1>8, <2>3 DEF Apart, InGame, Resting
      <3>2. Right(p, o)
        BY <1>3, <3>1 DEF AtRest
      <3>3. pos'[p] = pos[p] /\ pos'[o] = pos[o]
        BY <1>0, <2>0, <2>3, ActsStand
      <3>4. Visible(p, o)' <=> Visible(p, o)
        BY <1>7, <2>0, <2>3, <3>3, VisibleSame DEF Apart
      <3>5. o \in view'[p] <=> o \in view[p]
        BY <1>7, <2>3 DEF Apart
      <3> QED
        BY <1>7, <3>2, <3>4, <3>5 DEF Right
    <2> QED
      BY <2>1, <2>2, <2>3
  <1>9. AtRest'
    BY <1>8 DEF AtRest
  <1>10. InTurn'
    <2>1. ASSUME NEW g \in Handlers \ {h}, \A f \in Handlers \ {g} : pc'[f] = "idle"
          PROVE  SeqOf(g)'
      <3>1. Idle'
        BY <1>2, <2>1 DEF Idle
      <3> QED
        BY <1>9, <3>1, RestsInTurn
    <2> QED
      BY <1>6, <2>1 DEF InTurn
  <1>11. strays' = {} /\ Newcomers'
    BY <1>3, <1>4, <1>5, ActsOrderly, NewcomersInTurn
  <1> QED
    BY <1>1, <1>2, <1>9, <1>10, <1>11

\* A new client has nothing of its own listed yet, and nobody sees it.
LEMMA SeqAccept ==
    ASSUME GridInv, SeqInv, NEW p \in Players, Accept(p), ~overlapped'
    PROVE  Idle' /\ strays' = {} /\ Newcomers' /\ AtRest' /\ InTurn'
  <1>0. GridTypes /\ p \in Ids /\ Players \subseteq Ids
    BY IdFacts DEF GridInv
  <1>1. /\ ~overlapped /\ Idle /\ state[p] = "FREE" /\ state'[p] = "ACCEPT"
        /\ \A o \in Ids \ {p} : state'[o] = state[o]
        /\ UNCHANGED <<pos, view, pc, strays>>
    BY <1>0 DEF Accept, Idle, Busy, locals, GridTypes
  <1>2. /\ \A q \in Players \ {p}, o \in Ids : <<q, o>> \in inherited => <<q, o>> \in inherited'
        /\ \A o \in Ids : o \in view[p] => <<p, o>> \in inherited'
    BY DEF Accept
  <1>3. strays = {} /\ Newcomers /\ AtRest
    BY <1>1 DEF SeqInv
  <1>4. Newcomers'
    BY <1>0, <1>1, <1>2, <1>3 DEF Newcomers, Excused
  <1>5. ASSUME NEW q \in Players, NEW o \in Ids \ {q}, InGame(q)'
        PROVE  Right(q, o)'
    <2>1. q # p /\ InGame(q) /\ Resting(q) /\ Resting(o)
      BY <1>0, <1>1, <1>5 DEF InGame, Idle, Resting
    <2>2. Right(q, o)
      BY <1>3, <2>1 DEF AtRest
    <2>3. Visible(q, o)' <=> Visible(q, o)
      BY <1>1 DEF Visible
    <2> QED
      BY <1>1, <1>2, <2>1, <2>2, <2>3 DEF Right
  <1>6. AtRest'
    BY <1>5 DEF AtRest
  <1>7. Idle'
    BY <1>1 DEF Idle
  <1> QED
    BY <1>1, <1>3, <1>4, <1>6, <1>7, RestsInTurn DEF InTurn

LEMMA SeqNext == WorldInv /\ SeqInv /\ [Next]_vars => SeqInv'
  <1> SUFFICES ASSUME WorldInv, SeqInv, [Next]_vars, ~overlapped'
               PROVE  /\ \A g \in Handlers : pc'[g] # "idle" => alone'[g]
                      /\ strays' = {} /\ Newcomers' /\ AtRest' /\ InTurn'
    BY DEF SeqInv
  <1>1. CASE \E h \in Handlers : Acts(h)
    BY <1>1, SeqActs
  <1>2. CASE \E p \in Players : Accept(p)
    <2>1. GridInv
      BY DEF WorldInv
    <2> QED
      BY <1>2, <2>1, SeqAccept DEF Idle
  <1>3. CASE UNCHANGED vars \/ \E n \in Npcs, p \in Players : DropMove(n, p)
    <2>1. UNCHANGED <<pos, state, view, pc, secs, cand, near, list, who, inherited,
                      alone, overlapped, strays>>
      BY <1>3 DEF vars, DropMove, locals, history
    <2>2. AtRest => AtRest'
      BY <2>1 DEF AtRest, InGame, Resting, Right, Visible
    <2>3. InTurn => InTurn'
      BY <2>1, SameInTurn DEF InTurn
    <2>4. Newcomers => Newcomers'
      BY <2>1 DEF Newcomers, Excused
    <2> QED
      BY <2>1, <2>2, <2>3, <2>4 DEF SeqInv
  <1> QED
    BY <1>1, <1>2, <1>3, NextActs DEF Aside

LEMMA SeqInit == Init => SeqInv
  <1> SUFFICES ASSUME Init PROVE SeqInv
    OBVIOUS
  <1>1. /\ \A p \in Players : state[p] = "FREE"
        /\ Idle /\ strays = {}
    BY IdFacts DEF Init, Idle
  <1>2. AtRest /\ Newcomers
    BY <1>1 DEF AtRest, InGame, Newcomers
  <1>3. InTurn
    BY <1>1, <1>2, RestInTurn DEF InTurn
  <1> QED
    BY <1>1, <1>2, <1>3 DEF SeqInv, Idle

(* While the handlers run one after the other, logins, moves, teleports,   *)
(* departures, moves and revivals of NPCs leave every view list exact: a   *)
(* player in game lists just the objects in its sight, except what the     *)
(* slot had listed for a former client.  Only overlaps can break it.       *)
THEOREM ExactAlwaysWhenSequential == Spec => []ExactWhenSequential
  <1>1. WorldInv /\ SeqInv => ExactWhenSequential
    <2> SUFFICES ASSUME WorldInv, SeqInv, ~overlapped, Busy = {},
                        NEW p \in Players, state[p] = "INGAME",
                        NEW o \in Ids \ {p}, InPlay(o), <<p, o>> \notin inherited
                 PROVE  o \in view[p] <=> IsNear(pos[p], pos[o])
      BY DEF ExactWhenSequential
    <2>1. p \in Ids /\ Resting(p) /\ Resting(o)
      BY IdFacts DEF Busy, Resting
    <2>2. Right(p, o)
      BY <2>1 DEF SeqInv, AtRest, InGame
    <2>3. IsNear(pos[o], pos[p]) <=> IsNear(pos[p], pos[o])
      BY <2>1, NearSymmetric DEF WorldInv, GridInv, GridTypes
    <2> QED
      BY <2>2, <2>3 DEF Right, Visible, InPlay
  <1>2. Init => WorldInv /\ SeqInv
    BY GridInvInit, TypesInit, HandlerInvInit, SeqInit DEF WorldInv
  <1>3. WorldInv /\ SeqInv /\ [Next]_vars => WorldInv' /\ SeqInv'
    BY WorldInvNext, SeqNext
  <1> QED
    BY <1>1, <1>2, <1>3, PTL DEF Spec
=============================================================================
