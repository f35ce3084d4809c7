-------------------------------- MODULE World --------------------------------
(***************************************************************************)
(* Who sees whom: the positions, sectors and view lists of the game server *)
(* (IOCPServer, Session, SectorManager) while its workers handle logins,   *)
(* moves, teleports and departures of players and the moves of NPCs.       *)
(*                                                                         *)
(* A handler h works for Object[h].  Handlers of one object may overlap as *)
(* those of different objects do: a failed send disconnects a player whose *)
(* packets another worker handles, the slot is taken by the next client    *)
(* meanwhile, and an NPC revived twice has two chains of moves.  A handler *)
(* takes a lock only for one look at one sector or one view list, and      *)
(* everything else it knows is a copy: secs, cand, near, list are its      *)
(* local variables.  Updating a view list and sending the message about it *)
(* are two steps.                                                          *)
(*                                                                         *)
(* shown[p] is what the client of p displays: the objects put and not      *)
(* removed by the messages sent to it so far.  What Sessions says of       *)
(* sockets, receives and completions is left free here: packets and        *)
(* disconnects of a slot may come at any time once it has been used, and   *)
(* second logins too.  The deaths of NPCs are the subject of NpcLifecycle; *)
(* here an NPC is only revived while it is alive, which starts a second    *)
(* chain.  Players do not die.                                             *)
(***************************************************************************)
EXTENDS Sectors

CONSTANTS Players, Npcs,
          Handlers, Object, \* names for handlers, the object of each
          None,
          Workers,       \* how many handlers run at the same time
          Spawns, Homes, \* bound: where accounts and NPCs start
          MaxMoves,      \* bound: moves, teleports, second logins, late disconnects
          MaxSessions,   \* bound: clients accepted, all slots
          MaxRevivals    \* bound: revivals of NPCs that are alive

ASSUME WorldAssumption ==
    /\ Players \cap Npcs = {} /\ None \notin Players \cup Npcs
    /\ Spawns \subseteq Positions /\ Homes \subseteq Positions
    /\ Object \in [Handlers -> Players \cup Npcs]
    /\ Workers \in Nat
    /\ MaxMoves \in Nat /\ MaxSessions \in Nat /\ MaxRevivals \in Nat

VARIABLES
    pos,        \* Info.x, Info.y
    state,      \* mState
    grid,       \* mSectorArray
    view,       \* mViewList of a player
    shown,      \* what the client of a player displays
    pc,         \* where a handler is
    prev, next, \* prevx, prevy; the position MoveID is called with
    target,     \* the player whom an NPC's move event names
    secs,       \* near sectors not yet read
    cand,       \* ids that the current loop has still to treat
    near,       \* nearlist, new_viewlist
    list,       \* the copy of the view list, old_viewlist
    who,        \* the id whose half of the loop body is still to run
    out,        \* the message about to be sent, NoMsg if none
    armed,      \* pending move events of an NPC, by target
    moves, sessions, revivals,
    alone,      \* history: no other handler ran during this one
    overlapped, \* history: two handlers have run at the same time, or one
                \* for a client in a state it was not meant for
    used,       \* history: the slots that have had a client
    strays,     \* history: objects whose own handlers have got into each
                \* other's way since they were last put into their sector
    crossed,    \* history: <<p, o>> whose messages about o may be out of order
    inherited   \* history: <<p, o>> listed for, or still sent to, a former client

locals == <<pc, prev, next, target, secs, cand, near, list, who, out>>
counters == <<moves, sessions, revivals>>
history == <<alone, overlapped, used, strays, crossed, inherited>>
vars == <<pos, state, grid, view, shown, locals, armed, counters, history>>

Ids == Players \cup Npcs
NoMsg == [kind |-> "none", to |-> None, obj |-> None]
Messages == [kind : {"put", "remove"}, to : Players, obj : Ids]

PlayerHandlers == {h \in Handlers : Object[h] \in Players}
NpcHandlers == {h \in Handlers : Object[h] \in Npcs}

PlayerPcs == {"insert", "enter", "teleport", "scan", "update", "leave"}
NpcPcs == {"old", "new", "keep", "revive"}
Pcs == {"idle", "moveid", "relist"} \cup PlayerPcs \cup NpcPcs

TypeOK ==
    /\ pos \in [Ids -> Positions]
    /\ state \in [Ids -> {"FREE", "ACCEPT", "INGAME", "SLEEP"}]
    /\ grid \in [SectorIndexes -> SUBSET Ids]
    /\ view \in [Players -> SUBSET Ids]
    /\ shown \in [Players -> SUBSET Ids]
    /\ pc \in [Handlers -> Pcs]
    /\ prev \in [Handlers -> Positions \cup {None}]
    /\ next \in [Handlers -> Positions \cup {None}]
    /\ target \in [Handlers -> Players \cup {None}]
    /\ secs \in [Handlers -> SUBSET SectorIndexes]
    /\ cand \in [Handlers -> SUBSET Ids]
    /\ near \in [Handlers -> SUBSET Ids]
    /\ list \in [Handlers -> SUBSET Ids]
    /\ who \in [Handlers -> Ids \cup {None}]
    /\ out \in [Handlers -> Messages \cup {NoMsg}]
    /\ armed \in [Npcs -> [Players -> Nat]]
    /\ moves \in 0..MaxMoves /\ sessions \in 0..MaxSessions /\ revivals \in 0..MaxRevivals
    /\ alone \in [Handlers -> BOOLEAN] /\ overlapped \in BOOLEAN
    /\ used \subseteq Players /\ strays \subseteq Ids
    /\ crossed \subseteq Players \X Ids /\ inherited \subseteq Players \X Ids

(* Slots are free, NPCs sleep somewhere and are in their sectors.          *)
Init ==
    /\ pos \in [Ids -> Spawns \cup Homes]
    /\ \A n \in Npcs : pos[n] \in Homes
    /\ \A p, q \in Players : pos[p] = pos[q] /\ pos[p] \in Spawns
    /\ grid = [s \in SectorIndexes |->
                  {n \in Npcs : GetSectorIndex(pos[n]) = s}]
    /\ state = [i \in Ids |-> IF i \in Players THEN "FREE" ELSE "SLEEP"]
    /\ view = [p \in Players |-> {}] /\ shown = [p \in Players |-> {}]
    /\ pc = [h \in Handlers |-> "idle"]
    /\ prev = [h \in Handlers |-> None] /\ next = [h \in Handlers |-> None]
    /\ target = [h \in Handlers |-> None]
    /\ secs = [h \in Handlers |-> {}] /\ cand = [h \in Handlers |-> {}]
    /\ near = [h \in Handlers |-> {}] /\ list = [h \in Handlers |-> {}]
    /\ who = [h \in Handlers |-> None] /\ out = [h \in Handlers |-> NoMsg]
    /\ armed = [n \in Npcs |-> [p \in Players |-> 0]]
    /\ moves = 0 /\ sessions = 0 /\ revivals = 0
    /\ alone = [h \in Handlers |-> FALSE] /\ overlapped = FALSE
    /\ used = {} /\ strays = {}
    /\ crossed = {} /\ inherited = {}

-----------------------------------------------------------------------------
(* Steps of a handler.                                                     *)

Busy == {h \in Handlers : pc[h] # "idle"}
Others(h) == {g \in Busy \ {h} : Object[g] = Object[h]}

(* A worker takes up the handler h, which gets the first free name of its  *)
(* object: whatever runs already is not alone any more.  astray says that  *)
(* the slot is in no state that this handler is meant for.                 *)
Starts(h, astray) ==
    /\ pc[h] = "idle" /\ Cardinality(Busy) < Workers
    /\ h = CHOOSE g \in Handlers : Object[g] = Object[h] /\ pc[g] = "idle"
    /\ alone' = [g \in Handlers |-> IF g = h THEN Busy = {} ELSE FALSE]
    /\ overlapped' = (overlapped \/ Busy # {} \/ astray)
    /\ strays' = IF Others(h) # {} \/ astray THEN strays \cup {Object[h]} ELSE strays

(* The handler h is at "at", with nothing left to send or to finish.       *)
Runs(h, at) == pc[h] = at /\ out[h] = NoMsg /\ who[h] = None

GoTo(h, at) == pc' = [pc EXCEPT ![h] = at]

(* The object of h is listed where it stands, with no other handler of it  *)
(* running: whatever has gone wrong before, its sector is right again.     *)
PutRight(h, at, listed) ==
    strays' = IF listed /\ at = pos[Object[h]] /\ Others(h) = {}
              THEN strays \ {Object[h]} ELSE strays

(* A list about (to, obj) changes while another handler still has to send  *)
(* the message of its own change: the client gets them in the wrong order. *)
Crosses(h, to, obj) ==
    IF \E g \in Handlers \ {h} : out[g].to = to /\ out[g].obj = obj
    THEN crossed' = crossed \cup {<<to, obj>>}
    ELSE UNCHANGED crossed

(* InsertViewID followed by SendPutObjectPacket.                           *)
Put(h, to, obj) ==
    /\ view' = [view EXCEPT ![to] = @ \cup {obj}]
    /\ out' = [out EXCEPT ![h] = [kind |-> "put", to |-> to, obj |-> obj]]
    /\ Crosses(h, to, obj)

(* EraseViewID followed by SendRemovePacket.                               *)
Remove(h, to, obj) ==
    /\ view' = [view EXCEPT ![to] = @ \ {obj}]
    /\ out' = [out EXCEPT ![h] = [kind |-> "remove", to |-> to, obj |-> obj]]
    /\ Crosses(h, to, obj)

(* Mutant: the player is listed, and its client not told.                  *)
InsertWithoutPut(h, to, obj) ==
    /\ view' = [view EXCEPT ![to] = @ \cup {obj}]
    /\ UNCHANGED <<out, crossed>>

(* FindAndInsertViewID: one that is listed already only gets a move.       *)
FindAndInsertViewID(h, to, obj) ==
    IF obj \in view[to] THEN UNCHANGED <<view, out, crossed>>
                        ELSE Put(h, to, obj)

FindAndEraseViewID(h, to, obj) ==
    IF obj \in view[to] THEN Remove(h, to, obj)
                        ELSE UNCHANGED <<view, out, crossed>>

(* The message reaches the socket of the slot, whoever holds it now.       *)
Send(h) ==
    LET msg == out[h]
    IN  /\ msg # NoMsg
        /\ shown' = IF state[msg.to] = "FREE" THEN shown
                    ELSE [shown EXCEPT ![msg.to] = IF msg.kind = "put"
                                                   THEN @ \cup {msg.obj}
                                                   ELSE @ \ {msg.obj}]
        /\ out' = [out EXCEPT ![h] = NoMsg]
        /\ UNCHANGED <<pos, state, grid, view, pc, prev, next, target, secs, cand,
                       near, list, who, armed, counters, history>>

(* The position is read once more for the call of MoveID.                  *)
ReadNext(h) ==
    /\ Runs(h, "moveid")
    /\ next' = [next EXCEPT ![h] = pos[Object[h]]]
    /\ GoTo(h, "relist")
    /\ UNCHANGED <<pos, state, grid, view, shown, prev, target, secs, cand, near,
                   list, who, out, armed, counters, history>>

(* MoveID; a player's handler goes on to the sectors around it, an NPC's   *)
(* to the players.                                                         *)
MoveID(h) ==
    /\ Runs(h, "relist")
    /\ grid' = MovedID(grid, Object[h], prev[h], next[h])
    /\ PutRight(h, next[h], prev[h] # next[h])
    /\ prev' = [prev EXCEPT ![h] = None] /\ next' = [next EXCEPT ![h] = None]
    /\ IF Object[h] \in Npcs
       THEN /\ GoTo(h, "new") /\ cand' = [cand EXCEPT ![h] = Players]
            /\ UNCHANGED secs
       ELSE /\ GoTo(h, "scan")
            /\ secs' = [secs EXCEPT ![h] = GetNearSectorIndexes(pos[Object[h]])]
            /\ UNCHANGED cand
    /\ UNCHANGED <<pos, state, view, shown, target, near, list, who, out, armed,
                   counters, alone, overlapped, used, crossed, inherited>>

-----------------------------------------------------------------------------
(* Logins and moves of a player.                                           *)

(* A worker gives the slot p to a new client.  Its view list is as its     *)
(* former client left it.                                                  *)
Accept(p) ==
    /\ state[p] = "FREE" /\ sessions < MaxSessions
    /\ crossed' = {c \in crossed : c[1] # p}
    /\ inherited' = {c \in inherited : c[1] # p} \cup {<<p, o>> : o \in
                        view[p] \cup {out[h].obj : h \in {g \in Handlers : out[g].to = p}}}
    /\ state' = [state EXCEPT ![p] = "ACCEPT"]
    /\ shown' = [shown EXCEPT ![p] = {}]
    /\ sessions' = sessions + 1
    /\ used' = used \cup {p}
    /\ alone' = [h \in Handlers |-> FALSE]
    /\ overlapped' = (overlapped \/ Busy # {})
    /\ UNCHANGED <<pos, grid, view, locals, armed, moves, revivals, strays>>

(* ProcessLoginPacket fills in Info, for a client that is in the game too. *)
Login(h, at) ==
    LET p == Object[h]
    IN  /\ p \in used
        /\ Starts(h, state[p] # "ACCEPT")
        /\ moves' = IF state[p] = "ACCEPT" THEN moves ELSE moves + 1
        /\ moves' <= MaxMoves
        /\ pos' = [pos EXCEPT ![p] = at]
        /\ GoTo(h, "insert")
        /\ UNCHANGED <<state, grid, view, shown, prev, next, target, secs, cand,
                       near, list, who, out, armed, sessions, revivals, used,
                       crossed, inherited>>

InsertID(h) ==
    /\ Runs(h, "insert")
    /\ grid' = WithID(grid, Object[h], pos[Object[h]])
    /\ PutRight(h, pos[Object[h]], TRUE)
    /\ GoTo(h, "enter")
    /\ UNCHANGED <<pos, state, view, shown, prev, next, target, secs, cand, near,
                   list, who, out, armed, counters, alone, overlapped, used,
                   crossed, inherited>>

(* CompareAndChangeState(ACCEPT, INGAME), then SendNearPlayersInfo.        *)
Enter(h) ==
    LET p == Object[h]
    IN  /\ Runs(h, "enter") /\ state[p] = "ACCEPT"
        /\ state' = [state EXCEPT ![p] = "INGAME"]
        /\ secs' = [secs EXCEPT ![h] = GetNearSectorIndexes(pos[p])]
        /\ list' = [list EXCEPT ![h] = {p}]   \* marks the scan of a login
        /\ GoTo(h, "scan")
        /\ UNCHANGED <<pos, grid, view, shown, prev, next, target, cand, near, who,
                       out, armed, counters, history>>

Entering(h) == Object[h] \in list[h]

(* The handler is over; its local variables are gone.                      *)
Finish(h) ==
    /\ GoTo(h, "idle")
    /\ target' = [target EXCEPT ![h] = None]
    /\ cand' = [cand EXCEPT ![h] = {}]
    /\ near' = [near EXCEPT ![h] = {}]
    /\ list' = [list EXCEPT ![h] = {}]

(* The slot is not waiting for a login.                                    *)
EnterRefused(h) ==
    /\ Runs(h, "enter") /\ state[Object[h]] # "ACCEPT"
    /\ Finish(h)
    /\ UNCHANGED <<pos, state, grid, view, shown, prev, next, secs, who, out,
                   armed, counters, history>>

(* A packet of a client that may have gone, or not logged in yet.          *)
Move(h, direction) ==
    LET p == Object[h]
    IN  /\ p \in used /\ moves < MaxMoves
        /\ Starts(h, state[p] # "INGAME")
        /\ prev' = [prev EXCEPT ![h] = pos[p]]
        /\ pos' = [pos EXCEPT ![p] = MovePosition(@, direction)]
        /\ moves' = moves + 1
        /\ GoTo(h, "moveid")
        /\ UNCHANGED <<state, grid, view, shown, next, target, secs, cand, near,
                       list, who, out, armed, sessions, revivals, used, crossed,
                       inherited>>

(* A teleport stores x and y one after the other.                          *)
Teleport(h, x) ==
    LET p == Object[h]
    IN  /\ p \in used /\ moves < MaxMoves
        /\ Starts(h, state[p] # "INGAME")
        /\ prev' = [prev EXCEPT ![h] = pos[p]]
        /\ pos' = [pos EXCEPT ![p].x = x]
        /\ moves' = moves + 1
        /\ GoTo(h, "teleport")
        /\ UNCHANGED <<state, grid, view, shown, next, target, secs, cand, near,
                       list, who, out, armed, sessions, revivals, used, crossed,
                       inherited>>

TeleportY(h, y) ==
    /\ Runs(h, "teleport")
    /\ pos' = [pos EXCEPT ![Object[h]].y = y]
    /\ GoTo(h, "moveid")
    /\ UNCHANGED <<state, grid, view, shown, prev, next, target, secs, cand, near,
                   list, who, out, armed, counters, history>>

(* GetIDsInSector: a copy of one sector, taken under its lock.             *)
ReadSector(h, s) ==
    /\ Runs(h, "scan") /\ cand[h] = {} /\ s \in secs[h]
    /\ cand' = [cand EXCEPT ![h] = grid[s]]
    /\ secs' = [secs EXCEPT ![h] = @ \ {s}]
    /\ UNCHANGED <<pos, state, grid, view, shown, pc, prev, next, target, near,
                   list, who, out, armed, counters, history>>

Visible(p, o) ==
    o # p /\ state[o] \in {"INGAME", "SLEEP"} /\ IsNear(pos[o], pos[p])

(* AddTimer(n, p, NPC_MOVE): the event names the player as the target.     *)
AddMove(n, p) == armed' = [armed EXCEPT ![n][p] = @ + 1]

ActivateNPC(n, p) ==
    IF state[n] = "SLEEP"
    THEN state' = [state EXCEPT ![n] = "INGAME"] /\ AddMove(n, p)
    ELSE UNCHANGED <<state, armed>>

(* One id of the sector: a login lists and shows it at once, a move only   *)
(* collects it in nearlist.                                                *)
Look(h, o) ==
    LET p == Object[h]
    IN  /\ Runs(h, "scan") /\ o \in cand[h]
        /\ cand' = [cand EXCEPT ![h] = @ \ {o}]
        /\ IF ~Visible(p, o)
           THEN UNCHANGED <<state, armed, near, view, out, who, crossed>>
           ELSE IF Entering(h)
           THEN /\ Put(h, p, o) /\ who' = [who EXCEPT ![h] = o]
                /\ UNCHANGED <<state, armed, near>>
           ELSE /\ near' = [near EXCEPT ![h] = @ \cup {o}]
                /\ IF o \in Npcs THEN ActivateNPC(o, p)
                                 ELSE UNCHANGED <<state, armed>>
                /\ UNCHANGED <<view, out, who, crossed>>
        /\ UNCHANGED <<pos, grid, shown, pc, prev, next, target, secs, list,
                       counters, alone, overlapped, used, strays, inherited>>

(* The second half of a loop body: the other object learns of p.           *)
Tell(h) ==
    LET o == who[h]
        p == Object[h]
    IN  /\ o # None /\ out[h] = NoMsg
        /\ who' = [who EXCEPT ![h] = None]
        /\ IF o \in Npcs
           THEN /\ IF pc[h] = "scan" THEN ActivateNPC(o, p)
                                     ELSE UNCHANGED <<state, armed>>
                /\ UNCHANGED <<view, out, crossed>>
           ELSE /\ IF pc[h] = "scan" THEN Put(h, o, p)
                   ELSE IF o \in near[h] THEN FindAndInsertViewID(h, o, p)
                   ELSE FindAndEraseViewID(h, o, p)
                /\ UNCHANGED <<state, armed>>
        /\ UNCHANGED <<pos, grid, shown, pc, prev, next, target, secs, cand, near,
                       list, counters, alone, overlapped, used, strays, inherited>>

(* Mutant: the old view list is not copied, so nothing in it disappears.   *)
ScannedForgetful(h) ==
    /\ Runs(h, "scan") /\ secs[h] = {} /\ cand[h] = {}
    /\ IF Entering(h) THEN Finish(h)
       ELSE /\ cand' = [cand EXCEPT ![h] = near[h]]
            /\ GoTo(h, "update")
            /\ UNCHANGED <<target, near, list>>
    /\ UNCHANGED <<pos, state, grid, view, shown, prev, next, secs, who, out,
                   armed, counters, history>>

(* All sectors are read: a login is over, a move copies the view list.     *)
Scanned(h) ==
    /\ Runs(h, "scan") /\ secs[h] = {} /\ cand[h] = {}
    /\ IF Entering(h) THEN Finish(h)
       ELSE /\ list' = [list EXCEPT ![h] = view[Object[h]]]
            /\ cand' = [cand EXCEPT ![h] = near[h]]
            /\ GoTo(h, "update")
            /\ UNCHANGED <<target, near>>
    /\ UNCHANGED <<pos, state, grid, view, shown, prev, next, secs, who, out,
                   armed, counters, history>>

(* HandlePlayersInSight: one id of nearlist.                               *)
PlayerSight(h, o) ==
    /\ Runs(h, "update") /\ o \in cand[h]
    /\ cand' = [cand EXCEPT ![h] = @ \ {o}]
    /\ IF o \notin list[h] THEN Put(h, Object[h], o)
                           ELSE UNCHANGED <<view, out, crossed>>
    /\ who' = [who EXCEPT ![h] = o]
    /\ UNCHANGED <<pos, state, grid, shown, pc, prev, next, target, secs, near,
                   list, armed, counters, alone, overlapped, used, strays,
                   inherited>>

(* HandleDisappearedPlayers: then, one id of the list that is not near.    *)
PlayerGone(h, o) ==
    /\ Runs(h, "update") /\ cand[h] = {} /\ o \in list[h] \ near[h]
    /\ list' = [list EXCEPT ![h] = @ \ {o}]
    /\ Remove(h, Object[h], o)
    /\ who' = [who EXCEPT ![h] = o]
    /\ UNCHANGED <<pos, state, grid, shown, pc, prev, next, target, secs, cand,
                   near, armed, counters, alone, overlapped, used, strays,
                   inherited>>

PlayerMoved(h) ==
    /\ Runs(h, "update") /\ cand[h] = {} /\ list[h] \subseteq near[h]
    /\ Finish(h)
    /\ UNCHANGED <<pos, state, grid, view, shown, prev, next, secs, who, out,
                   armed, counters, history>>

-----------------------------------------------------------------------------
(* Disconnect: the players in the list of p forget p; p stays in its       *)
(* sector, and its own list stays as it is.                                *)

(* A client goes, before it has logged in too; a failed completion comes   *)
(* for a slot that is free again as well.                                  *)
Leave(h) ==
    LET p == Object[h]
    IN  /\ p \in used
        /\ Starts(h, state[p] = "FREE")
        /\ moves' = IF state[p] = "FREE" THEN moves + 1 ELSE moves
        /\ moves' <= MaxMoves
        /\ cand' = [cand EXCEPT ![h] = view[p] \cap Players]
        /\ GoTo(h, "leave")
        /\ UNCHANGED <<pos, state, grid, view, shown, prev, next, target, secs,
                       near, list, who, out, armed, sessions, revivals, used,
                       crossed, inherited>>

LeaveView(h, o) ==
    /\ Runs(h, "leave") /\ o \in cand[h]
    /\ cand' = [cand EXCEPT ![h] = @ \ {o}]
    /\ IF state[o] = "INGAME" THEN FindAndEraseViewID(h, o, Object[h])
                              ELSE UNCHANGED <<view, out, crossed>>
    /\ UNCHANGED <<pos, state, grid, shown, pc, prev, next, target, secs, near,
                   list, who, armed, counters, alone, overlapped, used, strays,
                   inherited>>

Left(h) ==
    LET p == Object[h]
    IN  /\ Runs(h, "leave") /\ cand[h] = {}
        /\ state' = [state EXCEPT ![p] = "FREE"]
        /\ shown' = [shown EXCEPT ![p] = {}]
        /\ Finish(h)
        /\ UNCHANGED <<pos, grid, view, prev, next, secs, who, out, armed, counters,
                       history>>

-----------------------------------------------------------------------------
(* Case NPC_MOVE and MoveNPC.                                              *)

(* The event of the NPC that names p is taken.                             *)
TakeMove(n, p) == armed[n][p] > 0 /\ armed' = [armed EXCEPT ![n][p] = @ - 1]

MoveNPC(h, p) ==
    LET n == Object[h]
    IN  /\ TakeMove(n, p) /\ state[n] = "INGAME"
        /\ Starts(h, FALSE)
        /\ prev' = [prev EXCEPT ![h] = pos[n]]
        /\ target' = [target EXCEPT ![h] = p]
        /\ cand' = [cand EXCEPT ![h] = Players]
        /\ GoTo(h, "old")
        /\ UNCHANGED <<pos, state, grid, view, shown, next, secs, near, list, who,
                       out, counters, used, crossed, inherited>>

(* An NPC that is not active lets its events go, and the chain with them.  *)
DropMove(n, p) ==
    /\ TakeMove(n, p) /\ state[n] # "INGAME"
    /\ UNCHANGED <<pos, state, grid, view, shown, locals, counters, history>>

Sees(n, p) == state[p] = "INGAME" /\ IsNear(pos[n], pos[p])

NpcOld(h, p) ==
    /\ Runs(h, "old") /\ p \in cand[h]
    /\ cand' = [cand EXCEPT ![h] = @ \ {p}]
    /\ list' = [list EXCEPT ![h] = IF Sees(Object[h], p) THEN @ \cup {p} ELSE @]
    /\ UNCHANGED <<pos, state, grid, view, shown, pc, prev, next, target, secs,
                   near, who, out, armed, counters, history>>

NpcStep(h) ==
    /\ Runs(h, "old") /\ cand[h] = {}
    /\ pos' = [pos EXCEPT ![Object[h]] =
                  MovePosition(@, GetDirectionToTarget(@, pos[target[h]]))]
    /\ GoTo(h, "moveid")
    /\ UNCHANGED <<state, grid, view, shown, prev, next, target, secs, cand, near,
                   list, who, out, armed, counters, history>>

NpcNew(h, p) ==
    /\ Runs(h, "new") /\ p \in cand[h]
    /\ cand' = [cand EXCEPT ![h] = @ \ {p}]
    /\ near' = [near EXCEPT ![h] = IF Sees(Object[h], p) THEN @ \cup {p} ELSE @]
    /\ UNCHANGED <<pos, state, grid, view, shown, pc, prev, next, target, secs,
                   list, who, out, armed, counters, history>>

(* For players in sight of npc: a new one lists the NPC.                   *)
NpcSight(h, p) ==
    /\ Runs(h, "new") /\ cand[h] = {} /\ p \in near[h] \ list[h]
    /\ list' = [list EXCEPT ![h] = @ \cup {p}]
    /\ Put(h, p, Object[h])
    /\ UNCHANGED <<pos, state, grid, shown, pc, prev, next, target, secs, cand,
                   near, who, armed, counters, alone, overlapped, used, strays,
                   inherited>>

(* For players out of sights, when those in sight are done.                *)
NpcGone(h, p) ==
    /\ Runs(h, "new") /\ cand[h] = {} /\ near[h] \subseteq list[h]
    /\ p \in list[h] \ near[h]
    /\ list' = [list EXCEPT ![h] = @ \ {p}]
    /\ Remove(h, p, Object[h])
    /\ UNCHANGED <<pos, state, grid, shown, pc, prev, next, target, secs, cand,
                   near, who, armed, counters, alone, overlapped, used, strays,
                   inherited>>

NpcMoved(h) ==
    /\ Runs(h, "new") /\ cand[h] = {} /\ list[h] = near[h]
    /\ GoTo(h, "keep")
    /\ cand' = [cand EXCEPT ![h] = Players]
    /\ UNCHANGED <<pos, state, grid, view, shown, prev, next, target, secs, near,
                   list, who, out, armed, counters, history>>

(* keep_alive: the first player found near rearms the timer for the same   *)
(* target, none of them puts the NPC to sleep.                             *)
Keep(h, p) ==
    /\ Runs(h, "keep") /\ p \in cand[h]
    /\ IF Sees(Object[h], p)
       THEN Finish(h) /\ AddMove(Object[h], target[h])
       ELSE /\ cand' = [cand EXCEPT ![h] = @ \ {p}]
            /\ UNCHANGED <<pc, target, near, list, armed>>
    /\ UNCHANGED <<pos, state, grid, view, shown, prev, next, secs, who, out,
                   counters, history>>

(* No player is near: after a move, and after a revival.                   *)
Sleep(h) ==
    /\ Runs(h, "keep") \/ (Runs(h, "revive") /\ target[h] = None)
    /\ cand[h] = {}
    /\ state' = [state EXCEPT ![Object[h]] = "SLEEP"]
    /\ Finish(h)
    /\ UNCHANGED <<pos, grid, view, shown, prev, next, secs, who, out, armed,
                   counters, history>>

(* ReviveNPC, on the timer thread.                                         *)
ReviveNPC(h) ==
    /\ revivals < MaxRevivals
    /\ Starts(h, FALSE)
    /\ state' = [state EXCEPT ![Object[h]] = "INGAME"]
    /\ cand' = [cand EXCEPT ![h] = Players]
    /\ revivals' = revivals + 1
    /\ GoTo(h, "revive")
    /\ UNCHANGED <<pos, grid, view, shown, prev, next, target, secs, near, list,
                   who, out, armed, moves, sessions, used, crossed, inherited>>

(* Whoever is near lists the NPC; the first is its target.                 *)
ReviveLook(h, p) ==
    /\ Runs(h, "revive") /\ p \in cand[h]
    /\ cand' = [cand EXCEPT ![h] = @ \ {p}]
    /\ IF Sees(Object[h], p)
       THEN /\ Put(h, p, Object[h])
            /\ target' = [target EXCEPT ![h] = IF @ = None THEN p ELSE @]
       ELSE UNCHANGED <<view, out, crossed, target>>
    /\ UNCHANGED <<pos, state, grid, shown, pc, prev, next, secs, near, list, who,
                   armed, counters, alone, overlapped, used, strays, inherited>>

Revived(h) ==
    /\ Runs(h, "revive") /\ cand[h] = {} /\ target[h] # None
    /\ AddMove(Object[h], target[h])
    /\ Finish(h)
    /\ UNCHANGED <<pos, state, grid, view, shown, prev, next, secs, who, out,
                   counters, history>>

-----------------------------------------------------------------------------
PlayerNext(h) ==
    \/ \E at \in Spawns : Login(h, at)
    \/ InsertID(h) \/ Enter(h) \/ EnterRefused(h)
    \/ \E direction \in 0..3 : Move(h, direction)
    \/ \E x \in 0..Width - 1 : Teleport(h, x)
    \/ \E y \in 0..Height - 1 : TeleportY(h, y)
    \/ \E s \in SectorIndexes : ReadSector(h, s)
    \/ \E o \in Ids : Look(h, o) \/ PlayerSight(h, o) \/ PlayerGone(h, o)
    \/ Tell(h) \/ Scanned(h) \/ PlayerMoved(h)
    \/ Leave(h) \/ Left(h)
    \/ \E o \in Players : LeaveView(h, o)

NpcNext(h) ==
    \/ NpcStep(h) \/ NpcMoved(h) \/ Sleep(h) \/ ReviveNPC(h) \/ Revived(h)
    \/ \E p \in Players : \/ MoveNPC(h, p) \/ NpcOld(h, p) \/ NpcNew(h, p)
                          \/ NpcSight(h, p) \/ NpcGone(h, p) \/ Keep(h, p)
                          \/ ReviveLook(h, p)

Next ==
    \/ \E p \in Players : Accept(p)
    \/ \E h \in PlayerHandlers : PlayerNext(h)
    \/ \E h \in NpcHandlers : NpcNext(h)
    \/ \E h \in Handlers : Send(h) \/ ReadNext(h) \/ MoveID(h)
    \/ \E n \in Npcs, p \in Players : DropMove(n, p)

Spec == Init /\ [][Next]_vars

-----------------------------------------------------------------------------
InPlay(i) == state[i] \in {"INGAME", "SLEEP"}

(* A handler is about to move the object into another sector.              *)
Moving(i) == \E h \in Handlers : Object[h] = i /\ pc[h] \in {"teleport", "moveid", "relist"}

(* Everyone searches for others by sector: whatever handlers of other      *)
(* objects are running, an object in play is listed in the sector it       *)
(* stands in, unless it is just being moved.  Handlers of one object may   *)
(* break this for good, a late MoveID lists it where another worker has    *)
(* taken it away from: it holds again once the object has changed its      *)
(* place with no other handler of its own running.                         *)
InOwnSector ==
    \A i \in Ids \ strays : InPlay(i) /\ ~Moving(i) => i \in grid[GetSectorIndex(pos[i])]

(* While no two handlers have overlapped, view lists are exact between     *)
(* handlers: two players in game list each other just when each is in the  *)
(* sight of the other, and a player lists an NPC just when it sees it.     *)
(* Pairs inherited from a former client of the slot are excepted.          *)
ExactWhenSequential ==
    ~overlapped /\ Busy = {} =>
        \A p \in Players : state[p] = "INGAME" =>
            \A o \in Ids \ {p} : InPlay(o) /\ <<p, o>> \notin inherited =>
                (o \in view[p] <=> IsNear(pos[p], pos[o]))

(* What a client displays is what its view list says, except about an      *)
(* object whose messages two handlers have sent in the wrong order, or     *)
(* that the slot had listed for a former client.                           *)
ShownIsView ==
    \A p \in Players : state[p] = "INGAME" =>
        \A o \in Ids :
            /\ <<p, o>> \notin crossed \cup inherited
            /\ \A h \in Handlers : out[h].to # p \/ out[h].obj # o
            => (o \in shown[p] <=> o \in view[p])

(* Races leave wrong lists behind, but a move repairs those of the player  *)
(* who makes it: when no other handler runs during it, the player ends up  *)
(* with objects in its sight only, with all of them that can be found in   *)
(* the sector they stand in, and the players among them list it.           *)
Repairs(p) ==
    LET visible == {o \in Ids : Visible(p, o)}
    IN  /\ view'[p] \subseteq visible /\ visible \ strays \subseteq view'[p]
        /\ \A o \in view'[p] \cap Players : p \in view'[o]
LoneMoveRepairs ==
    [][\A h \in PlayerHandlers : PlayerMoved(h) /\ alone[h] => Repairs(Object[h])]_vars
=============================================================================
