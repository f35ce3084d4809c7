----------------------------- MODULE ClientScene ----------------------------
(***************************************************************************)
(* The Direct2D client: a network thread that puts what the server says    *)
(* into the scene and the windows, and the window thread, which updates    *)
(* and draws the scene, and at the end joins the network thread.           *)
(*                                                                         *)
(* A section under mMovingObjectsLock is one step, and so is each use of   *)
(* an object outside of it.  What an object holds is left out.             *)
(***************************************************************************)
EXTENDS Integers, FiniteSets

CONSTANTS Ids,          \* of players and NPCs
          MaxPackets    \* bound: packets that the server sends

ASSUME SceneAssumption == 0 \in Ids /\ Ids \subseteq Int /\ MaxPackets \in Nat

VARIABLES
    me,          \* the id that the server gives this client
    objects,     \* mMovingObjects: "absent", a "null" pointer or an "object"
    playerID,    \* mPlayerID
    net,         \* where the network thread is
    named,       \* the id whose name it is to append to a window
    left,        \* packets left in the receive that it handles
    received,    \* packets received so far
    loop,        \* mLoop
    empties,     \* null completions posted by Disconnect
    win,         \* where the window thread is
    todo,        \* ids that the loop of Update has not reached
    raced,       \* a container changed since Update began to walk the scene
    mainWindow,  \* the main window exists
    posted,      \* WM_CLOSE posted by Quit
    quit,        \* PostQuitMessage was called
    fault        \* the use that has ended the process, or NoFault

scene == <<objects, playerID>>
network == <<net, named, left, received>>
ending == <<loop, empties>>
messages == <<mainWindow, posted, quit>>
window == <<win, todo>>
vars == <<me, scene, network, ending, messages, window, raced, fault>>

NoFault == [what |-> "none", id |-> 0]
Null(id) == [what |-> "null", id |-> id]
Race == [what |-> "race", id |-> 0]

Init ==
    /\ me \in Ids
    /\ objects = [id \in Ids |-> "absent"] /\ playerID = 0
    /\ net = "test" /\ named = 0 /\ left = 0 /\ received = 0
    /\ loop = TRUE /\ empties = 0
    /\ win = "pump" /\ todo = {} /\ raced = FALSE
    /\ mainWindow = TRUE /\ posted = FALSE /\ quit = FALSE
    /\ fault = NoFault

(* Mutant: the loop is told to stop, and nobody wakes it.                  *)
ClearLoop == loop' = FALSE /\ UNCHANGED empties

Disconnect == loop' = FALSE /\ empties' = empties + 1

-----------------------------------------------------------------------------
(* The network thread.                                                     *)

TestLoop ==
    /\ net = "test"
    /\ net' = IF loop THEN "get" ELSE "done"
    /\ UNCHANGED <<me, scene, named, left, received, ending, messages, window, raced, fault>>

GetEmpty ==
    /\ net = "get" /\ empties > 0
    /\ net' = "done"
    /\ empties' = empties - 1
    /\ UNCHANGED <<me, scene, named, left, received, loop, messages, window, raced, fault>>

GetFailed ==
    /\ net = "get"
    /\ net' = "done"
    /\ UNCHANGED <<me, scene, named, left, received, ending, messages, window, raced, fault>>

GetClosed ==
    /\ net = "get"
    /\ Disconnect
    /\ net' = "test"
    /\ UNCHANGED <<me, scene, named, left, received, messages, window, raced, fault>>

(* One receive brings several packets.                                     *)
GetPackets ==
    /\ net = "get"
    /\ \E n \in 1..(MaxPackets - received) : left' = n /\ received' = received + n
    /\ net' = "next"
    /\ UNCHANGED <<me, scene, named, ending, messages, window, raced, fault>>

RecvAgain ==
    /\ net = "next" /\ left = 0
    /\ net' = "test"
    /\ UNCHANGED <<me, scene, named, left, received, ending, messages, window, raced, fault>>

Packet == net = "next" /\ left > 0 /\ left' = left - 1

\* The server tells a client of itself only after LOGIN_OK.  Of others it may
\* tell before: it sets INGAME first.
LoggedIn == net # "assign" /\ objects[me] = "object"
Others == Ids \ {me}
Named == IF LoggedIn THEN Ids ELSE Others

Store(id, pointer) ==
    /\ objects' = [objects EXCEPT ![id] = pointer]
    /\ raced' = (raced \/ win = "loop")

InitializePlayer ==
    /\ Packet /\ objects[me] # "object"
    /\ Store(me, "object")
    /\ net' = "assign"
    /\ UNCHANGED <<me, playerID, named, received, ending, messages, window, fault>>

AssignID ==
    /\ net = "assign"
    /\ playerID' = me
    /\ net' = "next"
    /\ UNCHANGED <<me, objects, named, left, received, ending, messages, window, raced, fault>>

(* The login was refused, and the user is told by a MessageBox.            *)
LoginFails ==
    /\ Packet /\ received = left
    /\ net' = "box"
    /\ UNCHANGED <<me, scene, named, received, ending, messages, window, raced, fault>>

Answered ==
    /\ net = "box"
    /\ posted' = mainWindow
    /\ Disconnect
    /\ net' = "test" /\ left' = 0
    /\ UNCHANGED <<me, scene, named, received, mainWindow, quit, window, raced, fault>>

CreateNewObject(id) ==
    /\ Packet /\ id \in Others
    /\ Store(id, "object")
    /\ UNCHANGED <<me, playerID, net, named, received, ending, messages, window, fault>>

(* Mutant: the pointer is reset, the entry stays.                          *)
ResetObject(id) ==
    /\ Packet /\ id \in Others
    /\ Store(id, IF objects[id] = "absent" THEN "absent" ELSE "null")
    /\ UNCHANGED <<me, playerID, net, named, received, ending, messages, window, fault>>

EraseObject(id) ==
    /\ Packet /\ id \in Others
    /\ Store(id, "absent")
    /\ UNCHANGED <<me, playerID, net, named, received, ending, messages, window, fault>>

\* An entry that is found is used, whatever its pointer.
Use(id) == fault' = IF objects[id] = "null" THEN Null(id) ELSE fault

UpdatePlayer(id) ==
    /\ Packet /\ id \in Named
    /\ Use(id)
    /\ UNCHANGED <<me, scene, net, named, received, ending, messages, window, raced>>

UpdatePlayerStatus ==
    /\ Packet
    /\ Use(playerID)
    /\ UNCHANGED <<me, scene, net, named, received, ending, messages, window, raced>>

UpdatePlayerChat(id) ==
    /\ Packet /\ id \in Named
    /\ Use(id)
    /\ net' = "name" /\ named' = id
    /\ UNCHANGED <<me, scene, received, ending, messages, window, raced>>

BattleResult(id) ==
    /\ Packet /\ id \in Others
    /\ net' = "name" /\ named' = id
    /\ UNCHANGED <<me, scene, received, ending, messages, window, raced, fault>>

GetPlayerName ==
    /\ net = "name"
    /\ Use(named)
    /\ net' = "send"
    /\ UNCHANGED <<me, scene, named, left, received, ending, messages, window, raced>>

\* mEffects is walked by Update and Draw.
CreateAttackArea ==
    /\ Packet /\ LoggedIn
    /\ Use(playerID)
    /\ raced' = (raced \/ win \in {"loop", "draw"})
    /\ UNCHANGED <<me, scene, net, named, received, ending, messages, window>>

-----------------------------------------------------------------------------
(* The window thread.  PeekMessage serves messages that are being sent     *)
(* first, and gives WM_QUIT only when nothing is posted.                   *)

Serve ==
    /\ win = "pump" /\ net = "send"
    /\ net' = "next"
    /\ UNCHANGED <<me, scene, named, left, received, ending, messages, window, raced, fault>>

Escape ==
    /\ win = "pump" /\ net # "send" /\ mainWindow /\ ~quit
    /\ Disconnect
    /\ quit' = TRUE
    /\ UNCHANGED <<me, scene, network, mainWindow, posted, window, raced, fault>>

Close(byUser) ==
    /\ win = "pump" /\ net # "send" /\ mainWindow
    /\ IF byUser THEN ~quit ELSE posted
    /\ Disconnect
    /\ mainWindow' = FALSE /\ posted' = FALSE /\ quit' = TRUE
    /\ UNCHANGED <<me, scene, network, window, raced, fault>>

TakeQuit ==
    /\ win = "pump" /\ net # "send" /\ quit /\ ~posted
    /\ win' = "join"
    /\ UNCHANGED <<me, scene, network, ending, messages, todo, raced, fault>>

Idle ==
    /\ win = "pump" /\ net # "send" /\ ~quit /\ ~posted
    /\ win' = "update"
    /\ UNCHANGED <<me, scene, network, ending, messages, todo, raced, fault>>

(* mMovingObjects[mPlayerID] makes an entry if there is none.              *)
Update ==
    /\ win = "update"
    /\ objects' = [objects EXCEPT ![playerID] = IF @ = "absent" THEN "null" ELSE @]
    /\ \/ objects[playerID] # "object" /\ win' = "draw" /\ UNCHANGED todo
       \/ /\ objects[playerID] = "object" /\ win' = "loop"
          /\ todo' = {id \in Ids : objects[id] # "absent"}
    /\ raced' = FALSE
    /\ UNCHANGED <<me, playerID, network, ending, messages, fault>>

\* A container that has changed under its iterator may fail the walk, or not.
Walks == \/ fault' = fault
         \/ raced /\ fault' = Race

UpdateObject(id) ==
    /\ win = "loop" /\ id \in todo
    /\ IF objects[id] = "null" THEN Use(id) ELSE Walks
    /\ todo' = todo \ {id}
    /\ UNCHANGED <<me, scene, network, ending, messages, win, raced>>

EraseTimeOutObjects ==
    /\ win = "loop" /\ todo = {}
    /\ Walks
    /\ win' = "draw"
    /\ UNCHANGED <<me, scene, network, ending, messages, todo, raced>>

Draw ==
    /\ win = "draw"
    /\ Walks
    /\ win' = "pump"
    /\ UNCHANGED <<me, scene, network, ending, messages, todo, raced>>

(* The destructor of NetClient joins its thread.                           *)
Join ==
    /\ win = "join" /\ net = "done"
    /\ win' = "end"
    /\ UNCHANGED <<me, scene, network, ending, messages, todo, raced, fault>>

-----------------------------------------------------------------------------
\* What the server, the network and the user do is not owed.
Server ==
    \/ GetFailed \/ GetClosed \/ GetPackets
    \/ Answered
User == Escape \/ Close(TRUE)

ProcessPackets ==
    \/ InitializePlayer \/ LoginFails \/ UpdatePlayerStatus \/ CreateAttackArea
    \/ \E id \in Ids : \/ CreateNewObject(id) \/ EraseObject(id) \/ UpdatePlayer(id)
                       \/ UpdatePlayerChat(id) \/ BattleResult(id)

NetworkThreadFunc ==
    TestLoop \/ GetEmpty \/ RecvAgain \/ AssignID \/ GetPlayerName \/ ProcessPackets

Run ==
    \/ Serve \/ Close(FALSE) \/ TakeQuit \/ Idle
    \/ Update \/ EraseTimeOutObjects \/ Draw \/ Join
    \/ \E id \in Ids : UpdateObject(id)

Next ==
    /\ fault = NoFault
    /\ Server \/ User \/ NetworkThreadFunc \/ Run

Spec == Init /\ [][Next]_vars

(* Both threads are scheduled; nothing is asked of the server or the user. *)
FairSpec ==
    /\ Spec
    /\ WF_vars(fault = NoFault /\ NetworkThreadFunc)
    /\ WF_vars(fault = NoFault /\ Run)

-----------------------------------------------------------------------------
TypeOK ==
    /\ me \in Ids /\ playerID \in Ids /\ named \in Ids
    /\ objects \in [Ids -> {"absent", "null", "object"}]
    /\ net \in {"test", "get", "next", "assign", "box", "name", "send", "done"}
    /\ left \in Nat /\ received \in Nat /\ empties \in Nat
    /\ win \in {"pump", "update", "loop", "draw", "join", "end"}
    /\ todo \subseteq Ids
    /\ loop \in BOOLEAN /\ raced \in BOOLEAN
    /\ mainWindow \in BOOLEAN /\ posted \in BOOLEAN /\ quit \in BOOLEAN
    /\ fault \in [what : {"none", "null", "race"}, id : Ids]

(* The entry that Update makes by indexing the scene without a lock is the *)
(* only null pointer there ever is, and it is that of id 0, the value      *)
(* mPlayerID has before the login: whatever id the server gives, and       *)
(* whatever it tells before LOGIN_OK, the unlocked uses in GetPlayerName,  *)
(* CreateAttackArea and Update meet no other.                              *)
OnlyZeroIsNull ==
    /\ \A id \in Ids : objects[id] = "null" => id = 0
    /\ fault.what = "null" => fault.id = 0
    /\ playerID = me \/ net = "assign" \/ objects[me] # "object"
    /\ playerID # 0 => objects[playerID] = "object"

(* Once the user or a refused login has closed the application, it ends,   *)
(* unless the process fails, the MessageBox is never answered, or the      *)
(* window thread joins the network thread while that waits for it to take  *)
(* a message (~NetClient, AppendMessage): a deadlock.                      *)
ClosedEnds ==
    <>[](quit => \/ win = "end" \/ fault # NoFault \/ net = "box"
                 \/ (win = "join" /\ net = "send"))
=============================================================================
