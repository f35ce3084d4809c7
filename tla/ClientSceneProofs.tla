-------------------------- MODULE ClientSceneProofs --------------------------
(***************************************************************************)
(* Proof that the null pointer which Update makes is the only one, for any *)
(* ids and any packets of the server.                                      *)
(***************************************************************************)
EXTENDS ClientScene, TLAPS

(* mPlayerID is 0 until the login gives it the id of the object that       *)
(* InitializePlayer has stored before.                                     *)
IdInv ==
    /\ playerID \in {0, me}
    /\ net = "assign" => objects[me] = "object"

Inv == TypeOK /\ OnlyZeroIsNull /\ IdInv

LEMMA InvInit == Init => Inv
<1> SUFFICES ASSUME Init
             PROVE  Inv
  OBVIOUS
<1>1. TypeOK
  BY SceneAssumption DEF SceneAssumption, Init, TypeOK, NoFault
<1>2. OnlyZeroIsNull
  BY DEF Init, OnlyZeroIsNull, NoFault
<1>3. IdInv
  BY DEF Init, IdInv
<1> QED
  BY <1>1, <1>2, <1>3 DEF Inv

-----------------------------------------------------------------------------
(* Steps that leave the scene alone, or store objects in it.               *)

LEMMA DisconnectTypes ==
    ASSUME empties \in Nat, Disconnect
    PROVE  loop' \in BOOLEAN /\ empties' \in Nat
<1>1. loop' \in BOOLEAN
  BY DEF Disconnect
<1>2. empties' \in Nat
  BY DEF Disconnect
<1> QED
  BY <1>1, <1>2

\* What a step must keep that touches neither the scene nor faults.
LEMMA SceneUntouched ==
    ASSUME Inv, TypeOK', UNCHANGED <<me, objects, playerID, fault>>,
           net' # "assign", net # "assign"
    PROVE  Inv'
BY DEF Inv, OnlyZeroIsNull, IdInv

LEMMA WaitingKeepsInv ==
    ASSUME Inv,
           \/ TestLoop \/ GetEmpty \/ GetFailed \/ GetClosed \/ GetPackets
           \/ RecvAgain \/ LoginFails \/ Answered
    PROVE  Inv'
<1> USE DEF Inv, TypeOK, OnlyZeroIsNull, IdInv, scene, network, ending, messages,
            window, Packet, Disconnect
<1>1. CASE TestLoop
  BY <1>1 DEF TestLoop
<1>2. CASE GetEmpty
  BY <1>2 DEF GetEmpty
<1>3. CASE GetFailed
  BY <1>3 DEF GetFailed
<1>4. CASE GetClosed
  <2>1. loop' \in BOOLEAN /\ empties' \in Nat
    BY <1>4, DisconnectTypes DEF GetClosed
  <2>2. TypeOK'
    BY <1>4, <2>1, Zenon DEF GetClosed
  <2>3. net # "assign" /\ net' # "assign"
    BY <1>4 DEF GetClosed
  <2>4. UNCHANGED <<me, objects, playerID, fault>>
    BY <1>4 DEF GetClosed
  <2> QED
    BY <2>2, <2>3, <2>4, SceneUntouched
<1>5. CASE GetPackets
  <2>1. PICK n \in 1..(MaxPackets - received) : left' = n /\ received' = received + n
    BY <1>5 DEF GetPackets
  <2>2. left' \in Nat /\ received' \in Nat
    BY <2>1, SceneAssumption DEF SceneAssumption
  <2> QED
    BY <1>5, <2>2 DEF GetPackets
<1>6. CASE RecvAgain
  BY <1>6 DEF RecvAgain
<1>7. CASE LoginFails
  BY <1>7 DEF LoginFails
<1>8. CASE Answered
  <2>1. loop' \in BOOLEAN /\ empties' \in Nat
    BY <1>8, DisconnectTypes DEF Answered
  <2>2. left' \in Nat /\ posted' \in BOOLEAN
    BY <1>8 DEF Answered
  <2>3. TypeOK'
    BY <1>8, <2>1, <2>2, Zenon DEF Answered
  <2>4. net # "assign" /\ net' # "assign"
    BY <1>8 DEF Answered
  <2>5. UNCHANGED <<me, objects, playerID, fault>>
    BY <1>8 DEF Answered
  <2> QED
    BY <2>3, <2>4, <2>5, SceneUntouched
<1> QED
  BY <1>1, <1>2, <1>3, <1>4, <1>5, <1>6, <1>7, <1>8

LEMMA StoringKeepsInv ==
    ASSUME Inv,
           \/ InitializePlayer \/ AssignID
           \/ \E id \in Ids : CreateNewObject(id) \/ EraseObject(id)
    PROVE  Inv'
<1> USE DEF Inv, TypeOK, OnlyZeroIsNull, IdInv, scene, network, ending, messages,
            window, Packet, Store, Others
<1>1. CASE InitializePlayer
  BY <1>1 DEF InitializePlayer
<1>2. CASE AssignID
  BY <1>2 DEF AssignID
<1>3. ASSUME NEW id \in Ids, CreateNewObject(id)
      PROVE  Inv'
  BY <1>3 DEF CreateNewObject
<1>4. ASSUME NEW id \in Ids, EraseObject(id)
      PROVE  Inv'
  BY <1>4 DEF EraseObject
<1> QED
  BY <1>1, <1>2, <1>3, <1>4

-----------------------------------------------------------------------------
(* Uses: what is found null has id 0.                                      *)

LEMMA UsingKeepsInv ==
    ASSUME Inv, fault = NoFault,
           \/ UpdatePlayerStatus \/ GetPlayerName \/ CreateAttackArea
           \/ \E id \in Ids : UpdatePlayer(id) \/ UpdatePlayerChat(id) \/ BattleResult(id)
    PROVE  Inv'
<1> USE DEF Inv, TypeOK, OnlyZeroIsNull, IdInv, scene, network, ending, messages,
            window, Packet, Others, Use, Null, NoFault
<1>1. CASE UpdatePlayerStatus
  BY <1>1 DEF UpdatePlayerStatus
<1>2. CASE GetPlayerName
  BY <1>2 DEF GetPlayerName
<1>3. CASE CreateAttackArea
  BY <1>3 DEF CreateAttackArea
<1>4. ASSUME NEW id \in Ids, UpdatePlayer(id)
      PROVE  Inv'
  BY <1>4 DEF UpdatePlayer
<1>5. ASSUME NEW id \in Ids, UpdatePlayerChat(id)
      PROVE  Inv'
  BY <1>5 DEF UpdatePlayerChat
<1>6. ASSUME NEW id \in Ids, BattleResult(id)
      PROVE  Inv'
  BY <1>6 DEF BattleResult
<1> QED
  BY <1>1, <1>2, <1>3, <1>4, <1>5, <1>6

LEMMA WindowKeepsInv ==
    ASSUME Inv, fault = NoFault, User \/ Run
    PROVE  Inv'
<1> USE DEF Inv, TypeOK, OnlyZeroIsNull, IdInv, scene, network, ending, messages,
            window, Disconnect
<1>1. CASE Serve
  BY <1>1 DEF Serve
<1>2. CASE Escape
  <2>1. loop' \in BOOLEAN /\ empties' \in Nat
    BY <1>2, DisconnectTypes DEF Escape
  <2>2. mainWindow' \in BOOLEAN /\ posted' \in BOOLEAN /\ quit' \in BOOLEAN
    BY <1>2 DEF Escape
  <2>3. TypeOK'
    BY <1>2, <2>1, <2>2, Zenon DEF Escape
  <2>4. UNCHANGED <<me, objects, playerID, net, fault>>
    BY <1>2 DEF Escape
  <2> QED
    BY <2>3, <2>4
<1>3. ASSUME NEW b \in BOOLEAN, Close(b)
      PROVE  Inv'
  <2>1. loop' \in BOOLEAN /\ empties' \in Nat
    BY <1>3, DisconnectTypes DEF Close
  <2>2. mainWindow' \in BOOLEAN /\ posted' \in BOOLEAN /\ quit' \in BOOLEAN
    BY <1>3 DEF Close
  <2>3. TypeOK'
    BY <1>3, <2>1, <2>2, Zenon DEF Close
  <2>4. UNCHANGED <<me, objects, playerID, net, fault>>
    BY <1>3 DEF Close
  <2> QED
    BY <2>3, <2>4
<1>4. CASE TakeQuit
  BY <1>4 DEF TakeQuit
<1>5. CASE Idle
  BY <1>5 DEF Idle
<1>6. CASE Update
  <2>1. UNCHANGED <<me, playerID, net, named, left, received, loop, empties,
                    mainWindow, posted, quit, fault>>
        /\ raced' = FALSE /\ win' \in {"draw", "loop"}
    BY <1>6 DEF Update
  <2>2. todo' \subseteq Ids
    BY <1>6 DEF Update
  <2>3. \/ objects' = objects
        \/ playerID = 0 /\ objects' = [objects EXCEPT ![0] = "null"]
           /\ objects[0] = "absent"
    <3>1. CASE objects[playerID] = "absent"
      BY <1>6, <3>1 DEF Update
    <3>2. CASE objects[playerID] # "absent"
      BY <1>6, <3>2 DEF Update
    <3> QED
      BY <3>1, <3>2
  <2>4. TypeOK'
    BY <2>1, <2>2, <2>3
  <2>5. OnlyZeroIsNull' /\ IdInv'
    BY <2>1, <2>3
  <2> QED
    BY <2>4, <2>5
<1>7. ASSUME NEW id \in Ids, UpdateObject(id)
      PROVE  Inv'
  <2>1. fault' \in {fault, Null(0), Race}
    <3>1. CASE objects[id] = "null"
      <4>1. id = 0
        BY <3>1
      <4> QED
        BY <1>7, <3>1, <4>1 DEF UpdateObject, Use
    <3>2. CASE objects[id] # "null"
      BY <1>7, <3>2 DEF UpdateObject, Walks
    <3> QED
      BY <3>1, <3>2
  <2>2. fault' \in [what : {"none", "null", "race"}, id : Ids]
        /\ (fault'.what = "null" => fault'.id = 0)
    BY <2>1, SceneAssumption DEF SceneAssumption, Null, Race
  <2>3. TypeOK'
    BY <1>7, <2>2 DEF UpdateObject
  <2> QED
    BY <1>7, <2>2, <2>3 DEF UpdateObject
<1>8. CASE EraseTimeOutObjects
  BY <1>8, SceneAssumption DEF EraseTimeOutObjects, Walks, NoFault, Race, SceneAssumption
<1>9. CASE Draw
  BY <1>9, SceneAssumption DEF Draw, Walks, NoFault, Race, SceneAssumption
<1>10. CASE Join
  BY <1>10 DEF Join
<1> QED
  BY <1>1, <1>2, <1>3, <1>4, <1>5, <1>6, <1>7, <1>8, <1>9, <1>10 DEF User, Run

LEMMA InvStep == Inv /\ [Next]_vars => Inv'
<1> SUFFICES ASSUME Inv, [Next]_vars
             PROVE  Inv'
  OBVIOUS
<1>1. CASE UNCHANGED vars
  BY <1>1 DEF Inv, TypeOK, OnlyZeroIsNull, IdInv, vars, scene, network, ending,
              messages, window
<1>2. CASE Next
  <2>1. fault = NoFault
    BY <1>2 DEF Next
  <2>2. CASE Server
    BY <2>2, WaitingKeepsInv DEF Server
  <2>3. CASE User \/ Run
    BY <2>1, <2>3, WindowKeepsInv
  <2>4. CASE NetworkThreadFunc
    BY <2>1, <2>4, WaitingKeepsInv, StoringKeepsInv, UsingKeepsInv
       DEF NetworkThreadFunc, ProcessPackets
  <2> QED
    BY <1>2, <2>2, <2>3, <2>4 DEF Next
<1> QED
  BY <1>1, <1>2

-----------------------------------------------------------------------------
(* For any ids, whatever id the server gives this client, and however many *)
(* packets it sends, the variables of the client keep their types.         *)
THEOREM TypesKept == Spec => []TypeOK
<1>1. Inv => TypeOK
  BY DEF Inv
<1> QED
  BY InvInit, InvStep, <1>1, PTL DEF Spec

(* For any ids, whatever id the server gives this client, and however many *)
(* packets it sends, the only null pointer in the scene is that of id 0,   *)
(* and the player's own object is there from the login on.                 *)
THEOREM OnlyZeroIsNullAlways == Spec => []OnlyZeroIsNull
<1>1. Inv => OnlyZeroIsNull
  BY DEF Inv
<1> QED
  BY InvInit, InvStep, <1>1, PTL DEF Spec
=============================================================================
