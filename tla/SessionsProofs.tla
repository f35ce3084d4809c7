--------------------------- MODULE SessionsProofs ---------------------------
(***************************************************************************)
(* Proofs, for every number of slots, clients, accounts and workers: the   *)
(* types, and what holds of accounts, slots, receives and accepts as long  *)
(* as no handler has crossed (AccountsHeld, SlotWatched, OneReceiver,      *)
(* AcceptsGoOn).  None of the four is inductive: Held below says in        *)
(* addition what each handler may rely on at each of its labels, and which *)
(* handlers of one client exclude each other.                              *)
(***************************************************************************)
EXTENDS Sessions, FiniteSetTheorems, TLAPS

Claiming == {"claim", "full"}
Admitting == {"assign", "register", "threw", "first"}
Checking == {"login", "fill", "enter"}
Opening == Claiming \cup Admitting \cup Checking
Receiving == {"first", "login", "fill", "enter", "reject", "rejectClose", "recv"}
Leaving == {"bye", "free", "close"}
Accepting == Claiming \cup Admitting \cup {"repost", "dead"}

Unaccepted(c) == peer[c] = "gone" /\ c \notin open /\ key[c] = None
Quiet(c) == recvs[c] = 0 /\ sends[c] = 0 /\ arrived[c] = 0 /\ failed[c] = 0
Unowned(c) == \A s \in Slots : owner[s] # c

(* A handler of a completion has its client in its register. *)
HandlerHasClient ==
    \A w \in Workers : pc[w] \notin {"idle", "strike", "dead"} => serving[w] \in Clients

-----------------------------------------------------------------------------
(* What the handler of w may rely on. *)

WorkerOK(w) ==
    /\ pc[w] \in {"idle", "dead"} <=> serving[w] = None
    /\ serving[w] # None => peer[serving[w]] # "out"

(* Until the client is in the game, no other handler is about it but one   *)
(* that is done with it, and none of its operations is outstanding.        *)
Alone(w) ==
    pc[w] \in Opening =>
        /\ Quiet(serving[w])
        /\ \A v \in Workers \ {w} : serving[v] = serving[w] => pc[v] \in {"repost", "strike"}

Arriving(w) ==
    pc[w] \in Claiming \cup Admitting =>
        /\ serving[w] \in open \cap fresh
        /\ pc[w] # "first" => key[serving[w]] = None
        /\ pc[w] \in Claiming => Unowned(serving[w])

(* The slot claimed stays the client's until its login is answered. *)
Claimed(w) ==
    pc[w] \in Admitting \cup Checking =>
        /\ owner[slot[w]] = serving[w] /\ state[slot[w]] = "ACCEPT"
        /\ pc[w] # "assign" => sock[slot[w]] = serving[w]
        /\ pc[w] \notin {"assign", "register", "threw"} => key[serving[w]] = slot[w]

LoggingIn(w) ==
    /\ pc[w] \in Checking \cup {"reject", "rejectClose", "recv"} =>
           serving[w] \notin fresh /\ key[serving[w]] = slot[w]
    /\ pc[w] \in {"login", "reject", "rejectClose"} => serving[w] \notin logged
    /\ pc[w] = "fill" => serving[w] \in logged
    /\ pc[w] = "enter" => /\ name[slot[w]] = acct[serving[w]]
                          /\ acct[serving[w]] \in Gm \/ serving[w] \in logged

Departing(w) ==
    LET c == serving[w] IN
    /\ pc[w] \in Leaving =>
           /\ peer[c] = "gone" \/ c \notin open
           /\ \/ key[c] = slot[w]
              \/ key[c] = None /\ c \notin open /\ Unowned(c)
    /\ pc[w] \in {"free", "close"} => c \notin logged
    /\ pc[w] \in {"close", "rejectClose"} => Unowned(c)

-----------------------------------------------------------------------------
(* What is outstanding, queued or handled for a client. *)

OneReceive(c) ==
    /\ recvs[c] + arrived[c] <= 1
    /\ \A w \in Workers : serving[w] = c /\ pc[w] \in Receiving =>
           /\ recvs[c] = 0 /\ arrived[c] = 0
           /\ \A v \in Workers : serving[v] = c /\ pc[v] \in Receiving => v = w

(* A client whose login is unhandled is not in the game, and if its login  *)
(* can still come, then nothing is disconnecting it.                       *)
NotHandled(c) ==
    c \in fresh =>
        /\ sends[c] = 0 /\ c \notin logged
        /\ \A s \in Slots : owner[s] = c => state[s] = "ACCEPT"
        /\ recvs[c] + arrived[c] > 0 =>
              /\ failed[c] = 0
              /\ \A w \in Workers : serving[w] = c => pc[w] \notin Leaving
              /\ key[c] # None /\ owner[key[c]] = c

ClientOK(c) ==
    /\ peer[c] = "out" => c \notin open /\ key[c] = None /\ Unowned(c)
    /\ key[c] = None => Quiet(c) /\ c \in fresh
    /\ key[c] = None /\ peer[c] = "up" => c \in open
    /\ failed[c] > 0 => peer[c] = "gone" \/ c \notin open

LoggedHasSlot(c) ==
    c \in logged =>
        /\ acct[c] \in connected \ (Gm \cup orphaned)
        /\ \E s \in Slots :
               /\ owner[s] = c
               /\ name[s] = acct[c] \/ \E w \in Workers : pc[w] = "fill" /\ serving[w] = c

-----------------------------------------------------------------------------
(* Slots, accepting and accounts. *)

Owned(s) ==
    LET c == owner[s] IN
    /\ state[s] = "FREE" <=> c = None
    /\ c # None =>
          /\ c \in open
          /\ \/ key[c] = s /\ sock[s] = c
             \/ \E w \in Workers : /\ pc[w] \in {"assign", "register", "threw"}
                                /\ slot[w] = s /\ serving[w] = c

Watched(s) ==
    LET c == owner[s] IN
    c # None =>
        \/ recvs[c] > 0 \/ arrived[c] > 0 \/ failed[c] > 0 \/ c \in unnoticed
        \/ \E w \in Workers : /\ serving[w] = c
                              /\ pc[w] \in Receiving \cup Leaving \cup {"assign", "register", "threw"}

Played(s) ==
    LET c == owner[s] IN
    state[s] = "INGAME" /\ peer[c] = "up" =>
        name[s] = acct[c] /\ (acct[c] \in Gm \/ c \in logged)

OneAccept ==
    /\ \A w, v \in Workers : pc[w] \in Accepting /\ pc[v] \in Accepting => w = v
    /\ \A w \in Workers : pc[w] \in Accepting => ~accepting
    /\ (accepting \/ \E w \in Workers : pc[w] \in Accepting)
            <=> \A c \in Clients : ~Unaccepted(c)

LoggedOnce ==
    /\ \A a \in connected \ orphaned : \E c \in logged : acct[c] = a
    /\ \A c, d \in logged : acct[c] = acct[d] => c = d
    /\ orphaned \subseteq connected \ Gm

Held ==
    /\ \A w \in Workers : WorkerOK(w)
    /\ \A w \in Workers : Alone(w)
    /\ \A w \in Workers : Arriving(w)
    /\ \A w \in Workers : Claimed(w)
    /\ \A w \in Workers : LoggingIn(w)
    /\ \A w \in Workers : Departing(w)
    /\ \A c \in Clients : OneReceive(c)
    /\ \A c \in Clients : NotHandled(c)
    /\ \A c \in Clients : ClientOK(c)
    /\ \A c \in Clients : LoggedHasSlot(c)
    /\ \A s \in Slots : Owned(s)
    /\ \A s \in Slots : Watched(s)
    /\ \A s \in Slots : Played(s)
    /\ OneAccept
    /\ LoggedOnce

(* The inductive invariant. *)
Inv == TypeOK /\ HandlerHasClient /\ (Sound => Held)

(* A step on which nothing crosses and the process does not end. *)
Safe == /\ TypeOK /\ TypeOK' /\ Held
        /\ ~crossed /\ ~crossed'
        /\ \E v \in Workers : pc'[v] \notin Ended

-----------------------------------------------------------------------------
(* Types. *)

LEMMA InitTypes == Init => TypeOK /\ HandlerHasClient
<1> SUFFICES ASSUME Init PROVE TypeOK /\ HandlerHasClient
  OBVIOUS
<1>1. 0 \in Slots
  BY SlotAssumption DEF SlotAssumption, Slots
<1>2. TypeOK
  BY <1>1 DEF Init, TypeOK, Labels
<1> QED
  BY <1>2 DEF Init, HandlerHasClient

LEMMA NextTypes == TypeOK /\ HandlerHasClient /\ [Next]_vars => TypeOK' /\ HandlerHasClient'
<1> SUFFICES ASSUME TypeOK, HandlerHasClient, [Next]_vars PROVE (TypeOK /\ HandlerHasClient)'
  OBVIOUS
<1>0. 0 \in Slots
  BY SlotAssumption DEF SlotAssumption, Slots
<1>1. ASSUME NEW c \in Clients, ClientLeave(c) PROVE (TypeOK /\ HandlerHasClient)'
  BY <1>0, <1>1 DEF TypeOK, Labels, HandlerHasClient, ClientLeave, slots, io, registers, history
<1>2. ASSUME NEW c \in Clients, RecvArrives(c) PROVE (TypeOK /\ HandlerHasClient)'
  BY <1>0, <1>2 DEF TypeOK, Labels, HandlerHasClient, RecvArrives, slots, registers, history
<1>3. ASSUME NEW c \in Clients, RecvFails(c) PROVE (TypeOK /\ HandlerHasClient)'
  BY <1>0, <1>3 DEF TypeOK, Labels, HandlerHasClient, RecvFails, slots, peers, registers,
     history
<1>4. ASSUME NEW c \in Clients, SendCompletes(c) PROVE (TypeOK /\ HandlerHasClient)'
  BY <1>0, <1>4 DEF TypeOK, Labels, HandlerHasClient, SendCompletes, slots, peers, registers,
     history
<1>5. ASSUME NEW w \in Workers, NEW c \in Clients, TakeAccept(w, c)
      PROVE (TypeOK /\ HandlerHasClient)'
  BY <1>0, <1>5 DEF TypeOK, Labels, HandlerHasClient, TakeAccept, Begin, slots, history
<1>6. ASSUME NEW w \in Workers, NEW c \in Clients, AcceptFails(w, c)
      PROVE (TypeOK /\ HandlerHasClient)'
  BY <1>0, <1>6 DEF TypeOK, Labels, HandlerHasClient, AcceptFails, Begin, slots, io, history
<1>7. ASSUME NEW w \in Workers, Claim(w) PROVE (TypeOK /\ HandlerHasClient)'
  <2>1. slot' \in [Workers -> Slots]
    <3>1. slot[w] \in Slots /\ (slot[w] < MaxUser - 1 => slot[w] + 1 \in Slots)
      BY SlotAssumption DEF SlotAssumption, TypeOK, Slots
    <3> QED
      BY <1>7, <3>1 DEF TypeOK, Claim, Goto
  <2> QED
    BY <1>7, <2>1 DEF TypeOK, Labels, HandlerHasClient, Claim, Goto, io, peers
<1>8. ASSUME NEW w \in Workers, NoRoom(w) PROVE (TypeOK /\ HandlerHasClient)'
  BY <1>0, <1>8 DEF TypeOK, Labels, HandlerHasClient, NoRoom, Goto, slots, io, peers, history
<1>9. ASSUME NEW w \in Workers, Assign(w) PROVE (TypeOK /\ HandlerHasClient)'
  BY <1>0, <1>9 DEF TypeOK, Labels, HandlerHasClient, Assign, Goto, io, peers, history
<1>10. ASSUME NEW w \in Workers, Register(w) PROVE (TypeOK /\ HandlerHasClient)'
  BY <1>0, <1>10 DEF TypeOK, Labels, HandlerHasClient, Register, Goto, slots, peers, history
<1>11. ASSUME NEW w \in Workers, FirstRecv(w) PROVE (TypeOK /\ HandlerHasClient)'
  BY <1>0, <1>11 DEF TypeOK, Labels, HandlerHasClient, FirstRecv, Goto, PostRecv, MayFail,
     slots, peers
<1>12. ASSUME NEW w \in Workers, Repost(w) PROVE (TypeOK /\ HandlerHasClient)'
  BY <1>0, <1>12 DEF TypeOK, Labels, HandlerHasClient, Repost, Idle, Finish, slots, io, peers, history
<1>13. ASSUME NEW w \in Workers, NEW c \in Clients, TakeData(w, c)
      PROVE (TypeOK /\ HandlerHasClient)'
  BY <1>0, <1>13 DEF TypeOK, Labels, HandlerHasClient, TakeData, Begin, slots, history
<1>14. ASSUME NEW w \in Workers, LoginGm(w) PROVE (TypeOK /\ HandlerHasClient)'
  BY <1>0, <1>14 DEF TypeOK, Labels, HandlerHasClient, LoginGm, Goto, Cross, io, peers
<1>15. ASSUME NEW w \in Workers, LoginConnects(w) PROVE (TypeOK /\ HandlerHasClient)'
  BY <1>0, <1>15 DEF TypeOK, Labels, HandlerHasClient, LoginConnects, Goto, slots, io, peers
<1>16. ASSUME NEW w \in Workers, LoginRefused(w) PROVE (TypeOK /\ HandlerHasClient)'
  BY <1>0, <1>16 DEF TypeOK, Labels, HandlerHasClient, LoginRefused, Goto, PostSend, MayFail,
     slots, peers, history
<1>17. ASSUME NEW w \in Workers, Fill(w) PROVE (TypeOK /\ HandlerHasClient)'
  BY <1>0, <1>17 DEF TypeOK, Labels, HandlerHasClient, Fill, Goto, Cross, io, peers
<1>18. ASSUME NEW w \in Workers, Enter(w) PROVE (TypeOK /\ HandlerHasClient)'
  <2>1. /\ Goto(w, "recv") /\ pc[w] = "enter"
        /\ UNCHANGED <<name, sock, connected, accepting, open, key, recvs, arrived>>
        /\ UNCHANGED <<failed, peers, strikes, owner, logged, unnoticed, orphaned>>
        /\ state' \in [Slots -> {"FREE", "ACCEPT", "INGAME"}]
    BY <1>18 DEF TypeOK, Enter
  <2>2. sends' \in [Clients -> Nat]
    BY <1>18 DEF TypeOK, Enter, PostSend
  <2>3. crossed' \in BOOLEAN
    BY <1>18 DEF TypeOK, Enter, Cross
  <2> QED
    BY <2>1, <2>2, <2>3 DEF TypeOK, Labels, HandlerHasClient, Goto, peers
<1>19. ASSUME NEW w \in Workers, RecvAgain(w) PROVE (TypeOK /\ HandlerHasClient)'
  BY <1>0, <1>19 DEF TypeOK, Labels, HandlerHasClient, RecvAgain, Idle, Finish, PostRecv, MayFail,
     Cross, slots, peers
<1>20. ASSUME NEW w \in Workers, NEW c \in Clients, TakeFailed(w, c)
      PROVE (TypeOK /\ HandlerHasClient)'
  BY <1>0, <1>20 DEF TypeOK, Labels, HandlerHasClient, TakeFailed, Begin, slots, peers, history
<1>21. ASSUME NEW w \in Workers, Bye(w) PROVE (TypeOK /\ HandlerHasClient)'
  <2>1. /\ pc[w] = "bye" /\ Goto(w, "free")
        /\ UNCHANGED <<slots, accepting, io, peers, strikes, owner, unnoticed>>
    BY <1>21 DEF Bye
  <2>2. connected' \subseteq Accounts /\ logged' \subseteq Clients /\ crossed' \in BOOLEAN
    BY <1>21 DEF TypeOK, Bye, Cross
  <2>3. orphaned' \subseteq Accounts
    BY <1>21 DEF TypeOK, Bye
  <2> QED
    BY <2>1, <2>2, <2>3 DEF TypeOK, Labels, HandlerHasClient, Goto, slots, io, peers
<1>22. ASSUME NEW w \in Workers, Free(w) PROVE (TypeOK /\ HandlerHasClient)'
  BY <1>0, <1>22 DEF TypeOK, Labels, HandlerHasClient, Free, Goto, Cross, io, peers
<1>23. ASSUME NEW w \in Workers, Close(w) PROVE (TypeOK /\ HandlerHasClient)'
  <2>1. /\ UNCHANGED <<slots, connected, accepting, key, arrived, peers, strikes>>
        /\ UNCHANGED <<owner, logged, unnoticed, orphaned>>
        /\ (pc[w] = "rejectClose" /\ Goto(w, "recv")) \/ Idle(w)
    BY <1>23 DEF Close
  <2>2. /\ failed' \in [Clients -> Nat] /\ recvs' \in [Clients -> Nat]
        /\ sends' \in [Clients -> Nat] /\ open' \subseteq Clients
    BY <1>23 DEF TypeOK, Close
  <2>3. crossed' \in BOOLEAN
    BY <1>23 DEF TypeOK, Close, Cross
  <2> QED
    BY <1>0, <2>1, <2>2, <2>3 DEF TypeOK, Labels, HandlerHasClient, Goto, Idle, Finish, slots, peers
<1>24. ASSUME NEW s \in Slots, SendTo(s) PROVE (TypeOK /\ HandlerHasClient)'
  BY <1>0, <1>24 DEF TypeOK, Labels, HandlerHasClient, SendTo, PostSend, MayFail, slots, peers,
     registers, history
<1>25. ASSUME NEW w \in Workers, NEW s \in Slots, NpcFinds(w, s)
      PROVE (TypeOK /\ HandlerHasClient)'
  BY <1>0, <1>25 DEF TypeOK, Labels, HandlerHasClient, NpcFinds, Begin, slots, io, peers,
     history
<1>26. ASSUME NEW w \in Workers, NpcKills(w) PROVE (TypeOK /\ HandlerHasClient)'
  BY <1>0, <1>26 DEF TypeOK, Labels, HandlerHasClient, NpcKills, Idle, Finish, Cross, io, peers
<1>27. CASE UNCHANGED vars
  BY <1>27 DEF TypeOK, HandlerHasClient, vars, slots, io, peers, registers, history
<1> QED
  BY <1>1, <1>2, <1>3, <1>4, <1>5, <1>6, <1>7, <1>8, <1>9, <1>10, <1>11, <1>12, <1>13, <1>14,
     <1>15, <1>16, <1>17, <1>18, <1>19, <1>20, <1>21, <1>22, <1>23, <1>24, <1>25, <1>26, <1>27
     DEF Next, Network, Worker, Take, Continue

-----------------------------------------------------------------------------
(* Clients and the network. *)

LEMMA ClientLeaveStep ==
    ASSUME Safe, NEW c \in Clients, ClientLeave(c)
    PROVE  Held'
<1> USE DEF Safe
<1>1. \A v \in Workers : WorkerOK(v)'
  BY DEF Held, WorkerOK, ClientLeave, slots, io, registers, history
<1>2. \A v \in Workers : Departing(v)'
  BY DEF Held, Departing, ClientLeave, slots, io, registers, history, Leaving, Unowned
<1>3. \A d \in Clients : ClientOK(d)'
  BY DEF Held, ClientOK, ClientLeave, slots, io, registers, history, Quiet, Unowned
<1>4. \A t \in Slots : Played(t)'
  BY DEF Held, Played, ClientLeave, slots, io, registers, history
<1>5. OneAccept'
  BY DEF Held, ClientOK, OneAccept, ClientLeave, slots, io, registers, history, Claiming,
     Admitting, Accepting, Unaccepted, Quiet, Unowned
<1>6. /\ \A v \in Workers : Alone(v)'
      /\ \A v \in Workers : Arriving(v)'
      /\ \A v \in Workers : Claimed(v)'
      /\ \A v \in Workers : LoggingIn(v)'
      /\ \A d \in Clients : OneReceive(d)'
      /\ \A d \in Clients : NotHandled(d)'
      /\ \A d \in Clients : LoggedHasSlot(d)'
      /\ \A t \in Slots : Owned(t)'
      /\ \A t \in Slots : Watched(t)'
      /\ LoggedOnce'
  BY DEF Held, Alone, Arriving, Claimed, LoggingIn, OneReceive, NotHandled, LoggedHasSlot,
     Owned, Watched, LoggedOnce, ClientLeave, slots, io, registers, history, Claiming,
     Admitting, Checking, Opening, Receiving, Leaving, Quiet, Unowned
<1> QED
  BY <1>1, <1>2, <1>3, <1>4, <1>5, <1>6 DEF Held

LEMMA RecvArrivesStep ==
    ASSUME Safe, NEW c \in Clients, RecvArrives(c)
    PROVE  Held'
<1> USE DEF Safe
<1>1. \A v \in Workers : Alone(v)'
  BY DEF Held, Alone, RecvArrives, slots, registers, history, Claiming, Admitting, Checking,
     Opening, Quiet
<1>2. \A d \in Clients : OneReceive(d)'
  BY DEF TypeOK, Held, OneReceive, RecvArrives, slots, registers, history, Receiving
<1>3. \A d \in Clients : NotHandled(d)'
  BY DEF TypeOK, Held, NotHandled, RecvArrives, slots, registers, history, Leaving
<1>4. \A d \in Clients : ClientOK(d)'
  BY DEF Held, ClientOK, RecvArrives, slots, registers, history, Quiet, Unowned
<1>5. \A t \in Slots : Watched(t)'
  BY DEF TypeOK, Held, Watched, RecvArrives, slots, registers, history, Receiving, Leaving
<1>6. /\ \A v \in Workers : WorkerOK(v)'
      /\ \A v \in Workers : Arriving(v)'
      /\ \A v \in Workers : Claimed(v)'
      /\ \A v \in Workers : LoggingIn(v)'
      /\ \A v \in Workers : Departing(v)'
      /\ \A d \in Clients : LoggedHasSlot(d)'
      /\ \A t \in Slots : Owned(t)'
      /\ \A t \in Slots : Played(t)'
      /\ OneAccept'
      /\ LoggedOnce'
  BY DEF Held, WorkerOK, Arriving, Claimed, LoggingIn, Departing, LoggedHasSlot, Owned, Played,
     OneAccept, LoggedOnce, RecvArrives, slots, registers, history, Claiming, Admitting,
     Checking, Leaving, Accepting, Unaccepted, Unowned
<1> QED
  BY <1>1, <1>2, <1>3, <1>4, <1>5, <1>6 DEF Held

LEMMA RecvFailsStep ==
    ASSUME Safe, NEW c \in Clients, RecvFails(c)
    PROVE  Held'
<1> USE DEF Safe
<1>1. \A v \in Workers : Alone(v)'
  BY DEF Held, Alone, RecvFails, slots, peers, registers, history, Claiming, Admitting,
     Checking, Opening, Quiet
<1>2. \A d \in Clients : OneReceive(d)'
  BY DEF TypeOK, Held, OneReceive, RecvFails, slots, peers, registers, history, Receiving
<1>3. \A d \in Clients : NotHandled(d)'
  BY DEF TypeOK, Held, OneReceive, NotHandled, RecvFails, slots, peers, registers, history,
     Receiving, Leaving
<1>4. \A d \in Clients : ClientOK(d)'
  BY DEF Held, ClientOK, RecvFails, slots, peers, registers, history, Quiet, Unowned
<1>5. \A t \in Slots : Watched(t)'
  BY DEF TypeOK, Held, Watched, RecvFails, slots, peers, registers, history, Receiving, Leaving
<1>6. /\ \A v \in Workers : WorkerOK(v)'
      /\ \A v \in Workers : Arriving(v)'
      /\ \A v \in Workers : Claimed(v)'
      /\ \A v \in Workers : LoggingIn(v)'
      /\ \A v \in Workers : Departing(v)'
      /\ \A d \in Clients : LoggedHasSlot(d)'
      /\ \A t \in Slots : Owned(t)'
      /\ \A t \in Slots : Played(t)'
      /\ OneAccept'
      /\ LoggedOnce'
  BY DEF Held, WorkerOK, Arriving, Claimed, LoggingIn, Departing, LoggedHasSlot, Owned, Played,
     OneAccept, LoggedOnce, RecvFails, slots, peers, registers, history, Claiming, Admitting,
     Checking, Leaving, Accepting, Unaccepted, Unowned
<1> QED
  BY <1>1, <1>2, <1>3, <1>4, <1>5, <1>6 DEF Held

LEMMA SendCompletesStep ==
    ASSUME Safe, NEW c \in Clients, SendCompletes(c)
    PROVE  Held'
<1> USE DEF Safe
<1>1. \A v \in Workers : Alone(v)'
  BY DEF TypeOK, Held, WorkerOK, Alone, SendCompletes, slots, peers, registers, history,
     Claiming, Admitting, Checking, Opening, Quiet
<1>2. \A d \in Clients : NotHandled(d)'
  BY DEF TypeOK, Held, NotHandled, SendCompletes, slots, peers, registers, history, Leaving
<1>3. \A d \in Clients : ClientOK(d)'
  BY DEF TypeOK, Held, ClientOK, SendCompletes, slots, peers, registers, history, Quiet, Unowned
<1>4. \A t \in Slots : Watched(t)'
  BY DEF TypeOK, Held, Watched, SendCompletes, slots, peers, registers, history, Receiving,
     Leaving
<1>5. /\ \A v \in Workers : WorkerOK(v)'
      /\ \A v \in Workers : Arriving(v)'
      /\ \A v \in Workers : Claimed(v)'
      /\ \A v \in Workers : LoggingIn(v)'
      /\ \A v \in Workers : Departing(v)'
      /\ \A d \in Clients : OneReceive(d)'
      /\ \A d \in Clients : LoggedHasSlot(d)'
      /\ \A t \in Slots : Owned(t)'
      /\ \A t \in Slots : Played(t)'
      /\ OneAccept'
      /\ LoggedOnce'
  BY DEF Held, WorkerOK, Arriving, Claimed, LoggingIn, Departing, OneReceive, LoggedHasSlot,
     Owned, Played, OneAccept, LoggedOnce, SendCompletes, slots, peers, registers, history,
     Claiming, Admitting, Checking, Receiving, Leaving, Accepting, Unaccepted, Unowned
<1> QED
  BY <1>1, <1>2, <1>3, <1>4, <1>5 DEF Held

-----------------------------------------------------------------------------
(* Accepting. *)

LEMMA TakeAcceptStep ==
    ASSUME Safe, NEW w \in Workers, NEW c \in Clients, TakeAccept(w, c)
    PROVE  Held'
<1> USE DEF Safe
<1>1. \A v \in Workers : WorkerOK(v)'
  BY NoneAssumption DEF NoneAssumption, TypeOK, Held, WorkerOK, TakeAccept, Begin, slots,
     history
<1>2. \A v \in Workers : Alone(v)'
  BY NoneAssumption DEF NoneAssumption, TypeOK, Held, WorkerOK, Alone, ClientOK, TakeAccept,
     Begin, slots, history, Claiming, Admitting, Checking, Opening, Quiet, Unowned
<1>3. \A v \in Workers : Arriving(v)'
  BY NoneAssumption DEF NoneAssumption, TypeOK, Held, WorkerOK, Arriving, ClientOK, TakeAccept,
     Begin, slots, history, Claiming, Admitting, Quiet, Unowned
<1>4. \A v \in Workers : Claimed(v)'
  BY DEF Held, Claimed, TakeAccept, Begin, slots, history, Admitting, Checking
<1>5. \A v \in Workers : LoggingIn(v)'
  BY DEF Held, LoggingIn, TakeAccept, Begin, slots, history, Checking
<1>6. \A v \in Workers : Departing(v)'
  BY DEF Held, WorkerOK, Departing, TakeAccept, Begin, slots, history, Leaving, Unowned
<1>7. \A d \in Clients : OneReceive(d)'
  BY DEF Held, OneReceive, TakeAccept, Begin, slots, history, Receiving
<1>8. \A d \in Clients : NotHandled(d)'
  BY DEF Held, NotHandled, TakeAccept, Begin, slots, history, Leaving
<1>9. \A d \in Clients : ClientOK(d)'
  BY DEF TypeOK, Held, ClientOK, TakeAccept, Begin, slots, history, Quiet, Unowned
<1>10. \A d \in Clients : LoggedHasSlot(d)'
  BY DEF Held, LoggedHasSlot, TakeAccept, Begin, slots, history
<1>11. \A t \in Slots : Owned(t)'
  BY DEF Held, Owned, TakeAccept, Begin, slots, history
<1>12. \A t \in Slots : Watched(t)'
  BY DEF Held, Watched, TakeAccept, Begin, slots, history, Receiving, Leaving
<1>13. \A t \in Slots : Played(t)'
  BY DEF Held, ClientOK, Played, TakeAccept, Begin, slots, history, Quiet, Unowned
<1>14. OneAccept'
  BY DEF TypeOK, Held, OneAccept, TakeAccept, Begin, slots, history, Claiming, Admitting,
     Accepting, Unaccepted
<1>15. LoggedOnce'
  BY DEF Held, LoggedOnce, TakeAccept, Begin, slots, history
<1> QED
  BY <1>1, <1>2, <1>3, <1>4, <1>5, <1>6, <1>7, <1>8, <1>9, <1>10, <1>11, <1>12, <1>13, <1>14,
     <1>15 DEF Held

LEMMA AcceptFailsStep ==
    ASSUME Safe, NEW w \in Workers, NEW c \in Clients, AcceptFails(w, c)
    PROVE  Held'
<1> USE DEF Safe
<1>1. \A v \in Workers : WorkerOK(v)'
  BY NoneAssumption DEF NoneAssumption, TypeOK, Held, WorkerOK, ClientOK, AcceptFails, Begin,
     slots, io, history, Quiet, Unowned
<1>2. \A v \in Workers : Alone(v)'
  BY DEF Held, Alone, LoggingIn, ClientOK, OneAccept, AcceptFails, Begin, slots, io, history,
     Claiming, Admitting, Checking, Opening, Accepting, Unaccepted, Quiet, Unowned
<1>3. \A v \in Workers : Arriving(v)'
  BY DEF Held, Arriving, AcceptFails, Begin, slots, io, history, Claiming, Admitting, Unowned
<1>4. \A v \in Workers : Claimed(v)'
  BY DEF Held, Claimed, AcceptFails, Begin, slots, io, history, Admitting, Checking
<1>5. \A v \in Workers : LoggingIn(v)'
  BY DEF Held, LoggingIn, AcceptFails, Begin, slots, io, history, Checking
<1>6. \A v \in Workers : Departing(v)'
  BY DEF TypeOK, Held, Departing, ClientOK, LoggedHasSlot, AcceptFails, Begin, slots, io,
     history, Leaving, Quiet, Unowned
<1>7. \A d \in Clients : OneReceive(d)'
  BY DEF Held, OneReceive, AcceptFails, Begin, slots, io, history, Receiving
<1>8. \A d \in Clients : NotHandled(d)'
  BY DEF TypeOK, Held, NotHandled, ClientOK, AcceptFails, Begin, slots, io, history, Leaving,
     Quiet, Unowned
<1>9. \A d \in Clients : ClientOK(d)'
  BY DEF Held, ClientOK, AcceptFails, Begin, slots, io, history, Quiet, Unowned
<1>10. \A d \in Clients : LoggedHasSlot(d)'
  BY DEF Held, LoggedHasSlot, AcceptFails, Begin, slots, io, history
<1>11. \A t \in Slots : Owned(t)'
  BY DEF Held, Owned, AcceptFails, Begin, slots, io, history
<1>12. \A t \in Slots : Watched(t)'
  BY DEF Held, Watched, AcceptFails, Begin, slots, io, history, Receiving, Leaving
<1>13. \A t \in Slots : Played(t)'
  BY DEF Held, Played, AcceptFails, Begin, slots, io, history
<1>14. OneAccept'
  BY DEF TypeOK, Held, ClientOK, OneAccept, AcceptFails, Begin, slots, io, history, Claiming,
     Admitting, Accepting, Unaccepted, Quiet, Unowned
<1>15. LoggedOnce'
  BY DEF Held, LoggedOnce, AcceptFails, Begin, slots, io, history
<1> QED
  BY <1>1, <1>2, <1>3, <1>4, <1>5, <1>6, <1>7, <1>8, <1>9, <1>10, <1>11, <1>12, <1>13, <1>14,
     <1>15 DEF Held

LEMMA ClaimStep ==
    ASSUME Safe, NEW w \in Workers, Claim(w)
    PROVE  Held'
<1> USE DEF Safe
<1>1. /\ serving[w] \in Clients /\ pc[w] = "claim" /\ UNCHANGED serving
      /\ UNCHANGED <<name, sock, connected, accepting, io, peers, strikes>>
      /\ UNCHANGED <<logged, unnoticed, orphaned>>
  BY DEF Claim, Goto, TypeOK, Held, WorkerOK
<1>2. LET s == slot[w] IN
      \/ /\ owner[s] = None /\ state' = [state EXCEPT ![s] = "ACCEPT"]
         /\ owner' = [owner EXCEPT ![s] = serving[w]]
         /\ pc' = [pc EXCEPT ![w] = "assign"] /\ UNCHANGED slot
      \/ /\ UNCHANGED <<state, owner, pc>> /\ slot' = [slot EXCEPT ![w] = s + 1]
      \/ /\ UNCHANGED <<state, owner, slot>> /\ pc' = [pc EXCEPT ![w] = "full"]
  BY DEF Claim, Goto, TypeOK, Held, Owned
<1>3. \A v \in Workers : WorkerOK(v)'
  BY <1>1, <1>2 DEF TypeOK, Held, WorkerOK, io, peers
<1>4. \A v \in Workers : Alone(v)'
  BY <1>1, <1>2 DEF TypeOK, Held, Alone, Claiming, Admitting, Checking, Opening, Quiet, io,
     peers
<1>5. \A v \in Workers : Arriving(v)'
  BY <1>1, <1>2 DEF TypeOK, Held, Arriving, OneAccept, Claiming, Admitting, Accepting,
     Unaccepted, Unowned, io, peers
<1>6. \A v \in Workers : Claimed(v)'
  BY <1>1, <1>2 DEF TypeOK, Held, WorkerOK, Arriving, Claimed, Watched, Claiming, Admitting,
     Checking, Receiving, Leaving, Unowned, io, peers
<1>7. \A v \in Workers : LoggingIn(v)'
  BY <1>1, <1>2 DEF TypeOK, Held, LoggingIn, Checking, io, peers
<1>8. \A v \in Workers : Departing(v)'
  BY <1>1, <1>2, SlotAssumption DEF SlotAssumption, TypeOK, Held, Alone, Departing, Claiming,
     Admitting, Checking, Opening, Leaving, Quiet, Unowned, io, peers
<1>9. \A d \in Clients : OneReceive(d)'
  BY <1>1, <1>2 DEF TypeOK, Held, Alone, OneReceive, Claiming, Admitting, Checking, Opening,
     Receiving, Quiet, io, peers
<1>10. \A d \in Clients : NotHandled(d)'
  BY <1>1, <1>2, NoneAssumption DEF NoneAssumption, TypeOK, Held, NotHandled, Leaving, io, peers
<1>11. \A d \in Clients : ClientOK(d)'
  BY <1>1, <1>2 DEF TypeOK, Held, WorkerOK, ClientOK, Quiet, Unowned, io, peers
<1>12. \A d \in Clients : LoggedHasSlot(d)'
  BY <1>1, <1>2, NoneAssumption DEF NoneAssumption, TypeOK, Held, LoggedHasSlot, io, peers
<1>13. \A t \in Slots : Owned(t)'
  BY <1>1, <1>2 DEF TypeOK, Held, Arriving, Owned, Claiming, Admitting, Unowned, io, peers
<1>14. \A t \in Slots : Watched(t)'
  BY <1>1, <1>2 DEF TypeOK, Held, Watched, Receiving, Leaving, io, peers
<1>15. \A t \in Slots : Played(t)'
  BY <1>1, <1>2 DEF TypeOK, Held, Played, io, peers
<1>16. OneAccept'
  BY <1>1, <1>2 DEF TypeOK, Held, OneAccept, Claiming, Admitting, Accepting, Unaccepted, io,
     peers
<1>17. LoggedOnce'
  BY DEF Held, LoggedOnce, Claim, Goto, io, peers
<1> QED
  BY <1>3, <1>4, <1>5, <1>6, <1>7, <1>8, <1>9, <1>10, <1>11, <1>12, <1>13, <1>14, <1>15, <1>16,
     <1>17 DEF Held

LEMMA NoRoomStep ==
    ASSUME Safe, NEW w \in Workers, NoRoom(w)
    PROVE  Held'
<1> USE DEF Safe
<1>1. /\ pc[w] = "full" /\ Goto(w, "repost")
      /\ UNCHANGED <<slots, connected, accepting, io, peers, strikes, history>>
  BY DEF NoRoom, Goto, Ended
<1>2. \A v \in Workers : WorkerOK(v)'
  BY <1>1 DEF Held, WorkerOK, Goto, slots, io, peers, history
<1>3. \A v \in Workers : Alone(v)'
  BY <1>1 DEF Held, Alone, Claiming, Admitting, Checking, Opening, Quiet, Goto, slots, io,
     peers, history
<1>4. \A v \in Workers : Arriving(v)'
  BY <1>1 DEF Held, Arriving, Claiming, Admitting, Unowned, Goto, slots, io, peers, history
<1>5. \A v \in Workers : Claimed(v)'
  BY <1>1 DEF Held, Claimed, Admitting, Checking, Goto, slots, io, peers, history
<1>6. \A v \in Workers : LoggingIn(v)'
  BY <1>1 DEF Held, LoggingIn, Checking, Goto, slots, io, peers, history
<1>7. \A v \in Workers : Departing(v)'
  BY <1>1 DEF Held, Departing, Leaving, Unowned, Goto, slots, io, peers, history
<1>8. \A d \in Clients : OneReceive(d)'
  BY <1>1 DEF Held, OneReceive, Receiving, Goto, slots, io, peers, history
<1>9. \A d \in Clients : NotHandled(d)'
  BY <1>1 DEF Held, NotHandled, Leaving, Goto, slots, io, peers, history
<1>10. \A d \in Clients : LoggedHasSlot(d)'
  BY <1>1 DEF Held, LoggedHasSlot, Goto, slots, io, peers, history
<1>11. \A t \in Slots : Owned(t)'
  BY <1>1 DEF Held, Owned, Goto, slots, io, peers, history
<1>12. \A t \in Slots : Watched(t)'
  BY <1>1 DEF Held, Watched, Receiving, Leaving, Goto, slots, io, peers, history
<1>13. OneAccept'
  BY <1>1 DEF Held, OneAccept, Claiming, Admitting, Accepting, Unaccepted, Goto, slots, io,
     peers, history
<1>14. /\ \A d \in Clients : ClientOK(d)'
       /\ \A t \in Slots : Played(t)'
       /\ LoggedOnce'
  BY DEF Held, ClientOK, Played, LoggedOnce, NoRoom, Goto, slots, io, peers, history, Quiet,
     Unowned
<1> QED
  BY <1>2, <1>3, <1>4, <1>5, <1>6, <1>7, <1>8, <1>9, <1>10, <1>11, <1>12, <1>13, <1>14 DEF Held

LEMMA AssignStep ==
    ASSUME Safe, NEW w \in Workers, Assign(w)
    PROVE  Held'
<1> USE DEF Safe
<1>1. \A v \in Workers : WorkerOK(v)'
  BY DEF Held, WorkerOK, Assign, Goto, io, peers, history
<1>2. \A v \in Workers : Alone(v)'
  BY DEF Held, Alone, Assign, Goto, io, peers, history, Claiming, Admitting, Checking, Opening,
     Quiet
<1>3. \A v \in Workers : Arriving(v)'
  BY DEF Held, Arriving, Assign, Goto, io, peers, history, Claiming, Admitting, Unowned
<1>4. \A v \in Workers : Claimed(v)'
  BY DEF TypeOK, Held, Claimed, Assign, Goto, io, peers, history, Admitting, Checking
<1>5. \A v \in Workers : LoggingIn(v)'
  BY DEF Held, LoggingIn, Assign, Goto, io, peers, history, Checking
<1>6. \A v \in Workers : Departing(v)'
  BY DEF Held, Departing, Assign, Goto, io, peers, history, Leaving, Unowned
<1>7. \A d \in Clients : OneReceive(d)'
  BY DEF Held, OneReceive, Assign, Goto, io, peers, history, Receiving
<1>8. \A d \in Clients : NotHandled(d)'
  BY DEF Held, NotHandled, Assign, Goto, io, peers, history, Leaving
<1>9. \A d \in Clients : LoggedHasSlot(d)'
  BY DEF Held, LoggedHasSlot, Assign, Goto, io, peers, history
<1>10. \A t \in Slots : Owned(t)'
  BY DEF Held, Claimed, Owned, Assign, Goto, io, peers, history, Admitting, Checking
<1>11. \A t \in Slots : Watched(t)'
  BY DEF Held, Watched, Assign, Goto, io, peers, history, Receiving, Leaving
<1>12. OneAccept'
  BY DEF Held, OneAccept, Assign, Goto, io, peers, history, Claiming, Admitting, Accepting,
     Unaccepted
<1>13. /\ \A d \in Clients : ClientOK(d)'
       /\ \A t \in Slots : Played(t)'
       /\ LoggedOnce'
  BY DEF Held, ClientOK, Played, LoggedOnce, Assign, Goto, io, peers, history, Quiet, Unowned
<1> QED
  BY <1>1, <1>2, <1>3, <1>4, <1>5, <1>6, <1>7, <1>8, <1>9, <1>10, <1>11, <1>12, <1>13 DEF Held

LEMMA Registered ==
    ASSUME Safe, NEW w \in Workers, Register(w), pc'[w] # "threw"
    PROVE  Held'
<1> USE DEF Safe
<1>1. /\ serving[w] \in Clients \cap open /\ pc[w] = "register" /\ Goto(w, "first")
      /\ key[serving[w]] = None /\ key' = [key EXCEPT ![serving[w]] = slot[w]]
      /\ UNCHANGED <<slots, connected, accepting, open, recvs, sends, arrived, failed>>
      /\ UNCHANGED <<peers, strikes, history>>
  BY DEF Register, Goto, TypeOK, Held, WorkerOK, Arriving, Admitting
<1>2. \A v \in Workers : WorkerOK(v)'
  BY <1>1 DEF Held, WorkerOK, Goto, slots, peers, history
<1>3. \A v \in Workers : Alone(v)'
  BY <1>1 DEF Held, Alone, Claiming, Admitting, Checking, Opening, Quiet, Goto, slots, peers,
     history
<1>4. \A v \in Workers : Arriving(v)'
  BY <1>1 DEF TypeOK, Held, Alone, Arriving, Claiming, Admitting, Checking, Opening, Quiet,
     Unowned, Goto, slots, peers, history
<1>5. \A v \in Workers : Claimed(v)'
  BY <1>1 DEF TypeOK, Held, Alone, Claimed, Claiming, Admitting, Checking, Opening, Quiet, Goto,
     slots, peers, history
<1>6. \A v \in Workers : LoggingIn(v)'
  BY <1>1 DEF Held, Alone, LoggingIn, Claiming, Admitting, Checking, Opening, Quiet, Goto,
     slots, peers, history
<1>7. \A v \in Workers : Departing(v)'
  BY <1>1 DEF Held, Alone, Departing, Claiming, Admitting, Checking, Opening, Leaving, Quiet,
     Unowned, Goto, slots, peers, history
<1>8. \A d \in Clients : OneReceive(d)'
  BY <1>1 DEF Held, Alone, OneReceive, Claiming, Admitting, Checking, Opening, Receiving, Quiet,
     Goto, slots, peers, history
<1>9. \A d \in Clients : NotHandled(d)'
  BY <1>1 DEF Held, NotHandled, Leaving, Goto, slots, peers, history
<1>10. \A d \in Clients : ClientOK(d)'
  BY <1>1 DEF Held, ClientOK, Quiet, Unowned, Goto, slots, peers, history
<1>11. \A d \in Clients : LoggedHasSlot(d)'
  BY <1>1 DEF Held, LoggedHasSlot, Goto, slots, peers, history
<1>12. \A t \in Slots : Owned(t)'
  BY <1>1, NoneAssumption DEF NoneAssumption, TypeOK, Held, Claimed, Owned, Admitting, Checking,
     Goto, slots, peers, history
<1>13. \A t \in Slots : Watched(t)'
  BY <1>1 DEF Held, Watched, Receiving, Leaving, Goto, slots, peers, history
<1>14. OneAccept'
  BY <1>1 DEF Held, OneAccept, Claiming, Admitting, Accepting, Unaccepted, Goto, slots, peers,
     history
<1>15. /\ \A t \in Slots : Played(t)'
       /\ LoggedOnce'
  BY DEF Held, Played, LoggedOnce, Register, Goto, slots, peers, history
<1> QED
  BY <1>2, <1>3, <1>4, <1>5, <1>6, <1>7, <1>8, <1>9, <1>10, <1>11, <1>12, <1>13, <1>14, <1>15
     DEF Held

LEMMA RegisterThrows ==
    ASSUME Safe, NEW w \in Workers, Register(w), pc'[w] # "first"
    PROVE  Held'
<1> USE DEF Safe
<1>1. /\ pc[w] = "register" /\ Goto(w, "threw")
      /\ UNCHANGED <<slots, connected, accepting, io, peers, strikes, history>>
  BY DEF Register, Goto, TypeOK, io
<1>2. \A v \in Workers : WorkerOK(v)'
  BY <1>1 DEF TypeOK, Held, WorkerOK, Goto, slots, io, peers, history
<1>3. \A v \in Workers : Alone(v)'
  BY <1>1 DEF TypeOK, Held, Alone, Claiming, Admitting, Checking, Opening, Quiet, Goto, slots,
     io, peers, history
<1>4. \A v \in Workers : Arriving(v)'
  BY <1>1 DEF TypeOK, Held, Arriving, Claiming, Admitting, Unowned, Goto, slots, io, peers,
     history
<1>5. \A v \in Workers : Claimed(v)'
  BY <1>1 DEF TypeOK, Held, Claimed, Admitting, Checking, Goto, slots, io, peers, history
<1>6. \A v \in Workers : LoggingIn(v)'
  BY <1>1 DEF TypeOK, Held, LoggingIn, Checking, Goto, slots, io, peers, history
<1>7. \A v \in Workers : Departing(v)'
  BY <1>1 DEF TypeOK, Held, Departing, Leaving, Unowned, Goto, slots, io, peers, history
<1>8. \A d \in Clients : OneReceive(d)'
  BY <1>1 DEF TypeOK, Held, OneReceive, Receiving, Goto, slots, io, peers, history
<1>9. \A d \in Clients : NotHandled(d)'
  BY <1>1 DEF TypeOK, Held, NotHandled, Leaving, Goto, slots, io, peers, history
<1>10. \A d \in Clients : LoggedHasSlot(d)'
  BY <1>1 DEF TypeOK, Held, LoggedHasSlot, Goto, slots, io, peers, history
<1>11. \A t \in Slots : Owned(t)'
  BY <1>1 DEF TypeOK, Held, Owned, Goto, slots, io, peers, history
<1>12. \A t \in Slots : Watched(t)'
  BY <1>1 DEF TypeOK, Held, Watched, Receiving, Leaving, Goto, slots, io, peers, history
<1>13. OneAccept'
  BY <1>1 DEF TypeOK, Held, OneAccept, Claiming, Admitting, Accepting, Unaccepted, Goto, slots,
     io, peers, history
<1>14. /\ \A d \in Clients : ClientOK(d)'
       /\ \A t \in Slots : Played(t)'
       /\ LoggedOnce'
  BY <1>1 DEF Held, ClientOK, Played, LoggedOnce, Goto, slots, io, peers, history, Quiet,
     Unowned
<1> QED
  BY <1>2, <1>3, <1>4, <1>5, <1>6, <1>7, <1>8, <1>9, <1>10, <1>11, <1>12, <1>13, <1>14 DEF Held

LEMMA RegisterStep ==
    ASSUME Safe, NEW w \in Workers, Register(w)
    PROVE  Held'
BY Registered, RegisterThrows

LEMMA FirstRecvStep ==
    ASSUME Safe, NEW w \in Workers, FirstRecv(w)
    PROVE  Held'
<1> USE DEF Safe
<1>1. /\ serving[w] \in Clients \cap open /\ pc[w] = "first" /\ Goto(w, "repost")
      /\ sock[slot[w]] = serving[w] /\ key[serving[w]] = slot[w]
      /\ UNCHANGED <<slots, connected, accepting, open, key, sends, arrived, failed>>
      /\ UNCHANGED <<peers, strikes, owner, logged, orphaned, crossed>>
  BY DEF FirstRecv, TypeOK, Held, WorkerOK, Arriving, Claimed, Admitting
<1>2. LET c == serving[w] IN
      \/ recvs' = [recvs EXCEPT ![c] = @ + 1] /\ UNCHANGED unnoticed
      \/ UNCHANGED recvs /\ unnoticed' = unnoticed \cup {c}
  BY <1>1 DEF FirstRecv, PostRecv
<1>3. \A v \in Workers : WorkerOK(v)'
  BY <1>1, <1>2 DEF Held, WorkerOK, Goto, slots, peers
<1>4. \A v \in Workers : Alone(v)'
  BY <1>1, <1>2 DEF TypeOK, Held, Alone, Arriving, Claimed, Owned, Claiming, Admitting,
     Checking, Opening, Quiet, Unowned, Goto, slots, peers
<1>5. \A v \in Workers : Arriving(v)'
  BY <1>1, <1>2 DEF Held, Arriving, Claiming, Admitting, Unowned, Goto, slots, peers
<1>6. \A v \in Workers : Claimed(v)'
  BY <1>1, <1>2 DEF Held, Claimed, Admitting, Checking, Goto, slots, peers
<1>7. \A v \in Workers : LoggingIn(v)'
  BY <1>1, <1>2 DEF Held, LoggingIn, Checking, Goto, slots, peers
<1>8. \A v \in Workers : Departing(v)'
  BY <1>1, <1>2 DEF Held, Departing, Leaving, Unowned, Goto, slots, peers
<1>9. \A d \in Clients : OneReceive(d)'
  <2>1. /\ Quiet(serving[w])
        /\ \A v \in Workers \ {w} : serving[v] = serving[w] => pc[v] \notin Receiving
    BY <1>1 DEF Held, Alone, Opening, Admitting, Receiving
  <2>2. pc'[w] = "repost" /\ \A v \in Workers \ {w} : pc'[v] = pc[v]
    BY <1>1 DEF TypeOK, Goto
  <2>3. \A d \in {serving[w]} : OneReceive(d)'
    <3>1. recvs'[serving[w]] \in {0, 1} /\ arrived'[serving[w]] = 0
      BY <1>1, <1>2, <2>1 DEF TypeOK, Quiet
    <3>2. \A v \in Workers : serving'[v] = serving[w] => pc'[v] \notin Receiving
      BY <1>1, <2>1, <2>2 DEF Goto, Receiving
    <3> QED
      BY <1>1, <3>1, <3>2 DEF OneReceive, Goto
  <2>4. \A d \in Clients \ {serving[w]} : OneReceive(d)'
    <3>1. \A d \in Clients \ {serving[w]} : recvs'[d] = recvs[d] /\ arrived'[d] = arrived[d]
      BY <1>1, <1>2 DEF TypeOK
    <3>2. \A v \in Workers : pc'[v] \in Receiving => v # w
      BY <2>2 DEF Receiving
    <3> QED
      BY <1>1, <2>2, <3>1, <3>2 DEF Held, OneReceive, Goto
  <2> QED
    BY <2>3, <2>4
<1>10. \A d \in Clients : NotHandled(d)'
  BY <1>1, <1>2, NoneAssumption DEF NoneAssumption, TypeOK, Held, Alone, Claimed, NotHandled,
     Claiming, Admitting, Checking, Opening, Leaving, Quiet, Goto, slots, peers
<1>11. \A d \in Clients : ClientOK(d)'
  BY <1>1, <1>2, NoneAssumption DEF NoneAssumption, TypeOK, Held, ClientOK, Quiet, Unowned,
     Goto, slots, peers
<1>12. \A d \in Clients : LoggedHasSlot(d)'
  BY <1>1, <1>2 DEF Held, LoggedHasSlot, Goto, slots, peers
<1>13. \A t \in Slots : Owned(t)'
  BY <1>1, <1>2 DEF Held, Owned, Goto, slots, peers
<1>14. \A t \in Slots : Watched(t)'
  BY <1>1, <1>2 DEF TypeOK, Held, Watched, Receiving, Leaving, Goto, slots, peers
<1>15. OneAccept'
  BY <1>1, <1>2 DEF Held, OneAccept, Claiming, Admitting, Accepting, Unaccepted, Goto, slots,
     peers
<1>16. /\ \A t \in Slots : Played(t)'
       /\ LoggedOnce'
  BY DEF Held, Played, LoggedOnce, FirstRecv, Goto, PostRecv, MayFail, slots, peers
<1> QED
  BY <1>3, <1>4, <1>5, <1>6, <1>7, <1>8, <1>9, <1>10, <1>11, <1>12, <1>13, <1>14, <1>15, <1>16
     DEF Held

LEMMA RepostStep ==
    ASSUME Safe, NEW w \in Workers, Repost(w)
    PROVE  Held'
<1> USE DEF Safe
<1>0. /\ pc[w] = "repost"
      /\ \/ accepting' = TRUE /\ Finish(w, "idle")
         \/ UNCHANGED accepting /\ Finish(w, "dead")
      /\ UNCHANGED <<slots, connected, io, peers, strikes, history>>
  BY DEF Repost, Idle
<1>1. \A v \in Workers : WorkerOK(v)'
  BY <1>0 DEF TypeOK, Held, WorkerOK, Finish, slots, io, peers, history
<1>2. \A v \in Workers : Alone(v)'
  BY <1>0 DEF TypeOK, Held, WorkerOK, Alone, Finish, slots, io, peers, history, Claiming,
     Admitting, Checking, Opening, Quiet
<1>3. \A v \in Workers : Arriving(v)'
  BY <1>0 DEF TypeOK, Held, Arriving, Finish, slots, io, peers, history, Claiming, Admitting, Unowned
<1>4. \A v \in Workers : Claimed(v)'
  BY <1>0 DEF TypeOK, Held, Claimed, Finish, slots, io, peers, history, Admitting, Checking
<1>5. \A v \in Workers : LoggingIn(v)'
  BY <1>0 DEF TypeOK, Held, LoggingIn, Finish, slots, io, peers, history, Checking
<1>6. \A v \in Workers : Departing(v)'
  BY <1>0 DEF TypeOK, Held, Departing, Finish, slots, io, peers, history, Leaving, Unowned
<1>7. \A d \in Clients : OneReceive(d)'
  <2>1. \A v \in Workers : pc'[v] \in Receiving => pc[v] \in Receiving /\ serving'[v] = serving[v]
    BY <1>0 DEF TypeOK, Finish, Receiving
  <2> QED
    BY <1>0, <2>1 DEF Held, OneReceive, io
<1>8. \A d \in Clients : NotHandled(d)'
  BY <1>0 DEF TypeOK, Held, NotHandled, Finish, slots, io, peers, history, Leaving
<1>9. \A d \in Clients : LoggedHasSlot(d)'
  BY <1>0 DEF TypeOK, Held, LoggedHasSlot, Finish, slots, io, peers, history
<1>10. \A t \in Slots : Owned(t)'
  BY <1>0 DEF TypeOK, Held, Owned, Finish, slots, io, peers, history
<1>11. \A t \in Slots : Watched(t)'
  BY <1>0 DEF TypeOK, Held, Watched, Finish, slots, io, peers, history, Receiving, Leaving
<1>12. OneAccept'
  BY <1>0 DEF TypeOK, Held, OneAccept, Finish, slots, io, peers, history, Claiming, Admitting,
     Accepting, Unaccepted
<1>13. /\ \A d \in Clients : ClientOK(d)'
       /\ \A t \in Slots : Played(t)'
       /\ LoggedOnce'
  BY <1>0 DEF TypeOK, Held, ClientOK, Played, LoggedOnce, Finish, slots, io, peers, history, Quiet,
     Unowned
<1> QED
  BY <1>1, <1>2, <1>3, <1>4, <1>5, <1>6, <1>7, <1>8, <1>9, <1>10, <1>11, <1>12, <1>13 DEF Held

-----------------------------------------------------------------------------
(* Packets. *)

LEMMA TakeDataStep ==
    ASSUME Safe, NEW w \in Workers, NEW c \in Clients, TakeData(w, c)
    PROVE  Held'
<1> USE DEF Safe
<1>1. \A v \in Workers : serving[v] = c => pc[v] \notin Opening \cup Receiving
  BY DEF TypeOK, Held, Alone, OneReceive, TakeData, Quiet
<1>2. ASSUME c \in fresh
      PROVE  /\ Quiet(c)'
             /\ \A v \in Workers : serving[v] = c => pc[v] \in {"repost", "strike"}
  <2>1. arrived[c] = 1 /\ recvs[c] = 0 /\ sends[c] = 0 /\ failed[c] = 0
    <3>1. OneReceive(c) /\ NotHandled(c) /\ arrived[c] > 0
      BY DEF Held, TakeData
    <3>2. {recvs[c], arrived[c]} \subseteq Nat
      BY DEF TypeOK
    <3>3. recvs[c] + arrived[c] <= 1 /\ recvs[c] + arrived[c] > 0
      BY <3>1, <3>2 DEF OneReceive
    <3> QED
      BY <1>2, <3>1, <3>2, <3>3 DEF NotHandled
  <2>2. \A v \in Workers : serving[v] = c => pc[v] \notin Leaving
    BY <1>2, <2>1 DEF Held, NotHandled
  <2>3. \A v \in Workers : serving[v] = c => pc[v] \notin {"dead", "idle"}
    BY NoneAssumption DEF NoneAssumption, Held, WorkerOK
  <2> QED
    BY <1>1, <2>1, <2>2, <2>3 DEF TypeOK, Labels, Opening, Claiming, Admitting, Checking,
       Receiving, Leaving, TakeData, Quiet
<1>3. \A v \in Workers : WorkerOK(v)'
  BY NoneAssumption DEF NoneAssumption, TypeOK, Held, WorkerOK, ClientOK, TakeData, Begin,
     slots, history, Quiet, Unowned
<1>4. \A v \in Workers : Alone(v)'
  BY <1>1, <1>2 DEF TypeOK, Held, Alone, TakeData, Begin, slots, history, Claiming, Admitting,
     Checking, Opening, Quiet
<1>5. \A v \in Workers : Arriving(v)'
  BY DEF Held, Arriving, OneReceive, TakeData, Begin, slots, history, Claiming, Admitting,
     Receiving, Unowned
<1>6. \A v \in Workers : Claimed(v)'
  BY <1>1, <1>2, NoneAssumption DEF NoneAssumption, TypeOK, Held, Claimed, NotHandled, Owned,
     TakeData, Begin, slots, history, Admitting, Checking, Leaving
<1>7. \A v \in Workers : LoggingIn(v)'
  BY <1>1, <1>2 DEF TypeOK, Held, LoggingIn, NotHandled, TakeData, Begin, slots, history,
     Checking, Leaving
<1>8. \A v \in Workers : Departing(v)'
  BY DEF Held, Departing, TakeData, Begin, slots, history, Leaving, Unowned
<1>9. \A d \in Clients : OneReceive(d)'
  <2>1. arrived[c] = 1 /\ recvs[c] = 0
    <3>1. {recvs[c], arrived[c]} \subseteq Nat /\ arrived[c] > 0 /\ OneReceive(c)
      BY DEF TypeOK, Held, TakeData
    <3> QED
      BY <3>1 DEF OneReceive
  <2>2. /\ arrived' = [arrived EXCEPT ![c] = @ - 1] /\ UNCHANGED recvs
        /\ \A v \in Workers \ {w} : pc'[v] = pc[v] /\ serving'[v] = serving[v]
        /\ serving'[w] = c
    BY DEF TypeOK, TakeData, Begin
  <2>3. OneReceive(c)'
    BY <1>1, <2>1, <2>2 DEF TypeOK, OneReceive
  <2>4. \A d \in Clients \ {c} : OneReceive(d)'
    <3>1. \A d \in Clients \ {c} : arrived'[d] = arrived[d] /\ recvs'[d] = recvs[d]
      BY <2>2 DEF TypeOK
    <3>2. \A v \in Workers : serving'[v] # c => v # w
      BY <2>2
    <3> QED
      BY <2>2, <3>1, <3>2 DEF Held, OneReceive
  <2> QED
    BY <2>3, <2>4
<1>10. \A d \in Clients : NotHandled(d)'
  BY DEF Held, NotHandled, TakeData, Begin, slots, history, Leaving
<1>11. \A d \in Clients : ClientOK(d)'
  BY DEF Held, ClientOK, TakeData, Begin, slots, history, Quiet, Unowned
<1>12. \A d \in Clients : LoggedHasSlot(d)'
  BY DEF Held, LoggedHasSlot, TakeData, Begin, slots, history
<1>13. \A t \in Slots : Owned(t)'
  BY DEF Held, Owned, TakeData, Begin, slots, history
<1>14. \A t \in Slots : Watched(t)'
  BY DEF TypeOK, Held, Watched, TakeData, Begin, slots, history, Receiving, Leaving
<1>15. OneAccept'
  BY DEF Held, OneAccept, TakeData, Begin, slots, history, Claiming, Admitting, Accepting,
     Unaccepted
<1>16. /\ \A t \in Slots : Played(t)'
       /\ LoggedOnce'
  BY DEF Held, Played, LoggedOnce, TakeData, Begin, slots, history
<1> QED
  BY <1>3, <1>4, <1>5, <1>6, <1>7, <1>8, <1>9, <1>10, <1>11, <1>12, <1>13, <1>14, <1>15, <1>16
     DEF Held

LEMMA LoginGmStep ==
    ASSUME Safe, NEW w \in Workers, LoginGm(w)
    PROVE  Held'
<1> USE DEF Safe
<1>1. \A v \in Workers : WorkerOK(v)'
  BY DEF Held, WorkerOK, LoginGm, Goto, Cross, io, peers
<1>2. \A v \in Workers : Alone(v)'
  BY DEF Held, Alone, LoginGm, Goto, Cross, io, peers, Claiming, Admitting, Checking, Opening,
     Quiet
<1>3. \A v \in Workers : Arriving(v)'
  BY DEF Held, Arriving, LoginGm, Goto, Cross, io, peers, Claiming, Admitting, Unowned
<1>4. \A v \in Workers : Claimed(v)'
  BY DEF Held, Claimed, LoginGm, Goto, Cross, io, peers, Admitting, Checking
<1>5. \A v \in Workers : LoggingIn(v)'
  BY DEF TypeOK, Held, Claimed, LoggingIn, LoginGm, Goto, Cross, io, peers, Admitting, Checking
<1>6. \A v \in Workers : Departing(v)'
  BY DEF Held, Departing, LoginGm, Goto, Cross, io, peers, Leaving, Unowned
<1>7. \A d \in Clients : OneReceive(d)'
  BY DEF Held, OneReceive, LoginGm, Goto, Cross, io, peers, Receiving
<1>8. \A d \in Clients : NotHandled(d)'
  BY DEF Held, NotHandled, LoginGm, Goto, Cross, io, peers, Leaving
<1>9. \A d \in Clients : LoggedHasSlot(d)'
  BY DEF Held, Claimed, LoggedHasSlot, LoginGm, Goto, Cross, io, peers, Admitting, Checking
<1>10. \A t \in Slots : Owned(t)'
  BY DEF Held, Owned, LoginGm, Goto, Cross, io, peers
<1>11. \A t \in Slots : Watched(t)'
  BY DEF Held, Watched, LoginGm, Goto, Cross, io, peers, Receiving, Leaving
<1>12. \A t \in Slots : Played(t)'
  BY DEF TypeOK, Held, Played, LoginGm, Goto, Cross, io, peers
<1>13. OneAccept'
  BY DEF Held, OneAccept, LoginGm, Goto, Cross, io, peers, Claiming, Admitting, Accepting,
     Unaccepted
<1>14. /\ \A d \in Clients : ClientOK(d)'
       /\ LoggedOnce'
  BY DEF Held, ClientOK, LoggedOnce, LoginGm, Goto, Cross, io, peers, Quiet, Unowned
<1> QED
  BY <1>1, <1>2, <1>3, <1>4, <1>5, <1>6, <1>7, <1>8, <1>9, <1>10, <1>11, <1>12, <1>13, <1>14 DEF
     Held

LEMMA LoginConnectsStep ==
    ASSUME Safe, NEW w \in Workers, LoginConnects(w)
    PROVE  Held'
<1> USE DEF Safe
<1>1. \A v \in Workers : WorkerOK(v)'
  BY DEF Held, WorkerOK, LoginConnects, Goto, slots, io, peers
<1>2. \A v \in Workers : Alone(v)'
  BY DEF Held, Alone, LoginConnects, Goto, slots, io, peers, Claiming, Admitting, Checking,
     Opening, Quiet
<1>3. \A v \in Workers : Arriving(v)'
  BY DEF Held, Arriving, LoginConnects, Goto, slots, io, peers, Claiming, Admitting, Unowned
<1>4. \A v \in Workers : Claimed(v)'
  BY DEF Held, Claimed, LoginConnects, Goto, slots, io, peers, Admitting, Checking
<1>5. \A v \in Workers : LoggingIn(v)'
  BY DEF TypeOK, Held, Alone, LoggingIn, LoginConnects, Goto, slots, io, peers, Claiming,
     Admitting, Checking, Opening, Quiet
<1>6. \A v \in Workers : Departing(v)'
  BY DEF Held, Alone, Departing, LoginConnects, Goto, slots, io, peers, Claiming, Admitting,
     Checking, Opening, Leaving, Quiet, Unowned
<1>7. \A d \in Clients : OneReceive(d)'
  BY DEF Held, OneReceive, LoginConnects, Goto, slots, io, peers, Receiving
<1>8. \A d \in Clients : NotHandled(d)'
  BY DEF Held, LoggingIn, NotHandled, LoginConnects, Goto, slots, io, peers, Checking, Leaving
<1>9. \A d \in Clients : LoggedHasSlot(d)'
  <2>1. /\ pc[w] = "login" /\ serving[w] \in Clients /\ Goto(w, "fill")
        /\ acct[serving[w]] \notin Gm \cup connected
        /\ connected' = connected \cup {acct[serving[w]]} /\ logged' = logged \cup {serving[w]}
        /\ UNCHANGED <<slots, acct, owner, orphaned>>
    BY DEF TypeOK, Held, WorkerOK, LoginConnects, peers
  <2>2. orphaned \subseteq connected
    BY DEF Held, LoggedOnce
  <2>3. owner[slot[w]] = serving[w] /\ slot[w] \in Slots /\ acct[serving[w]] \in Accounts
    BY <2>1 DEF TypeOK, Held, Claimed, Checking
  <2>4. \A d \in {serving[w]} : LoggedHasSlot(d)'
    BY <2>1, <2>2, <2>3 DEF TypeOK, LoggedHasSlot, Goto
  <2>5. \A d \in Clients \ {serving[w]} : LoggedHasSlot(d)'
    BY <2>1 DEF TypeOK, Held, LoggedHasSlot, Goto, slots
  <2> QED
    BY <2>4, <2>5
<1>10. \A t \in Slots : Owned(t)'
  BY DEF Held, Owned, LoginConnects, Goto, slots, io, peers
<1>11. \A t \in Slots : Watched(t)'
  BY DEF Held, Watched, LoginConnects, Goto, slots, io, peers, Receiving, Leaving
<1>12. \A t \in Slots : Played(t)'
  BY DEF Held, Played, LoginConnects, Goto, slots, io, peers
<1>13. OneAccept'
  BY DEF Held, OneAccept, LoginConnects, Goto, slots, io, peers, Claiming, Admitting, Accepting,
     Unaccepted
<1>14. LoggedOnce'
  BY DEF TypeOK, Held, LoggedHasSlot, LoggedOnce, LoginConnects, Goto, slots, io, peers
<1>15. \A d \in Clients : ClientOK(d)'
  BY DEF Held, ClientOK, LoginConnects, Goto, slots, io, peers, Quiet, Unowned
<1> QED
  BY <1>1, <1>2, <1>3, <1>4, <1>5, <1>6, <1>7, <1>8, <1>9, <1>10, <1>11, <1>12, <1>13, <1>14,
     <1>15 DEF Held

LEMMA LoginRefusedStep ==
    ASSUME Safe, NEW w \in Workers, LoginRefused(w)
    PROVE  Held'
<1> USE DEF Safe
<1>1. \A v \in Workers : WorkerOK(v)'
  BY DEF Held, WorkerOK, LoginRefused, Goto, PostSend, MayFail, slots, peers, history
<1>2. \A v \in Workers : Alone(v)'
  BY DEF TypeOK, Held, WorkerOK, Alone, Claimed, LoginRefused, Goto, PostSend, MayFail, slots,
     peers, history, Claiming, Admitting, Checking, Opening, Quiet
<1>3. \A v \in Workers : Arriving(v)'
  BY DEF Held, Arriving, LoginRefused, Goto, PostSend, MayFail, slots, peers, history, Claiming,
     Admitting, Unowned
<1>4. \A v \in Workers : Claimed(v)'
  BY DEF Held, Claimed, LoginRefused, Goto, PostSend, MayFail, slots, peers, history, Admitting,
     Checking
<1>5. \A v \in Workers : LoggingIn(v)'
  BY DEF Held, LoggingIn, LoginRefused, Goto, PostSend, MayFail, slots, peers, history, Checking
<1>6. \A v \in Workers : Departing(v)'
  BY DEF Held, Departing, LoginRefused, Goto, PostSend, MayFail, slots, peers, history, Leaving,
     Unowned
<1>7. \A d \in Clients : OneReceive(d)'
  BY DEF Held, OneReceive, LoginRefused, Goto, PostSend, MayFail, slots, peers, history,
     Receiving
<1>8. \A d \in Clients : NotHandled(d)'
  BY DEF TypeOK, Held, Claimed, LoggingIn, NotHandled, LoginRefused, Goto, PostSend, MayFail,
     slots, peers, history, Admitting, Checking, Leaving
<1>9. \A d \in Clients : ClientOK(d)'
  BY NoneAssumption DEF NoneAssumption, TypeOK, Held, Claimed, NotHandled, ClientOK, Played,
     LoginRefused, Goto, PostSend, MayFail, slots, peers, history, Admitting, Checking, Leaving,
     Quiet, Unowned
<1>10. \A d \in Clients : LoggedHasSlot(d)'
  BY DEF Held, LoggedHasSlot, LoginRefused, Goto, PostSend, MayFail, slots, peers, history
<1>11. \A t \in Slots : Owned(t)'
  BY DEF Held, Owned, LoginRefused, Goto, PostSend, MayFail, slots, peers, history
<1>12. \A t \in Slots : Watched(t)'
  BY DEF Held, Watched, LoginRefused, Goto, PostSend, MayFail, slots, peers, history, Receiving,
     Leaving
<1>13. OneAccept'
  BY DEF Held, OneAccept, LoginRefused, Goto, PostSend, MayFail, slots, peers, history,
     Claiming, Admitting, Accepting, Unaccepted
<1>14. /\ \A t \in Slots : Played(t)'
       /\ LoggedOnce'
  BY DEF Held, Played, LoggedOnce, LoginRefused, Goto, PostSend, MayFail, slots, peers, history
<1> QED
  BY <1>1, <1>2, <1>3, <1>4, <1>5, <1>6, <1>7, <1>8, <1>9, <1>10, <1>11, <1>12, <1>13, <1>14 DEF
     Held

LEMMA FillStep ==
    ASSUME Safe, NEW w \in Workers, Fill(w)
    PROVE  Held'
<1> USE DEF Safe
<1>1. \A v \in Workers : WorkerOK(v)'
  BY DEF Held, WorkerOK, Fill, Goto, Cross, io, peers
<1>2. \A v \in Workers : Alone(v)'
  BY DEF Held, Alone, Fill, Goto, Cross, io, peers, Claiming, Admitting, Checking, Opening,
     Quiet
<1>3. \A v \in Workers : Arriving(v)'
  BY DEF Held, Arriving, Fill, Goto, Cross, io, peers, Claiming, Admitting, Unowned
<1>4. \A v \in Workers : Claimed(v)'
  BY DEF Held, Claimed, Fill, Goto, Cross, io, peers, Admitting, Checking
<1>5. \A v \in Workers : LoggingIn(v)'
  BY DEF TypeOK, Held, Claimed, LoggingIn, Fill, Goto, Cross, io, peers, Admitting, Checking
<1>6. \A v \in Workers : Departing(v)'
  BY DEF Held, Departing, Fill, Goto, Cross, io, peers, Leaving, Unowned
<1>7. \A d \in Clients : OneReceive(d)'
  BY DEF Held, OneReceive, Fill, Goto, Cross, io, peers, Receiving
<1>8. \A d \in Clients : NotHandled(d)'
  BY DEF Held, NotHandled, Fill, Goto, Cross, io, peers, Leaving
<1>9. \A d \in Clients : LoggedHasSlot(d)'
  BY DEF TypeOK, Held, Claimed, LoggedHasSlot, Fill, Goto, Cross, io, peers, Admitting, Checking
<1>10. \A t \in Slots : Owned(t)'
  BY DEF Held, Owned, Fill, Goto, Cross, io, peers
<1>11. \A t \in Slots : Watched(t)'
  BY DEF Held, Watched, Fill, Goto, Cross, io, peers, Receiving, Leaving
<1>12. \A t \in Slots : Played(t)'
  BY DEF Held, Claimed, LoggingIn, Played, Fill, Goto, Cross, io, peers, Admitting, Checking
<1>13. OneAccept'
  BY DEF Held, OneAccept, Fill, Goto, Cross, io, peers, Claiming, Admitting, Accepting,
     Unaccepted
<1>14. /\ \A d \in Clients : ClientOK(d)'
       /\ LoggedOnce'
  BY DEF Held, ClientOK, LoggedOnce, Fill, Goto, Cross, io, peers, Quiet, Unowned
<1> QED
  BY <1>1, <1>2, <1>3, <1>4, <1>5, <1>6, <1>7, <1>8, <1>9, <1>10, <1>11, <1>12, <1>13, <1>14 DEF
     Held

LEMMA EnterStep ==
    ASSUME Safe, NEW w \in Workers, Enter(w)
    PROVE  Held'
<1> USE DEF Safe
<1>1. \A v \in Workers : WorkerOK(v)'
  BY DEF Held, WorkerOK, Enter, Goto, PostSend, MayFail, Cross, peers
<1>2. \A v \in Workers : Alone(v)'
  BY DEF TypeOK, Held, WorkerOK, Alone, Claimed, Enter, Goto, PostSend, MayFail, Cross, peers,
     Claiming, Admitting, Checking, Opening, Quiet
<1>3. \A v \in Workers : Arriving(v)'
  BY DEF Held, Arriving, Enter, Goto, PostSend, MayFail, Cross, peers, Claiming, Admitting,
     Unowned
<1>4. \A v \in Workers : Claimed(v)'
  BY NoneAssumption DEF NoneAssumption, TypeOK, Held, Alone, Claimed, Enter, Goto, PostSend,
     MayFail, Cross, peers, Claiming, Admitting, Checking, Opening, Quiet
<1>5. \A v \in Workers : LoggingIn(v)'
  BY DEF Held, LoggingIn, Enter, Goto, PostSend, MayFail, Cross, peers, Checking
<1>6. \A v \in Workers : Departing(v)'
  BY DEF Held, Departing, Enter, Goto, PostSend, MayFail, Cross, peers, Leaving, Unowned
<1>7. \A d \in Clients : OneReceive(d)'
  BY DEF Held, OneReceive, Enter, Goto, PostSend, MayFail, Cross, peers, Receiving
<1>8. \A d \in Clients : NotHandled(d)'
  BY DEF TypeOK, Held, Claimed, LoggingIn, NotHandled, Enter, Goto, PostSend, MayFail, Cross,
     peers, Admitting, Checking, Leaving
<1>9. \A d \in Clients : ClientOK(d)'
  BY NoneAssumption DEF NoneAssumption, TypeOK, Held, Claimed, LoggingIn, ClientOK, Enter, Goto,
     PostSend, MayFail, Cross, peers, Admitting, Checking, Quiet, Unowned
<1>10. \A d \in Clients : LoggedHasSlot(d)'
  BY DEF Held, LoggedHasSlot, Enter, Goto, PostSend, MayFail, Cross, peers
<1>11. \A t \in Slots : Owned(t)'
  BY DEF TypeOK, Held, Owned, Enter, Goto, PostSend, MayFail, Cross, peers
<1>12. \A t \in Slots : Watched(t)'
  BY DEF Held, Watched, Enter, Goto, PostSend, MayFail, Cross, peers, Receiving, Leaving
<1>13. \A t \in Slots : Played(t)'
  BY DEF TypeOK, Held, LoggingIn, Played, Enter, Goto, PostSend, MayFail, Cross, peers, Checking
<1>14. OneAccept'
  BY DEF Held, OneAccept, Enter, Goto, PostSend, MayFail, Cross, peers, Claiming, Admitting,
     Accepting, Unaccepted
<1>15. LoggedOnce'
  BY DEF Held, LoggedOnce, Enter, Goto, PostSend, MayFail, Cross, peers
<1> QED
  BY <1>1, <1>2, <1>3, <1>4, <1>5, <1>6, <1>7, <1>8, <1>9, <1>10, <1>11, <1>12, <1>13, <1>14,
     <1>15 DEF Held

LEMMA RecvAgainStep ==
    ASSUME Safe, NEW w \in Workers, RecvAgain(w)
    PROVE  Held'
<1> USE DEF Safe
<1>1. /\ serving[w] \in Clients /\ pc[w] = "recv" /\ Idle(w)
      /\ key[serving[w]] = slot[w] /\ serving[w] \notin fresh
      /\ UNCHANGED <<slots, connected, accepting, open, key, sends, arrived, failed>>
      /\ UNCHANGED <<peers, strikes, owner, logged, orphaned>>
  BY DEF RecvAgain, TypeOK, Held, WorkerOK, LoggingIn
<1>2. LET c == serving[w] IN
      \/ /\ sock[slot[w]] = c /\ c \in open /\ recvs' = [recvs EXCEPT ![c] = @ + 1]
         /\ UNCHANGED unnoticed
      \/ /\ UNCHANGED recvs
         /\ unnoticed' = unnoticed \cup ({sock[slot[w]]} \cap open)
  BY DEF RecvAgain, PostRecv, Cross
<1>3. \A v \in Workers : WorkerOK(v)'
  BY <1>1, <1>2 DEF TypeOK, Held, WorkerOK, Idle, Finish, slots, peers
<1>4. \A v \in Workers : Alone(v)'
  BY <1>1, <1>2 DEF TypeOK, Held, WorkerOK, Alone, Claiming, Admitting, Checking, Opening,
     Quiet, Idle, Finish, slots, peers
<1>5. \A v \in Workers : Arriving(v)'
  BY <1>1, <1>2 DEF Held, Arriving, Claiming, Admitting, Unowned, Idle, Finish, slots, peers
<1>6. \A v \in Workers : Claimed(v)'
  BY <1>1, <1>2 DEF Held, Claimed, Admitting, Checking, Idle, Finish, slots, peers
<1>7. \A v \in Workers : LoggingIn(v)'
  BY <1>1, <1>2 DEF TypeOK, Held, LoggingIn, Checking, Idle, Finish, slots, peers
<1>8. \A v \in Workers : Departing(v)'
  BY <1>1, <1>2 DEF Held, Departing, Leaving, Unowned, Idle, Finish, slots, peers
<1>9. \A d \in Clients : OneReceive(d)'
  <2>1. serving'[w] = None /\ pc'[w] = "idle" /\ UNCHANGED arrived
    BY <1>1 DEF TypeOK, Idle, Finish
  <2>2. \A v \in Workers \ {w} : pc'[v] = pc[v] /\ serving'[v] = serving[v]
    BY <1>1 DEF TypeOK, Idle, Finish
  <2>3. \A d \in {serving[w]} : OneReceive(d)'
    <3>1. /\ recvs[serving[w]] = 0 /\ arrived[serving[w]] = 0
          /\ \A v \in Workers \ {w} : serving[v] = serving[w] => pc[v] \notin Receiving
      BY <1>1 DEF Held, OneReceive, Receiving
    <3>2. recvs'[serving[w]] \in {0, 1} /\ arrived'[serving[w]] = 0
      BY <1>1, <1>2, <2>1, <3>1 DEF TypeOK
    <3>3. \A v \in Workers : serving'[v] = serving[w] => pc'[v] \notin Receiving
      BY <2>1, <2>2, <3>1 DEF Receiving
    <3> QED
      BY <1>1, <2>1, <2>2, <3>2, <3>3, NoneAssumption DEF NoneAssumption, OneReceive
  <2>4. \A d \in Clients \ {serving[w]} : OneReceive(d)'
    <3>1. \A d \in Clients \ {serving[w]} : recvs'[d] = recvs[d] /\ arrived'[d] = arrived[d]
      BY <1>1, <1>2, <2>1 DEF TypeOK
    <3>2. \A v \in Workers : pc'[v] \in Receiving => v # w
      BY <2>1 DEF Receiving
    <3> QED
      BY <2>2, <3>1, <3>2 DEF Held, OneReceive
  <2> QED
    BY <2>3, <2>4
<1>10. \A d \in Clients : NotHandled(d)'
  BY <1>1, <1>2 DEF TypeOK, Held, NotHandled, Leaving, Idle, Finish, slots, peers
<1>11. \A d \in Clients : ClientOK(d)'
  BY <1>1, <1>2 DEF TypeOK, Held, ClientOK, Quiet, Unowned, Idle, Finish, slots, peers
<1>12. \A d \in Clients : LoggedHasSlot(d)'
  BY <1>1, <1>2 DEF TypeOK, Held, LoggedHasSlot, Idle, Finish, slots, peers
<1>13. \A t \in Slots : Owned(t)'
  BY <1>1, <1>2 DEF Held, Owned, Idle, Finish, slots, peers
<1>14. \A t \in Slots : Watched(t)'
  BY <1>1, <1>2 DEF TypeOK, Held, Owned, Watched, Receiving, Leaving, Idle, Finish, slots, peers
<1>15. OneAccept'
  BY <1>1, <1>2 DEF Held, OneAccept, Claiming, Admitting, Accepting, Unaccepted, Idle, Finish, slots,
     peers
<1>16. /\ \A t \in Slots : Played(t)'
       /\ LoggedOnce'
  BY DEF Held, Played, LoggedOnce, RecvAgain, Idle, Finish, PostRecv, MayFail, Cross, slots, peers
<1> QED
  BY <1>3, <1>4, <1>5, <1>6, <1>7, <1>8, <1>9, <1>10, <1>11, <1>12, <1>13, <1>14, <1>15, <1>16
     DEF Held

-----------------------------------------------------------------------------
(* Disconnecting. *)

LEMMA TakeFailedStep ==
    ASSUME Safe, NEW w \in Workers, NEW c \in Clients, TakeFailed(w, c)
    PROVE  Held'
<1> USE DEF Safe
<1>1. \A v \in Workers : WorkerOK(v)'
  BY NoneAssumption DEF NoneAssumption, TypeOK, Held, WorkerOK, ClientOK, TakeFailed, Begin,
     slots, peers, history, Quiet, Unowned
<1>2. \A v \in Workers : Alone(v)'
  BY DEF Held, Alone, TakeFailed, Begin, slots, peers, history, Claiming, Admitting, Checking,
     Opening, Quiet
<1>3. \A v \in Workers : Arriving(v)'
  BY DEF Held, Arriving, TakeFailed, Begin, slots, peers, history, Claiming, Admitting, Unowned
<1>4. \A v \in Workers : Claimed(v)'
  BY DEF Held, Claimed, TakeFailed, Begin, slots, peers, history, Admitting, Checking
<1>5. \A v \in Workers : LoggingIn(v)'
  BY DEF Held, LoggingIn, TakeFailed, Begin, slots, peers, history, Checking
<1>6. \A v \in Workers : Departing(v)'
  BY NoneAssumption DEF NoneAssumption, TypeOK, Held, Departing, ClientOK, TakeFailed, Begin,
     slots, peers, history, Leaving, Quiet, Unowned
<1>7. \A d \in Clients : OneReceive(d)'
  BY DEF Held, OneReceive, TakeFailed, Begin, slots, peers, history, Receiving
<1>8. \A d \in Clients : NotHandled(d)'
  BY DEF TypeOK, Held, NotHandled, TakeFailed, Begin, slots, peers, history, Leaving
<1>9. \A d \in Clients : ClientOK(d)'
  BY DEF Held, ClientOK, TakeFailed, Begin, slots, peers, history, Quiet, Unowned
<1>10. \A d \in Clients : LoggedHasSlot(d)'
  BY DEF Held, LoggedHasSlot, TakeFailed, Begin, slots, peers, history
<1>11. \A t \in Slots : Owned(t)'
  BY DEF Held, Owned, TakeFailed, Begin, slots, peers, history
<1>12. \A t \in Slots : Watched(t)'
  BY DEF TypeOK, Held, Watched, TakeFailed, Begin, slots, peers, history, Receiving, Leaving
<1>13. OneAccept'
  BY DEF Held, OneAccept, TakeFailed, Begin, slots, peers, history, Claiming, Admitting,
     Accepting, Unaccepted
<1>14. /\ \A t \in Slots : Played(t)'
       /\ LoggedOnce'
  BY DEF Held, Played, LoggedOnce, TakeFailed, Begin, slots, peers, history
<1> QED
  BY <1>1, <1>2, <1>3, <1>4, <1>5, <1>6, <1>7, <1>8, <1>9, <1>10, <1>11, <1>12, <1>13, <1>14 DEF
     Held

LEMMA ByeStep ==
    ASSUME Safe, NEW w \in Workers, Bye(w)
    PROVE  Held'
<1> USE DEF Safe
<1>1. /\ serving[w] \in Clients /\ pc[w] = "bye" /\ Goto(w, "free")
      /\ UNCHANGED <<slots, accepting, io, peers, strikes, owner, unnoticed>>
  BY DEF Bye, TypeOK, Held, WorkerOK
<1>2. LET c == serving[w] IN
      \/ /\ c \notin logged /\ UNCHANGED logged
         /\ \/ UNCHANGED <<connected, orphaned>>
            \/ \E a \in orphaned : /\ connected' = connected \ {a}
                                   /\ orphaned' = orphaned \ {a}
      \/ /\ c \in logged /\ logged' = logged \ {c}
         /\ \/ connected' = connected \ {acct[c]} /\ UNCHANGED orphaned
            \/ UNCHANGED connected /\ orphaned' = orphaned \cup {acct[c]}
  <2>1. CASE serving[w] \in logged
    <3>1. key[serving[w]] = slot[w]
      BY <1>1, <2>1 DEF Held, Departing, ClientOK, NotHandled, Leaving
    <3>2. \A v \in Workers : serving[v] = serving[w] => pc[v] \notin Opening
      BY <1>1 DEF Held, Alone, Opening, Claiming, Admitting, Checking
    <3>3. PICK t \in Slots : owner[t] = serving[w] /\ name[t] = acct[serving[w]]
      BY <1>1, <2>1, <3>2 DEF Held, LoggedHasSlot, Opening, Checking
    <3>4. t = slot[w]
      BY <1>1, <3>1, <3>2, <3>3, NoneAssumption DEF NoneAssumption, Held, Owned, Opening, Admitting
    <3>5. acct[serving[w]] \notin Gm \cup orphaned
      BY <1>1, <2>1 DEF Held, LoggedHasSlot
    <3>6. logged' = logged \ {serving[w]} /\ logged \ logged' = {serving[w]}
      BY <2>1, <3>3, <3>4 DEF Bye
    <3>7. \/ connected' = connected \ {acct[serving[w]]} /\ orphaned' = orphaned \ {acct[serving[w]]}
          \/ UNCHANGED connected /\ orphaned' = orphaned \cup {acct[d] : d \in logged \ logged'}
      BY <3>3, <3>4, <3>5 DEF Bye
    <3>8. \/ connected' = connected \ {acct[serving[w]]} /\ UNCHANGED orphaned
          \/ UNCHANGED connected /\ orphaned' = orphaned \cup {acct[serving[w]]}
      BY <3>5, <3>6, <3>7
    <3> QED
      BY <2>1, <3>6, <3>8
  <2>2. CASE serving[w] \notin logged
    <3>1. UNCHANGED logged
      BY <2>2 DEF Bye
    <3>2. CASE UNCHANGED connected /\ orphaned' = orphaned \cup {acct[d] : d \in logged \ logged'}
      BY <2>2, <3>1, <3>2
    <3>3. CASE /\ connected' = connected \ ({name[slot[w]]} \ Gm)
               /\ orphaned' = orphaned \ {name[slot[w]]}
               /\ connected' # connected => name[slot[w]] \in orphaned
      <4>1. CASE name[slot[w]] \in orphaned
        <5>1. connected' = connected \ {name[slot[w]]} \/ name[slot[w]] \in Gm
          BY <3>3
        <5>2. orphaned \cap Gm = {}
          BY DEF Held, LoggedOnce
        <5> QED
          BY <2>2, <3>1, <3>3, <4>1, <5>1, <5>2
      <4>2. CASE name[slot[w]] \notin orphaned
        BY <2>2, <3>1, <3>3, <4>2
      <4> QED
        BY <4>1, <4>2
    <3> QED
      BY <2>2, <3>2, <3>3 DEF Bye, Cross
  <2> QED
    BY <2>1, <2>2
<1>3. \A v \in Workers : WorkerOK(v)'
  BY <1>1, <1>2 DEF Held, WorkerOK, Goto, slots, io, peers
<1>4. \A v \in Workers : Alone(v)'
  BY <1>1, <1>2 DEF Held, Alone, Claiming, Admitting, Checking, Opening, Quiet, Goto, slots, io,
     peers
<1>5. \A v \in Workers : Arriving(v)'
  BY <1>1, <1>2 DEF Held, Arriving, Claiming, Admitting, Unowned, Goto, slots, io, peers
<1>6. \A v \in Workers : Claimed(v)'
  BY <1>1, <1>2 DEF Held, Claimed, Admitting, Checking, Goto, slots, io, peers
<1>7. \A v \in Workers : LoggingIn(v)'
  BY <1>1, <1>2 DEF Held, Alone, LoggingIn, Claiming, Admitting, Checking, Opening, Quiet, Goto,
     slots, io, peers
<1>8. \A v \in Workers : Departing(v)'
  BY <1>1, <1>2 DEF Held, Departing, Leaving, Unowned, Goto, slots, io, peers
<1>9. \A d \in Clients : OneReceive(d)'
  BY <1>1, <1>2 DEF Held, OneReceive, Receiving, Goto, slots, io, peers
<1>10. \A d \in Clients : NotHandled(d)'
  BY <1>1, <1>2 DEF Held, NotHandled, Leaving, Goto, slots, io, peers
<1>11. \A d \in Clients : LoggedHasSlot(d)'
  <2>1. ASSUME NEW d \in Clients, d \in logged'
        PROVE  acct[d] \in connected' \ (Gm \cup orphaned')
    <3>1. d \in logged /\ acct[d] \in connected \ (Gm \cup orphaned)
      BY <1>2, <2>1 DEF Held, LoggedHasSlot
    <3>2. serving[w] \in logged => acct[d] # acct[serving[w]]
      BY <1>2, <2>1, <3>1 DEF Held, LoggedOnce
    <3> QED
      BY <1>2, <2>1, <3>1, <3>2
  <2> QED
    BY <1>1, <1>2, <2>1 DEF TypeOK, Held, LoggedHasSlot, Goto, slots, peers
<1>12. \A t \in Slots : Owned(t)'
  BY <1>1, <1>2 DEF Held, Owned, Goto, slots, io, peers
<1>13. \A t \in Slots : Watched(t)'
  BY <1>1, <1>2 DEF Held, Watched, Receiving, Leaving, Goto, slots, io, peers
<1>14. \A t \in Slots : Played(t)'
  BY <1>1, <1>2 DEF Held, Departing, Owned, Played, Leaving, Unowned, Goto, slots, io, peers
<1>15. OneAccept'
  BY <1>1, <1>2 DEF Held, OneAccept, Claiming, Admitting, Accepting, Unaccepted, Goto, slots,
     io, peers
<1>16. LoggedOnce'
  <2>1. UNCHANGED acct /\ logged' \subseteq logged /\ connected' \subseteq connected
    BY <1>1, <1>2 DEF peers
  <2>2. orphaned' \subseteq connected' \ Gm
    <3>1. serving[w] \in logged => acct[serving[w]] \in connected \ (Gm \cup orphaned)
      BY <1>1 DEF Held, LoggedHasSlot
    <3> QED
      BY <1>2, <3>1 DEF Held, LoggedOnce
  <2>3. ASSUME NEW a \in connected' \ orphaned'
        PROVE  \E d \in logged' : acct[d] = a
    <3>1. a \in connected \ orphaned
      BY <1>2, <2>3
    <3>2. PICK d \in logged : acct[d] = a
      BY <3>1 DEF Held, LoggedOnce
    <3>3. d \in logged'
      BY <1>2, <2>3, <3>1, <3>2
    <3> QED
      BY <3>2, <3>3
  <2> QED
    BY <2>1, <2>2, <2>3 DEF Held, LoggedOnce
<1>17. \A d \in Clients : ClientOK(d)'
  BY <1>1 DEF Held, ClientOK, slots, io, peers, Quiet, Unowned
<1> QED
  BY <1>3, <1>4, <1>5, <1>6, <1>7, <1>8, <1>9, <1>10, <1>11, <1>12, <1>13, <1>14, <1>15, <1>16,
     <1>17 DEF Held

LEMMA FreeStep ==
    ASSUME Safe, NEW w \in Workers, Free(w)
    PROVE  Held'
<1> USE DEF Safe
<1>1. /\ serving[w] \in Clients /\ pc[w] \in {"free", "reject"}
      /\ Goto(w, IF pc[w] = "free" THEN "close" ELSE "rejectClose")
      /\ UNCHANGED <<name, sock, connected, accepting, io, peers, strikes>>
      /\ UNCHANGED <<logged, unnoticed, orphaned>>
  BY DEF Free, TypeOK, Held, WorkerOK
<1>2. LET s == slot[w] IN
      \/ UNCHANGED <<state, owner>> /\ owner[s] = None
      \/ /\ owner[s] = serving[w]
         /\ state' = [state EXCEPT ![s] = "FREE"]
         /\ owner' = [owner EXCEPT ![s] = None]
  <2>1. CASE state[slot[w]] = "FREE"
    <3>1. owner[slot[w]] = None
      BY <2>1 DEF Held, Owned, TypeOK
    <3> QED
      BY <2>1, <3>1 DEF Free, TypeOK
  <2>2. CASE state[slot[w]] # "FREE"
    BY <2>2 DEF Free, Cross
  <2> QED
    BY <2>1, <2>2
<1>3. Unowned(serving[w])'
  <2>1. \A t \in Slots : owner[t] = serving[w] => key[serving[w]] = t
    <3>1. \A v \in Workers : pc[v] \in Opening => serving[v] # serving[w]
      BY <1>1 DEF Held, Alone, Opening, Claiming, Admitting, Checking
    <3> QED
      BY <1>1, <3>1, NoneAssumption DEF NoneAssumption, Held, Owned, Opening, Admitting
  <2>2. Unowned(serving[w]) \/ key[serving[w]] = slot[w]
    BY <1>1 DEF Held, Departing, LoggingIn, Leaving, Checking
  <2> QED
    BY <1>1, <1>2, <2>1, <2>2, NoneAssumption DEF NoneAssumption, TypeOK, Unowned, Goto
<1>4. \A v \in Workers : WorkerOK(v)'
  BY <1>1, <1>2, <1>3 DEF Held, WorkerOK, Goto, io, peers
<1>5. \A v \in Workers : Alone(v)'
  BY <1>1, <1>2, <1>3 DEF Held, Alone, Claiming, Admitting, Checking, Opening, Quiet, Goto, io,
     peers
<1>6. \A v \in Workers : Arriving(v)'
  BY <1>1, <1>2, <1>3, NoneAssumption DEF NoneAssumption, TypeOK, Held, Arriving, Claiming,
     Admitting, Unowned, Goto, io, peers
<1>7. \A v \in Workers : Claimed(v)'
  BY <1>1, <1>2, <1>3 DEF TypeOK, Held, Alone, Claimed, Claiming, Admitting, Checking, Opening,
     Quiet, Goto, io, peers
<1>8. \A v \in Workers : LoggingIn(v)'
  BY <1>1, <1>2, <1>3 DEF Held, LoggingIn, Checking, Goto, io, peers
<1>9. \A v \in Workers : Departing(v)'
  <2>1. \A d \in Clients : Unowned(d) => Unowned(d)'
    BY <1>2, NoneAssumption DEF NoneAssumption, TypeOK, Unowned
  <2>2. Departing(w)'
    BY <1>1, <1>3, <2>1 DEF TypeOK, Held, Departing, LoggingIn, Leaving, Goto, io, peers
  <2>3. \A v \in Workers \ {w} : Departing(v)'
    <3>1. \A v \in Workers \ {w} : pc'[v] = pc[v] /\ serving'[v] = serving[v] /\ slot'[v] = slot[v]
      BY <1>1 DEF TypeOK, Goto
    <3>2. \A v \in Workers : pc[v] \in Leaving \cup {"rejectClose"} => serving[v] \in Clients
      BY DEF TypeOK, Held, WorkerOK, Leaving
    <3> QED
      BY <1>1, <2>1, <3>1, <3>2 DEF Held, Departing, Leaving, io, peers
  <2> QED
    BY <2>2, <2>3
<1>10. \A d \in Clients : OneReceive(d)'
  BY <1>1, <1>2, <1>3 DEF Held, OneReceive, Receiving, Goto, io, peers
<1>11. \A d \in Clients : NotHandled(d)'
  BY <1>1, <1>2, <1>3, NoneAssumption DEF NoneAssumption, TypeOK, Held, LoggingIn, NotHandled,
     Owned, Checking, Leaving, Goto, io, peers
<1>12. \A d \in Clients : ClientOK(d)'
  BY <1>1, <1>2, <1>3, NoneAssumption DEF NoneAssumption, TypeOK, Held, ClientOK, Quiet,
     Unowned, Goto, io, peers
<1>13. \A d \in Clients : LoggedHasSlot(d)'
  BY <1>1, <1>2, <1>3 DEF TypeOK, Held, LoggingIn, Departing, LoggedHasSlot, Checking, Leaving,
     Unowned, Goto, io, peers
<1>14. \A t \in Slots : Owned(t)'
  BY <1>1, <1>2, <1>3 DEF TypeOK, Held, Owned, Goto, io, peers
<1>15. \A t \in Slots : Watched(t)'
  BY <1>1, <1>2, <1>3 DEF TypeOK, Held, Watched, Receiving, Leaving, Goto, io, peers
<1>16. \A t \in Slots : Played(t)'
  BY <1>1, <1>2, <1>3 DEF TypeOK, Held, Played, Goto, io, peers
<1>17. OneAccept'
  BY <1>1, <1>2, <1>3 DEF Held, OneAccept, Claiming, Admitting, Accepting, Unaccepted, Goto, io,
     peers
<1>18. LoggedOnce'
  BY DEF Held, LoggedOnce, Free, Goto, Cross, io, peers
<1> QED
  BY <1>4, <1>5, <1>6, <1>7, <1>8, <1>9, <1>10, <1>11, <1>12, <1>13, <1>14, <1>15, <1>16, <1>17,
     <1>18 DEF Held

LEMMA CloseStep ==
    ASSUME Safe, NEW w \in Workers, Close(w)
    PROVE  Held'
<1> USE DEF Safe
<1>1. serving[w] \in Clients /\ (pc[w] = "close" \/ pc[w] = "rejectClose")
  BY DEF Close, TypeOK, Held, WorkerOK
<1>2. LET c == serving[w] IN
      \/ UNCHANGED <<open, failed, recvs, sends>> /\ sock[slot[w]] \notin open
      \/ /\ c \in open /\ key[c] = slot[w] /\ sock[slot[w]] = c
         /\ open' = open \ {c}
         /\ failed' = [failed EXCEPT ![c] = @ + recvs[c] + sends[c]]
         /\ recvs' = [recvs EXCEPT ![c] = 0]
         /\ sends' = [sends EXCEPT ![c] = 0]
  BY <1>1 DEF Close, Cross, Held, Departing, LoggingIn, Leaving
<1>3. /\ Unowned(serving[w])
      /\ \/ pc[w] = "close" /\ Idle(w)
         \/ pc[w] = "rejectClose" /\ Goto(w, "recv")
      /\ UNCHANGED <<slots, connected, accepting, key, arrived, peers, strikes>>
      /\ UNCHANGED <<owner, logged, unnoticed, orphaned>>
  BY <1>1 DEF Close, Held, Departing
<1>4. \A v \in Workers : pc[v] \in Opening => serving[v] # serving[w]
  BY <1>1 DEF Held, Alone, Opening, Claiming, Admitting, Checking
<1>5. \A v \in Workers : WorkerOK(v)'
  BY <1>1, <1>2, <1>3, <1>4 DEF TypeOK, Held, WorkerOK, Idle, Finish, Goto, slots, peers
<1>6. \A v \in Workers : Alone(v)'
  BY <1>1, <1>2, <1>3, <1>4 DEF TypeOK, Held, WorkerOK, Alone, Claiming, Admitting, Checking,
     Opening, Quiet, Idle, Finish, Goto, slots, peers
<1>7. \A v \in Workers : Arriving(v)'
  <2>1. \A v \in Workers : pc'[v] \in Claiming \cup Admitting =>
               v # w /\ serving'[v] = serving[v] /\ pc'[v] = pc[v]
    BY <1>3 DEF Idle, Finish, Goto, TypeOK, Claiming, Admitting
  <2>2. \A d \in Clients \ {serving[w]} : d \in open => d \in open'
    BY <1>2
  <2>3. \A v \in Workers : pc'[v] \in Claiming \cup Admitting =>
           serving[v] \in Clients /\ serving[v] # serving[w]
    BY <1>4, <2>1 DEF TypeOK, Held, Arriving, Opening
  <2> QED
    BY <1>3, <2>1, <2>2, <2>3 DEF Held, Arriving, Unowned, peers
<1>8. \A v \in Workers : Claimed(v)'
  BY <1>1, <1>2, <1>3, <1>4 DEF TypeOK, Held, Claimed, Admitting, Checking, Idle, Finish, Goto, slots,
     peers
<1>9. \A v \in Workers : LoggingIn(v)'
  BY <1>1, <1>2, <1>3, <1>4 DEF TypeOK, Held, LoggingIn, Checking, Idle, Finish, Goto, slots, peers
<1>10. \A v \in Workers : Departing(v)'
  BY <1>1, <1>2, <1>3, <1>4 DEF TypeOK, Held, Departing, Leaving, Unowned, Idle, Finish, Goto, slots,
     peers
<1>11. \A d \in Clients : OneReceive(d)'
  <2>1. \A d \in Clients : recvs'[d] \in {recvs[d], 0} /\ arrived'[d] = arrived[d]
    BY <1>2, <1>3 DEF TypeOK
  <2>2. \A v \in Workers : pc'[v] \in Receiving =>
           pc[v] \in Receiving /\ serving'[v] = serving[v]
    BY <1>3 DEF TypeOK, Idle, Finish, Goto, Receiving
  <2>3. \A d \in Clients : {recvs[d], arrived[d]} \subseteq Nat
    BY DEF TypeOK
  <2> QED
    BY <2>1, <2>2, <2>3 DEF Held, OneReceive
<1>12. \A d \in Clients : NotHandled(d)'
  BY <1>1, <1>2, <1>3, <1>4 DEF TypeOK, Held, NotHandled, ClientOK, Played, Leaving, Quiet,
     Unowned, Idle, Finish, Goto, slots, peers
<1>13. \A d \in Clients : ClientOK(d)'
  BY <1>1, <1>2, <1>3, <1>4, NoneAssumption DEF NoneAssumption, TypeOK, Held, ClientOK, Quiet,
     Unowned, Idle, Finish, Goto, slots, peers
<1>14. \A d \in Clients : LoggedHasSlot(d)'
  BY <1>1, <1>2, <1>3, <1>4 DEF TypeOK, Held, LoggedHasSlot, Idle, Finish, Goto, slots, peers
<1>15. \A t \in Slots : Owned(t)'
  <2>1. \A t \in Slots : owner[t] # None => owner[t] \in open'
    BY <1>1, <1>2, <1>3 DEF Held, Owned, Unowned
  <2>2. \A v \in Workers : pc[v] \in {"assign", "register", "threw"} =>
           pc'[v] = pc[v] /\ slot'[v] = slot[v] /\ serving'[v] = serving[v]
    BY <1>3 DEF Idle, Finish, Goto, TypeOK
  <2> QED
    BY <1>3, <2>1, <2>2 DEF Held, Owned, slots
<1>16. \A t \in Slots : Watched(t)'
  <2>1. \A t \in Slots : owner[t] # None => owner[t] \in Clients \ {serving[w]}
    BY <1>3 DEF TypeOK, Unowned
  <2>2. \A d \in Clients \ {serving[w]} :
           recvs'[d] = recvs[d] /\ arrived'[d] = arrived[d] /\ failed'[d] = failed[d]
    BY <1>2, <1>3 DEF TypeOK
  <2>3. \A v \in Workers : serving[v] # serving[w] => pc'[v] = pc[v] /\ serving'[v] = serving[v]
    BY <1>3 DEF Idle, Finish, Goto, TypeOK
  <2> QED
    BY <1>3, <2>1, <2>2, <2>3 DEF Held, Watched
<1>17. OneAccept'
  <2>1. \A v \in Workers : pc'[v] \in Accepting <=> pc[v] \in Accepting
    BY <1>3 DEF TypeOK, Idle, Finish, Goto, Accepting, Claiming, Admitting
  <2>2. \A d \in Clients : Unaccepted(d)' <=> Unaccepted(d)
    <3>1. \A d \in Clients : d \in open /\ d \notin open' => key[d] # None
      BY <1>2, NoneAssumption DEF NoneAssumption, TypeOK
    <3>2. open' \subseteq open /\ UNCHANGED <<peer, key>>
      BY <1>2, <1>3 DEF peers
    <3> QED
      BY <3>1, <3>2 DEF Unaccepted
  <2> QED
    BY <1>3, <2>1, <2>2 DEF Held, OneAccept
<1>18. /\ \A t \in Slots : Played(t)'
       /\ LoggedOnce'
  BY DEF Held, Played, LoggedOnce, Close, Goto, Idle, Finish, Cross, slots, peers
<1> QED
  BY <1>5, <1>6, <1>7, <1>8, <1>9, <1>10, <1>11, <1>12, <1>13, <1>14, <1>15, <1>16, <1>17, <1>18
     DEF Held

-----------------------------------------------------------------------------
(* Other handlers and the slot of a player. *)

LEMMA SendToStep ==
    ASSUME Safe, NEW s \in Slots, SendTo(s)
    PROVE  Held'
<1> USE DEF Safe
<1>1. /\ owner[s] \in Clients \ fresh /\ sock[s] = owner[s]
      /\ key[owner[s]] = s /\ state[s] = "INGAME"
  BY NoneAssumption DEF NoneAssumption, TypeOK, Held, NotHandled, Claimed, Owned, SendTo,
     Admitting, Checking
<1>2. sends' = [sends EXCEPT ![owner[s]] = @ + 1] \/ sends' = sends
  BY <1>1 DEF SendTo, PostSend
<1>3. \A v \in Workers : pc[v] \in Opening => serving[v] # owner[s]
  BY <1>1 DEF Held, Arriving, Claimed, Opening, Claiming, Admitting, Checking
<1>4. \A v \in Workers : Alone(v)'
  <2>1. \A d \in Clients \ {owner[s]} : sends'[d] = sends[d]
    BY <1>2 DEF TypeOK
  <2>2. \A v \in Workers : pc[v] \in Opening => serving[v] \in Clients
    BY NoneAssumption DEF TypeOK, Held, WorkerOK, Opening, Claiming, Admitting, Checking
  <2> QED
    BY <1>3, <2>1, <2>2 DEF Held, Alone, SendTo, Quiet, registers
<1>5. \A d \in Clients : NotHandled(d)'
  BY <1>1, <1>2, <1>3 DEF TypeOK, Held, NotHandled, SendTo, PostSend, MayFail, slots, peers,
     registers, history, Leaving
<1>6. \A d \in Clients : ClientOK(d)'
  BY <1>1, <1>2, <1>3 DEF TypeOK, Held, ClientOK, SendTo, PostSend, MayFail, slots, peers,
     registers, history, Quiet, Unowned
<1>7. /\ \A v \in Workers : WorkerOK(v)'
      /\ \A v \in Workers : Arriving(v)'
      /\ \A v \in Workers : Claimed(v)'
      /\ \A v \in Workers : LoggingIn(v)'
      /\ \A v \in Workers : Departing(v)'
      /\ \A d \in Clients : OneReceive(d)'
      /\ \A d \in Clients : LoggedHasSlot(d)'
      /\ \A t \in Slots : Owned(t)'
      /\ \A t \in Slots : Watched(t)'
      /\ \A t \in Slots : Played(t)'
      /\ OneAccept'
      /\ LoggedOnce'
  BY DEF Held, WorkerOK, Arriving, Claimed, LoggingIn, Departing, OneReceive, LoggedHasSlot,
     Owned, Watched, Played, OneAccept, LoggedOnce, SendTo, PostSend, MayFail, slots, peers,
     registers, history, Claiming, Admitting, Checking, Receiving, Leaving, Accepting,
     Unaccepted, Unowned
<1> QED
  BY <1>4, <1>5, <1>6, <1>7 DEF Held

LEMMA NpcFindsStep ==
    ASSUME Safe, NEW w \in Workers, NEW s \in Slots, NpcFinds(w, s)
    PROVE  Held'
<1> USE DEF Safe
<1>1. \A v \in Workers : WorkerOK(v)'
  BY DEF TypeOK, Held, WorkerOK, LoggingIn, ClientOK, Owned, NpcFinds, Begin, slots, io, peers,
     history, Checking, Quiet, Unowned
<1>2. \A v \in Workers : Alone(v)'
  BY DEF TypeOK, Held, Alone, NpcFinds, Begin, slots, io, peers, history, Claiming, Admitting,
     Checking, Opening, Quiet
<1>3. \A v \in Workers : Arriving(v)'
  BY DEF Held, Arriving, NpcFinds, Begin, slots, io, peers, history, Claiming, Admitting,
     Unowned
<1>4. \A v \in Workers : Claimed(v)'
  BY DEF Held, Claimed, NpcFinds, Begin, slots, io, peers, history, Admitting, Checking
<1>5. \A v \in Workers : LoggingIn(v)'
  BY DEF Held, LoggingIn, NpcFinds, Begin, slots, io, peers, history, Checking
<1>6. \A v \in Workers : Departing(v)'
  BY DEF Held, Departing, NpcFinds, Begin, slots, io, peers, history, Leaving, Unowned
<1>7. \A d \in Clients : OneReceive(d)'
  BY DEF Held, OneReceive, NpcFinds, Begin, slots, io, peers, history, Receiving
<1>8. \A d \in Clients : NotHandled(d)'
  BY DEF Held, NotHandled, NpcFinds, Begin, slots, io, peers, history, Leaving
<1>9. \A d \in Clients : LoggedHasSlot(d)'
  BY DEF Held, LoggedHasSlot, NpcFinds, Begin, slots, io, peers, history
<1>10. \A t \in Slots : Owned(t)'
  BY DEF Held, Owned, NpcFinds, Begin, slots, io, peers, history
<1>11. \A t \in Slots : Watched(t)'
  BY DEF Held, Watched, NpcFinds, Begin, slots, io, peers, history, Receiving, Leaving
<1>12. OneAccept'
  BY DEF Held, OneAccept, NpcFinds, Begin, slots, io, peers, history, Claiming, Admitting,
     Accepting, Unaccepted
<1>13. /\ \A d \in Clients : ClientOK(d)'
       /\ \A t \in Slots : Played(t)'
       /\ LoggedOnce'
  BY DEF Held, ClientOK, Played, LoggedOnce, NpcFinds, Begin, slots, io, peers, history, Quiet,
     Unowned
<1> QED
  BY <1>1, <1>2, <1>3, <1>4, <1>5, <1>6, <1>7, <1>8, <1>9, <1>10, <1>11, <1>12, <1>13 DEF Held

LEMMA NpcKillsStep ==
    ASSUME Safe, NEW w \in Workers, NpcKills(w)
    PROVE  Held'
<1> USE DEF Safe
<1>1. /\ pc[w] = "strike" /\ Idle(w) /\ UNCHANGED state
      /\ UNCHANGED <<name, sock, connected, accepting, io, peers, strikes>>
      /\ UNCHANGED <<owner, logged, unnoticed, orphaned>>
  <2>1. state' = [state EXCEPT ![slot[w]] = "INGAME"] /\ state[slot[w]] = "INGAME"
    BY DEF NpcKills, Cross
  <2>2. UNCHANGED state
    BY <2>1 DEF TypeOK
  <2> QED
    BY <2>2 DEF NpcKills
<1>2. \A v \in Workers : WorkerOK(v)'
  BY <1>1 DEF TypeOK, Held, WorkerOK, Idle, Finish, io, peers
<1>3. \A v \in Workers : Alone(v)'
  BY <1>1 DEF TypeOK, Held, WorkerOK, Alone, Claiming, Admitting, Checking, Opening, Quiet,
     Idle, Finish, io, peers
<1>4. \A v \in Workers : Arriving(v)'
  BY <1>1 DEF Held, Arriving, Claiming, Admitting, Unowned, Idle, Finish, io, peers
<1>5. \A v \in Workers : Claimed(v)'
  BY <1>1 DEF Held, Claimed, Admitting, Checking, Idle, Finish, io, peers
<1>6. \A v \in Workers : LoggingIn(v)'
  BY <1>1 DEF Held, LoggingIn, Checking, Idle, Finish, io, peers
<1>7. \A v \in Workers : Departing(v)'
  BY <1>1 DEF Held, Departing, Leaving, Unowned, Idle, Finish, io, peers
<1>8. \A d \in Clients : OneReceive(d)'
  BY <1>1 DEF Held, OneReceive, Receiving, Idle, Finish, io, peers
<1>9. \A d \in Clients : NotHandled(d)'
  BY <1>1 DEF Held, NotHandled, Leaving, Idle, Finish, io, peers
<1>10. \A d \in Clients : LoggedHasSlot(d)'
  BY <1>1 DEF Held, LoggedHasSlot, Idle, Finish, io, peers
<1>11. \A t \in Slots : Owned(t)'
  BY <1>1 DEF Held, Owned, Idle, Finish, io, peers
<1>12. \A t \in Slots : Watched(t)'
  BY <1>1 DEF Held, Watched, Receiving, Leaving, Idle, Finish, io, peers
<1>13. \A t \in Slots : Played(t)'
  BY <1>1 DEF Held, Played, Idle, Finish, io, peers
<1>14. OneAccept'
  BY <1>1 DEF Held, OneAccept, Claiming, Admitting, Accepting, Unaccepted, Idle, Finish, io, peers
<1>15. /\ \A d \in Clients : ClientOK(d)'
       /\ LoggedOnce'
  BY DEF Held, ClientOK, LoggedOnce, NpcKills, Idle, Finish, Cross, io, peers, Quiet, Unowned
<1> QED
  BY <1>2, <1>3, <1>4, <1>5, <1>6, <1>7, <1>8, <1>9, <1>10, <1>11, <1>12, <1>13, <1>14, <1>15
     DEF Held

-----------------------------------------------------------------------------
LEMMA NextHeld ==
    ASSUME Safe, Next
    PROVE  Held'
BY ClientLeaveStep, RecvArrivesStep, RecvFailsStep, SendCompletesStep, TakeAcceptStep,
   AcceptFailsStep, ClaimStep, NoRoomStep, AssignStep, RegisterStep, FirstRecvStep, RepostStep,
   TakeDataStep, LoginGmStep, LoginConnectsStep, LoginRefusedStep, FillStep, EnterStep,
   RecvAgainStep, TakeFailedStep, ByeStep, FreeStep, CloseStep, SendToStep, NpcFindsStep,
   NpcKillsStep
   DEF Next, Network, Worker, Take, Continue

(* Nothing uncrosses, and a process that has ended takes no step. *)
LEMMA SoundBefore ==
    ASSUME TypeOK, Next, Sound'
    PROVE  Sound
<1>1. ASSUME NEW c \in Clients, ClientLeave(c) PROVE Sound
  BY <1>1 DEF Sound, Ended, ClientLeave, registers, history
<1>2. ASSUME NEW c \in Clients, RecvArrives(c) PROVE Sound
  BY <1>2 DEF Sound, Ended, RecvArrives, registers, history
<1>3. ASSUME NEW c \in Clients, RecvFails(c) PROVE Sound
  BY <1>3 DEF Sound, Ended, RecvFails, registers, history
<1>4. ASSUME NEW c \in Clients, SendCompletes(c) PROVE Sound
  BY <1>4 DEF Sound, Ended, SendCompletes, registers, history
<1>5. ASSUME NEW w \in Workers, NEW c \in Clients, TakeAccept(w, c) PROVE Sound
  BY <1>5 DEF Sound, Ended, TakeAccept, Begin, history
<1>6. ASSUME NEW w \in Workers, NEW c \in Clients, AcceptFails(w, c) PROVE Sound
  BY <1>6 DEF Sound, Ended, AcceptFails, Begin, history
<1>7. ASSUME NEW w \in Workers, Claim(w) PROVE Sound
  BY <1>7 DEF Sound, Ended, Claim, Goto
<1>8. ASSUME NEW w \in Workers, NoRoom(w) PROVE Sound
  BY <1>8 DEF Sound, Ended, NoRoom, Goto, history
<1>9. ASSUME NEW w \in Workers, Assign(w) PROVE Sound
  BY <1>9 DEF Sound, Ended, Assign, Goto, history
<1>10. ASSUME NEW w \in Workers, Register(w) PROVE Sound
  BY <1>10 DEF Sound, Ended, Register, Goto, history
<1>11. ASSUME NEW w \in Workers, FirstRecv(w) PROVE Sound
  BY <1>11 DEF Sound, Ended, FirstRecv, Goto
<1>12. ASSUME NEW w \in Workers, Repost(w) PROVE Sound
  BY <1>12 DEF Sound, Ended, Repost, Idle, Finish, history
<1>13. ASSUME NEW w \in Workers, NEW c \in Clients, TakeData(w, c) PROVE Sound
  BY <1>13 DEF Sound, Ended, TakeData, Begin, history
<1>14. ASSUME NEW w \in Workers, LoginGm(w) PROVE Sound
  BY <1>14 DEF Sound, Ended, LoginGm, Goto, Cross
<1>15. ASSUME NEW w \in Workers, LoginConnects(w) PROVE Sound
  BY <1>15 DEF Sound, Ended, LoginConnects, Goto
<1>16. ASSUME NEW w \in Workers, LoginRefused(w) PROVE Sound
  BY <1>16 DEF Sound, Ended, LoginRefused, Goto, history
<1>17. ASSUME NEW w \in Workers, Fill(w) PROVE Sound
  BY <1>17 DEF Sound, Ended, Fill, Goto, Cross
<1>18. ASSUME NEW w \in Workers, Enter(w) PROVE Sound
  <2>1. ~crossed
    BY <1>18 DEF Sound, Ended, Enter, Cross
  <2>2. pc[w] \notin Ended
    BY <1>18 DEF Enter, Ended
  <2> QED
    BY <2>1, <2>2 DEF Sound
<1>19. ASSUME NEW w \in Workers, RecvAgain(w) PROVE Sound
  BY <1>19 DEF Sound, Ended, RecvAgain, Idle, Finish, Cross
<1>20. ASSUME NEW w \in Workers, NEW c \in Clients, TakeFailed(w, c) PROVE Sound
  BY <1>20 DEF Sound, Ended, TakeFailed, Begin, history
<1>21. ASSUME NEW w \in Workers, Bye(w) PROVE Sound
  <2>1. ~crossed
    BY <1>21 DEF Sound, Bye, Cross
  <2>2. pc[w] \notin Ended
    BY <1>21 DEF Bye, Ended
  <2> QED
    BY <2>1, <2>2 DEF Sound
<1>22. ASSUME NEW w \in Workers, Free(w) PROVE Sound
  BY <1>22 DEF Sound, Ended, Free, Goto, Cross
<1>23. ASSUME NEW w \in Workers, Close(w) PROVE Sound
  BY <1>23 DEF Sound, Ended, Close, Goto, Idle, Finish, Cross
<1>24. ASSUME NEW s \in Slots, SendTo(s) PROVE Sound
  BY <1>24 DEF Sound, Ended, SendTo, registers, history
<1>25. ASSUME NEW w \in Workers, NEW s \in Slots, NpcFinds(w, s) PROVE Sound
  BY <1>25 DEF Sound, Ended, NpcFinds, Begin, history
<1>26. ASSUME NEW w \in Workers, NpcKills(w) PROVE Sound
  BY <1>26 DEF Sound, Ended, NpcKills, Idle, Finish, Cross
<1> QED
  BY <1>1, <1>2, <1>3, <1>4, <1>5, <1>6, <1>7, <1>8, <1>9, <1>10, <1>11, <1>12, <1>13, <1>14,
     <1>15, <1>16, <1>17, <1>18, <1>19, <1>20, <1>21, <1>22, <1>23, <1>24, <1>25, <1>26 DEF
     Next, Network, Worker, Take, Continue

LEMMA InitHeld == Init => Held
<1> SUFFICES ASSUME Init PROVE Held
  OBVIOUS
<1> USE NoneAssumption DEF NoneAssumption
<1>1. \A w \in Workers : /\ WorkerOK(w) /\ Alone(w) /\ Arriving(w)
                         /\ Claimed(w) /\ LoggingIn(w) /\ Departing(w)
  BY DEF Init, WorkerOK, Alone, Arriving, Claimed, LoggingIn, Departing, Opening, Claiming,
         Admitting, Checking, Leaving
<1>2. \A c \in Clients : /\ OneReceive(c) /\ NotHandled(c)
                         /\ ClientOK(c) /\ LoggedHasSlot(c)
  BY DEF Init, OneReceive, NotHandled, ClientOK, LoggedHasSlot, Receiving, Leaving, Quiet, Unowned
<1>3. \A s \in Slots : Owned(s) /\ Watched(s) /\ Played(s)
  BY DEF Init, Owned, Watched, Played
<1>4. OneAccept /\ LoggedOnce
  BY DEF Init, OneAccept, LoggedOnce, Accepting, Claiming, Admitting, Unaccepted
<1> QED
  BY <1>1, <1>2, <1>3, <1>4 DEF Held

LEMMA InitInv == Init => Inv
BY InitTypes, InitHeld DEF Inv

LEMMA NextInv == Inv /\ [Next]_vars => Inv'
<1> SUFFICES ASSUME Inv, [Next]_vars PROVE Inv'
  OBVIOUS
<1>1. TypeOK /\ TypeOK' /\ HandlerHasClient'
  BY NextTypes DEF Inv
<1>2. ASSUME Next, Sound' PROVE Held'
  <2>1. Sound
    BY <1>1, <1>2, SoundBefore
  <2> QED
    BY <1>1, <1>2, <2>1, NextHeld DEF Inv, Safe, Sound
<1>3. ASSUME UNCHANGED vars, Sound' PROVE Held'
  <2>1. Held
    BY <1>3 DEF Inv, Sound, vars, registers, history
  <2> QED
    BY <1>3, <2>1 DEF Held, WorkerOK, Alone, Arriving, Claimed, LoggingIn, Departing, OneReceive,
       NotHandled, ClientOK, LoggedHasSlot, Owned, Watched, Played, OneAccept, LoggedOnce,
       Unaccepted, Quiet, Unowned, vars, slots, io, peers, registers, history
<1> QED
  BY <1>1, <1>2, <1>3 DEF Inv

-----------------------------------------------------------------------------
(* What the invariant says of accounts, slots, receives and accepts. *)

LEMMA HeldAccounts ==
    ASSUME TypeOK, Held
    PROVE  AccountsHeld
<1>1. ASSUME NEW s \in Slots, Plays(s)
      PROVE  /\ sock[s] = owner[s] /\ owner[s] \in Clients /\ key[owner[s]] = s
             /\ name[s] = acct[owner[s]]
             /\ name[s] \notin Gm => owner[s] \in logged
  <2>1. owner[s] \in Clients /\ sock[s] = owner[s] /\ key[owner[s]] = s
    BY <1>1 DEF TypeOK, Held, Owned, Claimed, Admitting, Plays
  <2> QED
    BY <1>1, <2>1 DEF Held, Played, Plays
<1>2. OneClientPerAccount
  BY <1>1 DEF OneClientPerAccount, Held, LoggedOnce
<1>3. \A a \in connected \ orphaned :
          \E c \in logged : acct[c] = a /\ \A d \in logged \ {c} : acct[d] # a
  BY DEF Held, LoggedOnce
<1>4. \A c \in logged :
          /\ acct[c] \in connected \ orphaned
          /\ \E s \in Slots :
                 /\ owner[s] = c
                 /\ name[s] = acct[c] \/ \E w \in Workers : pc[w] = "fill" /\ serving[w] = c
  BY DEF TypeOK, Held, LoggedHasSlot
<1> QED
  BY <1>2, <1>3, <1>4 DEF AccountsHeld

(* A set of workers is finite, and counts what its members say. *)
LEMMA CountWorkers ==
    ASSUME NEW S \in SUBSET Workers
    PROVE  /\ Cardinality(S) \in Nat
           /\ S = {} => Cardinality(S) = 0
           /\ S # {} => Cardinality(S) > 0
           /\ (\A w, v \in S : w = v) => Cardinality(S) <= 1
<1>1. IsFiniteSet(S) /\ Cardinality(S) \in Nat
  BY WorkersAssumption, FS_Subset, FS_CardinalityType DEF WorkersAssumption
<1>2. Cardinality(S) = 0 <=> S = {}
  BY <1>1, FS_EmptySet
<1>3. (\E w \in S : S = {w}) => Cardinality(S) = 1
  BY FS_Singleton
<1> QED
  BY <1>1, <1>2, <1>3

LEMMA HeldWatched ==
    ASSUME TypeOK, Held
    PROVE  SlotWatched
<1> SUFFICES ASSUME NEW s \in Slots, state[s] # "FREE"
             PROVE  /\ owner[s] # None
                    /\ \/ recvs[owner[s]] + arrived[owner[s]] + failed[owner[s]]
                              + Handlers(owner[s]) > 0
                       \/ owner[s] \in unnoticed \/ Unregistered(owner[s])
  BY DEF SlotWatched
<1> DEFINE c == owner[s]
           H == {w \in Workers : serving[w] = c /\ pc[w] \notin {"idle", "strike"} \cup Ended}
<1>1. c \in Clients /\ c # None
  BY NoneAssumption DEF NoneAssumption, TypeOK, Held, Owned
<1>2. Handlers(c) = Cardinality(H)
  BY DEF Handlers
<1>3. {recvs[c], arrived[c], failed[c], Handlers(c)} \subseteq Nat /\ (H # {} => Handlers(c) > 0)
  <2>1. {recvs[c], arrived[c], failed[c]} \subseteq Nat
    BY <1>1 DEF TypeOK
  <2>2. H \in SUBSET Workers
    OBVIOUS
  <2> HIDE DEF H
  <2>3. Cardinality(H) \in Nat /\ (H # {} => Cardinality(H) > 0)
    BY <2>2, CountWorkers
  <2> QED
    BY <1>2, <2>1, <2>3
<1>4. recvs[c] > 0 \/ arrived[c] > 0 \/ failed[c] > 0 \/ c \in unnoticed \/ H # {}
         \/ Unregistered(c)
  BY <1>1 DEF Held, Watched, Receiving, Leaving, Unregistered, Ended
<1> HIDE DEF c, H
<1> QED
  BY <1>1, <1>3, <1>4 DEF c

LEMMA HeldReceiver ==
    ASSUME TypeOK, Held
    PROVE  OneReceiver
<1> SUFFICES ASSUME NEW c \in Clients
             PROVE  recvs[c] + arrived[c]
                        + Cardinality({w \in Workers : serving[w] = c /\ pc[w] \in Receiving}) <= 1
  BY DEF OneReceiver, Receiving
<1> DEFINE R == {w \in Workers : serving[w] = c /\ pc[w] \in Receiving}
<1>1. OneReceive(c) /\ {recvs[c], arrived[c]} \subseteq Nat
  BY DEF Held, TypeOK
<1>2. /\ R # {} => recvs[c] = 0 /\ arrived[c] = 0
      /\ \A w, v \in R : w = v
  BY <1>1 DEF OneReceive
<1>3. /\ Cardinality(R) \in Nat /\ Cardinality(R) <= 1
      /\ R = {} => Cardinality(R) = 0
  BY <1>2, CountWorkers
<1>4. recvs[c] + arrived[c] <= 1
  BY <1>1 DEF OneReceive
<1> HIDE DEF R
<1>5. recvs[c] + arrived[c] + Cardinality(R) <= 1
  BY <1>1, <1>2, <1>3, <1>4
<1> QED
  BY <1>5 DEF R

LEMMA HeldAccepts ==
    ASSUME TypeOK, Held
    PROVE  AcceptsGoOn
<1> DEFINE A == {w \in Workers : pc[w] \in Accepting}
           U == {c \in Clients : Unaccepted(c)}
<1>1. /\ \A w, v \in A : w = v
      /\ A # {} => ~accepting
      /\ (accepting \/ A # {}) <=> U = {}
  BY DEF Held, OneAccept
<1>2. /\ Cardinality(A) \in Nat /\ Cardinality(A) <= 1
      /\ A = {} => Cardinality(A) = 0
      /\ A # {} => Cardinality(A) > 0
  BY <1>1, CountWorkers
<1> HIDE DEF A, U
<1>3. Cardinality(A) + (IF accepting THEN 1 ELSE 0) = IF U = {} THEN 1 ELSE 0
  BY <1>1, <1>2
<1>4. A = {w \in Workers : pc[w] \in {"claim", "full", "assign", "register", "first", "repost",
                                  "threw", "dead"}}
  BY DEF A, Accepting, Claiming, Admitting
<1>5. U = {c \in Clients : peer[c] = "gone" /\ c \notin open /\ key[c] = None}
  BY DEF U, Unaccepted
<1> QED
  BY <1>3, <1>4, <1>5 DEF AcceptsGoOn

-----------------------------------------------------------------------------
(* Every variable keeps its type, and a handler has its client in its      *)
(* register.                                                               *)
THEOREM TypesKept == Spec => []TypeOK
<1>1. Inv => TypeOK
  BY DEF Inv
<1> QED
  BY InitInv, NextInv, <1>1, PTL DEF Spec

(* For any number of slots, clients, accounts and workers: until a handler *)
(* crosses, an account is played by one client at a time and the database  *)
(* agrees with the slots, but for accounts its own errors left connected.  *)
THEOREM AccountsAlwaysHeld == Spec => []AccountsHeld
<1>1. Inv => AccountsHeld
  BY HeldAccounts DEF Inv, AccountsHeld
<1> QED
  BY InitInv, NextInv, <1>1, PTL DEF Spec

(* Until a handler crosses, no slot is lost, unless a receive failed at    *)
(* the call or RegisterDevice threw.                                       *)
THEOREM SlotAlwaysWatched == Spec => []SlotWatched
<1>1. Inv => SlotWatched
  BY HeldWatched DEF Inv, SlotWatched
<1> QED
  BY InitInv, NextInv, <1>1, PTL DEF Spec

(* Until a handler crosses, a client's packets are handled one at a time.  *)
THEOREM OneReceiverAlways == Spec => []OneReceiver
<1>1. Inv => OneReceiver
  BY HeldReceiver DEF Inv, OneReceiver
<1> QED
  BY InitInv, NextInv, <1>1, PTL DEF Spec

(* Until a handler crosses, the server goes on accepting, one client at a  *)
(* time, unless a client left before it was accepted or a worker ended of  *)
(* an exception of RegisterDevice or AsyncAccept.                          *)
THEOREM AcceptsAlwaysGoOn == Spec => []AcceptsGoOn
<1>1. Inv => AcceptsGoOn
  BY HeldAccepts DEF Inv, AcceptsGoOn
<1> QED
  BY InitInv, NextInv, <1>1, PTL DEF Spec
=============================================================================
