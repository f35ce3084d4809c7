------------------------------ MODULE Sessions ------------------------------
(***************************************************************************)
(* Connections of the game server: accepting a client into a slot of       *)
(* gClients, logging it in against the database, serving it and            *)
(* disconnecting it (IOCPServer.cpp, Session.cpp, Socket.cpp, IOCP.cpp,    *)
(* DBHandler.cpp).                                                         *)
(*                                                                         *)
(* A slot is reused by later clients, completions carry the number of the  *)
(* slot and not the client, and six worker threads share the slots with no *)
(* lock over a handler.  A handler is one action per access to shared      *)
(* state.                                                                  *)
(*                                                                         *)
(* DATA.  A client is its socket: handle values are never reused here.  A  *)
(* client sends its login packet, then packets that change nothing below   *)
(* but are answered by RecvMsg.  The content of Info is its name.  Other   *)
(* handlers' SendMsg to a player is SendTo.  The completion queue is       *)
(* unordered: a worker may be held up between dequeuing a completion and   *)
(* handling it.                                                            *)
(***************************************************************************)
EXTENDS Integers, FiniteSets

CONSTANTS MaxUser,    \* MAX_USER: slots are 0..MaxUser-1
          Clients,
          Accounts,
          Gm,         \* accounts whose name starts with "GM"
          Workers,
          None,       \* the empty name, the null socket, no client
          MaxPackets, \* bound: packets a client sends, the login first
          MaxSends,   \* bound: sends to a client not yet handled
          MaxStrikes  \* bound: NPC attacks that kill a player

ASSUME SlotAssumption == MaxUser \in Nat \ {0}
ASSUME GmAssumption == Gm \subseteq Accounts
ASSUME WorkersAssumption == IsFiniteSet(Workers)
ASSUME BoundAssumption == MaxPackets \in Nat /\ MaxSends \in Nat /\ MaxStrikes \in Nat

Slots == 0..MaxUser - 1

ASSUME NoneAssumption == None \notin Clients \cup Accounts \cup Slots

VARIABLES
    state, name, sock, \* Session::mState, Info.name, mSocket of each slot
    connected,         \* the database: accounts marked connected
    open,              \* accepted sockets the server has not closed
    accepting,         \* an AcceptEx is outstanding
    key,               \* the slot a socket is registered under
    recvs, sends,      \* outstanding receives and sends of each socket
    arrived, failed,   \* queued completions of each socket: with bytes; failed
                       \* or with zero bytes
    peer,              \* each client: "out", "up" or "gone"
    acct, sent, fresh, \* its account; packets it has sent; is the login still
                       \* unhandled?
    pc, slot, serving, \* registers of the workers
    strikes,           \* NPC attacks so far, for the bound
    owner,             \* history: the client each slot was claimed for
    logged,            \* history: clients that connected their account
    unnoticed,         \* history: clients whose receive failed at the call
    orphaned,          \* history: accounts a database error left connected
    crossed            \* history: see Cross below

slots == <<state, name, sock>>
io == <<open, key, recvs, sends, arrived, failed>>
peers == <<peer, acct, sent, fresh>>
registers == <<pc, slot, serving>>
history == <<owner, logged, unnoticed, orphaned, crossed>>
vars == <<slots, connected, accepting, io, peers, registers, strikes, history>>

Init ==
    /\ state = [s \in Slots |-> "FREE"]
    /\ name = [s \in Slots |-> None]
    /\ sock = [s \in Slots |-> None]
    /\ connected = {}
    /\ open = {}
    /\ accepting = TRUE
    /\ key = [c \in Clients |-> None]
    /\ recvs = [c \in Clients |-> 0]
    /\ sends = [c \in Clients |-> 0]
    /\ arrived = [c \in Clients |-> 0]
    /\ failed = [c \in Clients |-> 0]
    /\ peer = [c \in Clients |-> "out"]
    /\ acct \in [Clients -> Accounts]
    /\ sent = [c \in Clients |-> 0]
    /\ fresh = Clients
    /\ pc = [w \in Workers |-> "idle"]
    /\ slot = [w \in Workers |-> 0]
    /\ serving = [w \in Workers |-> None]
    /\ strikes = 0
    /\ owner = [s \in Slots |-> None]
    /\ logged = {}
    /\ unnoticed = {}
    /\ orphaned = {}
    /\ crossed = FALSE

-----------------------------------------------------------------------------
(* Helpers. *)

Goto(w, l) == pc' = [pc EXCEPT ![w] = l] /\ UNCHANGED <<slot, serving>>

Begin(w, l, s, c) == /\ pc[w] = "idle"
                     /\ pc' = [pc EXCEPT ![w] = l]
                     /\ slot' = [slot EXCEPT ![w] = s]
                     /\ serving' = [serving EXCEPT ![w] = c]

Finish(w, l) == /\ pc' = [pc EXCEPT ![w] = l]
                /\ slot' = [slot EXCEPT ![w] = 0]
                /\ serving' = [serving EXCEPT ![w] = None]

Idle(w) == Finish(w, "idle")

(* WSARecv and WSASend on the slot's socket.  On a closed socket they fail *)
(* at once, on one the client has left they may; then nothing becomes      *)
(* outstanding, and RecvMsg and SendMsg ignore what Recv and Send return.  *)
MayFail(c) == c \in Clients => c \notin open \/ peer[c] = "gone"

PostRecv(s) ==
    LET c == sock[s] IN
    \/ /\ c \in open
       /\ recvs' = [recvs EXCEPT ![c] = @ + 1]
       /\ UNCHANGED unnoticed
    \/ /\ MayFail(c)
       /\ unnoticed' = unnoticed \cup ({c} \cap open)
       /\ UNCHANGED recvs

PostSend(s) ==
    LET c == sock[s] IN
    \/ c \in open /\ sends' = [sends EXCEPT ![c] = @ + 1]
    \/ MayFail(c) /\ UNCHANGED sends

(* A handler crosses when it changes a slot or an account that is not, or  *)
(* no longer, that of the client it serves.                                *)
Cross(strays) == crossed' = (crossed \/ strays)

-----------------------------------------------------------------------------
(* Clients and the network. *)

(* A client may close or abort its connection at any time; it does not     *)
(* come back, but another client may use its account.                      *)
ClientLeave(c) ==
    /\ peer[c] = "up"
    /\ peer' = [peer EXCEPT ![c] = "gone"]
    /\ UNCHANGED <<slots, connected, accepting, io, acct, sent, fresh>>
    /\ UNCHANGED <<registers, strikes, history>>

(* A packet counts as sent when a receive takes it. *)
RecvArrives(c) ==
    /\ recvs[c] > 0 /\ sent[c] < MaxPackets
    /\ sent' = [sent EXCEPT ![c] = @ + 1]
    /\ recvs' = [recvs EXCEPT ![c] = @ - 1]
    /\ arrived' = [arrived EXCEPT ![c] = @ + 1]
    /\ UNCHANGED <<slots, connected, accepting, open, key, sends, failed>>
    /\ UNCHANGED <<peer, acct, fresh, registers, strikes, history>>

RecvFails(c) ==
    /\ recvs[c] > 0 /\ peer[c] = "gone"
    /\ recvs' = [recvs EXCEPT ![c] = @ - 1]
    /\ failed' = [failed EXCEPT ![c] = @ + 1]
    /\ UNCHANGED <<slots, connected, accepting, open, key, sends, arrived>>
    /\ UNCHANGED <<peers, registers, strikes, history>>

(* A send that succeeds is only deleted; one to a client that left may     *)
(* still succeed.                                                          *)
SendCompletes(c) ==
    /\ sends[c] > 0
    /\ sends' = [sends EXCEPT ![c] = @ - 1]
    /\ \/ UNCHANGED failed
       \/ peer[c] = "gone" /\ failed' = [failed EXCEPT ![c] = @ + 1]
    /\ UNCHANGED <<slots, connected, accepting, open, key, recvs, arrived>>
    /\ UNCHANGED <<peers, registers, strikes, history>>

-----------------------------------------------------------------------------
(* Accepting: case ACCEPT of HandleCompletionInfo. *)

TakeAccept(w, c) ==
    /\ accepting /\ peer[c] = "out"
    /\ accepting' = FALSE
    /\ peer' = [peer EXCEPT ![c] = "up"]
    /\ open' = open \cup {c}
    /\ Begin(w, "claim", 0, c)
    /\ UNCHANGED <<slots, connected, key, recvs, sends, arrived, failed>>
    /\ UNCHANGED <<acct, sent, fresh, strikes, history>>

(* A client aborts before it is accepted and AcceptEx fails: as any failed *)
(* completion, it is handled by its key, 0 for the listening socket.       *)
AcceptFails(w, c) ==
    /\ accepting /\ peer[c] = "out"
    /\ accepting' = FALSE
    /\ peer' = [peer EXCEPT ![c] = "gone"]
    /\ Begin(w, "bye", 0, c)
    /\ UNCHANGED <<slots, connected, io, acct, sent, fresh, strikes, history>>

(* GetAvailableID tries the slots in order. *)
Claim(w) ==
    /\ pc[w] = "claim"
    /\ LET s == slot[w] IN
       \/ /\ state[s] = "FREE"
          /\ state' = [state EXCEPT ![s] = "ACCEPT"]
          /\ owner' = [owner EXCEPT ![s] = serving[w]]
          /\ Goto(w, "assign")
       \/ /\ state[s] # "FREE" /\ s < MaxUser - 1
          /\ slot' = [slot EXCEPT ![w] = s + 1]
          /\ UNCHANGED <<state, owner, pc, serving>>
       \/ /\ state[s] # "FREE" /\ s = MaxUser - 1
          /\ Goto(w, "full")
          /\ UNCHANGED <<state, owner>>
    /\ UNCHANGED <<name, sock, connected, accepting, io, peers, strikes>>
    /\ UNCHANGED <<logged, unnoticed, orphaned, crossed>>

(* SendLoginFailPacket(-1) reads gClients[-1]: undefined behaviour, which  *)
(* goes unnoticed or ends the process.  The client's socket stays open.    *)
NoRoom(w) ==
    /\ pc[w] = "full"
    /\ \/ Goto(w, "repost")
       \/ pc' = [v \in Workers |-> "dead"] /\ UNCHANGED <<slot, serving>>
    /\ UNCHANGED <<slots, connected, accepting, io, peers, strikes, history>>

(* AcceptNewClient: AssignAcceptedID... *)
Assign(w) ==
    /\ pc[w] = "assign"
    /\ sock' = [sock EXCEPT ![slot[w]] = serving[w]]
    /\ Goto(w, "register")
    /\ UNCHANGED <<state, name, connected, accepting, io, peers, strikes, history>>

(* ...RegisterDevice, which throws on a closed socket or when the system   *)
(* has no room for it, and ends the worker with no AcceptEx posted...      *)
Register(w) ==
    /\ pc[w] = "register"
    /\ \/ /\ serving[w] \in open
          /\ key' = [key EXCEPT ![serving[w]] = slot[w]]
          /\ Goto(w, "first")
       \/ Goto(w, "threw") /\ UNCHANGED key
    /\ UNCHANGED <<slots, connected, accepting, open, recvs, sends, arrived, failed>>
    /\ UNCHANGED <<peers, strikes, history>>

\* Mutant of FirstRecv: the handler returns when the receive fails.
FirstRecvOrReturn(w) ==
    /\ pc[w] = "first"
    /\ PostRecv(slot[w])
    /\ IF recvs' # recvs THEN Goto(w, "repost") ELSE Idle(w)
    /\ UNCHANGED <<slots, connected, accepting, open, key, sends, arrived, failed>>
    /\ UNCHANGED <<peers, strikes, owner, logged, orphaned, crossed>>

(* ...and the first receive. *)
FirstRecv(w) ==
    /\ pc[w] = "first"
    /\ PostRecv(slot[w])
    /\ Goto(w, "repost")
    /\ UNCHANGED <<slots, connected, accepting, open, key, sends, arrived, failed>>
    /\ UNCHANGED <<peers, strikes, owner, logged, orphaned, crossed>>

(* AsyncAccept, which throws when it gets no socket or AcceptEx fails: that *)
(* ends the worker too, and no AcceptEx is outstanding.                    *)
Repost(w) ==
    /\ pc[w] = "repost"
    /\ \/ accepting' = TRUE /\ Idle(w)
       \/ Finish(w, "dead") /\ UNCHANGED accepting
    /\ UNCHANGED <<slots, connected, io, peers, strikes, history>>

-----------------------------------------------------------------------------
(* Packets: case RECV of HandleCompletionInfo; the slot is the key's. *)

\* Mutant of TakeData: RecvMsg before the packets are handled, and again after.
RecvBeforeHandling(w, c) ==
    /\ arrived[c] > 0 /\ key[c] # None
    /\ arrived' = [arrived EXCEPT ![c] = @ - 1]
    /\ recvs' = [recvs EXCEPT ![c] = @ + 1]
    /\ Begin(w, IF c \in fresh THEN "login" ELSE "recv", key[c], c)
    /\ fresh' = fresh \ {c}
    /\ UNCHANGED <<slots, connected, accepting, open, key, sends, failed>>
    /\ UNCHANGED <<peer, acct, sent, strikes, history>>

TakeData(w, c) ==
    /\ arrived[c] > 0 /\ key[c] # None
    /\ arrived' = [arrived EXCEPT ![c] = @ - 1]
    /\ Begin(w, IF c \in fresh THEN "login" ELSE "recv", key[c], c)
    /\ fresh' = fresh \ {c}
    /\ UNCHANGED <<slots, connected, accepting, open, key, recvs, sends, failed>>
    /\ UNCHANGED <<peer, acct, sent, strikes, history>>

(* ProcessLoginPacket: a "GM" name needs no database. *)
LoginGm(w) ==
    /\ pc[w] = "login" /\ acct[serving[w]] \in Gm
    /\ name' = [name EXCEPT ![slot[w]] = acct[serving[w]]]
    /\ Cross(owner[slot[w]] # serving[w])
    /\ Goto(w, "enter")
    /\ UNCHANGED <<state, sock, connected, accepting, io, peers, strikes>>
    /\ UNCHANGED <<owner, logged, unnoticed, orphaned>>

\* Mutant of LoginConnects: retConnected is not looked at.
ConnectAnyway(w) ==
    /\ pc[w] = "login" /\ acct[serving[w]] \notin Gm
    /\ connected' = connected \cup {acct[serving[w]]}
    /\ logged' = logged \cup {serving[w]}
    /\ Goto(w, "fill")
    /\ UNCHANGED <<slots, accepting, io, peers, strikes>>
    /\ UNCHANGED <<owner, unnoticed, orphaned, crossed>>

(* ConnectWithID marks the account connected, unless it is already. *)
LoginConnects(w) ==
    /\ pc[w] = "login" /\ acct[serving[w]] \notin Gm \cup connected
    /\ connected' = connected \cup {acct[serving[w]]}
    /\ logged' = logged \cup {serving[w]}
    /\ Goto(w, "fill")
    /\ UNCHANGED <<slots, accepting, io, peers, strikes>>
    /\ UNCHANGED <<owner, unnoticed, orphaned, crossed>>

(* It refuses an account connected already, and whenever the database      *)
(* reports an error: the one of SQLFetch comes when connect_with_id has    *)
(* marked the account.                                                     *)
LoginRefused(w) ==
    /\ pc[w] = "login" /\ acct[serving[w]] \notin Gm
    /\ LET a == acct[serving[w]] IN
       \/ UNCHANGED <<connected, orphaned>>
       \/ /\ a \notin connected
          /\ connected' = connected \cup {a}
          /\ orphaned' = orphaned \cup {a}
    /\ PostSend(slot[w])
    /\ Goto(w, "reject")
    /\ UNCHANGED <<slots, accepting, open, key, recvs, arrived, failed>>
    /\ UNCHANGED <<peers, strikes, owner, logged, unnoticed, crossed>>

Fill(w) ==
    /\ pc[w] = "fill"
    /\ name' = [name EXCEPT ![slot[w]] = acct[serving[w]]]
    /\ Cross(owner[slot[w]] # serving[w])
    /\ Goto(w, "enter")
    /\ UNCHANGED <<state, sock, connected, accepting, io, peers, strikes>>
    /\ UNCHANGED <<owner, logged, unnoticed, orphaned>>

(* The exchange of ACCEPT for INGAME, and the answer to the client. *)
Enter(w) ==
    /\ pc[w] = "enter"
    /\ LET s == slot[w] IN
       \/ /\ state[s] = "ACCEPT"
          /\ state' = [state EXCEPT ![s] = "INGAME"]
          /\ PostSend(s)
          /\ Cross(owner[s] # serving[w])
       \/ state[s] # "ACCEPT" /\ UNCHANGED <<state, sends, crossed>>
    /\ Goto(w, "recv")
    /\ UNCHANGED <<name, sock, connected, accepting, open, key, recvs, arrived>>
    /\ UNCHANGED <<failed, peers, strikes, owner, logged, unnoticed, orphaned>>

\* Mutant of RecvAgain: an early return that skips RecvMsg.
ReturnWithoutRecv(w) ==
    /\ pc[w] = "recv"
    /\ Idle(w)
    /\ UNCHANGED <<slots, connected, accepting, io, peers, strikes, history>>

RecvAgain(w) ==
    /\ pc[w] = "recv"
    /\ PostRecv(slot[w])
    /\ Cross(sock[slot[w]] \in open \ {serving[w]})
    /\ Idle(w)
    /\ UNCHANGED <<slots, connected, accepting, open, key, sends, arrived, failed>>
    /\ UNCHANGED <<peers, strikes, owner, logged, orphaned>>

-----------------------------------------------------------------------------
(* Disconnecting. *)

(* A failed completion, or a receive of zero bytes. *)
TakeFailed(w, c) ==
    /\ failed[c] > 0 /\ key[c] # None
    /\ failed' = [failed EXCEPT ![c] = @ - 1]
    /\ Begin(w, "bye", key[c], c)
    /\ UNCHANGED <<slots, connected, accepting, open, key, recvs, sends, arrived>>
    /\ UNCHANGED <<peers, strikes, history>>

(* IOCPServer::Disconnect: DisconnectAndUpdate of the name in the slot,    *)
(* whoever left it there.  Its failure is ignored, and leaves the account  *)
(* connected until a later session that finds the name in its slot ends... *)
Bye(w) ==
    /\ pc[w] = "bye"
    /\ LET a == name[slot[w]]
           c == serving[w]
       IN /\ logged' = logged \ {d \in {c} : acct[d] = a}
          /\ \/ /\ connected' = connected \ ({a} \ Gm)
                /\ orphaned' = orphaned \ {a}
                /\ Cross(connected' # connected /\ a \notin orphaned
                            /\ (c \notin logged \/ acct[c] # a))
             \/ /\ a \notin Gm
                /\ orphaned' = orphaned \cup {acct[d] : d \in logged \ logged'}
                /\ UNCHANGED <<connected, crossed>>
    /\ Goto(w, "free")
    /\ UNCHANGED <<slots, accepting, io, peers, strikes, owner, unnoticed>>

\* Mutant of Free: mState is not reset.
FreeNothing(w) ==
    /\ pc[w] \in {"free", "reject"}
    /\ Goto(w, IF pc[w] = "free" THEN "close" ELSE "rejectClose")
    /\ UNCHANGED <<slots, connected, accepting, io, peers, strikes, history>>

(* ...then Session::Disconnect, whether it is the end of a session or of a *)
(* refused login: mState first...                                          *)
Free(w) ==
    /\ pc[w] \in {"free", "reject"}
    /\ LET s == slot[w] IN
       /\ state' = [state EXCEPT ![s] = "FREE"]
       /\ owner' = [owner EXCEPT ![s] = None]
       /\ Cross(state[s] # "FREE" /\ owner[s] # serving[w])
    /\ Goto(w, IF pc[w] = "free" THEN "close" ELSE "rejectClose")
    /\ UNCHANGED <<name, sock, connected, accepting, io, peers, strikes>>
    /\ UNCHANGED <<logged, unnoticed, orphaned>>

(* ...then the socket the slot holds by now.  What was outstanding on it   *)
(* fails.                                                                  *)
Close(w) ==
    /\ pc[w] \in {"close", "rejectClose"}
    /\ LET c == sock[slot[w]] IN
       IF c \in open
       THEN /\ open' = open \ {c}
            /\ failed' = [failed EXCEPT ![c] = @ + recvs[c] + sends[c]]
            /\ recvs' = [recvs EXCEPT ![c] = 0]
            /\ sends' = [sends EXCEPT ![c] = 0]
            /\ Cross(c # serving[w])
       ELSE UNCHANGED <<open, failed, recvs, sends, crossed>>
    /\ \/ pc[w] = "close" /\ Idle(w)
       \/ pc[w] = "rejectClose" /\ Goto(w, "recv")
    /\ UNCHANGED <<slots, connected, accepting, key, arrived, peers, strikes>>
    /\ UNCHANGED <<owner, logged, unnoticed, orphaned>>

-----------------------------------------------------------------------------
(* Other handlers and the slot of a player. *)

(* Packets about other players: SendMsg. *)
SendTo(s) ==
    /\ state[s] = "INGAME" /\ sock[s] \in open
    /\ sends[sock[s]] + failed[sock[s]] < MaxSends
    /\ PostSend(s)
    /\ UNCHANGED <<slots, connected, accepting, open, key, recvs, arrived, failed>>
    /\ UNCHANGED <<peers, registers, strikes, history>>

(* MoveNPC finds the player INGAME on the NPC's own square... *)
NpcFinds(w, s) ==
    /\ state[s] = "INGAME" /\ strikes < MaxStrikes
    /\ strikes' = strikes + 1
    /\ Begin(w, "strike", s, owner[s])
    /\ UNCHANGED <<slots, connected, accepting, io, peers, history>>

(* ...and HandleNPCAttack kills it: Revive sets mState. *)
NpcKills(w) ==
    /\ pc[w] = "strike"
    /\ state' = [state EXCEPT ![slot[w]] = "INGAME"]
    /\ Cross(state[slot[w]] # "INGAME")
    /\ Idle(w)
    /\ UNCHANGED <<name, sock, connected, accepting, io, peers, strikes>>
    /\ UNCHANGED <<owner, logged, unnoticed, orphaned>>

-----------------------------------------------------------------------------
Take(w) == \E c \in Clients : \/ TakeAccept(w, c) \/ AcceptFails(w, c)
                              \/ TakeData(w, c) \/ TakeFailed(w, c)

Continue(w) ==
    \/ Claim(w) \/ NoRoom(w) \/ Assign(w) \/ Register(w) \/ FirstRecv(w) \/ Repost(w)
    \/ LoginGm(w) \/ LoginConnects(w) \/ LoginRefused(w) \/ Fill(w) \/ Enter(w)
    \/ RecvAgain(w) \/ Bye(w) \/ Free(w) \/ Close(w) \/ NpcKills(w)

Worker(w) == Take(w) \/ Continue(w) \/ \E s \in Slots : NpcFinds(w, s)

Network(c) == RecvArrives(c) \/ RecvFails(c) \/ SendCompletes(c)

Next == \/ \E w \in Workers : Worker(w)
        \/ \E c \in Clients : Network(c) \/ ClientLeave(c)
        \/ \E s \in Slots : SendTo(s)

Spec == Init /\ [][Next]_vars

(* The workers are never idle for ever while a completion is queued, nor   *)
(* stop inside a handler, and what is outstanding completes.  Clients owe  *)
(* nothing.                                                                *)
FairSpec ==
    /\ Spec
    /\ \A w \in Workers : WF_vars(Continue(w))
    /\ \A c \in Clients :
           /\ WF_vars(RecvFails(c) \/ RecvArrives(c))
           /\ WF_vars(SendCompletes(c))
           /\ SF_vars(\E w \in Workers : TakeData(w, c))
           /\ SF_vars(\E w \in Workers : TakeFailed(w, c))

-----------------------------------------------------------------------------
Labels == {"idle", "claim", "full", "assign", "register", "first", "repost",
           "login", "fill", "enter", "recv", "reject", "rejectClose",
           "bye", "free", "close", "strike", "threw", "dead"}

TypeOK ==
    /\ state \in [Slots -> {"FREE", "ACCEPT", "INGAME"}]
    /\ name \in [Slots -> Accounts \cup {None}]
    /\ sock \in [Slots -> Clients \cup {None}]
    /\ connected \subseteq Accounts
    /\ open \subseteq Clients
    /\ accepting \in BOOLEAN
    /\ key \in [Clients -> Slots \cup {None}]
    /\ recvs \in [Clients -> Nat] /\ sends \in [Clients -> Nat]
    /\ arrived \in [Clients -> Nat] /\ failed \in [Clients -> Nat]
    /\ peer \in [Clients -> {"out", "up", "gone"}]
    /\ acct \in [Clients -> Accounts]
    /\ sent \in [Clients -> Nat]
    /\ fresh \subseteq Clients
    /\ pc \in [Workers -> Labels]
    /\ slot \in [Workers -> Slots]
    /\ serving \in [Workers -> Clients \cup {None}]
    /\ strikes \in Nat
    /\ owner \in [Slots -> Clients \cup {None}]
    /\ logged \subseteq Clients /\ unnoticed \subseteq Clients
    /\ orphaned \subseteq Accounts
    /\ crossed \in BOOLEAN

Ended == {"threw", "dead"}

\* Nothing has crossed and not every worker has ended.
Sound == ~crossed /\ \E w \in Workers : pc[w] \notin Ended

\* A slot in which a client plays that is still there.
Plays(s) == /\ state[s] = "INGAME" /\ sock[s] \in open
            /\ peer[sock[s]] = "up"

(* "0: duplicate ID": an account other than a GM's is played by one client *)
(* at a time.                                                              *)
OneClientPerAccount ==
    \A s, t \in Slots :
        Plays(s) /\ Plays(t) /\ name[s] = name[t] /\ name[s] \notin Gm => s = t

(* As long as no handler has crossed, an account is played by one client   *)
(* at a time, and marked connected only while one session holds it that    *)
(* will ask the database to mark it disconnected, or when an error of the  *)
(* database itself has left it so, and then nobody plays it: the database  *)
(* and the slots agree at every step of logins, refusals and disconnects   *)
(* that interleave.                                                        *)
AccountsHeld ==
    Sound =>
        /\ OneClientPerAccount
        /\ \A a \in connected \ orphaned :
               \E c \in logged : acct[c] = a /\ \A d \in logged \ {c} : acct[d] # a
        /\ \A c \in logged :
               /\ acct[c] \in connected \ orphaned
               /\ \E s \in Slots :
                      /\ owner[s] = c
                      /\ \/ name[s] = acct[c]
                         \/ \E w \in Workers : pc[w] = "fill" /\ serving[w] = c

Handlers(c) == Cardinality({w \in Workers : /\ serving[w] = c
                                            /\ pc[w] \notin {"idle", "strike"} \cup Ended})

(* A worker ended because RegisterDevice threw for the socket of c. *)
Unregistered(c) == \E w \in Workers : pc[w] = "threw" /\ serving[w] = c

(* As long as no handler has crossed, no slot is lost: the client it was   *)
(* claimed for has a receive outstanding, a completion queued or a handler *)
(* at work on it, unless its last receive failed at the call or            *)
(* RegisterDevice threw.                                                   *)
SlotWatched ==
    Sound =>
        \A s \in Slots :
            state[s] # "FREE" =>
                LET c == owner[s] IN
                /\ c # None
                /\ \/ recvs[c] + arrived[c] + failed[c] + Handlers(c) > 0
                   \/ c \in unnoticed \/ Unregistered(c)

(* The packets of a client are handled one at a time and in order, however *)
(* many workers there are: it has one receive, outstanding or handled.     *)
OneReceiver ==
    Sound =>
        \A c \in Clients :
            recvs[c] + arrived[c]
                + Cardinality({w \in Workers : /\ serving[w] = c
                                               /\ pc[w] \in {"first", "login", "fill",
                                                             "enter", "reject",
                                                             "rejectClose", "recv"}}) <= 1

(* As long as no handler has crossed, the server goes on accepting, one    *)
(* client at a time: there is an AcceptEx outstanding or one handler that  *)
(* will call AsyncAccept whatever becomes of its client (it finds no room, *)
(* it leaves, its receive fails).  Two things end this: a worker that died *)
(* of an exception of RegisterDevice or AsyncAccept, and a client that     *)
(* leaves before it is accepted, since a failed AcceptEx is never posted   *)
(* again; they do not both happen, and nothing else does it.               *)
AcceptsGoOn ==
    LET \* handlers of an accept, and the workers that ended in one
        accepters == {w \in Workers : pc[w] \in {"claim", "full", "assign", "register",
                                                "first", "repost", "threw", "dead"}}
        unaccepted == {c \in Clients : peer[c] = "gone" /\ c \notin open /\ key[c] = None}
    IN  Sound =>
            Cardinality(accepters) + (IF accepting THEN 1 ELSE 0)
                = IF unaccepted = {} THEN 1 ELSE 0

(* A client that has left is logged out and its slot freed, unless its     *)
(* receive failed at the call, RegisterDevice threw for it or handlers     *)
(* crossed.                                                                *)
LeftIsFreedUnlessUnnoticed ==
    \A c \in Clients :
        (peer[c] = "gone")
            ~> \/ \A s \in Slots : owner[s] # c
               \/ c \in unnoticed \/ Unregistered(c) \/ ~Sound
=============================================================================
