--------------------------- MODULE AsioConnection ---------------------------
(***************************************************************************)
(* The connections of the Asio project: an AsioServer and its AsioClients, *)
(* each with a main thread and a thread that runs its io_context.          *)
(*                                                                         *)
(* class connection serves both ends of a socket, so its operations are    *)
(* written once, for an end <<c, side>>.  What a socket carries is a       *)
(* sequence of units: a handshake, the header of a message, its body.  An  *)
(* async_write puts its unit on the wire when it is called, and its        *)
(* handler runs later, as does that of an async_read; a handler, or a      *)
(* lambda posted by Send, is one step of the io_context's thread.          *)
(* tsqueue is modelled in TsQueue and is a sequence here.                  *)
(***************************************************************************)
EXTENDS Naturals, SequencesExt

CONSTANTS Clients,       \* the clients; each connects at most once
          None,
          Speakers,      \* bound: the clients whose users type
          MaxMessages    \* bound: messages that a client sends

ASSUME AsioAssumption == None \notin Clients /\ MaxMessages \in Nat

VARIABLES
    socket,       \* m_socket of each end
    wire,         \* units on the way to an end
    jobs,         \* messages in lambdas that Send has posted and that wait
    messagesOut,  \* m_messagesOut
    reading,      \* the outstanding async_read, or NoRead; for a body, with the
                  \* message whose header is in m_msgTempIn
    writing,      \* the outstanding async_writes
    messagesIn,   \* m_messagesIn of the server, with the remote of each message
    connections,  \* m_connections; None is a pointer that was reset
    broadcast,    \* MessageAllClients: its message, loop index and loop end,
                  \* and the remote of the message that is handled
    accepted,     \* clients that have handled ServerAccept
    sent,         \* history: messages given to Send, at each end
    received,     \* history: messages added to the incoming queue of each end
    gone,         \* history: connections closed when the broadcast began
    late          \* history: connections destroyed before a handler of theirs ran

wires == <<socket, wire, jobs, messagesOut, reading, writing>>
mains == <<connections, broadcast, accepted>>
history == <<sent, received, gone, late>>
vars == <<wires, messagesIn, mains, history>>

Server(c) == <<c, "server">>
Client(c) == <<c, "client">>
Ends == Clients \X {"server", "client"}
Peer(e) == IF e[2] = "server" THEN Client(e[1]) ELSE Server(e[1])

Message(kind, c, n) == [kind |-> kind, from |-> c, number |-> n]
Handshakes == {"puzzle", "solution", "wrong"}
Kinds == {"ServerAccept", "ServerPing", "MessageAll", "ServerMessage"} \cup Handshakes
Messages == [kind : Kinds, from : Clients, number : 0..MaxMessages]
HasBody(m) == m.kind # "ServerAccept"

Parts == {"validation", "header", "body"}
Units == Parts \X Messages
Handshake(h, c) == <<"validation", Message(h, c, 0)>>

Op(part, open) == [part |-> part, open |-> open]
Read(part, open, m) == [part |-> part, open |-> open, msgTempIn |-> m]
NoRead == Read("none", FALSE, None)
Silent == [msg |-> None, next |-> 1, end |-> 0, remote |-> None]

Init ==
    /\ socket = [e \in Ends |-> "none"]
    /\ wire = [e \in Ends |-> <<>>]
    /\ jobs = [e \in Ends |-> <<>>]
    /\ messagesOut = [e \in Ends |-> <<>>]
    /\ reading = [e \in Ends |-> NoRead]
    /\ writing = [e \in Ends |-> {}]
    /\ messagesIn = <<>>
    /\ connections = <<>>
    /\ broadcast = Silent
    /\ accepted = {}
    /\ sent = [e \in Ends |-> <<>>]
    /\ received = [e \in Ends |-> <<>>]
    /\ gone = {} /\ late = {}

IsConnected(e) == socket[e] = "open"

(* A connection of the server lives while the list, a queued message or    *)
(* the handled one points to it; a client's lives as long as its process.  *)
Alive(e) ==
    \/ e[2] = "client"
    \/ e[1] \in Range(connections)
    \/ e[1] = broadcast.remote
    \/ \E i \in DOMAIN messagesIn : messagesIn[i].remote = e[1]

-----------------------------------------------------------------------------
(* What handlers are made of.  An operation started on a closed socket     *)
(* fails; that it was open when the operation started is kept with it.     *)

StartRead(e, part, m) ==
    reading' = [reading EXCEPT ![e] = Read(part, IsConnected(e), m)]

StartWrite(e, part, content, others) ==
    /\ writing' = [writing EXCEPT ![e] = others \cup {Op(part, IsConnected(e))}]
    /\ wire' = IF IsConnected(e) /\ socket[Peer(e)] # "closed"
               THEN [wire EXCEPT ![Peer(e)] = Append(@, <<part, content>>)] ELSE wire

(* socket.close(), with what then remains outstanding.  A client whose     *)
(* socket is closed ends ("Server Down"), with all that it had to do.      *)
Close(e, read, writes) ==
    /\ socket' = [socket EXCEPT ![e] = "closed"]
    /\ \/ /\ e[2] = "client"
          /\ reading' = [reading EXCEPT ![e] = NoRead]
          /\ writing' = [writing EXCEPT ![e] = {}]
          /\ wire' = [wire EXCEPT ![e] = <<>>]
          /\ jobs' = [jobs EXCEPT ![e] = <<>>]
          /\ messagesOut' = [messagesOut EXCEPT ![e] = <<>>]
       \/ /\ e[2] = "server"
          /\ reading' = [reading EXCEPT ![e] = read]
          /\ writing' = [writing EXCEPT ![e] = writes]
          /\ UNCHANGED <<wire, jobs, messagesOut>>

Post(e, m) ==
    /\ jobs' = [jobs EXCEPT ![e] = Append(@, m)]
    /\ sent' = [sent EXCEPT ![e] = Append(@, m)]

(* Mutant: a write is started whether or not one is under way.             *)
SendAndWrite(e) ==
    /\ jobs[e] # <<>> /\ Alive(e)
    /\ messagesOut' = [messagesOut EXCEPT ![e] = Append(@, Head(jobs[e]))]
    /\ StartWrite(e, "header", Head(messagesOut'[e]), writing[e])
    /\ jobs' = [jobs EXCEPT ![e] = Tail(@)]
    /\ UNCHANGED <<socket, reading, messagesIn, mains, history>>

(* The lambda of Send: a write is under way if the queue was not empty.    *)
Send(e) ==
    /\ jobs[e] # <<>> /\ Alive(e)
    /\ LET m == Head(jobs[e]) IN
          /\ messagesOut' = [messagesOut EXCEPT ![e] = Append(@, m)]
          /\ IF messagesOut[e] = <<>> THEN StartWrite(e, "header", m, writing[e])
                                      ELSE UNCHANGED <<writing, wire>>
    /\ jobs' = [jobs EXCEPT ![e] = Tail(@)]
    /\ UNCHANGED <<socket, reading, messagesIn, mains, history>>

-----------------------------------------------------------------------------
(* Handlers of writes.  Each begins with the operation that completes.     *)

Succeeds(e, op) == op \in writing[e] /\ op.open /\ Alive(e)
Fails(e, op) == /\ op \in writing[e] /\ Alive(e)
                /\ ~op.open \/ ~IsConnected(e) \/ socket[Peer(e)] = "closed"
Others(e, op) == writing[e] \ {op}

(* Mutant: the next message waits for another Send.                        *)
WrittenAlone(e, op) ==
    /\ messagesOut' = [messagesOut EXCEPT ![e] = Tail(@)]
    /\ writing' = [writing EXCEPT ![e] = Others(e, op)]
    /\ UNCHANGED <<wire, reading>>

(* A message is written: it leaves the queue and the next header follows.  *)
Written(e, op) ==
    LET rest == Tail(messagesOut[e]) IN
       /\ messagesOut' = [messagesOut EXCEPT ![e] = rest]
       /\ IF rest # <<>> THEN StartWrite(e, "header", Head(rest), Others(e, op))
          ELSE writing' = [writing EXCEPT ![e] = Others(e, op)] /\ UNCHANGED wire
       /\ UNCHANGED reading

WriteHeader(e, op) ==
    /\ op.part = "header" /\ Succeeds(e, op)
    /\ LET m == Head(messagesOut[e]) IN
          \/ /\ HasBody(m)
             /\ StartWrite(e, "body", m, Others(e, op))
             /\ UNCHANGED <<messagesOut, reading>>
          \/ ~HasBody(m) /\ Written(e, op)
    /\ UNCHANGED <<socket, jobs, messagesIn, mains, history>>

WriteBody(e, op) ==
    /\ op.part = "body" /\ Succeeds(e, op)
    /\ Written(e, op)
    /\ UNCHANGED <<socket, jobs, messagesIn, mains, history>>

WriteValidation(e, op) ==
    /\ op.part = "validation" /\ Succeeds(e, op)
    /\ writing' = [writing EXCEPT ![e] = Others(e, op)]
    /\ IF e[2] = "client" THEN StartRead(e, "header", None) ELSE UNCHANGED reading
    /\ UNCHANGED <<socket, wire, jobs, messagesOut, messagesIn, mains, history>>

WriteFails(e, op) ==
    /\ Fails(e, op)
    /\ Close(e, reading[e], Others(e, op))
    /\ UNCHANGED <<messagesIn, mains, history>>

-----------------------------------------------------------------------------
(* Handlers of reads.                                                      *)

Arrives(e, part) ==
    /\ reading[e].part = part /\ reading[e].open /\ wire[e] # <<>> /\ Alive(e)

AddIncomingMessageQueue(e, m) ==
    /\ IF e[2] = "server"
       THEN messagesIn' = Append(messagesIn, [remote |-> e[1], msg |-> m])
       ELSE UNCHANGED messagesIn
    /\ received' = [received EXCEPT ![e] = Append(@, m)]
    /\ StartRead(e, "header", None)

Take(e) == wire' = [wire EXCEPT ![e] = Tail(@)]

(* The server goes on to the first header if the answer is right, and      *)
(* closes the socket if not; the client answers.                           *)
ServerReadValidation(e) ==
    /\ e[2] = "server" /\ Arrives(e, "validation")
    /\ \/ /\ Head(wire[e])[2].kind = "solution"
          /\ StartRead(e, "header", None)
          /\ Take(e)
          /\ UNCHANGED <<socket, jobs, messagesOut, writing>>
       \/ /\ Head(wire[e])[2].kind # "solution"
          /\ Close(e, NoRead, writing[e])
    /\ UNCHANGED <<messagesIn, mains, history>>

ClientReadValidation(e) ==
    /\ e[2] = "client" /\ Arrives(e, "validation")
    /\ reading' = [reading EXCEPT ![e] = NoRead]
    /\ \E answer \in {"solution", "wrong"} :
          LET there == Append(wire[Peer(e)], Handshake(answer, e[1])) IN
             /\ wire' = [wire EXCEPT ![e] = Tail(@),
                                     ![Peer(e)] = IF socket[Peer(e)] = "closed" THEN @ ELSE there]
             /\ writing' = [writing EXCEPT ![e] = @ \cup {Op("validation", TRUE)}]
    /\ UNCHANGED <<socket, jobs, messagesOut, messagesIn, mains, history>>

ReadHeader(e) ==
    /\ Arrives(e, "header")
    /\ Take(e)
    /\ LET m == Head(wire[e])[2] IN
          IF HasBody(m)
          THEN StartRead(e, "body", m) /\ UNCHANGED <<messagesIn, received>>
          ELSE AddIncomingMessageQueue(e, m)
    /\ UNCHANGED <<socket, jobs, messagesOut, writing, mains, sent, gone, late>>

ReadBody(e) ==
    /\ Arrives(e, "body")
    /\ Take(e)
    /\ AddIncomingMessageQueue(e, reading[e].msgTempIn)
    /\ UNCHANGED <<socket, jobs, messagesOut, writing, mains, sent, gone, late>>

ReadFails(e) ==
    /\ reading[e] # NoRead /\ Alive(e)
    /\ ~reading[e].open \/ ~IsConnected(e) \/ socket[Peer(e)] = "closed"
    /\ Close(e, NoRead, writing[e])
    /\ UNCHANGED <<messagesIn, mains, history>>

(* A handler or a lambda finds its connection destroyed.                   *)
RunsLate(c) ==
    LET e == Server(c) IN
    /\ socket[e] # "none" /\ ~Alive(e)
    /\ jobs[e] # <<>> \/ reading[e] # NoRead \/ writing[e] # {}
    /\ late' = late \cup {c}
    /\ jobs' = [jobs EXCEPT ![e] = <<>>]
    /\ reading' = [reading EXCEPT ![e] = NoRead]
    /\ writing' = [writing EXCEPT ![e] = {}]
    /\ UNCHANGED <<socket, wire, messagesOut, messagesIn, mains, sent, received, gone>>

-----------------------------------------------------------------------------
(* Connecting.                                                             *)

ConnectToServer(c) ==
    /\ socket[Client(c)] = "none"
    /\ socket' = [socket EXCEPT ![Client(c)] = "open"]
    /\ reading' = [reading EXCEPT ![Client(c)] = Read("validation", TRUE, None)]
    /\ UNCHANGED <<wire, jobs, messagesOut, writing, messagesIn, mains, history>>

(* Mutant: Send runs its lambda at once, instead of posting it.            *)
AcceptDispatching(c) ==
    LET e == Server(c)
        m == Message("ServerAccept", c, 0)
    IN
    /\ socket[e] = "none" /\ socket[Client(c)] # "none"
    /\ socket' = [socket EXCEPT ![e] = "open"]
    /\ messagesOut' = [messagesOut EXCEPT ![e] = <<m>>]
    /\ sent' = [sent EXCEPT ![e] = <<m>>]
    /\ connections' = Append(connections, c)
    /\ writing' = [writing EXCEPT ![e] = {Op("header", TRUE), Op("validation", TRUE)}]
    /\ wire' = [wire EXCEPT ![Client(c)] = <<<<"header", m>>, Handshake("puzzle", c)>>]
    /\ reading' = [reading EXCEPT ![e] = Read("validation", TRUE, None)]
    /\ UNCHANGED <<jobs, messagesIn, broadcast, accepted, received, gone, late>>

(* The accept handler: OnClientConnect sends ServerAccept, the connection  *)
(* goes into the list, and ConnectToClient starts the handshake.           *)
WaitForClientConnection(c) ==
    LET e == Server(c) IN
    /\ socket[e] = "none" /\ socket[Client(c)] # "none"
    /\ socket' = [socket EXCEPT ![e] = "open"]
    /\ Post(e, Message("ServerAccept", c, 0))
    /\ connections' = Append(connections, c)
    /\ writing' = [writing EXCEPT ![e] = {Op("validation", TRUE)}]
    /\ wire' = [wire EXCEPT ![Client(c)] = Append(@, Handshake("puzzle", c))]
    /\ reading' = [reading EXCEPT ![e] = Read("validation", TRUE, None)]
    /\ UNCHANGED <<messagesOut, messagesIn, broadcast, accepted, received, gone, late>>

-----------------------------------------------------------------------------
(* The main thread of a client.                                            *)

HandleIncoming(c) ==
    /\ IsConnected(Client(c)) /\ c \notin accepted
    /\ \E i \in DOMAIN received[Client(c)] :
          received[Client(c)][i].kind = "ServerAccept"
    /\ accepted' = accepted \cup {c}
    /\ UNCHANGED <<wires, messagesIn, connections, broadcast, history>>

(* The threads that send are started by ServerAccept.                      *)
SendToServer(c, kind) ==
    LET n == Len(sent[Client(c)]) + 1 IN
    /\ c \in accepted \cap Speakers /\ IsConnected(Client(c)) /\ n <= MaxMessages
    /\ Post(Client(c), Message(kind, c, n))
    /\ UNCHANGED <<socket, wire, messagesOut, reading, writing, messagesIn, mains,
                   received, gone, late>>

(* The process ends, at any moment.                                        *)
Leave(c) ==
    /\ IsConnected(Client(c))
    /\ Close(Client(c), NoRead, {})
    /\ UNCHANGED <<messagesIn, mains, history>>

-----------------------------------------------------------------------------
(* The main thread of the server.                                          *)

(* A ping is sent back, whether or not its client is still connected.      *)
BouncePing ==
    /\ broadcast.msg = None /\ messagesIn # <<>>
    /\ LET m == Head(messagesIn) IN
          /\ m.msg.kind = "ServerPing"
          /\ Post(Server(m.remote), m.msg)
    /\ messagesIn' = Tail(messagesIn)
    /\ UNCHANGED <<socket, wire, messagesOut, reading, writing, mains,
                   received, gone, late>>

(* MessageAllClients: the loop takes the connections that the list has     *)
(* when it begins.                                                         *)
MessageAllClients ==
    /\ broadcast.msg = None /\ messagesIn # <<>>
    /\ LET m == Head(messagesIn) IN
          /\ m.msg.kind = "MessageAll"
          /\ broadcast' = [msg |-> [m.msg EXCEPT !.kind = "ServerMessage"], next |-> 1,
                           end |-> Len(connections), remote |-> m.remote]
    /\ messagesIn' = Tail(messagesIn)
    /\ gone' = {c \in Clients : socket[Server(c)] = "closed"}
    /\ UNCHANGED <<wires, connections, accepted, sent, received, late>>

(* Mutants: a lost connection is erased within the loop; the client that   *)
(* is left out falls into the branch of those that are lost.               *)
VisitErasing ==
    LET c == connections[broadcast.next] IN
    /\ broadcast.msg # None /\ broadcast.next <= broadcast.end
    /\ IF IsConnected(Server(c))
       THEN /\ Post(Server(c), broadcast.msg)
            /\ broadcast' = [broadcast EXCEPT !.next = @ + 1]
            /\ UNCHANGED connections
       ELSE /\ connections' = RemoveAt(connections, broadcast.next)
            /\ broadcast' = [broadcast EXCEPT !.next = @ + 1, !.end = @ - 1]
            /\ UNCHANGED <<jobs, sent>>
    /\ UNCHANGED <<socket, wire, messagesOut, reading, writing, messagesIn, accepted,
                   received, gone, late>>

VisitOthers ==
    LET c == connections[broadcast.next] IN
    /\ broadcast.msg # None /\ broadcast.next <= broadcast.end
    /\ IF IsConnected(Server(c)) /\ c # broadcast.remote
       THEN Post(Server(c), broadcast.msg) /\ UNCHANGED connections
       ELSE /\ connections' = [connections EXCEPT ![broadcast.next] = None]
            /\ UNCHANGED <<jobs, sent>>
    /\ broadcast' = [broadcast EXCEPT !.next = @ + 1]
    /\ UNCHANGED <<socket, wire, messagesOut, reading, writing, messagesIn, accepted,
                   received, gone, late>>

Visit ==
    LET c == connections[broadcast.next] IN
    /\ broadcast.msg # None /\ broadcast.next <= broadcast.end
    /\ IF IsConnected(Server(c))
       THEN Post(Server(c), broadcast.msg) /\ UNCHANGED connections
       ELSE /\ connections' = [connections EXCEPT ![broadcast.next] = None]
            /\ UNCHANGED <<jobs, sent>>
    /\ broadcast' = [broadcast EXCEPT !.next = @ + 1]
    /\ UNCHANGED <<socket, wire, messagesOut, reading, writing, messagesIn, accepted,
                   received, gone, late>>

\* The elements of s at the positions in S, in order.
Rank(S, i) == Cardinality({k \in S : k <= i})
Pick(s, S) == [j \in 1..Cardinality(S) |-> s[CHOOSE i \in S : Rank(S, i) = j]]

\* What std::remove leaves before the erase: the elements but x.
Kept(s, x) == {i \in DOMAIN s : s[i] # x}
Without(s, x) == Pick(s, Kept(s, x))

Erase ==
    /\ broadcast.msg # None /\ broadcast.next > broadcast.end
    /\ connections' = Without(connections, None)
    /\ broadcast' = Silent /\ gone' = {}
    /\ UNCHANGED <<wires, messagesIn, accepted, sent, received, late>>

-----------------------------------------------------------------------------
Handler(e) ==
    \/ Send(e)
    \/ \E op \in writing[e] : \/ WriteHeader(e, op) \/ WriteBody(e, op)
                              \/ WriteValidation(e, op) \/ WriteFails(e, op)
    \/ ServerReadValidation(e) \/ ClientReadValidation(e)
    \/ ReadHeader(e) \/ ReadBody(e) \/ ReadFails(e)

Update == BouncePing \/ MessageAllClients \/ Visit \/ Erase

Next ==
    \/ \E e \in Ends : Handler(e)
    \/ Update
    \/ \E c \in Clients :
          \/ ConnectToServer(c) \/ WaitForClientConnection(c) \/ RunsLate(c)
          \/ HandleIncoming(c) \/ Leave(c)
          \/ \E kind \in {"ServerPing", "MessageAll"} : SendToServer(c, kind)

Spec == Init /\ [][Next]_vars

-----------------------------------------------------------------------------
TypeOK ==
    /\ socket \in [Ends -> {"none", "open", "closed"}]
    /\ wire \in [Ends -> Seq(Units)]
    /\ jobs \in [Ends -> Seq(Messages)]
    /\ messagesOut \in [Ends -> Seq(Messages)]
    /\ reading \in [Ends -> [part : Parts \cup {"none"}, open : BOOLEAN,
                             msgTempIn : Messages \cup {None}]]
    /\ writing \in [Ends -> SUBSET [part : Parts, open : BOOLEAN]]
    /\ messagesIn \in Seq([remote : Clients, msg : Messages])
    /\ connections \in Seq(Clients \cup {None})
    /\ broadcast \in [msg : Messages \cup {None}, next : Nat, end : Nat,
                      remote : Clients \cup {None}]
    /\ accepted \subseteq Clients
    /\ sent \in [Ends -> Seq(Messages)] /\ received \in [Ends -> Seq(Messages)]
    /\ gone \subseteq Clients /\ late \subseteq Clients

(* Every read finds what it is for: the handshake is the first thing that  *)
(* each end takes from its socket, although the server sends ServerAccept  *)
(* before it (OnClientConnect), and a body is that of the header before it *)
(* whatever Send is called meanwhile, by whatever thread (connection.h).   *)
Framed ==
    \A e \in Ends :
        reading[e] # NoRead /\ IsConnected(e) /\ wire[e] # <<>> =>
            /\ Head(wire[e])[1] = reading[e].part
            /\ reading[e].part = "body" => Head(wire[e])[2] = reading[e].msgTempIn

\* The messages of e that have not arrived, in order: the front of messagesOut
\* is on the wire or arrived, as its header is written at once.
HeadersAt(units) == {i \in DOMAIN units : units[i][1] = "header"}
Headers(units) ==
    LET headers == Pick(units, HeadersAt(units))
    IN [i \in DOMAIN headers |-> headers[i][2]]
Undelivered(e) ==
    (IF reading[Peer(e)].part = "body" THEN <<reading[Peer(e)].msgTempIn>> ELSE <<>>)
        \o Headers(wire[Peer(e)])
        \o (IF messagesOut[e] = <<>> THEN <<>> ELSE Tail(messagesOut[e]))
        \o jobs[e]

(* What arrives is what was given to Send, once each and in order, and as  *)
(* long as both ends are open nothing is lost on the way through the       *)
(* posted lambdas, the queue and the writes (Send, WriteHeader, WriteBody).*)
StreamKept ==
    \A e \in Ends :
        /\ IsPrefix(received[Peer(e)], sent[e])
        /\ IsConnected(e) /\ IsConnected(Peer(e))
               => sent[e] = received[Peer(e)] \o Undelivered(e)

(* When a broadcast ends, each connection that the list had when it began  *)
(* was sent the message once or is dropped, and none that was closed by    *)
(* then is still there, although connections are accepted and closed       *)
(* during the loop (MessageAllClients).                                    *)
BroadcastSettles ==
    broadcast.msg # None /\ broadcast.next > broadcast.end =>
        \A i \in 1..broadcast.end :
            LET c == connections[i] IN
            c # None =>
                /\ c \notin gone
                /\ \E j \in DOMAIN sent[Server(c)] : sent[Server(c)][j] = broadcast.msg
                /\ IsInjective(sent[Server(c)])

(* A connection whose socket is open is never destroyed, however accepts,  *)
(* broadcasts and messages still queued interleave; one that is closed may *)
(* be, with handlers still to run (late).                                  *)
OpenIsKept ==
    \A c \in Clients : /\ IsConnected(Server(c)) => Alive(Server(c))
                       /\ c \in late => socket[Server(c)] = "closed"

(* A queue of messages has exactly one write under way, started when the   *)
(* first message came and handed on by each handler, so that no message    *)
(* waits for ever and no two are written at once (Send, WriteHeader,       *)
(* WriteBody); and an open connection past its handshake is being read.    *)
WritesAndReadsGoOn ==
    \A e \in Ends :
        LET writes == {op \in writing[e] : op.part \in {"header", "body"}} IN
        IsConnected(e) =>
            /\ messagesOut[e] = <<>> => writes = {}
            /\ messagesOut[e] # <<>> => \E op \in writes : writes = {op}
            /\ reading[e] = NoRead => Op("validation", TRUE) \in writing[e]
=============================================================================
