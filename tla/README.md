# Verification of ServerProgramming

TLA+ models of the servers in this repository, the TLC runs that check them on
small instances and theorems about them checked by TLAPS. Paths are relative to
the repository; `IOCPServer.cpp:188` is a line of
`src/GameServer/Server/IOCPServer.cpp`.

## 1. The system

The repository holds four programs. The MMO game server (`src/GameServer`) is
the one with a life of its own: six worker threads over a Windows I/O completion
port, a timer thread, 10 000 player slots, 200 000 NPCs and a database. The asio
framework (`src/Asio`) is a message-passing client/server library with a chat
server; `src/RUDP` and `src/BasicSocket` are exercises. The game server has a
Direct2D client (`src/GameServer/D2DApp`).

### Components

| component | state | operations | hard because |
|---|---|---|---|
| receive path: `BufferQueue`, `WSAOVERLAPPEDEX`, `ProcessPackets` | byte array, read and write index, remaining size; the posted receive | post a receive, take a completion, dispatch packets | TCP fragments at any byte; the buffer is compacted only in one corner case; it outlives the connection |
| connections: `IOCPServer`, `Session`, `Socket`, `IOCP`, `DBHandler` | `gClients[]`: `mState`, `Info`, `mSocket`; the database's *connected* flag | accept, login, receive, send, disconnect | completions name a slot, not a session; slots are reused; no lock spans a handler; calls fail at once or later |
| NPCs and timer: `IOCPServer`, `Session`, `Timer` | `mState` and `hp` of each NPC, timer queue, posted completions | activate, move, attack, die, revive, sleep | two atomics per NPC changed by workers and the timer thread; an NPC lives only through a chain of events |
| view lists: `mViewList` | a set of ids per player, under its own lock | move, login, disconnect, NPC move, death and revival update two lists each | two lists must agree, and are updated from copies |
| sectors: `SectorManager` | ids in a 100 x 100 grid under one mutex | insert, move, near sectors | corners and borders of the grid; ids of players that left |
| battle: `Session` | hp, exp, level, attack power | hit, level up | shorts and ints at their limits |
| memory pool: `MemoryPool`, `WSAOVERLAPPEDEX` | free blocks | allocate, free, fall back to the heap | leaks on failed sends, heap blocks returned to the pool |
| start and shutdown: `IOCPServer`, `Timer`, `main` | `mLoop` of server and timer | run, SIGINT, destructors | workers blocked on the port, the timer's loop, the order of statics |
| Direct2D client: `NetClient`, `GraphicScene`, `D2DApp` | objects by id, `mPlayerID`, windows | packets, update, draw, close | one lock, not taken everywhere; two threads that wait for each other |
| message queue of the asio framework: `tsqueue` | deque, two mutexes, a condition variable | `push_back`, `wait`, `Update` | test outside the lock; nested mutexes |
| asio connections: `connection`, `server_side`, `client_side` | socket, outgoing queue, operations under way; `m_connections` | handshake, send, write and read handlers, broadcast | handlers and the main thread share the list; writes must neither stop nor overlap |

The parts talk through the completion port (a queue that every worker takes
from), the timer queue (a priority queue under a mutex), the atomics of
`gClients`, the sectors and view lists under their mutexes, the pool of
overlapped blocks and the database. A worker takes a completion and runs its handler to
the end. A player's receive is posted again at the end of the handler of the one
before, which keeps the packets of one connection in order. It does not keep the
handlers of one slot apart: a failed or short send, and a refused login,
disconnect a slot while another worker is at work on it, and the next client may
be in it before that worker is done. Nor are the moves of one NPC kept apart,
which may have two chains of them at once.

### What makes each part correct

- Receive path: packets are dispatched in order, each once and whole, whatever
  the fragmentation; a healthy client is never disconnected by the buffer.
- Connections: an account is played by one client at a time; the database's flag
  and the slots agree; a slot is always watched by a receive, a completion or a
  handler; who leaves is logged out and its slot freed.
- NPCs: an active NPC has something coming that moves it, a dead one something
  that revives it, exactly once per kill; chains of moves do not multiply; NPCs
  sleep when alone and are awake when not.
- View lists: a player sees who is near and nobody else once all is quiet; its
  client displays what the list says; races heal with the next move.
- Sectors: the sectors searched cover the sight; who is in play is listed in
  the sector it stands in.
- Pool: a block has one owner at a time. Shutdown: every thread ends.
- Client: only pointers to objects are used; closing it ends the process.
- Message queue of the asio framework: order, no pop of an empty queue, no
  deadlock of its two mutexes, no message left behind by a sleeping server.
- Asio connections: the handshake comes first, a message arrives whole, once
  and in order; one write at a time, and always one while messages wait; an
  open connection is not destroyed, a closed one leaves the list.

`PROJECT.json` lists the places of the code where each of these can go wrong
(`hazards`) with the properties that watch them.

## 2. Modules

| module | models | checked by | proved in |
|---|---|---|---|
| `RecvBuffer` | the receive path of one slot | `MCRecvBuffer` | `RecvBufferProofs` |
| `PacketStream` | what it promises: an ordered stream that loses only a suffix | as a refinement in `MCRecvBuffer` | `RecvBufferProofs` |
| `NpcLifecycle` | NPCs, workers and timer | `MCNpcLifecycle` | `NpcLifecycleProofs` |
| `Sessions` | slots, accept, login, disconnect, database | `MCSessions` | `SessionsProofs` |
| `Sectors` | positions, sight, the grid of sectors and its operations | with `World` | `WorldProofs` |
| `World` | handlers of players and NPCs over sectors and view lists, and what clients display; EXTENDS `Sectors` | `MCWorld` | `WorldProofs` |
| `Runtime` | main, workers, timer thread, port and pool, from start to the statics' destructors | itself | `RuntimeProofs` |
| `BlockPool` | what the pool promises | as a refinement in `Runtime` | `RuntimeProofs` |
| `TsQueue` | `tsqueue` between the asio thread and the main loop | itself | `TsQueueProofs` |
| `AsioConnection` | both ends of the connections of an asio server and its clients | itself | `AsioConnectionProofs` |
| `ClientScene` | network and window thread of the Direct2D client | itself | `ClientSceneProofs` |

The modules of the game server divide one program by state: a handler that
touches sessions, view lists and blocks is in several of them, each time reduced
to what it does to the state of that module. What belongs to another module is
left free where it can be: a send may fail, a player may arrive at any time, a
slot may be closed at any time. Where a module is more orderly than the code the
difference is named: `Sessions` is of clients that log in once; `NpcLifecycle`
takes a post to the completion queue to succeed; in `World` NPCs are revived but
do not die, and players neither.

Operators named as mutants in a comment (`ClearIndicesOnly`, `ConnectAnyway`, ...)
are not part of the models. Each is a plausible mistake in the definition that
follows it, and shows that a property notices that mistake.

### RecvBuffer

`mBuffer`, `mReadIndex`, `mWriteIndex` and `mRemainSize` are the fields of
`BufferQueue`; `pc` says whether the slot's receive is posted, completed, or
being handled. A byte is the position at which it was sent, and positions grow
over all sessions of the slot, so that an old byte is never mistaken for a new
one. `sizeAt` gives the size of the packet that starts at a position, which the
real stream carries in the first byte of the packet. The code reads a size as a
signed char, so a byte that starts no packet stands for any member of `Bytes`,
zero and negative ones included. The kernel completes a posted receive with any
number of bytes up to what was sent and what has room, or with none. A handler
is split into taking the bytes in (`HandleRecv`: `ShiftWritePtr`), one step per
packet (`ProcessPacket`) and the next receive (`RecvMsg`).

`open` says that the slot is not FREE. It is a variable of its own because the
slot may be closed while its receive is under way or its handler at work
(`DisconnectElsewhere`: a refused login, a failed send). `AcceptNewClient` gives a
slot whose buffer is at rest to the next connection without clearing it, as the
code does; `AcceptWhileInUse` does the same while the buffer is still in use.

The model stops in two places where what the code does is undefined. `pc` is
`shared` once two sessions use one buffer, unsynchronised. It is `wild` once a
negative size has taken the read index so far below the array that the
compaction writes more than the array holds. What leads there is in the model, and
the properties say when it can happen. A size of 0 makes the dispatch loop spin,
which the model does as well.

### NpcLifecycle

One action per access to shared state. A worker's way through `case NPC_MOVE` is
`MoveStart` (the test of INGAME), `MoveNPC`, one `ScanNext` per player of the
scan, then `Rearm` or `Sleep`. A player's way is `PlayerMove` (a move, teleport
or login, which changes who is near), then `ActivateNPC` and `StartChain` for
each NPC near, then `PlayerDone`; or `Attack`, `CheckDead`, `SetDead`,
`ScheduleRevive`. The timer thread pops due events (`FireMove`, `FireRevive`)
and revives (`SetAlive`, then the scan). Time is a countdown: `Tick` moves every
event one tick nearer and waits for nobody, since an event may be handled late
by any amount. The two delays keep their order (1 s before 3 s).

### Sessions

The slots hold `mState`, `Info.name` and `mSocket`. A client is its socket:
`open`, `key` (the slot it is registered under), outstanding receives and sends,
and queued completions of both kinds. Workers go from `TakeAccept`, `TakeData` or
`TakeFailed` through the steps of the handlers. Queued completions are unordered,
since a worker may be held up between dequeuing a completion and handling it.

`PostRecv` and `PostSend` have the outcomes of WSARecv and WSASend: the operation
becomes outstanding, or fails at the call. The latter happens on a closed
socket, or on one whose client has gone. `unnoticed` remembers the receives that
failed at the call on an open socket, because no part of the server does.

The code has no notion of a session beyond the slot number, so a late
completion acts on whoever has the slot now. The history variable `crossed` is
set when a handler changes a slot or an account that is not that of the client
it serves. What the code does before that is the subject of the invariants.

Calls fail as they do in the code. `Register` and `Repost` may throw, which ends
the worker (`threw`, `dead`) with no AcceptEx outstanding. The database may report
an error of `disconnect`, which is ignored, or of a login, before or after
`connect_with_id` has marked the account; `orphaned` remembers the accounts that
stay connected for that reason.

The stored procedures `connect_with_id` and `disconnect` are not in the
repository. They are taken, from their use in `DBHandler.cpp`, to test and set
and to reset one flag per account, atomically.

### TsQueue

`mtxQueue` and `mtxBlocking` are held by a thread or by nobody. `push_back` is
`PushBack` (append, under `mtxQueue`, which it keeps) and `Notify`. `wait` is
`Test`, `Lock`, `Wait`, `Relock`, `Leave`, with wake-ups for no reason; `Update`
goes on with `Drain` and `PopFront`. Calls that take and release one mutex are
one step. The server has one asio thread and so one producer; the model allows
several, as the class does.

### Sectors and World

`Sectors` has the pure part: `IsNear`, `MovePosition`, `GetSectorIndex`,
`GetNearSectorIndexes` and the operations on the grid. `World` has the handlers.
A handler has a name of `Handlers` and works for `Object[h]`; with several names
for one object its handlers overlap as those of different objects do. `pc`,
`prev`, `next`, `secs`, `cand`, `near`, `list` and `who` are local variables (the
positions for `MoveID`, sectors still to read, ids still to treat, `nearlist`, the
copy of the view list). `Accept` gives a free slot to a client at any time, and
packets and disconnects of a slot that has had a client may come in any state of
it, second logins too: what `Sessions` says of their order is not used. Each
access to a sector, a position, a state or a view list is a step of its own, as
is each message: `out` is the message about to be sent once the list is updated,
and `shown[p]` is what the client of `p` displays after the messages so far.

| handler | actions |
|---|---|
| `ProcessLoginPacket` | `Login`, `InsertID`, `Enter` or `EnterRefused`, then the scan of `SendNearPlayersInfo` (`ReadSector`, `Look`, `Tell`) |
| move and teleport packets | `Move` or `Teleport`, `TeleportY`; `ReadNext`, `MoveID`; the scan (`ReadSector`, `Look`, `Scanned`), `PlayerSight`, `PlayerGone`, `PlayerMoved` |
| `Disconnect` | `Leave`, `LeaveView` per player of the list, `Left` |
| `MoveNPC` and `case NPC_MOVE` | `MoveNPC` or `DropMove`, `NpcOld`, `NpcStep`, `ReadNext`, `MoveID`, `NpcNew`, `NpcSight`, `NpcGone`, `NpcMoved`, `Keep` or `Sleep` |
| `ReviveNPC` | `ReviveNPC`, `ReviveLook` per player, `Revived` or `Sleep` |

Histories name what the code does not promise: `overlapped` (two handlers have
run at the same time, or one in a state of the slot it is not meant for), `alone`
(no other has run during this one), `crossed` (two handlers had messages about
the same object for the same client under way), `inherited` (`Disconnect` clears
neither the slot's view list nor its sector, so the next client of the slot
begins with both) and `strays`: the objects whose own handlers have met. Of two
workers that move one NPC, the one that is late may list it in a sector that the
other has moved it out of. An object stops being a stray when it is put into a
sector where it then stands, with no other handler of its own running.

Two kills of one death start two revivals (`ChainsBounded` of `NpcLifecycle` says
how many chains of moves there can be). The second finds the NPC alive: that is
the revival that `World` has, and the one that starts a second chain. Deaths use
the calls that are modelled for moves, and are in `NpcLifecycle` without
positions.

### Runtime and BlockPool

A block is free (`memAddrs`), in the hands of a thread (`made`, `hand`), with
the kernel (`posted`), in a queued completion (`queued`) or `lost`. Each place is
a variable of its own, so nothing in the shape of the model keeps a block from
being in two. `New` is `operator new` of `WSAOVERLAPPEDEX`, with its fall back to
the heap; `Finish` is its `operator delete`; `Send` is WSASend, which may fail at
the call and then leaves the block with nobody. Handlers are reduced to the
messages they send and the timer events they add.

`main` goes through the phases of `IOCPServer::Run` and of the destructors:
`Run` (which may throw), `Spawn`, `StartTimer`, `Join`, `Destructed`,
`DestroyPool`, `DestroyTimer`, `JoinTimer`. SIGINT sets off `Interrupt` and
`PostEmpty`, one empty completion per worker. `gTimer` is destroyed after the
pool, so the timer thread may still want blocks from a pool that is gone
(`UseDeadPool`, kept in the history `late`): undefined behaviour, which the model
bounds to that thread and does not continue. A post that fails loses its block and
ends the timer thread by an exception that `TimerThreadFunc` catches (`PostMove`).

### AsioConnection

A socket has two ends `<<c, side>>`, and the code of `class connection` is
written once for both. `wire[e]` is what is on the way to an end, in units: a
handshake, a header, a body. `jobs` holds the lambdas that `Send` has posted,
`messagesOut` the outgoing queue, `reading` and `writing` the asynchronous
operations under way. A handler is one step of the thread of the io_context. The
server's main thread is `Update` with `BouncePing`, `MessageAllClients`, `Visit`
(one connection of the loop) and `Erase`; `connections` is `m_connections`, where
`None` is a pointer that was reset.

The lambda of a handler holds a bare `this`. When a broadcast destroys a closed
connection, its operations are aborted but their handlers still run
(`RunsLate`): what they then do is undefined; the model records it in `late` and
lets nothing follow. The data race on the deque `m_connections` between the
accept handler and the loop is not modelled beyond the order of the two: each
`push_back` and each step of the loop is atomic.

A comment (`server_side.h:206`) calls `m_connections` the container of active
validated connections. The model follows the code: a connection is listed when
it is accepted, before the handshake, and a closed one stays listed until the
next broadcast.

### ClientScene

`objects` is `mMovingObjects`, where an id is absent, a null pointer or an
object. A section under `mMovingObjectsLock` is one step, and so is each use of
an object outside of one. The network thread (`NetworkThreadFunc`,
`ProcessPackets` and one action per kind of packet) and the window thread
(`TakeQuit`, `Idle`, `Update`, `UpdateObject`, `EraseTimeOutObjects`, `Draw`,
`Join`) interleave. `fault` is set by a use that ends the process: a null
pointer, or a walk over a container that was changed under it (`Walks`), which
may or may not fail. `LoggedIn` is what the server may send before `LOGIN_OK`
reaches the client: it sets INGAME first (`IOCPServer.cpp:509`), so other
handlers may tell about the player before.

`Update` inserts its null entry without the lock; that insertion is taken as
atomic. Failures of the start-up and sends of the client are left out.

## 3. Runs

| run | instance | shows |
|---|---|---|
| `recv_buffer` | buffer of 5, packets of 2 and 3, other chars -3, 0 and 127, window 8, stream of 13, 2 sessions | indices, bounds, framing, refinement of `PacketStream` |
| `recv_buffer_live` | buffer of 6, window 5, 1 session | no receive without room; every packet sent is dispatched |
| `npc` | 1 NPC of 2 hits, 2 players, 2 workers + timer, 3 attacks | chains, revivals |
| `npc_live` | 1 NPC of 1 hit, 2 players, 2 workers + timer, 1 attack | liveness of revival, movement and sleep |
| `npc_near` | no attacks, 1 player | **violated**: an NPC asleep beside a player |
| `sessions` | 2 slots, 2 clients, 2 accounts (one GM), 2 workers, 2 packets, 1 send, 1 strike | slots and database agree, no slot lost, one receive each, accepting goes on |
| `sessions_live` | 1 slot, 2 clients, 2 workers | a full server; the slot of who leaves is freed |
| `world` | plane of 4 x 1 in 2 sectors, sight 1; 2 players, 1 NPC, 2 handlers at a time, also of one object, 1 move, 2 sessions, 1 revival | sectors, view lists, what clients display |
| `runtime` | 2 workers, timer, main; 3 blocks, 1 of them of the pool; 1 receive, 1 send, 2 events | shutdown reaches everybody; refinement of `BlockPool` |
| `tsqueue` | 2 producers, 4 messages | order, no empty pop, no deadlock, no sleep beside a message and nothing waiting for ever unless a notification was missed |
| `asio` | 2 clients, one of which sends 1 message | handshake, order, write loop, broadcast, lifetime of connections |
| `client_scene` | ids 0, 1 and 2, 4 packets | which pointers may be null; closing ends the process |

**Bounds.** A buffer of 5 with packets of 2 and 3 has every alignment of packet
boundaries against the end of the array, and a stream of 13 wraps it more than
twice; the window of 8 exceeds the buffer, so that it can fill up. Two sessions
are what a left-over byte needs. Of the chars that are no size of a packet there
are one below zero, zero, and one larger than any buffer here; `MaxBack` stops a
repeated negative size at three bytes below the array, from where the compaction
already overruns it.

Two hits let two attackers share a kill; two workers and the timer are the three kinds of threads that write an NPC's state;
three attacks allow a kill, one more hit and an attack on the revived NPC. Two
slots and two clients let one slot be reused while the other is in use. One send
outstanding beside the receive gives a socket two failed completions, the cause
of every crossing.

In `world`, accounts start at the border of the first sector and the NPC at the
border of the second: all three see each other over it, one move or NPC step
takes an object to the other sector or out of sight, and two sessions let a slot
be reused. Two names for each object let two workers be in the moves of the NPC,
one chain of which a revival starts, or in those of a slot. Sectors larger than
the sight, corners and planes of any size are the subject of the theorem `NearSectorsCoverSight`. In `runtime`, a pool of one
block makes the fall back to the heap common, and the heap's blocks come back to
the pool; one worker can hold the completion that ends the server while the other
handles a message; two events of two kinds let the timer thread both post and
wait. In `asio`, the second client is what a broadcast needs to meet a
connection that is being accepted, closed or destroyed; the message asks for a
bounce or a broadcast, and `ServerAccept` gives the server's end a second
message in its queue. In `client_scene` the ids are the special 0, this
client's, and another; four packets are enough to be put into the scene, logged
in, changed and removed.

`MaxPackets`, `MaxSends`, `MaxStrikes`, `MaxAttacks`, `MaxStream`,
`MaxSessions`, `MaxBack`, `MaxMessages`, `MaxMoves`, `MaxRevivals`, `MaxRecvs`,
`MaxEvents`, `Speakers`, `Spawns` and `Homes` are bounds of the models, not of
the code. Symmetry is used only in runs without liveness, over workers or players that no action tells
apart.

**Constraints.** `sessions` explores no further from a state in which a handler
has crossed (`NotCrossed`). The invariants of that run say nothing of such
states, so the constraint hides no violation. `world` (`Explored`) takes two
instances in one: one player and the NPC, with two handlers of one object; and two
players, with one handler of each object and the NPC moving while both are still.
What all of them do at the same time is left to the theorems, which prove every
property of this run without such a limit.

**Deadlock** is checked for `RecvBuffer` and `NpcLifecycle` (`RecvBuffer` has a
step `Quiet` for the state in which its bounds are used up). In the others the
model may really stop: the clients may all be gone and every worker waiting, the
queue drained and its consumer asleep, the process ended. There the liveness
properties and `EveryWaiterReleased` say which stops are right.

**Fairness.** Each thread that is inside a handler goes on (weak fairness per
thread). Taking a given completion or a due timer event is strongly fair: the
port and the queue are served for as long as the server runs, but a particular
entry may be passed over for others. The same holds for a mutex that is free
again and again. In `RecvBuffer` and `Sessions`, outstanding receives and sends
complete. In `Runtime`, every worker, the timer thread, main and the signal
handler go on, and an empty completion is not passed over for ever; neither
clients nor the kernel nor SIGINT are promised. In `ClientScene` both threads
are scheduled, and nothing is asked of server or user. Nothing is assumed of
players: they need not send, move, attack or leave, so each liveness property
holds whatever they do. A condition variable's spurious wake-up is possible and
never promised.

## 4. What the runs show of the code

**Violated.** `npc_near` (`IOCPServer.cpp:188`): the worker has scanned the
players and found nobody near. A player arrives and its exchange SLEEP ->
INGAME fails, as the NPC is still INGAME. The worker stores SLEEP. The NPC
sleeps until some player near it moves again.

**Exceptions.** Other properties hold but for cases that they name, each a place
where the code promises less than one would expect:

- `RecvBuffer`, `dirty` (`IOCPServer.cpp:353`): a session is cut inside a packet
  and the next one of the slot begins with its bytes. From there on any char may
  be taken for a size (`BufferQueue.cpp:64`), and a negative one takes the
  indices out of the array (`lost`, `wild`).
- `RecvBuffer`, `shared` (`IOCPServer.cpp:500` then 134): a slot is free, and may
  be taken, while a worker or the kernel still uses its buffer.
- `Sessions`, `orphaned` (`DBHandler.cpp:62`, `IOCPServer.cpp:347`): an error of
  the database leaves an account connected that nobody plays. It is refused
  to everyone from then on, until a session that finds its name in the slot ends.
- `Sessions`, `unnoticed` (`Socket.cpp:105`): a client leaves while its packet
  is handled and the next receive fails at the call. No completion will come,
  the slot stays INGAME and the account connected.
- `Sessions`, `AcceptsGoOn` (`IOCPServer.cpp:102`): a client that aborts before it
  is accepted makes AcceptEx fail. That is handled as a failure of slot 0, and
  no AcceptEx is posted again. RegisterDevice or AsyncAccept may throw
  (`IOCP.cpp:18`, `Socket.cpp:55`), which ends the worker with the same effect.
- `Sessions`, `crossed` (`IOCPServer.cpp:346`): a session ends with a receive
  and a send outstanding, so `Disconnect` runs twice for it. Between the two the
  slot or the account may be taken again; the second logs out, frees or closes
  what belongs to another client. One that closes the socket of a client just
  accepted makes RegisterDevice throw, which ends the worker.
- `TsQueue`, `missed` (`tsqueue.h:89`): the consumer has found the queue empty;
  a push completes and notifies nobody; the consumer sleeps until the next push.
- `World`, `inherited` (`IOCPServer.cpp:348`): the new client of a slot is
  listed where the former one was seen, and is not sent the objects that its
  inherited list holds.
- `World`, `strays` (`IOCPServer.cpp:225`): two handlers of one NPC, or of one slot,
  meet, and the object is listed in a sector it is not in. It stays invisible to
  those that search the right one until it changes its place again.
- `World`, `overlapped` and `crossed` (`IOCPServer.cpp:445`, `Session.cpp:101`):
  handlers that overlap can leave one player in the other's list only, and two
  messages about one object can overtake each other. `LoneMoveRepairs` says what
  heals it.
- `Runtime`, `DeadPoolOnlyByTimer` (`Timer.cpp:14`): the timer thread may use
  the destroyed pool; a start that failed ends in the join of a thread that was
  never started (phase `aborted`).
- `ClientScene`, `ClosedEnds` (`NetClient.cpp:17`): the window thread, which
  takes no more messages after WM_QUIT, joins a network thread that waits in
  SendMessage for it. A message box that nobody answers has the same effect.
- `ClientScene`, `OnlyZeroIsNull` (`Graphics.cpp:285`): until it knows its id
  the client indexes the scene with 0. The null entry this makes is met by the
  loop of `Update` as soon as there is a login with another id, or by packets
  about player 0.

## 5. Proofs

Theorems hold for every value of the constants that satisfies the named
assumptions of the module, which TLC evaluates in each run: that there are
finitely many workers and the timer is none of them, that `None` is no client,
account or slot, that sizes and delays are positive, and, of the game's own
constants, what its headers say of their order. Every safety invariant and every
action property of the passing runs is proved, and so are both refinements.
Each strengthened invariant below was an invariant of a TLC run before it was
proved.

**RecvBufferProofs.** `IndexInv` (types, agreement of the three index fields,
that they are outside the array only when `lost`, and what a posted or completed
receive knows of the room) is inductive on its own and gives
`IndicesAlwaysAgree` and `NoOverflow`. `EndMeansFullAlways` is an
action property of the same invariant. Framing needs more: `ContentInv` (each
unread byte is the byte of the stream it should be), `StreamInv`, `ChainInv`
(each packet ends where the next one starts, or the stream ends) and `FramingInv`
(unless a session was cut inside a packet, the read index stands at the packet
that is due). None of it is claimed once the buffer is `shared`. Their
conjunction with `RoomInv`, `CleanInv`, is inductive and
gives `FramingKept` and `HealthyKept`. The compaction is the one hard step: it
rewrites bytes and all three fields together.

`ReceiveImplementsPacketStream` shows that each step of the receive path is a
step of `PacketStream` or a stutter, with the packets sent whole and not yet
dispatched as those pending. `PacketStream` delivers the least of them, so it has
to be shown that the packet at the read index is the least: `PacketsInv` says
that packets from the frontier on do not overlap and that what was dispatched
lies before it; `EndInv` bounds the stream. `OrderInv` is `CleanInv` with these
two.

**NpcLifecycleProofs.** `TypesKept` proves the types, strengthened by
`HandlerHasNpc`. `NeverStranded` and `DeadWillRevive` are inductive only
together and with the types: reviving an NPC hands it from one to the other. For
each action the proof shows that what it takes away (an event, a completion, a
register) it replaces by the next link of the same chain (`AddKeeps`,
`PopKeepsOthers`, `TickKeeps`, `AtKept`).

`OneRevivalPerKill` and `ChainsBounded` are two accounts kept per NPC,
`KillsPaid` (kills against revivals done, scheduled and in a worker's hands) and
`ChainsPaid` (move chains against what may have started one). They are inductive
with the types. The number of threads at some labels changes by what the one
thread that moved contributes (`ThreadCount`), and the number of events of an NPC
by those added, fired or brought a tick nearer (`EventsCounted` and the lemmas
after it); `StepBalanced` leaves each action the arithmetic of its own thread.

**SessionsProofs.** Two workers may be inside handlers of one client, a receive
and a send of it failing, and handlers trust in what they read some steps before.
None of the four properties is inductive. `Held` says of each worker what its
label entitles it to (`Alone`, `Arriving`, `Claimed`, `LoggingIn`, `Departing`),
of each client what is outstanding, queued or handled for it (`OneReceive`,
`NotHandled`, `ClientOK`, `LoggedHasSlot`), of each slot who watches it (`Owned`,
`Watched`, `Played`), and that one accept is under way (`OneAccept`). It is
inductive as long as no handler has crossed: a step that crosses sets the history
variable, and nothing is claimed after it, since from there on the code promises
nothing. So the theorems say exactly what the run says: `AccountsAlwaysHeld`,
`SlotAlwaysWatched`, `OneReceiverAlways` and `AcceptsAlwaysGoOn` hold in every
state before a crossing, for any number of slots, clients, accounts and workers.
A worker that ended while it handled an accept keeps its place in `OneAccept`, and
an account that an error of the database left connected is in `orphaned` and in
nobody's hands.

**WorldProofs.** `NearSectorsCoverSight` is a statement about arithmetic alone:
whatever the size of the world and of a sector no smaller than the sight, every
position in sight of another lies in one of the sectors searched. It is proved
per axis (the sector of a coordinate at most a sight away is the same or a
neighbour, and the comparison with the sector's border selects that neighbour)
and combined for sides and corners. `InOwnSectorTheorem` rests on `GridInv`: who
is in play and no stray is listed in the sector of its position, and while its
handler stands before `MoveID` in that of the previous one; a login enters the
game only once it is listed; and an object with two handlers at work is a stray.
The proof shows for each action that it leaves other objects' entries alone, and
that an object which stops being a stray is listed where it stands.

`ShownIsAlwaysView` needs `ToldInv`: about an object that never crossed, at most
one message for a given client is under way, it says what the view list says, and
when there is none the client displays what is listed. `LoneMoveAlwaysRepairs` is
an action property of a whole handler, from its first step to its last.
`HandlerInv` carries it: a handler marked as alone is (`AloneInv`), what it has
collected together with what it has still to scan is what is in sight, but for
strays (`SoloScan`, which is where `NearSectorsCoverSight` and `GridInv` come in), and
then what is left to correct is in `nearlist` or in the copy of the view list
(`SoloUpdate`). `ExactAlwaysWhenSequential` goes through every handler in this
way, logins, leaving and NPC moves included: `SeqInv` says that, as long as no
two handlers have overlapped, there are no strays, lists are right between any two
objects at rest and a handler's phase says what holds of the object it works for.

**RuntimeProofs.** The refinement needs one invariant, that the places of a
block are disjoint, with the types; each step is then an `Alloc`, `FromHeap`,
`Dealloc` or stutter of `BlockPool`. `EveryWaiterReleasedAlways` counts: each
worker that waits accounts for one empty completion posted or to be posted, and
one that takes one no longer waits. `DeadPoolOnlyByTimerAlways` follows from the
phases: the pool goes after all workers have been joined.

**TsQueueProofs.** Mutual exclusion of the two mutexes is not needed for
`PopsFindAlways`: only the consumer takes messages out, so what it found in the
queue is still there. `InOrderOnceAlways` says that messages handled and
messages queued are together the messages pushed, in order. `Mutexes` says who
holds which mutex where: a producer between its push and its notification has
`mtxQueue`, `mtxBlocking` is held only where the consumer releases it without
asking for the other (`NoEmbraceAlways`), so no notification falls between the
lock and the sleep, and a message that came while the consumer was on its way to
sleep either still has its notification before it or missed it
(`SleepsOnlyIfMissedAlways`). These are the safety halves of `PushCompletes` and
`HandledUnlessMissed`.

**AsioConnectionProofs.** Five invariants, each inductive with those before it.

- `Inv` (`WritesGoOn`) has the types and says of each end: with no socket it has
  nothing to do (`Unused`); it has at most one write of a message, and only while
  its queue holds one (`Busy`); and as long as its handlers find it, a queue that
  is not empty has a write, and an end that is not being read is a client's in
  its handshake (`GoesOn`). The lemmas go through `connection`'s handlers once
  for both sides.
- `Lists` (`OpenIsAlwaysKept`): an open connection is in the list, and one
  destroyed was closed. Erasing keeps each element but the null pointers, which
  takes the ranks of the positions kept (`Ranks`, `WithoutKeeps`). It makes
  `WritesGoOn` hold with no condition.
- `Framing` (`FramedAlways`): what is on a wire is a chain, in which each unit is
  what the one before it calls for, from what the reader waits for to what the
  writer writes next; and the two ends of a connection are in matching stages of
  the handshake (`Settled`).
- `Streams` (`StreamAlwaysKept`): what was given to `Send` at one end is what has
  arrived at the other, what is on the way (the header just read, the headers on
  the wire), the rest of the queue and the posted lambdas, joined in this order;
  once one of them is closed, what arrived or is on the way still begins it.
  Every handler moves a message from one part to the next (`StreamPut`,
  `StreamRead`, `StreamPosted`). A handshake or a body carries no new message
  (`HeadersAppended`, `HeadersTaken`, on the positions of the headers).
- `Settling` (`BroadcastAlwaysSettles`): that a message is sent on once is not
  seen from the server's lists alone. Clients number what they send (`Numbered`),
  by `Streams` what the server received has the same numbers (`Heard`), so
  messages queued are in order (`InOrder`) and one that was sent on or is being
  broadcast is before all that are queued (`Past`): nobody can have been sent the
  next one yet. In the loop, the connections from the index on were not sent the
  message and those behind it were, or were reset (`NotYet`, `Visited`); a
  connection that is accepted meanwhile is behind the end of the loop.

**ClientSceneProofs.** `OnlyZeroIsNull` is inductive with the types and with what
the network thread knows between storing the player's object and assigning its
id.

The type invariants of all modules are proved; that of `World` is also in a run.

**Only model-checked.** Every liveness property: `SentIsDispatched`,
`KilledIsRevived`, `ActiveIsMoved`, `AloneFallsAsleep`,
`LeftIsFreedUnlessUnnoticed`, `PushCompletes`, `HandledUnlessMissed`,
`ShutdownEnds` and `ClosedEnds`. Fairness is defined by ENABLED, which the prover
does not handle. Liveness of `AsioConnection` is not checked at all, its graph
being too large for it; `WritesAndReadsGoOn` is the safety form of "a message
does not wait for ever". What the proofs say of `Sessions` after a crossing, of
the lists of `World` where handlers have overlapped or crossed, of `RecvBuffer`
once two sessions share a buffer, and of `Runtime` after the use of the dead pool
is nothing, as in the runs (section 4).

## 6. Not modelled

- Battle and level-up (`Session.cpp:161`): one sequential loop on one player's
  fields. Its limits are real nevertheless. `100 * 2^(level-1)` leaves `int` at
  level 26 and `150 * level` leaves `short` at 219; an ordinary account would
  need billions of points. But a GM logs in at level 1000 (`IOCPServer.cpp:490`),
  where the converted cost of a level is 0: its first kill runs the loop some
  64 500 times through the wrap-around of `short`, down to level 2 with 300 hit
  points and an attack power of 10. The README of the game server says that a
  kill raises the level.
- A second login packet on one session, which `NetClient` does not send, in
  `Sessions`; `World` has it, since it moves the player.
- Failures of calls without a consequence of their own for the state modelled: a
  WSARecv that fails although its client is there, RegisterDevice in `RecvBuffer`,
  PostQueuedCompletionStatus in `NpcLifecycle` (the timer thread ends and NPCs stand
  still; its effect on the process is in `Runtime`) and in the signal handler.
- `remote_endpoint` throwing in the accept handler (`server_side.h:66`) when the
  peer has reset already: the exception leaves `io_context::run` and ends the
  server.
- In `World`: two handlers of one object that read and write its position at the
  same moment and lose one of the two steps (a step of a position is atomic; the
  object is a stray in any case), deaths of NPCs and players, and a refused login,
  which frees its slot without touching a list.
- The ODBC handle that six workers use with no lock: what a driver does then is
  not in this repository. `Sessions` takes each call as atomic. The stored
  procedures are not in the repository either.
- NPC dialogue (two chat messages under a lock per NPC), the earlier Direct3D
  client (`ClientApp`, for a protocol the server no longer speaks), rendering
  and windows, socket wrappers, vendored headers (Lua, d3dx12,
  DDSTextureLoader).
- `src/RUDP`: an unfinished experiment whose send thread repeats the front of a
  queue that nothing pops; nothing is acknowledged, so it promises no more than
  UDP. `src/BasicSocket`: a sequential echo exercise without state.
- Parts of modelled components without a caller: `tsqueue`'s `push_front`,
  `pop_back` and `clear`, `server_side::MessageClient`, `SectorManager::EraseID`;
  and the threads that read the asio clients' consoles.
