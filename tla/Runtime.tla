------------------------------- MODULE Runtime -------------------------------
(***************************************************************************)
(* The life of the server process: main, the workers, the timer thread,    *)
(* the completion port, and the pool of overlapped blocks they all take    *)
(* from - from Run over SIGINT to the destructors of the statics.          *)
(*                                                                         *)
(* A handler is reduced to what it does to these: it may send messages     *)
(* (operator new, then WSASend) and arm the timer.  A block is free, in    *)
(* the hands of a thread, with the kernel, in a queued completion, or      *)
(* lost.  No variable says where a block is: each place is a variable of   *)
(* its own, so that nothing keeps a block from being in two of them.       *)
(***************************************************************************)
EXTENDS Integers, FiniteSets

CONSTANTS Workers, Timer, Main,
          Blocks, Pooled,  \* overlapped blocks, and those of mPool
          None,
          MaxRecvs,        \* bound: completions of receives
          MaxSends,        \* bound: messages sent
          MaxEvents        \* bound: timer events added

ASSUME RuntimeAssumption ==
    /\ IsFiniteSet(Workers)
    /\ Timer \notin Workers /\ Main \notin Workers /\ Timer # Main
    /\ Pooled \subseteq Blocks /\ None \notin Blocks
    /\ MaxRecvs \in Nat /\ MaxSends \in Nat /\ MaxEvents \in Nat

VARIABLES
    memAddrs,  \* mMemAddrs, the free blocks
    lost,      \* blocks of sends that failed at the call
    hand,      \* the block of the completion that a worker handles, or None
    made,      \* the block that a thread has made and not yet posted, or None
    posted,    \* blocks of sends that the kernel works on
    queued,    \* blocks of queued completions (sends and NPC moves)
    arrived,   \* queued completions of receives, which have no block
    accepting, \* an AcceptEx is posted
    empties,   \* queued empty completions
    toPost,    \* empty completions that SignalHandler has still to post
    pc,        \* where a worker and the timer thread are
    mLoop,     \* IOCPServer::mLoop
    timerLoop, \* Timer::mLoop
    events,    \* how many events of a kind are in mTimerQueue
    phase,     \* where main is
    signalled, \* SIGINT was raised
    recvs, sends, added, \* counters for the bounds
    late       \* history: the threads that used the pool after its destructor

blocks == <<memAddrs, lost, hand, made, posted, queued>>
completions == <<arrived, accepting, empties, toPost>>
main == <<phase, signalled, mLoop>>
timer == <<timerLoop, events>>
bounds == <<recvs, sends, added>>
vars == <<blocks, completions, pc, main, timer, bounds, late>>

Threads == Workers \cup {Timer, Main}
Kinds == {"NPC_MOVE", "NPC_REVIVE"}
Phases == {"run", "spawn", "join", "destruct", "return", "statics", "joinTimer",
           "ended", "aborted"}

TypeOK ==
    /\ memAddrs \subseteq Blocks /\ lost \subseteq Blocks
    /\ posted \subseteq Blocks /\ queued \subseteq Blocks
    /\ hand \in [Workers -> Blocks \cup {None}]
    /\ made \in [Threads -> Blocks \cup {None}]
    /\ arrived \in Nat /\ empties \in Nat /\ toPost \in Nat
    /\ accepting \in BOOLEAN
    /\ pc \in [Workers \cup {Timer} -> {"unborn", "loop", "get", "accepted",
                                        "handle", "queue", "post", "left"}]
    /\ mLoop \in BOOLEAN /\ timerLoop \in BOOLEAN /\ signalled \in BOOLEAN
    /\ events \in [Kinds -> Nat]
    /\ phase \in Phases
    /\ recvs \in Nat /\ sends \in Nat /\ added \in Nat
    /\ late \subseteq Threads

(* The server object is constructed; nothing runs yet.                     *)
Init ==
    /\ memAddrs = Pooled /\ lost = {} /\ posted = {} /\ queued = {}
    /\ hand = [w \in Workers |-> None]
    /\ made = [t \in Threads |-> None]
    /\ arrived = 0 /\ accepting = FALSE /\ empties = 0 /\ toPost = 0
    /\ pc = [t \in Workers \cup {Timer} |-> "unborn"]
    /\ mLoop = TRUE /\ timerLoop = FALSE
    /\ events = [k \in Kinds |-> 0]
    /\ phase = "run" /\ signalled = FALSE
    /\ recvs = 0 /\ sends = 0 /\ added = 0 /\ late = {}

GoTo(t, at) == pc' = [pc EXCEPT ![t] = at]

-----------------------------------------------------------------------------
(* Blocks.                                                                 *)

PoolAlive == phase \in {"run", "spawn", "join", "destruct", "return"}

InUse == lost \cup posted \cup queued
            \cup {b \in Blocks : \/ \E w \in Workers : hand[w] = b
                                 \/ \E t \in Threads : made[t] = b}

(* operator new: a free block, or one from the heap if there is none.      *)
New(t, b) ==
    /\ IF memAddrs # {} THEN b \in memAddrs ELSE b \in Blocks \ InUse
    /\ memAddrs' = memAddrs \ {b}
    /\ made' = [made EXCEPT ![t] = b]

(* Threads in a handler that may send: a worker, the timer thread reviving *)
(* an NPC, and main in ~IOCPServer, which disconnects the clients.         *)
Sending(t) == IF t = Main THEN phase = "destruct"
                          ELSE pc[t] \in {"handle", "accepted"}

SendMsg(t, b) ==
    /\ Sending(t) /\ made[t] = None /\ PoolAlive /\ sends < MaxSends
    /\ New(t, b)
    /\ sends' = sends + 1
    /\ UNCHANGED <<lost, hand, posted, queued, completions, pc, main, timer,
                   recvs, added, late>>

(* Socket::Send: WSASend takes the block, or fails at the call and then    *)
(* nobody has it any more.                                                 *)
Send(t) ==
    /\ Sending(t) /\ made[t] # None
    /\ \/ posted' = posted \cup {made[t]} /\ UNCHANGED lost
       \/ lost' = lost \cup {made[t]} /\ UNCHANGED posted
    /\ made' = [made EXCEPT ![t] = None]
    /\ UNCHANGED <<memAddrs, hand, queued, completions, pc, main, timer, bounds,
                   late>>

(* The kernel has sent the message, or given it up.                        *)
SendCompletes(b) ==
    /\ b \in posted
    /\ posted' = posted \ {b}
    /\ queued' = queued \cup {b}
    /\ UNCHANGED <<memAddrs, lost, hand, made, completions, pc, main, timer,
                   bounds, late>>

RecvCompletes ==
    /\ recvs < MaxRecvs
    /\ recvs' = recvs + 1 /\ arrived' = arrived + 1
    /\ UNCHANGED <<blocks, accepting, empties, toPost, pc, main, timer, sends,
                   added, late>>

-----------------------------------------------------------------------------
(* NetworkThreadFunc.                                                      *)

Test(w) ==
    /\ pc[w] = "loop"
    /\ GoTo(w, IF mLoop THEN "get" ELSE "left")
    /\ UNCHANGED <<blocks, completions, main, timer, bounds, late>>

TakeEmpty(w) ==
    /\ pc[w] = "get" /\ empties > 0
    /\ empties' = empties - 1
    /\ mLoop' = FALSE
    /\ GoTo(w, "loop")
    /\ UNCHANGED <<blocks, arrived, accepting, toPost, phase, signalled, timer,
                   bounds, late>>

TakeRecv(w) ==
    /\ pc[w] = "get" /\ arrived > 0
    /\ arrived' = arrived - 1
    /\ GoTo(w, "handle")
    /\ UNCHANGED <<blocks, accepting, empties, toPost, main, timer, bounds, late>>

(* A send that failed disconnects, which sends; one that worked does not.  *)
TakeBlock(w, b) ==
    /\ pc[w] = "get" /\ b \in queued
    /\ queued' = queued \ {b}
    /\ hand' = [hand EXCEPT ![w] = b]
    /\ GoTo(w, "handle")
    /\ UNCHANGED <<memAddrs, lost, made, posted, completions, main, timer, bounds,
                   late>>

(* A failed accept disconnects slot 0 and is not posted again.             *)
TakeAccept(w) ==
    /\ pc[w] = "get" /\ accepting
    /\ accepting' = FALSE
    /\ \E at \in {"accepted", "handle"} : GoTo(w, at)
    /\ UNCHANGED <<blocks, arrived, empties, toPost, main, timer, bounds, late>>

(* AsyncAccept posts the next accept or throws, which ends the worker.     *)
AsyncAccept(w) ==
    /\ pc[w] = "accepted" /\ made[w] = None
    /\ \/ accepting' = TRUE /\ GoTo(w, "loop")
       \/ UNCHANGED accepting /\ GoTo(w, "left")
    /\ UNCHANGED <<blocks, arrived, empties, toPost, main, timer, bounds, late>>

(* AddTimer: a worker activates NPCs and kills them, the timer thread      *)
(* reactivates one that it revived.                                        *)
AddTimer(t, kind) ==
    /\ pc[t] = "handle" /\ added < MaxEvents
    /\ t = Timer => kind = "NPC_MOVE"
    /\ events' = [events EXCEPT ![kind] = @ + 1]
    /\ added' = added + 1
    /\ UNCHANGED <<blocks, completions, pc, main, timerLoop, recvs, sends, late>>

(* Mutant: the block of a completion is not deleted.                       *)
FinishKeeping(w) ==
    /\ pc[w] = "handle" /\ made[w] = None
    /\ hand' = [hand EXCEPT ![w] = None]
    /\ GoTo(w, "loop")
    /\ UNCHANGED <<memAddrs, lost, made, posted, queued, completions, main, timer,
                   bounds, late>>

(* The handler is over and deletes the block of its completion.            *)
Finish(w) ==
    /\ pc[w] = "handle" /\ made[w] = None
    /\ memAddrs' = IF hand[w] # None THEN memAddrs \cup {hand[w]} ELSE memAddrs
    /\ hand' = [hand EXCEPT ![w] = None]
    /\ GoTo(w, "loop")
    /\ UNCHANGED <<lost, made, posted, queued, completions, main, timer, bounds,
                   late>>

-----------------------------------------------------------------------------
(* TimerThreadFunc.                                                        *)

TimerTest ==
    /\ pc[Timer] = "loop"
    /\ GoTo(Timer, IF timerLoop THEN "queue" ELSE "left")
    /\ UNCHANGED <<blocks, completions, main, timer, bounds, late>>

(* The inner loop ends when the queue is empty, whatever Timer::mLoop says.*)
IsQueueEmpty ==
    /\ pc[Timer] = "queue" /\ \A k \in Kinds : events[k] = 0
    /\ GoTo(Timer, "loop")
    /\ UNCHANGED <<blocks, completions, main, timer, bounds, late>>

Pop(kind) ==
    /\ pc[Timer] = "queue" /\ events[kind] > 0
    /\ events' = [events EXCEPT ![kind] = @ - 1]
    /\ GoTo(Timer, IF kind = "NPC_MOVE" THEN "post" ELSE "handle")
    /\ UNCHANGED <<blocks, completions, main, timerLoop, bounds, late>>

(* PostNPCMoveEvent: operator new, then PostToCompletionQueue.             *)
MakeMove(b) ==
    /\ pc[Timer] = "post" /\ made[Timer] = None /\ PoolAlive
    /\ New(Timer, b)
    /\ UNCHANGED <<lost, hand, posted, queued, completions, pc, main, timer,
                   bounds, late>>

(* The queue takes the block, or PostToCompletionQueue throws: then nobody *)
(* has the block any more, and the timer thread ends.                      *)
PostMove ==
    /\ pc[Timer] = "post" /\ made[Timer] # None
    /\ \/ queued' = queued \cup {made[Timer]} /\ UNCHANGED lost /\ GoTo(Timer, "queue")
       \/ lost' = lost \cup {made[Timer]} /\ UNCHANGED queued /\ GoTo(Timer, "left")
    /\ made' = [made EXCEPT ![Timer] = None]
    /\ UNCHANGED <<memAddrs, hand, posted, completions, main, timer, bounds, late>>

Revived ==
    /\ pc[Timer] = "handle" /\ made[Timer] = None
    /\ GoTo(Timer, "queue")
    /\ UNCHANGED <<blocks, completions, main, timer, bounds, late>>

(* operator new on the destroyed pool: what it returns is undefined and    *)
(* not followed further.                                                   *)
UseDeadPool(t) ==
    /\ ~PoolAlive /\ t # Main /\ made[t] = None
    /\ \/ Sending(t) /\ sends < MaxSends /\ sends' = sends + 1 /\ UNCHANGED pc
       \/ pc[t] = "post" /\ GoTo(t, "queue") /\ UNCHANGED sends
    /\ late' = late \cup {t}
    /\ UNCHANGED <<blocks, completions, main, timer, recvs, added>>

-----------------------------------------------------------------------------
(* SIGINT: SignalHandler posts one empty completion per worker, once.      *)

(* Mutant: a single empty completion, as mLoop is cleared for everybody.   *)
InterruptOnce ==
    /\ ~signalled
    /\ signalled' = TRUE
    /\ toPost' = 1
    /\ UNCHANGED <<blocks, arrived, accepting, empties, pc, phase, mLoop, timer,
                   bounds, late>>

Interrupt ==
    /\ ~signalled
    /\ signalled' = TRUE
    /\ toPost' = Cardinality(Workers)
    /\ UNCHANGED <<blocks, arrived, accepting, empties, pc, phase, mLoop, timer,
                   bounds, late>>

PostEmpty ==
    /\ toPost > 0
    /\ toPost' = toPost - 1 /\ empties' = empties + 1
    /\ UNCHANGED <<blocks, arrived, accepting, pc, main, timer, bounds, late>>

-----------------------------------------------------------------------------
(* main and Run.                                                           *)

(* Listen, RegisterDevice and AsyncAccept; each may throw, and the server  *)
(* is then destroyed with no thread started.                               *)
Run ==
    /\ phase = "run"
    /\ \/ phase' = "spawn" /\ accepting' = TRUE
       \/ phase' = "destruct" /\ UNCHANGED accepting
    /\ UNCHANGED <<blocks, arrived, empties, toPost, pc, mLoop, signalled, timer,
                   bounds, late>>

Spawn(w) ==
    /\ phase = "spawn" /\ pc[w] = "unborn"
    /\ GoTo(w, "loop")
    /\ UNCHANGED <<blocks, completions, main, timer, bounds, late>>

StartTimer ==
    /\ phase = "spawn" /\ \A w \in Workers : pc[w] # "unborn"
    /\ timerLoop' = TRUE
    /\ GoTo(Timer, "loop")
    /\ phase' = "join"
    /\ UNCHANGED <<blocks, completions, events, mLoop, signalled, bounds, late>>

Moves(from, to) == phase = from /\ phase' = to

(* Mutant: only one of the threads is joined.                              *)
JoinOne ==
    /\ Moves("join", "destruct")
    /\ \E w \in Workers : pc[w] = "left"
    /\ UNCHANGED <<blocks, completions, pc, mLoop, signalled, timer, bounds, late>>

Join ==
    /\ Moves("join", "destruct")
    /\ \A w \in Workers : pc[w] = "left"
    /\ UNCHANGED <<blocks, completions, pc, mLoop, signalled, timer, bounds, late>>

(* ~IOCPServer has disconnected every client; main returns, and the static *)
(* objects are destroyed: the pool, made last, first, and then gTimer.     *)
Destructed ==
    /\ Moves("destruct", "return")
    /\ made[Main] = None
    /\ UNCHANGED <<blocks, completions, pc, mLoop, signalled, timer, bounds, late>>

DestroyPool ==
    /\ Moves("return", "statics")
    /\ UNCHANGED <<blocks, completions, pc, mLoop, signalled, timer, bounds, late>>

(* Mutant: ~Timer joins without clearing mLoop.                            *)
DestroyRunningTimer ==
    /\ Moves("statics", "joinTimer")
    /\ UNCHANGED <<blocks, completions, pc, mLoop, signalled, timer, bounds, late>>

DestroyTimer ==
    /\ Moves("statics", "joinTimer")
    /\ timerLoop' = FALSE
    /\ UNCHANGED <<blocks, completions, pc, mLoop, signalled, events, bounds, late>>

(* join of a thread that was never started throws out of ~Timer.           *)
JoinTimer ==
    /\ \/ pc[Timer] = "left" /\ Moves("joinTimer", "ended")
       \/ pc[Timer] = "unborn" /\ Moves("joinTimer", "aborted")
    /\ UNCHANGED <<blocks, completions, pc, mLoop, signalled, timer, bounds, late>>

-----------------------------------------------------------------------------
WorkerNext(w) ==
    \/ Test(w) \/ TakeEmpty(w) \/ TakeRecv(w) \/ TakeAccept(w) \/ AsyncAccept(w)
    \/ Finish(w)
    \/ \E b \in Blocks : TakeBlock(w, b)

TimerNext ==
    \/ TimerTest \/ IsQueueEmpty \/ PostMove \/ Revived
    \/ \E k \in Kinds : Pop(k)
    \/ \E b \in Blocks : MakeMove(b)

ThreadNext(t) ==
    \/ Send(t)
    \/ \E b \in Blocks : SendMsg(t, b)

MainNext ==
    \/ Run \/ StartTimer \/ Join \/ Destructed \/ DestroyPool \/ DestroyTimer
    \/ JoinTimer
    \/ \E w \in Workers : Spawn(w)

Next ==
    \/ \E w \in Workers : WorkerNext(w)
    \/ TimerNext \/ MainNext
    \/ \E t \in Threads : ThreadNext(t)
    \/ \E t \in Workers \cup {Timer} : \/ UseDeadPool(t)
                                       \/ \E k \in Kinds : AddTimer(t, k)
    \/ \E b \in Blocks : SendCompletes(b)
    \/ RecvCompletes \/ Interrupt \/ PostEmpty

Spec == Init /\ [][Next]_vars

(* Every thread that can go on does, a due event is popped, and the signal *)
(* handler posts what it has to.  The port serves completions in order, so *)
(* that an empty one is not passed over for ever.  Nothing is assumed of   *)
(* clients, of the kernel, nor that SIGINT is raised.                      *)
FairSpec ==
    /\ Spec
    /\ \A w \in Workers : WF_vars(WorkerNext(w) \/ Send(w))
    /\ SF_vars(\E w \in Workers : TakeEmpty(w))
    /\ WF_vars(TimerNext \/ Send(Timer) \/ UseDeadPool(Timer))
    /\ WF_vars(MainNext \/ Send(Main))
    /\ WF_vars(PostEmpty)

-----------------------------------------------------------------------------
(* Whoever waits on the port after SIGINT finds an empty completion: the   *)
(* first to take one clears mLoop for everybody, and the others leave at   *)
(* their next test or with one of those that are left.                     *)
EveryWaiterReleased ==
    signalled => Cardinality({w \in Workers : pc[w] = "get"}) <= toPost + empties

(* main joins the workers before the pool goes, but the timer thread, which*)
(* is joined after it, may still allocate from it.                         *)
DeadPoolOnlyByTimer == late \subseteq {Timer}

(* The blocks are handed out and come back as a pool promises, each to one *)
(* user at a time, through sends, completions, failures and shutdown.      *)
Abstract == INSTANCE BlockPool WITH free <- memAddrs, used <- InUse
ImplementsBlockPool == Abstract!Spec

(* SIGINT ends the process: every worker leaves, although one of them may  *)
(* be waiting and another busy, and then the timer thread.                 *)
ShutdownEnds == signalled ~> phase \in {"ended", "aborted"}
=============================================================================
