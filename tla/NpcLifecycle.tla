---------------------------- MODULE NpcLifecycle ----------------------------
(***************************************************************************)
(* The life of the NPCs of the game server: asleep until a player comes    *)
(* near, then moved once a second by a chain of timer events and posted    *)
(* completions, killed by players' attacks and revived by the timer thread *)
(* (IOCPServer.cpp, Session.cpp, Timer.cpp).                               *)
(*                                                                         *)
(* Six worker threads and the timer thread share each NPC's mState and hp  *)
(* as two separate atomics, with no lock over a handler, so a handler is   *)
(* one action per access to shared state.  A thread's registers are its    *)
(* pc, the NPC and player it works on, the players its scan has passed     *)
(* (seen) and the NPCs it still has to activate (todo).                    *)
(*                                                                         *)
(* DATA.  Positions are reduced to near[n], the in-game players within     *)
(* RANGE of n.  View lists, packets and the Lua dialogue are not here: no  *)
(* decision of these handlers reads them but the choice of an attack's     *)
(* targets, which is any NPC (a view list may be stale).  A move event's   *)
(* TargetID only steers the direction of the step and is dropped.          *)
(***************************************************************************)
EXTENDS Integers, FiniteSets

CONSTANTS Npcs, Players, Workers,
          Timer,          \* the timer thread
          None,           \* no NPC, no player
          MaxHp, AttackPower,
          MoveDelay, ReviveDelay,   \* 1000 ms and 3000 ms, in ticks
          MaxAttacks      \* bound: attacks in a behaviour

ASSUME ThreadAssumption == IsFiniteSet(Workers) /\ Timer \notin Workers
ASSUME NoneAssumption == None \notin Npcs \cup Players
ASSUME HpAssumption == MaxHp \in Nat \ {0} /\ AttackPower \in Nat
ASSUME DelayAssumption == /\ MoveDelay \in Nat \ {0}
                          /\ ReviveDelay \in Nat
                          /\ MoveDelay <= ReviveDelay
ASSUME AttackAssumption == MaxAttacks \in Nat

Threads == Workers \cup {Timer}
Delays == 0..ReviveDelay

VARIABLES
    state, hp,     \* Session::mState and Info.hp of each NPC
    online, near,  \* players in game; those of them within RANGE of n
    timerQueue,    \* how many events [npc, kind, ticks left] are queued
    completions,   \* posted NPC_MOVE completions of n
    pc, npc, who, seen, todo,   \* registers of the threads
    attacks,       \* attacks so far, for the bound
    credits,       \* history: kills of n that gave experience
    revivals       \* history: times n was set INGAME by Revive

shared == <<state, hp, online, near, timerQueue, completions>>
registers == <<pc, npc, who, seen, todo>>
history == <<attacks, credits, revivals>>
vars == <<shared, registers, history>>

Init ==
    /\ state = [n \in Npcs |-> "SLEEP"]
    /\ hp = [n \in Npcs |-> MaxHp]
    /\ online = {}
    /\ near = [n \in Npcs |-> {}]
    /\ timerQueue = [e \in Npcs \X {"MOVE", "REVIVE"} \X Delays |-> 0]
    /\ completions = [n \in Npcs |-> 0]
    /\ pc = [t \in Threads |-> "idle"]
    /\ npc = [t \in Threads |-> None]
    /\ who = [t \in Threads |-> None]
    /\ seen = [t \in Threads |-> {}]
    /\ todo = [t \in Threads |-> {}]
    /\ attacks = 0
    /\ credits = [n \in Npcs |-> 0]
    /\ revivals = [n \in Npcs |-> 0]

-----------------------------------------------------------------------------
(* Registers: where a thread goes next. *)

Goto(t, l) == pc' = [pc EXCEPT ![t] = l]

Idle(t) == /\ Goto(t, "idle")
           /\ npc' = [npc EXCEPT ![t] = None]
           /\ who' = [who EXCEPT ![t] = None]
           /\ seen' = [seen EXCEPT ![t] = {}]
           /\ todo' = [todo EXCEPT ![t] = {}]

Begin(t, l, n, p) == /\ pc[t] = "idle"
                     /\ Goto(t, l)
                     /\ npc' = [npc EXCEPT ![t] = n]
                     /\ who' = [who EXCEPT ![t] = p]
                     /\ UNCHANGED <<seen, todo>>

AddTimer(n, kind, delay) ==
    timerQueue' = [timerQueue EXCEPT ![<<n, kind, delay>>] = @ + 1]

\* Mutant of PopTimer: the event is read and left in the queue.
PeekTimer(n, kind) == timerQueue[<<n, kind, 0>>] > 0 /\ UNCHANGED timerQueue

PopTimer(n, kind) ==
    /\ timerQueue[<<n, kind, 0>>] > 0
    /\ timerQueue' = [timerQueue EXCEPT ![<<n, kind, 0>>] = @ - 1]

\* A player's packets are handled by one worker at a time: its next receive
\* is posted after the handler.
NotServed(p) == \A t \in Threads : who[t] # p

-----------------------------------------------------------------------------
(* The chain of an active NPC: case NPC_MOVE of HandleCompletionInfo. *)

(* A worker takes the completion; it is dropped unless the NPC is INGAME. *)
MoveStart(w, n) ==
    /\ completions[n] > 0
    /\ completions' = [completions EXCEPT ![n] = @ - 1]
    /\ \/ state[n] = "INGAME" /\ Begin(w, "move", n, None)
       \/ state[n] # "INGAME" /\ pc[w] = "idle" /\ UNCHANGED registers
    /\ UNCHANGED <<state, hp, online, near, timerQueue, history>>

(* MoveNPC steps the NPC, which may bring any in-game player into RANGE or *)
(* out of it.                                                              *)
MoveNPC(w, inRange) ==
    /\ pc[w] = "move"
    /\ near' = [near EXCEPT ![npc[w]] = inRange]
    /\ Goto(w, "scan")
    /\ UNCHANGED <<state, hp, online, timerQueue, completions>>
    /\ UNCHANGED <<npc, who, seen, todo, history>>

(* The loops over the players, here and in ReviveNPC: is anyone near? *)
ScanNext(t, p) ==
    /\ pc[t] = "scan" /\ p \notin seen[t]
    /\ IF p \in near[npc[t]]
       THEN Goto(t, "arm") /\ UNCHANGED seen
       ELSE seen' = [seen EXCEPT ![t] = @ \cup {p}] /\ UNCHANGED pc
    /\ UNCHANGED <<shared, npc, who, todo, history>>

\* Mutant of Rearm: the next move is never scheduled.
ForgetToRearm(t) ==
    /\ pc[t] = "arm"
    /\ Idle(t)
    /\ UNCHANGED <<shared, history>>

(* Someone is: the next move is due in a second. *)
Rearm(t) ==
    /\ pc[t] = "arm"
    /\ AddTimer(npc[t], "MOVE", MoveDelay)
    /\ Idle(t)
    /\ UNCHANGED <<state, hp, online, near, completions, history>>

\* Mutant of Sleep: moved for ever once awake.
RearmAnyway(t) ==
    /\ pc[t] = "scan" /\ seen[t] = Players
    /\ AddTimer(npc[t], "MOVE", MoveDelay)
    /\ Idle(t)
    /\ UNCHANGED <<state, hp, online, near, completions, history>>

(* No one is: InitState(SLEEP), whatever mState has become meanwhile. *)
Sleep(t) ==
    /\ pc[t] = "scan" /\ seen[t] = Players
    /\ state' = [state EXCEPT ![npc[t]] = "SLEEP"]
    /\ Idle(t)
    /\ UNCHANGED <<hp, online, near, timerQueue, completions, history>>

-----------------------------------------------------------------------------
(* Players. *)

(* A login, move or teleport packet puts p in RANGE of the NPCs in `ns'    *)
(* and of no other; the handler then activates those.                      *)
PlayerMove(w, p, ns) ==
    /\ pc[w] = "idle" /\ NotServed(p)
    /\ online' = online \cup {p}
    /\ near' = [n \in Npcs |-> IF n \in ns THEN near[n] \cup {p}
                                           ELSE near[n] \ {p}]
    /\ IF ns = {}
       THEN UNCHANGED registers
       ELSE /\ Goto(w, "activate")
            /\ who' = [who EXCEPT ![w] = p]
            /\ todo' = [todo EXCEPT ![w] = ns]
            /\ UNCHANGED <<npc, seen>>
    /\ UNCHANGED <<state, hp, timerQueue, completions, history>>

(* Disconnect: the player is no longer INGAME. *)
PlayerLeave(w, p) ==
    /\ pc[w] = "idle" /\ p \in online
    /\ online' = online \ {p}
    /\ near' = [n \in Npcs |-> near[n] \ {p}]
    /\ UNCHANGED <<state, hp, timerQueue, completions, registers, history>>

\* Mutant of ActivateNPC: the state is stored, not exchanged for SLEEP.
ActivateAlways(w, n) ==
    /\ pc[w] = "activate" /\ n \in todo[w]
    /\ state' = [state EXCEPT ![n] = "INGAME"]
    /\ Goto(w, "activated")
    /\ npc' = [npc EXCEPT ![w] = n]
    /\ todo' = [todo EXCEPT ![w] = @ \ {n}]
    /\ UNCHANGED <<hp, online, near, timerQueue, completions>>
    /\ UNCHANGED <<who, seen, history>>

(* ActivateNPC: only the winner of the SLEEP -> INGAME exchange... *)
ActivateNPC(w, n) ==
    /\ pc[w] = "activate" /\ n \in todo[w]
    /\ IF state[n] = "SLEEP"
       THEN /\ state' = [state EXCEPT ![n] = "INGAME"]
            /\ Goto(w, "activated")
            /\ npc' = [npc EXCEPT ![w] = n]
       ELSE UNCHANGED <<state, pc, npc>>
    /\ todo' = [todo EXCEPT ![w] = @ \ {n}]
    /\ UNCHANGED <<hp, online, near, timerQueue, completions>>
    /\ UNCHANGED <<who, seen, history>>

\* Mutant of StartChain: activated, and no move scheduled.
StartNothing(w) ==
    /\ pc[w] = "activated"
    /\ Goto(w, "activate")
    /\ npc' = [npc EXCEPT ![w] = None]
    /\ UNCHANGED <<shared, who, seen, todo, history>>

(* ...starts a chain. *)
StartChain(w) ==
    /\ pc[w] = "activated"
    /\ AddTimer(npc[w], "MOVE", MoveDelay)
    /\ Goto(w, "activate")
    /\ npc' = [npc EXCEPT ![w] = None]
    /\ UNCHANGED <<state, hp, online, near, completions>>
    /\ UNCHANGED <<who, seen, todo, history>>

PlayerDone(w) ==
    /\ pc[w] = "activate" /\ todo[w] = {}
    /\ Idle(w)
    /\ UNCHANGED <<shared, history>>

(* ProcessAttackPacket, for one NPC hit: DecreaseHP... *)
Attack(w, p, n) ==
    /\ p \in online /\ NotServed(p) /\ attacks < MaxAttacks
    /\ Begin(w, "hit", n, p)
    /\ hp' = [hp EXCEPT ![n] = @ - AttackPower]
    /\ attacks' = attacks + 1
    /\ UNCHANGED <<state, online, near, timerQueue, completions>>
    /\ UNCHANGED <<credits, revivals>>

(* ...then IsDead, read separately, and IncreaseEXP. *)
CheckDead(w) ==
    /\ pc[w] = "hit"
    /\ \/ /\ hp[npc[w]] <= 0
          /\ credits' = [credits EXCEPT ![npc[w]] = @ + 1]
          /\ Goto(w, "kill")
          /\ UNCHANGED <<npc, who, seen, todo>>
       \/ hp[npc[w]] > 0 /\ Idle(w) /\ UNCHANGED credits
    /\ UNCHANGED <<shared, attacks, revivals>>

(* After HandleDeadNPC has told the players: InitState(DEAD)... *)
SetDead(w) ==
    /\ pc[w] = "kill"
    /\ state' = [state EXCEPT ![npc[w]] = "DEAD"]
    /\ Goto(w, "schedule")
    /\ UNCHANGED <<hp, online, near, timerQueue, completions>>
    /\ UNCHANGED <<npc, who, seen, todo, history>>

\* Mutant of ScheduleRevive: an event of the other type.
ScheduleMove(w) ==
    /\ pc[w] = "schedule"
    /\ AddTimer(npc[w], "MOVE", ReviveDelay)
    /\ Idle(w)
    /\ UNCHANGED <<state, hp, online, near, completions, history>>

(* ...and the revival is due in three seconds. *)
ScheduleRevive(w) ==
    /\ pc[w] = "schedule"
    /\ AddTimer(npc[w], "REVIVE", ReviveDelay)
    /\ Idle(w)
    /\ UNCHANGED <<state, hp, online, near, completions, history>>

-----------------------------------------------------------------------------
(* The timer thread.  Events due at the same tick, or overdue, may be      *)
(* popped in any order; no event is popped before it is due.               *)

Tick ==
    /\ \E e \in DOMAIN timerQueue : e[3] > 0 /\ timerQueue[e] > 0
    /\ timerQueue' =
           [e \in Npcs \X {"MOVE", "REVIVE"} \X Delays |->
                (IF e[3] = 0 THEN timerQueue[e] ELSE 0)
                + (IF e[3] < ReviveDelay
                   THEN timerQueue[<<e[1], e[2], e[3] + 1>>] ELSE 0)]
    /\ UNCHANGED <<state, hp, online, near, completions, registers, history>>

(* PostNPCMoveEvent. *)
FireMove(n) ==
    /\ pc[Timer] = "idle"
    /\ PopTimer(n, "MOVE")
    /\ completions' = [completions EXCEPT ![n] = @ + 1]
    /\ UNCHANGED <<state, hp, online, near, registers, history>>

\* Mutant of FireRevive: Revive without its store to hp.
ReviveStateOnly(n) ==
    /\ PopTimer(n, "REVIVE")
    /\ Begin(Timer, "revive", n, None)
    /\ UNCHANGED <<state, hp, online, near, completions, history>>

(* ReviveNPC: Session::Revive stores hp... *)
FireRevive(n) ==
    /\ PopTimer(n, "REVIVE")
    /\ Begin(Timer, "revive", n, None)
    /\ hp' = [hp EXCEPT ![n] = MaxHp]
    /\ UNCHANGED <<state, online, near, completions, history>>

(* ...then mState; the scan for a target follows. *)
SetAlive ==
    /\ pc[Timer] = "revive"
    /\ state' = [state EXCEPT ![npc[Timer]] = "INGAME"]
    /\ revivals' = [revivals EXCEPT ![npc[Timer]] = @ + 1]
    /\ Goto(Timer, "scan")
    /\ UNCHANGED <<hp, online, near, timerQueue, completions>>
    /\ UNCHANGED <<npc, who, seen, todo, attacks, credits>>

-----------------------------------------------------------------------------
\* A handler under way goes on; these are the steps the scheduler owes.
Continue(t) ==
    \/ \E inRange \in SUBSET online : MoveNPC(t, inRange)
    \/ \E p \in Players : ScanNext(t, p)
    \/ Rearm(t) \/ Sleep(t)
    \/ \E n \in Npcs : ActivateNPC(t, n)
    \/ StartChain(t) \/ PlayerDone(t)
    \/ CheckDead(t) \/ SetDead(t) \/ ScheduleRevive(t)

PlayerInput(w) ==
    \E p \in Players :
        \/ \E ns \in SUBSET Npcs : PlayerMove(w, p, ns)
        \/ PlayerLeave(w, p)
        \/ \E n \in Npcs : Attack(w, p, n)

WorkerStep(w) ==
    \/ \E n \in Npcs : MoveStart(w, n)
    \/ PlayerInput(w)

TimerStep == \/ \E n \in Npcs : FireMove(n) \/ FireRevive(n)
             \/ SetAlive

Next == \/ \E t \in Threads : Continue(t)
        \/ \E w \in Workers : WorkerStep(w)
        \/ TimerStep
        \/ Tick

Spec == Init /\ [][Next]_vars

(* The operating system runs every thread; completions are dequeued in the *)
(* order of posting and timer events in the order of their StartTime, so   *)
(* neither is passed over for ever; players owe nothing.                   *)
FairSpec ==
    /\ Spec
    /\ \A t \in Threads : WF_vars(Continue(t))
    /\ \A n \in Npcs : /\ SF_vars(\E w \in Workers : MoveStart(w, n))
                       /\ SF_vars(FireMove(n))
                       /\ SF_vars(FireRevive(n))
    /\ WF_vars(SetAlive)
    /\ WF_vars(Tick)

-----------------------------------------------------------------------------
TypeOK ==
    /\ state \in [Npcs -> {"SLEEP", "INGAME", "DEAD"}]
    /\ hp \in [Npcs -> Int]
    /\ online \subseteq Players
    /\ near \in [Npcs -> SUBSET Players]
    /\ timerQueue \in [Npcs \X {"MOVE", "REVIVE"} \X Delays -> Nat]
    /\ completions \in [Npcs -> Nat]
    /\ pc \in [Threads -> {"idle", "move", "scan", "arm", "activate", "activated",
                           "hit", "kill", "schedule", "revive"}]
    /\ npc \in [Threads -> Npcs \cup {None}]
    /\ who \in [Threads -> Players \cup {None}]
    /\ seen \in [Threads -> SUBSET Players]
    /\ todo \in [Threads -> SUBSET Npcs]
    /\ attacks \in Nat
    /\ credits \in [Npcs -> Nat]
    /\ revivals \in [Npcs -> Nat]

Queued(n, kind) == \E d \in Delays : timerQueue[<<n, kind, d>>] > 0
At(labels, n) == \E t \in Threads : pc[t] \in labels /\ npc[t] = n

\* Something that will move n or put it to sleep.
MoveLabels == {"move", "scan", "arm", "activated"}
ChainAlive(n) == Queued(n, "MOVE") \/ completions[n] > 0 \/ At(MoveLabels, n)

(* An INGAME NPC is never stranded: some queued event, posted completion   *)
(* or running handler will move it or send it back to sleep, although      *)
(* completions are dropped while it is not INGAME and mState is set from   *)
(* three kinds of threads (HandleCompletionInfo, ActivateNPC, ReviveNPC).  *)
NeverStranded == \A n \in Npcs : state[n] = "INGAME" => ChainAlive(n)

\* Something that will revive n.
ReviveComing(n) == Queued(n, "REVIVE") \/ At({"schedule", "revive"}, n)

(* A DEAD NPC always has a revival coming (ProcessAttackPacket, Timer).    *)
DeadWillRevive == \A n \in Npcs : state[n] = "DEAD" => ReviveComing(n)

\* The events queued about n: <<ticks left, number>>.
Events(n, kind) == UNION {{d} \X (1..timerQueue[<<n, kind, d>>]) : d \in Delays}
EventsOf(n, kind) == Cardinality(Events(n, kind))
ThreadsAt(labels, n) == Cardinality({t \in Threads : pc[t] \in labels /\ npc[t] = n})

(* Every kill that gives experience pays for exactly one revival: none is  *)
(* lost and none happens twice, however attacks and revivals interleave    *)
(* (ProcessAttackPacket, TimerThreadFunc, ReviveNPC).                      *)
OneRevivalPerKill ==
    \A n \in Npcs :
        credits[n] = revivals[n] + EventsOf(n, "REVIVE")
                         + ThreadsAt({"kill", "schedule", "revive"}, n)

(* An NPC never has more move chains than one plus its revivals, and none  *)
(* beyond those of its revivals while asleep: only the winner of the       *)
(* SLEEP -> INGAME exchange starts one, and InitState(SLEEP) ends one.     *)
ChainsBounded ==
    \A n \in Npcs :
        EventsOf(n, "MOVE") + completions[n] + ThreadsAt(MoveLabels, n)
            <= revivals[n] + (IF state[n] = "SLEEP" THEN 0 ELSE 1)

(* A killed NPC gets its hp back. *)
KilledIsRevived == \A n \in Npcs : hp[n] <= 0 ~> hp[n] > 0

(* An active NPC keeps moving: it is handled again and again until it      *)
(* leaves INGAME.                                                          *)
ActiveIsMoved == \A n \in Npcs : state[n] = "INGAME"
                                     ~> (At({"move"}, n) \/ state[n] # "INGAME")

(* "NPC is activated only when player is near by": left alone, it ends up  *)
(* asleep and stays so.                                                    *)
AloneFallsAsleep ==
    \A n \in Npcs : <>[](near[n] = {}) => <>[](state[n] = "SLEEP")

(* A player who stays near an NPC keeps it awake. *)
NearKeepsAwake ==
    \A n \in Npcs : <>[](near[n] # {}) => []<>(state[n] # "SLEEP")
=============================================================================
