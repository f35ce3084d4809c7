------------------------- MODULE NpcLifecycleProofs -------------------------
(***************************************************************************)
(* Proofs, for every number of NPCs, players and worker threads and every  *)
(* delay, that an INGAME NPC always has something coming that moves it or  *)
(* puts it to sleep (NeverStranded), that a DEAD one always has a revival  *)
(* coming (DeadWillRevive), that kills and revivals balance                *)
(* (OneRevivalPerKill) and that move chains do not multiply                *)
(* (ChainsBounded).                                                        *)
(***************************************************************************)
EXTENDS NpcLifecycle, FiniteSetTheorems, TLAPS

Handling == {"move", "scan", "arm", "activated", "hit", "kill", "schedule", "revive"}

(* A thread inside a handler about an NPC has that NPC in its register. *)
HandlerHasNpc == \A t \in Threads : pc[t] \in Handling => npc[t] \in Npcs

Inv == TypeOK /\ HandlerHasNpc

LEMMA InitInv == Init => Inv
  BY HpAssumption, DelayAssumption DEF HpAssumption, DelayAssumption, Init, Inv, TypeOK, HandlerHasNpc, Handling, Delays

LEMMA NextInv == Inv /\ [Next]_vars => Inv'
<1> SUFFICES ASSUME Inv, [Next]_vars PROVE Inv'
  OBVIOUS
<1> USE DelayAssumption, HpAssumption DEF DelayAssumption, HpAssumption
<1>0. TypeOK /\ HandlerHasNpc
  BY DEF Inv
<1>1. ASSUME NEW w \in Workers, NEW n \in Npcs, MoveStart(w, n) PROVE Inv'
  <2>1. w \in Threads
    BY DEF Threads
  <2>2. completions' \in [Npcs -> Nat]
    BY <1>0, <1>1 DEF TypeOK, MoveStart
  <2>3. UNCHANGED <<state, hp, online, near, timerQueue, attacks, credits, revivals>>
    BY <1>1 DEF MoveStart, history
  <2>4. CASE state[n] = "INGAME" /\ Begin(w, "move", n, None)
    BY <1>0, <2>1, <2>2, <2>3, <2>4 DEF Inv, TypeOK, HandlerHasNpc, Handling, Begin, Goto
  <2>5. CASE UNCHANGED registers
    BY <1>0, <2>2, <2>3, <2>5 DEF Inv, TypeOK, HandlerHasNpc, Handling, registers
  <2> QED
    BY <1>1, <2>4, <2>5 DEF MoveStart
<1>2. ASSUME NEW t \in Threads, NEW inRange \in SUBSET online, MoveNPC(t, inRange) PROVE Inv'
  BY <1>0, <1>2 DEF Inv, TypeOK, HandlerHasNpc, Handling, MoveNPC, Goto, history
<1>3. ASSUME NEW t \in Threads, NEW p \in Players, ScanNext(t, p) PROVE Inv'
  <2>1. UNCHANGED <<shared, npc, who, todo, history>>
    BY <1>3 DEF ScanNext
  <2>2. pc[t] = "scan" /\ npc[t] \in Npcs
    BY <1>0, <1>3 DEF ScanNext, HandlerHasNpc, Handling
  <2>3. CASE p \in near[npc[t]]
    <3>1. pc' = [pc EXCEPT ![t] = "arm"] /\ seen' = seen
      BY <1>3, <2>3 DEF ScanNext, Goto
    <3>2. TypeOK'
      BY <1>0, <2>1, <3>1 DEF TypeOK, shared, history
    <3>3. HandlerHasNpc'
      BY <1>0, <2>1, <2>2, <3>1 DEF TypeOK, HandlerHasNpc, Handling
    <3> QED
      BY <3>2, <3>3 DEF Inv
  <2>4. CASE p \notin near[npc[t]]
    <3>1. pc' = pc /\ seen' = [seen EXCEPT ![t] = @ \cup {p}]
      BY <1>3, <2>4 DEF ScanNext
    <3>2. TypeOK'
      BY <1>0, <2>1, <3>1 DEF TypeOK, shared, history
    <3>3. HandlerHasNpc'
      BY <1>0, <2>1, <3>1 DEF HandlerHasNpc
    <3> QED
      BY <3>2, <3>3 DEF Inv
  <2> QED
    BY <2>3, <2>4
<1>4. ASSUME NEW t \in Threads, Rearm(t) PROVE Inv'
  BY <1>0, <1>4 DEF Inv, TypeOK, HandlerHasNpc, Handling, Rearm, AddTimer, Idle, Goto, history, Delays
<1>5. ASSUME NEW t \in Threads, Sleep(t) PROVE Inv'
  BY <1>0, <1>5 DEF Inv, TypeOK, HandlerHasNpc, Handling, Sleep, Idle, Goto, history
<1>6. ASSUME NEW w \in Workers, NEW p \in Players, NEW ns \in SUBSET Npcs, PlayerMove(w, p, ns) PROVE Inv'
  BY <1>0, <1>6 DEF Inv, TypeOK, HandlerHasNpc, Handling, PlayerMove, Goto, registers, history, Threads
<1>7. ASSUME NEW w \in Workers, NEW p \in Players, PlayerLeave(w, p) PROVE Inv'
  BY <1>0, <1>7 DEF Inv, TypeOK, HandlerHasNpc, Handling, PlayerLeave, registers, history
<1>8. ASSUME NEW t \in Threads, NEW n \in Npcs, ActivateNPC(t, n) PROVE Inv'
  BY <1>0, <1>8 DEF Inv, TypeOK, HandlerHasNpc, Handling, ActivateNPC, Goto, history
<1>9. ASSUME NEW t \in Threads, StartChain(t) PROVE Inv'
  BY <1>0, <1>9 DEF Inv, TypeOK, HandlerHasNpc, Handling, StartChain, AddTimer, Goto, history, Delays
<1>10. ASSUME NEW t \in Threads, PlayerDone(t) PROVE Inv'
  BY <1>0, <1>10 DEF Inv, TypeOK, HandlerHasNpc, Handling, PlayerDone, Idle, Goto, history, shared
<1>11. ASSUME NEW w \in Workers, NEW p \in Players, NEW n \in Npcs, Attack(w, p, n) PROVE Inv'
  BY <1>0, <1>11 DEF Inv, TypeOK, HandlerHasNpc, Handling, Attack, Begin, Goto, Threads
<1>12. ASSUME NEW t \in Threads, CheckDead(t) PROVE Inv'
  <2>1. UNCHANGED <<shared, attacks, revivals>>
    BY <1>12 DEF CheckDead
  <2>2. pc[t] = "hit" /\ npc[t] \in Npcs
    BY <1>0, <1>12 DEF CheckDead, HandlerHasNpc, Handling
  <2>3. CASE hp[npc[t]] <= 0
    <3>0. ~(hp[npc[t]] > 0)
      BY <1>0, <2>2, <2>3 DEF TypeOK
    <3>1. /\ credits' = [credits EXCEPT ![npc[t]] = @ + 1]
          /\ pc' = [pc EXCEPT ![t] = "kill"]
          /\ UNCHANGED <<npc, who, seen, todo>>
      BY <1>12, <3>0 DEF CheckDead, Goto
    <3>2. TypeOK'
      BY <1>0, <2>1, <2>2, <3>1 DEF TypeOK, shared
    <3>3. HandlerHasNpc'
      BY <1>0, <2>2, <3>1 DEF TypeOK, HandlerHasNpc, Handling
    <3> QED
      BY <3>2, <3>3 DEF Inv
  <2>4. CASE ~(hp[npc[t]] <= 0)
    <3>1. Idle(t) /\ credits' = credits
      BY <1>12, <2>4 DEF CheckDead
    <3>2. TypeOK'
      BY <1>0, <2>1, <3>1 DEF TypeOK, shared, Idle, Goto
    <3>3. HandlerHasNpc'
      BY <1>0, <3>1 DEF TypeOK, HandlerHasNpc, Handling, Idle, Goto
    <3> QED
      BY <3>2, <3>3 DEF Inv
  <2> QED
    BY <2>3, <2>4
<1>13. ASSUME NEW t \in Threads, SetDead(t) PROVE Inv'
  BY <1>0, <1>13 DEF Inv, TypeOK, HandlerHasNpc, Handling, SetDead, Goto, history
<1>14. ASSUME NEW t \in Threads, ScheduleRevive(t) PROVE Inv'
  BY <1>0, <1>14 DEF Inv, TypeOK, HandlerHasNpc, Handling, ScheduleRevive, AddTimer, Idle, Goto, history, Delays
<1>15. CASE Tick
  BY <1>0, <1>15 DEF Inv, TypeOK, HandlerHasNpc, Handling, Tick, registers, history, Delays
<1>16. ASSUME NEW n \in Npcs, FireMove(n) PROVE Inv'
  BY <1>0, <1>16 DEF Inv, TypeOK, HandlerHasNpc, Handling, FireMove, PopTimer, registers, history, Delays
<1>17. ASSUME NEW n \in Npcs, FireRevive(n) PROVE Inv'
  BY <1>0, <1>17 DEF Inv, TypeOK, HandlerHasNpc, Handling, FireRevive, PopTimer, Begin, Goto, history, Delays, Threads
<1>18. CASE SetAlive
  BY <1>0, <1>18 DEF Inv, TypeOK, HandlerHasNpc, Handling, SetAlive, Goto, Threads
<1>19. CASE UNCHANGED vars
  BY <1>0, <1>19 DEF Inv, TypeOK, HandlerHasNpc, Handling, vars, shared, registers, history
<1> QED
  BY <1>1, <1>2, <1>3, <1>4, <1>5, <1>6, <1>7, <1>8, <1>9, <1>10, <1>11, <1>12, <1>13, <1>14,
     <1>15, <1>16, <1>17, <1>18, <1>19 DEF Next, Continue, WorkerStep, PlayerInput, TimerStep

-----------------------------------------------------------------------------
(* What keeps an event queued and a thread at a label. *)

Kinds == {"MOVE", "REVIVE"}

LEMMA AddKeeps ==
    ASSUME TypeOK, NEW n \in Npcs, NEW kind \in Kinds, NEW delay \in Delays,
           AddTimer(n, kind, delay)
    PROVE  /\ Queued(n, kind)'
           /\ \A m \in Npcs, k \in Kinds : Queued(m, k) => Queued(m, k)'
<1>1. \A e \in Npcs \X Kinds \X Delays : timerQueue[e] \in Nat
  BY DEF TypeOK, Kinds
<1>2. /\ timerQueue'[<<n, kind, delay>>] = timerQueue[<<n, kind, delay>>] + 1
      /\ \A e \in Npcs \X Kinds \X Delays :
             e # <<n, kind, delay>> => timerQueue'[e] = timerQueue[e]
  BY DEF TypeOK, Kinds, AddTimer
<1>3. \A e \in Npcs \X Kinds \X Delays : timerQueue[e] > 0 => timerQueue'[e] > 0
  BY <1>1, <1>2
<1>4. Queued(n, kind)'
  BY <1>1, <1>2 DEF Queued
<1> QED
  BY <1>3, <1>4 DEF Queued

LEMMA PopKeepsOthers ==
    ASSUME TypeOK, NEW n \in Npcs, NEW kind \in Kinds, PopTimer(n, kind)
    PROVE  \A m \in Npcs, k \in Kinds :
               <<m, k>> # <<n, kind>> /\ Queued(m, k) => Queued(m, k)'
<1>1. \A e \in Npcs \X Kinds \X Delays :
          e # <<n, kind, 0>> => timerQueue'[e] = timerQueue[e]
  BY DEF TypeOK, Kinds, PopTimer
<1>2. \A m \in Npcs, k \in Kinds, d \in Delays :
          <<m, k>> # <<n, kind>> => <<m, k, d>> # <<n, kind, 0>>
  OBVIOUS
<1> QED
  BY <1>1, <1>2 DEF Queued

(* A tick moves an event from d ticks left to d - 1, never out of the queue. *)
LEMMA TickKeeps ==
    ASSUME TypeOK, Tick
    PROVE  \A m \in Npcs, k \in Kinds : Queued(m, k) => Queued(m, k)'
<1> SUFFICES ASSUME NEW m \in Npcs, NEW k \in Kinds,
                    NEW d \in Delays, timerQueue[<<m, k, d>>] > 0
             PROVE  Queued(m, k)'
  BY DEF Queued
<1>0. /\ ReviveDelay \in Nat /\ Delays = 0..ReviveDelay
      /\ \A c \in Delays : timerQueue[<<m, k, c>>] \in Nat
  BY DelayAssumption DEF DelayAssumption, Delays, TypeOK, Kinds
<1>1. \A c \in Delays :
          timerQueue'[<<m, k, c>>] =
              (IF c = 0 THEN timerQueue[<<m, k, c>>] ELSE 0)
              + (IF c < ReviveDelay THEN timerQueue[<<m, k, c + 1>>] ELSE 0)
  BY DEF Tick, Kinds
<1>2. CASE d = 0
  <2>1. timerQueue'[<<m, k, 0>>] > 0
    <3>1. 0 \in Delays
      BY <1>0
    <3>2. 0 < ReviveDelay => timerQueue[<<m, k, 0 + 1>>] \in Nat
      BY <1>0
    <3>3. timerQueue[<<m, k, 0>>] \in Nat /\ timerQueue[<<m, k, 0>>] > 0
      BY <1>0, <1>2, <3>1
    <3> QED
      BY <1>1, <3>1, <3>2, <3>3
  <2> QED
    BY <1>0, <1>2, <2>1 DEF Queued
<1>3. CASE d # 0
  <2> DEFINE c == d - 1
  <2>1. c \in Delays /\ c < ReviveDelay /\ c + 1 = d
    BY <1>0, <1>3
  <2>2. timerQueue[<<m, k, c>>] \in Nat /\ timerQueue[<<m, k, d>>] \in Nat
    BY <1>0, <2>1
  <2>3. timerQueue'[<<m, k, c>>] =
            (IF c = 0 THEN timerQueue[<<m, k, c>>] ELSE 0) + timerQueue[<<m, k, d>>]
    BY <1>1, <2>1
  <2>4. timerQueue'[<<m, k, c>>] > 0
    BY <2>2, <2>3
  <2> HIDE DEF c
  <2> QED
    BY <2>1, <2>4 DEF Queued
<1> QED
  BY <1>2, <1>3

(* Only t's own registers change, and t is not a witness: others are kept. *)
OnlyThread(t) == \A u \in Threads \ {t} : pc'[u] = pc[u] /\ npc'[u] = npc[u]

LEMMA AtKept ==
    ASSUME NEW t \in Threads, OnlyThread(t), NEW labels, NEW m,
           At(labels, m), ~(pc[t] \in labels /\ npc[t] = m)
    PROVE  At(labels, m)'
BY DEF At, OnlyThread

LEMMA AtMoved ==
    ASSUME NEW t \in Threads, NEW labels, NEW m, pc'[t] \in labels, npc'[t] = m
    PROVE  At(labels, m)'
BY DEF At

-----------------------------------------------------------------------------
(* What the next handler step owes to each NPC. *)

Cared(m) == /\ state[m] = "INGAME" => ChainAlive(m)
            /\ state[m] = "DEAD" => ReviveComing(m)

LEMMA CaredMeans == (\A m \in Npcs : Cared(m)) <=> NeverStranded /\ DeadWillRevive
BY DEF Cared, NeverStranded, DeadWillRevive

LEMMA ChainKept ==
    ASSUME NEW t \in Threads, OnlyThread(t), NEW m \in Npcs, ChainAlive(m),
           Queued(m, "MOVE") => ChainAlive(m)',
           completions[m] > 0 => ChainAlive(m)',
           pc[t] \in MoveLabels /\ npc[t] = m => ChainAlive(m)'
    PROVE  ChainAlive(m)'
BY AtKept DEF ChainAlive

LEMMA ReviveKept ==
    ASSUME NEW t \in Threads, OnlyThread(t), NEW m \in Npcs, ReviveComing(m),
           Queued(m, "REVIVE") => ReviveComing(m)',
           pc[t] \in {"schedule", "revive"} /\ npc[t] = m => ReviveComing(m)'
    PROVE  ReviveComing(m)'
BY AtKept DEF ReviveComing

(* A step that changes at most t's registers, and neither a queue nor a    *)
(* state, forgets no NPC unless t did.                                     *)
LEMMA QueuesKept ==
    ASSUME NEW t \in Threads, OnlyThread(t), NEW m \in Npcs,
           UNCHANGED <<timerQueue, completions>>,
           pc[t] \in MoveLabels /\ npc[t] = m => pc'[t] \in MoveLabels /\ npc'[t] = m,
           pc[t] \in {"schedule", "revive"} /\ npc[t] = m
               => pc'[t] \in {"schedule", "revive"} /\ npc'[t] = m
    PROVE  /\ ChainAlive(m) => ChainAlive(m)'
           /\ ReviveComing(m) => ReviveComing(m)'
<1>1. /\ Queued(m, "MOVE") => Queued(m, "MOVE")'
      /\ Queued(m, "REVIVE") => Queued(m, "REVIVE")'
  BY DEF Queued
<1>2. ASSUME ChainAlive(m) PROVE ChainAlive(m)'
  <2>1. CASE Queued(m, "MOVE") \/ completions[m] > 0
    BY <1>1, <2>1 DEF ChainAlive
  <2>2. CASE pc[t] \in MoveLabels /\ npc[t] = m
    BY <2>2, AtMoved DEF ChainAlive
  <2>3. CASE At(MoveLabels, m) /\ ~(pc[t] \in MoveLabels /\ npc[t] = m)
    BY <2>3, AtKept DEF ChainAlive
  <2> QED
    BY <1>2, <2>1, <2>2, <2>3 DEF ChainAlive
<1>3. ASSUME ReviveComing(m) PROVE ReviveComing(m)'
  <2> DEFINE L == {"schedule", "revive"}
  <2>1. CASE Queued(m, "REVIVE")
    BY <1>1, <2>1 DEF ReviveComing
  <2>2. CASE pc[t] \in L /\ npc[t] = m
    BY <2>2, AtMoved DEF ReviveComing
  <2>3. CASE At(L, m) /\ ~(pc[t] \in L /\ npc[t] = m)
    BY <2>3, AtKept DEF ReviveComing
  <2> QED
    BY <1>3, <2>1, <2>2, <2>3 DEF ReviveComing
<1> QED
  BY <1>2, <1>3

(* Scheduling an event forgets no NPC but the one t was at work on, and    *)
(* that one only if the event is of the wrong kind.                        *)
LEMMA AddForgetsNone ==
    ASSUME TypeOK, NEW t \in Threads, OnlyThread(t), NEW m \in Npcs,
           NEW n \in Npcs, NEW kind \in Kinds, NEW delay \in Delays,
           AddTimer(n, kind, delay), UNCHANGED completions,
           pc[t] \in MoveLabels => npc[t] = n /\ kind = "MOVE",
           pc[t] \in {"schedule", "revive"} => npc[t] = n /\ kind = "REVIVE"
    PROVE  /\ ChainAlive(m) => ChainAlive(m)'
           /\ ReviveComing(m) => ReviveComing(m)'
<1>1. /\ Queued(m, "MOVE") => Queued(m, "MOVE")'
      /\ Queued(m, "REVIVE") => Queued(m, "REVIVE")'
      /\ Queued(n, kind)'
  BY AddKeeps DEF Kinds
<1>2. ASSUME ChainAlive(m) PROVE ChainAlive(m)'
  BY <1>1, <1>2, ChainKept DEF ChainAlive
<1>3. ASSUME ReviveComing(m) PROVE ReviveComing(m)'
  BY <1>1, <1>3, ReviveKept DEF ReviveComing
<1> QED
  BY <1>2, <1>3

-----------------------------------------------------------------------------
LEMMA InitCared == Init => NeverStranded /\ DeadWillRevive
BY DEF Init, NeverStranded, DeadWillRevive

LEMMA NextCared ==
    Inv /\ NeverStranded /\ DeadWillRevive /\ [Next]_vars
        => NeverStranded' /\ DeadWillRevive'
<1> SUFFICES ASSUME Inv, NeverStranded, DeadWillRevive, [Next]_vars,
                    NEW m \in Npcs
             PROVE  Cared(m)'
  BY DEF Cared, NeverStranded, DeadWillRevive
<1>0. TypeOK /\ HandlerHasNpc /\ Cared(m) /\ Workers \subseteq Threads /\ Timer \in Threads
  BY CaredMeans DEF Inv, Threads
<1>a. \A t \in Threads : pc[t] \in Handling => npc[t] \in Npcs
  BY <1>0 DEF HandlerHasNpc
<1>b. /\ pc = [t \in Threads |-> pc[t]] /\ npc = [t \in Threads |-> npc[t]]
      /\ state \in [Npcs -> {"SLEEP", "INGAME", "DEAD"}]
      /\ completions \in [Npcs -> Nat]
  BY <1>0 DEF TypeOK
<1>c. MoveDelay \in Delays /\ ReviveDelay \in Delays
  BY DelayAssumption DEF DelayAssumption, Delays
<1>1. ASSUME NEW w \in Workers, NEW n \in Npcs, MoveStart(w, n) PROVE Cared(m)'
  <2>1. /\ OnlyThread(w) /\ pc[w] = "idle"
        /\ UNCHANGED <<state, timerQueue>>
        /\ \A k \in Npcs \ {n} : completions'[k] = completions[k]
    <3>1. /\ pc[w] = "idle" /\ UNCHANGED <<state, timerQueue>>
          /\ completions' = [completions EXCEPT ![n] = @ - 1]
      BY <1>1 DEF MoveStart, Begin
    <3>2. Begin(w, "move", n, None) => OnlyThread(w)
      BY <1>0, <1>b DEF Begin, Goto, OnlyThread
    <3>3. UNCHANGED registers => OnlyThread(w)
      BY DEF OnlyThread, registers
    <3>4. OnlyThread(w)
      BY <1>1, <3>2, <3>3 DEF MoveStart
    <3> QED
      BY <1>b, <3>1, <3>4
  <2>2. ReviveComing(m) => ReviveComing(m)'
    BY <1>0, <2>1, ReviveKept DEF ReviveComing, Queued
  <2>3. CASE m # n
    <3>1. ChainAlive(m) => ChainAlive(m)'
      BY <1>0, <2>1, <2>3, ChainKept DEF ChainAlive, Queued, MoveLabels
    <3> QED
      BY <1>0, <2>1, <2>2, <3>1 DEF Cared
  <2>4. CASE m = n /\ state[n] = "INGAME"
    <3>1. pc'[w] = "move" /\ npc'[w] = n
      BY <1>0, <1>1, <1>b, <2>4 DEF MoveStart, Begin, Goto
    <3>2. At(MoveLabels, m)'
      BY <1>0, <2>4, <3>1, AtMoved DEF MoveLabels
    <3> QED
      BY <1>0, <2>1, <2>2, <3>2 DEF Cared, ChainAlive
  <2>5. CASE m = n /\ state[n] # "INGAME"
    BY <1>0, <2>1, <2>2, <2>5 DEF Cared
  <2> QED
    BY <2>3, <2>4, <2>5
<1>2. ASSUME NEW t \in Threads, NEW inRange \in SUBSET online, MoveNPC(t, inRange)
      PROVE Cared(m)'
  <2>1. /\ OnlyThread(t) /\ UNCHANGED <<state, timerQueue, completions>>
        /\ pc[t] \in MoveLabels /\ npc[t] = m => pc'[t] \in MoveLabels /\ npc'[t] = m
        /\ pc[t] \in {"schedule", "revive"} /\ npc[t] = m
               => pc'[t] \in {"schedule", "revive"} /\ npc'[t] = m
    BY <1>0, <1>2, <1>b DEF MoveNPC, Goto, OnlyThread, MoveLabels
  <2> QED
    BY <1>0, <2>1, QueuesKept DEF Cared
<1>3. ASSUME NEW t \in Threads, NEW p \in Players, ScanNext(t, p) PROVE Cared(m)'
  <2>1. /\ OnlyThread(t) /\ UNCHANGED <<state, timerQueue, completions>>
        /\ pc[t] \in MoveLabels /\ npc[t] = m => pc'[t] \in MoveLabels /\ npc'[t] = m
        /\ pc[t] \in {"schedule", "revive"} /\ npc[t] = m
               => pc'[t] \in {"schedule", "revive"} /\ npc'[t] = m
    BY <1>0, <1>3, <1>b DEF ScanNext, Goto, shared, OnlyThread, MoveLabels
  <2> QED
    BY <1>0, <2>1, QueuesKept DEF Cared
<1>4. ASSUME NEW t \in Threads, Rearm(t) PROVE Cared(m)'
  <2>1. /\ OnlyThread(t) /\ UNCHANGED <<state, completions>>
        /\ pc[t] = "arm" /\ AddTimer(npc[t], "MOVE", MoveDelay)
    BY <1>0, <1>4, <1>b DEF Rearm, Idle, Goto, OnlyThread
  <2>2. npc[t] \in Npcs
    BY <1>a, <2>1 DEF Handling
  <2> QED
    BY <1>0, <1>c, <2>1, <2>2, AddForgetsNone DEF Cared, Kinds, MoveLabels
<1>5. ASSUME NEW t \in Threads, Sleep(t) PROVE Cared(m)'
  <2>1. /\ OnlyThread(t) /\ UNCHANGED <<timerQueue, completions>>
        /\ pc[t] = "scan" /\ npc[t] \in Npcs
        /\ state' = [state EXCEPT ![npc[t]] = "SLEEP"]
    BY <1>0, <1>5, <1>a, <1>b DEF Sleep, Idle, Goto, OnlyThread, Handling
  <2>2. CASE m = npc[t]
    BY <1>b, <2>1, <2>2 DEF Cared
  <2>3. CASE m # npc[t]
    <3>1. state'[m] = state[m]
      BY <1>b, <2>1, <2>3
    <3> QED
      BY <1>0, <2>1, <2>3, <3>1, QueuesKept DEF Cared
  <2> QED
    BY <2>2, <2>3
<1>6. ASSUME NEW w \in Workers, NEW p \in Players, NEW ns \in SUBSET Npcs,
             PlayerMove(w, p, ns)
      PROVE Cared(m)'
  <2>1. /\ OnlyThread(w) /\ UNCHANGED <<state, timerQueue, completions>>
        /\ pc[w] \in MoveLabels /\ npc[w] = m => pc'[w] \in MoveLabels /\ npc'[w] = m
        /\ pc[w] \in {"schedule", "revive"} /\ npc[w] = m
               => pc'[w] \in {"schedule", "revive"} /\ npc'[w] = m
    BY <1>0, <1>6, <1>b DEF PlayerMove, Goto, registers, OnlyThread, MoveLabels
  <2> QED
    BY <1>0, <2>1, QueuesKept DEF Cared
<1>7. ASSUME NEW w \in Workers, NEW p \in Players, PlayerLeave(w, p) PROVE Cared(m)'
  <2>1. /\ OnlyThread(w) /\ UNCHANGED <<state, timerQueue, completions>>
        /\ pc[w] \in MoveLabels /\ npc[w] = m => pc'[w] \in MoveLabels /\ npc'[w] = m
        /\ pc[w] \in {"schedule", "revive"} /\ npc[w] = m
               => pc'[w] \in {"schedule", "revive"} /\ npc'[w] = m
    BY <1>0, <1>7, <1>b DEF PlayerLeave, registers, OnlyThread, MoveLabels
  <2> QED
    BY <1>0, <2>1, QueuesKept DEF Cared
<1>8. ASSUME NEW t \in Threads, NEW n \in Npcs, ActivateNPC(t, n) PROVE Cared(m)'
  <2>1. /\ OnlyThread(t) /\ UNCHANGED <<timerQueue, completions>>
        /\ pc[t] = "activate"
    BY <1>0, <1>8, <1>b DEF ActivateNPC, Goto, OnlyThread
  <2>2. /\ ChainAlive(m) => ChainAlive(m)'
        /\ ReviveComing(m) => ReviveComing(m)'
    BY <1>0, <2>1, QueuesKept DEF MoveLabels
  <2>3. CASE state'[m] = state[m]
    BY <1>0, <2>2, <2>3 DEF Cared
  <2>4. CASE state'[m] # state[m]
    <3>1. m = n /\ state'[m] = "INGAME" /\ pc'[t] = "activated" /\ npc'[t] = m
      BY <1>8, <1>b, <2>4 DEF ActivateNPC, Goto
    <3>2. At(MoveLabels, m)'
      BY <3>1, AtMoved DEF MoveLabels
    <3> QED
      BY <3>1, <3>2 DEF Cared, ChainAlive
  <2> QED
    BY <2>3, <2>4
<1>9. ASSUME NEW t \in Threads, StartChain(t) PROVE Cared(m)'
  <2>1. /\ OnlyThread(t) /\ UNCHANGED <<state, completions>>
        /\ pc[t] = "activated" /\ AddTimer(npc[t], "MOVE", MoveDelay)
    BY <1>0, <1>9, <1>b DEF StartChain, Idle, Goto, OnlyThread
  <2>2. npc[t] \in Npcs
    BY <1>a, <2>1 DEF Handling
  <2> QED
    BY <1>0, <1>c, <2>1, <2>2, AddForgetsNone DEF Cared, Kinds, MoveLabels
<1>10. ASSUME NEW t \in Threads, PlayerDone(t) PROVE Cared(m)'
  <2>1. /\ OnlyThread(t) /\ UNCHANGED <<state, timerQueue, completions>>
        /\ pc[t] \in MoveLabels /\ npc[t] = m => pc'[t] \in MoveLabels /\ npc'[t] = m
        /\ pc[t] \in {"schedule", "revive"} /\ npc[t] = m
               => pc'[t] \in {"schedule", "revive"} /\ npc'[t] = m
    BY <1>0, <1>10, <1>b DEF PlayerDone, Idle, Goto, shared, OnlyThread, MoveLabels
  <2> QED
    BY <1>0, <2>1, QueuesKept DEF Cared
<1>11. ASSUME NEW w \in Workers, NEW p \in Players, NEW n \in Npcs, Attack(w, p, n)
      PROVE Cared(m)'
  <2>1. /\ OnlyThread(w) /\ UNCHANGED <<state, timerQueue, completions>>
        /\ pc[w] \in MoveLabels /\ npc[w] = m => pc'[w] \in MoveLabels /\ npc'[w] = m
        /\ pc[w] \in {"schedule", "revive"} /\ npc[w] = m
               => pc'[w] \in {"schedule", "revive"} /\ npc'[w] = m
    BY <1>0, <1>11, <1>b DEF Attack, Begin, Goto, OnlyThread, MoveLabels
  <2> QED
    BY <1>0, <2>1, QueuesKept DEF Cared
<1>12. ASSUME NEW t \in Threads, CheckDead(t) PROVE Cared(m)'
  <2>1. /\ OnlyThread(t) /\ UNCHANGED <<state, timerQueue, completions>>
        /\ pc[t] \in MoveLabels /\ npc[t] = m => pc'[t] \in MoveLabels /\ npc'[t] = m
        /\ pc[t] \in {"schedule", "revive"} /\ npc[t] = m
               => pc'[t] \in {"schedule", "revive"} /\ npc'[t] = m
    BY <1>0, <1>12, <1>b DEF CheckDead, Idle, Goto, shared, OnlyThread, MoveLabels
  <2> QED
    BY <1>0, <2>1, QueuesKept DEF Cared
<1>13. ASSUME NEW t \in Threads, SetDead(t) PROVE Cared(m)'
  <2>1. /\ OnlyThread(t) /\ UNCHANGED <<timerQueue, completions>>
        /\ pc[t] = "kill" /\ npc[t] \in Npcs
        /\ pc'[t] = "schedule" /\ npc'[t] = npc[t]
        /\ state' = [state EXCEPT ![npc[t]] = "DEAD"]
    BY <1>0, <1>13, <1>a, <1>b DEF SetDead, Goto, OnlyThread, Handling
  <2>2. CASE m = npc[t]
    <3>1. state'[m] = "DEAD" /\ At({"schedule", "revive"}, m)'
      BY <1>b, <2>1, <2>2, AtMoved
    <3> QED
      BY <3>1 DEF Cared, ReviveComing
  <2>3. CASE m # npc[t]
    <3>1. state'[m] = state[m]
      BY <1>b, <2>1, <2>3
    <3> QED
      BY <1>0, <2>1, <2>3, <3>1, QueuesKept DEF Cared
  <2> QED
    BY <2>2, <2>3
<1>14. ASSUME NEW t \in Threads, ScheduleRevive(t) PROVE Cared(m)'
  <2>1. /\ OnlyThread(t) /\ UNCHANGED <<state, completions>>
        /\ pc[t] = "schedule" /\ AddTimer(npc[t], "REVIVE", ReviveDelay)
    BY <1>0, <1>14, <1>b DEF ScheduleRevive, Idle, Goto, OnlyThread
  <2>2. npc[t] \in Npcs
    BY <1>a, <2>1 DEF Handling
  <2> QED
    BY <1>0, <1>c, <2>1, <2>2, AddForgetsNone DEF Cared, Kinds, MoveLabels
<1>15. CASE Tick
  <2>1. UNCHANGED <<state, completions, pc, npc>>
    BY <1>15 DEF Tick, registers
  <2>2. /\ Queued(m, "MOVE") => Queued(m, "MOVE")'
        /\ Queued(m, "REVIVE") => Queued(m, "REVIVE")'
    BY <1>0, <1>15, TickKeeps DEF Kinds
  <2> QED
    BY <1>0, <2>1, <2>2 DEF Cared, ChainAlive, ReviveComing, At
<1>16. ASSUME NEW n \in Npcs, FireMove(n) PROVE Cared(m)'
  <2>1. /\ UNCHANGED <<state, pc, npc>> /\ PopTimer(n, "MOVE")
        /\ completions' = [completions EXCEPT ![n] = @ + 1]
    BY <1>16 DEF FireMove, registers
  <2>2. /\ m # n => (Queued(m, "MOVE") => Queued(m, "MOVE")')
        /\ Queued(m, "REVIVE") => Queued(m, "REVIVE")'
    BY <1>0, <2>1, PopKeepsOthers DEF Kinds
  <2>3. /\ completions'[n] > 0
        /\ m # n => completions'[m] = completions[m]
    BY <1>b, <2>1
  <2> QED
    BY <1>0, <2>1, <2>2, <2>3 DEF Cared, ChainAlive, ReviveComing, At
<1>17. ASSUME NEW n \in Npcs, FireRevive(n) PROVE Cared(m)'
  <2>1. /\ OnlyThread(Timer) /\ UNCHANGED <<state, completions>>
        /\ PopTimer(n, "REVIVE") /\ pc[Timer] = "idle"
        /\ pc'[Timer] = "revive" /\ npc'[Timer] = n
    BY <1>0, <1>17, <1>b DEF FireRevive, Begin, Goto, OnlyThread
  <2>2. /\ Queued(m, "MOVE") => Queued(m, "MOVE")'
        /\ m # n => (Queued(m, "REVIVE") => Queued(m, "REVIVE")')
    BY <1>0, <2>1, PopKeepsOthers DEF Kinds
  <2>3. ChainAlive(m) => ChainAlive(m)'
    BY <1>0, <2>1, <2>2, ChainKept DEF ChainAlive, MoveLabels
  <2>4. m = n => ReviveComing(m)'
    BY <1>0, <2>1, AtMoved DEF ReviveComing
  <2>5. ReviveComing(m) => ReviveComing(m)'
    BY <1>0, <2>1, <2>2, <2>4, ReviveKept DEF ReviveComing
  <2> QED
    BY <1>0, <2>1, <2>3, <2>5 DEF Cared
<1>18. CASE SetAlive
  <2>1. /\ OnlyThread(Timer) /\ UNCHANGED <<timerQueue, completions>>
        /\ pc[Timer] = "revive" /\ npc[Timer] \in Npcs
        /\ pc'[Timer] = "scan" /\ npc'[Timer] = npc[Timer]
        /\ state' = [state EXCEPT ![npc[Timer]] = "INGAME"]
    BY <1>0, <1>18, <1>a, <1>b DEF SetAlive, Goto, OnlyThread, Handling
  <2>2. CASE m = npc[Timer]
    <3>1. state'[m] = "INGAME" /\ At(MoveLabels, m)'
      BY <1>0, <1>b, <2>1, <2>2, AtMoved DEF MoveLabels
    <3> QED
      BY <3>1 DEF Cared, ChainAlive
  <2>3. CASE m # npc[Timer]
    <3>1. state'[m] = state[m]
      BY <1>b, <2>1, <2>3
    <3> QED
      BY <1>0, <2>1, <2>3, <3>1, QueuesKept DEF Cared
  <2> QED
    BY <2>2, <2>3
<1>19. CASE UNCHANGED vars
  <2>1. UNCHANGED <<state, timerQueue, completions, pc, npc>>
    BY <1>19 DEF vars, shared, registers
  <2> QED
    BY <1>0, <2>1 DEF Cared, ChainAlive, ReviveComing, At, Queued
<1> QED
  BY <1>1, <1>2, <1>3, <1>4, <1>5, <1>6, <1>7, <1>8, <1>9, <1>10, <1>11, <1>12, <1>13, <1>14,
     <1>15, <1>16, <1>17, <1>18, <1>19 DEF Next, Continue, WorkerStep, PlayerInput, TimerStep

-----------------------------------------------------------------------------
(* Every variable keeps its type, and a thread inside a handler about an   *)
(* NPC has that NPC in its register.                                       *)
THEOREM TypesKept == Spec => [](TypeOK /\ HandlerHasNpc)
<1>1. Inv => TypeOK /\ HandlerHasNpc
  BY DEF Inv
<1> QED
  BY InitInv, NextInv, <1>1, PTL DEF Spec

(* For any number of NPCs, players and workers: an INGAME NPC always has a *)
(* queued event, a posted completion or a running handler that moves it or *)
(* sends it back to sleep.                                                 *)
THEOREM NeverStrandedAlways == Spec => []NeverStranded
BY InitInv, NextInv, InitCared, NextCared, PTL DEF Spec

(* For any number of NPCs, players and workers: a DEAD NPC always has a    *)
(* revival queued, about to be queued or under way.                        *)
THEOREM DeadWillReviveAlways == Spec => []DeadWillRevive
BY InitInv, NextInv, InitCared, NextCared, PTL DEF Spec

-----------------------------------------------------------------------------
(* Counting events.  Dots(q) are the events of a queue with q[d] events    *)
(* that have d ticks left.                                                 *)

Queues == [Delays -> Nat]
Dots(q) == UNION {{d} \X (1..q[d]) : d \in Delays}
LEMMA DotsMember ==
    ASSUME NEW q, NEW x
    PROVE  x \in Dots(q) <=> \E d \in Delays : \E i \in 1..q[d] : x = <<d, i>>
BY DEF Dots

LEMMA PairInDots ==
    ASSUME NEW q, NEW d, NEW i
    PROVE  <<d, i>> \in Dots(q) <=> d \in Delays /\ i \in 1..q[d]
BY DotsMember

LEMMA DotsFinite ==
    ASSUME NEW q \in Queues
    PROVE  IsFiniteSet(Dots(q)) /\ Cardinality(Dots(q)) \in Nat
<1> DEFINE Column(d) == {d} \X (1..q[d])
           columns == {Column(d) : d \in Delays}
           f == [d \in Delays |-> Column(d)]
<1>1. IsFiniteSet(Delays)
  BY DelayAssumption, FS_Interval DEF DelayAssumption, Delays
<1>2. \A d \in Delays : IsFiniteSet(Column(d))
  <2> TAKE d \in Delays
  <2>1. q[d] \in Int
    BY DEF Queues
  <2>2. IsFiniteSet(1..q[d])
    BY <2>1, FS_Interval
  <2>3. IsFiniteSet({d})
    BY FS_Singleton
  <2> QED
    BY <2>2, <2>3, FS_Product
<1> HIDE DEF Column
<1>3. f \in Surjection(Delays, columns)
  BY DEF Surjection
<1> HIDE DEF f
<1>4. IsFiniteSet(columns)
  BY <1>1, <1>3, FS_Surjection
<1>5. IsFiniteSet(UNION columns)
  BY <1>2, <1>4, FS_UNION
<1>6. Dots(q) = UNION columns
  BY DEF Dots, Column
<1> QED
  BY <1>5, <1>6, FS_CardinalityType

LEMMA AddDot ==
    ASSUME NEW q \in Queues, NEW r \in Queues, NEW e \in Delays,
           \A d \in Delays : r[d] = IF d = e THEN q[d] + 1 ELSE q[d]
    PROVE  Cardinality(Dots(r)) = Cardinality(Dots(q)) + 1
<1> DEFINE new == <<e, q[e] + 1>>
<1>0. q[e] \in Nat /\ \A d \in Delays : q[d] \in Nat /\ r[d] = IF d = e THEN q[d] + 1 ELSE q[d]
  BY DEF Queues
<1>1. new \notin Dots(q)
  BY <1>0, PairInDots
<1>2. Dots(r) = Dots(q) \cup {new}
  <2>1. \A d \in Delays : \A i : i \in 1..r[d] <=> i \in 1..q[d] \/ (d = e /\ i = q[e] + 1)
    BY <1>0
  <2>2. ASSUME NEW x \in Dots(r) PROVE x \in Dots(q) \cup {new}
    <3>1. PICK d \in Delays : \E i \in 1..r[d] : x = <<d, i>>
      BY <2>2, DotsMember
    <3>1a. PICK i \in 1..r[d] : x = <<d, i>>
      BY <3>1
    <3> QED
      BY <2>1, <3>1, <3>1a, PairInDots
  <2>3. ASSUME NEW x \in Dots(q) PROVE x \in Dots(r)
    <3>1. PICK d \in Delays : \E i \in 1..q[d] : x = <<d, i>>
      BY <2>3, DotsMember
    <3>1a. PICK i \in 1..q[d] : x = <<d, i>>
      BY <3>1
    <3> QED
      BY <2>1, <3>1, <3>1a, PairInDots
  <2>4. new \in Dots(r)
    BY <2>1, PairInDots
  <2> QED
    BY <2>2, <2>3, <2>4
<1> HIDE DEF new
<1> QED
  BY <1>1, <1>2, DotsFinite, FS_AddElement

LEMMA RemoveDot ==
    ASSUME NEW q \in Queues, NEW r \in Queues, NEW e \in Delays, q[e] > 0,
           \A d \in Delays : r[d] = IF d = e THEN q[d] - 1 ELSE q[d]
    PROVE  Cardinality(Dots(r)) = Cardinality(Dots(q)) - 1
<1> DEFINE old == <<e, q[e]>>
<1>0. q[e] \in Nat /\ \A d \in Delays : q[d] \in Nat /\ r[d] = IF d = e THEN q[d] - 1 ELSE q[d]
  BY DEF Queues
<1>1. old \in Dots(q)
  BY <1>0, PairInDots
<1>2. Dots(r) = Dots(q) \ {old}
  <2>1. \A d \in Delays : \A i : i \in 1..r[d] <=> i \in 1..q[d] /\ ~(d = e /\ i = q[e])
    BY <1>0
  <2>2. ASSUME NEW x \in Dots(r) PROVE x \in Dots(q) \ {old}
    <3>1. PICK d \in Delays : \E i \in 1..r[d] : x = <<d, i>>
      BY <2>2, DotsMember
    <3>1a. PICK i \in 1..r[d] : x = <<d, i>>
      BY <3>1
    <3> QED
      BY <2>1, <3>1, <3>1a, PairInDots
  <2>3. ASSUME NEW x \in Dots(q), x # old PROVE x \in Dots(r)
    <3>1. PICK d \in Delays : \E i \in 1..q[d] : x = <<d, i>>
      BY <2>3, DotsMember
    <3>1a. PICK i \in 1..q[d] : x = <<d, i>>
      BY <3>1
    <3> QED
      BY <2>1, <2>3, <3>1, <3>1a, PairInDots
  <2> QED
    BY <2>2, <2>3
<1> HIDE DEF old
<1> QED
  BY <1>1, <1>2, DotsFinite, FS_RemoveElement

(* A tick moves every event that is not due one place down: none is lost   *)
(* and none is made.                                                       *)
LEMMA ShiftDots ==
    ASSUME NEW q \in Queues, NEW r \in Queues,
           \A d \in Delays : r[d] = (IF d = 0 THEN q[d] ELSE 0)
                                    + (IF d < ReviveDelay THEN q[d + 1] ELSE 0)
    PROVE  Cardinality(Dots(r)) = Cardinality(Dots(q))
<1> DEFINE Down(x) == IF x[1] = 0 THEN x
                      ELSE IF x[1] = 1 THEN <<0, q[0] + x[2]>>
                      ELSE <<x[1] - 1, x[2]>>
           f == [x \in Dots(q) |-> Down(x)]
<1>0. /\ ReviveDelay \in Nat /\ Delays = 0..ReviveDelay /\ 0 \in Delays
      /\ \A d \in Delays : q[d] \in Nat /\ r[d] \in Nat
  BY DelayAssumption DEF DelayAssumption, Delays, Queues
<1>1. \A d \in Delays : \A i \in 1..q[d] :
          Down(<<d, i>>) = IF d = 0 THEN <<0, i>>
                           ELSE IF d = 1 THEN <<0, q[0] + i>> ELSE <<d - 1, i>>
  OBVIOUS
<1>2. \A x \in Dots(q) : \E d \in Delays : \E i \in 1..q[d] : x = <<d, i>>
  BY DotsMember
<1>3. f \in [Dots(q) -> Dots(r)]
  <2> SUFFICES ASSUME NEW d \in Delays, NEW i \in 1..q[d]
               PROVE  Down(<<d, i>>) \in Dots(r)
    BY <1>2
  <2>1. CASE d = 0
    <3>1. i \in 1..r[0]
      <4>1. r[0] = q[0] + (IF 0 < ReviveDelay THEN q[0 + 1] ELSE 0)
        BY <1>0
      <4>2. 0 < ReviveDelay => q[0 + 1] \in Nat
        BY <1>0
      <4> QED
        BY <1>0, <2>1, <4>1, <4>2
    <3> QED
      BY <1>0, <1>1, <2>1, <3>1, PairInDots
  <2>2. CASE d = 1
    <3>1. q[0] + i \in 1..r[0]
      <4>1. r[0] = q[0] + q[1]
        BY <1>0, <2>2
      <4> QED
        BY <1>0, <2>2, <4>1
    <3> QED
      BY <1>0, <1>1, <2>2, <3>1, PairInDots
  <2>3. CASE d > 1
    <3>1. d - 1 \in Delays /\ r[d - 1] = q[d]
      <4>1. d - 1 \in Delays /\ d - 1 < ReviveDelay /\ d - 1 # 0 /\ (d - 1) + 1 = d
        BY <1>0, <2>3
      <4> QED
        BY <1>0, <4>1
    <3>2. Down(<<d, i>>) = <<d - 1, i>>
      BY <1>0, <1>1, <2>3
    <3> HIDE DEF Down
    <3> QED
      BY <3>1, <3>2, PairInDots
  <2> QED
    BY <1>0, <2>1, <2>2, <2>3
<1>4. ASSUME NEW x \in Dots(q), NEW y \in Dots(q), f[x] = f[y] PROVE x = y
  <2>1. PICK d \in Delays : \E i \in 1..q[d] : x = <<d, i>>
    BY <1>2
  <2>1a. PICK i \in 1..q[d] : x = <<d, i>>
    BY <2>1
  <2>2. PICK e \in Delays : \E j \in 1..q[e] : y = <<e, j>>
    BY <1>2
  <2>2a. PICK j \in 1..q[e] : y = <<e, j>>
    BY <2>2
  <2>3. Down(<<d, i>>) = Down(<<e, j>>)
    BY <1>4, <2>1, <2>1a, <2>2, <2>2a
  <2>4. d \in Nat /\ e \in Nat /\ i \in Nat /\ j \in Nat /\ q[0] \in Nat /\ i > 0 /\ j > 0
    BY <1>0
  <2>5. (d = 0 => i <= q[0]) /\ (e = 0 => j <= q[0])
    BY <1>0
  <2>6. d = e /\ i = j
    <3>1. CASE d = 0 /\ e = 0
      BY <1>1, <2>3, <2>4, <3>1
    <3>2. CASE d = 0 /\ e = 1
      BY <1>1, <2>3, <2>4, <2>5, <3>2
    <3>3. CASE d = 0 /\ e > 1
      BY <1>1, <2>3, <2>4, <2>5, <3>3
    <3>4. CASE d = 1 /\ e = 0
      BY <1>1, <2>3, <2>4, <2>5, <3>4
    <3>5. CASE d = 1 /\ e = 1
      BY <1>1, <2>3, <2>4, <3>5
    <3>6. CASE d = 1 /\ e > 1
      BY <1>1, <2>3, <2>4, <3>6
    <3>7. CASE d > 1 /\ e = 0
      BY <1>1, <2>3, <2>4, <3>7
    <3>8. CASE d > 1 /\ e = 1
      BY <1>1, <2>3, <2>4, <3>8
    <3>9. CASE d > 1 /\ e > 1
      BY <1>1, <2>3, <2>4, <3>9
    <3> QED
      BY <2>4, <3>1, <3>2, <3>3, <3>4, <3>5, <3>6, <3>7, <3>8, <3>9
  <2> QED
    BY <2>1a, <2>2a, <2>6
<1>5. ASSUME NEW y \in Dots(r) PROVE \E x \in Dots(q) : f[x] = y
  <2>0. PICK d \in Delays : \E i \in 1..r[d] : y = <<d, i>>
    BY <1>5, DotsMember
  <2>0a. PICK i \in 1..r[d] : y = <<d, i>>
    BY <2>0
  <2> SUFFICES \E e \in Delays : \E j \in 1..q[e] : Down(<<e, j>>) = <<d, i>>
    BY <2>0a, PairInDots
  <2>1. CASE d = 0 /\ i <= q[0]
    <3>1. i \in 1..q[0]
      BY <1>0, <2>1
    <3>2. Down(<<0, i>>) = <<0, i>>
      OBVIOUS
    <3> QED
      BY <1>0, <2>1, <3>1, <3>2
  <2>2. CASE d = 0 /\ i > q[0]
    <3>1. 1 \in Delays /\ i - q[0] \in 1..q[1]
      <4>1. r[0] = q[0] + (IF 0 < ReviveDelay THEN q[0 + 1] ELSE 0)
        BY <1>0
      <4>2. 0 < ReviveDelay
        BY <1>0, <2>2, <4>1
      <4> QED
        BY <1>0, <2>2, <4>1, <4>2
    <3>2. Down(<<1, i - q[0]>>) = <<0, i>>
      BY <1>0, <1>1, <3>1
    <3> HIDE DEF Down
    <3> QED
      BY <2>2, <3>1, <3>2
  <2>3. CASE d > 0
    <3>1. d + 1 \in Delays /\ i \in 1..q[d + 1]
      <4>1. r[d] = IF d < ReviveDelay THEN q[d + 1] ELSE 0
        BY <1>0, <2>3
      <4> QED
        BY <1>0, <4>1
    <3>2. Down(<<d + 1, i>>) = <<d, i>>
      BY <1>0, <1>1, <2>3, <3>1
    <3> HIDE DEF Down
    <3> QED
      BY <3>1, <3>2
  <2> HIDE DEF Down
  <2>4. d \in Nat /\ i \in Nat /\ q[0] \in Nat
    BY <1>0
  <2>5. (d = 0 /\ i <= q[0]) \/ (d = 0 /\ i > q[0]) \/ d > 0
    BY <2>4
  <2> QED
    BY <2>1, <2>2, <2>3, <2>5, Zenon
<1> HIDE DEF f
<1>6. f \in Bijection(Dots(q), Dots(r))
  BY <1>3, <1>4, <1>5 DEF Bijection, Injection, IsInjective, Surjection
<1> QED
  BY <1>6, DotsFinite, FS_Bijection DEF ExistsBijection

TimerQueues == [Npcs \X Kinds \X Delays -> Nat]
QueueOf(events, n, kind) == [d \in Delays |-> events[<<n, kind, d>>]]
Pile(events, n, kind) == UNION {{d} \X (1..events[<<n, kind, d>>]) : d \in Delays}

LEMMA PileIsDots ==
    ASSUME NEW events \in TimerQueues, NEW n \in Npcs, NEW kind \in Kinds
    PROVE  /\ Pile(events, n, kind) = Dots(QueueOf(events, n, kind))
           /\ QueueOf(events, n, kind) \in Queues
           /\ Cardinality(Pile(events, n, kind)) \in Nat
<1>1. QueueOf(events, n, kind) \in Queues
  BY DEF TimerQueues, QueueOf, Queues
<1>2. \A d \in Delays :
          {d} \X (1..events[<<n, kind, d>>]) = {d} \X (1..QueueOf(events, n, kind)[d])
  BY DEF QueueOf
<1>3. Pile(events, n, kind) = Dots(QueueOf(events, n, kind))
  BY <1>2 DEF Pile, Dots
<1> QED
  BY <1>1, <1>3, DotsFinite

LEMMA EventsArePile ==
    ASSUME NEW n, NEW kind
    PROVE  /\ EventsOf(n, kind) = Cardinality(Pile(timerQueue, n, kind))
           /\ EventsOf(n, kind)' = Cardinality(Pile(timerQueue', n, kind))
BY DEF EventsOf, Events, Pile

LEMMA QueueTypes ==
    /\ TypeOK => timerQueue \in TimerQueues
    /\ TypeOK' => timerQueue' \in TimerQueues
BY DEF TypeOK, TimerQueues, Kinds

LEMMA EventsCounted ==
    ASSUME TypeOK, TypeOK', NEW m \in Npcs, NEW kind \in Kinds
    PROVE  EventsOf(m, kind) \in Nat /\ EventsOf(m, kind)' \in Nat
BY PileIsDots, EventsArePile, QueueTypes

(* One event more. *)
LEMMA AddCounts ==
    ASSUME TypeOK, TypeOK', NEW n \in Npcs, NEW kind \in Kinds, NEW delay \in Delays,
           AddTimer(n, kind, delay), NEW m \in Npcs, NEW k \in Kinds
    PROVE  EventsOf(m, k)' = EventsOf(m, k) + IF m = n /\ k = kind THEN 1 ELSE 0
<1> DEFINE q == QueueOf(timerQueue, m, k)
           r == QueueOf(timerQueue', m, k)
<1>1. /\ timerQueue \in TimerQueues /\ timerQueue' \in TimerQueues
      /\ timerQueue' = [timerQueue EXCEPT ![<<n, kind, delay>>] = @ + 1]
  BY QueueTypes DEF AddTimer
<1>2. /\ EventsOf(m, k) = Cardinality(Dots(q)) /\ EventsOf(m, k)' = Cardinality(Dots(r))
      /\ q \in Queues /\ r \in Queues /\ Cardinality(Dots(q)) \in Nat
  <2>1. /\ Pile(timerQueue, m, k) = Dots(q) /\ q \in Queues
        /\ Pile(timerQueue', m, k) = Dots(r) /\ r \in Queues
    BY <1>1, PileIsDots
  <2> HIDE DEF q, r
  <2> QED
    BY <2>1, EventsArePile, DotsFinite
<1>3. \A d \in Delays : r[d] = IF m = n /\ k = kind /\ d = delay THEN q[d] + 1 ELSE q[d]
  BY <1>1 DEF QueueOf, TimerQueues
<1>4. q = [d \in Delays |-> q[d]] /\ r = [d \in Delays |-> r[d]]
  BY <1>2 DEF Queues
<1> HIDE DEF q, r
<1>5. CASE m = n /\ k = kind
  <2>1. Cardinality(Dots(r)) = Cardinality(Dots(q)) + 1
    BY <1>2, <1>3, <1>5, AddDot
  <2> QED
    BY <1>2, <1>5, <2>1
<1>6. CASE ~(m = n /\ k = kind)
  <2>1. r = q
    BY <1>3, <1>4, <1>6
  <2> QED
    BY <1>2, <1>6, <2>1
<1> QED
  BY <1>5, <1>6

(* One event less. *)
LEMMA PopCounts ==
    ASSUME TypeOK, TypeOK', NEW n \in Npcs, NEW kind \in Kinds, PopTimer(n, kind),
           NEW m \in Npcs, NEW k \in Kinds
    PROVE  EventsOf(m, k)' = EventsOf(m, k) - IF m = n /\ k = kind THEN 1 ELSE 0
<1> DEFINE q == QueueOf(timerQueue, m, k)
           r == QueueOf(timerQueue', m, k)
<1>1. /\ timerQueue \in TimerQueues /\ timerQueue' \in TimerQueues
      /\ timerQueue[<<n, kind, 0>>] > 0
      /\ timerQueue' = [timerQueue EXCEPT ![<<n, kind, 0>>] = @ - 1]
  BY QueueTypes DEF PopTimer
<1>2. /\ EventsOf(m, k) = Cardinality(Dots(q)) /\ EventsOf(m, k)' = Cardinality(Dots(r))
      /\ q \in Queues /\ r \in Queues /\ Cardinality(Dots(q)) \in Nat
  <2>1. /\ Pile(timerQueue, m, k) = Dots(q) /\ q \in Queues
        /\ Pile(timerQueue', m, k) = Dots(r) /\ r \in Queues
    BY <1>1, PileIsDots
  <2> HIDE DEF q, r
  <2> QED
    BY <2>1, EventsArePile, DotsFinite
<1>3. \A d \in Delays : r[d] = IF m = n /\ k = kind /\ d = 0 THEN q[d] - 1 ELSE q[d]
  BY <1>1 DEF QueueOf, TimerQueues
<1>4. /\ 0 \in Delays
      /\ m = n /\ k = kind => q[0] > 0
      /\ q = [d \in Delays |-> q[d]] /\ r = [d \in Delays |-> r[d]]
  BY <1>1, <1>2, DelayAssumption DEF Queues, QueueOf, Delays, DelayAssumption
<1> HIDE DEF q, r
<1>5. CASE m = n /\ k = kind
  <2>1. Cardinality(Dots(r)) = Cardinality(Dots(q)) - 1
    BY <1>2, <1>3, <1>4, <1>5, RemoveDot
  <2> QED
    BY <1>2, <1>5, <2>1
<1>6. CASE ~(m = n /\ k = kind)
  <2>1. r = q
    BY <1>3, <1>4, <1>6
  <2> QED
    BY <1>2, <1>6, <2>1
<1> QED
  BY <1>5, <1>6

LEMMA TickCounts ==
    ASSUME TypeOK, TypeOK', Tick, NEW m \in Npcs, NEW k \in Kinds
    PROVE  EventsOf(m, k)' = EventsOf(m, k)
<1> DEFINE q == QueueOf(timerQueue, m, k)
           r == QueueOf(timerQueue', m, k)
<1>1. /\ timerQueue \in TimerQueues /\ timerQueue' \in TimerQueues
  BY QueueTypes
<1>2. /\ EventsOf(m, k) = Cardinality(Dots(q)) /\ EventsOf(m, k)' = Cardinality(Dots(r))
      /\ q \in Queues /\ r \in Queues
  BY <1>1, EventsArePile, PileIsDots
<1>3. \A d \in Delays :
          r[d] = (IF d = 0 THEN timerQueue[<<m, k, d>>] ELSE 0)
                 + (IF d < ReviveDelay THEN timerQueue[<<m, k, d + 1>>] ELSE 0)
  BY DEF Tick, Kinds, QueueOf
<1>4. \A d \in Delays : d < ReviveDelay => d + 1 \in Delays
  BY DelayAssumption DEF Delays, DelayAssumption
<1>5. \A d \in Delays : q[d] = timerQueue[<<m, k, d>>]
  BY DEF QueueOf
<1> HIDE DEF q, r
<1>6. \A d \in Delays : r[d] = (IF d = 0 THEN q[d] ELSE 0)
                               + (IF d < ReviveDelay THEN q[d + 1] ELSE 0)
  BY <1>3, <1>4, <1>5
<1> QED
  BY <1>2, <1>6, ShiftDots

-----------------------------------------------------------------------------
(* Counting threads. *)

Here(t, labels, m) == IF pc[t] \in labels /\ npc[t] = m THEN 1 ELSE 0

LEMMA ThreadsFinite == IsFiniteSet(Threads)
BY ThreadAssumption, FS_AddElement DEF ThreadAssumption, Threads

LEMMA ThreadCount ==
    ASSUME NEW t \in Threads, OnlyThread(t), NEW labels, NEW m
    PROVE  /\ ThreadsAt(labels, m) \in Nat /\ ThreadsAt(labels, m)' \in Nat
           /\ ThreadsAt(labels, m)' - Here(t, labels, m)'
                  = ThreadsAt(labels, m) - Here(t, labels, m)
<1> DEFINE A == {u \in Threads : pc[u] \in labels /\ npc[u] = m}
           B == {u \in Threads : pc'[u] \in labels /\ npc'[u] = m}
<1>1. IsFiniteSet(A) /\ IsFiniteSet(B)
  BY ThreadsFinite, FS_Subset
<1>2. A \ {t} = B \ {t}
  BY DEF OnlyThread
<1>3. /\ t \in A <=> pc[t] \in labels /\ npc[t] = m
      /\ t \in B <=> pc'[t] \in labels /\ npc'[t] = m
  OBVIOUS
<1>4. ThreadsAt(labels, m) = Cardinality(A) /\ ThreadsAt(labels, m)' = Cardinality(B)
  BY DEF ThreadsAt
<1> HIDE DEF A, B
<1>5. Cardinality(A) \in Nat /\ Cardinality(B) \in Nat
  BY <1>1, FS_CardinalityType
<1>6. /\ Here(t, labels, m) = IF t \in A THEN 1 ELSE 0
      /\ Here(t, labels, m)' = IF t \in B THEN 1 ELSE 0
  BY <1>3 DEF Here
<1>7. Cardinality(A \ {t}) = IF t \in A THEN Cardinality(A) - 1 ELSE Cardinality(A)
  BY <1>1, FS_RemoveElement
<1>8. Cardinality(B \ {t}) = IF t \in B THEN Cardinality(B) - 1 ELSE Cardinality(B)
  BY <1>1, FS_RemoveElement
<1> QED
  BY <1>2, <1>4, <1>5, <1>6, <1>7, <1>8

-----------------------------------------------------------------------------
(* The accounts of one NPC: its kills against its revivals, and its move   *)
(* chains against what may have started them.                              *)

KillLabels == {"kill", "schedule", "revive"}
Awake(m) == IF state[m] = "SLEEP" THEN 0 ELSE 1

KillsPaid(m) ==
    credits[m] = revivals[m] + EventsOf(m, "REVIVE") + ThreadsAt(KillLabels, m)
ChainsPaid(m) ==
    EventsOf(m, "MOVE") + completions[m] + ThreadsAt(MoveLabels, m) <= revivals[m] + Awake(m)
Balanced(m) == KillsPaid(m) /\ ChainsPaid(m)

LEMMA BalancedMeans ==
    (\A m \in Npcs : Balanced(m)) <=> OneRevivalPerKill /\ ChainsBounded
BY DEF Balanced, KillsPaid, ChainsPaid, KillLabels, Awake, OneRevivalPerKill, ChainsBounded

(* A step of one thread keeps the accounts when what it adds to one side,  *)
(* events and its own label, it adds to the other.                         *)
LEMMA StepBalanced ==
    ASSUME TypeOK, TypeOK', NEW t \in Threads, OnlyThread(t), NEW m \in Npcs, Balanced(m),
           credits'[m] - revivals'[m] - EventsOf(m, "REVIVE")' - Here(t, KillLabels, m)'
               = credits[m] - revivals[m] - EventsOf(m, "REVIVE") - Here(t, KillLabels, m),
           EventsOf(m, "MOVE")' + completions'[m] + Here(t, MoveLabels, m)'
                   - revivals'[m] - Awake(m)'
               <= EventsOf(m, "MOVE") + completions[m] + Here(t, MoveLabels, m)
                   - revivals[m] - Awake(m)
    PROVE  Balanced(m)'
<1>1. /\ credits[m] \in Nat /\ credits'[m] \in Nat /\ revivals[m] \in Nat /\ revivals'[m] \in Nat
      /\ completions[m] \in Nat /\ completions'[m] \in Nat
  BY DEF TypeOK
<1>2. /\ EventsOf(m, "MOVE") \in Nat /\ EventsOf(m, "MOVE")' \in Nat
      /\ EventsOf(m, "REVIVE") \in Nat /\ EventsOf(m, "REVIVE")' \in Nat
  BY EventsCounted DEF Kinds
<1>3. \A labels : /\ ThreadsAt(labels, m) \in Nat /\ ThreadsAt(labels, m)' \in Nat
                  /\ ThreadsAt(labels, m)' - Here(t, labels, m)'
                         = ThreadsAt(labels, m) - Here(t, labels, m)
  BY ThreadCount
<1>4. \A labels : Here(t, labels, m) \in {0, 1} /\ Here(t, labels, m)' \in {0, 1}
  BY DEF Here
<1>5. Awake(m) \in {0, 1} /\ Awake(m)' \in {0, 1}
  BY DEF Awake
<1>6. KillsPaid(m)'
  <2>1. /\ ThreadsAt(KillLabels, m) \in Nat /\ ThreadsAt(KillLabels, m)' \in Nat
        /\ ThreadsAt(KillLabels, m)' - Here(t, KillLabels, m)'
               = ThreadsAt(KillLabels, m) - Here(t, KillLabels, m)
        /\ Here(t, KillLabels, m) \in {0, 1} /\ Here(t, KillLabels, m)' \in {0, 1}
    BY <1>3, <1>4
  <2>2. credits[m] = revivals[m] + EventsOf(m, "REVIVE") + ThreadsAt(KillLabels, m)
    BY DEF Balanced, KillsPaid
  <2>3. \A a, b, x, y, c, cc, r, rr, e, ee \in Nat :
            b - y = a - x /\ c = r + e + a /\ cc - rr - ee - y = c - r - e - x
                => cc = rr + ee + b
    OBVIOUS
  <2>4. credits'[m] = revivals'[m] + EventsOf(m, "REVIVE")' + ThreadsAt(KillLabels, m)'
    BY <1>1, <1>2, <2>1, <2>2, <2>3
  <2> QED
    BY <2>4 DEF KillsPaid
<1>7. ChainsPaid(m)'
  BY <1>1, <1>2, <1>3, <1>4, <1>5 DEF Balanced, ChainsPaid
<1> QED
  BY <1>6, <1>7 DEF Balanced

(* A step that changes no account, and at most moves its thread from one   *)
(* label to another that counts the same, keeps them.                      *)
LEMMA QuietBalanced ==
    ASSUME TypeOK, TypeOK', NEW t \in Threads, OnlyThread(t), NEW m \in Npcs, Balanced(m),
           UNCHANGED <<state, timerQueue, completions, credits, revivals>>,
           pc[t] \in KillLabels /\ npc[t] = m <=> pc'[t] \in KillLabels /\ npc'[t] = m,
           pc[t] \in MoveLabels /\ npc[t] = m <=> pc'[t] \in MoveLabels /\ npc'[t] = m
    PROVE  Balanced(m)'
<1>1. /\ EventsOf(m, "MOVE")' = EventsOf(m, "MOVE")
      /\ EventsOf(m, "REVIVE")' = EventsOf(m, "REVIVE")
  BY DEF EventsOf, Events
<1>2. /\ EventsOf(m, "MOVE") \in Nat /\ EventsOf(m, "REVIVE") \in Nat
      /\ credits[m] \in Nat /\ revivals[m] \in Nat /\ completions[m] \in Nat
  BY EventsCounted DEF Kinds, TypeOK
<1>3. /\ Here(t, KillLabels, m)' = Here(t, KillLabels, m)
      /\ Here(t, MoveLabels, m)' = Here(t, MoveLabels, m)
      /\ Here(t, KillLabels, m) \in {0, 1} /\ Here(t, MoveLabels, m) \in {0, 1}
  BY DEF Here
<1>4. Awake(m)' = Awake(m) /\ Awake(m) \in {0, 1}
  BY DEF Awake
<1> HIDE DEF Awake, Here
<1> QED
  BY <1>1, <1>2, <1>3, <1>4, StepBalanced

LEMMA EventsKept ==
    ASSUME UNCHANGED timerQueue, NEW m, NEW kind
    PROVE  EventsOf(m, kind)' = EventsOf(m, kind)
BY DEF EventsOf, Events

LEMMA InitBalanced == Init => OneRevivalPerKill /\ ChainsBounded
<1> SUFFICES ASSUME Init, NEW m \in Npcs PROVE Balanced(m)
  BY BalancedMeans
<1>1. \A kind \in Kinds : EventsOf(m, kind) = 0
  <2> TAKE kind \in Kinds
  <2>1. \A d \in Delays : timerQueue[<<m, kind, d>>] = 0
    BY DEF Init, Kinds
  <2>2. \A d \in Delays : {d} \X (1..timerQueue[<<m, kind, d>>]) = {}
    BY <2>1
  <2>3. Events(m, kind) = {}
    BY <2>2 DEF Events
  <2> QED
    BY <2>3, FS_EmptySet DEF EventsOf
<1>2. \A labels : "idle" \notin labels => ThreadsAt(labels, m) = 0
  <2> TAKE labels
  <2> HAVE "idle" \notin labels
  <2>1. {t \in Threads : pc[t] \in labels /\ npc[t] = m} = {}
    BY DEF Init
  <2> QED
    BY <2>1, FS_EmptySet DEF ThreadsAt
<1>3. /\ EventsOf(m, "MOVE") = 0 /\ EventsOf(m, "REVIVE") = 0
      /\ ThreadsAt(KillLabels, m) = 0 /\ ThreadsAt(MoveLabels, m) = 0
  BY <1>1, <1>2 DEF Kinds, KillLabels, MoveLabels
<1>4. credits[m] = 0 /\ revivals[m] = 0 /\ completions[m] = 0 /\ Awake(m) = 0
  BY DEF Init, Awake
<1> QED
  BY <1>3, <1>4 DEF Balanced, KillsPaid, ChainsPaid

LEMMA NextBalanced ==
    Inv /\ OneRevivalPerKill /\ ChainsBounded /\ [Next]_vars
        => OneRevivalPerKill' /\ ChainsBounded'
<1> SUFFICES ASSUME Inv, OneRevivalPerKill, ChainsBounded, [Next]_vars, NEW m \in Npcs
             PROVE  Balanced(m)'
  BY DEF Balanced, KillsPaid, ChainsPaid, KillLabels, Awake, OneRevivalPerKill, ChainsBounded
<1>0. /\ TypeOK /\ TypeOK' /\ Balanced(m)
      /\ Workers \subseteq Threads /\ Timer \in Threads
  BY BalancedMeans, NextInv DEF Inv, Threads
<1>a. \A t \in Threads : pc[t] \in Handling => npc[t] \in Npcs
  BY DEF Inv, HandlerHasNpc
<1>b. /\ pc = [t \in Threads |-> pc[t]] /\ npc = [t \in Threads |-> npc[t]]
      /\ state \in [Npcs -> {"SLEEP", "INGAME", "DEAD"}]
      /\ completions \in [Npcs -> Nat] /\ credits \in [Npcs -> Nat] /\ revivals \in [Npcs -> Nat]
  BY <1>0 DEF TypeOK
<1>c. MoveDelay \in Delays /\ ReviveDelay \in Delays
  BY DelayAssumption DEF DelayAssumption, Delays
<1>d. /\ EventsOf(m, "MOVE") \in Nat /\ EventsOf(m, "REVIVE") \in Nat
      /\ credits[m] \in Nat /\ revivals[m] \in Nat /\ completions[m] \in Nat
  BY <1>0, <1>b, EventsCounted DEF Kinds
<1>1. ASSUME NEW w \in Workers, NEW n \in Npcs, MoveStart(w, n) PROVE Balanced(m)'
  <2>1. /\ pc[w] = "idle" /\ UNCHANGED <<state, timerQueue, credits, revivals>>
        /\ completions[n] > 0 /\ completions' = [completions EXCEPT ![n] = @ - 1]
        /\ \/ state[n] = "INGAME" /\ Begin(w, "move", n, None)
           \/ state[n] # "INGAME" /\ UNCHANGED registers
    BY <1>1 DEF MoveStart, Begin, history
  <2>2. OnlyThread(w)
    BY <1>b, <2>1 DEF Begin, Goto, OnlyThread, registers
  <2>3. Here(w, KillLabels, m) = 0 /\ Here(w, KillLabels, m)' = 0 /\ Here(w, MoveLabels, m) = 0
    BY <1>0, <1>b, <2>1 DEF Here, KillLabels, MoveLabels, Begin, Goto, registers
  <2>4. completions'[m] + Here(w, MoveLabels, m)' <= completions[m] /\ Here(w, MoveLabels, m)' \in {0, 1}
    BY <1>0, <1>b, <2>1 DEF Here, MoveLabels, Begin, Goto, registers
  <2>5. Awake(m)' = Awake(m) /\ Awake(m) \in {0, 1} /\ completions'[m] \in Nat
    BY <1>0, <2>1 DEF Awake, TypeOK
  <2>6. /\ EventsOf(m, "MOVE")' = EventsOf(m, "MOVE")
        /\ EventsOf(m, "REVIVE")' = EventsOf(m, "REVIVE")
    BY <2>1, EventsKept
  <2> QED
    BY <1>0, <1>d, <2>1, <2>2, <2>3, <2>4, <2>5, <2>6, StepBalanced
<1>2. ASSUME NEW t \in Threads, NEW inRange \in SUBSET online, MoveNPC(t, inRange) PROVE Balanced(m)'
  <2>1. /\ OnlyThread(t) /\ t \in Threads
        /\ UNCHANGED <<state, timerQueue, completions, credits, revivals>>
        /\ pc[t] \in KillLabels /\ npc[t] = m <=> pc'[t] \in KillLabels /\ npc'[t] = m
        /\ pc[t] \in MoveLabels /\ npc[t] = m <=> pc'[t] \in MoveLabels /\ npc'[t] = m
    BY <1>0, <1>b, <1>2 DEF MoveNPC, Goto, history, OnlyThread, KillLabels, MoveLabels
  <2> QED
    BY <1>0, <2>1, QuietBalanced
<1>3. ASSUME NEW t \in Threads, NEW p \in Players, ScanNext(t, p) PROVE Balanced(m)'
  <2>1. /\ OnlyThread(t) /\ t \in Threads
        /\ UNCHANGED <<state, timerQueue, completions, credits, revivals>>
        /\ pc[t] \in KillLabels /\ npc[t] = m <=> pc'[t] \in KillLabels /\ npc'[t] = m
        /\ pc[t] \in MoveLabels /\ npc[t] = m <=> pc'[t] \in MoveLabels /\ npc'[t] = m
    BY <1>0, <1>b, <1>3 DEF ScanNext, Goto, shared, history, OnlyThread, KillLabels, MoveLabels
  <2> QED
    BY <1>0, <2>1, QuietBalanced
<1>4. ASSUME NEW t \in Threads, Rearm(t) PROVE Balanced(m)'
  <2>1. /\ OnlyThread(t) /\ UNCHANGED <<state, completions, credits, revivals>>
        /\ pc[t] = "arm" /\ AddTimer(npc[t], "MOVE", MoveDelay)
        /\ pc'[t] \in {"idle", "activate"}
    BY <1>0, <1>4, <1>b DEF Rearm, Idle, Goto, OnlyThread, history
  <2>2. npc[t] \in Npcs
    BY <1>a, <2>1 DEF Handling
  <2>3. /\ EventsOf(m, "MOVE")' = EventsOf(m, "MOVE") + IF m = npc[t] THEN 1 ELSE 0
        /\ EventsOf(m, "REVIVE")' = EventsOf(m, "REVIVE") + 0
    BY <1>0, <1>c, <1>d, <2>1, <2>2, AddCounts DEF Kinds
  <2>4. /\ Here(t, KillLabels, m) = 0
        /\ Here(t, MoveLabels, m) = IF m = npc[t] THEN 1 ELSE 0
        /\ Here(t, KillLabels, m)' = 0 /\ Here(t, MoveLabels, m)' = 0
    BY <2>1 DEF Here, KillLabels, MoveLabels
  <2>5. Awake(m)' = Awake(m) /\ Awake(m) \in {0, 1}
    BY <2>1 DEF Awake
  <2> QED
    BY <1>0, <1>d, <2>1, <2>3, <2>4, <2>5, StepBalanced
<1>5. ASSUME NEW t \in Threads, Sleep(t) PROVE Balanced(m)'
  <2>1. /\ OnlyThread(t) /\ UNCHANGED <<timerQueue, completions, credits, revivals>>
        /\ pc[t] = "scan" /\ pc'[t] = "idle"
        /\ state' = [state EXCEPT ![npc[t]] = "SLEEP"]
    BY <1>0, <1>5, <1>b DEF Sleep, Idle, Goto, OnlyThread, history
  <2>2. /\ Here(t, KillLabels, m) = 0 /\ Here(t, KillLabels, m)' = 0
        /\ Here(t, MoveLabels, m) = (IF m = npc[t] THEN 1 ELSE 0) /\ Here(t, MoveLabels, m)' = 0
    BY <2>1 DEF Here, KillLabels, MoveLabels
  <2>3. /\ Awake(m) \in {0, 1} /\ Awake(m)' \in {0, 1}
        /\ m # npc[t] => Awake(m)' = Awake(m)
    BY <1>b, <2>1 DEF Awake
  <2>4. /\ EventsOf(m, "MOVE")' = EventsOf(m, "MOVE")
        /\ EventsOf(m, "REVIVE")' = EventsOf(m, "REVIVE")
    BY <2>1, EventsKept
  <2> QED
    BY <1>0, <1>d, <2>1, <2>2, <2>3, <2>4, StepBalanced
<1>6. ASSUME NEW w \in Workers, NEW p \in Players, NEW ns \in SUBSET Npcs, PlayerMove(w, p, ns) PROVE Balanced(m)'
  <2>1. /\ OnlyThread(w) /\ w \in Threads
        /\ UNCHANGED <<state, timerQueue, completions, credits, revivals>>
        /\ pc[w] \in KillLabels /\ npc[w] = m <=> pc'[w] \in KillLabels /\ npc'[w] = m
        /\ pc[w] \in MoveLabels /\ npc[w] = m <=> pc'[w] \in MoveLabels /\ npc'[w] = m
    BY <1>0, <1>b, <1>6 DEF PlayerMove, Goto, registers, history, OnlyThread, KillLabels, MoveLabels
  <2> QED
    BY <1>0, <2>1, QuietBalanced
<1>7. ASSUME NEW w \in Workers, NEW p \in Players, PlayerLeave(w, p) PROVE Balanced(m)'
  <2>1. /\ OnlyThread(w) /\ w \in Threads
        /\ UNCHANGED <<state, timerQueue, completions, credits, revivals>>
        /\ pc[w] \in KillLabels /\ npc[w] = m <=> pc'[w] \in KillLabels /\ npc'[w] = m
        /\ pc[w] \in MoveLabels /\ npc[w] = m <=> pc'[w] \in MoveLabels /\ npc'[w] = m
    BY <1>0, <1>b, <1>7 DEF PlayerLeave, registers, history, OnlyThread, KillLabels, MoveLabels
  <2> QED
    BY <1>0, <2>1, QuietBalanced
<1>8. ASSUME NEW t \in Threads, NEW n \in Npcs, ActivateNPC(t, n) PROVE Balanced(m)'
  <2>1. /\ OnlyThread(t) /\ UNCHANGED <<timerQueue, completions, credits, revivals>>
        /\ pc[t] = "activate"
    BY <1>0, <1>8, <1>b DEF ActivateNPC, Goto, OnlyThread, history
  <2>2. Here(t, KillLabels, m) = 0 /\ Here(t, KillLabels, m)' = 0 /\ Here(t, MoveLabels, m) = 0
    BY <1>0, <1>b, <1>8, <2>1 DEF ActivateNPC, Goto, Here, KillLabels, MoveLabels
  <2>3. /\ Awake(m) \in {0, 1} /\ Awake(m)' = Awake(m) + Here(t, MoveLabels, m)'
        /\ Here(t, MoveLabels, m)' \in {0, 1}
    BY <1>0, <1>b, <1>8, <2>1 DEF ActivateNPC, Goto, Here, MoveLabels, Awake
  <2>4. /\ EventsOf(m, "MOVE")' = EventsOf(m, "MOVE")
        /\ EventsOf(m, "REVIVE")' = EventsOf(m, "REVIVE")
    BY <2>1, EventsKept
  <2> QED
    BY <1>0, <1>d, <2>1, <2>2, <2>3, <2>4, StepBalanced
<1>9. ASSUME NEW t \in Threads, StartChain(t) PROVE Balanced(m)'
  <2>1. /\ OnlyThread(t) /\ UNCHANGED <<state, completions, credits, revivals>>
        /\ pc[t] = "activated" /\ AddTimer(npc[t], "MOVE", MoveDelay)
        /\ pc'[t] \in {"idle", "activate"}
    BY <1>0, <1>9, <1>b DEF StartChain, Goto, OnlyThread, history
  <2>2. npc[t] \in Npcs
    BY <1>a, <2>1 DEF Handling
  <2>3. /\ EventsOf(m, "MOVE")' = EventsOf(m, "MOVE") + IF m = npc[t] THEN 1 ELSE 0
        /\ EventsOf(m, "REVIVE")' = EventsOf(m, "REVIVE") + 0
    BY <1>0, <1>c, <1>d, <2>1, <2>2, AddCounts DEF Kinds
  <2>4. /\ Here(t, KillLabels, m) = 0
        /\ Here(t, MoveLabels, m) = IF m = npc[t] THEN 1 ELSE 0
        /\ Here(t, KillLabels, m)' = 0 /\ Here(t, MoveLabels, m)' = 0
    BY <2>1 DEF Here, KillLabels, MoveLabels
  <2>5. Awake(m)' = Awake(m) /\ Awake(m) \in {0, 1}
    BY <2>1 DEF Awake
  <2> QED
    BY <1>0, <1>d, <2>1, <2>3, <2>4, <2>5, StepBalanced
<1>10. ASSUME NEW t \in Threads, PlayerDone(t) PROVE Balanced(m)'
  <2>1. /\ OnlyThread(t) /\ t \in Threads
        /\ UNCHANGED <<state, timerQueue, completions, credits, revivals>>
        /\ pc[t] \in KillLabels /\ npc[t] = m <=> pc'[t] \in KillLabels /\ npc'[t] = m
        /\ pc[t] \in MoveLabels /\ npc[t] = m <=> pc'[t] \in MoveLabels /\ npc'[t] = m
    BY <1>0, <1>b, <1>10 DEF PlayerDone, Idle, Goto, shared, history, OnlyThread, KillLabels, MoveLabels
  <2> QED
    BY <1>0, <2>1, QuietBalanced
<1>11. ASSUME NEW w \in Workers, NEW p \in Players, NEW n \in Npcs, Attack(w, p, n) PROVE Balanced(m)'
  <2>1. /\ OnlyThread(w) /\ w \in Threads
        /\ UNCHANGED <<state, timerQueue, completions, credits, revivals>>
        /\ pc[w] \in KillLabels /\ npc[w] = m <=> pc'[w] \in KillLabels /\ npc'[w] = m
        /\ pc[w] \in MoveLabels /\ npc[w] = m <=> pc'[w] \in MoveLabels /\ npc'[w] = m
    BY <1>0, <1>b, <1>11 DEF Attack, Begin, Goto, OnlyThread, KillLabels, MoveLabels
  <2> QED
    BY <1>0, <2>1, QuietBalanced
<1>12. ASSUME NEW t \in Threads, CheckDead(t) PROVE Balanced(m)'
  <2>1. /\ OnlyThread(t) /\ UNCHANGED <<state, timerQueue, completions, revivals>>
        /\ pc[t] = "hit" /\ npc[t] \in Npcs
    BY <1>0, <1>12, <1>a, <1>b DEF CheckDead, Idle, Goto, shared, OnlyThread, Handling
  <2>2. /\ Here(t, KillLabels, m) = 0 /\ Here(t, MoveLabels, m) = 0 /\ Here(t, MoveLabels, m)' = 0
        /\ Here(t, KillLabels, m)' \in {0, 1}
    BY <1>0, <1>b, <1>12, <2>1 DEF CheckDead, Idle, Goto, Here, KillLabels, MoveLabels
  <2>3. credits'[m] = credits[m] + Here(t, KillLabels, m)'
    <3>1. CASE Idle(t) /\ UNCHANGED credits
      BY <1>0, <1>b, <1>d, <3>1 DEF Idle, Goto, Here, KillLabels
    <3>2. CASE /\ credits' = [credits EXCEPT ![npc[t]] = @ + 1]
               /\ Goto(t, "kill") /\ UNCHANGED npc
      BY <1>0, <1>b, <1>d, <2>1, <3>2 DEF Goto, Here, KillLabels
    <3> QED
      BY <1>12, <3>1, <3>2 DEF CheckDead
  <2>4. /\ EventsOf(m, "MOVE")' = EventsOf(m, "MOVE")
        /\ EventsOf(m, "REVIVE")' = EventsOf(m, "REVIVE")
        /\ Awake(m)' = Awake(m) /\ Awake(m) \in {0, 1}
    BY <2>1, EventsKept DEF Awake
  <2> QED
    BY <1>0, <1>d, <2>1, <2>2, <2>3, <2>4, StepBalanced
<1>13. ASSUME NEW t \in Threads, SetDead(t) PROVE Balanced(m)'
  <2>1. /\ OnlyThread(t) /\ UNCHANGED <<timerQueue, completions, credits, revivals>>
        /\ pc[t] = "kill" /\ pc'[t] = "schedule" /\ npc'[t] = npc[t]
        /\ state' = [state EXCEPT ![npc[t]] = "DEAD"]
    BY <1>0, <1>13, <1>b DEF SetDead, Goto, OnlyThread, history
  <2>2. /\ Here(t, KillLabels, m)' = Here(t, KillLabels, m) /\ Here(t, KillLabels, m) \in {0, 1}
        /\ Here(t, MoveLabels, m) = 0 /\ Here(t, MoveLabels, m)' = 0
    BY <2>1 DEF Here, KillLabels, MoveLabels
  <2>3. Awake(m) \in {0, 1} /\ Awake(m)' \in {0, 1} /\ Awake(m)' >= Awake(m)
    BY <1>b, <2>1 DEF Awake
  <2>4. /\ EventsOf(m, "MOVE")' = EventsOf(m, "MOVE")
        /\ EventsOf(m, "REVIVE")' = EventsOf(m, "REVIVE")
    BY <2>1, EventsKept
  <2> QED
    BY <1>0, <1>d, <2>1, <2>2, <2>3, <2>4, StepBalanced
<1>14. ASSUME NEW t \in Threads, ScheduleRevive(t) PROVE Balanced(m)'
  <2>1. /\ OnlyThread(t) /\ UNCHANGED <<state, completions, credits, revivals>>
        /\ pc[t] = "schedule" /\ AddTimer(npc[t], "REVIVE", ReviveDelay)
        /\ pc'[t] \in {"idle", "activate"}
    BY <1>0, <1>14, <1>b DEF ScheduleRevive, Idle, Goto, OnlyThread, history
  <2>2. npc[t] \in Npcs
    BY <1>a, <2>1 DEF Handling
  <2>3. /\ EventsOf(m, "MOVE")' = EventsOf(m, "MOVE") + 0
        /\ EventsOf(m, "REVIVE")' = EventsOf(m, "REVIVE") + IF m = npc[t] THEN 1 ELSE 0
    BY <1>0, <1>c, <1>d, <2>1, <2>2, AddCounts DEF Kinds
  <2>4. /\ Here(t, KillLabels, m) = IF m = npc[t] THEN 1 ELSE 0
        /\ Here(t, MoveLabels, m) = 0
        /\ Here(t, KillLabels, m)' = 0 /\ Here(t, MoveLabels, m)' = 0
    BY <2>1 DEF Here, KillLabels, MoveLabels
  <2>5. Awake(m)' = Awake(m) /\ Awake(m) \in {0, 1}
    BY <2>1 DEF Awake
  <2> QED
    BY <1>0, <1>d, <2>1, <2>3, <2>4, <2>5, StepBalanced
<1>15. CASE Tick
  <2>1. /\ UNCHANGED <<state, completions, credits, revivals, pc, npc>> /\ OnlyThread(Timer)
    BY <1>15 DEF Tick, registers, history, OnlyThread
  <2>2. /\ EventsOf(m, "MOVE")' = EventsOf(m, "MOVE")
        /\ EventsOf(m, "REVIVE")' = EventsOf(m, "REVIVE")
    BY <1>0, <1>15, TickCounts DEF Kinds
  <2>3. /\ Here(Timer, KillLabels, m)' = Here(Timer, KillLabels, m)
        /\ Here(Timer, MoveLabels, m)' = Here(Timer, MoveLabels, m)
        /\ Here(Timer, KillLabels, m) \in {0, 1} /\ Here(Timer, MoveLabels, m) \in {0, 1}
        /\ Awake(m)' = Awake(m) /\ Awake(m) \in {0, 1}
    BY <2>1 DEF Here, Awake
  <2> QED
    BY <1>0, <1>d, <2>1, <2>2, <2>3, StepBalanced
<1>16. ASSUME NEW n \in Npcs, FireMove(n) PROVE Balanced(m)'
  <2>1. /\ UNCHANGED <<state, credits, revivals, pc, npc>> /\ OnlyThread(Timer)
        /\ PopTimer(n, "MOVE") /\ completions' = [completions EXCEPT ![n] = @ + 1]
    BY <1>16 DEF FireMove, registers, history, OnlyThread
  <2>2. /\ EventsOf(m, "MOVE")' = EventsOf(m, "MOVE") - IF m = n THEN 1 ELSE 0
        /\ EventsOf(m, "REVIVE")' = EventsOf(m, "REVIVE") - 0
    BY <1>0, <1>d, <2>1, PopCounts DEF Kinds
  <2>3. /\ Here(Timer, KillLabels, m)' = Here(Timer, KillLabels, m)
        /\ Here(Timer, MoveLabels, m)' = Here(Timer, MoveLabels, m)
        /\ Here(Timer, KillLabels, m) \in {0, 1} /\ Here(Timer, MoveLabels, m) \in {0, 1}
        /\ Awake(m)' = Awake(m) /\ Awake(m) \in {0, 1}
    BY <2>1 DEF Here, Awake
  <2>4. completions'[m] = completions[m] + IF m = n THEN 1 ELSE 0
    BY <1>b, <1>d, <2>1
  <2> QED
    BY <1>0, <1>d, <2>1, <2>2, <2>3, <2>4, StepBalanced
<1>17. ASSUME NEW n \in Npcs, FireRevive(n) PROVE Balanced(m)'
  <2>1. /\ OnlyThread(Timer) /\ UNCHANGED <<state, completions, credits, revivals>>
        /\ PopTimer(n, "REVIVE") /\ pc[Timer] = "idle"
        /\ pc'[Timer] = "revive" /\ npc'[Timer] = n
    BY <1>0, <1>17, <1>b DEF FireRevive, Begin, Goto, OnlyThread, history
  <2>2. /\ EventsOf(m, "MOVE")' = EventsOf(m, "MOVE") - 0
        /\ EventsOf(m, "REVIVE")' = EventsOf(m, "REVIVE") - IF m = n THEN 1 ELSE 0
    BY <1>0, <1>d, <2>1, PopCounts DEF Kinds
  <2>3. /\ Here(Timer, KillLabels, m) = 0
        /\ Here(Timer, KillLabels, m)' = IF m = n THEN 1 ELSE 0
        /\ Here(Timer, MoveLabels, m) = 0 /\ Here(Timer, MoveLabels, m)' = 0
    BY <2>1 DEF Here, KillLabels, MoveLabels
  <2>4. Awake(m)' = Awake(m) /\ Awake(m) \in {0, 1}
    BY <2>1 DEF Awake
  <2> QED
    BY <1>0, <1>d, <2>1, <2>2, <2>3, <2>4, StepBalanced
<1>18. CASE SetAlive
  <2>1. /\ OnlyThread(Timer) /\ UNCHANGED <<timerQueue, completions, credits>>
        /\ pc[Timer] = "revive" /\ npc[Timer] \in Npcs
        /\ pc'[Timer] = "scan" /\ npc'[Timer] = npc[Timer]
        /\ state' = [state EXCEPT ![npc[Timer]] = "INGAME"]
        /\ revivals' = [revivals EXCEPT ![npc[Timer]] = @ + 1]
    BY <1>0, <1>18, <1>a, <1>b DEF SetAlive, Goto, OnlyThread, Handling
  <2>2. /\ Here(Timer, KillLabels, m) = (IF m = npc[Timer] THEN 1 ELSE 0)
        /\ Here(Timer, KillLabels, m)' = 0
        /\ Here(Timer, MoveLabels, m) = 0
        /\ Here(Timer, MoveLabels, m)' = (IF m = npc[Timer] THEN 1 ELSE 0)
    BY <2>1 DEF Here, KillLabels, MoveLabels
  <2>3. Awake(m) \in {0, 1} /\ Awake(m)' \in {0, 1} /\ Awake(m)' >= Awake(m)
    BY <1>b, <2>1 DEF Awake
  <2>4. /\ EventsOf(m, "MOVE")' = EventsOf(m, "MOVE")
        /\ EventsOf(m, "REVIVE")' = EventsOf(m, "REVIVE")
    BY <2>1, EventsKept
  <2>5. revivals'[m] = revivals[m] + IF m = npc[Timer] THEN 1 ELSE 0
    BY <1>b, <1>d, <2>1
  <2> QED
    BY <1>0, <1>d, <2>1, <2>2, <2>3, <2>4, <2>5, StepBalanced
<1>19. CASE UNCHANGED vars
  <2>1. /\ UNCHANGED <<state, timerQueue, completions, credits, revivals, pc, npc>>
        /\ OnlyThread(Timer)
    BY <1>19 DEF vars, shared, registers, history, OnlyThread
  <2> QED
    BY <1>0, <2>1, QuietBalanced
<1> QED
  BY <1>1, <1>2, <1>3, <1>4, <1>5, <1>6, <1>7, <1>8, <1>9, <1>10, <1>11, <1>12, <1>13, <1>14,
     <1>15, <1>16, <1>17, <1>18, <1>19 DEF Next, Continue, WorkerStep, PlayerInput, TimerStep

(* For any number of NPCs, players and workers, any delays and any number  *)
(* of attacks: the kills of an NPC that gave experience are its revivals,  *)
(* done, queued or under way; no kill is left without its revival and none *)
(* gets two.                                                               *)
THEOREM OneRevivalPerKillAlways == Spec => []OneRevivalPerKill
BY InitInv, NextInv, InitBalanced, NextBalanced, PTL DEF Spec

(* For any number of NPCs, players and workers: an NPC never has more move *)
(* chains than one plus its revivals, none beyond its revivals while       *)
(* asleep.                                                                 *)
THEOREM ChainsBoundedAlways == Spec => []ChainsBounded
BY InitInv, NextInv, InitBalanced, NextBalanced, PTL DEF Spec
=============================================================================
