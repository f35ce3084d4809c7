---------------------------- MODULE RuntimeProofs ----------------------------
(***************************************************************************)
(* Proofs about Runtime: its types, the ownership of blocks, on which the  *)
(* refinement of BlockPool rests, the release of the waiting workers, and  *)
(* the order of the destructors.                                           *)
(***************************************************************************)
EXTENDS Runtime, FiniteSetTheorems, TLAPS

(* A worker has a completion's block only while it handles it.             *)
HandInv == \A w \in Workers : pc[w] # "handle" => hand[w] = None

Inv == TypeOK /\ HandInv

-----------------------------------------------------------------------------
(* Types.                                                                  *)

LEMMA InvInit == Init => Inv
<1> SUFFICES ASSUME Init
             PROVE  Inv
  OBVIOUS
<1>1. TypeOK
  BY RuntimeAssumption DEF Init, TypeOK, RuntimeAssumption, Phases, Threads, Kinds
<1>2. HandInv
  BY DEF Init, HandInv
<1> QED
  BY <1>1, <1>2 DEF Inv

LEMMA WorkerKeepsInv ==
    ASSUME Inv, NEW w \in Workers, WorkerNext(w)
    PROVE  Inv'
<1> USE DEF Inv, TypeOK, HandInv, GoTo
<1>0. w \in Workers \cup {Timer}
  OBVIOUS
<1>1. CASE Test(w)
  BY <1>0, <1>1 DEF Test, blocks, completions, main, timer, bounds
<1>2. CASE TakeEmpty(w)
  <2>1. /\ empties > 0 /\ empties' = empties - 1
        /\ mLoop' = FALSE
        /\ pc' = [pc EXCEPT ![w] = "loop"]
        /\ UNCHANGED <<memAddrs, lost, hand, made, posted, queued>>
        /\ UNCHANGED <<arrived, accepting, toPost, phase, signalled>>
        /\ UNCHANGED <<timerLoop, events, recvs, sends, added, late>>
    BY <1>2 DEF TakeEmpty, blocks, timer, bounds
  <2>2. HandInv'
    BY <1>0, <2>1, <1>2 DEF TakeEmpty
  <2>3. empties' \in Nat
    BY <2>1
  <2>4. TypeOK'
    BY <1>0, <2>1, <2>3
  <2> QED
    BY <2>2, <2>4
<1>3. CASE TakeRecv(w)
  BY <1>0, <1>3 DEF TakeRecv, blocks, main, timer, bounds
<1>4. CASE TakeAccept(w)
  BY <1>0, <1>4 DEF TakeAccept, blocks, main, timer, bounds
<1>5. CASE AsyncAccept(w)
  BY <1>0, <1>5 DEF AsyncAccept, blocks, main, timer, bounds
<1>6. CASE Finish(w)
  BY <1>0, <1>6 DEF Finish, completions, main, timer, bounds
<1>7. CASE \E b \in Blocks : TakeBlock(w, b)
  BY <1>0, <1>7 DEF TakeBlock, completions, main, timer, bounds
<1> QED
  BY <1>1, <1>2, <1>3, <1>4, <1>5, <1>6, <1>7 DEF WorkerNext

LEMMA TimerKeepsInv ==
    ASSUME Inv, TimerNext
    PROVE  Inv'
<1> USE RuntimeAssumption DEF Inv, TypeOK, HandInv, GoTo, RuntimeAssumption
<1>0. Timer \in Threads /\ Timer \in Workers \cup {Timer}
  BY DEF Threads
<1>1. CASE TimerTest
  BY <1>0, <1>1 DEF TimerTest, blocks, completions, main, timer, bounds
<1>2. CASE IsQueueEmpty
  BY <1>0, <1>2 DEF IsQueueEmpty, blocks, completions, main, timer, bounds
<1>3. CASE PostMove
  BY <1>0, <1>3 DEF PostMove, completions, main, timer, bounds
<1>4. CASE Revived
  BY <1>0, <1>4 DEF Revived, blocks, completions, main, timer, bounds
<1>5. CASE \E k \in Kinds : Pop(k)
  <2> PICK k \in Kinds : Pop(k)
    BY <1>5
  <2>1. events' \in [Kinds -> Nat]
    BY DEF Pop
  <2> QED
    BY <1>0, <2>1 DEF Pop, blocks, completions, main, bounds
<1>6. CASE \E b \in Blocks : MakeMove(b)
  BY <1>0, <1>6 DEF MakeMove, New, completions, main, timer, bounds
<1> QED
  BY <1>1, <1>2, <1>3, <1>4, <1>5, <1>6 DEF TimerNext

LEMMA MainKeepsInv ==
    ASSUME Inv, MainNext
    PROVE  Inv'
<1> USE RuntimeAssumption DEF Inv, TypeOK, HandInv, GoTo, Moves, Phases,
                              RuntimeAssumption
<1>1. CASE Run
  BY <1>1 DEF Run, blocks, timer, bounds
<1>2. CASE StartTimer
  BY <1>2 DEF StartTimer, blocks, completions, bounds
<1>3. CASE Join \/ Destructed \/ DestroyPool
  BY <1>3 DEF Join, Destructed, DestroyPool, blocks, completions, timer, bounds
<1>4. CASE DestroyTimer \/ JoinTimer
  BY <1>4 DEF DestroyTimer, JoinTimer, blocks, completions, timer, bounds
<1>5. CASE \E w \in Workers : Spawn(w)
  BY <1>5 DEF Spawn, blocks, completions, main, timer, bounds
<1> QED
  BY <1>1, <1>2, <1>3, <1>4, <1>5 DEF MainNext

LEMMA SendingKeepsInv ==
    ASSUME Inv, NEW t \in Threads, ThreadNext(t)
    PROVE  Inv'
<1> USE DEF Inv, TypeOK, HandInv
<1>1. CASE Send(t)
  BY <1>1 DEF Send, completions, main, timer, bounds
<1>2. CASE \E b \in Blocks : SendMsg(t, b)
  BY <1>2 DEF SendMsg, New, completions, main, timer
<1> QED
  BY <1>1, <1>2 DEF ThreadNext

LEMMA OthersKeepInv ==
    ASSUME Inv,
           \/ \E t \in Workers \cup {Timer} : \/ UseDeadPool(t)
                                              \/ \E k \in Kinds : AddTimer(t, k)
           \/ \E b \in Blocks : SendCompletes(b)
           \/ RecvCompletes \/ Interrupt \/ PostEmpty
    PROVE  Inv'
<1> USE RuntimeAssumption DEF Inv, TypeOK, HandInv, GoTo, RuntimeAssumption
<1>1. ASSUME NEW t \in Workers \cup {Timer}, UseDeadPool(t)
      PROVE  Inv'
  BY <1>1 DEF UseDeadPool, Threads, blocks, completions, main, timer
<1>2. ASSUME NEW t \in Workers \cup {Timer}, NEW k \in Kinds, AddTimer(t, k)
      PROVE  Inv'
  <2>1. events' \in [Kinds -> Nat]
    BY <1>2 DEF AddTimer
  <2> QED
    BY <1>2, <2>1 DEF AddTimer, blocks, completions, main
<1>3. CASE \E b \in Blocks : SendCompletes(b)
  BY <1>3 DEF SendCompletes, completions, main, timer, bounds
<1>4. CASE RecvCompletes
  BY <1>4 DEF RecvCompletes, blocks, main, timer
<1>5. CASE Interrupt
  <2>1. Cardinality(Workers) \in Nat
    BY FS_CardinalityType
  <2> QED
    BY <1>5, <2>1 DEF Interrupt, blocks, timer, bounds
<1>6. CASE PostEmpty
  BY <1>6 DEF PostEmpty, blocks, main, timer, bounds
<1> QED
  BY <1>1, <1>2, <1>3, <1>4, <1>5, <1>6

LEMMA InvNext == Inv /\ [Next]_vars => Inv'
<1> SUFFICES ASSUME Inv, [Next]_vars
             PROVE  Inv'
  OBVIOUS
<1>1. CASE UNCHANGED vars
  BY <1>1 DEF vars, blocks, completions, main, timer, bounds, Inv, TypeOK, HandInv
<1>2. CASE Next
  BY <1>2, WorkerKeepsInv, TimerKeepsInv, MainKeepsInv, SendingKeepsInv,
     OthersKeepInv DEF Next
<1> QED
  BY <1>1, <1>2

(* The variables keep their types, and a worker that waits has no block,   *)
(* for any number of workers and blocks.                                   *)
THEOREM TypesKept == Spec => []TypeOK
<1>1. Inv => TypeOK
  BY DEF Inv
<1> QED
  BY <1>1, InvInit, InvNext, PTL DEF Spec

-----------------------------------------------------------------------------
(* Ownership of blocks.                                                    *)

(* A block is in at most one place.                                        *)
Apart ==
    /\ memAddrs \cap lost = {} /\ memAddrs \cap posted = {}
    /\ memAddrs \cap queued = {} /\ lost \cap posted = {}
    /\ lost \cap queued = {} /\ posted \cap queued = {}
    /\ \A w \in Workers : hand[w] \notin memAddrs \cup lost \cup posted \cup queued
    /\ \A t \in Threads : made[t] \notin memAddrs \cup lost \cup posted \cup queued
    /\ \A w \in Workers, v \in Workers : hand[w] # None /\ hand[w] = hand[v] => w = v
    /\ \A t \in Threads, u \in Threads : made[t] # None /\ made[t] = made[u] => t = u
    /\ \A w \in Workers, t \in Threads : hand[w] # None => hand[w] # made[t]

(* What an action may do to the blocks, each from one place to the next.   *)
Made(t, b) ==
    /\ made[t] = None /\ New(t, b)
    /\ UNCHANGED <<lost, hand, posted, queued>>
Passed(t) ==
    /\ made[t] # None
    /\ made' = [made EXCEPT ![t] = None]
    /\ \/ lost' = lost \cup {made[t]} /\ UNCHANGED <<posted, queued>>
       \/ posted' = posted \cup {made[t]} /\ UNCHANGED <<lost, queued>>
       \/ queued' = queued \cup {made[t]} /\ UNCHANGED <<lost, posted>>
    /\ UNCHANGED <<memAddrs, hand>>
Sent(b) ==
    /\ b \in posted /\ posted' = posted \ {b} /\ queued' = queued \cup {b}
    /\ UNCHANGED <<memAddrs, lost, hand, made>>
Taken(w, b) ==
    /\ b \in queued /\ queued' = queued \ {b}
    /\ hand[w] = None /\ hand' = [hand EXCEPT ![w] = b]
    /\ UNCHANGED <<memAddrs, lost, posted, made>>
Deleted(w) ==
    /\ hand[w] # None
    /\ memAddrs' = memAddrs \cup {hand[w]}
    /\ hand' = [hand EXCEPT ![w] = None]
    /\ UNCHANGED <<lost, made, posted, queued>>

BlockStep ==
    \/ \E t \in Threads, b \in Blocks : Made(t, b)
    \/ \E t \in Threads : Passed(t)
    \/ \E b \in Blocks : Sent(b)
    \/ \E w \in Workers, b \in Blocks : Taken(w, b)
    \/ \E w \in Workers : Deleted(w)
    \/ UNCHANGED blocks

LEMMA StepsMoveBlocks == Inv /\ [Next]_vars => BlockStep
<1> SUFFICES ASSUME Inv, [Next]_vars
             PROVE  BlockStep
  OBVIOUS
<1> USE DEF BlockStep
<1>1. CASE UNCHANGED vars
  BY <1>1 DEF vars
<1>2. ASSUME NEW w \in Workers, WorkerNext(w)
      PROVE  BlockStep
  <2>1. CASE Test(w) \/ TakeEmpty(w) \/ TakeRecv(w) \/ TakeAccept(w) \/ AsyncAccept(w)
    BY <2>1 DEF Test, TakeEmpty, TakeRecv, TakeAccept, AsyncAccept
  <2>2. CASE Finish(w) /\ hand[w] # None
    <3>1. Deleted(w)
      BY <2>2 DEF Finish, Deleted
    <3> QED
      BY <3>1
  <2>3. CASE Finish(w) /\ hand[w] = None
    <3>1. hand' = hand
      BY <2>3 DEF Finish, Inv, TypeOK
    <3> QED
      BY <2>3, <3>1 DEF Finish, blocks
  <2>4. ASSUME NEW b \in Blocks, TakeBlock(w, b)
        PROVE  BlockStep
    <3>1. Taken(w, b)
      BY <2>4 DEF TakeBlock, Taken, Inv, HandInv
    <3> QED
      BY <3>1
  <2> QED
    BY <1>2, <2>1, <2>2, <2>3, <2>4 DEF WorkerNext
<1>3. CASE TimerNext
  <2>1. CASE TimerTest \/ IsQueueEmpty \/ Revived \/ \E k \in Kinds : Pop(k)
    BY <2>1 DEF TimerTest, IsQueueEmpty, Revived, Pop
  <2>2. CASE PostMove
    <3>1. Passed(Timer) /\ Timer \in Threads
      BY <2>2 DEF PostMove, Passed, Threads
    <3> QED
      BY <3>1
  <2>3. ASSUME NEW b \in Blocks, MakeMove(b)
        PROVE  BlockStep
    <3>1. Made(Timer, b) /\ Timer \in Threads
      BY <2>3 DEF MakeMove, Made, Threads
    <3> QED
      BY <3>1
  <2> QED
    BY <1>3, <2>1, <2>2, <2>3 DEF TimerNext
<1>4. CASE MainNext
  BY <1>4 DEF MainNext, Run, StartTimer, Join, Destructed, DestroyPool,
              DestroyTimer, JoinTimer, Spawn
<1>5. ASSUME NEW t \in Threads, ThreadNext(t)
      PROVE  BlockStep
  <2>1. CASE Send(t)
    <3>1. Passed(t)
      BY <2>1 DEF Send, Passed
    <3> QED
      BY <3>1
  <2>2. ASSUME NEW b \in Blocks, SendMsg(t, b)
        PROVE  BlockStep
    <3>1. Made(t, b)
      BY <2>2 DEF SendMsg, Made
    <3> QED
      BY <3>1
  <2> QED
    BY <1>5, <2>1, <2>2 DEF ThreadNext
<1>6. ASSUME NEW b \in Blocks, SendCompletes(b)
      PROVE  BlockStep
  <2>1. Sent(b)
    BY <1>6 DEF SendCompletes, Sent
  <2> QED
    BY <2>1
<1>7. CASE \/ \E t \in Workers \cup {Timer} : \/ UseDeadPool(t)
                                              \/ \E k \in Kinds : AddTimer(t, k)
           \/ RecvCompletes \/ Interrupt \/ PostEmpty
  BY <1>7 DEF UseDeadPool, AddTimer, RecvCompletes, Interrupt, PostEmpty
<1> QED
  BY <1>1, <1>2, <1>3, <1>4, <1>5, <1>6, <1>7 DEF Next

(* InUse by the places it is made of. *)
LEMMA InUseIff ==
    ASSUME NEW b \in Blocks
    PROVE  b \in InUse <=> \/ b \in lost \/ b \in posted \/ b \in queued
                           \/ \E w \in Workers : hand[w] = b
                           \/ \E t \in Threads : made[t] = b
BY Zenon DEF InUse

LEMMA InUseNextIff ==
    ASSUME NEW b \in Blocks
    PROVE  b \in InUse' <=> \/ b \in lost' \/ b \in posted' \/ b \in queued'
                            \/ \E w \in Workers : hand'[w] = b
                            \/ \E t \in Threads : made'[t] = b
BY Zenon DEF InUse

LEMMA InUseBlocks == TypeOK => InUse \subseteq Blocks
BY DEF TypeOK, InUse

LEMMA ApartInit == Init => Apart
BY RuntimeAssumption DEF Init, Apart, RuntimeAssumption

LEMMA ApartNext ==
    ASSUME Inv, Apart, BlockStep
    PROVE  Apart'
<1> USE RuntimeAssumption DEF RuntimeAssumption
<1>0. /\ memAddrs \subseteq Blocks /\ lost \subseteq Blocks
      /\ posted \subseteq Blocks /\ queued \subseteq Blocks
      /\ hand \in [Workers -> Blocks \cup {None}]
      /\ made \in [Threads -> Blocks \cup {None}]
  BY DEF Inv, TypeOK
<1>1. ASSUME NEW t \in Threads, NEW b \in Blocks, Made(t, b)
      PROVE  Apart'
  <2>1. b \notin InUse
    <3>1. CASE memAddrs # {}
      BY <1>0, <1>1, <3>1 DEF Made, New, Apart, InUse
    <3>2. CASE memAddrs = {}
      BY <1>1, <3>2 DEF Made, New
    <3> QED
      BY <3>1, <3>2
  <2>2. /\ b \notin lost /\ b \notin posted /\ b \notin queued
        /\ \A w \in Workers : hand[w] # b
        /\ \A u \in Threads : made[u] # b
    BY <2>1 DEF InUse
  <2>3. /\ memAddrs' = memAddrs \ {b} /\ made' = [made EXCEPT ![t] = b]
        /\ UNCHANGED <<lost, hand, posted, queued>>
    BY <1>1 DEF Made, New
  <2> QED
    BY <1>0, <2>2, <2>3 DEF Apart
<1>2. ASSUME NEW t \in Threads, Passed(t)
      PROVE  Apart'
  BY <1>0, <1>2 DEF Passed, Apart
<1>3. ASSUME NEW b \in Blocks, Sent(b)
      PROVE  Apart'
  BY <1>0, <1>3 DEF Sent, Apart
<1>4. ASSUME NEW w \in Workers, NEW b \in Blocks, Taken(w, b)
      PROVE  Apart'
  BY <1>0, <1>4 DEF Taken, Apart
<1>5. ASSUME NEW w \in Workers, Deleted(w)
      PROVE  Apart'
  BY <1>0, <1>5 DEF Deleted, Apart
<1>6. CASE UNCHANGED blocks
  BY <1>6 DEF blocks, Apart
<1> QED
  BY <1>1, <1>2, <1>3, <1>4, <1>5, <1>6 DEF BlockStep

LEMMA MakesFromPool ==
    ASSUME Inv, Apart, NEW t \in Threads, NEW b \in Blocks, Made(t, b)
    PROVE  Abstract!Alloc(b) \/ Abstract!FromHeap(b)
<1> USE RuntimeAssumption DEF RuntimeAssumption
<1>0. /\ InUse \subseteq Blocks /\ InUse' \subseteq Blocks
      /\ made \in [Threads -> Blocks \cup {None}]
  <2>1. TypeOK
    BY DEF Inv
  <2>2. made' \in [Threads -> Blocks \cup {None}]
    BY <2>1 DEF TypeOK, Made, New
  <2> QED
    BY <2>1, <2>2 DEF TypeOK, InUse, Made
<1>1. /\ made[t] = None /\ made' = [made EXCEPT ![t] = b]
      /\ UNCHANGED <<lost, hand, posted, queued>>
      /\ memAddrs' = memAddrs \ {b}
  BY DEF Made, New
<1>2. \A c \in Blocks : c \in InUse' <=> c \in InUse \/ c = b
  <2> TAKE c \in Blocks
  <2>1. (\E u \in Threads : made'[u] = c) <=> c = b \/ \E u \in Threads : made[u] = c
    BY <1>0, <1>1
  <2> QED
    BY <2>1, <1>1, InUseIff, InUseNextIff
<1>3. InUse' = InUse \cup {b}
  BY <1>0, <1>2
<1>4. CASE memAddrs # {}
  BY <1>1, <1>3, <1>4 DEF Made, New, Abstract!Alloc
<1>5. CASE memAddrs = {}
  BY <1>1, <1>3, <1>5 DEF Made, New, Abstract!FromHeap
<1> QED
  BY <1>4, <1>5

LEMMA DeletesToPool ==
    ASSUME Inv, Apart, NEW w \in Workers, Deleted(w)
    PROVE  hand[w] \in Blocks /\ Abstract!Dealloc(hand[w])
<1> USE RuntimeAssumption DEF RuntimeAssumption
<1> DEFINE b == hand[w]
<1>0. /\ InUse \subseteq Blocks /\ InUse' \subseteq Blocks
      /\ hand \in [Workers -> Blocks \cup {None}] /\ b \in Blocks
  BY DEF Inv, TypeOK, InUse, Deleted
<1>1. /\ hand' = [hand EXCEPT ![w] = None]
      /\ UNCHANGED <<lost, made, posted, queued>>
      /\ memAddrs' = memAddrs \cup {b}
  BY DEF Deleted
<1>2. /\ b \notin lost /\ b \notin posted /\ b \notin queued
      /\ \A v \in Workers : hand[v] = b => v = w
      /\ \A t \in Threads : made[t] # b
  BY <1>0 DEF Apart
<1> HIDE DEF b
<1>3. \A c \in Blocks : c \in InUse' <=> c \in InUse /\ c # b
  <2> TAKE c \in Blocks
  <2>1. (\E v \in Workers : hand'[v] = c) <=> c # b /\ \E v \in Workers : hand[v] = c
    BY <1>0, <1>1, <1>2 DEF b
  <2>2. c = b => c \notin InUse'
    BY <1>1, <1>2, <2>1, InUseNextIff
  <2>3. c # b => (c \in InUse' <=> c \in InUse)
    BY <1>1, <2>1, InUseIff, InUseNextIff
  <2> QED
    BY <2>2, <2>3
<1>4. InUse' = InUse \ {b}
  BY <1>0, <1>3
<1>5. b \in InUse
  BY <1>0, InUseIff DEF b
<1> QED
  BY <1>0, <1>1, <1>4, <1>5 DEF Abstract!Dealloc, b

(* A block that only passes from one place to the next stays in use.       *)
LEMMA OthersStutter ==
    ASSUME Inv, Apart,
           \/ \E t \in Threads : Passed(t)
           \/ \E b \in Blocks : Sent(b)
           \/ \E w \in Workers, b \in Blocks : Taken(w, b)
           \/ UNCHANGED blocks
    PROVE  UNCHANGED <<memAddrs, InUse>>
<1> USE RuntimeAssumption DEF RuntimeAssumption
<1>0. /\ memAddrs \subseteq Blocks /\ lost \subseteq Blocks
      /\ posted \subseteq Blocks /\ queued \subseteq Blocks
      /\ hand \in [Workers -> Blocks \cup {None}]
      /\ made \in [Threads -> Blocks \cup {None}]
  BY DEF Inv, TypeOK
<1>1. ASSUME NEW t \in Threads, Passed(t)
      PROVE  /\ UNCHANGED memAddrs
             /\ InUse \subseteq Blocks /\ InUse' \subseteq Blocks
             /\ \A c \in Blocks : c \in InUse' <=> c \in InUse
  <2>1. InUse \subseteq Blocks /\ InUse' \subseteq Blocks
    BY <1>0, <1>1 DEF Passed, InUse
  <2>2. ASSUME NEW c \in Blocks
        PROVE  c \in InUse' <=> c \in InUse
    <3>1. (\E u \in Threads : made[u] = c)
             <=> c = made[t] \/ \E u \in Threads : made'[u] = c
      BY <1>0, <1>1 DEF Passed
    <3> QED
      BY <3>1, <1>1, InUseIff, InUseNextIff DEF Passed
  <2> QED
    BY <2>1, <2>2, <1>1 DEF Passed
<1>2. ASSUME NEW b \in Blocks, Sent(b)
      PROVE  UNCHANGED <<memAddrs, InUse>>
  BY <1>2 DEF Sent, InUse
<1>3. ASSUME NEW w \in Workers, NEW b \in Blocks, Taken(w, b)
      PROVE  /\ UNCHANGED memAddrs
             /\ InUse \subseteq Blocks /\ InUse' \subseteq Blocks
             /\ \A c \in Blocks : c \in InUse' <=> c \in InUse
  <2>1. InUse \subseteq Blocks /\ InUse' \subseteq Blocks
    BY <1>0, <1>3 DEF Taken, InUse
  <2>2. ASSUME NEW c \in Blocks
        PROVE  c \in InUse' <=> c \in InUse
    <3>1. (\E v \in Workers : hand'[v] = c)
             <=> c = b \/ \E v \in Workers : hand[v] = c
      BY <1>0, <1>3 DEF Taken
    <3> QED
      BY <3>1, <1>3, InUseIff, InUseNextIff DEF Taken
  <2> QED
    BY <2>1, <2>2, <1>3 DEF Taken
<1>4. CASE UNCHANGED blocks
  BY <1>4 DEF blocks, InUse
<1> QED
  BY <1>1, <1>2, <1>3, <1>4

(* The server's use of overlapped blocks implements BlockPool: a block is  *)
(* handed out to one user at a time and comes back once, whatever workers, *)
(* timer thread, kernel and failing sends do with it, for any pool.        *)
THEOREM RuntimeImplementsBlockPool == Spec => ImplementsBlockPool
<1>1. Init => Abstract!Init
  BY RuntimeAssumption DEF Init, Abstract!Init, InUse, RuntimeAssumption
<1>2. Inv /\ Apart /\ [Next]_vars => [Abstract!Next]_<<memAddrs, InUse>>
  <2> SUFFICES ASSUME Inv, Apart, [Next]_vars
               PROVE  Abstract!Next \/ UNCHANGED <<memAddrs, InUse>>
    OBVIOUS
  <2>1. BlockStep
    BY StepsMoveBlocks
  <2> QED
    BY <2>1, MakesFromPool, DeletesToPool, OthersStutter DEF BlockStep, Abstract!Next
<1>3. Inv /\ Apart /\ [Next]_vars => Apart'
  BY StepsMoveBlocks, ApartNext
<1> QED
  BY <1>1, <1>2, <1>3, InvInit, InvNext, ApartInit, PTL
     DEF Spec, ImplementsBlockPool, Abstract!Spec

-----------------------------------------------------------------------------
(* Shutdown.                                                               *)

(* Workers that will take, or wait for, another completion unless mLoop is *)
(* found cleared: each of them has an empty completion left to take.       *)
Busy == {w \in Workers : pc[w] \in {"unborn", "get", "handle", "accepted"}}

CountInv ==
    /\ ~signalled => mLoop /\ empties = 0 /\ toPost = 0
    /\ signalled /\ mLoop => toPost + empties = Cardinality(Workers)
    /\ ~mLoop => Cardinality(Busy) <= toPost + empties

Counters == <<signalled, mLoop, toPost, empties>>

LEMMA BusyFinite == /\ IsFiniteSet(Busy) /\ Cardinality(Busy) \in Nat
                    /\ Cardinality(Workers) \in Nat
                    /\ Cardinality(Busy) <= Cardinality(Workers)
<1>1. Busy \in SUBSET Workers
  BY DEF Busy
<1> QED
  BY <1>1, RuntimeAssumption, FS_Subset, FS_CardinalityType DEF RuntimeAssumption

LEMMA BusyNextFinite == IsFiniteSet(Busy') /\ Cardinality(Busy') \in Nat
<1>1. Busy' \in SUBSET Workers
  BY DEF Busy
<1> QED
  BY <1>1, RuntimeAssumption, FS_Subset, FS_CardinalityType DEF RuntimeAssumption

LEMMA FewerBusy ==
    ASSUME Inv, CountInv, Busy' \subseteq Busy, UNCHANGED Counters
    PROVE  CountInv'
<1>1. Cardinality(Busy') <= Cardinality(Busy)
  BY BusyFinite, FS_Subset
<1>2. toPost \in Nat /\ empties \in Nat
  BY DEF Inv, TypeOK
<1> QED
  BY <1>1, <1>2, BusyFinite, BusyNextFinite DEF CountInv, Counters

LEMMA CountInit == Init => CountInv
BY DEF Init, CountInv

LEMMA WorkerKeepsCount ==
    ASSUME Inv, CountInv, NEW w \in Workers, WorkerNext(w)
    PROVE  CountInv'
<1>0. /\ pc \in [Workers \cup {Timer} -> {"unborn", "loop", "get", "accepted",
                                          "handle", "queue", "post", "left"}]
      /\ toPost \in Nat /\ empties \in Nat /\ mLoop \in BOOLEAN
  BY DEF Inv, TypeOK
<1>1. CASE Test(w) /\ mLoop
  <2>1. UNCHANGED Counters
    BY <1>1 DEF Test, Counters, completions, main
  <2> QED
    BY <1>1, <2>1 DEF CountInv, Counters
<1>2. CASE Test(w) /\ ~mLoop
  <2>1. UNCHANGED Counters
    BY <1>2 DEF Test, Counters, completions, main
  <2>2. Busy' \subseteq Busy
    BY <1>0, <1>2 DEF Test, GoTo, Busy
  <2> QED
    BY <2>1, <2>2, FewerBusy
<1>3. CASE TakeEmpty(w)
  <2>1. /\ w \in Busy /\ empties > 0 /\ empties' = empties - 1
        /\ mLoop' = FALSE /\ UNCHANGED <<signalled, toPost>>
    BY <1>3 DEF TakeEmpty, Busy
  <2>2. Busy' = Busy \ {w}
    BY <1>0, <1>3 DEF TakeEmpty, GoTo, Busy
  <2>3. Cardinality(Busy') = Cardinality(Busy) - 1
    BY <2>1, <2>2, BusyFinite, FS_RemoveElement
  <2>4. signalled
    BY <1>0, <2>1 DEF CountInv
  <2>5. Cardinality(Busy) <= toPost + empties
    BY <1>0, <2>4, BusyFinite DEF CountInv
  <2> QED
    BY <1>0, <2>1, <2>3, <2>4, <2>5, BusyFinite DEF CountInv
<1>4. CASE TakeRecv(w) \/ TakeAccept(w) \/ AsyncAccept(w) \/ Finish(w)
           \/ \E b \in Blocks : TakeBlock(w, b)
  <2>1. UNCHANGED Counters
    BY <1>4 DEF TakeRecv, TakeAccept, AsyncAccept, Finish, TakeBlock, Counters,
                completions, main
  <2>2. Busy' \subseteq Busy
    BY <1>0, <1>4 DEF TakeRecv, TakeAccept, AsyncAccept, Finish, TakeBlock, GoTo,
                      Busy
  <2> QED
    BY <2>1, <2>2, FewerBusy
<1> QED
  BY <1>1, <1>2, <1>3, <1>4, <1>0 DEF WorkerNext

LEMMA OthersKeepCount ==
    ASSUME Inv, CountInv,
           \/ TimerNext \/ MainNext
           \/ \E t \in Threads : ThreadNext(t)
           \/ \E t \in Workers \cup {Timer} : \/ UseDeadPool(t)
                                              \/ \E k \in Kinds : AddTimer(t, k)
           \/ \E b \in Blocks : SendCompletes(b)
           \/ RecvCompletes
           \/ UNCHANGED vars
    PROVE  CountInv'
<1> USE RuntimeAssumption DEF RuntimeAssumption
<1>0. /\ pc \in [Workers \cup {Timer} -> {"unborn", "loop", "get", "accepted",
                                          "handle", "queue", "post", "left"}]
      /\ Timer \notin Workers
  BY DEF Inv, TypeOK
<1>1. CASE TimerNext
  <2>1. UNCHANGED Counters
    BY <1>1 DEF TimerNext, TimerTest, IsQueueEmpty, PostMove, Revived, Pop,
                MakeMove, Counters, completions, main
  <2>2. \A w \in Workers : pc'[w] = pc[w]
    BY <1>0, <1>1 DEF TimerNext, TimerTest, IsQueueEmpty, PostMove, Revived, Pop,
                      MakeMove, GoTo
  <2> QED
    BY <2>1, <2>2, FewerBusy DEF Busy
<1>2. CASE MainNext
  <2>1. UNCHANGED Counters
    BY <1>2 DEF MainNext, Run, StartTimer, Join, Destructed, DestroyPool,
                DestroyTimer, JoinTimer, Spawn, Counters, completions, main
  <2>2. \A w \in Workers : pc'[w] = pc[w] \/ pc'[w] = "loop"
    BY <1>0, <1>2 DEF MainNext, Run, StartTimer, Join, Destructed, DestroyPool,
                      DestroyTimer, JoinTimer, Spawn, GoTo
  <2> QED
    BY <2>1, <2>2, FewerBusy DEF Busy
<1>3. ASSUME NEW t \in Workers \cup {Timer}, UseDeadPool(t)
      PROVE  CountInv'
  <2>1. UNCHANGED Counters
    BY <1>3 DEF UseDeadPool, Counters, completions, main
  <2>2. \A w \in Workers : pc'[w] = pc[w] \/ pc'[w] = "queue"
    BY <1>0, <1>3 DEF UseDeadPool, GoTo
  <2> QED
    BY <2>1, <2>2, FewerBusy DEF Busy
<1>4. CASE \/ \E t \in Threads : ThreadNext(t)
           \/ \E t \in Workers \cup {Timer} : \E k \in Kinds : AddTimer(t, k)
           \/ \E b \in Blocks : SendCompletes(b)
           \/ RecvCompletes
           \/ UNCHANGED vars
  <2>1. UNCHANGED Counters /\ UNCHANGED pc
    BY <1>4 DEF ThreadNext, Send, SendMsg, AddTimer, SendCompletes, RecvCompletes,
                vars, Counters, completions, main
  <2> QED
    BY <2>1, FewerBusy DEF Busy
<1> QED
  BY <1>1, <1>2, <1>3, <1>4

LEMMA CountNext == Inv /\ CountInv /\ [Next]_vars => CountInv'
<1> SUFFICES ASSUME Inv, CountInv, [Next]_vars
             PROVE  CountInv'
  OBVIOUS
<1>0. /\ toPost \in Nat /\ empties \in Nat /\ mLoop \in BOOLEAN
      /\ Cardinality(Workers) \in Nat
  BY BusyFinite DEF Inv, TypeOK
<1>1. CASE Interrupt
  BY <1>0, <1>1 DEF Interrupt, CountInv
<1>2. CASE PostEmpty
  <2>1. /\ toPost' + empties' = toPost + empties /\ toPost # 0
        /\ UNCHANGED <<signalled, mLoop>>
    BY <1>0, <1>2 DEF PostEmpty, main
  <2>2. Busy' = Busy
    BY <1>2 DEF PostEmpty, Busy
  <2> QED
    BY <1>0, <2>1, <2>2 DEF CountInv
<1> QED
  BY <1>1, <1>2, WorkerKeepsCount, OthersKeepCount DEF Next

(* For any number of workers: after SIGINT no worker waits on the port for *)
(* ever, as there is an empty completion for everyone who waits there.     *)
THEOREM EveryWaiterReleasedAlways == Spec => []EveryWaiterReleased
<1>1. Inv /\ CountInv => EveryWaiterReleased
  <2> SUFFICES ASSUME Inv, CountInv, signalled
               PROVE  Cardinality({w \in Workers : pc[w] = "get"}) <= toPost + empties
    BY DEF EveryWaiterReleased
  <2> DEFINE Waiting == {w \in Workers : pc[w] = "get"}
  <2>1. toPost \in Nat /\ empties \in Nat /\ mLoop \in BOOLEAN
    BY DEF Inv, TypeOK
  <2>2. Waiting \in SUBSET Busy
    BY DEF Busy
  <2>3. /\ Cardinality(Waiting) <= Cardinality(Busy)
        /\ Cardinality(Waiting) \in Nat
    BY <2>2, BusyFinite, FS_Subset, FS_CardinalityType
  <2> QED
    BY <2>1, <2>3, BusyFinite DEF CountInv
<1> QED
  BY <1>1, InvInit, InvNext, CountInit, CountNext, PTL DEF Spec

-----------------------------------------------------------------------------
(* The order of the destructors.                                           *)

(* When main is past the join, workers have left or were never started.    *)
PhaseInv ==
    /\ phase = "run" => \A w \in Workers : pc[w] = "unborn"
    /\ phase \notin {"run", "spawn", "join"}
           => \A w \in Workers : pc[w] \in {"unborn", "left"}
    /\ late \subseteq {Timer}

LEMMA PhaseInit == Init => PhaseInv
BY DEF Init, PhaseInv

LEMMA PhaseNext == Inv /\ PhaseInv /\ [Next]_vars => PhaseInv'
<1> SUFFICES ASSUME Inv, PhaseInv, [Next]_vars
             PROVE  PhaseInv'
  OBVIOUS
<1> USE RuntimeAssumption DEF RuntimeAssumption, PhaseInv
<1>0. /\ pc \in [Workers \cup {Timer} -> {"unborn", "loop", "get", "accepted",
                                          "handle", "queue", "post", "left"}]
      /\ Timer \notin Workers
  BY DEF Inv, TypeOK
<1>1. ASSUME NEW w \in Workers, WorkerNext(w)
      PROVE  PhaseInv'
  <2>1. pc[w] \notin {"unborn", "left"}
    BY <1>1 DEF WorkerNext, Test, TakeEmpty, TakeRecv, TakeAccept, AsyncAccept,
                Finish, TakeBlock
  <2>2. phase \in {"spawn", "join"} \/ phase \notin {"run", "spawn", "join"}
    BY <2>1
  <2>3. UNCHANGED <<phase, late>>
    BY <1>1 DEF WorkerNext, Test, TakeEmpty, TakeRecv, TakeAccept, AsyncAccept,
                Finish, TakeBlock, main
  <2> QED
    BY <2>1, <2>2, <2>3
<1>2. CASE TimerNext
  <2>1. UNCHANGED <<phase, late>>
    BY <1>2 DEF TimerNext, TimerTest, IsQueueEmpty, PostMove, Revived, Pop,
                MakeMove, main
  <2>2. \A w \in Workers : pc'[w] = pc[w]
    BY <1>0, <1>2 DEF TimerNext, TimerTest, IsQueueEmpty, PostMove, Revived, Pop,
                      MakeMove, GoTo
  <2> QED
    BY <2>1, <2>2
<1>3. CASE MainNext
  <2>1. CASE Run \/ Join \/ Destructed \/ DestroyPool \/ DestroyTimer \/ JoinTimer
    BY <2>1 DEF Run, Join, Destructed, DestroyPool, DestroyTimer, JoinTimer, Moves
  <2>2. CASE StartTimer
    BY <2>2 DEF StartTimer
  <2>3. CASE \E w \in Workers : Spawn(w)
    BY <2>3 DEF Spawn, main
  <2> QED
    BY <1>3, <2>1, <2>2, <2>3 DEF MainNext
<1>4. ASSUME NEW t \in Workers \cup {Timer}, UseDeadPool(t)
      PROVE  PhaseInv'
  <2>1. phase \notin {"run", "spawn", "join"} /\ UNCHANGED phase
    BY <1>4 DEF UseDeadPool, PoolAlive, main
  <2>2. t = Timer
    BY <1>4, <2>1 DEF UseDeadPool, Sending
  <2>3. late' \subseteq {Timer} /\ \A w \in Workers : pc'[w] = pc[w]
    BY <1>0, <1>4, <2>2 DEF UseDeadPool, GoTo
  <2> QED
    BY <2>1, <2>3
<1>5. CASE \/ \E t \in Threads : ThreadNext(t)
           \/ \E t \in Workers \cup {Timer} : \E k \in Kinds : AddTimer(t, k)
           \/ \E b \in Blocks : SendCompletes(b)
           \/ RecvCompletes \/ Interrupt \/ PostEmpty
           \/ UNCHANGED vars
  BY <1>5 DEF ThreadNext, Send, SendMsg, AddTimer, SendCompletes, RecvCompletes,
              Interrupt, PostEmpty, vars, main
<1> QED
  BY <1>1, <1>2, <1>3, <1>4, <1>5 DEF Next

(* main joins every worker before the pool is destroyed: only the timer    *)
(* thread can still take blocks from a destroyed pool.                     *)
THEOREM DeadPoolOnlyByTimerAlways == Spec => []DeadPoolOnlyByTimer
<1>1. PhaseInv => DeadPoolOnlyByTimer
  BY DEF PhaseInv, DeadPoolOnlyByTimer
<1> QED
  BY <1>1, InvInit, InvNext, PhaseInit, PhaseNext, PTL DEF Spec
=============================================================================
