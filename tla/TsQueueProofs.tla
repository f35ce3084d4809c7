--------------------------- MODULE TsQueueProofs ----------------------------
(***************************************************************************)
(* Theorems about TsQueue, for any number of producers and messages.       *)
(*                                                                         *)
(* PopsFind is inductive with the types, since nothing but the consumer    *)
(* shortens the queue.  InOrderOnce is proved through Numbered, which says *)
(* the same of each message by its place.  NoEmbrace and                   *)
(* SleepsOnlyIfMissed follow from Mutexes: who holds which mutex where.    *)
(***************************************************************************)
EXTENDS TsQueue, SequenceTheorems, TLAPS

Messages == 1..MaxMessages

Inv == TypeOK /\ PopsFind

LEMMA InitInv == Init => Inv
<1> SUFFICES ASSUME Init PROVE Inv
  OBVIOUS
<1>1. /\ deq \in Seq(1..MaxMessages)
      /\ handled \in Seq(1..MaxMessages)
  BY EmptySeq DEF Init
<1>2. pushed \in 0..MaxMessages
  BY MessagesAssumption DEF MessagesAssumption, Init
<1>3. /\ mtxQueue \in Producers \cup {Nobody}
      /\ mtxBlocking \in {Consumer, Nobody}
      /\ pc \in [Producers -> {"idle", "notify"}]
  BY DEF Init
<1>4. at = "test" /\ missed \in BOOLEAN
  BY Zenon DEF Init
<1> QED
  BY <1>1, <1>2, <1>3, <1>4 DEF Inv, TypeOK, PopsFind

LEMMA NextInv == Inv /\ [Next]_vars => Inv'
<1> SUFFICES ASSUME Inv, [Next]_vars PROVE Inv'
  OBVIOUS
<1> USE MessagesAssumption DEF MessagesAssumption, Messages
<1>0. /\ TypeOK /\ PopsFind
      /\ deq \in Seq(Messages) /\ handled \in Seq(Messages)
  BY DEF Inv, TypeOK
<1>1. ASSUME NEW p \in Producers, PushBack(p) PROVE Inv'
  <2>1. pushed + 1 \in Messages
    BY <1>0, <1>1 DEF TypeOK, PushBack
  <2>2. deq' \in Seq(Messages) /\ deq' # <<>>
    BY <1>0, <1>1, <2>1, AppendProperties DEF PushBack
  <2> QED
    BY <1>0, <1>1, <2>1, <2>2 DEF Inv, TypeOK, PopsFind, PushBack
<1>2. ASSUME NEW p \in Producers, Notify(p) PROVE Inv'
  BY <1>0, <1>2 DEF Inv, TypeOK, PopsFind, Notify
<1>3. CASE Test
  BY <1>0, <1>3 DEF Inv, TypeOK, PopsFind, Test
<1>4. CASE Lock
  BY <1>0, <1>4 DEF Inv, TypeOK, PopsFind, Lock
<1>5. CASE Wait
  BY <1>0, <1>5 DEF Inv, TypeOK, PopsFind, Wait
<1>6. CASE WakeUpErroneously
  BY <1>0, <1>6 DEF Inv, TypeOK, PopsFind, WakeUpErroneously
<1>7. CASE Relock
  BY <1>0, <1>7 DEF Inv, TypeOK, PopsFind, Relock
<1>8. CASE Leave
  BY <1>0, <1>8 DEF Inv, TypeOK, PopsFind, Leave
<1>9. CASE Drain
  BY <1>0, <1>9 DEF Inv, TypeOK, PopsFind, Drain
<1>10. CASE PopFront
  <2>1. /\ deq' \in Seq(Messages)
        /\ handled' \in Seq(Messages)
    BY <1>0, <1>10, HeadTailProperties, AppendProperties DEF PopFront
  <2> QED
    BY <1>0, <1>10, <2>1 DEF Inv, TypeOK, PopsFind, PopFront
<1>11. CASE UNCHANGED vars
  BY <1>0, <1>11 DEF Inv, TypeOK, PopsFind, vars
<1> QED
  BY <1>1, <1>2, <1>3, <1>4, <1>5, <1>6, <1>7, <1>8, <1>9, <1>10, <1>11
     DEF Next, Update

LEMMA InvAlways == Spec => []Inv
<1>1. Init => Inv
  BY InitInv
<1>2. Inv /\ [Next]_vars => Inv'
  BY NextInv
<1> QED
  BY <1>1, <1>2, PTL DEF Spec

(* The queue, the mutexes and the threads' places keep their types (wait,  *)
(* push_back and pop_front of tsqueue.h).                                  *)
THEOREM TypesKept == Spec => []TypeOK
<1>1. Inv => TypeOK
  BY DEF Inv
<1> QED
  BY <1>1, InvAlways, PTL

(* Update never pops from an empty queue, although it asks empty() and     *)
(* calls pop_front() with the mutex released in between.                   *)
THEOREM PopsFindAlways == Spec => []PopsFind
<1>1. Inv => PopsFind
  BY DEF Inv
<1> QED
  BY <1>1, InvAlways, PTL

-----------------------------------------------------------------------------
(* The i-th message handled is message i, and those in the queue follow.   *)
Numbered ==
    /\ Len(handled) + Len(deq) = pushed
    /\ \A i \in 1..Len(handled) : handled[i] = i
    /\ \A i \in 1..Len(deq) : deq[i] = Len(handled) + i

LEMMA NumberedInit == Init => Numbered
BY EmptySeq DEF Init, Numbered

(* push_back appends the next number. *)
LEMMA NumberedPush ==
    ASSUME Inv, Numbered, NEW p \in Producers, PushBack(p)
    PROVE  Numbered'
<1> DEFINE l == Len(deq)
           h == Len(handled)
<1>1. /\ deq \in Seq(Int) /\ handled \in Seq(Int) /\ pushed \in Int
      /\ handled' = handled /\ pushed' = pushed + 1
      /\ deq' = Append(deq, pushed + 1)
  BY MessagesAssumption, SeqMonotonic
     DEF MessagesAssumption, Inv, TypeOK, PushBack
<1>2. l \in Nat /\ h \in Nat
  BY <1>1, LenProperties
<1>3. /\ Len(deq') = l + 1 /\ Len(handled') = h
      /\ \A i \in 1..l : deq'[i] = deq[i]
      /\ deq'[l + 1] = pushed + 1
  BY <1>1, AppendProperties
<1>4. /\ h + l = pushed
      /\ \A i \in 1..l : deq[i] = h + i
      /\ \A i \in 1..h : handled'[i] = i
  BY <1>1 DEF Numbered
<1> HIDE DEF l, h
<1>5. h + (l + 1) = pushed'
  BY <1>1, <1>2, <1>4
<1>6. \A i \in 1..l + 1 : deq'[i] = h + i
  <2>1. \A i \in 1..l : deq'[i] = h + i
    BY <1>3, <1>4
  <2>2. deq'[l + 1] = h + (l + 1)
    BY <1>1, <1>3, <1>5
  <2>3. \A i \in 1..l + 1 : i \in 1..l \/ i = l + 1
    BY <1>2
  <2> QED
    BY <2>1, <2>2, <2>3
<1> QED
  BY <1>3, <1>4, <1>5, <1>6 DEF Numbered

(* pop_front moves the first of the queue behind those handled. *)
LEMMA NumberedPop ==
    ASSUME Inv, Numbered, PopFront
    PROVE  Numbered'
<1> DEFINE l == Len(deq)
           h == Len(handled)
<1>1. /\ deq \in Seq(Int) /\ handled \in Seq(Int) /\ pushed \in Int
      /\ deq # <<>>
      /\ deq' = Tail(deq) /\ pushed' = pushed
      /\ handled' = Append(handled, Head(deq))
  BY MessagesAssumption, SeqMonotonic
     DEF MessagesAssumption, Inv, TypeOK, PopFront
<1>2. l \in Nat \ {0} /\ h \in Nat
  BY <1>1, LenProperties, EmptySeq
<1>3. /\ Len(deq') = l - 1
      /\ \A i \in 1..l - 1 : deq'[i] = deq[i + 1]
      /\ Head(deq) = deq[1] /\ Head(deq) \in Int
  BY <1>1, HeadTailProperties
<1>4. /\ Len(handled') = h + 1
      /\ \A i \in 1..h : handled'[i] = handled[i]
      /\ handled'[h + 1] = Head(deq)
  BY <1>1, <1>3, AppendProperties
<1>5. /\ h + l = pushed
      /\ \A i \in 1..l : deq[i] = h + i
      /\ \A i \in 1..h : handled[i] = i
  BY DEF Numbered
<1> HIDE DEF l, h
<1>6. \A i \in 1..l - 1 : deq'[i] = (h + 1) + i
  BY <1>2, <1>3, <1>5
<1>7. \A i \in 1..h + 1 : handled'[i] = i
  <2>1. handled'[h + 1] = h + 1
    BY <1>2, <1>3, <1>4, <1>5
  <2>2. \A i \in 1..h + 1 : i \in 1..h \/ i = h + 1
    BY <1>2
  <2> QED
    BY <1>4, <1>5, <2>1, <2>2
<1>8. (h + 1) + (l - 1) = pushed'
  BY <1>1, <1>2, <1>5
<1> QED
  BY <1>3, <1>4, <1>6, <1>7, <1>8 DEF Numbered

LEMMA NumberedNext == Inv /\ Numbered /\ [Next]_vars => Numbered'
<1> SUFFICES ASSUME Inv, Numbered, [Next]_vars PROVE Numbered'
  OBVIOUS
<1>1. ASSUME NEW p \in Producers, PushBack(p) PROVE Numbered'
  BY <1>1, NumberedPush
<1>2. CASE PopFront
  BY <1>2, NumberedPop
<1>3. CASE UNCHANGED <<deq, pushed, handled>>
  BY <1>3 DEF Numbered
<1> QED
  BY <1>1, <1>2, <1>3
     DEF Next, Update, vars, Notify, Test, Lock, Wait, WakeUpErroneously,
         Relock, Leave, Drain

LEMMA NumberedMeans == Inv /\ Numbered => InOrderOnce
<1> SUFFICES ASSUME Inv, Numbered PROVE InOrderOnce
  OBVIOUS
<1>1. /\ deq \in Seq(Int) /\ handled \in Seq(Int) /\ pushed \in Int
  BY MessagesAssumption, SeqMonotonic DEF MessagesAssumption, Inv, TypeOK
<1>2. Len(deq) \in Nat /\ Len(handled) \in Nat
  BY <1>1, LenProperties
<1>3. /\ handled \o deq \in Seq(Int)
      /\ Len(handled \o deq) = Len(handled) + Len(deq)
      /\ \A i \in 1 .. Len(handled) + Len(deq) :
             (handled \o deq)[i] = IF i <= Len(handled) THEN handled[i]
                                                        ELSE deq[i - Len(handled)]
  BY <1>1, ConcatProperties
<1>4. \A i \in 1..pushed : (handled \o deq)[i] = i
  BY <1>1, <1>2, <1>3 DEF Numbered
<1>5. handled \o deq \in [1..pushed -> Int]
  BY <1>3, LenProperties DEF Numbered
<1> QED
  BY <1>4, <1>5 DEF InOrderOnce

(* Messages are handled each once and in the order of the pushes: those    *)
(* handled and those queued are together all that were pushed (push_back,  *)
(* pop_front, Update).                                                     *)
THEOREM InOrderOnceAlways == Spec => []InOrderOnce
<1>1. Init => Numbered
  BY NumberedInit
<1>2. Inv /\ Numbered /\ [Next]_vars => Numbered'
  BY NumberedNext
<1>3. Inv /\ Numbered => InOrderOnce
  BY NumberedMeans
<1> QED
  BY <1>1, <1>2, <1>3, InvAlways, PTL DEF Spec
-----------------------------------------------------------------------------
(* The consumer is on its way to sleep, or asleep. *)
Retiring == at \in {"lock", "wait", "asleep"}

SomeoneNotifies == \E p \in Producers : pc[p] = "notify"

(* Who holds which mutex where, and that whoever goes to sleep has found   *)
(* the queue empty.                                                        *)
QueueHeld == \A p \in Producers : pc[p] = "notify" => mtxQueue = p
BlockingHeld == /\ mtxBlocking # Nobody => at \in {"wait", "leave"}
                /\ at = "wait" => mtxBlocking # Nobody
FoundEmpty == Retiring /\ deq # <<>> => missed \/ SomeoneNotifies

Mutexes == QueueHeld /\ BlockingHeld /\ FoundEmpty

LEMMA MutexesInit == Init => Mutexes
BY DEF Init, Mutexes, QueueHeld, BlockingHeld, FoundEmpty

(* A message that comes once the consumer is retiring has its notification *)
(* before it; no second producer is between the two.                       *)
LEMMA MutexesPush ==
    ASSUME TypeOK, Mutexes, NEW p \in Producers, PushBack(p)
    PROVE  Mutexes'
<1>1. \A q \in Producers : pc[q] # "notify"
  BY ThreadsAssumption DEF ThreadsAssumption, Mutexes, QueueHeld, PushBack
<1>2. /\ pc'[p] = "notify"
      /\ \A q \in Producers : q # p => pc'[q] = pc[q]
  BY DEF TypeOK, PushBack
<1>3. QueueHeld'
  BY <1>1, <1>2 DEF QueueHeld, PushBack
<1>4. BlockingHeld'
  BY DEF Mutexes, BlockingHeld, PushBack
<1>5. FoundEmpty'
  BY <1>2 DEF FoundEmpty, SomeoneNotifies
<1> QED
  BY <1>3, <1>4, <1>5 DEF Mutexes

(* A notification wakes a sleeper, is missed by one that has not yet       *)
(* locked, and cannot fall between its lock and its sleep.                 *)
LEMMA MutexesNotify ==
    ASSUME TypeOK, Mutexes, NEW p \in Producers, Notify(p)
    PROVE  Mutexes'
<1>1. \A q \in Producers : pc'[q] # "notify"
  BY DEF TypeOK, Mutexes, QueueHeld, Notify
<1>2. QueueHeld'
  BY <1>1 DEF QueueHeld
<1>3. BlockingHeld'
  BY DEF Mutexes, BlockingHeld, Notify
<1>4. at # "wait"
  BY DEF Mutexes, BlockingHeld, Notify
<1>5. Retiring' => missed'
  BY <1>4 DEF Retiring, Notify
<1>6. FoundEmpty'
  BY <1>5 DEF FoundEmpty
<1> QED
  BY <1>2, <1>3, <1>6 DEF Mutexes

LEMMA MutexesNext == TypeOK /\ Mutexes /\ [Next]_vars => Mutexes'
<1> SUFFICES ASSUME TypeOK, Mutexes, [Next]_vars PROVE Mutexes'
  OBVIOUS
<1> USE DEF Mutexes, QueueHeld, BlockingHeld, FoundEmpty, SomeoneNotifies,
            Retiring
<1>1. ASSUME NEW p \in Producers, PushBack(p) PROVE Mutexes'
  BY <1>1, MutexesPush
<1>2. ASSUME NEW p \in Producers, Notify(p) PROVE Mutexes'
  BY <1>2, MutexesNotify
<1>3. CASE Test
  BY <1>3 DEF Test
<1>4. CASE Lock
  BY <1>4, ThreadsAssumption DEF ThreadsAssumption, Lock
<1>5. CASE Wait
  BY <1>5 DEF Wait
<1>6. CASE WakeUpErroneously
  BY <1>6 DEF WakeUpErroneously
<1>7. CASE Relock
  BY <1>7 DEF Relock
<1>8. CASE Leave
  BY <1>8 DEF Leave
<1>9. CASE Drain
  BY <1>9 DEF Drain
<1>10. CASE PopFront
  BY <1>10 DEF PopFront
<1>11. CASE UNCHANGED vars
  BY <1>11 DEF vars
<1> QED
  BY <1>1, <1>2, <1>3, <1>4, <1>5, <1>6, <1>7, <1>8, <1>9, <1>10, <1>11
     DEF Next, Update

(* push_back and wait never wait for each other: a producer that has       *)
(* mtxQueue and needs mtxBlocking finds it held, if at all, where the      *)
(* consumer gives it up without needing mtxQueue.                          *)
NoEmbrace ==
    \A p \in Producers :
        pc[p] = "notify" /\ mtxBlocking # Nobody =>
            at \in {"wait", "leave"} /\ mtxQueue = p

LEMMA MutexesAlways == Spec => []Mutexes
<1>1. Init => Mutexes
  BY MutexesInit
<1>2. TypeOK /\ Mutexes /\ [Next]_vars => Mutexes'
  BY MutexesNext
<1> QED
  BY <1>1, <1>2, TypesKept, PTL DEF Spec

(* push_back, which needs mtxBlocking while it has mtxQueue, finds it with *)
(* a consumer that gives it up without needing mtxQueue, and is the only   *)
(* producer there (push_back, wait).                                       *)
THEOREM NoEmbraceAlways == Spec => []NoEmbrace
<1>1. Mutexes => NoEmbrace
  BY DEF Mutexes, QueueHeld, BlockingHeld, NoEmbrace
<1> QED
  BY <1>1, MutexesAlways, PTL

(* The main thread is never asleep beside a message whose notification has *)
(* been given, unless one fell between wait()'s test and its lock.         *)
THEOREM SleepsOnlyIfMissedAlways == Spec => []SleepsOnlyIfMissed
<1>1. Mutexes => SleepsOnlyIfMissed
  BY DEF Mutexes, FoundEmpty, Retiring, SomeoneNotifies, SleepsOnlyIfMissed
<1> QED
  BY <1>1, MutexesAlways, PTL
=============================================================================
