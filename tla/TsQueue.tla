------------------------------ MODULE TsQueue -------------------------------
(***************************************************************************)
(* The queue between the threads of the Asio project: the asio thread      *)
(* appends the messages it has received (connection.h), the main thread    *)
(* sleeps until there are some and drains the queue (tsqueue.h,            *)
(* server_side.h).                                                         *)
(*                                                                         *)
(* The queue has two mutexes.  mtxQueue guards the deque, mtxBlocking goes *)
(* with the condition variable.  wait() tests empty() with neither held.   *)
(***************************************************************************)
EXTENDS Integers, Sequences, FiniteSets

CONSTANTS Producers,     \* threads that push; the server has one
          Nobody,        \* a mutex that is free
          Consumer,      \* the thread that calls Update
          MaxMessages    \* bound: messages pushed

ASSUME ThreadsAssumption ==
    /\ Consumer \notin Producers
    /\ Nobody \notin Producers \cup {Consumer}
ASSUME MessagesAssumption == MaxMessages \in Nat

VARIABLES deq, mtxQueue, mtxBlocking,
          pc,        \* of the producers
          at,        \* of the consumer
          pushed,    \* messages pushed so far: message i is the i-th
          handled,   \* history: messages given to OnMessage, in order
          missed     \* history: a notification fell between test and sleep

vars == <<deq, mtxQueue, mtxBlocking, pc, at, pushed, handled, missed>>

Init == /\ deq = <<>>
        /\ mtxQueue = Nobody /\ mtxBlocking = Nobody
        /\ pc = [p \in Producers |-> "idle"]
        /\ at = "test"
        /\ pushed = 0 /\ handled = <<>> /\ missed = FALSE

-----------------------------------------------------------------------------
(* push_back: the message goes in under mtxQueue... *)

\* Mutant of PushBack: push_front.
PushFront(p) ==
    /\ pc[p] = "idle" /\ mtxQueue = Nobody /\ pushed < MaxMessages
    /\ mtxQueue' = p
    /\ pushed' = pushed + 1
    /\ deq' = <<pushed'>> \o deq
    /\ pc' = [pc EXCEPT ![p] = "notify"]
    /\ UNCHANGED <<mtxBlocking, at, handled, missed>>

PushBack(p) ==
    /\ pc[p] = "idle" /\ mtxQueue = Nobody /\ pushed < MaxMessages
    /\ mtxQueue' = p
    /\ pushed' = pushed + 1
    /\ deq' = Append(deq, pushed')
    /\ pc' = [pc EXCEPT ![p] = "notify"]
    /\ UNCHANGED <<mtxBlocking, at, handled, missed>>

\* Mutant of Notify: nobody is woken.
NotifyNobody(p) ==
    /\ pc[p] = "notify" /\ mtxBlocking = Nobody
    /\ mtxQueue' = Nobody
    /\ pc' = [pc EXCEPT ![p] = "idle"]
    /\ UNCHANGED <<deq, mtxBlocking, at, pushed, handled, missed>>

(* ...and with both mutexes held the sleeper is woken. *)
Notify(p) ==
    /\ pc[p] = "notify" /\ mtxBlocking = Nobody
    /\ at' = IF at = "asleep" THEN "woken" ELSE at
    /\ missed' = (missed \/ at = "lock")
    /\ mtxQueue' = Nobody
    /\ pc' = [pc EXCEPT ![p] = "idle"]
    /\ UNCHANGED <<deq, mtxBlocking, pushed, handled>>

-----------------------------------------------------------------------------
(* wait: `while (empty())'... *)

\* Mutant of Test: the test made with mtxBlocking held, as the use of a
\* condition variable would have it.
TestLocked ==
    /\ at = "test"
    /\ \/ /\ mtxBlocking = Nobody
          /\ mtxBlocking' = Consumer
          /\ UNCHANGED at
       \/ /\ mtxBlocking = Consumer /\ mtxQueue = Nobody
          /\ mtxBlocking' = Nobody
          /\ at' = IF deq = <<>> THEN "asleep" ELSE "drain"
    /\ UNCHANGED <<deq, mtxQueue, pc, pushed, handled, missed>>

Test ==
    /\ at = "test" /\ mtxQueue = Nobody
    /\ at' = IF deq = <<>> THEN "lock" ELSE "drain"
    /\ UNCHANGED <<deq, mtxQueue, mtxBlocking, pc, pushed, handled, missed>>

(* ...the lock of mtxBlocking... *)
Lock ==
    /\ at = "lock" /\ mtxBlocking = Nobody
    /\ mtxBlocking' = Consumer
    /\ at' = "wait"
    /\ UNCHANGED <<deq, mtxQueue, pc, pushed, handled, missed>>

(* ...the wait, which gives it up... *)
Wait ==
    /\ at = "wait"
    /\ mtxBlocking' = Nobody
    /\ at' = "asleep"
    /\ UNCHANGED <<deq, mtxQueue, pc, pushed, handled, missed>>

(* A condition variable may wake its waiter for no reason. *)
WakeUpErroneously ==
    /\ at = "asleep"
    /\ at' = "woken"
    /\ UNCHANGED <<deq, mtxQueue, mtxBlocking, pc, pushed, handled, missed>>

(* ...takes it back, and the end of the loop's body gives it up. *)
Relock ==
    /\ at = "woken" /\ mtxBlocking = Nobody
    /\ mtxBlocking' = Consumer
    /\ at' = "leave"
    /\ UNCHANGED <<deq, mtxQueue, pc, pushed, handled, missed>>

Leave ==
    /\ at = "leave"
    /\ mtxBlocking' = Nobody
    /\ at' = "test"
    /\ UNCHANGED <<deq, mtxQueue, pc, pushed, handled, missed>>

-----------------------------------------------------------------------------
(* Update: drain until empty(), then the next Update waits again. *)

\* Mutant of Drain: a message is taken for granted after the wait.
DrainUntested ==
    /\ at = "drain" /\ mtxQueue = Nobody
    /\ at' = "pop"
    /\ UNCHANGED <<deq, mtxQueue, mtxBlocking, pc, pushed, handled, missed>>

Drain ==
    /\ at = "drain" /\ mtxQueue = Nobody
    /\ at' = IF deq = <<>> THEN "test" ELSE "pop"
    /\ UNCHANGED <<deq, mtxQueue, mtxBlocking, pc, pushed, handled, missed>>

(* pop_front, then OnMessage. *)
PopFront ==
    /\ at = "pop" /\ mtxQueue = Nobody /\ deq # <<>>
    /\ deq' = Tail(deq)
    /\ handled' = Append(handled, Head(deq))
    /\ at' = "drain"
    /\ UNCHANGED <<mtxQueue, mtxBlocking, pc, pushed, missed>>

-----------------------------------------------------------------------------
Update == Test \/ Lock \/ Wait \/ Relock \/ Leave \/ Drain \/ PopFront

Next == \/ \E p \in Producers : PushBack(p) \/ Notify(p)
        \/ Update
        \/ WakeUpErroneously

Spec == Init /\ [][Next]_vars

(* A thread that waits for a mutex gets it in the end if it is free again  *)
(* and again; nothing makes another message arrive.                        *)
FairSpec == /\ Spec
            /\ SF_vars(Update)
            /\ \A p \in Producers : SF_vars(Notify(p))

-----------------------------------------------------------------------------
TypeOK ==
    /\ deq \in Seq(1..MaxMessages)
    /\ mtxQueue \in Producers \cup {Nobody}
    /\ mtxBlocking \in {Consumer, Nobody}
    /\ pc \in [Producers -> {"idle", "notify"}]
    /\ at \in {"test", "lock", "wait", "asleep", "woken", "leave", "drain", "pop"}
    /\ pushed \in 0..MaxMessages
    /\ handled \in Seq(1..MaxMessages)
    /\ missed \in BOOLEAN

(* pop_front never meets an empty deque, although empty() and pop_front()  *)
(* take the mutex one after the other (server_side.h, Update).             *)
PopsFind == at = "pop" => deq # <<>>

(* Every message is in the queue or handled, once and in the order of the  *)
(* pushes.                                                                 *)
InOrderOnce == handled \o deq = [i \in 1..pushed |-> i]

(* The server sleeps beside a message only while the notification for it   *)
(* is still to come, or where one fell between the test of empty() and the *)
(* wait: with the two mutexes apart, that is the only way to lose one.     *)
SleepsOnlyIfMissed ==
    at = "asleep" /\ deq # <<>> =>
        missed \/ \E p \in Producers : pc[p] = "notify"

(* push_back, which holds mtxQueue while it waits for mtxBlocking, always  *)
(* gets through: wait() never holds mtxBlocking while it waits for         *)
(* mtxQueue.                                                               *)
PushCompletes == \A p \in Producers : pc[p] = "notify" ~> pc[p] = "idle"

(* "Server will wait if there's no messages", and no longer: a message is  *)
(* handled, unless a notification fell between the test of empty() and the *)
(* wait.                                                                   *)
HandledUnlessMissed ==
    \A i \in 1..MaxMessages : (pushed >= i) ~> (Len(handled) >= i \/ missed)
=============================================================================
