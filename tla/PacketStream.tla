---------------------------- MODULE PacketStream ----------------------------
(***************************************************************************)
(* What the receive path of a slot promises to the packet handlers: the    *)
(* packets of a connection are delivered in the order in which they were   *)
(* sent, each once, and when the connection breaks only a suffix is lost.  *)
(* The promise is void from the moment a connection breaks inside a packet *)
(* of which the slot already holds some bytes.  A packet is named by its   *)
(* position in the stream.                                                 *)
(***************************************************************************)
EXTENDS Integers

CONSTANT Position

VARIABLES pending,     \* sent, not delivered
          delivered,   \* the last delivered packet, -1 at first
          valid        \* the promise still holds

vars == <<pending, delivered, valid>>

Init == pending = {} /\ delivered = -1 /\ valid = TRUE

Send(p) ==
    /\ p > delivered
    /\ \A q \in pending : q < p
    /\ pending' = pending \cup {p}
    /\ UNCHANGED <<delivered, valid>>

Deliver(p) ==
    /\ p \in pending
    /\ \A q \in pending : p <= q
    /\ pending' = pending \ {p}
    /\ delivered' = p
    /\ UNCHANGED valid

Break(cut) ==
    /\ pending' = {p \in pending : p < cut}
    /\ valid' \in {valid, FALSE}
    /\ UNCHANGED delivered

Void == ~valid /\ ~valid'

Next == \/ \E p \in Position : Send(p) \/ Deliver(p) \/ Break(p)
        \/ Void

Spec == Init /\ [][Next]_vars
=============================================================================
