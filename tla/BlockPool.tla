------------------------------ MODULE BlockPool ------------------------------
(***************************************************************************)
(* What the pool of overlapped blocks promises: a block is handed to one   *)
(* user at a time and comes back once.  When none is free, a block from    *)
(* the heap is handed out; it comes back to the pool like the others.      *)
(***************************************************************************)
CONSTANTS Blocks, Pooled  \* all blocks, and those, among them, that the pool starts with

VARIABLES free, used

Init == free = Pooled /\ used = {}

Alloc(b) ==
    /\ b \in free
    /\ free' = free \ {b}
    /\ used' = used \cup {b}

FromHeap(b) ==
    /\ free = {} /\ b \notin used
    /\ used' = used \cup {b}
    /\ UNCHANGED free

Dealloc(b) ==
    /\ b \in used
    /\ used' = used \ {b}
    /\ free' = free \cup {b}

Next == \E b \in Blocks : Alloc(b) \/ FromHeap(b) \/ Dealloc(b)

Spec == Init /\ [][Next]_<<free, used>>
=============================================================================
