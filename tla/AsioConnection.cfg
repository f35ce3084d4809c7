SPECIFICATION Spec
CONSTANTS
    Clients = {c1, c2}
    None = none
    Speakers = {c1}
    MaxMessages = 1
CHECK_DEADLOCK FALSE
INVARIANTS
    Framed
    StreamKept
    BroadcastSettles
    OpenIsKept
    WritesAndReadsGoOn
