SPECIFICATION Spec
CONSTANTS
    MaxUser = 2
    Clients = {c1, c2}
    Accounts = {a, gm}
    Gm = {gm}
    Workers = {w1, w2}
    None = none
    MaxPackets = 2
    MaxSends = 1
    MaxStrikes = 1
CHECK_DEADLOCK FALSE
SYMMETRY Symmetry
CONSTRAINT NotCrossed
INVARIANTS
    AccountsHeld
    SlotWatched
    OneReceiver
    AcceptsGoOn
