SPECIFICATION FairSpec
CONSTANTS
    MaxUser = 1
    Clients = {c1, c2}
    Accounts = {a}
    Gm = {}
    Workers = {w1, w2}
    None = none
    MaxPackets = 1
    MaxSends = 0
    MaxStrikes = 0
CHECK_DEADLOCK FALSE
PROPERTIES
    LeftIsFreedUnlessUnnoticed
