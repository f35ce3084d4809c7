SPECIFICATION FairSpec
CONSTANTS
    Ids = {0, 1, 2}
    MaxPackets = 4
CHECK_DEADLOCK FALSE
INVARIANTS
    OnlyZeroIsNull
PROPERTIES
    ClosedEnds
