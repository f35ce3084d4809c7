SPECIFICATION FairSpec
CONSTANTS
    Workers = {w1, w2}
    Timer = timer
    Main = main
    Blocks = {b1, b2, b3}
    Pooled = {b1}
    None = none
    MaxRecvs = 1
    MaxSends = 1
    MaxEvents = 2
CHECK_DEADLOCK FALSE
INVARIANTS
    EveryWaiterReleased
    DeadPoolOnlyByTimer
PROPERTIES
    ImplementsBlockPool
    ShutdownEnds
