SPECIFICATION FairSpec
CONSTANTS
    Producers = {p1, p2}
    Nobody = nobody
    Consumer = consumer
    MaxMessages = 4
CHECK_DEADLOCK FALSE
INVARIANTS
    PopsFind
    InOrderOnce
    SleepsOnlyIfMissed
PROPERTIES
    PushCompletes
    HandledUnlessMissed
