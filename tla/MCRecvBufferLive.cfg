SPECIFICATION FairSpec
CONSTANTS
    MaxBufferSize = 6
    Sizes = {2, 3}
    Bytes = {2, 3}
    MaxBack = 0
    Window = 5
    MaxStream = 14
    MaxSessions = 1
INVARIANTS
    HealthyNeverDropped
PROPERTIES
    SentIsDispatched
