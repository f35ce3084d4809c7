SPECIFICATION Spec
CONSTANTS
    MaxBufferSize = 5
    Sizes = {2, 3}
    Bytes <- SomeBytes
    MaxBack = 3
    Window = 8
    MaxStream = 13
    MaxSessions = 2
INVARIANTS
    IndicesAgree
    NeverOverflows
    LostOnlyAfterDirtyClose
PROPERTIES
    EndMeansFull
    RefinesPacketStream
