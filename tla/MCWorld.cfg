SPECIFICATION Spec
CONSTANTS
    Width = 4
    Height = 1
    SectorWidth = 2
    SectorHeight = 1
    Range = 1
    Players = {p1, p2}
    Npcs = {n1}
    Handlers <- TwoEach
    Object <- MCObject
    None = none
    Workers = 2
    Spawns <- MCSpawns
    Homes <- MCHomes
    MaxMoves = 1
    MaxSessions = 2
    MaxRevivals = 1
CHECK_DEADLOCK FALSE
SYMMETRY Symmetry
CONSTRAINT Explored
INVARIANTS
    
    InOwnSector
    ExactWhenSequential
    ShownIsView
PROPERTIES
    LoneMoveRepairs
