SPECIFICATION FairSpec
CONSTANTS
    Npcs = {n1}
    Players = {p1, p2}
    Workers = {w1, w2}
    Timer = timer
    None = none
    MaxHp = 1
    AttackPower = 1
    MoveDelay = 1
    ReviveDelay = 2
    MaxAttacks = 1
PROPERTIES
    KilledIsRevived
    ActiveIsMoved
    AloneFallsAsleep
