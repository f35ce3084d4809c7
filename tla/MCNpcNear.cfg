SPECIFICATION FairSpec
CONSTANTS
    Npcs = {n1}
    Players = {p1}
    Workers = {w1, w2}
    Timer = timer
    None = none
    MaxHp = 1
    AttackPower = 1
    MoveDelay = 1
    ReviveDelay = 2
    MaxAttacks = 0
PROPERTIES
    NearKeepsAwake
