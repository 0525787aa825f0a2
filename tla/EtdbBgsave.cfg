SPECIFICATION FairSpec
CONSTANTS
    Proc = {m, c1, c2, c3}
    Main = m
    Nobody = Nobody
    MaxSlot = 1
    Filled = {0}
INVARIANTS OneChild ZombiesReaped
PROPERTY RefusalEnds
CHECK_DEADLOCK FALSE
