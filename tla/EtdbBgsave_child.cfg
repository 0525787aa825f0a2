SPECIFICATION Spec
CONSTANTS
    Proc = {m, c1}
    Main = m
    Nobody = Nobody
    MaxSlot = 1
    Filled = {0}
INVARIANT ChildOnlySaves
CHECK_DEADLOCK FALSE
