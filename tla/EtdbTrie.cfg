SPECIFICATION Spec
CONSTANTS
    B = 4
    XorOf <- MCXor
    Pct = 1
    Zero = 2
    Keys <- DeepKeys
    Value <- MCValue
    MaxOps = 6
INVARIANTS FreeRings BlockLists ChildLists Searches
PROPERTY Refinement
VIEW NoOp
CHECK_DEADLOCK FALSE
