SPECIFICATION Spec
CONSTANTS
    MaxLat = 8
    MaxLong = 16
    Bits = 3
    PrecisionLen = 2
    NoHead = NoHead
    Coord <- CoordHere
INVARIANT RectFinds
CHECK_DEADLOCK FALSE
