SPECIFICATION GeohashSpec
CONSTANTS
    MaxLat = 8
    MaxLong = 16
    Bits = 3
    PrecisionLen = 2
    NoHead = NoHead
    Coord <- CoordHere
    MaxLen = 3
INVARIANTS CellHoldsPoint CoverFollowsCode CoverSound DecodeNear NeighborsAdjacent
CHECK_DEADLOCK FALSE
