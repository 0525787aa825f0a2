SPECIFICATION Spec
CONSTANTS
    k1 = k1 k2 = k2 n1 = n1 n2 = n2 n3 = n3 p1 = p1 p2 = p2 p3 = p3
    g1 = g1 g2 = g2 r1 = r1
    BadPoint = BadPoint BadRect = BadRect
    Null = Null NoValue = NoValue Member = Member
    Keys <- MCKeys
    KeyLen <- MCKeyLen
    Prefixes <- MCPrefixes
    Geo <- MCGeo
    Inside <- MCInside
    Cover <- MCCover
    Hash = {g1, g2}
    NameLen <- SameNameLen
    Conn = {c1}
    MaxSlot = 1
    Key = {k1}
    Name = {n1, n2}
    Value = {v1, v2}
    ListName = {}
    MaxList = 2
    Id = {}
    Unlisted = {}
    Point = {}
    Rect = {}
    Addr = {a1, a2}
PROPERTY Refinement
SYMMETRY Symmetry
CHECK_DEADLOCK FALSE
