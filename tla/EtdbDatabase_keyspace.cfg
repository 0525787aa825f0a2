SPECIFICATION Spec
CONSTANTS
    k1 = k1 k2 = k2 n1 = n1 n2 = n2 n3 = n3 p1 = p1 p2 = p2 p3 = p3
    g1 = g1 g2 = g2 r1 = r1
    BadPoint = BadPoint BadRect = BadRect
    Null = Null NoValue = NoValue Member = Member
    Keys <- MCKeys
    KeyLen <- MCKeyLen
    Prefixes <- MCPrefixes
    Geo <- MCGeo
    Inside <- MCInside
    Cover <- MCCover
    Hash = {g1, g2}
    NameLen <- MCNameLen
    Conn = {c1}
    MaxSlot = 2
    Key = {k1, k2}
    Name = {n1, n3}
    Value = {v1, v2}
    ListName = {l1}
    MaxList = 2
    Id = {i1, i2}
    Unlisted = {k2, i2}
    Point = {p1, p2, p3}
    Rect = {r1}
    Addr = {a1, a2}
INVARIANTS LiveHeads OneOwner SpIndex HeadsKept
PROPERTY Refinement
VIEW NoReply
SYMMETRY Symmetry
CHECK_DEADLOCK FALSE
