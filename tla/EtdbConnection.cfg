SPECIFICATION ConnSpec
CONSTANTS
    Requests <- MCRequests
    MaxRequests = 4
    BufCap = 8
    Beyond = 11
    AnyCut = FALSE
    Decimal <- MCDecimal
    SizeMod = 1000
    IntMod = 200
    MaxPacket = 500
    NoReturn = {1}
    PoolSize = 208
    MaxFromPool = 4096
    ReplySizes = {0, 3, 120, 300}
    MaxRecords = 2
    MaxDepth = 5
    MaxWork = 6
INVARIANTS DataNotReady BytesKept NothingForgotten Disjoint SearchBound Holdings
CHECK_DEADLOCK FALSE
