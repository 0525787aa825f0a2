SPECIFICATION Spec
CONSTANTS
    Requests <- MCRequests
    MaxRequests = 4
    BufCap = 8
    Beyond = 11
    AnyCut = TRUE
    Decimal <- MCDecimal
    SizeMod = 1000
    IntMod = 200
    MaxPacket = 500
    NoReturn = {1}
INVARIANT DataNotReady
CHECK_DEADLOCK FALSE
