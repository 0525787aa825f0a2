SPECIFICATION FairSpec
CONSTANTS
    c1 = c1
    c2 = c2
    Conn = {c1, c2}
    Fd = {f1, f2}
    NoConn = NoConn
    NoFd = NoFd
    Script <- MixedScript
    ReqLen = 2
    RespLen = 1
    BufCap = 4
    SndCap = 1
INVARIANTS EventTable NoDanglingEvent OutArmed NoStrandedRequest
PROPERTY Served
CHECK_DEADLOCK FALSE
