SPECIFICATION Spec
CONSTANTS
    c1 = c1
    c2 = c2
    Conn = {c1, c2}
    Fd = {f1}
    NoConn = NoConn
    NoFd = NoFd
    Script <- LongScript
    ReqLen = 3
    RespLen = 2
    BufCap = 4
    SndCap = 1
INVARIANTS Accounting BufferBound ConnCount
PROPERTIES NoSpuriousClose Refinement
CHECK_DEADLOCK FALSE
