SPECIFICATION Spec
CONSTANTS
    c1 = c1
    c2 = c2
    Conns = {c1, c2}
    NoConn = NoConn
    RequestBufSize = 1
    MaxRequestBufSize = 2
    ResponseBufSize = 2
    ResponseLen = 2
    MaxTotalMem = 9
    RequestTimeout = 1
    KeepAliveTimeout = 1
    MaxFds = 4
    SendBufSize = 1
    Kinds = {"head", "full"}
    MaxUnits = 1
    MaxDials = 2
CHECK_DEADLOCK FALSE
INVARIANTS EpipeMeansPeerGone
