SPECIFICATION FairSpec
CONSTANTS
    c1 = c1
    c2 = c2
    Conns = {c1, c2}
    NoConn = NoConn
    RequestBufSize = 1
    MaxRequestBufSize = 2
    ResponseBufSize = 2
    ResponseLen = 2
    MaxTotalMem = 1
    RequestTimeout = 1
    KeepAliveTimeout = 1
    MaxFds = 3
    SendBufSize = 1
    Kinds = {"head", "stream"}
    MaxUnits = 1
    MaxDials = 2
CHECK_DEADLOCK FALSE
INVARIANTS BufferDiscipline BacklogHasWakeup LingeringIsOverload MemAccounting DescriptorAccounting
PROPERTIES QuietSessionEnds BacklogDrained
