SPECIFICATION Spec
CONSTANTS
    c1 = c1
    Conns = {c1}
    NoConn = NoConn
    RequestBufSize = 1
    MaxRequestBufSize = 4
    ResponseBufSize = 2
    ResponseLen = 2
    MaxTotalMem = 2
    RequestTimeout = 2
    KeepAliveTimeout = 1
    MaxFds = 4
    SendBufSize = 1
    Kinds = {"head", "rest", "full", "bad"}
    MaxUnits = 4
    MaxDials = 2
CHECK_DEADLOCK FALSE
INVARIANTS TypeOK OutputHasWakeup InputHasWakeup TimeoutArmed ResponsesMatchRequests
PROPERTIES ResponseNotRestarted
