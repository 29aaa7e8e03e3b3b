SPECIFICATION Spec
CONSTANTS
    RequestBufSize = 3
    ResponseBufSize = 14
    Headers <- MCHeaders
    Width <- MCWidth
    Statuses = {99, 599}
    Bodies = {0, 2, 6}
    MaxChunks = 2
    MaxRequests = 2
CHECK_DEADLOCK FALSE
INVARIANTS WireIsMeant MemAccounted NotifiedOnce EndsAnswered LingeringIsLate
