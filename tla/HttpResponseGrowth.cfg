SPECIFICATION Spec
CONSTANTS
    RequestBufSize = 3
    ResponseBufSize = 14
    Headers = {"short"}
    Width <- MCWidth
    Statuses = {200}
    Bodies = {8}
    MaxChunks = 2
    MaxRequests = 2
CHECK_DEADLOCK FALSE
INVARIANTS BufferGrows
