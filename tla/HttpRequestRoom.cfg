SPECIFICATION SpecSession
CONSTANTS
    TransferEncoding <- MCTransferEncoding
    ContentLength <- MCContentLength
    Chunked <- MCChunked
    MaxRequestBufSize = 18
    MaxHeaderCount = 2
    MaxTokenLength = 3
    Connection <- MCConnection
    Close <- MCClose
    Control <- MCControl
    MaxRequests = 1
    Messages <- MCEdgeMessages
CHECK_DEADLOCK FALSE
INVARIANTS BodyFindsRoom
