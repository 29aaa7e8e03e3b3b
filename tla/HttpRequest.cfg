SPECIFICATION SpecSession
CONSTANTS
    TransferEncoding <- MCTransferEncoding
    ContentLength <- MCContentLength
    Chunked <- MCChunked
    MaxRequestBufSize = 48
    MaxHeaderCount = 2
    MaxTokenLength = 3
    Connection <- MCConnection
    Close <- MCClose
    Control <- MCControl
    MaxRequests = 2
    Messages <- MCMessages
CHECK_DEADLOCK FALSE
INVARIANTS TypeOK EachIsRead TablesInBounds ShortIsRead LeftIsLineEnd
INVARIANTS HeadersFound StreamedIsFlagged AnswersAsAsked
