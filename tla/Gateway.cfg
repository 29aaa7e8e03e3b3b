SPECIFICATION FairSpec
CONSTANTS
    TestSid = TestSid
    NoSid = NoSid
    Other = Other
    Sids <- MCSids
    Light = Light
    Nil = Nil
    Datagrams <- MCDatagrams
    SlabSize = 4
    MaxArrivals = 3
CHECK_DEADLOCK FALSE
INVARIANTS TypeOK CommandsApplied ListensUntilFailure
PROPERTIES StopsAfterFailure
