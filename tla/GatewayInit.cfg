SPECIFICATION Spec
CONSTANTS
    TestSid = TestSid
    NoSid = NoSid
    Other = Other
    Sids <- MCSids
    Light = Light
    Nil = Nil
    Datagrams <- MCDatagrams
    SlabSize = 4
    MaxArrivals = 1
CHECK_DEADLOCK FALSE
INVARIANTS SuccessMeansServing
