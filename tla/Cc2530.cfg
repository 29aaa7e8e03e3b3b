SPECIFICATION FairSpec
CONSTANTS
    BufInitLen = 2
    LineLens = {2}
    MaxLines = 2
    MaxInits = 2
INVARIANTS TypeOK FramesAreLines
PROPERTIES ReaderEnds
