\* Logs that follow one another under one name, on a card that fails opens
\* and headers; power lost anywhere.
CONSTANTS
    a = a
    b = b
    Names <- OneName
    n1 = n1
    Data <- AB
    Size <- Sizes
    CHUNKSIZE = 4
    REUSE = TRUE
    Faults = {"open", "begin"}
    NFILES = 2
    MAXWRITES = 4
    Header = Header
    EndMark = EndMark
    Torn = Torn
    Remains = Remains
    NoFile = NoFile
SPECIFICATION Spec
INVARIANT TypeOK
INVARIANT NothingLost
INVARIANT ContextReady
INVARIANT BufferFits
INVARIANT CrashLosesAtMostOneChunk
INVARIANT FinalIsComplete
PROPERTY ImplementsLogFile
