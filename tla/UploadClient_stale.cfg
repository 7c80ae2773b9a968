\* The server refuses a file after it took another.
CONSTANTS
    f1 = f1
    f2 = f2
    e1 = e1
    Files <- TwoFiles
    Empty <- NoneEmpty
    GAI_ATTEMPT_COUNT = 4
    NADDR = 2
    NSOCK = 2
    NFILES = 2
    FaultSets <- OnlyRefused
    MAXSYNC = 2
SPECIFICATION Spec
INVARIANT OkMeansStored
