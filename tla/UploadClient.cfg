\* Every combination of troubles, until sockets and handles have run out.
CONSTANTS
    f1 = f1
    f2 = f2
    e1 = e1
    Files <- WithEmpty
    Empty <- OneEmpty
    GAI_ATTEMPT_COUNT = 4
    NADDR = 2
    NSOCK = 2
    NFILES = 2
    FaultSets <- MCFaultSets
    MAXSYNC = 2
SPECIFICATION FairSpec
INVARIANT OkMeansStoredIfServed
INVARIANT SocketsReturnedIfAnswered
INVARIANT WaitsForNetwork
PROPERTY SyncReturns
