\* Blocks compressed one by one, and streams of three blocks.
CONSTANTS
    MINMATCH = 2
    LASTLITERALS = 2
    MFLIMIT = 4
    WILDCOPYLENGTH = 3
    RUN_MASK = 4
    ML_MASK = 3
    MaxByte = 3
    DISTANCE_MAX = 11
    BoundMargin = 6
    KB4 = 6
    GB1 = 30
    IndexLimit = 28
    skipTrigger = 0
    acceleration = 1
    HASH_UNIT = 2
    Hash <- HashOf
    MemHi = 56
    Junk = 9
    Kinds = {"one", "ring", "saved"}
    Blocks <- MCBlocks
    Caps <- MCCaps
    MaxCalls = 3
    MaxBlock = 9
    Dictionary <- Learned
    DictAt = 28
    InputAt = 12
    RingEnd = 22
    SafeAt = 35
    DMemHi = 53
SPECIFICATION Spec
INVARIANT RoundTrip
INVARIANT WithinBuffers
INVARIANT BoundSuffices
INVARIANT DictionaryIsHistory
INVARIANT AssertsHold
CHECK_DEADLOCK FALSE
