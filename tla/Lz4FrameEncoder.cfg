\* Frames of up to 7 bytes in windows of 2 and blocks of 2 and 4.
CONSTANTS
    KB64 = 2
    MINMATCH = 2
    blockSizes <- MCBlockSizes
    DEFAULT = 4
    maxFHSize = 19
    minFHSize = 7
    BHSize = 4
    BFSize = 4
    Preferences <- MCPreferences
    Inputs = {1, 2, 5}
    MaxContent = 7
    MaxTotal = 1
SPECIFICATION Spec
INVARIANT BlocksInOrder
INVARIANT DictionaryIsContent
INVARIANT TmpInFits
INVARIANT CapacityIsEnough
INVARIANT EndedFrameIsWhole
CHECK_DEADLOCK FALSE
