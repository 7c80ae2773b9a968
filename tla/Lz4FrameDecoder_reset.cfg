\* The frames of Lz4FrameDecoder.cfg: what the header promises of a reset.
CONSTANTS
    KB64 = 2
    GB1 = 5
    blockSizes <- MCBlockSizes
    maxFHSize = 19
    minFHSize = 7
    BHSize = 4
    BFSize = 4
    knowHeaderSize = 5
    Streams <- MCStreams
    Chunks = {5, 50}
    Rooms = {1, 8}
    MaxDst = 8
SPECIFICATION Spec
INVARIANT ResetStartsClean
