\* Files of up to five characters, directories of three slots.
CONSTANTS
    bufsz = 3
    Chars <- MCChars
    Newline = "n"
    Nul = "0"
    Contents <- MCContents
    suffix <- lz4
    Uploaded <- Renamed
    Free = Free
    Directories <- MCDirectories
SPECIFICATION Spec
INVARIANT PiecesMakeTheFile
INVARIANT EveryLogOnce
