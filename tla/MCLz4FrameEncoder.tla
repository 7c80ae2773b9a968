------------------------- MODULE MCLz4FrameEncoder -------------------------
(* Lz4FrameEncoder for TLC: blocks of one and of two windows of two bytes.  *)
EXTENDS Lz4FrameEncoder, TLC

Prefs(mode, id, flush, sum, size) ==
    [blockMode |-> mode, blockSizeID |-> id, autoFlush |-> flush,
     contentChecksumFlag |-> sum, blockChecksumFlag |-> sum, contentSize |-> size, dictID |-> 0]
MCPreferences ==
    {Prefs("blockLinked", 0, 1, 0, 0),          \* those of lz4open
     Prefs("blockLinked", 4, 0, 1, 0),
     Prefs("blockLinked", 5, 0, 0, 5),
     Prefs("blockIndependent", 4, 0, 1, 5)}
MCBlockSizes == (4 :> 2) @@ (5 :> 4)
=============================================================================
