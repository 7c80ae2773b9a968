------------------------------- MODULE Lz4Format -------------------------------
(* The constants of the LZ4 block format (lz4.c:214-235), which the          *)
(* compressor and the decoder must agree on.                                 *)
EXTENDS Integers, Sequences

CONSTANTS
    MINMATCH, LASTLITERALS, MFLIMIT,
    WILDCOPYLENGTH,
    RUN_MASK, ML_MASK,
    MaxByte,        \* 255: a length byte that says "more follow"
    DISTANCE_MAX,   \* LZ4_DISTANCE_MAX = LZ4_DISTANCE_ABSOLUTE_MAX
    BoundMargin     \* 16 of LZ4_COMPRESSBOUND

ASSUME FormatAssumption ==
    /\ {MINMATCH, LASTLITERALS, RUN_MASK, ML_MASK, MaxByte, DISTANCE_MAX} \subseteq Nat \ {0}
    /\ MFLIMIT >= MINMATCH + LASTLITERALS
    /\ MFLIMIT >= WILDCOPYLENGTH            \* LZ4_STATIC_ASSERT at lz4.c:1990
    /\ 3 + LASTLITERALS >= WILDCOPYLENGTH
    /\ 1 + LASTLITERALS >= MINMATCH         \* LZ4_write32 of length bytes
    /\ 2 * WILDCOPYLENGTH \in (RUN_MASK - 1)..(RUN_MASK + 2)

KB64 == DISTANCE_MAX + 1

SizeOf(n) == n           \* mutant: no room for the tokens
LZ4_compressBound(n) == n + (n \div MaxByte) + BoundMargin

Lesser(a, b)  == IF a < b THEN a ELSE b
Greater(a, b) == IF a > b THEN a ELSE b
=============================================================================
