----------------------------- MODULE Lz4Decompress -----------------------------
(***************************************************************************)
(* Block decompression of firmware_src/modules/lz4stream/lib/lz4.c:        *)
(* LZ4_decompress_generic with end-on-input, as the ARM build compiles it  *)
(* (LZ4_FAST_DEC_LOOP is 0), one action per half of a sequence, and the    *)
(* calls that pick where the earlier data of the stream lies.              *)
(*                                                                         *)
(* Copies in strides write more than the sequence holds; those cells get   *)
(* the value Junk, so that nothing may depend on them.                     *)
(***************************************************************************)
EXTENDS Lz4Format

CONSTANT Junk

OneStride == WILDCOPYLENGTH - 2        \* mutant
MATCH_SAFEGUARD_DISTANCE == 2 * WILDCOPYLENGTH - MINMATCH
Stripe   == 2 * WILDCOPYLENGTH                     \* 16 literals at once
MaxShort == ML_MASK - 1 + MINMATCH                 \* 18, a match length in the token

VARIABLES
    dmem,       \* memory the blocks are decoded into
    sd,         \* LZ4_streamDecode_t_internal
    block,      \* the compressed block, src
    dcall,      \* arguments of LZ4_decompress_generic
    dpc,
    dip, dop,   \* bytes of block read, address in dmem
    length, back,   \* match length code of the token, and offset
    dread, dhigh,   \* cells read of block, address written up to
    dret        \* result of the last call

dvars == <<dmem, sd, block, dcall, dpc, dip, dop, length, back, dread, dhigh, dret>>

dend == Len(block)
oend == dcall.dst + dcall.outputSize
lowPrefix == dcall.dst - dcall.prefixSize
extEnd == dcall.dictStart + dcall.dictSize

In(i) == block[i + 1]
LE16(i) == In(i) + (MaxByte + 1) * In(i + 1)

\* read_variable_length: bytes up to the first below MaxByte, or to lencheck.
VariableLength(i, lencheck) ==
    LET n == CHOOSE k \in 1..(dend + 1) :
                /\ i + k >= lencheck \/ In(i + k - 1) # MaxByte
                /\ \A j \in 1..(k - 1) : i + j < lencheck /\ In(i + j - 1) = MaxByte
    IN  [value |-> ((n - 1) * MaxByte) + In(i + n - 1), bytes |-> n, error |-> i + n >= lencheck]

\* from a function of offsets; what lies in [op + n, end) is left as Junk.
Write(op, n, end, from(_)) ==
    [p \in DOMAIN dmem |-> IF p \in op..(op + n - 1) THEN from(p - op)
                           ELSE IF p \in (op + n)..(end - 1) THEN Junk ELSE dmem[p]]

Strides(op, n) ==       \* end of LZ4_wildCopy8
    op + ((Greater(n, 1) + WILDCOPYLENGTH - 1) \div WILDCOPYLENGTH) * WILDCOPYLENGTH

Stop(r) ==
    /\ dpc' = "done"
    /\ dret' = r

Failed == Stop(-1)      \* callers look at the sign only

-----------------------------------------------------------------------------
\* The special cases in front of the loop.
LZ4_decompress_generic(src, k) ==
    /\ block' = src
    /\ dcall' = k
    /\ dip' = 0 /\ dop' = k.dst /\ dread' = 0 /\ dhigh' = k.dst
    /\ IF k.outputSize = 0
       THEN Stop(IF k.partial \/ src = <<0>> THEN 0 ELSE -1)
       ELSE dpc' = "token" /\ UNCHANGED dret
    /\ UNCHANGED <<dmem, length, back>>

\* The two-stage shortcut: short literals, far from both ends, are copied as
\* one stripe, and so is a short match that does not overlap itself.
Shortcut ==
    LET n  == In(dip) \div (ML_MASK + 1)
        ml == In(dip) % (ML_MASK + 1)
        i  == dip + 1 + n
        op == dop + n
        match == op - LE16(i)
        literals(j) == In(dip + 1 + j)
        copied == Write(dop, n, dop + Stripe, literals)
    IN  /\ dpc = "token"
        /\ n # RUN_MASK
        /\ dip + 1 < dend - (RUN_MASK - 1) - 2
        /\ dop <= oend - (RUN_MASK - 1) - MaxShort
        /\ dread' = Greater(dread, dip + 1 + Stripe)
        /\ dip' = i + 2
        /\ IF ml # ML_MASK /\ LE16(i) >= WILDCOPYLENGTH
              /\ (dcall.dict = "withPrefix64k" \/ match >= lowPrefix)
           THEN /\ dmem' = [p \in DOMAIN dmem |->
                      IF p \in op..(op + ml + MINMATCH - 1) THEN copied[match + ((p - op) % LE16(i))]
                      ELSE IF p \in (op + ml + MINMATCH)..(op + MaxShort - 1) THEN Junk
                      ELSE copied[p]]
                /\ dhigh' = Greater(dhigh, Greater(dop + Stripe, op + MaxShort))
                /\ dop' = op + ml + MINMATCH
                /\ dpc' = "token"
                /\ UNCHANGED <<length, back>>
           ELSE /\ dmem' = copied
                /\ dhigh' = Greater(dhigh, dop + Stripe)
                /\ dop' = op
                /\ length' = ml
                /\ back' = LE16(i)
                /\ dpc' = "match"
        /\ UNCHANGED <<sd, block, dcall, dret>>

\* The token, the literals behind it and the offset of the match. Near one
\* of the ends these must be the last literals.
DecodeLiterals ==
    LET run  == In(dip) \div (ML_MASK + 1)
        more == VariableLength(dip + 1, dend - RUN_MASK)
        far  == run = RUN_MASK /\ dip + 1 >= dend - RUN_MASK
        i    == dip + 1 + IF run = RUN_MASK THEN more.bytes ELSE 0
        n    == run + IF run = RUN_MASK THEN more.value ELSE 0
        last == dop + n > oend - MFLIMIT \/ i + n > dend - (2 + 1 + LASTLITERALS)
        m    == Lesser(Lesser(n, dend - i), oend - dop)
        literals(j) == In(i + j)
    IN  /\ dpc = "token"
        /\ ~( /\ run # RUN_MASK /\ dip + 1 < dend - (RUN_MASK - 1) - 2
              /\ dop <= oend - (RUN_MASK - 1) - MaxShort)
        /\ IF far \/ (last /\ ~dcall.partial /\ (i + n # dend \/ dop + n > oend))
           THEN Failed /\ UNCHANGED <<dmem, dip, dop, length, back, dread, dhigh>>
           ELSE IF last
           THEN /\ dmem' = Write(dop, m, dop + m, literals)
                /\ dhigh' = Greater(dhigh, dop + m)
                /\ dread' = Greater(dread, i + m)
                /\ dop' = dop + m
                /\ IF ~dcall.partial \/ dop + m = oend \/ i + m >= dend - 2
                   THEN Stop(dop + m - dcall.dst) /\ dip' = i + m /\ UNCHANGED <<length, back>>
                   ELSE /\ dpc' = "match" /\ dip' = i + m + 2
                        /\ length' = In(dip) % (ML_MASK + 1)
                        /\ back' = LE16(i + m)
                        /\ UNCHANGED dret
           ELSE /\ dmem' = Write(dop, n, Strides(dop, n), literals)
                /\ dhigh' = Greater(dhigh, Strides(dop, n))
                /\ dread' = Greater(dread, Strides(i, n))
                /\ dop' = dop + n
                /\ dip' = i + n + 2
                /\ length' = In(dip) % (ML_MASK + 1)
                /\ back' = LE16(i + n)
                /\ dpc' = "match"
                /\ UNCHANGED dret
        /\ UNCHANGED <<sd, block, dcall>>

\* How far the strides of a match copy inside the block write: bytewise at
\* the end of dest, two or more whole strides before it.
MatchCopyEnd(op, n) ==
    LET limit == oend - (WILDCOPYLENGTH - 1)
        first == op + WILDCOPYLENGTH
    IN  IF op + n > oend - MATCH_SAFEGUARD_DISTANCE
        THEN Greater(op + n, IF first < limit THEN Strides(first, limit - first) ELSE first)
        ELSE IF n > Stripe THEN Strides(first, n - WILDCOPYLENGTH) ELSE op + Stripe

\* _copy_match: the rest of the length, then bytes at the offset, of this
\* block, of what lies in front of it, or of the external dictionary.
CopyMatch ==
    LET more  == VariableLength(dip, dend - LASTLITERALS + 1)
        long  == length = ML_MASK
        n     == length + MINMATCH + IF long THEN more.value ELSE 0
        match == dop - back
        inExt == dcall.dict = "usingExtDict" /\ match < lowPrefix
        tooFar == dcall.dictSize < KB64 /\ match + dcall.dictSize < lowPrefix
        m     == IF dcall.partial THEN Lesser(n, oend - dop) ELSE n
        \* a cell of the match that is not yet written repeats the match itself
        Source(p) == IF p < lowPrefix /\ inExt THEN dmem[extEnd - (lowPrefix - p)] ELSE dmem[p]
        cell(j)   == IF back = 0 THEN 0 ELSE Source(match + (j % back))
        end   == IF inExt \/ (dcall.partial /\ dop + n > oend - MATCH_SAFEGUARD_DISTANCE)
                 THEN dop + m ELSE MatchCopyEnd(dop, m)
    IN  /\ dpc = "match"
        /\ IF \/ long /\ more.error
              \/ tooFar
              \/ ~dcall.partial /\ dop + n > oend - LASTLITERALS
           THEN /\ Failed
                /\ dhigh' = IF tooFar \/ inExt \/ (long /\ more.error) THEN dhigh
                           ELSE Greater(dhigh, dop + WILDCOPYLENGTH)
                /\ UNCHANGED <<dmem, dip, dop, dread>>
           ELSE /\ dmem' = Write(dop, m, end, cell)
                /\ dhigh' = Greater(dhigh, end)
                /\ dop' = dop + m
                /\ dip' = dip + IF long THEN more.bytes ELSE 0
                /\ dread' = Greater(dread, dip')
                /\ IF dcall.partial /\ ~inExt /\ dop + m = oend
                   THEN Stop(dop + m - dcall.dst)
                   ELSE dpc' = "token" /\ UNCHANGED dret
        /\ UNCHANGED <<sd, block, dcall, length, back>>

DecompressStep == Shortcut \/ DecodeLiterals \/ CopyMatch

-----------------------------------------------------------------------------
(* The calls of lz4.h.                                                     *)

Arguments(api, dst, size, dict, prefixSize, dictStart, dictSize) ==
    [api |-> api, dst |-> dst, outputSize |-> size, partial |-> FALSE, dict |-> dict,
     prefixSize |-> prefixSize, dictStart |-> dictStart, dictSize |-> dictSize]

LZ4_decompress_safe(src, dst, size) ==
    /\ dpc = "idle"
    /\ LZ4_decompress_generic(src, Arguments("once", dst, size, "noDict", 0, 0, 0))
    /\ UNCHANGED sd

LZ4_decompress_safe_partial(src, dst, target, capacity) ==
    /\ dpc = "idle"
    /\ LZ4_decompress_generic(src,
           [Arguments("once", dst, Lesser(target, capacity), "noDict", 0, 0, 0)
               EXCEPT !.partial = TRUE])
    /\ UNCHANGED sd

LZ4_setStreamDecode(dictionary, dictSize) ==
    /\ dpc = "idle"
    /\ sd' = [prefixSize |-> dictSize, prefixEnd |-> dictionary + dictSize,
              externalDict |-> 0, extDictSize |-> 0]
    /\ UNCHANGED <<dmem, block, dcall, dpc, dip, dop, length, back, dread, dhigh, dret>>

\* A block that follows the last one in memory sees it as its prefix, any
\* other sees it as external dictionary.
LZ4_decompress_safe_continue(src, dst, size) ==
    LET rolling == sd.prefixEnd = dst
        ext == sd.prefixEnd - sd.prefixSize
        k == IF sd.prefixSize = 0
             THEN Arguments("first", dst, size, "noDict", 0, 0, 0)
             ELSE IF ~rolling
             THEN Arguments("wrapped", dst, size, "usingExtDict", 0, ext, sd.prefixSize)
             ELSE IF sd.prefixSize >= KB64 - 1
             THEN Arguments("rolling", dst, size, "withPrefix64k", KB64, 0, 0)
             ELSE IF sd.extDictSize = 0
             THEN Arguments("rolling", dst, size, "noDict", sd.prefixSize, 0, 0)
             ELSE Arguments("rolling", dst, size, "usingExtDict", sd.prefixSize,
                            sd.externalDict, sd.extDictSize)
    IN  /\ dpc = "idle"
        /\ LZ4_decompress_generic(src, k)
        /\ sd' = IF k.api = "wrapped"
                 THEN [sd EXCEPT !.extDictSize = sd.prefixSize, !.externalDict = ext] ELSE sd

LZ4_decompress_safe_usingDict(src, dst, size, dictStart, dictSize) ==
    /\ dpc = "idle"
    /\ LZ4_decompress_generic(src,
           IF dictSize = 0 THEN Arguments("once", dst, size, "noDict", 0, 0, 0)
           ELSE IF dictStart + dictSize # dst
           THEN Arguments("once", dst, size, "usingExtDict", 0, dictStart, dictSize)
           ELSE IF dictSize >= KB64 - 1
           THEN Arguments("once", dst, size, "withPrefix64k", KB64, 0, 0)
           ELSE Arguments("once", dst, size, "noDict", dictSize, 0, 0))
    /\ UNCHANGED sd

\* The call returns; a stream remembers where the data it has decoded ends.
ReturnDecoded ==
    /\ dpc = "done"
    /\ dpc' = "idle"
    /\ sd' = IF dcall.api = "once" \/ dret <= 0 THEN sd
             ELSE IF dcall.api = "rolling"
             THEN [sd EXCEPT !.prefixSize = @ + dret, !.prefixEnd = @ + dret]
             ELSE [sd EXCEPT !.prefixSize = dret, !.prefixEnd = dcall.dst + dret]
    /\ UNCHANGED <<dmem, block, dcall, dip, dop, length, back, dread, dhigh, dret>>

InitDecompress ==
    /\ sd = [prefixSize |-> 0, prefixEnd |-> 0, externalDict |-> 0, extDictSize |-> 0]
    /\ block = <<>> /\ dcall = [dst |-> 0, outputSize |-> 0]
    /\ dpc = "idle"
    /\ dip = 0 /\ dop = 0 /\ length = 0 /\ back = 0 /\ dread = 0 /\ dhigh = 0
    /\ dret = 0
=============================================================================
