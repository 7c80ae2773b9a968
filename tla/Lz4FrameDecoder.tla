---------------------------- MODULE Lz4FrameDecoder ----------------------------
(* The reading half of lz4frame.c: LZ4F_decompress, a machine of stages that   *)
(* takes a frame in pieces of any size and gives its content in pieces of any  *)
(* size, LZ4F_getFrameInfo and LZ4F_resetDecompressionContext.                 *)
(*                                                                             *)
(* The input is a sequence of fields, each at its place with its size. A byte  *)
(* of memory holds the place of a byte in the content of the frame, or Junk.   *)
(* Addresses 0 .. TmpEnd - 1 are tmpOutBuffer, the rest is the caller's. A     *)
(* block decodes to its content when the window before it is in the dictionary *)
(* given to LZ4_decompress_safe_usingDict, and to Junk otherwise; what follows *)
(* it in the capacity it was given may be written over.                        *)
EXTENDS Integers, SequencesExt

CONSTANTS
    KB64, GB1,
    blockSizes,         \* of LZ4F_getBlockSize: blockSizeID -> bytes
    maxFHSize, minFHSize, BHSize, BFSize, knowHeaderSize,
    Streams,            \* the inputs: sequences of fields
    Chunks, Rooms,      \* bytes of input, and of room, a caller gives at a time
    MaxDst              \* bound: bytes of memory a caller decodes to

MaxBlock == Max({blockSizes[id] : id \in DOMAIN blockSizes})
TmpEnd == MaxBlock + 2 * KB64
DstAt  == TmpEnd + 1
DstEnd == DstAt + MaxDst
Junk == 0
NULL == 0 - 1

ASSUME DecoderAssumption ==
    /\ {KB64, GB1, maxFHSize, minFHSize, BHSize, BFSize, knowHeaderSize} \subseteq Nat \ {0}
    /\ IsFiniteSet(DOMAIN blockSizes) /\ DOMAIN blockSizes \subseteq Nat /\ DOMAIN blockSizes # {}
    /\ \A id \in DOMAIN blockSizes : blockSizes[id] \in Nat /\ blockSizes[id] >= KB64
    \* sizes grow by more than the windows a linked frame adds (64 KB, 256 KB, ...)
    /\ \A i, j \in DOMAIN blockSizes : i < j => blockSizes[j] > blockSizes[i] + 2 * KB64
    /\ GB1 > 2 * KB64
    /\ MaxDst \in Nat /\ Chunks \subseteq Nat /\ Rooms \subseteq 0..MaxDst

\* What a header says; sized is its flag for a content size, 0 without one.
FrameInfo == [blockSizeID : Nat, linked : BOOLEAN, blockSum : BOOLEAN,
              contentSum : BOOLEAN, sized : BOOLEAN, contentSize : Nat]
NoFrameInfo == [blockSizeID |-> 0, linked |-> TRUE, blockSum |-> FALSE,
                contentSum |-> FALSE, sized |-> FALSE, contentSize |-> 0]

\* A field of the input: its kind, place and size, whether it is undamaged, whether
\* a frame ends with it, the header over it and the next byte of content. n is what
\* it says: the size of the block after a head (raw if that is not compressed), of
\* what a skip skips, of the content of a block, or of the whole content.
Kinds == {"frame", "head", "raw", "block", "bsum", "end", "sum", "skip", "skipped", "other"}
Fields == [k : Kinds, at : Nat, size : Nat, ok : BOOLEAN, last : BOOLEAN, raw : BOOLEAN,
           n : Nat, from : Nat, info : FrameInfo]

\* Damage the decoder can see: what a field cannot be when it is, or is not, ok.
Whole(f) ==
    CASE f.k = "frame" -> /\ f.size \in minFHSize..maxFHSize /\ f.from = 1
                          /\ f.ok => f.info.blockSizeID \in DOMAIN blockSizes
                          /\ f.info.sized \/ f.info.contentSize = 0
      [] f.k = "head"  -> /\ f.size = BHSize
                          /\ f.info.blockSizeID \in DOMAIN blockSizes =>
                                (f.ok <=> f.n <= blockSizes[f.info.blockSizeID])
      [] f.k = "raw"   -> f.n = f.size /\ f.ok
      [] f.k = "block" -> /\ f.info.blockSizeID \in DOMAIN blockSizes =>
                                (f.ok => f.n <= blockSizes[f.info.blockSizeID])
                          /\ f.size > 0
      [] f.k = "bsum"  -> f.size = BFSize
      [] f.k = "end"   -> /\ f.size = BHSize /\ f.n + 1 = f.from
                          /\ f.ok <=> f.info.contentSize \in {0, f.n}
      [] f.k = "sum"   -> f.size = BFSize /\ f.n + 1 = f.from
      [] f.k = "skip"  -> f.size = 8 /\ f.ok
      [] f.k = "skipped" -> f.n = 0 /\ f.ok

Begins(f) == f.k \in {"frame", "skip"}
NextBlock(f, g) == g.k \in {"head", "end"} /\ g.info = f.info
\* g comes right after f.
Follows(f, g) ==
    IF f.last THEN Begins(g) ELSE
    CASE f.k = "frame" -> NextBlock(f, g) /\ g.from = 1
      [] f.k = "head"  -> /\ g.k = (IF f.raw THEN "raw" ELSE "block")
                          /\ g.size = f.n /\ g.from = f.from /\ g.info = f.info
      [] f.k \in {"raw", "block"} ->
             /\ IF f.info.blockSum THEN g.k = "bsum" /\ g.info = f.info ELSE NextBlock(f, g)
             /\ g.from = f.from + f.n
      [] f.k = "bsum"  -> NextBlock(f, g) /\ g.from = f.from
      [] f.k = "end"   -> g.k = "sum" /\ g.info = f.info /\ g.from = f.from
      [] f.k = "skip"  -> g.k = "skipped" /\ g.size = f.n
      [] OTHER -> FALSE
Ends(f) == f.last <=> \/ f.k \in {"sum", "skipped"}
                      \/ f.k = "end" /\ ~f.info.contentSum

\* The inputs are whole frames, damaged or not, but with their fields in place.
ASSUME StreamsAssumption ==
    /\ 4 < knowHeaderSize /\ knowHeaderSize <= minFHSize /\ minFHSize < 8 /\ 8 <= maxFHSize
    /\ \A s \in Streams :
          /\ s \in Seq(Fields) /\ s # <<>>
          /\ s[1].at = 1 /\ Begins(s[1]) /\ s[Len(s)].last
          /\ \A i \in DOMAIN s : s[i].k # "other" /\ Whole(s[i]) /\ Ends(s[i])
          /\ \A i \in 1..(Len(s) - 1) :
                s[i + 1].at = s[i].at + s[i].size /\ Follows(s[i], s[i + 1])
          /\ \A i, j \in DOMAIN s : i < j => s[i].at + s[i].size <= s[j].at

VARIABLES
    stream, srcPtr,     \* the input, and the next byte of it
    srcStart, srcEnd, dst,      \* what the call under way was given
    dctx,               \* LZ4F_dctx
    mem,
    pc,                 \* "idle", or in a call: "run", "preserve"
    ret,                \* the hint or the error the last call returned
    arena,              \* history: end of the room promised to stay
    sent,               \* history: content of this frame given by earlier calls
    carried,            \* history: the last reset left frameRemainingSize behind
    asserts             \* history: the asserts of lz4frame.c held

call == <<srcStart, srcEnd, dst>>
vars == <<stream, srcPtr, call, dctx, mem, pc, ret, arena, sent, carried, asserts>>

Lesser(a, b) == IF a < b THEN a ELSE b

-----------------------------------------------------------------------------
(* The input, byte by byte. Bytes are known by their place in it, so what a    *)
(* buffer holds is a function from offsets to places.                          *)

EndOf(f) == f.at + f.size - 1
Total == EndOf(Last(stream))

Other == [k |-> "other", at |-> 0, size |-> 0, ok |-> FALSE, last |-> FALSE,
          raw |-> FALSE, n |-> 0, from |-> 0, info |-> NoFrameInfo]
\* The field whose first n bytes are buf[from], buf[from + 1], ...
Field(buf, from, n) ==
    LET fs == {i \in DOMAIN stream :
                  /\ n <= stream[i].size
                  /\ \A j \in 0..(n - 1) : buf[from + j] = stream[i].at + j}
    IN  IF fs = {} THEN Other ELSE stream[CHOOSE i \in fs : TRUE]

available == srcEnd - srcPtr
room      == dst.end - dst.at

Here(n) == [j \in 0..(n - 1) |-> srcPtr + j]

\* n more bytes come to those stored in header or tmpIn, of which one is used.
Store(d, n) ==
    LET new == d.tmpInSize..(d.tmpInSize + n - 1)
    IN  [d EXCEPT !.tmpInSize = @ + n,
                  !.stored = [j \in new \cup DOMAIN d.stored |->
                                 IF j \in new THEN srcPtr + j - d.tmpInSize ELSE d.stored[j]]]
Restore(d, n) == Store([d EXCEPT !.tmpInSize = 0, !.stored = <<>>], n)
WantedWhole(d, target) ==                            \* mutant
    IF target - d.tmpInSize <= available THEN target - d.tmpInSize ELSE 0
Wanted(d, target) == Lesser(target - d.tmpInSize, available)

Copied(m, to, from, n) ==
    [p \in DOMAIN m |-> IF p \in to..(to + n - 1) THEN m[from + p - to] ELSE m[p]]

-----------------------------------------------------------------------------
(* How a stage ends. Go: the loop takes the next stage; Stop: the call ends,   *)
(* after what it must preserve; Fail: it returns an error at once.             *)

Go(d) == dctx' = d /\ UNCHANGED <<pc, ret>>
Stop(d, nextSrcSizeHint) ==
    /\ dctx' = d /\ pc' = "preserve"
    /\ ret' = [error |-> "none", hint |-> nextSrcSizeHint]
Fail(d, error) == dctx' = d /\ pc' = "idle" /\ ret' = [error |-> error, hint |-> 0]

Consume(n) == srcPtr' = srcPtr + n
NoOutput   == UNCHANGED <<dst, mem, asserts>>

LZ4F_resetDecompressionContext(d) ==
    [d EXCEPT !.dStage = "getFrameHeader", !.dict = NULL, !.dictSize = 0]

\* LZ4F_decodeHeader of srcSize bytes at src, the header buffer or the input,
\* in the context d0; consumed is what the caller took of the input already.
LZ4F_decodeHeader(d0, src, srcSize, inHeader, consumed) ==
    LET d == [d0 EXCEPT !.frameInfo = NoFrameInfo]
        f == Field(src, 0, minFHSize)
        whole == f.k = "frame" /\ srcSize >= f.size
    IN  CASE f.k = "skip" ->
               /\ Go(IF inHeader
                     THEN [d EXCEPT !.tmpInSize = srcSize, !.tmpInTarget = 8,
                                    !.dStage = "storeSFrameSize"]
                     ELSE [d EXCEPT !.dStage = "getSFrameSize"])
               /\ Consume(IF inHeader THEN consumed ELSE 4)
          [] f.k = "frame" /\ ~whole ->
               /\ Go([d EXCEPT !.tmpInSize = srcSize, !.tmpInTarget = f.size,
                               !.dStage = "storeFrameHeader"])
               /\ Consume(consumed)
          [] whole /\ f.ok /\ Field(src, 0, f.size) = f ->
               /\ Go([d EXCEPT
                     !.frameInfo = f.info,
                     !.maxBlockSize = blockSizes[f.info.blockSizeID],
                     !.frameRemainingSize = IF f.info.sized THEN f.info.contentSize ELSE @,
                     !.dStage = "init"])
               /\ Consume(IF inHeader THEN consumed ELSE f.size)
          [] OTHER -> Fail(d, "header_invalid") /\ Consume(consumed)

getFrameHeader ==
    /\ dctx.dStage = "getFrameHeader"
    /\ IF available >= maxFHSize
       THEN LZ4F_decodeHeader(dctx, Here(available), available, FALSE, 0)
       ELSE /\ LET d == Restore(dctx, 0)
               IN  IF available = 0                            \* 0-size input: no error
                   THEN dctx' = d /\ pc' = "idle" /\ ret' = [error |-> "none", hint |-> minFHSize]
                   ELSE Go([d EXCEPT !.tmpInTarget = minFHSize, !.dStage = "storeFrameHeader"])
            /\ Consume(0)
    /\ NoOutput

storeFrameHeader ==
    /\ dctx.dStage = "storeFrameHeader"
    /\ LET n == Wanted(dctx, dctx.tmpInTarget)
           d == Store(dctx, n)
       IN  IF d.tmpInSize < d.tmpInTarget
           THEN Stop(d, d.tmpInTarget - d.tmpInSize + BHSize) /\ Consume(n)
           ELSE LZ4F_decodeHeader(d, d.stored, d.tmpInTarget, TRUE, n)
    /\ NoOutput

\* The buffers of a frame; tmpIn is known by its size.
bufferNeeded == dctx.maxBlockSize + (IF dctx.frameInfo.linked THEN 2 * KB64 ELSE 0)
init ==
    /\ dctx.dStage = "init"
    /\ LET tooSmall == bufferNeeded > dctx.maxBufferSize
       IN  \/ /\ Go([dctx EXCEPT
                     !.maxBufferSize = IF tooSmall THEN bufferNeeded ELSE @,
                     !.tmpInCapacity = IF tooSmall THEN dctx.maxBlockSize + BFSize ELSE @,
                     !.tmpInSize = 0, !.tmpInTarget = 0, !.stored = <<>>,
                     !.tmpOut = 0, !.tmpOutStart = 0, !.tmpOutSize = 0,
                     !.hashed = 0,
                     !.dStage = "getBlockHeader"])
           \/ /\ tooSmall                      \* ALLOC returns NULL
              /\ Fail([dctx EXCEPT !.maxBufferSize = 0, !.tmpInCapacity = 0],
                      "allocation_failed")
    /\ Consume(0) /\ NoOutput

-----------------------------------------------------------------------------
(* Blocks                                                                    *)

\* What a block header at buf says, after which consumed bytes are used up.
DecodeBlockHeader(d, buf, consumed) ==
    LET f       == Field(buf, 0, BHSize)
        crcSize == IF d.frameInfo.blockSum THEN BFSize ELSE 0
        none    == room = 0 \/ available = consumed
        block   == [d EXCEPT !.tmpInTarget = f.n + crcSize, !.dStage = "getCBlock"]
    IN  CASE f.k = "end" -> Go([d EXCEPT !.dStage = "getSuffix"])
          [] f.k = "head" /\ f.n > d.maxBlockSize -> Fail(d, "maxBlockSize_invalid")
          [] f.k = "head" /\ f.n <= d.maxBlockSize /\ f.raw ->
                Go([d EXCEPT !.tmpInTarget = f.n, !.dStage = "copyDirect"])
          [] f.k = "head" /\ f.n <= d.maxBlockSize /\ ~f.raw ->
                IF none THEN Stop(block, BHSize + f.n + crcSize) ELSE Go(block)
          [] OTHER -> Fail(d, "misread")       \* bytes of something else

getBlockHeader ==
    /\ dctx.dStage = "getBlockHeader"
    /\ IF available >= BHSize
       THEN DecodeBlockHeader(dctx, Here(BHSize), BHSize) /\ Consume(BHSize)
       ELSE Go([Restore(dctx, 0) EXCEPT !.dStage = "storeBlockHeader"]) /\ Consume(0)
    /\ NoOutput

storeBlockHeader ==
    /\ dctx.dStage = "storeBlockHeader"
    /\ LET n == Wanted(dctx, BHSize)
           d == Store(dctx, n)
       IN  /\ IF d.tmpInSize < BHSize THEN Stop(d, BHSize - d.tmpInSize)
              ELSE DecodeBlockHeader(d, d.stored, n)
           /\ Consume(n)
    /\ NoOutput

\* The part of the dictionary that a block in tmpOut may still need goes in
\* front of it; the dictionary then begins with tmpOutBuffer.
InFrontOfTmpOut(m, d, dictEnd) ==
    LET copySize == IF d.tmpOutSize > KB64 THEN 0 ELSE Lesser(KB64 - d.tmpOutSize, d.tmpOut)
    IN  Copied(m, d.tmpOut - copySize, dictEnd - d.tmpOutStart - copySize, copySize)

OneShort(n) == KB64 - n - 1                          \* mutant
WindowBefore(n) == KB64 - n

\* LZ4F_updateDict after n bytes came to at: where the dictionary is now, what
\* memory holds then, and whether the asserts on the way hold.
LZ4F_updateDict(d, m, at, n, withinTmp) ==
    LET dict  == IF d.dictSize = 0 THEN at ELSE d.dict
        end   == dict + d.dictSize
        inDst == at - dst.start + n
        inTmp == dict = 0
        As(start, size, m1, holds) == [dict |-> start, dictSize |-> size, mem |-> m1, holds |-> holds]
        window == WindowBefore(n)
    IN  IF end = at THEN As(dict, d.dictSize + n, m, TRUE)
        ELSE IF inDst >= KB64 THEN As(dst.start, inDst, m, TRUE)
        ELSE IF withinTmp /\ inTmp
        THEN As(0, d.dictSize + n, m, end = d.tmpOut + d.tmpOutStart)
        ELSE IF withinTmp
        THEN As(0, d.tmpOut + d.tmpOutStart + n, InFrontOfTmpOut(m, d, end), TRUE)
        ELSE LET size == IF inTmp /\ d.dictSize + n <= d.maxBufferSize THEN d.dictSize
                         ELSE Lesser(window, d.dictSize)
                 m1   == IF inTmp /\ size = d.dictSize THEN m ELSE Copied(m, 0, end - size, size)
             IN  As(0, size + n, Copied(m1, size, at, n), n < KB64)

\* Content passed on: counted, added to the checksum and to the dictionary.
Pass(d, m, at, n, withinTmp) ==
    LET u == IF d.frameInfo.linked THEN LZ4F_updateDict(d, m, at, n, withinTmp)
             ELSE [dict |-> d.dict, dictSize |-> d.dictSize, mem |-> m, holds |-> TRUE]
    IN  [d |-> [d EXCEPT !.dict = u.dict, !.dictSize = u.dictSize],
         mem |-> u.mem, holds |-> u.holds]

RemainingOnly(d, n) ==                               \* mutant
    [d EXCEPT !.frameRemainingSize = IF d.frameInfo.contentSize # 0 THEN @ - n ELSE @]
Regenerated(d, n) ==
    [d EXCEPT !.hashed = IF d.frameInfo.contentSum THEN @ + n ELSE @,
              !.frameRemainingSize = IF d.frameInfo.contentSize # 0 THEN @ - n ELSE @]

\* Of an uncompressed block, as much as there is input and room for.
ContentAt(p) ==
    LET f == stream[CHOOSE i \in DOMAIN stream : stream[i].at <= p /\ p <= EndOf(stream[i])]
    IN  IF f.k = "raw" THEN f.from + p - f.at ELSE Junk
copyDirect ==
    /\ dctx.dStage = "copyDirect"
    /\ LET n == IF dst.at = NULL THEN 0
                ELSE Lesser(dctx.tmpInTarget, Lesser(available, room))
           m == [p \in DOMAIN mem |->
                    IF p \in dst.at..(dst.at + n - 1)
                    THEN ContentAt(srcPtr + p - dst.at) ELSE mem[p]]
           u == IF dst.at = NULL THEN [d |-> dctx, mem |-> mem, holds |-> TRUE]
                ELSE Pass(Regenerated(dctx, n), m, dst.at, n, FALSE)
       IN  /\ IF n = dctx.tmpInTarget
              THEN Go(IF dctx.frameInfo.blockSum
                      THEN [Restore(u.d, 0) EXCEPT !.dStage = "getBlockChecksum"]
                      ELSE [u.d EXCEPT !.dStage = "getBlockHeader"])
              ELSE Stop([u.d EXCEPT !.tmpInTarget = @ - n],
                        dctx.tmpInTarget - n + BHSize +
                        (IF dctx.frameInfo.blockSum THEN BFSize ELSE 0))
           /\ Consume(n)
           /\ dst' = [dst EXCEPT !.at = IF @ = NULL THEN @ ELSE @ + n]
           /\ mem' = u.mem
           /\ asserts' = (asserts /\ u.holds)

GoodSum(buf, from) == LET f == Field(buf, from, BFSize) IN f.k = "bsum" /\ f.ok
getBlockChecksum ==
    /\ dctx.dStage = "getBlockChecksum"
    /\ LET n == Wanted(dctx, BFSize)
           d == Store(dctx, n)
       IN  /\ IF d.tmpInSize < BFSize THEN Stop(d, 1)
              ELSE IF GoodSum(d.stored, 0)
              THEN Go([d EXCEPT !.dStage = "getBlockHeader"])
              ELSE Fail(d, "blockChecksum_invalid")
           /\ Consume(n)
    /\ NoOutput

\* LZ4_decompress_safe_usingDict of block f to out, with maxBlockSize bytes.
Decoded(d, m, f, out) ==
    LET dictEnd  == d.dict + d.dictSize
        dictSize == IF d.dictSize > GB1 THEN KB64 ELSE d.dictSize
        need     == IF d.frameInfo.linked THEN Lesser(KB64, f.from - 1) ELSE 0
        written  == out..(out + d.maxBlockSize - 1)
        good     == /\ dictSize >= need
                    /\ \A i \in 1..need : dictEnd - i \notin written /\ m[dictEnd - i] = f.from - i
    IN  [p \in DOMAIN m |-> IF p \notin written THEN m[p]
                            ELSE IF good /\ p < out + f.n THEN f.from + p - out ELSE Junk]

Crowded(d) == d.dictSize > 3 * KB64                  \* mutant
DictTooLong(d) == d.dictSize > 2 * KB64

\* Where a block goes that has no room in dst: behind the dictionary.
MakeTmpOut(d) ==
    LET cut == d.frameInfo.linked /\ d.dict = 0 /\ DictTooLong(d)
        d1  == IF cut THEN [d EXCEPT !.dictSize = KB64] ELSE d
    IN  [d   |-> IF ~d.frameInfo.linked THEN d
                 ELSE IF d.dict = 0 THEN [d1 EXCEPT !.tmpOut = d1.dictSize]
                 ELSE [d EXCEPT !.tmpOut = Lesser(d.dictSize, KB64)],
         mem |-> IF cut THEN Copied(mem, 0, d.dictSize - KB64, KB64) ELSE mem]

\* A whole block is at hand: it is checked, and decoded to dst if that has room
\* for any block, or to tmpOut.
DecodeBlock(d0, buf) ==
    LET crcSize == IF d0.frameInfo.blockSum THEN BFSize ELSE 0
        size    == d0.tmpInTarget - crcSize
        d       == [d0 EXCEPT !.tmpInTarget = size]
        f       == Field(buf, 0, size)
        sumOk   == d.frameInfo.blockSum => GoodSum(buf, size)
        n       == f.n
        direct  == Pass(Regenerated(d, n), Decoded(d, mem, f, dst.at), dst.at, n, FALSE)
        t       == MakeTmpOut(d)
    IN  IF ~sumOk THEN Fail(d, "blockChecksum_invalid") /\ NoOutput
        ELSE IF ~(f.k = "block" /\ f.ok /\ n <= d.maxBlockSize)
        THEN Fail(d, "decompressionFailed") /\ NoOutput
        ELSE IF room >= d.maxBlockSize
        THEN /\ Go([direct.d EXCEPT !.dStage = "getBlockHeader"])
             /\ dst' = [dst EXCEPT !.at = @ + n]
             /\ mem' = direct.mem
             /\ asserts' = (asserts /\ direct.holds)
        ELSE /\ Go([Regenerated(t.d, n) EXCEPT
                       !.tmpOutSize = n, !.tmpOutStart = 0, !.dStage = "flushOut"])
             /\ mem' = Decoded(t.d, t.mem, f, t.d.tmpOut)
             /\ UNCHANGED <<dst, asserts>>

\* A compressed block is decoded from the input when it is there as a whole,
\* or from tmpIn when it has been collected.
getCBlock ==
    /\ dctx.dStage = "getCBlock"
    /\ IF available < dctx.tmpInTarget
       THEN Go([Restore(dctx, 0) EXCEPT !.dStage = "storeCBlock"]) /\ Consume(0) /\ NoOutput
       ELSE DecodeBlock(dctx, Here(dctx.tmpInTarget)) /\ Consume(dctx.tmpInTarget)

storeCBlock ==
    /\ dctx.dStage = "storeCBlock"
    /\ LET n == Wanted(dctx, dctx.tmpInTarget)
           d == Store(dctx, n)
       IN  /\ IF d.tmpInSize < d.tmpInTarget
              THEN /\ Stop(d, d.tmpInTarget - d.tmpInSize + BHSize +
                              (IF d.frameInfo.blockSum THEN BFSize ELSE 0))
                   /\ NoOutput
              ELSE DecodeBlock(d, d.stored)
           /\ Consume(n)

flushOut ==
    /\ dctx.dStage = "flushOut"
    /\ LET n == IF dst.at = NULL THEN 0 ELSE Lesser(dctx.tmpOutSize - dctx.tmpOutStart, room)
           m == Copied(mem, dst.at, dctx.tmpOut + dctx.tmpOutStart, n)
           u == IF dst.at = NULL THEN [d |-> dctx, mem |-> mem, holds |-> TRUE]
                ELSE Pass(dctx, m, dst.at, n, TRUE)
           d == [u.d EXCEPT !.tmpOutStart = @ + n]
       IN  /\ IF d.tmpOutStart = d.tmpOutSize
              THEN Go([d EXCEPT !.dStage = "getBlockHeader"])
              ELSE Stop(d, BHSize)
           /\ dst' = [dst EXCEPT !.at = IF @ = NULL THEN @ ELSE @ + n]
           /\ mem' = u.mem
           /\ asserts' = (asserts /\ u.holds)
    /\ Consume(0)

-----------------------------------------------------------------------------
(* The end of a frame, and skippable frames                                  *)

FrameDone(d) == Stop(LZ4F_resetDecompressionContext(d), 0)

SuffixIgnored(d, buf) == FrameDone(d)                \* mutant
CheckSuffix(d, buf) ==
    LET f == Field(buf, 0, BFSize)
    IN  IF f.k = "sum" /\ f.ok /\ f.n = d.hashed THEN FrameDone(d)
        ELSE Fail(d, "contentChecksum_invalid")

getSuffix ==
    /\ dctx.dStage = "getSuffix"
    /\ IF dctx.frameRemainingSize # 0 THEN Fail(dctx, "frameSize_wrong") /\ Consume(0)
       ELSE IF ~dctx.frameInfo.contentSum THEN FrameDone(dctx) /\ Consume(0)
       ELSE IF available < BFSize
       THEN Go([Restore(dctx, 0) EXCEPT !.dStage = "storeSuffix"]) /\ Consume(0)
       ELSE CheckSuffix(dctx, Here(BFSize)) /\ Consume(BFSize)
    /\ NoOutput

storeSuffix ==
    /\ dctx.dStage = "storeSuffix"
    /\ LET n == Wanted(dctx, BFSize)
           d == Store(dctx, n)
       IN  /\ IF d.tmpInSize < BFSize THEN Stop(d, BFSize - d.tmpInSize)
              ELSE CheckSuffix(d, d.stored)
           /\ Consume(n)
    /\ NoOutput

\* The last four bytes of the header of a skippable frame say how long it is.
Skippable(d, buf, from) ==
    LET is == {i \in DOMAIN stream : stream[i].k = "skip" /\
                  \A j \in 0..3 : buf[from + j] = stream[i].at + 4 + j}
    IN  IF is = {} THEN Fail(d, "misread")
        ELSE LET n == stream[CHOOSE i \in is : TRUE].n
             IN  Go([d EXCEPT !.frameInfo.contentSize = n, !.tmpInTarget = n,
                              !.dStage = "skipSkippable"])

getSFrameSize ==
    /\ dctx.dStage = "getSFrameSize"
    /\ IF available >= 4 THEN Skippable(dctx, Here(4), 0) /\ Consume(4)
       ELSE /\ Go([Restore(dctx, 0) EXCEPT !.tmpInSize = 4, !.tmpInTarget = 8,
                                           !.dStage = "storeSFrameSize"])
            /\ Consume(0)
    /\ NoOutput

storeSFrameSize ==
    /\ dctx.dStage = "storeSFrameSize"
    /\ LET n == Wanted(dctx, dctx.tmpInTarget)
           d == Store(dctx, n)
       IN  /\ IF d.tmpInSize < d.tmpInTarget THEN Stop(d, d.tmpInTarget - d.tmpInSize)
              ELSE Skippable(d, d.stored, 4)
           /\ Consume(n)
    /\ NoOutput

skipSkippable ==
    /\ dctx.dStage = "skipSkippable"
    /\ LET n == Lesser(dctx.tmpInTarget, available)
           d == [dctx EXCEPT !.tmpInTarget = @ - n]
       IN  /\ IF d.tmpInTarget > 0 THEN Stop(d, d.tmpInTarget) ELSE FrameDone(d)
           /\ Consume(n)
    /\ NoOutput

-----------------------------------------------------------------------------
\* The end of the call: what later blocks may need of a dst that will not stay
\* goes to tmpOutBuffer.
NoRoom == [start |-> NULL, at |-> NULL, end |-> NULL, stable |-> FALSE]
NoCall == srcStart' = 1 /\ srcEnd' = 1 /\ dst' = NoRoom
InBlocks == {"init", "getBlockHeader", "storeBlockHeader", "copyDirect",
             "getBlockChecksum", "getCBlock", "storeCBlock", "flushOut"}
PreserveHistory ==
    /\ pc = "preserve"
    /\ LET d    == dctx
           end  == d.dict + d.dictSize
           size == Lesser(d.dictSize, KB64)
           move == /\ d.frameInfo.linked /\ d.dict \notin {0, NULL}
                   /\ ~dst.stable /\ d.dStage \in InBlocks
       IN  IF ~move THEN UNCHANGED <<dctx, mem>>
           ELSE IF d.dStage = "flushOut"
           THEN /\ mem' = InFrontOfTmpOut(mem, d, end)
                /\ dctx' = [d EXCEPT !.dict = 0, !.dictSize = d.tmpOut + d.tmpOutStart]
           ELSE /\ mem' = Copied(mem, 0, end - size, size)
                /\ dctx' = [d EXCEPT !.dict = 0, !.dictSize = size, !.tmpOut = size]
    /\ pc' = "idle"
    /\ arena' = IF dst.stable /\ dst.at # NULL THEN dst.at ELSE arena
    /\ sent' = sent + dst.at - dst.start
    /\ NoCall
    /\ UNCHANGED <<stream, srcPtr, ret, carried, asserts>>

Stage ==
    /\ pc = "run"
    /\ \/ getFrameHeader \/ storeFrameHeader \/ init
       \/ getBlockHeader \/ storeBlockHeader
       \/ copyDirect \/ getBlockChecksum \/ getCBlock \/ storeCBlock \/ flushOut
       \/ getSuffix \/ storeSuffix
       \/ getSFrameSize \/ storeSFrameSize \/ skipSkippable
    /\ UNCHANGED <<stream, srcStart, srcEnd, arena, sent, carried>>

-----------------------------------------------------------------------------
(* The caller                                                                *)

AllJunk == [p \in 0..DstEnd |-> Junk]
failed  == ret.error # "none"
between == pc = "idle" /\ dctx.dStage = "getFrameHeader"

LZ4F_createDecompressionContext ==
    [frameInfo |-> NoFrameInfo, dStage |-> "getFrameHeader", frameRemainingSize |-> 0,
     maxBlockSize |-> 0, maxBufferSize |-> 0, tmpInCapacity |-> 0,
     stored |-> <<>>, tmpInSize |-> 0, tmpInTarget |-> 0,
     dict |-> NULL, dictSize |-> 0, tmpOut |-> 0, tmpOutSize |-> 0, tmpOutStart |-> 0,
     hashed |-> 0]

Init ==
    /\ stream \in Streams /\ srcPtr = 1 /\ srcStart = 1 /\ srcEnd = 1
    /\ dst = NoRoom
    /\ dctx = LZ4F_createDecompressionContext
    /\ mem = AllJunk
    /\ pc = "idle" /\ ret = [error |-> "none", hint |-> 1]
    /\ arena = DstAt /\ sent = 0 /\ carried = FALSE /\ asserts = TRUE

\* LZ4F_decompress of the next bytes of input, with room behind what must stay
\* or with none. A frame that follows another does so with nothing of it left.
LZ4F_decompress ==
    /\ pc = "idle" /\ ~failed
    /\ LET new  == between
           from == IF new THEN DstAt ELSE arena
       IN  \E n \in Chunks, space \in Rooms \cup {NULL}, stable \in BOOLEAN :
              /\ from + space - 1 <= DstEnd
              /\ srcEnd' = Lesser(srcPtr + n, Total + 1)
              /\ dst' = IF space = NULL
                        THEN [NoRoom EXCEPT !.stable = stable]
                        ELSE [start |-> from, at |-> from, end |-> from + space, stable |-> stable]
              /\ mem' = [p \in DOMAIN mem |-> IF new \/ p >= from THEN Junk ELSE mem[p]]
              /\ arena' = from
              /\ sent' = IF new THEN 0 ELSE sent
    /\ srcStart' = srcPtr
    /\ pc' = "run" /\ ret' = [ret EXCEPT !.hint = 1]
    /\ UNCHANGED <<stream, srcPtr, dctx, carried, asserts>>

\* LZ4F_getFrameInfo with a whole header; later it is LZ4F_decompress of nothing.
LZ4F_getFrameInfo ==
    /\ between /\ ~failed
    /\ \E n \in Chunks :
          LET left == Lesser(n, Total + 1 - srcPtr)
              f    == IF left < knowHeaderSize THEN Other ELSE Field(Here(left), 0, knowHeaderSize)
              need == IF f.k = "skip" THEN 8 ELSE f.size
          IN  /\ f # Other /\ left >= need
              /\ LZ4F_decodeHeader(dctx, Here(need), need, FALSE, 0)
    /\ mem' = AllJunk /\ arena' = DstAt /\ sent' = 0
    /\ UNCHANGED <<stream, call, carried, asserts>>

\* After an error, or to give up a frame, the context is freed and made anew,
\* or reset and used again.
StartOver ==
    /\ pc = "idle" /\ (failed \/ ~between)
    /\ dctx' \in {LZ4F_createDecompressionContext, LZ4F_resetDecompressionContext(dctx)}
    /\ carried' = (dctx'.frameRemainingSize # 0)
    /\ stream' \in Streams /\ srcPtr' = 1
    /\ ret' = [error |-> "none", hint |-> 1]
    /\ mem' = AllJunk /\ arena' = DstAt /\ sent' = 0
    /\ NoCall
    /\ UNCHANGED <<pc, asserts>>

Next == Stage \/ PreserveHistory \/ LZ4F_decompress \/ LZ4F_getFrameInfo \/ StartOver

Spec == Init /\ [][Next]_vars

-----------------------------------------------------------------------------
(* Properties                                                                *)

\* What a call gives is the content of the frame, in order and from where the
\* last call ended, however input and room are cut; in particular the
\* dictionary always holds the window that a linked block may refer to.
OutputIsContent ==
    pc # "idle" => \A p \in dst.start..(dst.at - 1) : mem[p] = sent + 1 + p - dst.start

\* No write leaves header, tmpIn or tmpOutBuffer, also when they were made for
\* another frame, and the asserts of LZ4F_updateDict hold.
BuffersFit ==
    /\ asserts
    /\ dctx.dStage \in InBlocks \ {"init"} =>
          /\ dctx.maxBlockSize + BFSize <= dctx.tmpInCapacity
          /\ dctx.tmpOut + dctx.tmpOutSize <= dctx.maxBufferSize
          /\ dctx.dStage = "flushOut" => dctx.tmpOut + dctx.maxBlockSize <= dctx.maxBufferSize
          /\ dctx.dict = 0 => dctx.dictSize <= dctx.maxBufferSize
    /\ dctx.dStage = "storeCBlock" => dctx.tmpInTarget <= dctx.tmpInCapacity
    /\ dctx.dStage \in {"storeFrameHeader", "storeSFrameSize"} => dctx.tmpInTarget <= maxFHSize

\* The hint 0 says that a frame is complete, and only then: all of it was read
\* and nothing behind it, its checksums were right and all its content given.
CompleteMeansWhole ==
    pc = "preserve" /\ ret.hint = 0 =>
        \E i \in DOMAIN stream :
            /\ EndOf(stream[i]) = srcPtr - 1 /\ stream[i].last
            /\ sent + dst.at - dst.start = stream[i].n
            /\ \A j \in 1..i : stream[j].ok

\* A call that has input and room makes progress, so a caller that goes on
\* with either reaches the end of the frame.
Progress ==
    pc = "preserve" /\ srcEnd > srcStart /\ dst.end > dst.start =>
        srcPtr > srcStart \/ dst.at > dst.start

\* A frame that is not damaged is decoded: no error but for lack of memory,
\* whatever was decoded with this context before, and also after a reset in the
\* middle of a frame. Only a frame that does not announce its size may fail,
\* and only at its end, when that reset left what a sized frame still missed.
GoodFrameAccepted ==
    failed =>
        \/ ret.error = "allocation_failed"
        \/ \E i \in DOMAIN stream : ~stream[i].ok
        \/ carried /\ ret.error = "frameSize_wrong" /\ dctx.frameInfo.contentSize = 0

\* What lz4frame.h:471-475 promises of LZ4F_resetDecompressionContext: after a
\* decoding error or to give up a frame it makes the context clean and lets the
\* next frame start from scratch, so no undamaged frame is refused.
ResetStartsClean ==
    failed => ret.error = "allocation_failed" \/ \E i \in DOMAIN stream : ~stream[i].ok
=============================================================================
