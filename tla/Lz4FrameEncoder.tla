---------------------------- MODULE Lz4FrameEncoder ----------------------------
(* The writing half of lz4frame.c: one compression context that makes frame   *)
(* after frame with LZ4F_compressBegin, Update, Flush and End, or whole with  *)
(* LZ4F_compressFrame, for levels below LZ4HC_CLEVEL_MIN and no dictionary.   *)
(*                                                                            *)
(* A byte of memory holds the position of a byte in the content of the frame, *)
(* or Junk. Addresses 0 .. TmpEnd - 1 are tmpBuff, the rest is the caller's,  *)
(* who overwrites its buffer between two calls unless it promised stableSrc.  *)
(* What a block compresses to is not told: written is the most a call writes. *)
EXTENDS Integers, FiniteSetsExt

CONSTANTS
    KB64, MINMATCH,     \* the window, and the shortest match, of the blocks
    blockSizes,         \* of LZ4F_getBlockSize: blockSizeID -> bytes
    DEFAULT,            \* LZ4F_BLOCKSIZEID_DEFAULT
    maxFHSize, minFHSize, BHSize, BFSize,
    Preferences,        \* the LZ4F_preferences_t that callers use
    Inputs,             \* the sizes of the buffers they give
    MaxContent,         \* bound: bytes of one frame
    MaxTotal            \* bound: totalInSize, which not every frame resets

BSIDs == DOMAIN blockSizes
MaxBlock == Max({blockSizes[id] : id \in BSIDs})
TmpEnd  == MaxBlock + 2 * KB64
SrcAt   == TmpEnd + 1
SrcEnd  == SrcAt + MaxContent
Junk    == 0

Modes == {"blockLinked", "blockIndependent"}

LZ4F_preferences_t ==
    [blockMode : Modes, blockSizeID : BSIDs \cup {0}, autoFlush : {0, 1},
     contentChecksumFlag : {0, 1}, blockChecksumFlag : {0, 1},
     contentSize : Nat, dictID : Nat]

ASSUME EncoderAssumption ==
    /\ {KB64, MINMATCH, maxFHSize, minFHSize, BHSize, BFSize, MaxContent}
          \subseteq Nat \ {0}
    /\ BSIDs \subseteq Nat \ {0} /\ IsFiniteSet(BSIDs) /\ DEFAULT \in BSIDs
    /\ blockSizes \in [BSIDs -> Nat \ {0}]
    /\ \A id \in BSIDs : blockSizes[id] >= KB64
    /\ Preferences \subseteq LZ4F_preferences_t
    /\ Inputs \subseteq 0..MaxContent /\ MaxTotal \in Nat

\* lz4frame.c:212-216: the optional fields of the header fit, and a checksum is
\* as long as the size before a block.
ASSUME SizesAssumption == minFHSize + 12 <= maxFHSize /\ BFSize <= BHSize

VARIABLES
    cctx,       \* LZ4F_cctx
    stream,     \* where the LZ4 stream finds its dictionary
    mem,
    call,       \* arguments of the call under way
    pc,         \* what it does next
    srcPtr, lastBlockCompressed,
    written,    \* dstPtr - dstStart at most
    ret,        \* result of the last call
    live,       \* history: a frame was begun and no call of it failed
    arena,      \* history: end of the buffers promised to stay
    given,      \* history: bytes of content given since LZ4F_compressBegin
    done        \* history: bytes of it in finished blocks

local  == <<call, srcPtr, lastBlockCompressed>>
caller == <<live, arena, given>>
vars   == <<cctx, stream, mem, local, pc, written, ret, caller, done>>

Lesser(a, b) == IF a < b THEN a ELSE b

-----------------------------------------------------------------------------
LZ4F_getBlockSize(id) == blockSizes[IF id = 0 THEN DEFAULT ELSE id]

LZ4F_optimalBSID(requested, srcSize) ==
    LET fits == {id \in BSIDs : id <= requested /\ srcSize <= blockSizes[id]}
    IN  IF fits = {} THEN requested ELSE Min(fits)

linked    == cctx.prefs.blockMode = "blockLinked"
autoFlush == cctx.prefs.autoFlush = 1
blockSize == cctx.maxBlockSize

NothingBuffered(alreadyBuffered, size) == 0                  \* mutant
Buffered(alreadyBuffered, size) == Lesser(alreadyBuffered, size - 1)

LZ4F_compressBound_internal(srcSize, prefs, alreadyBuffered) ==
    LET size    == LZ4F_getBlockSize(prefs.blockSizeID)
        total   == srcSize + Buffered(alreadyBuffered, size)
        full    == total \div size
        flush   == prefs.autoFlush = 1 \/ srcSize = 0
        lastOne == IF flush THEN total % size ELSE 0
        blocks  == full + (IF lastOne > 0 THEN 1 ELSE 0)
    IN  (BHSize + BFSize * prefs.blockChecksumFlag) * blocks
        + size * full + lastOne
        + BHSize + prefs.contentChecksumFlag * BFSize

LZ4F_compressFrameBound(srcSize, prefs) ==
    maxFHSize + LZ4F_compressBound_internal(srcSize, [prefs EXCEPT !.autoFlush = 1], 0)

LZ4F_compressBound(srcSize, prefs) ==
    LZ4F_compressBound_internal(srcSize, prefs,
        IF prefs.autoFlush = 1 THEN 0 ELSE LZ4F_getBlockSize(prefs.blockSizeID))

\* The frame header: magic number, FLG, BD and checksum, and optional fields.
headerSize(prefs) ==
    minFHSize + (IF prefs.contentSize # 0 THEN 8 ELSE 0)
              + (IF prefs.dictID # 0 THEN 4 ELSE 0)

requiredBuffSize(prefs) ==
    LET inLinked == prefs.blockMode = "blockLinked"
        size     == LZ4F_getBlockSize(prefs.blockSizeID)
    IN  IF prefs.autoFlush = 1 THEN (IF inLinked THEN KB64 ELSE 0)
        ELSE IF inLinked THEN size + 2 * KB64 ELSE size

-----------------------------------------------------------------------------
\* The dictionary LZ4_compress_fast_continue uses for n bytes at source: not a
\* tiny one elsewhere, and nothing of it that the source has overwritten.
DictionaryFor(s, source, n) ==
    LET end  == s.dictionary + s.dictSize
        tiny == s.dictSize \in 1..(MINMATCH - 1) /\ end # source
        left == Lesser(end - (source + n), KB64)
        kept == IF left < MINMATCH THEN 0 ELSE left
    IN  IF tiny THEN [dictionary |-> source, dictSize |-> 0]
        ELSE IF source + n > s.dictionary /\ source + n < end
        THEN [dictionary |-> end - kept, dictSize |-> kept]
        ELSE s

\* and the one it leaves: grown by a block that follows it, or that block.
DictionaryAfter(s, source, n) ==
    LET d == DictionaryFor(s, source, n)
    IN  IF d.dictionary + d.dictSize = source
        THEN [d EXCEPT !.dictSize = @ + n]
        ELSE [dictionary |-> source, dictSize |-> n]

NoDictionary == [dictionary |-> 0, dictSize |-> 0]

Copied(m, to, from, n) ==
    [p \in DOMAIN m |-> IF p \in to..(to + n - 1) THEN m[from + p - to] ELSE m[p]]

\* LZ4_saveDict to tmpBuff, after which tmpIn comes behind it.
realDictSize == Lesser(KB64, stream.dictSize)
LZ4F_localSaveDict ==
    /\ mem' = Copied(mem, 0, stream.dictionary + stream.dictSize - realDictSize, realDictSize)
    /\ stream' = [dictionary |-> 0, dictSize |-> realDictSize]
    /\ cctx' = [cctx EXCEPT !.tmpIn = realDictSize]

-----------------------------------------------------------------------------
\* A call returns; LZ4F_compressFrame goes on with its next part.
Return(result, next) ==
    /\ ret' = result
    /\ pc' = IF call.whole /\ result = "ok" THEN next ELSE "idle"
    /\ live' = (live /\ result = "ok")

LZ4F_createCompressionContext ==
    [prefs |-> [blockMode |-> "blockLinked", blockSizeID |-> 0, autoFlush |-> 0,
                contentChecksumFlag |-> 0, blockChecksumFlag |-> 0,
                contentSize |-> 0, dictID |-> 0],
     cStage |-> 0, maxBlockSize |-> 0, maxBufferSize |-> 0,
     tmpIn |-> 0, tmpInSize |-> 0, totalInSize |-> 0, xxh |-> 0, lz4Ctx |-> FALSE]

TotalKept(prefs) == FALSE                                    \* mutant
TotalReset(prefs) == prefs.contentSize # 0

\* LZ4F_compressBegin: the context gets the buffers the preferences need, the
\* stream is reset for linked blocks, and the header is written. Either
\* allocation may fail, and leaves the stage of the frame before.
LZ4F_compressBegin ==
    /\ pc = "begin"
    /\ LET p    == call.prefs
           need == requiredBuffSize(p)
           p1   == [p EXCEPT !.blockSizeID = IF @ = 0 THEN DEFAULT ELSE @]
           c1   == [cctx EXCEPT !.prefs = p1, !.lz4Ctx = TRUE,
                                !.maxBlockSize = LZ4F_getBlockSize(p.blockSizeID)]
           Fail(c) == /\ cctx' = c
                      /\ Return("allocation_failed", "idle")
                      /\ UNCHANGED <<stream, mem, written>>
       IN  \/ /\ call.cap < maxFHSize
              /\ Return("dstMaxSize_tooSmall", "idle")
              /\ UNCHANGED <<cctx, stream, mem, written>>
           \/ /\ call.cap >= maxFHSize /\ ~cctx.lz4Ctx
              /\ Fail([cctx EXCEPT !.prefs = p])
           \/ /\ call.cap >= maxFHSize /\ cctx.maxBufferSize < need
              /\ Fail([c1 EXCEPT !.maxBufferSize = 0])
           \/ /\ call.cap >= maxFHSize
              /\ cctx' = [c1 EXCEPT
                     !.maxBufferSize = IF @ < need THEN need ELSE @,
                     !.tmpIn = 0, !.tmpInSize = 0, !.xxh = 0,
                     !.totalInSize = IF TotalReset(p) THEN 0 ELSE @,
                     !.cStage = 1]
              /\ stream' = IF p.blockMode = "blockLinked"
                           THEN NoDictionary ELSE stream
              /\ mem' = IF cctx.maxBufferSize < need
                        THEN [a \in DOMAIN mem |-> IF a < TmpEnd THEN Junk ELSE mem[a]]
                        ELSE mem
              /\ written' = headerSize(p)
              /\ Return("ok", "update")
    /\ UNCHANGED <<local, arena, given, done>>

\* LZ4F_makeBlock: size, block, checksum. A block that does not get smaller is
\* stored as it is; a block on its own leaves no dictionary.
LZ4F_makeBlock(source, n) ==
    /\ stream' = IF linked THEN DictionaryAfter(stream, source, n) ELSE NoDictionary
    /\ written' = written + BHSize + n + cctx.prefs.blockChecksumFlag * BFSize
    /\ done' = done + n

\* What LZ4F_compressFrame has not used yet, or the capacity of the call.
dstCapacity == call.cap - written

-----------------------------------------------------------------------------
(* LZ4F_compressUpdate                                                       *)

TmpStart == cctx.tmpIn                      \* mutant: over what is buffered
Tmp == cctx.tmpIn + cctx.tmpInSize
srcEnd == call.src + call.size

UpdateRefused ==
    /\ pc = "update"
    /\ \/ /\ cctx.cStage # 1
          /\ Return("GENERIC", "idle")
       \/ /\ cctx.cStage = 1
          /\ dstCapacity < LZ4F_compressBound_internal(call.size, cctx.prefs, cctx.tmpInSize)
          /\ Return("dstMaxSize_tooSmall", "idle")
    /\ UNCHANGED <<cctx, stream, mem, local, written, arena, given, done>>

\* Nothing is buffered; or the input does not complete the buffered block; or
\* it does, and that block is compressed next.
CompressUpdate ==
    /\ pc = "update" /\ cctx.cStage = 1
    /\ dstCapacity >= LZ4F_compressBound_internal(call.size, cctx.prefs, cctx.tmpInSize)
    /\ LET toCopy == blockSize - cctx.tmpInSize
           n == IF cctx.tmpInSize = 0 THEN 0 ELSE Lesser(toCopy, call.size)
       IN  /\ mem' = Copied(mem, Tmp, call.src, n)
           /\ srcPtr' = call.src + n
           /\ cctx' = [cctx EXCEPT !.tmpInSize = @ + n]
           /\ pc' = IF n > 0 /\ n = toCopy THEN "complete" ELSE "blocks"
    /\ lastBlockCompressed' = "notDone"
    /\ UNCHANGED <<stream, call, written, ret, caller, done>>

CompleteTmpBlock ==
    /\ pc = "complete"
    /\ LZ4F_makeBlock(cctx.tmpIn, blockSize)
    /\ cctx' = [cctx EXCEPT !.tmpIn = IF linked THEN @ + blockSize ELSE @, !.tmpInSize = 0]
    /\ lastBlockCompressed' = "fromTmpBuffer"
    /\ pc' = "blocks"
    /\ UNCHANGED <<mem, call, srcPtr, ret, caller>>

\* Full blocks from the source, and what is left of it when nothing is kept.
SrcBlock == Lesser(blockSize, srcEnd - srcPtr)
MoreBlocks == SrcBlock = blockSize \/ (autoFlush /\ SrcBlock > 0)
CompressSrcBlock ==
    /\ pc = "blocks" /\ MoreBlocks
    /\ LZ4F_makeBlock(srcPtr, SrcBlock)
    /\ srcPtr' = srcPtr + SrcBlock
    /\ lastBlockCompressed' = "fromSrcBuffer"
    /\ UNCHANGED <<cctx, mem, call, pc, ret, caller>>

LeaveInSource == lastBlockCompressed = "fromSrcBuffer"       \* mutant: never saved
SourceStays == lastBlockCompressed = "fromSrcBuffer" /\ call.stableSrc

PreserveDictionary ==
    /\ pc = "blocks" /\ ~MoreBlocks
    /\ IF ~linked \/ lastBlockCompressed # "fromSrcBuffer"
       THEN pc' = "limits" /\ UNCHANGED <<cctx, stream, mem, ret, live>>
       ELSE IF SourceStays
       THEN /\ cctx' = [cctx EXCEPT !.tmpIn = 0]
            /\ pc' = "limits"
            /\ UNCHANGED <<stream, mem, ret, live>>
       ELSE /\ LZ4F_localSaveDict
            /\ IF realDictSize = 0 THEN Return("GENERIC", "idle")
               ELSE pc' = "limits" /\ UNCHANGED <<ret, live>>
    /\ UNCHANGED <<local, written, arena, given, done>>

\* Room for one more block behind tmpIn; flush has none to buffer.
RoomUpTo == cctx.tmpIn > cctx.maxBufferSize          \* mutant: no room for a block
OutOfRoom == cctx.tmpIn + blockSize > cctx.maxBufferSize
KeepTmpInWithinLimits(next) ==
    /\ IF OutOfRoom /\ (~autoFlush \/ pc = "flushed")
       THEN LZ4F_localSaveDict ELSE UNCHANGED <<cctx, stream, mem>>
    /\ pc' = next
    /\ UNCHANGED <<local, written, ret, caller, done>>

UpdateKeepsLimits == pc = "limits" /\ KeepTmpInWithinLimits("left")

\* The rest waits in tmpIn; the checksum covers the input.
BufferTheRest ==
    /\ pc = "left"
    /\ LET n == srcEnd - srcPtr
       IN  /\ mem' = Copied(mem, cctx.tmpIn, srcPtr, n)
           /\ cctx' = [cctx EXCEPT
                  !.tmpInSize = IF n > 0 THEN n ELSE @,
                  !.xxh = @ + call.size * cctx.prefs.contentChecksumFlag,
                  !.totalInSize = @ + call.size]
    /\ Return("ok", "flush")
    /\ UNCHANGED <<stream, local, written, arena, given, done>>

-----------------------------------------------------------------------------
(* LZ4F_flush, alone or at the start of LZ4F_compressEnd                     *)

AfterFlush == IF call.op = "flush" THEN "idle" ELSE "end"

LZ4F_flush ==
    /\ pc = "flush"
    /\ IF cctx.tmpInSize = 0 THEN pc' = AfterFlush /\ UNCHANGED <<ret, live>>
       ELSE IF cctx.cStage # 1 THEN Return("GENERIC", "idle")
       ELSE IF dstCapacity < cctx.tmpInSize + BHSize + BFSize
       THEN Return("dstMaxSize_tooSmall", "idle")
       ELSE pc' = "block" /\ UNCHANGED <<ret, live>>
    /\ UNCHANGED <<cctx, stream, mem, local, written, arena, given, done>>

FlushBlock ==
    /\ pc = "block"
    /\ LZ4F_makeBlock(cctx.tmpIn, cctx.tmpInSize)
    /\ cctx' = [cctx EXCEPT !.tmpIn = IF linked THEN Tmp ELSE @, !.tmpInSize = 0]
    /\ pc' = "flushed"
    /\ UNCHANGED <<mem, local, ret, caller>>

FlushKeepsLimits == pc = "flushed" /\ KeepTmpInWithinLimits(AfterFlush)

LZ4F_compressEnd ==
    /\ pc = "end"
    /\ LET sum  == cctx.prefs.contentChecksumFlag * BFSize
           size == cctx.prefs.contentSize
       IN  IF dstCapacity < BHSize + sum
           THEN /\ Return("dstMaxSize_tooSmall", "idle")
                /\ UNCHANGED <<cctx, written>>
           ELSE /\ written' = written + BHSize + sum
                /\ cctx' = [cctx EXCEPT !.cStage = 0, !.maxBufferSize = 0]
                /\ Return(IF size # 0 /\ size # cctx.totalInSize
                          THEN "frameSize_wrong" ELSE "ended", "idle")
    /\ UNCHANGED <<stream, mem, local, arena, given, done>>

-----------------------------------------------------------------------------
(* The caller. A buffer is placed behind those promised to stay, whose bytes *)
(* stay, and over those that were not.                                       *)

NoCall ==
    [op |-> "none", whole |-> FALSE, src |-> SrcAt, size |-> 0, cap |-> 0,
     stableSrc |-> FALSE, prefs |-> LZ4F_createCompressionContext.prefs]

Init ==
    /\ cctx = LZ4F_createCompressionContext
    /\ stream = NoDictionary
    /\ mem = [a \in 0..SrcEnd |-> Junk]
    /\ call = NoCall
    /\ pc = "idle" /\ srcPtr = SrcAt /\ lastBlockCompressed = "notDone"
    /\ written = 0 /\ ret = "ok"
    /\ live = FALSE /\ arena = SrcAt /\ given = 0 /\ done = 0

\* The next n bytes of content come behind the buffers promised to stay.
Place(n, stable) ==
    /\ mem' = [a \in DOMAIN mem |->
                 IF a \in arena..(arena + n - 1) THEN given + 1 + a - arena
                 ELSE IF a >= arena THEN Junk ELSE mem[a]]
    /\ arena' = IF stable THEN arena + n ELSE arena
    /\ given' = given + n

NewCall ==
    /\ written' = 0 /\ srcPtr' = SrcAt /\ lastBlockCompressed' = "notDone"
    /\ ret' = "ok"
    /\ UNCHANGED <<cctx, stream>>

\* A frame begins: what memory holds of earlier frames is not content of it.
Begin ==
    /\ pc = "idle" /\ ~live /\ cctx.totalInSize <= MaxTotal
    /\ \E p \in Preferences, cap \in {maxFHSize - 1, maxFHSize} :
          call' = [NoCall EXCEPT !.op = "begin", !.prefs = p, !.cap = cap]
    /\ pc' = "begin"
    /\ mem' = [a \in DOMAIN mem |-> Junk] /\ arena' = SrcAt /\ given' = 0
    /\ live' = TRUE /\ done' = 0
    /\ NewCall

\* A caller gives up a frame before its end.
Abandon ==
    /\ pc = "idle" /\ live /\ live' = FALSE
    /\ UNCHANGED <<cctx, stream, mem, local, pc, written, ret, arena, given, done>>

Update ==
    /\ pc = "idle" /\ (live \/ cctx.cStage = 0)
    /\ \E n \in Inputs, stable \in BOOLEAN :
          /\ given + n <= MaxContent
          /\ Place(n, stable)
          /\ \E cap \in
                LET bound == LZ4F_compressBound_internal(n, cctx.prefs, cctx.tmpInSize)
                IN  {bound - 1, bound} :
                call' = [NoCall EXCEPT !.op = "update", !.src = arena,
                                       !.size = n, !.stableSrc = stable, !.cap = cap]
    /\ pc' = "update"
    /\ NewCall /\ UNCHANGED <<live, done>>

FlushOrEnd ==
    /\ pc = "idle" /\ live
    /\ \E op \in {"flush", "end"} :
       \E cap \in {cctx.tmpInSize + BHSize + BFSize - 1, LZ4F_compressBound(0, cctx.prefs)} :
          call' = [NoCall EXCEPT !.op = op, !.cap = cap]
    /\ pc' = "flush"
    /\ NewCall /\ UNCHANGED <<mem, caller, done>>

\* LZ4F_compressFrame: preferences that suit the size, one update, one end.
PrefsForFrame(prefs, n) ==
    LET id == LZ4F_optimalBSID(prefs.blockSizeID, n)
    IN  [prefs EXCEPT
            !.contentSize = IF @ # 0 THEN n ELSE 0,
            !.blockSizeID = id,
            !.autoFlush = 1,
            !.blockMode = IF n <= LZ4F_getBlockSize(id) THEN "blockIndependent" ELSE @]

LZ4F_compressFrame ==
    /\ pc = "idle" /\ ~live /\ cctx.totalInSize <= MaxTotal
    /\ \E prefs \in Preferences, n \in Inputs :
          LET p     == PrefsForFrame(prefs, n)
              bound == LZ4F_compressFrameBound(n, p)
          IN  \E cap \in {bound - 1, bound} :
                 /\ call' = [op |-> "frame", whole |-> TRUE, src |-> SrcAt, size |-> n,
                               cap |-> cap, stableSrc |-> TRUE, prefs |-> p]
                 /\ pc' = IF cap < bound THEN "idle" ELSE "begin"
                 /\ mem' = [a \in DOMAIN mem |->
                               IF a \in SrcAt..(SrcAt + n - 1) THEN 1 + a - SrcAt ELSE Junk]
                 /\ arena' = SrcAt /\ given' = n
                 /\ live' = (cap >= bound)
                 /\ ret' = IF cap < bound THEN "dstMaxSize_tooSmall" ELSE "ok"
    /\ done' = 0 /\ written' = 0 /\ srcPtr' = SrcAt /\ lastBlockCompressed' = "notDone"
    /\ UNCHANGED <<cctx, stream>>

Next ==
    \/ Begin \/ Abandon \/ Update \/ FlushOrEnd \/ LZ4F_compressFrame
    \/ LZ4F_compressBegin
    \/ UpdateRefused \/ CompressUpdate \/ CompleteTmpBlock \/ CompressSrcBlock
    \/ PreserveDictionary \/ UpdateKeepsLimits \/ BufferTheRest
    \/ LZ4F_flush \/ FlushBlock \/ FlushKeepsLimits \/ LZ4F_compressEnd

Spec == Init /\ [][Next]_vars

-----------------------------------------------------------------------------
(* Properties                                                                *)

\* What the next block is made of, when one is about to be made.
Making == pc \in {"complete", "block"} \/ (pc = "blocks" /\ MoreBlocks)
NextBlock ==
    CASE pc = "complete" -> [at |-> cctx.tmpIn, size |-> blockSize]
      [] pc = "block"    -> [at |-> cctx.tmpIn, size |-> cctx.tmpInSize]
      [] OTHER           -> [at |-> srcPtr, size |-> SrcBlock]

\* Blocks hold the content, each byte once and in order, however it was cut
\* into calls, buffered, completed and flushed.
BlocksInOrder ==
    /\ Making => \A i \in 0..(NextBlock.size - 1) : mem[NextBlock.at + i] = done + 1 + i
    /\ pc = "idle" /\ live => done + cctx.tmpInSize = given

\* The dictionary a linked block is compressed with is the content before it,
\* at the place where the stream looks for it: saved before the caller
\* overwrites its buffer, and not written over by what is buffered next.
DictionaryIsContent ==
    Making /\ linked =>
        LET d == DictionaryFor(stream, NextBlock.at, NextBlock.size)
        IN  \A i \in 0..(d.dictSize - 1) : mem[d.dictionary + i] = done + 1 + i - d.dictSize

\* No copy leaves tmpBuff: between calls there is room behind tmpIn to complete
\* a block, and a dictionary that is saved fits.
TmpInFits ==
    live /\ pc # "begin" /\ cctx.cStage = 1 =>
        /\ Tmp <= cctx.maxBufferSize
        /\ pc = "idle" /\ ~autoFlush => cctx.tmpIn + blockSize <= cctx.maxBufferSize
        /\ cctx.tmpInSize < blockSize \/ pc = "complete"

\* A call writes no more than it was allowed to, and the capacity the header
\* file asks for is always enough (lz4frame.h, LZ4F_compressBound: "dstCapacity
\* ... to handle worst case situations"; with srcSize 0, for flush and end).
CapacityIsEnough ==
    /\ written <= call.cap
    /\ pc = "idle" /\ ret = "dstMaxSize_tooSmall" =>
          CASE call.op = "begin"  -> call.cap < maxFHSize
            [] call.op = "update" -> call.cap < LZ4F_compressBound(call.size, cctx.prefs)
            [] call.op = "frame"  -> call.cap < LZ4F_compressFrameBound(call.size, call.prefs)
            [] OTHER              -> call.cap < LZ4F_compressBound(0, cctx.prefs)

\* A frame that ended holds all content that was given; its checksum covers
\* it, and the size its header announces is right, or the call said so.
EndedFrameIsWhole ==
    pc = "idle" /\ ret \in {"ended", "frameSize_wrong"} /\ given > 0 =>
        /\ done = given /\ cctx.tmpInSize = 0
        /\ cctx.prefs.contentChecksumFlag = 1 => cctx.xxh = given
        /\ (ret = "ended") <=> (cctx.prefs.contentSize \in {0, given})
=============================================================================
