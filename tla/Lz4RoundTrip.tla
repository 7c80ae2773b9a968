------------------------------ MODULE Lz4RoundTrip ------------------------------
(***************************************************************************)
(* Lz4Compress and Lz4Decompress back to back: a caller compresses blocks, *)
(* one by one or as a stream, within the rules of lz4.h, and another       *)
(* decodes each of them from what it has decoded before.                   *)
(*                                                                         *)
(* Kinds of caller: "one" compresses separate blocks; "ring" keeps a       *)
(* stream in a ring buffer and decodes into a ring buffer of the size      *)
(* LZ4_decoderRingBufferSize asks for; "saved" reuses one input buffer,    *)
(* keeps the dictionary with LZ4_saveDict, stores a block that did not     *)
(* shrink as it is, and decodes with LZ4_decompress_safe_usingDict, as     *)
(* lz4frame.c does.                                                        *)
(***************************************************************************)
EXTENDS Lz4Compress, Lz4Decompress

CONSTANTS
    Kinds,          \* kinds of caller to explore
    Blocks(_, _),   \* Blocks(kind, n): what the n-th block may hold
    Caps(_, _),     \* Caps(kind, size): capacities given to the compressor
    MaxCalls,       \* bound: blocks of one behaviour
    MaxBlock,       \* most bytes of a block of a stream
    Dictionary,     \* content of the dictionary of "ring" and "saved"
    DictAt,         \* address of the dictionary, the compressor's side
    InputAt,        \* address of the input buffer, or of the ring
    RingEnd,        \* end of the ring on the compressor's side
    SafeAt,         \* address of safeBuffer
    DMemHi          \* highest address of the decoder's memory

\* Decoder's side: the dictionary, what is kept of the stream, the ring.
TheirDictAt == 1
KeptAt == TheirDictAt + KB64
RingAt == KeptAt + KB64 + 1

\* lz4.h:382; 14 is the longest run of literals without a length byte.
LZ4_decoderRingBufferSize == KB64 + (RUN_MASK - 1) + MaxBlock

\* LZ4_MAX_INPUT_SIZE keeps 64 KB and a block below the index limit.
ASSUME CallerAssumption ==
    /\ KB64 + MaxBlock <= IndexLimit
    /\ Kinds \subseteq {"one", "ring", "saved"}
    /\ MaxCalls \in Nat
    /\ Dictionary \in Seq(HashedBytes) /\ Len(Dictionary) <= KB64
    /\ DMemHi = RingAt + LZ4_decoderRingBufferSize + WILDCOPYLENGTH

\* The caller's buffers do not overlap and lie in its memory.
ASSUME LayoutAssumption ==
    /\ {MaxBlock, InputAt, RingEnd, DictAt, SafeAt} \subseteq Nat \ {0}
    /\ InputAt + MaxBlock <= RingEnd /\ RingEnd <= DictAt
    /\ DictAt + Len(Dictionary) <= SafeAt
    /\ SafeAt + KB64 + MaxBlock <= MemHi + 1

\* A block of a stream is never empty (lz4frame.c compresses none that is).
ASSUME BlocksAssumption ==
    \A k \in Kinds : \A n \in 1..MaxCalls : \A data \in Blocks(k, n) :
        /\ data \in Seq(HashedBytes)
        /\ InputAt + Len(data) <= MemHi + 1
        /\ k # "one" => Len(data) \in 1..MaxBlock
        /\ Caps(k, Len(data)) \subseteq Nat

VARIABLES
    kind,
    phase,      \* "caller", "filled", "compressing", "saved", "arranged", "decoding"
    calls,      \* blocks so far
    content,    \* what the stream has held since it began, dictionary first
    sent,       \* the block being compressed
    started,    \* "no", "fresh" (a stream has begun) or "used"
    covered     \* history: a block of the stream was laid over all it referred to

rvars == <<kind, phase, calls, content, sent, started, covered>>
vars == <<cvars, dvars, rvars>>

Last(s, n) == SubSeq(s, Greater(Len(s) - n, 0) + 1, Len(s))
Cells(m, p, n) == [i \in 1..n |-> m[p + i - 1]]
At(m, p, s) == [q \in DOMAIN m |-> IF q \in p..(p + Len(s) - 1) THEN s[q - p + 1] ELSE m[q]]

Init ==
    /\ kind \in Kinds
    /\ phase = "caller" /\ calls = 0
    /\ content = <<>> /\ sent = <<>> /\ started = "no" /\ covered = FALSE
    /\ InitCompress
    /\ mem = At([p \in 0..MemHi |-> 0], DictAt, Dictionary)
    /\ InitDecompress
    /\ dmem = At([p \in 0..DMemHi |-> Junk], TheirDictAt, Dictionary)

-----------------------------------------------------------------------------
(* The compressing caller.                                                 *)

Begin(how) ==
    LET dict == IF how = "reset" THEN <<>> ELSE Dictionary
    IN  /\ phase = "caller" /\ kind # "one" /\ calls < MaxCalls
        /\ started # "fresh"
        /\ BeginStream(how, DictAt, Len(Dictionary))
        /\ LZ4_setStreamDecode(TheirDictAt, Len(dict))
        /\ started' = "fresh"
        /\ content' = dict
        /\ covered' = FALSE
        /\ UNCHANGED <<kind, phase, calls, sent>>

\* Data the stream still refers to stays where it is (lz4.h:327, note 2) or,
\* in a ring, is overwritten. lz4.h:332 allows a ring of any size, so a block
\* that wraps may reach the end of that data; LZ4_compress_fast_continue
\* shortens the dictionary only when the block ends before it (lz4.c:1591).
Covers(source, n) ==
    LET s == strm.work
        end == s.dictionary + s.dictSize
    IN  s.dictSize >= MINMATCH /\ source < end /\ end <= source + n

\* lz4.h:369-374: a ring goes back to its start when a largest block might
\* not fit any more, and must when the block does not.
Sources(n) ==
    LET next == input.source + input.size
    IN  CASE kind = "one"   -> {InputAt}
          [] kind = "saved" -> {InputAt, SafeAt + strm.work.dictSize}
          [] kind = "ring"  ->
                {s \in {InputAt, next} :
                    IF s = next THEN input.size > 0 /\ next + n <= RingEnd
                    ELSE input.size = 0 \/ next + MaxBlock > RingEnd}

LayOut ==
    /\ phase = "caller" /\ calls < MaxCalls
    /\ kind # "one" => started # "no"
    /\ \E data \in Blocks(kind, calls + 1) : \E source \in Sources(Len(data)) :
          /\ Fill(source, data)
          /\ covered' = (covered \/ (kind # "one" /\ Covers(source, Len(data))))
          /\ sent' = data
    /\ phase' = "filled" /\ calls' = calls + 1
    /\ started' = "used"
    /\ UNCHANGED <<dvars, kind, content>>

Call ==
    /\ phase = "filled"
    /\ \E cap \in Caps(kind, input.size) :
          IF kind # "one" THEN LZ4_compress_fast_continue(cap)
          ELSE \/ LZ4_compress_fast_extState(cap)
               \/ LZ4_compress_fast_extState_fastReset(cap)
               \/ LZ4_compress_destSize_extState(cap)
    /\ phase' = "compressing"
    /\ UNCHANGED <<dvars, kind, calls, content, sent, started, covered>>

Compressing ==
    /\ phase = "compressing"
    /\ CompressStep
    /\ UNCHANGED <<dvars, rvars>>

Returned == phase = "compressing" /\ pc = "idle"

Save ==
    /\ Returned /\ kind = "saved"
    /\ LZ4_saveDict(SafeAt, KB64)
    /\ phase' = "saved"
    /\ UNCHANGED <<dvars, kind, calls, content, sent, started, covered>>

-----------------------------------------------------------------------------
(* The decoding caller.                                                    *)

Decoding ==
    /\ phase' = "decoding"
    /\ UNCHANGED <<cvars, kind, calls, content, sent, started, covered>>

DecodeOne ==
    /\ Returned /\ kind = "one" /\ ret.size > 0
    /\ \E size \in {ret.used, ret.used + 3, ret.used - 1} \ {-1} :
          \/ LZ4_decompress_safe(out, RingAt, size)
          \/ LZ4_decompress_safe_partial(out, RingAt, ret.used - ret.used \div 3, size)
    /\ Decoding

\* lz4.h:369-374: blocks next to each other, back to the start of the ring
\* when the remaining space is below the size of the largest block.
DecodeRing ==
    LET next == IF sd.prefixEnd < RingAt
                   \/ sd.prefixEnd + MaxBlock > RingAt + LZ4_decoderRingBufferSize
                THEN RingAt ELSE sd.prefixEnd
    IN  /\ Returned /\ kind = "ring" /\ ret.size > 0
        /\ LZ4_decompress_safe_continue(out, next, MaxBlock)
        /\ Decoding

\* The last 64 KB are moved in front of the block, or somewhere else.
Arrange ==
    /\ phase = "saved"
    /\ dmem' = At([p \in DOMAIN dmem |-> IF p < KeptAt THEN dmem[p] ELSE Junk],
                 KeptAt, Last(content, KB64))
    /\ phase' = "arranged"
    /\ UNCHANGED <<cvars, sd, block, dcall, dpc, dip, dop, length, back, dread, dhigh, dret,
                   kind, calls, content, sent, started, covered>>

DecodeSaved ==
    LET kept == Lesser(Len(content), KB64)
    IN  /\ phase = "arranged" /\ ret.size > 0
        /\ \E dst \in {KeptAt + kept, RingAt} :
              LZ4_decompress_safe_usingDict(out, dst, MaxBlock, KeptAt, kept)
        /\ Decoding

Decompressing ==
    /\ phase = "decoding"
    /\ DecompressStep
    /\ UNCHANGED <<cvars, rvars>>

Decoded ==
    /\ phase = "decoding"
    /\ ReturnDecoded
    /\ phase' = "caller"
    /\ content' = IF kind = "one" THEN content ELSE content \o sent
    /\ UNCHANGED <<cvars, kind, calls, sent, started, covered>>

\* A block that did not fit its budget: dropped, or stored as it is.
NotCompressed ==
    /\ ret.size = 0
    /\ (Returned /\ kind = "one") \/ phase = "arranged"
    /\ phase' = "caller"
    /\ content' = IF kind = "one" THEN content ELSE content \o sent
    /\ UNCHANGED <<cvars, dvars, kind, calls, sent, started, covered>>

Next ==
    \/ \E how \in {"reset", "load", "attach"} : Begin(how)
    \/ LayOut \/ Call \/ Compressing \/ Save
    \/ DecodeOne \/ DecodeRing \/ Arrange \/ DecodeSaved
    \/ Decompressing \/ Decoded \/ NotCompressed

Spec == Init /\ [][Next]_vars

-----------------------------------------------------------------------------
(* Properties.                                                             *)
(*                                                                         *)
(* A ring whose next block is laid over all the data the stream refers to  *)
(* is legal by lz4.h:332, but the stream goes on using that data: the new  *)
(* block is matched against itself in its place. What the blocks of such a *)
(* stream decode to is not claimed, until the stream begins again.         *)

\* A block decodes to the bytes that were compressed: all of them, as many
\* as were asked for, or none of them when dest is too small for a block
\* that must be decoded whole. The block may refer to any earlier one, its
\* table may hold entries of a stream that was dropped, of blocks that did
\* not fit, of data that the ring has overwritten since, or of a stream that
\* was covered before it was dropped.
RoundTrip ==
    dpc = "done" /\ ~covered =>
        LET size == IF kind = "one" THEN ret.used ELSE Len(sent)
            asked == Lesser(dcall.outputSize, size)
        IN  IF dcall.partial \/ dcall.outputSize >= size
            THEN dret = asked /\ Cells(dmem, dcall.dst, asked) = SubSeq(sent, 1, asked)
            ELSE dret < 0

\* Nothing is written past the capacity the caller gave, not even by copies
\* in strides, and nothing is read past the end of a block (lz4.h:118-121,
\* 147-149).
WithinBuffers ==
    /\ phase = "compressing" => high <= (IF call.directive = "notLimited"
                                         THEN LZ4_compressBound(call.size) ELSE call.cap)
    /\ Returned => ret.size <= (IF call.directive = "notLimited"
                                THEN LZ4_compressBound(call.size) ELSE call.cap)
    /\ phase = "decoding" => dhigh <= oend /\ dread <= dend

\* lz4.h:317: with LZ4_compressBound bytes compression succeeds.
BoundSuffices ==
    Returned /\ (call.directive = "notLimited" \/ call.cap >= LZ4_compressBound(call.size))
        => ret.size > 0

\* What the stream takes for its dictionary, when the next block is laid
\* out, is the end of what it has held; covered data is not (lz4.c:1591).
DictionaryIsHistory ==
    phase = "filled" /\ kind # "one" /\ ~covered =>
        LET s == ContinueFrom(strm.work, input.source, input.size)
            d == IF s.dictCtx THEN strm.dict ELSE s
        IN  Cells(mem, d.dictionary, d.dictSize) = Last(content, d.dictSize)

\* A block that covers the dictionary from its first byte on: lowLimit does
\* not tell a match in one from a match in the other (lz4.c:1074).
Ambiguous == maybe_extMem /\ call.source = call.dictionary

\* The assertions of LZ4_compress_generic_validated (lz4.c:963-1007, 1067,
\* 1081, 1138, 1162), which the build compiles away: a table entry is behind
\* the position looked up, one of the dictionary leaves room for a match, an
\* offset fits its two bytes, the literals that must follow a match fit. A
\* block for which lowLimit is ambiguous is left out: there they may fail.
AssertsHold ==
    ~Ambiguous =>
        /\ pc \in {"search", "testNext"} =>
              LET p == IF pc = "search" THEN search.next ELSE ip
                  index == strm.work.table[LZ4_hashPosition(p)]
              IN  /\ p + MINMATCH <= iend => index < p - base
                  /\ pc = "search" /\ call.dict = "usingExtDict" /\ index < call.startIndex
                         => call.startIndex - index >= MINMATCH
        /\ pc \in {"found", "match"} => offset \in 1..DISTANCE_MAX
        /\ pc = "match" /\ maybe_extMem /\ lowLimit = call.dictionary => match < dictEnd
        /\ pc = "testNext" /\ filling => Len(out) + 1 + LASTLITERALS <= call.cap
=============================================================================
