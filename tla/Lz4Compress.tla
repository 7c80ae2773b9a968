------------------------------ MODULE Lz4Compress ------------------------------
(***************************************************************************)
(* Block compression of firmware_src/modules/lz4stream/lib/lz4.c: the loop *)
(* of LZ4_compress_generic_validated, one action per stage, and the calls  *)
(* that reach it with each of its directives (one block, one block with a  *)
(* recycled state, as much as fits, a block of a stream, a block of a      *)
(* stream that starts from an attached dictionary).                        *)
(*                                                                         *)
(* Pointers are addresses of mem, 0 is NULL. Code that differs only in how *)
(* a position is stored is one definition: with byPtr an index is the      *)
(* address itself (base 0). The constants of the format are parameters, so *)
(* that small blocks reach every branch.                                   *)
(***************************************************************************)
EXTENDS Lz4Format

CONSTANTS
    KB4, GB1,       \* 4 KB and 1 GB, the limits under which a table is kept
    IndexLimit,     \* 0x80000000 of LZ4_renormDictT
    skipTrigger,    \* LZ4_skipTrigger
    acceleration,   \* of the match search, 1 by default
    HASH_UNIT,      \* sizeof(reg_t)
    Hash,           \* Hash[w], of a sequence w of MINMATCH bytes
    MemHi           \* highest address

HashedBytes == {w[1] : w \in DOMAIN Hash}

ASSUME CompressAssumption ==
    /\ {KB4, GB1, IndexLimit, acceleration, HASH_UNIT, MemHi} \subseteq Nat
    /\ 2^skipTrigger \in Nat \ {0}
    /\ HASH_UNIT >= MINMATCH
    /\ acceleration >= 1
    /\ IndexLimit > KB64
    /\ MemHi > DISTANCE_MAX

\* What memory holds has a hash.
ASSUME HashAssumption ==
    /\ DOMAIN Hash = [1..MINMATCH -> HashedBytes]
    /\ 0 \in HashedBytes /\ HashedBytes \subseteq 0..MaxByte

VARIABLES
    mem,        \* the memory of the caller: address -> byte
    strm,       \* strm.work, strm.dict: two LZ4_stream_t_internal
    input,      \* [source, size] of the block the caller has laid out
    call,       \* arguments of LZ4_compress_generic and what it derives
    pc,
    ip, anchor, match, lowLimit, offset, filledIp,
    search,     \* forwardIp, step and searchMatchNb of the match search
    out, token, \* what was written to dest; position of the open token
    high,       \* cells of dest written, overshoot of wild copies included
    ret         \* result and *inputConsumed of the last call

loopVars == <<ip, anchor, match, lowLimit, offset, filledIp, search, token>>
cvars == <<mem, strm, input, call, pc, loopVars, out, high, ret>>

LZ4_64Klimit  == KB64 + MFLIMIT - 1
LZ4_minLength == MFLIMIT + 1

-----------------------------------------------------------------------------
(* Reading memory.                                                         *)

Byte(p) == IF p \in DOMAIN mem THEN mem[p] ELSE -1
SameAt(p, q, n) == \A i \in 0..(n - 1) : Byte(p + i) = Byte(q + i)

\* The longest n <= max for which the n bytes at p and q agree.
LZ4_count(p, q, limit) ==
    LET max == Greater(limit - p, 0)
    IN  CHOOSE n \in 0..max :
            SameAt(p, q, n) /\ (n < max => Byte(p + n) # Byte(q + n))

\* "Catch up": how far the bytes before p and q agree, at most max.
CountBack(p, q, max) ==
    CHOOSE n \in 0..max :
        /\ SameAt(p - n, q - n, n)
        /\ n < max => Byte(p - n - 1) # Byte(q - n - 1)

LZ4_hashPosition(p) == Hash[[i \in 1..MINMATCH |-> Byte(p + i - 1)]]

-----------------------------------------------------------------------------
(* The state kept between calls.                                           *)

LZ4_initStream ==
    [table |-> [h \in {Hash[w] : w \in DOMAIN Hash} |-> 0],
     currentOffset |-> 0, tableType |-> "clearedTable",
     dictionary |-> 0, dictSize |-> 0, dictCtx |-> FALSE]

\* Entries may stay only where no index of this call can be mistaken for
\* one of an earlier call.
LZ4_prepareTable(s, inputSize, tableType) ==
    LET stale == /\ s.tableType # "clearedTable"
                 /\ \/ s.tableType # tableType
                    \/ tableType = "byU16" /\ s.currentOffset + inputSize >= KB64 - 1
                    \/ tableType = "byU32" /\ s.currentOffset > GB1
                    \/ tableType = "byPtr"
                    \/ inputSize >= KB4
        kept  == IF stale THEN LZ4_initStream ELSE s
        gap   == IF kept.currentOffset # 0 /\ tableType = "byU32" THEN KB64 ELSE 0
    IN  [kept EXCEPT !.currentOffset = @ + gap, !.dictCtx = FALSE,
                     !.dictionary = 0, !.dictSize = 0]

LZ4_renormDictT(s, nextSize) ==
    IF s.currentOffset + nextSize <= IndexLimit THEN s
    ELSE LET delta   == s.currentOffset - KB64
             dictEnd == s.dictionary + s.dictSize
             size    == Lesser(s.dictSize, KB64)
         IN  [s EXCEPT !.table = [h \in DOMAIN @ |-> IF @[h] < delta THEN 0 ELSE @[h] - delta],
                       !.currentOffset = KB64,
                       !.dictSize = size, !.dictionary = dictEnd - size]

\* Every third position is entered; a later one replaces an earlier one.
LZ4_loadDict(dictionary, dictSize) ==
    LET s    == [LZ4_initStream EXCEPT !.currentOffset = KB64]
        end  == dictionary + dictSize
        p0   == Greater(dictionary, end - KB64)
        in(h) == {k \in 0..KB64 : /\ p0 + 3 * k <= end - HASH_UNIT
                                  /\ LZ4_hashPosition(p0 + 3 * k) = h}
        last(h) == CHOOSE k \in in(h) : \A l \in in(h) : l <= k
    IN  IF dictSize < HASH_UNIT THEN s
        ELSE [s EXCEPT !.dictionary = p0, !.dictSize = end - p0, !.tableType = "byU32",
                       !.table = [h \in DOMAIN @ |->
                           IF in(h) = {} THEN 0 ELSE p0 + 3 * last(h) - (end - KB64)]]

LZ4_attach_dictionary(s, d) ==
    [s EXCEPT !.currentOffset = IF @ = 0 THEN KB64 ELSE @,
              !.dictCtx = d.dictSize # 0]

\* LZ4_compress_fast_continue, before it picks a mode.
ContinueFrom(s0, source, size) ==
    LET s    == LZ4_renormDictT(s0, size)
        end  == s.dictionary + s.dictSize
        tiny == s.dictSize \in 1..(MINMATCH - 1) /\ end # source
        s1   == IF tiny THEN [s EXCEPT !.dictSize = 0, !.dictionary = source] ELSE s
        end1 == IF tiny THEN source ELSE end
        left == Lesser(end1 - (source + size), KB64)
        kept == IF left < MINMATCH THEN 0 ELSE left
    IN  IF source + size > s1.dictionary /\ source + size < end1
        THEN [s1 EXCEPT !.dictSize = kept, !.dictionary = end1 - kept]
        ELSE s1

-----------------------------------------------------------------------------
(* One call of LZ4_compress_generic.                                       *)

base == IF call.tableType = "byPtr" THEN 0 ELSE call.source - call.startIndex
iend == call.source + call.size
mflimitPlusOne == iend - MFLIMIT + 1
matchlimit     == iend - LASTLITERALS
dictEnd  == call.dictionary + call.dictSize
dictBase == dictEnd - call.dictOffset
maybe_extMem   == call.dict \in {"usingExtDict", "usingDictCtx"}
limited  == call.directive = "limitedOutput"
filling  == call.directive = "fillOutput"

Stored(index, tableType) == IF tableType = "byU16" THEN index % KB64 ELSE index

\* The call returns; LZ4_compress_fast_continue makes a block that did not
\* follow its dictionary the next dictionary, whatever the result.
Finish(s, k, dest, used) ==
    /\ pc' = "idle"
    /\ out' = dest
    /\ ret' = [size |-> Len(dest), used |-> used]
    /\ strm' = [strm EXCEPT !.work =
           IF k.api = "continue" /\ k.dict # "withPrefix64k"
           THEN [s EXCEPT !.dictionary = k.source, !.dictSize = k.size] ELSE s]
    /\ UNCHANGED <<mem, input>>

LZ4_compress_generic(s, k) ==
    LET inCtx == k.dict = "usingDictCtx"
        d     == IF inCtx THEN strm.dict ELSE s
        ctx   == [s EXCEPT !.dictSize = (IF inCtx THEN 0 ELSE @) + k.size,
                           !.dictCtx  = @ /\ ~inCtx,
                           !.currentOffset = @ + k.size,
                           !.tableType = k.tableType]
        first == IF k.tableType = "byPtr" THEN k.source ELSE s.currentOffset
        refused == \/ k.directive = "fillOutput" /\ k.cap < 1
                   \/ k.tableType = "byU16" /\ k.size >= LZ4_64Klimit
    IN  /\ call' = [source |-> k.source, size |-> k.size, cap |-> k.cap, api |-> k.api,
                    directive |-> k.directive, tableType |-> k.tableType,
                    dict |-> k.dict, dictIssue |-> k.dictIssue,
                    startIndex |-> s.currentOffset,
                    dictionary |-> d.dictionary, dictSize |-> d.dictSize,
                    dictOffset |-> d.currentOffset]
        /\ high' = 0
        /\ IF k.size = 0
           THEN /\ Finish(s, k, IF k.directive # "notLimited" /\ k.cap <= 0
                                THEN <<>> ELSE <<0>>, 0)
                /\ UNCHANGED loopVars
           ELSE IF refused
           THEN Finish(s, k, <<>>, 0) /\ UNCHANGED loopVars
           ELSE /\ anchor' = k.source
                /\ lowLimit' = k.source - (IF k.dict = "withPrefix64k" THEN d.dictSize ELSE 0)
                /\ out' = <<>>
                /\ IF k.size < LZ4_minLength
                   THEN /\ pc' = "lastLiterals"
                        /\ strm' = [strm EXCEPT !.work = ctx]
                        /\ UNCHANGED <<ip, search>>
                   ELSE /\ pc' = "search"
                        /\ strm' = [strm EXCEPT !.work =
                              [ctx EXCEPT !.table[LZ4_hashPosition(k.source)] =
                                  Stored(first, k.tableType)]]
                        /\ ip' = k.source + 1
                        /\ search' = [next |-> k.source + 1, step |-> 1,
                                      nb |-> acceleration * 2^skipTrigger]
                /\ UNCHANGED <<mem, input, match, offset, filledIp, token, ret>>

\* The candidate the table holds for hash h, where it lies, and how far
\* back a match there may be extended.
Candidate(table, h) ==
    LET index == table[h]
        inDict == strm.dict.table[h]
    IN  IF call.dict = "usingDictCtx" /\ index < call.startIndex
        THEN [index |-> inDict + (call.startIndex - call.dictOffset),
              at |-> dictBase + inDict, low |-> call.dictionary]
        ELSE IF call.dict = "usingExtDict" /\ index < call.startIndex
        THEN [index |-> index, at |-> dictBase + index, low |-> call.dictionary]
        ELSE [index |-> index, at |-> base + index,
              low |-> IF maybe_extMem THEN call.source ELSE lowLimit]

UsableAnywhere(c, p) ==      \* mutant: entries of an older stream accepted
    (call.tableType # "byU16" => c.index + DISTANCE_MAX >= p - base) /\ SameAt(c.at, p, MINMATCH)

\* Between byU16 indexes no distance is too far: the input is too short.
Usable(c, p) ==
    /\ call.dictIssue = "dictSmall" => c.index >= call.startIndex - call.dictSize
    /\ call.tableType # "byU16" => c.index + DISTANCE_MAX >= p - base
    /\ SameAt(c.at, p, MINMATCH)

Put(p) == [strm EXCEPT !.work.table[LZ4_hashPosition(p)] = Stored(p - base, call.tableType)]

Found(c, p) ==
    /\ match' = c.at
    /\ lowLimit' = c.low
    /\ offset' = p - base - c.index

\* One turn of the loop that looks for a match.
Search ==
    LET p == search.next
        c == Candidate(strm.work.table, LZ4_hashPosition(p))
    IN  /\ pc = "search"
        /\ ip' = p
        /\ search' = [next |-> p + search.step, step |-> search.nb \div 2^skipTrigger,
                      nb |-> search.nb + 1]
        /\ IF p + search.step > mflimitPlusOne
           THEN /\ pc' = "lastLiterals"
                /\ UNCHANGED <<strm, match, lowLimit, offset, filledIp>>
           ELSE /\ strm' = Put(p)
                /\ IF Usable(c, p)
                   THEN pc' = "found" /\ Found(c, p) /\ filledIp' = p
                   ELSE pc' = "search" /\ UNCHANGED <<match, lowLimit, offset, filledIp>>
        /\ UNCHANGED <<mem, input, call, anchor, token, out, high, ret>>

LengthBytes(n) ==
    [i \in 1..(n \div MaxByte + 1) |-> IF i <= n \div MaxByte THEN MaxByte ELSE n % MaxByte]

Literals(from, n) ==
    <<Lesser(n, RUN_MASK) * (ML_MASK + 1)>>
    \o (IF n >= RUN_MASK THEN LengthBytes(n - RUN_MASK) ELSE <<>>)
    \o [i \in 1..n |-> Byte(from + i - 1)]

RoundUp(n, unit) == ((n + unit - 1) \div unit) * unit

\* LZ4_wildCopy8 writes whole strides, at least one.
WildEnd(op, n) == op + RoundUp(Greater(n, 1), WILDCOPYLENGTH)

\* "Catch up", then the literals in front of the match.
EncodeLiterals ==
    LET back == CountBack(ip, match, Greater(0, Lesser(ip - anchor, match - lowLimit)))
        n    == ip - back - anchor
        op   == Len(out) + 1
        text == out \o Literals(anchor, n)
    IN  /\ pc = "found"
        /\ ip' = ip - back
        /\ match' = match - back
        /\ IF limited /\ op + n + (2 + 1 + LASTLITERALS) + n \div MaxByte > call.cap
           THEN Finish(strm.work, call, <<>>, 0) /\ UNCHANGED <<token, high>>
           ELSE /\ IF filling /\ op + (n + MaxByte - RUN_MASK) \div MaxByte + n + 2 + 1
                                  + MFLIMIT - MINMATCH > call.cap
                   THEN pc' = "lastLiterals" /\ UNCHANGED <<out, token, high>>
                   ELSE /\ pc' = "match"
                        /\ token' = op
                        /\ out' = text
                        /\ high' = Greater(high, WildEnd(Len(text) - n, n))
                /\ UNCHANGED <<mem, strm, input, ret>>
        /\ UNCHANGED <<call, anchor, lowLimit, offset, filledIp, search>>

MatchLength ==
    LET inDict == maybe_extMem /\ lowLimit = call.dictionary
        limit  == IF inDict THEN Lesser(ip + (dictEnd - match), matchlimit) ELSE matchlimit
        n      == LZ4_count(ip + MINMATCH, match + MINMATCH, limit)
    IN  n + IF inDict /\ ip + MINMATCH + n = limit
            THEN LZ4_count(limit, call.source, matchlimit) ELSE 0

\* No room for a match and the literals that must follow it.
RewindMatch ==
    /\ pc = "match"
    /\ filling /\ Len(out) + 2 + 1 + MFLIMIT - MINMATCH > call.cap
    /\ pc' = "lastLiterals"
    /\ out' = SubSeq(out, 1, token - 1)
    /\ UNCHANGED <<mem, strm, input, call, loopVars, high, ret>>

NothingTakenOut(cut) == {}       \* mutant
\* Positions entered in the table beyond the cut of a match.
TakenOut(cut) == {LZ4_hashPosition(p) : p \in cut..filledIp}

\* _next_match: offset and length. A length that does not fit in dest ends
\* the call, or is cut when dest is to be filled; positions entered in the
\* table beyond the cut are taken out again.
EncodeMatch ==
    LET op    == Len(out) + 2
        code  == MatchLength
        long  == /\ call.directive # "notLimited"
                 /\ op + (1 + LASTLITERALS) + (code + MaxByte - ML_MASK) \div MaxByte > call.cap
        n     == IF long THEN ML_MASK - 1 + (call.cap - op - 1 - LASTLITERALS) * MaxByte ELSE code
        next  == ip + MINMATCH + n
        undone == IF long THEN TakenOut(next) ELSE {}
        \* the offset, and the length in strides of MINMATCH bytes
        written == IF n < ML_MASK \/ (long /\ limited) THEN op
                   ELSE op + MINMATCH * ((n - ML_MASK) \div (MINMATCH * MaxByte) + 1)
    IN  /\ pc = "match"
        /\ ~(filling /\ Len(out) + 2 + 1 + MFLIMIT - MINMATCH > call.cap)
        /\ IF long /\ limited
           THEN Finish(strm.work, call, <<>>, 0) /\ UNCHANGED <<ip, anchor>>
           ELSE /\ out' = [out EXCEPT ![token] = @ + Lesser(n, ML_MASK)]
                          \o <<offset % (MaxByte + 1), (offset \div (MaxByte + 1)) % (MaxByte + 1)>>
                          \o (IF n >= ML_MASK THEN LengthBytes(n - ML_MASK) ELSE <<>>)
                /\ ip' = next
                /\ anchor' = next
                /\ strm' = [strm EXCEPT !.work.table =
                                [h \in DOMAIN @ |-> IF h \in undone THEN 0 ELSE @[h]]]
                /\ pc' = IF next >= mflimitPlusOne THEN "lastLiterals" ELSE "testNext"
                /\ UNCHANGED <<mem, input, ret>>
        /\ high' = Greater(high, written)
        /\ UNCHANGED <<call, match, lowLimit, offset, filledIp, search, token>>

\* "Fill table" and "Test next position": a match right here needs no
\* literals; otherwise the search starts again behind it.
TestNext ==
    LET filled == Put(ip - 2)
        c      == Candidate(filled.work.table, LZ4_hashPosition(ip))
    IN  /\ pc = "testNext"
        /\ strm' = [filled EXCEPT !.work.table[LZ4_hashPosition(ip)] =
                        Stored(ip - base, call.tableType)]
        /\ IF Usable(c, ip)
           THEN /\ pc' = "match"
                /\ Found(c, ip)
                /\ out' = Append(out, 0)
                /\ token' = Len(out) + 1
                /\ high' = Greater(high, Len(out) + 1)
                /\ UNCHANGED <<ip, search>>
           ELSE /\ pc' = "search"
                /\ ip' = ip + 1
                /\ search' = [next |-> ip + 1, step |-> 1, nb |-> acceleration * 2^skipTrigger]
                /\ UNCHANGED <<match, lowLimit, offset, out, token, high>>
        /\ UNCHANGED <<mem, input, call, anchor, filledIp, ret>>

\* _last_literals.
LastLiterals ==
    LET run  == iend - anchor
        op   == Len(out)
        long == /\ call.directive # "notLimited"
                /\ op + run + 1 + (run + MaxByte - RUN_MASK) \div MaxByte > call.cap
        room == call.cap - op - 1
        n    == IF long THEN room - (room + MaxByte + 1 - RUN_MASK) \div (MaxByte + 1) ELSE run
    IN  /\ pc = "lastLiterals"
        /\ IF long /\ limited
           THEN Finish(strm.work, call, <<>>, 0) /\ UNCHANGED high
           ELSE /\ Finish(strm.work, call, out \o Literals(anchor, n), anchor + n - call.source)
                /\ high' = Greater(high, Len(out) + Len(Literals(anchor, n)))
        /\ UNCHANGED <<call, loopVars>>

CompressStep ==
    Search \/ EncodeLiterals \/ RewindMatch \/ EncodeMatch \/ TestNext \/ LastLiterals

-----------------------------------------------------------------------------
(* The calls of lz4.h. The caller lays a block out, then makes one.        *)

Fill(source, data) ==
    /\ pc = "idle"
    /\ mem' = [p \in DOMAIN mem |-> IF p \in source..(source + Len(data) - 1)
                                    THEN data[p - source + 1] ELSE mem[p]]
    /\ input' = [source |-> source, size |-> Len(data)]
    /\ pc' = "filled"
    /\ UNCHANGED <<strm, call, loopVars, out, high, ret>>

OneBlock(api, cap, directive, tableType, dict, dictIssue) ==
    [api |-> api, source |-> input.source, size |-> input.size, cap |-> cap,
     directive |-> directive, tableType |-> tableType, dict |-> dict, dictIssue |-> dictIssue]

\* The table a block of this size and place gets, on a 32 bit machine.
TableFor(source, size) ==
    IF size < LZ4_64Klimit THEN "byU16" ELSE IF source > DISTANCE_MAX THEN "byPtr" ELSE "byU32"

Limit(cap) == IF cap >= LZ4_compressBound(input.size) THEN "notLimited" ELSE "limitedOutput"

LZ4_compress_fast_extState(cap) ==
    /\ pc = "filled"
    /\ LZ4_compress_generic(LZ4_initStream,
           OneBlock("one", cap, Limit(cap), TableFor(input.source, input.size),
                    "noDict", "noDictIssue"))

LZ4_compress_fast_extState_fastReset(cap) ==
    LET type == TableFor(input.source, input.size)
        s    == LZ4_prepareTable(strm.work, input.size, type)
    IN  /\ pc = "filled"
        /\ LZ4_compress_generic(s, OneBlock("one", cap, Limit(cap), type, "noDict",
               IF type = "byU16" /\ s.currentOffset # 0 THEN "dictSmall" ELSE "noDictIssue"))

\* As much of the block as fits in cap bytes.
LZ4_compress_destSize_extState(cap) ==
    /\ pc = "filled"
    /\ LZ4_compress_generic(LZ4_initStream,
           OneBlock("one", cap,
                    IF cap >= LZ4_compressBound(input.size) THEN "notLimited" ELSE "fillOutput",
                    TableFor(input.source, input.size), "noDict", "noDictIssue"))

LZ4_compress_fast_continue(cap) ==
    LET s     == ContinueFrom(strm.work, input.source, input.size)
        issue == IF s.dictSize < KB64 /\ s.dictSize < s.currentOffset
                 THEN "dictSmall" ELSE "noDictIssue"
        Block(dict, i) == OneBlock("continue", cap, "limitedOutput", "byU32", dict, i)
    IN  /\ pc = "filled"
        /\ IF s.dictionary + s.dictSize = input.source
           THEN LZ4_compress_generic(s, Block("withPrefix64k", issue))
           ELSE IF ~s.dictCtx
           THEN LZ4_compress_generic(s, Block("usingExtDict", issue))
           ELSE IF input.size > KB4
           THEN LZ4_compress_generic(strm.dict, Block("usingExtDict", "noDictIssue"))
           ELSE LZ4_compress_generic(s, Block("usingDictCtx", "noDictIssue"))

\* A stream starts afresh with a table that may hold old entries, hashes a
\* dictionary into a cleared table, or attaches a stream that holds one.
BeginStream(how, dictionary, dictSize) ==
    LET fresh == LZ4_prepareTable(strm.work, 0, "byU32")       \* LZ4_resetStream_fast
        loaded == LZ4_loadDict(dictionary, dictSize)
    IN  /\ pc = "idle"
        /\ \/ how = "reset"  /\ strm' = [strm EXCEPT !.work = fresh]
           \/ how = "load"   /\ strm' = [strm EXCEPT !.work = loaded]
           \/ how = "attach" /\ strm' = [dict |-> loaded,
                                         work |-> LZ4_attach_dictionary(fresh, loaded)]
        /\ UNCHANGED <<mem, input, call, pc, loopVars, out, high, ret>>

DictStart(s, n) == s.dictionary      \* mutant: its start is kept, not its end
DictTail(s, n)  == s.dictionary + s.dictSize - n

\* The end of the dictionary moves to safeBuffer.
LZ4_saveDict(safeBuffer, dictSize) ==
    LET s == strm.work
        n == Lesser(Lesser(dictSize, KB64), s.dictSize)
        from == DictTail(s, n)
    IN  /\ pc = "idle"
        /\ mem' = [p \in DOMAIN mem |-> IF p \in safeBuffer..(safeBuffer + n - 1)
                                        THEN mem[from + p - safeBuffer] ELSE mem[p]]
        /\ strm' = [strm EXCEPT !.work.dictionary = safeBuffer, !.work.dictSize = n]
        /\ UNCHANGED <<input, call, pc, loopVars, out, high, ret>>

-----------------------------------------------------------------------------
\* A caller that has compressed nothing yet.
InitCompress ==
    /\ strm = [work |-> LZ4_initStream, dict |-> LZ4_initStream]
    /\ input = [source |-> 0, size |-> 0]
    /\ call = [dict |-> "noDict"]
    /\ pc = "idle"
    /\ ip = 0 /\ anchor = 0 /\ match = 0 /\ lowLimit = 0 /\ offset = 0 /\ filledIp = 0
    /\ search = [next |-> 0, step |-> 1, nb |-> 0]
    /\ token = 0 /\ out = <<>> /\ high = 0
    /\ ret = [size |-> 0, used |-> 0]
=============================================================================
