--------------------------- MODULE Lz4RoundTripProofs ---------------------------
(* Theorems about Lz4RoundTrip: for blocks of any size and content, any hash    *)
(* function, any table left behind by earlier calls.                            *)
EXTENDS Lz4RoundTrip, WellFoundedInduction, TLAPS

\* The block format as lz4.c has it; lz4.h lets a build lower LZ4_DISTANCE_MAX.
FormatOfLz4 ==
    /\ MINMATCH = 4 /\ LASTLITERALS = 5 /\ MFLIMIT = 12 /\ WILDCOPYLENGTH = 8
    /\ RUN_MASK = 15 /\ ML_MASK = 15 /\ MaxByte = 255 /\ BoundMargin = 16
    /\ DISTANCE_MAX \in Nat /\ DISTANCE_MAX >= MFLIMIT /\ DISTANCE_MAX <= 65535

-----------------------------------------------------------------------------
(* The types of the compressor's state, and where it lies in memory.          *)

HashValues == {Hash[w] : w \in DOMAIN Hash}

Directives == {"notLimited", "limitedOutput", "fillOutput"}
TableTypes == {"byU16", "byU32", "byPtr"}
DictModes  == {"noDict", "withPrefix64k", "usingExtDict", "usingDictCtx"}

StreamType ==
    [table : [HashValues -> Nat], currentOffset : Nat,
     tableType : TableTypes \cup {"clearedTable"},
     dictionary : Nat, dictSize : Nat, dictCtx : BOOLEAN]

CallType ==
    [source : Nat, size : Nat, cap : Nat, api : {"one", "continue"},
     directive : Directives, tableType : TableTypes, dict : DictModes,
     dictIssue : {"dictSmall", "noDictIssue"},
     startIndex : Nat, dictionary : Nat, dictSize : Nat, dictOffset : Nat]

SearchType == [next : Nat, step : Nat \ {0}, nb : Nat]

InMemory(s) == s.dictionary + s.dictSize <= MemHi + 1

Stages == {"search", "found", "match", "testNext", "lastLiterals"}
Phases == {"caller", "filled", "compressing", "saved", "arranged", "decoding"}

PhaseInv ==
    /\ kind \in Kinds /\ phase \in Phases /\ calls \in Nat
    /\ pc \in Stages \cup {"idle", "filled"}
    /\ pc = "filled" <=> phase = "filled"
    /\ pc \in Stages => phase = "compressing"
    /\ dpc \in {"idle", "token", "match", "done"}
    /\ dpc = "idle" <=> phase # "decoding"
    /\ phase \in {"saved", "arranged"} => kind = "saved"

MemoryInv ==
    /\ mem \in [0..MemHi -> HashedBytes]
    /\ strm \in [work : StreamType, dict : StreamType]
    /\ InMemory(strm.dict)
    /\ InMemory(strm.work) \/ (pc \in Stages /\ call.api = "continue"
                                              /\ call.dict # "withPrefix64k")
    /\ input \in [source : Nat, size : Nat]
    /\ phase = "filled" =>
          /\ input.source >= 1 /\ input.source + input.size <= MemHi + 1
          /\ Caps(kind, input.size) \subseteq Nat
    /\ kind = "saved" /\ phase # "compressing" => strm.work.dictSize <= KB64

CallInv ==
    /\ ret \in [size : Nat, used : Nat]
    /\ phase = "compressing" =>
        /\ call \in CallType
        /\ call.source >= 1 /\ iend <= MemHi + 1
        /\ pc \in Stages /\ call.directive = "fillOutput" => call.cap >= 1
        /\ call.dictionary + call.dictSize <= MemHi + 1

\* Where the cursors of the loop are at each of its stages.
CursorInv ==
    /\ filledIp \in Int
    /\ pc \in Stages =>
        /\ anchor \in call.source..iend
        /\ lowLimit \in Int
        /\ pc = "search" =>
              /\ search \in SearchType /\ search.nb >= 2^skipTrigger
              /\ search.next > anchor /\ search.next <= mflimitPlusOne
        /\ pc \in {"found", "match"} =>
              /\ match \in Int /\ offset \in Int
              /\ ~Ambiguous => offset \in 1..DISTANCE_MAX
        /\ pc = "found" => ip > anchor /\ filledIp = ip
        /\ pc = "testNext" => ip = anchor /\ ip >= call.source + MINMATCH
        /\ pc \in {"found", "match", "testNext"} =>
              ip \in anchor..(iend - MFLIMIT) /\ filledIp <= iend - MFLIMIT

-----------------------------------------------------------------------------
(* What has been written, and how far: Grows(n) bytes hold n that were        *)
(* encoded as whole sequences.                                                *)

Grows(n) == n + n \div MaxByte

Room == IF call.directive = "notLimited" THEN LZ4_compressBound(call.size) ELSE call.cap

\* The literals that must follow a match fit.
FillInv(n, limit) == limit => n = 0 \/ n + 1 + LASTLITERALS <= call.cap

SizeInv ==
    phase = "compressing" =>
        /\ out \in Seq(0..MaxByte)
        /\ high \in Nat /\ high <= Room
        /\ pc \in {"search", "found", "testNext", "lastLiterals"} =>
              /\ Len(out) <= Grows(anchor - call.source)
              /\ FillInv(Len(out), filling \/ limited)
        /\ pc = "testNext" => Len(out) > 0
        /\ pc = "match" =>
              /\ token \in 1..Len(out)
              /\ out[token] % (ML_MASK + 1) = 0
              /\ Len(out) <= Grows(ip - call.source) + 2
              /\ token - 1 <= Grows(anchor - call.source)
              /\ FillInv(token - 1, filling \/ limited)
              /\ limited => Len(out) + LASTLITERALS <= call.cap

-----------------------------------------------------------------------------
(* The hash table: every entry is the index of a position passed already,     *)
(* and an entry of earlier data leaves room for a match.                      *)

Aged(s) ==
    /\ s.tableType # "byPtr" =>
          \A h \in HashValues : s.table[h] = 0 \/ s.table[h] + MINMATCH <= s.currentOffset
    /\ s.tableType = "clearedTable" => \A h \in HashValues : s.table[h] = 0

\* A stream of the caller: indexes grow with the data it has seen.
StreamAged(s) ==
    /\ s.dictSize <= s.currentOffset
    /\ s.currentOffset \in 1..(MINMATCH - 1) => s.dictSize > 0
    /\ s.tableType \in {"clearedTable", "byU32"}

\* A stream that holds the dictionary.
DictLoaded(s) ==
    /\ s.currentOffset = KB64
    /\ s.dictSize > 0 /\ s.dictSize <= KB64
    /\ s.dictionary >= DictAt /\ s.dictionary + s.dictSize = DictAt + Len(Dictionary)
    /\ s.tableType = "byU32" /\ ~s.dictCtx

TablesInv ==
    /\ pc \notin Stages => Aged(strm.work)
    /\ Aged(strm.dict)
    /\ kind # "one" /\ pc \notin Stages => StreamAged(strm.work)
    /\ kind = "one" /\ pc \notin Stages /\ strm.work.tableType = "clearedTable" =>
          strm.work.currentOffset = 0
    /\ strm.work.dictCtx => /\ kind # "one" /\ DictLoaded(strm.dict)
                            /\ strm.work.currentOffset >= KB64

\* The block to be compressed does not lie where the dictionary of the
\* caller does.
SourceInv ==
    phase = "filled" /\ kind # "one" =>
        /\ input.size >= 1 /\ input.size <= MaxBlock
        /\ input.source + input.size <= DictAt \/ input.source >= DictAt + Len(Dictionary)

\* The index of the block's first byte.
First == call.source - base

InDict == maybe_extMem /\ lowLimit = call.dictionary

\* No position beyond this one is ever entered in the table.
Highest == Greater(call.source - 1, iend - MFLIMIT)

\* The last position that was entered in the table, unless lowLimit is
\* ambiguous: a match cut short may then leave later ones in it.
Newest ==
    CASE pc = "search"       -> search.next - 1
      [] pc = "found"        -> ip
      [] pc = "match"        -> Greater(ip, filledIp)
      [] pc = "testNext"     -> ip - 1
      [] pc = "lastLiterals" -> Highest

\* The only thing left to do with a match that does not fit.
MustRewind == filling /\ Len(out) + 2 + 1 + MFLIMIT - MINMATCH > call.cap

\* The table while newest is the last position entered in it.
Tabled(table, newest) ==
    \A h \in HashValues :
        /\ table[h] = 0 \/ table[h] <= newest - base
        /\ table[h] < First => table[h] = 0 \/ (table[h] + MINMATCH <= First
                                               /\ table[h] + MINMATCH <= call.startIndex)
        /\ table[h] > First => LZ4_hashPosition(table[h] + base) = h

\* What the mode of a call says of where its indexes start.
ModeFacts ==
    /\ call.tableType # "byU32" => call.dict = "noDict"
    /\ call.tableType = "byU16" => call.startIndex + call.size < LZ4_64Klimit
    /\ call.dict = "usingExtDict" =>
          /\ call.dictOffset = call.startIndex
          /\ call.startIndex = 0 \/ call.startIndex >= MINMATCH
    /\ call.dict = "usingDictCtx" =>
          /\ DictLoaded(strm.dict)
          /\ call.dictOffset = strm.dict.currentOffset
          /\ call.startIndex >= call.dictOffset

IndexInv ==
    pc \in Stages =>
        /\ strm.work.currentOffset = call.startIndex + call.size
        /\ strm.work.tableType = call.tableType
        /\ ModeFacts
        /\ Tabled(strm.work.table, Highest)
        /\ ~Ambiguous => Tabled(strm.work.table, Newest)
        /\ kind # "one" =>
              /\ strm.work.dictSize <= strm.work.currentOffset
              /\ call.api = "continue" /\ call.size >= 1
              /\ call.tableType = "byU32"
              /\ call.dict = "withPrefix64k" => strm.work.dictSize >= call.size

\* Bytes known to be equal at a match.
Agreed == MINMATCH + IF pc = "match" /\ ~Ambiguous THEN Greater(filledIp - ip, 0) ELSE 0

MatchInv ==
    /\ pc = "found" \/ (pc = "match" /\ ~MustRewind) =>
          /\ SameAt(match, ip, Agreed)
          /\ ~Ambiguous /\ InDict => match + Agreed <= dictEnd
    /\ pc = "match" /\ ~Ambiguous /\ InDict => match < dictEnd
    /\ pc = "testNext" /\ ~Ambiguous =>
          filledIp < ip \/ (filling /\ Len(out) + MFLIMIT > call.cap)

\* What a call has returned, until the caller is done with it.
ReturnInv ==
    pc = "idle" /\ phase \in {"compressing", "saved", "arranged"} =>
        /\ out \in Seq(0..MaxByte) /\ ret \in [size : Nat, used : Nat]
        /\ ret.size = Len(out) /\ Len(out) <= Room
        /\ Room >= LZ4_compressBound(call.size) => Len(out) > 0

-----------------------------------------------------------------------------
(* The decoder: where it is in the block and in dest.                         *)

DecodeInv ==
    /\ sd \in [prefixSize : Int, prefixEnd : Int, externalDict : Int, extDictSize : Int]
    /\ dret \in Int
    /\ phase = "decoding" =>
          /\ block \in Seq(0..MaxByte) /\ Len(block) > 0
          /\ dcall.dst \in Int /\ dcall.outputSize \in Nat /\ dcall.partial \in BOOLEAN
          /\ dread \in Int /\ dread <= dend
          /\ dhigh \in Int /\ dhigh <= oend
    /\ dpc \in {"token", "match"} =>
          /\ dip \in 0..(dend - 1)
          /\ dop \in dcall.dst..oend
    /\ dpc = "match" =>
          /\ length \in 0..ML_MASK
          /\ ~dcall.partial => dop <= oend - MFLIMIT
-----------------------------------------------------------------------------
(* Counting equal bytes.                                                      *)

\* A set of naturals that is not empty has a least element.
LEMMA LeastNatural ==
    ASSUME NEW T, T \subseteq Nat, T # {}
    PROVE  \E m \in T : \A k \in T : m <= k
<1>1. IsWellFoundedOn(OpToRel(<, Nat), Nat)
  BY NatLessThanWellFounded
<1>2. PICK m \in T : \A k \in T : ~(<<k, m>> \in OpToRel(<, Nat))
  BY <1>1, WFMin
<1>3. \A k \in T : ~(k < m)
  BY <1>2 DEF OpToRel
<1> QED BY <1>3

\* Of the numbers below max, the longest run from 0 that lies in E.
LEMMA LongestRun ==
    ASSUME NEW max \in Nat, NEW E
    PROVE  \E n \in 0..max : (\A i \in 0..(n - 1) : i \in E) /\ (n < max => n \notin E)
<1> DEFINE Out == {n \in 0..(max - 1) : n \notin E}
<1>1. CASE Out = {}
  <2>1. \A i \in 0..(max - 1) : i \in E
    BY <1>1
  <2> QED BY <2>1
<1>2. CASE Out # {}
  <2>0. Out \subseteq Nat
    OBVIOUS
  <2> HIDE DEF Out
  <2>1. PICK n \in Out : \A k \in Out : n <= k
    BY <1>2, <2>0, LeastNatural
  <2> USE DEF Out
  <2>2. n \in 0..(max - 1) /\ n \notin E
    BY <2>1
  <2>3. \A i \in 0..(n - 1) : i \in E
    BY <2>1, <2>2
  <2> QED BY <2>2, <2>3
<1> QED BY <1>1, <1>2

\* LZ4_count stops at the first difference, or at the limit.
LEMMA CountIs ==
    ASSUME NEW p \in Int, NEW q \in Int, NEW limit \in Int,
           NEW n, n = LZ4_count(p, q, limit)
    PROVE  /\ n \in Nat /\ n <= Greater(limit - p, 0)
           /\ SameAt(p, q, n)
           /\ n < limit - p => Byte(p + n) # Byte(q + n)
<1> DEFINE max == Greater(limit - p, 0)
           E == {i \in Nat : Byte(p + i) = Byte(q + i)}
           Good(k) == SameAt(p, q, k) /\ (k < max => Byte(p + k) # Byte(q + k))
<1>1. max \in Nat
  BY DEF Greater
<1>2. PICK k \in 0..max : (\A i \in 0..(k - 1) : i \in E) /\ (k < max => k \notin E)
  BY <1>1, LongestRun
<1>3. Good(k)
  BY <1>1, <1>2 DEF SameAt
<1>4. n = CHOOSE j \in 0..max : Good(j)
  BY DEF LZ4_count
<1> HIDE DEF Good
<1>5. n \in 0..max /\ Good(n)
  BY <1>2, <1>3, <1>4
<1> QED BY <1>1, <1>5 DEF Good, Greater

\* "Catch up" goes back over equal bytes only.
LEMMA CountBackIs ==
    ASSUME NEW p \in Int, NEW q \in Int, NEW max \in Nat, NEW n, n = CountBack(p, q, max)
    PROVE  n \in 0..max /\ SameAt(p - n, q - n, n)
<1> DEFINE E == {i \in Nat : Byte(p - i - 1) = Byte(q - i - 1)}
           Good(k) == /\ SameAt(p - k, q - k, k)
                      /\ k < max => Byte(p - k - 1) # Byte(q - k - 1)
<1>1. PICK k \in 0..max : (\A i \in 0..(k - 1) : i \in E) /\ (k < max => k \notin E)
  BY LongestRun
<1>2. SameAt(p - k, q - k, k)
  <2> SUFFICES ASSUME NEW i \in 0..(k - 1) PROVE Byte(p - k + i) = Byte(q - k + i)
    BY DEF SameAt
  <2>1. k \in Int /\ i \in Int
    BY <1>1
  <2>2. k - 1 - i \in 0..(k - 1)
    BY <2>1
  <2>3. k - 1 - i \in E
    BY <1>1, <2>2
  <2>4. p - (k - 1 - i) - 1 = p - k + i /\ q - (k - 1 - i) - 1 = q - k + i
    BY <2>1
  <2> QED BY <2>3, <2>4
<1>3. Good(k)
  BY <1>1, <1>2
<1>4. n = CHOOSE j \in 0..max : Good(j)
  BY DEF CountBack
<1> HIDE DEF Good
<1>5. n \in 0..max /\ Good(n)
  BY <1>1, <1>3, <1>4
<1> QED BY <1>5 DEF Good

\* A count does not stop among bytes that are known to agree.
LEMMA CountAtLeast ==
    ASSUME NEW p \in Int, NEW q \in Int, NEW limit \in Int, NEW k \in Int,
           SameAt(p, q, k) \/ SameAt(q, p, k), p + k <= limit
    PROVE  LZ4_count(p, q, limit) >= k
<1> DEFINE n == LZ4_count(p, q, limit)
<1>1. n \in Nat /\ (n < limit - p => Byte(p + n) # Byte(q + n))
  BY CountIs
<1> HIDE DEF n
<1>2. n < k => n \in 0..(k - 1) /\ n < limit - p
  BY <1>1
<1>3. ~(n < k)
  BY <1>1, <1>2 DEF SameAt
<1> QED BY <1>1, <1>3 DEF n

-----------------------------------------------------------------------------
(* What is written to dest.                                                   *)

LEMMA FormatFacts ==
    ASSUME FormatOfLz4
    PROVE  /\ KB64 \in Nat /\ KB64 = DISTANCE_MAX + 1 /\ KB64 >= 13 /\ KB64 <= 65536
           /\ LZ4_64Klimit = KB64 + 11 /\ LZ4_minLength = 13
BY DEF FormatOfLz4, KB64, LZ4_64Klimit, LZ4_minLength

LEMMA MemoryTop == MemHi \in Nat
BY CompressAssumption

\* The step of the search never drops to zero.
LEMMA StepIs ==
    ASSUME NEW nb \in Nat, NEW k \in Nat \ {0}, nb >= k
    PROVE  nb \div k \in Nat /\ nb \div k >= 1
OBVIOUS

\* The bytes that carry what a length exceeds the mask of the token by.
Extra(n) == IF n >= 15 THEN (n - 15) \div 255 + 1 ELSE 0

LEMMA ExtraIs ==
    ASSUME NEW n \in Nat
    PROVE  /\ Extra(n) \in Nat /\ Extra(n) <= n
           /\ Extra(n) <= n \div 255 + 1
           /\ Extra(n) <= (n + 240) \div 255
           /\ n < 15 => Extra(n) = 0
BY DEF Extra

LEMMA LengthBytesAre ==
    ASSUME FormatOfLz4, NEW n \in Nat
    PROVE  LengthBytes(n) \in Seq(0..MaxByte) /\ Len(LengthBytes(n)) = n \div 255 + 1
<1> DEFINE m == n \div 255 + 1
<1>1. m \in Nat /\ n % 255 \in Nat /\ n % 255 <= 254
  OBVIOUS
<1>2. LengthBytes(n) = [i \in 1..m |-> IF i <= n \div 255 THEN 255 ELSE n % 255]
  BY DEF LengthBytes, FormatOfLz4
<1> HIDE DEF m
<1>3. MaxByte = 255
  BY DEF FormatOfLz4
<1> QED BY <1>1, <1>2, <1>3 DEF m

LEMMA LengthPart ==
    ASSUME FormatOfLz4, NEW n \in Nat
    PROVE  LET s == IF n >= RUN_MASK THEN LengthBytes(n - RUN_MASK) ELSE <<>>
           IN  s \in Seq(0..MaxByte) /\ Len(s) = Extra(n)
<1>1. CASE n >= 15
  <2>1. n - 15 \in Nat
    BY <1>1
  <2>2. LengthBytes(n - 15) \in Seq(0..MaxByte) /\ Len(LengthBytes(n - 15)) = (n - 15) \div 255 + 1
    BY <2>1, LengthBytesAre
  <2>3. RUN_MASK = 15
    BY DEF FormatOfLz4
  <2> QED BY <1>1, <2>2, <2>3 DEF Extra
<1>2. CASE ~(n >= 15)
  BY <1>2 DEF FormatOfLz4, Extra
<1> QED BY <1>1, <1>2

\* A token, the rest of the length of n literals, and these.
LEMMA LiteralsAre ==
    ASSUME FormatOfLz4, mem \in [0..MemHi -> HashedBytes],
           NEW from \in Nat, NEW n \in Nat, from + n <= MemHi + 1
    PROVE  /\ Literals(from, n) \in Seq(0..MaxByte)
           /\ Len(Literals(from, n)) = 1 + Extra(n) + n
           /\ Literals(from, n)[1] \in 0..MaxByte /\ Literals(from, n)[1] % 16 = 0
<1> DEFINE first == Lesser(n, RUN_MASK) * (ML_MASK + 1)
           more  == IF n >= RUN_MASK THEN LengthBytes(n - RUN_MASK) ELSE <<>>
           text  == [i \in 1..n |-> Byte(from + i - 1)]
<1>1. first \in 0..MaxByte /\ first % 16 = 0
  BY DEF FormatOfLz4, Lesser
<1>2. more \in Seq(0..MaxByte) /\ Len(more) = Extra(n)
  BY LengthPart
<1>3. text \in Seq(0..MaxByte) /\ Len(text) = n
  <2>1. ASSUME NEW i \in 1..n PROVE Byte(from + i - 1) \in 0..MaxByte
    <3>1. from + i - 1 \in 0..MemHi
      BY CompressAssumption
    <3>2. mem[from + i - 1] \in HashedBytes /\ from + i - 1 \in DOMAIN mem
      BY <3>1
    <3>3. HashedBytes \subseteq 0..MaxByte
      BY HashAssumption
    <3> QED BY <3>2, <3>3 DEF Byte
  <2> QED BY <2>1
<1>4. Literals(from, n) = <<first>> \o more \o text
  BY DEF Literals
<1> HIDE DEF first, more, text
<1>0. Extra(n) \in Nat
  BY ExtraIs
<1>5. <<first>> \o more \in Seq(0..MaxByte) /\ Len(<<first>> \o more) = 1 + Extra(n)
      /\ (<<first>> \o more)[1] = first
  BY <1>0, <1>1, <1>2
<1> DEFINE front == <<first>> \o more
<1> HIDE DEF front
<1>6. front \in Seq(0..MaxByte) /\ Len(front) = 1 + Extra(n) /\ front[1] = first
  BY <1>5 DEF front
<1>7. Literals(from, n) = front \o text
  BY <1>4 DEF front
<1>8. Len(front) \in Nat /\ 1 \in 1..Len(front)
  BY <1>0, <1>6
<1>9. /\ front \o text \in Seq(0..MaxByte) /\ Len(front \o text) = Len(front) + Len(text)
      /\ (front \o text)[1] = front[1]
  <2>1. front \in Seq(0..MaxByte) /\ text \in Seq(0..MaxByte) /\ 1 \in 1..Len(front)
    BY <1>3, <1>6, <1>8
  <2> QED BY ONLY <2>1
<1> QED BY <1>0, <1>1, <1>3, <1>6, <1>7, <1>9

\* Every position of a block has a hash.
LEMMA HashOfPosition ==
    ASSUME mem \in [0..MemHi -> HashedBytes], NEW p \in Nat, p + MINMATCH <= MemHi + 1
    PROVE  LZ4_hashPosition(p) \in HashValues
<1> DEFINE w == [i \in 1..MINMATCH |-> Byte(p + i - 1)]
<1>1. ASSUME NEW i \in 1..MINMATCH PROVE Byte(p + i - 1) \in HashedBytes
  <2>1. p + i - 1 \in 0..MemHi
    <3>1. MINMATCH \in Nat /\ MemHi \in Nat
      BY CompressAssumption, FormatAssumption
    <3> QED BY <3>1
  <2> QED BY <2>1 DEF Byte
<1>2. w \in [1..MINMATCH -> HashedBytes]
  BY <1>1
<1> QED BY <1>2, HashAssumption DEF LZ4_hashPosition, HashValues

\* A copy in strides ends less than one stride behind what it copies, or is one.
LEMMA StrideEnds ==
    ASSUME FormatOfLz4, NEW op \in Int, NEW n \in Nat
    PROVE  /\ WildEnd(op, n) \in Int /\ WildEnd(op, n) <= op + Greater(n + 7, 8)
           /\ Strides(op, n) \in Int /\ Strides(op, n) <= op + Greater(n + 7, 8)
           /\ WildEnd(op, n) >= op /\ Strides(op, n) >= op + n
BY DEF WildEnd, Strides, RoundUp, Greater, FormatOfLz4

-----------------------------------------------------------------------------
(* The loop of LZ4_compress_generic: what its stages have in common.          *)

CompressorInv ==
    /\ PhaseInv /\ MemoryInv /\ CallInv /\ CursorInv /\ SizeInv
    /\ TablesInv /\ SourceInv /\ IndexInv /\ MatchInv
    /\ ReturnInv

LEMMA CallFields ==
    ASSUME call \in CallType
    PROVE  /\ call.source \in Nat /\ call.size \in Nat /\ call.cap \in Nat
           /\ call.directive \in Directives /\ call.tableType \in TableTypes
           /\ call.dict \in DictModes /\ call.api \in {"one", "continue"}
           /\ call.startIndex \in Nat /\ call.dictionary \in Nat
           /\ call.dictSize \in Nat /\ call.dictOffset \in Nat
BY DEF CallType

\* The names the loop gives to the bounds of its block.
LEMMA BlockBounds ==
    ASSUME FormatOfLz4, call \in CallType
    PROVE  /\ iend = call.source + call.size /\ iend \in Nat
           /\ mflimitPlusOne = iend - 11 /\ matchlimit = iend - 5
           /\ dictEnd = call.dictionary + call.dictSize /\ dictEnd \in Nat
           /\ dictBase = dictEnd - call.dictOffset /\ dictBase \in Int
           /\ base \in Int /\ First \in Nat /\ base + First = call.source
           /\ call.tableType = "byPtr" => base = 0 /\ First = call.source
           /\ call.tableType # "byPtr" => First = call.startIndex
BY CallFields DEF iend, mflimitPlusOne, matchlimit, dictEnd, dictBase, base, First, FormatOfLz4

LEMMA SameCall ==
    ASSUME call' = call
    PROVE  /\ base' = base /\ iend' = iend /\ mflimitPlusOne' = mflimitPlusOne
           /\ matchlimit' = matchlimit /\ dictEnd' = dictEnd /\ dictBase' = dictBase
           /\ maybe_extMem' = maybe_extMem /\ limited' = limited /\ filling' = filling
           /\ Room' = Room /\ First' = First /\ Highest' = Highest
           /\ (Ambiguous' <=> Ambiguous)
BY DEF base, iend, mflimitPlusOne, matchlimit, dictEnd, dictBase, maybe_extMem, limited,
       filling, Room, First, Highest, Ambiguous

LEMMA HighestIs ==
    ASSUME FormatOfLz4, call \in CallType
    PROVE  /\ Highest \in Int /\ Highest >= call.source - 1 /\ Highest >= iend - 12
           /\ Highest = call.source - 1 \/ Highest = iend - 12
BY CallFields, BlockBounds DEF Highest, Greater, FormatOfLz4

LEMMA StreamFields ==
    ASSUME NEW s \in StreamType
    PROVE  /\ s.table \in [HashValues -> Nat] /\ s.currentOffset \in Nat
           /\ s.tableType \in TableTypes \cup {"clearedTable"}
           /\ s.dictionary \in Nat /\ s.dictSize \in Nat /\ s.dictCtx \in BOOLEAN
BY DEF StreamType

\* What a table may hold when p is looked up.
Behind(table, p) ==
    \A h \in HashValues :
        /\ table[h] = 0 \/ table[h] < p - base
        /\ table[h] < First => table[h] = 0 \/ (table[h] + MINMATCH <= First
                                               /\ table[h] + MINMATCH <= call.startIndex)

LEMMA TabledIsBehind ==
    ASSUME FormatOfLz4, call \in CallType,
           NEW table \in [HashValues -> Nat], NEW n \in Int, NEW p \in Int,
           n < p, Tabled(table, n)
    PROVE  Behind(table, p)
<1>1. base \in Int /\ \A h \in HashValues : table[h] \in Nat
  BY BlockBounds
<1>2. ASSUME NEW h \in HashValues
      PROVE  table[h] = 0 \/ table[h] < p - base
  BY <1>1 DEF Tabled
<1> QED BY <1>2 DEF Behind, Tabled

\* A candidate is an address and an index; one that is used agrees.
LEMMA CandidateType ==
    ASSUME FormatOfLz4, call \in CallType, strm.dict \in StreamType, lowLimit \in Int,
           NEW table \in [HashValues -> Nat], NEW h \in HashValues, NEW p \in Int
    PROVE  LET c == Candidate(table, h)
           IN  /\ c.index \in Int /\ c.at \in Int /\ c.low \in Int
               /\ Usable(c, p) => SameAt(c.at, p, MINMATCH)
<1> DEFINE c == Candidate(table, h)
           inDict == strm.dict.table[h]
<1>1. /\ table[h] \in Nat /\ inDict \in Nat /\ base \in Int /\ dictBase \in Int
      /\ call.startIndex \in Nat /\ call.dictOffset \in Nat /\ call.source \in Nat
      /\ call.dictionary \in Nat
  BY CallFields, BlockBounds, StreamFields
<1> HIDE DEF inDict
<1>2. c.index \in Int /\ c.at \in Int /\ c.low \in Int
  BY <1>1 DEF Candidate, inDict
<1> QED BY <1>2 DEF Usable

\* A match is never ahead, within the reach of an offset, and lies in the
\* dictionary completely if it starts there.
LEMMA CandidateIs ==
    ASSUME FormatOfLz4, call \in CallType, strm.dict \in StreamType, Aged(strm.dict), ModeFacts,
           lowLimit \in Int,
           NEW table \in [HashValues -> Nat], NEW h \in HashValues,
           NEW p \in Int, p > call.source, p <= iend - MFLIMIT, Behind(table, p),
           ~Ambiguous
    PROVE  LET c == Candidate(table, h)
           IN  /\ c.index < p - base
               /\ Usable(c, p) =>
                     /\ p - base - c.index \in 1..DISTANCE_MAX
                     /\ maybe_extMem /\ c.low = call.dictionary => c.at + MINMATCH <= dictEnd
<1> DEFINE c == Candidate(table, h)
           index == table[h]
           inDict == strm.dict.table[h]
<1>1. /\ index \in Nat /\ inDict \in Nat
      /\ base \in Int /\ dictEnd \in Nat /\ dictBase \in Int /\ First \in Nat
      /\ base + First = call.source /\ dictBase = dictEnd - call.dictOffset
      /\ call.startIndex \in Nat /\ call.dictOffset \in Nat /\ call.source \in Nat
      /\ call.dictionary \in Nat /\ call.size \in Nat /\ iend = call.source + call.size
      /\ call.tableType # "byPtr" => First = call.startIndex
  BY CallFields, BlockBounds, StreamFields
<1>2. /\ index = 0 \/ index < p - base
      /\ index < First => index = 0 \/ index + 4 <= First
      /\ p - base >= 1 /\ MINMATCH = 4 /\ p - base <= First + call.size - 12
  BY <1>1 DEF Behind, FormatOfLz4
<1>3. /\ c.index \in Int /\ c.at \in Int /\ c.low \in Int /\ c.index < p - base
      /\ maybe_extMem /\ c.low = call.dictionary => c.at + MINMATCH <= dictEnd
      /\ call.tableType = "byU16" => c.index = index
  <2>1. CASE call.dict = "usingDictCtx" /\ index < call.startIndex
    <3>1. c = [index |-> inDict + (call.startIndex - call.dictOffset),
               at |-> dictBase + inDict, low |-> call.dictionary]
      BY <2>1 DEF Candidate
    <3>2. /\ call.dictOffset = KB64 /\ call.startIndex >= call.dictOffset
          /\ call.tableType = "byU32"
          /\ strm.dict.currentOffset = KB64 /\ strm.dict.tableType = "byU32"
      BY <2>1 DEF ModeFacts, DictLoaded
    <3>3. inDict + 4 <= call.dictOffset
      <4>1. inDict = 0 \/ inDict + 4 <= KB64
        BY <1>2, <3>2 DEF Aged
      <4> QED BY <3>2, <4>1, FormatFacts
    <3> HIDE DEF c, index, inDict
    <3>4. /\ c.index = inDict + (call.startIndex - call.dictOffset)
          /\ c.at = dictBase + inDict /\ c.low = call.dictionary
      BY <3>1
    <3>5. First = call.startIndex /\ p - base > First
      BY <1>1, <3>2
    <3> QED BY <1>1, <1>2, <3>2, <3>3, <3>4, <3>5
  <2>2. CASE call.dict = "usingExtDict" /\ index < call.startIndex
    <3>1. c = [index |-> index, at |-> dictBase + index, low |-> call.dictionary]
      BY <2>2 DEF Candidate
    <3>2. /\ call.dictOffset = call.startIndex /\ call.tableType = "byU32"
          /\ call.startIndex = 0 \/ call.startIndex >= MINMATCH
      BY <2>2 DEF ModeFacts
    <3> HIDE DEF c, index, inDict
    <3>3. First = call.startIndex /\ p - base > First
      BY <1>1, <3>2
    <3>4. index + 4 <= call.startIndex
      BY <1>1, <1>2, <2>2, <3>2, <3>3
    <3>5. c.index = index /\ c.at = dictBase + index /\ c.low = call.dictionary
      BY <3>1
    <3> QED BY <1>1, <1>2, <3>2, <3>3, <3>4, <3>5
  <2>3. CASE ~(call.dict \in {"usingDictCtx", "usingExtDict"} /\ index < call.startIndex)
    <3>1. c = [index |-> index, at |-> base + index,
               low |-> IF maybe_extMem THEN call.source ELSE lowLimit]
      BY <2>3 DEF Candidate
    <3>2. maybe_extMem => call.source # call.dictionary
      BY DEF Ambiguous
    <3> HIDE DEF c, index, inDict
    <3>3. /\ c.index = index /\ c.at = base + index
          /\ c.low = IF maybe_extMem THEN call.source ELSE lowLimit
      BY <3>1
    <3>4. c.index < p - base
      BY <1>1, <1>2, <3>3
    <3> QED BY <1>1, <1>2, <3>2, <3>3, <3>4
  <2> QED BY <2>1, <2>2, <2>3
<1>4. ASSUME Usable(c, p) PROVE p - base - c.index \in 1..DISTANCE_MAX
  <2>0. DISTANCE_MAX \in Nat /\ KB64 = DISTANCE_MAX + 1 /\ LZ4_64Klimit = KB64 + 11
    BY FormatFacts DEF FormatOfLz4
  <2>1. CASE call.tableType # "byU16"
    <3>1. c.index + DISTANCE_MAX >= p - base
      BY <1>4, <2>1 DEF Usable
    <3> HIDE DEF c
    <3> QED BY <1>1, <1>3, <2>0, <3>1
  <2>2. CASE call.tableType = "byU16"
    <3>1. First = call.startIndex /\ call.startIndex + call.size < LZ4_64Klimit
      BY <1>1, <2>2 DEF ModeFacts
    <3>2. c.index = index
      BY <1>3, <2>2
    <3> HIDE DEF c, index
    <3> QED BY <1>1, <1>2, <1>3, <2>0, <3>1, <3>2
  <2> QED BY <2>1, <2>2
<1> QED BY <1>3, <1>4

\* What is known at every stage.
LEMMA StageFacts ==
    ASSUME FormatOfLz4, CompressorInv, pc \in Stages
    PROVE  /\ phase = "compressing" /\ call \in CallType /\ ModeFacts
           /\ call.source >= 1 /\ iend <= MemHi + 1 /\ MemHi \in Nat
           /\ mem \in [0..MemHi -> HashedBytes]
           /\ strm \in [work : StreamType, dict : StreamType]
           /\ strm.work \in StreamType /\ strm.dict \in StreamType
           /\ strm.work.table \in [HashValues -> Nat] /\ Aged(strm.dict)
           /\ lowLimit \in Int /\ filledIp \in Int
           /\ anchor \in Nat /\ anchor >= call.source /\ anchor <= iend
           /\ out \in Seq(0..MaxByte) /\ Len(out) \in Nat
           /\ high \in Nat /\ high <= Room
           /\ call.cap \in Nat /\ (filling => call.cap >= 1)
<1>1. phase = "compressing"
  BY DEF CompressorInv, PhaseInv
<1>2. call \in CallType /\ call.source >= 1 /\ iend <= MemHi + 1
      /\ (call.directive = "fillOutput" => call.cap >= 1)
  BY <1>1 DEF CompressorInv, CallInv
<1>3. ModeFacts
  BY DEF CompressorInv, IndexInv, ModeFacts
<1>4. /\ mem \in [0..MemHi -> HashedBytes]
      /\ strm \in [work : StreamType, dict : StreamType]
  BY DEF CompressorInv, MemoryInv
<1>5. strm.work \in StreamType /\ strm.dict \in StreamType
  BY <1>4
<1>6. Aged(strm.dict)
  BY DEF CompressorInv, TablesInv
<1>7. lowLimit \in Int /\ filledIp \in Int /\ anchor \in call.source..iend
  BY DEF CompressorInv, CursorInv
<1>8. anchor \in Nat /\ anchor >= call.source /\ anchor <= iend
  BY <1>2, <1>7, BlockBounds, CallFields
<1>9. out \in Seq(0..MaxByte) /\ Len(out) \in Nat /\ high \in Nat /\ high <= Room
  BY <1>1 DEF CompressorInv, SizeInv
<1> QED BY <1>1, <1>2, <1>3, <1>4, <1>5, <1>6, <1>7, <1>8, <1>9, StreamFields, CallFields,
           MemoryTop DEF filling

LEMMA StoredIs ==
    ASSUME FormatOfLz4, call \in CallType, ModeFacts,
           NEW p \in Nat, p >= call.source, p <= iend - 12
    PROVE  p - base \in Nat /\ Stored(p - base, call.tableType) = p - base
<1>1. /\ base \in Int /\ First \in Nat /\ base + First = call.source /\ call.source \in Nat
      /\ iend = call.source + call.size /\ call.size \in Nat
      /\ call.tableType # "byPtr" => First = call.startIndex
  BY BlockBounds, CallFields
<1>2. KB64 \in Nat /\ KB64 >= 13 /\ LZ4_64Klimit = KB64 + 11
  BY FormatFacts
<1>3. call.tableType = "byU16" => First = call.startIndex /\ First + call.size < KB64 + 11
  BY <1>1, <1>2 DEF ModeFacts
<1>4. p - base \in Nat /\ (call.tableType = "byU16" => p - base < KB64)
  BY <1>1, <1>2, <1>3
<1>5. ASSUME NEW x \in Nat, NEW k \in Nat, x < k PROVE x % k = x
  BY <1>5
<1> QED BY <1>2, <1>4, <1>5 DEF Stored

\* The two streams when position p has been entered in the table.
Entered(s, p) == [s EXCEPT !.work.table[LZ4_hashPosition(p)] =
                      Stored(p - base, call.tableType)]

LEMMA PutIs ==
    ASSUME FormatOfLz4, call \in CallType, ModeFacts,
           mem \in [0..MemHi -> HashedBytes], iend <= MemHi + 1,
           NEW s \in [work : StreamType, dict : StreamType],
           NEW p \in Nat, p >= call.source, p <= iend - 12
    PROVE  LET t == Entered(s, p)
           IN  /\ p - base \in Nat
               /\ t \in [work : StreamType, dict : StreamType] /\ t.dict = s.dict
               /\ t.work = [s.work EXCEPT !.table = t.work.table]
               /\ LZ4_hashPosition(p) \in HashValues
               /\ t.work.table \in [HashValues -> Nat]
               /\ t.work.table[LZ4_hashPosition(p)] = p - base
               /\ \A h \in HashValues : h # LZ4_hashPosition(p) =>
                      t.work.table[h] = s.work.table[h]
<1> DEFINE t  == Entered(s, p)
           hp == LZ4_hashPosition(p)
           x  == Stored(p - base, call.tableType)
           tab == [s.work.table EXCEPT ![hp] = x]
<1>1. x = p - base /\ x \in Nat
  BY StoredIs
<1>2. hp \in HashValues
  <2>1. p + MINMATCH <= MemHi + 1
    <3>1. iend \in Nat /\ MINMATCH = 4 /\ MemHi \in Nat
      BY BlockBounds, MemoryTop DEF FormatOfLz4
    <3> QED BY <3>1
  <2> QED BY <2>1, HashOfPosition
<1>3. s.work \in StreamType /\ s.dict \in StreamType /\ s.work.table \in [HashValues -> Nat]
  BY StreamFields
<1>4. t = [s EXCEPT !.work.table[hp] = x]
  BY DEF Entered
<1> HIDE DEF hp, x, t
<1>5. /\ tab \in [HashValues -> Nat] /\ tab[hp] = x
      /\ \A h \in HashValues : h # hp => tab[h] = s.work.table[h]
  BY <1>1, <1>2, <1>3
<1>6. t = [s EXCEPT !.work = [s.work EXCEPT !.table = tab]]
  BY <1>3, <1>4
<1> HIDE DEF tab
<1> DEFINE w == [s.work EXCEPT !.table = tab]
<1>7. w \in StreamType /\ w.table = tab
  BY <1>3, <1>5 DEF StreamType
<1> HIDE DEF w
<1>8. t = [s EXCEPT !.work = w]
  BY <1>6 DEF w
<1>9. t.work = w /\ t.dict = s.dict /\ t \in [work : StreamType, dict : StreamType]
  BY <1>3, <1>7, <1>8
<1>10. t.work.table = tab /\ t.work = [s.work EXCEPT !.table = t.work.table]
  BY <1>7, <1>9 DEF w
<1> QED BY <1>1, <1>2, <1>5, <1>9, <1>10 DEF hp, t

LEMMA TabledLater ==
    ASSUME FormatOfLz4, call \in CallType,
           NEW table \in [HashValues -> Nat], NEW n \in Int, NEW m \in Int,
           n <= m, Tabled(table, n)
    PROVE  Tabled(table, m)
<1>1. base \in Int /\ \A h \in HashValues : table[h] \in Nat
  BY BlockBounds
<1>2. ASSUME NEW h \in HashValues
      PROVE  table[h] = 0 \/ table[h] <= m - base
  BY <1>1 DEF Tabled
<1> QED BY <1>2 DEF Tabled

LEMMA TabledPut ==
    ASSUME FormatOfLz4, call \in CallType,
           NEW old \in [HashValues -> Nat], NEW n \in Int, Tabled(old, n),
           NEW p \in Nat, p >= call.source, NEW m \in Int, n <= m, p <= m,
           NEW table \in [HashValues -> Nat],
           table[LZ4_hashPosition(p)] = p - base,
           \A h \in HashValues : h # LZ4_hashPosition(p) => table[h] = old[h]
    PROVE  Tabled(table, m)
<1>1. /\ base \in Int /\ First \in Nat /\ base + First = call.source /\ call.source \in Nat
  BY BlockBounds, CallFields
<1>2. Tabled(old, m)
  BY TabledLater
<1>3. p - base <= m - base /\ ~(p - base < First) /\ (p - base) + base = p
  BY <1>1
<1> SUFFICES ASSUME NEW h \in HashValues
             PROVE  /\ table[h] = 0 \/ table[h] <= m - base
                    /\ table[h] < First => table[h] = 0 \/ (table[h] + MINMATCH <= First
                                               /\ table[h] + MINMATCH <= call.startIndex)
                    /\ table[h] > First => LZ4_hashPosition(table[h] + base) = h
  BY DEF Tabled
<1>4. CASE h = LZ4_hashPosition(p)
  BY <1>3, <1>4
<1>5. CASE h # LZ4_hashPosition(p)
  <2>1. table[h] = old[h]
    BY <1>5
  <2> QED BY <1>2, <2>1 DEF Tabled
<1> QED BY <1>4, <1>5

\* The invariants a stage leaves alone when it goes on to another one.
LEMMA StageStays ==
    ASSUME FormatOfLz4, CompressorInv, pc \in Stages, pc' \in Stages,
           UNCHANGED <<mem, input, call, ret, kind, phase, calls, dpc>>,
           strm' \in [work : StreamType, dict : StreamType], strm'.dict = strm.dict,
           strm'.work = [strm.work EXCEPT !.table = strm'.work.table],
           Tabled(strm'.work.table, Highest),
           ~Ambiguous => Tabled(strm'.work.table, Newest')
    PROVE  PhaseInv' /\ MemoryInv' /\ CallInv' /\ TablesInv' /\ SourceInv' /\ IndexInv'
           /\ ReturnInv'
<1>0. /\ strm.work \in StreamType
      /\ strm'.work.currentOffset = strm.work.currentOffset
      /\ strm'.work.tableType = strm.work.tableType
      /\ strm'.work.dictionary = strm.work.dictionary
      /\ strm'.work.dictSize = strm.work.dictSize
      /\ strm'.work.dictCtx = strm.work.dictCtx
  <2>1. strm.work \in StreamType
    BY StageFacts
  <2> QED BY <2>1 DEF StreamType
<1>a. phase = "compressing"
  BY StageFacts
<1>b. pc \notin {"idle", "filled"} /\ pc' \notin {"idle", "filled"}
  BY DEF Stages
<1>1. PhaseInv'
  BY <1>a, <1>b DEF CompressorInv, PhaseInv
<1>2. MemoryInv'
  BY <1>0, <1>a DEF CompressorInv, MemoryInv, InMemory
<1>3. CallInv'
  BY <1>a DEF CompressorInv, CallInv, iend
<1>4. TablesInv'
  BY <1>0 DEF CompressorInv, TablesInv, Aged, DictLoaded
<1>5. SourceInv'
  BY <1>a DEF SourceInv
<1>6. IndexInv'
  <2>1. Tabled(strm.work.table, Highest)'
    BY SameCall DEF Tabled, base, First, LZ4_hashPosition, Byte
  <2>2. (~Ambiguous => Tabled(strm.work.table, Newest))'
    BY SameCall DEF Tabled, base, First, LZ4_hashPosition, Byte
  <2>3. ModeFacts'
    BY DEF CompressorInv, IndexInv, ModeFacts, DictLoaded, maybe_extMem
  <2> QED BY <1>0, <2>1, <2>2, <2>3 DEF CompressorInv, IndexInv
<1>7. ReturnInv'
  BY <1>b DEF ReturnInv
<1> QED BY <1>1, <1>2, <1>3, <1>4, <1>5, <1>6, <1>7

-----------------------------------------------------------------------------
(* Every stage keeps the invariant.                                           *)

LEMMA SearchKeeps ==
    ASSUME FormatOfLz4, CompressorInv, Search, UNCHANGED <<kind, phase, calls, dpc>>
    PROVE  CompressorInv'
<1> DEFINE p == search.next
           c == Candidate(strm.work.table, LZ4_hashPosition(p))
<1>1. pc = "search" /\ pc \in Stages /\ UNCHANGED <<mem, input, call, anchor, token, out, high, ret>>
  BY DEF Search, Stages
<1>2. /\ phase = "compressing" /\ call \in CallType /\ ModeFacts
      /\ call.source >= 1 /\ iend <= MemHi + 1 /\ MemHi \in Nat
      /\ mem \in [0..MemHi -> HashedBytes]
      /\ strm \in [work : StreamType, dict : StreamType]
      /\ strm.work \in StreamType /\ strm.dict \in StreamType
      /\ strm.work.table \in [HashValues -> Nat] /\ Aged(strm.dict)
      /\ lowLimit \in Int /\ filledIp \in Int
      /\ anchor \in Nat /\ anchor >= call.source /\ anchor <= iend
  BY <1>1, StageFacts
<1>3. /\ iend \in Nat /\ mflimitPlusOne = iend - 11 /\ base \in Int /\ call.source \in Nat
  BY <1>2, BlockBounds, CallFields
<1>4. /\ search \in SearchType /\ search.nb >= 2^skipTrigger
      /\ p > anchor /\ p <= mflimitPlusOne
      /\ Tabled(strm.work.table, Highest) /\ (~Ambiguous => Tabled(strm.work.table, p - 1))
  BY <1>1 DEF CompressorInv, CursorInv, IndexInv, Newest
<1>5. p \in Nat /\ search.step \in Nat /\ search.step >= 1 /\ search.nb \in Nat
  BY <1>4 DEF SearchType
<1>6. /\ ip' = p
      /\ search' = [next |-> p + search.step, step |-> search.nb \div 2^skipTrigger,
                    nb |-> search.nb + 1]
  BY DEF Search
<1>7. MFLIMIT = 12 /\ MINMATCH = 4
  BY DEF FormatOfLz4
<1> HIDE DEF p
<1>8. /\ base' = base /\ iend' = iend /\ mflimitPlusOne' = mflimitPlusOne
      /\ filling' = filling /\ limited' = limited
      /\ Room' = Room /\ maybe_extMem' = maybe_extMem
      /\ dictEnd' = dictEnd /\ Highest' = Highest /\ (Ambiguous' <=> Ambiguous)
      /\ Highest \in Int /\ Highest >= call.source - 1 /\ Highest >= iend - 12
  BY <1>1, <1>2, SameCall, HighestIs
<1>9. CASE p + search.step > mflimitPlusOne
  <2>1. pc' = "lastLiterals" /\ UNCHANGED <<strm, match, lowLimit, offset, filledIp>>
    BY <1>9 DEF Search, p
  <2>2. Newest' = Highest
    BY <1>8, <2>1 DEF Newest
  <2>3. Tabled(strm'.work.table, Highest) /\ Tabled(strm'.work.table, Newest')
    BY <1>4, <2>1, <2>2
  <2>4. /\ PhaseInv' /\ MemoryInv' /\ CallInv' /\ TablesInv' /\ SourceInv'
      /\ IndexInv' /\ ReturnInv'
    <3>1. strm.work = [strm.work EXCEPT !.table = strm.work.table]
      BY <1>2 DEF StreamType
    <3> QED BY <1>1, <1>2, <2>1, <2>3, <3>1, StageStays DEF Stages
  <2>5. CursorInv'
    BY <1>1, <1>2, <1>8, <2>1 DEF CompressorInv, CursorInv
  <2>6. SizeInv'
    BY <1>1, <1>2, <1>8, <2>1 DEF CompressorInv, SizeInv, FillInv
  <2>7. MatchInv'
    BY <2>1 DEF MatchInv
  <2> QED BY <2>4, <2>5, <2>6, <2>7 DEF CompressorInv
<1>10. CASE ~(p + search.step > mflimitPlusOne)
  <2>1. /\ strm' = Put(p)
        /\ IF Usable(c, p)
           THEN pc' = "found" /\ Found(c, p) /\ filledIp' = p
           ELSE pc' = "search" /\ UNCHANGED <<match, lowLimit, offset, filledIp>>
    BY <1>10 DEF Search, p
  <2>2. p <= iend - 12 /\ p >= call.source /\ p > call.source /\ p \in Int /\ p - 1 \in Int
        /\ p - 1 <= p /\ p - 1 < p /\ p <= p + search.step - 1
    <3> DEFINE k == search.step
    <3>1. /\ p \in Nat /\ k \in Nat /\ k >= 1 /\ iend \in Nat /\ call.source \in Nat
          /\ anchor \in Nat /\ anchor >= call.source /\ p > anchor
          /\ mflimitPlusOne = iend - 11 /\ ~(p + k > mflimitPlusOne)
      BY <1>2, <1>3, <1>4, <1>5, <1>10
    <3> HIDE DEF k
    <3>2. p <= iend - 12 /\ p > call.source /\ p <= p + k - 1
      BY ONLY <3>1
    <3> QED BY <3>1, <3>2 DEF k
  <2>3. /\ p - base \in Nat
        /\ strm' \in [work : StreamType, dict : StreamType] /\ strm'.dict = strm.dict
        /\ strm'.work = [strm.work EXCEPT !.table = strm'.work.table]
        /\ LZ4_hashPosition(p) \in HashValues
        /\ strm'.work.table \in [HashValues -> Nat]
        /\ strm'.work.table[LZ4_hashPosition(p)] = p - base
        /\ \A h \in HashValues : h # LZ4_hashPosition(p) =>
               strm'.work.table[h] = strm.work.table[h]
    <3>1. strm' = Entered(strm, p)
      BY <2>1 DEF Put, Entered
    <3>2. /\ call \in CallType /\ ModeFacts /\ mem \in [0..MemHi -> HashedBytes]
          /\ iend <= MemHi + 1 /\ strm \in [work : StreamType, dict : StreamType]
          /\ p \in Nat /\ p >= call.source /\ p <= iend - 12
      BY <1>2, <1>5, <2>2
    <3> QED BY ONLY FormatOfLz4, <3>1, <3>2, PutIs
  <2>4. /\ c.index \in Int /\ c.at \in Int /\ c.low \in Int
        /\ Usable(c, p) => SameAt(c.at, p, MINMATCH)
        /\ ~Ambiguous /\ Usable(c, p) =>
              /\ p - base - c.index \in 1..DISTANCE_MAX
              /\ maybe_extMem /\ c.low = call.dictionary => c.at + MINMATCH <= dictEnd
    <3>1. ~Ambiguous => Behind(strm.work.table, p)
      BY <1>2, <1>4, <2>2, TabledIsBehind
    <3>2. ~Ambiguous /\ Usable(c, p) =>
              /\ p - base - c.index \in 1..DISTANCE_MAX
              /\ maybe_extMem /\ c.low = call.dictionary => c.at + MINMATCH <= dictEnd
      BY <1>2, <1>7, <2>2, <2>3, <3>1, CandidateIs
    <3> QED BY <1>2, <2>2, <2>3, <3>2, CandidateType
  <2>5. /\ Tabled(strm'.work.table, Highest)
        /\ ~Ambiguous => Tabled(strm'.work.table, p) /\ Tabled(strm'.work.table, p + search.step - 1)
    <3>1. p + search.step - 1 \in Int
      BY <1>5
    <3>2. ASSUME ~Ambiguous PROVE Tabled(strm'.work.table, p)
      <4>1. /\ call \in CallType /\ strm.work.table \in [HashValues -> Nat]
            /\ p - 1 \in Int /\ Tabled(strm.work.table, p - 1) /\ p \in Nat /\ p \in Int
            /\ p >= call.source /\ p - 1 <= p /\ p <= p
        BY <1>2, <1>4, <1>5, <2>2, <3>2
      <4> QED BY ONLY FormatOfLz4, <4>1, <2>3, TabledPut
    <3>3. Tabled(strm'.work.table, Highest)
      <4>1. /\ call \in CallType /\ strm.work.table \in [HashValues -> Nat]
            /\ Highest \in Int /\ Tabled(strm.work.table, Highest) /\ p \in Nat
            /\ p >= call.source /\ Highest <= Highest /\ p <= Highest
        BY <1>2, <1>3, <1>4, <1>5, <1>8, <2>2
      <4> QED BY ONLY FormatOfLz4, <4>1, <2>3, TabledPut
    <3> QED BY <1>2, <2>2, <2>3, <3>1, <3>2, <3>3, TabledLater
  <2> HIDE DEF c
  <2>6. CASE Usable(c, p)
    <3>1. /\ pc' = "found" /\ filledIp' = p /\ match' = c.at /\ lowLimit' = c.low
          /\ offset' = p - base - c.index
      BY <2>1, <2>6 DEF Found
    <3>2. Newest' = p
      BY <1>6, <3>1 DEF Newest
    <3>3. /\ PhaseInv' /\ MemoryInv' /\ CallInv' /\ TablesInv' /\ SourceInv'
      /\ IndexInv' /\ ReturnInv'
      BY <1>1, <2>3, <2>5, <3>1, <3>2, StageStays DEF Stages
    <3>4. CursorInv'
      BY <1>1, <1>2, <1>3, <1>4, <1>5, <1>6, <1>7, <1>8, <2>2, <2>4, <2>6, <3>1
         DEF CompressorInv, CursorInv
    <3>5. SizeInv'
      BY <1>1, <1>2, <1>8, <3>1 DEF CompressorInv, SizeInv, FillInv
    <3>6. MatchInv'
      <4>1. Agreed' = MINMATCH /\ InDict' = (maybe_extMem /\ c.low = call.dictionary)
        BY <1>1, <1>7, <1>8, <3>1 DEF Agreed, InDict
      <4>2. SameAt(match, ip, Agreed)'
        BY <1>1, <1>6, <2>4, <2>6, <3>1, <4>1 DEF SameAt, Byte
      <4> QED BY <1>8, <2>4, <2>6, <3>1, <4>1, <4>2 DEF MatchInv
    <3> QED BY <3>3, <3>4, <3>5, <3>6 DEF CompressorInv
  <2>7. CASE ~Usable(c, p)
    <3>1. pc' = "search" /\ UNCHANGED <<match, lowLimit, offset, filledIp>>
      BY <2>1, <2>7
    <3>2. /\ search'.next = p + search.step /\ search'.nb = search.nb + 1
          /\ search'.step = search.nb \div 2^skipTrigger
      BY <1>6
    <3>3. Newest' = p + search.step - 1
      BY <1>5, <3>1, <3>2 DEF Newest
    <3>4. /\ PhaseInv' /\ MemoryInv' /\ CallInv' /\ TablesInv' /\ SourceInv'
      /\ IndexInv' /\ ReturnInv'
      BY <1>1, <2>3, <2>5, <3>1, <3>3, StageStays DEF Stages
    <3>5. CursorInv'
      <4> DEFINE k == 2^skipTrigger
      <4>1. k \in Nat /\ k # 0
        BY CompressAssumption
      <4> HIDE DEF k
      <4>2. search.nb >= k
        BY <1>4 DEF k
      <4>3. search'.step \in Nat /\ search'.step >= 1
        <5>1. search'.step = search.nb \div k
          BY <3>2 DEF k
        <5>2. k \in Nat \ {0}
          BY <4>1
        <5> QED BY <1>5, <4>2, <5>1, <5>2, StepIs
      <4>4. search' \in SearchType /\ search'.nb >= k /\ search'.next > anchor
            /\ search'.next <= mflimitPlusOne
        BY <1>2, <1>3, <1>4, <1>5, <1>6, <1>10, <3>2, <4>1, <4>2, <4>3 DEF SearchType
      <4> QED BY <1>1, <1>2, <1>8, <3>1, <4>4 DEF CompressorInv, CursorInv, k
    <3>6. SizeInv'
      BY <1>1, <1>2, <1>8, <3>1 DEF CompressorInv, SizeInv, FillInv
    <3>7. MatchInv'
      BY <3>1 DEF MatchInv
    <3> QED BY <3>4, <3>5, <3>6, <3>7 DEF CompressorInv
  <2> QED BY <2>6, <2>7
<1> QED BY <1>9, <1>10


-----------------------------------------------------------------------------
(* A call returns.                                                            *)

\* The room of dest, by the directive of the call.
LEMMA RoomIs ==
    ASSUME FormatOfLz4, call \in CallType
    PROVE  /\ LZ4_compressBound(call.size) = Grows(call.size) + 16
           /\ LZ4_compressBound(call.size) = call.size + call.size \div 255 + 16
           /\ limited \/ filling => Room = call.cap
           /\ call.directive = "notLimited" => Room = LZ4_compressBound(call.size)
           /\ call.directive = "notLimited" \/ limited \/ filling
           /\ call.directive = "notLimited" <=> ~limited /\ ~filling
           /\ ~(limited /\ filling)
BY CallFields DEF Room, limited, filling, LZ4_compressBound, Grows, FormatOfLz4, Directives

\* The table that is left behind holds nothing from beyond the block.
LEMMA TableLeft ==
    ASSUME FormatOfLz4, CompressorInv, pc \in Stages
    PROVE  Aged(strm.work)
<1>1. /\ call \in CallType /\ strm.work \in StreamType
      /\ \A h \in HashValues : strm.work.table[h] \in Nat
      /\ Tabled(strm.work.table, Highest)
      /\ strm.work.currentOffset = call.startIndex + call.size
      /\ strm.work.tableType = call.tableType
  BY StageFacts DEF CompressorInv, IndexInv
<1>2. /\ base \in Int /\ First \in Nat /\ base + First = call.source
      /\ call.startIndex \in Nat /\ call.size \in Nat /\ call.source \in Nat
      /\ iend = call.source + call.size
      /\ call.tableType # "byPtr" => First = call.startIndex
      /\ call.tableType \in TableTypes /\ MINMATCH = 4
      /\ Highest \in Int /\ (Highest <= iend - 12 \/ Highest <= call.source - 1)
  BY <1>1, BlockBounds, CallFields, HighestIs DEF FormatOfLz4
<1>3. strm.work.tableType # "clearedTable"
  BY <1>1, <1>2 DEF TableTypes
<1>4. ASSUME strm.work.tableType # "byPtr", NEW h \in HashValues
      PROVE  strm.work.table[h] = 0 \/ strm.work.table[h] + 4 <= strm.work.currentOffset
  <2> DEFINE e == strm.work.table[h]
  <2>1. /\ e \in Nat
        /\ e = 0 \/ e <= Highest - base
        /\ e < First => e = 0 \/ e + 4 <= call.startIndex
    BY <1>1, <1>2 DEF Tabled
  <2> HIDE DEF e
  <2>2. e = 0 \/ e + 4 <= call.startIndex + call.size
    BY <1>1, <1>2, <1>4, <2>1
  <2> QED BY <1>1, <2>2 DEF e
<1> QED BY <1>2, <1>3, <1>4 DEF Aged

LEMMA FinishKeeps ==
    ASSUME FormatOfLz4, CompressorInv, pc \in Stages,
           NEW dest \in Seq(0..MaxByte), NEW used \in Nat,
           Finish(strm.work, call, dest, used), Len(dest) <= Room,
           Room >= LZ4_compressBound(call.size) => Len(dest) > 0,
           UNCHANGED <<call, filledIp, kind, phase, calls, dpc>>,
           high' \in Nat, high' <= Room
    PROVE  CompressorInv'
<1> DEFINE s == strm.work
           w == IF call.api = "continue" /\ call.dict # "withPrefix64k"
                THEN [s EXCEPT !.dictionary = call.source, !.dictSize = call.size] ELSE s
<1>1. /\ pc' = "idle" /\ out' = dest /\ ret' = [size |-> Len(dest), used |-> used]
      /\ strm' = [strm EXCEPT !.work = w] /\ mem' = mem /\ input' = input
  BY DEF Finish
<1>2. /\ phase = "compressing" /\ call \in CallType /\ s \in StreamType
      /\ strm \in [work : StreamType, dict : StreamType]
      /\ iend <= MemHi + 1 /\ iend = call.source + call.size
      /\ call.source \in Nat /\ call.size \in Nat
  BY StageFacts, CallFields, BlockBounds
<1>3. /\ w \in StreamType /\ w.table = s.table /\ w.currentOffset = s.currentOffset
      /\ w.tableType = s.tableType /\ w.dictCtx = s.dictCtx
      /\ \/ w.dictionary = s.dictionary /\ w.dictSize = s.dictSize
            /\ (call.api # "continue" \/ call.dict = "withPrefix64k")
         \/ w.dictionary = call.source /\ w.dictSize = call.size
  BY <1>2 DEF StreamType
<1> HIDE DEF w
<1>4. /\ strm' \in [work : StreamType, dict : StreamType]
      /\ strm'.work = w /\ strm'.dict = strm.dict
  BY <1>1, <1>2, <1>3
<1>5. base' = base /\ iend' = iend /\ Room' = Room
  BY SameCall
<1>6. pc \notin {"idle", "filled"} /\ pc' \notin Stages /\ phase' = phase
  BY <1>1 DEF Stages
<1>7. PhaseInv'
  BY <1>1, <1>2, <1>6 DEF CompressorInv, PhaseInv
<1>8. MemoryInv'
  <2>1. InMemory(w)
    BY <1>2, <1>3 DEF CompressorInv, MemoryInv, InMemory
  <2> QED BY <1>1, <1>2, <1>4, <1>6, <2>1 DEF CompressorInv, MemoryInv, InMemory
<1>9. CallInv'
  <2>1. ret' \in [size : Nat, used : Nat]
    BY <1>1
  <2> QED BY <1>2, <1>5, <1>6, <2>1 DEF CompressorInv, CallInv
<1>10. CursorInv' /\ SourceInv' /\ IndexInv' /\ MatchInv'
  BY <1>1, <1>2, <1>6 DEF CompressorInv, CursorInv, SourceInv, IndexInv, MatchInv
<1>11. SizeInv'
  BY <1>1, <1>5 DEF SizeInv
<1>12. TablesInv'
  <2>1. Aged(w)
    BY <1>3, TableLeft DEF Aged
  <2>2. ASSUME kind # "one" PROVE StreamAged(w)
    <3>1. /\ s.dictSize <= s.currentOffset /\ s.tableType = call.tableType
          /\ s.currentOffset = call.startIndex + call.size
          /\ call.api = "continue" /\ call.size >= 1 /\ call.tableType = "byU32"
          /\ call.dict = "withPrefix64k" => s.dictSize >= call.size
      BY <2>2 DEF CompressorInv, IndexInv
    <3>2. s.dictSize \in Nat /\ call.startIndex \in Nat
      BY <1>2, StreamFields, CallFields
    <3> QED BY <1>2, <1>3, <3>1, <3>2 DEF StreamAged
  <2>3. w.tableType # "clearedTable"
    <3>1. s.tableType = call.tableType /\ call.tableType \in TableTypes
      BY <1>2, CallFields DEF CompressorInv, IndexInv
    <3> QED BY <1>3, <3>1 DEF TableTypes
  <2> QED BY <1>1, <1>3, <1>4, <2>1, <2>2, <2>3 DEF CompressorInv, TablesInv, Aged, StreamAged, DictLoaded
<1>13. ReturnInv'
  <2>1. ret' \in [size : Nat, used : Nat] /\ ret'.size = Len(dest)
    BY <1>1
  <2>2. LZ4_compressBound(call.size)' = LZ4_compressBound(call.size)
    BY DEF LZ4_compressBound
  <2> QED BY <1>1, <1>5, <2>1, <2>2 DEF ReturnInv
<1> QED BY <1>7, <1>8, <1>9, <1>10, <1>11, <1>12, <1>13 DEF CompressorInv

-----------------------------------------------------------------------------
(* How long a sequence gets.                                                  *)

\* The last run of literals of a block fits in the bound.
LastRunRoom(a, n, o) ==
    /\ o + 1 + Extra(n) + n <= (a + n) + (a + n) \div 255 + 16
    /\ o + n + 1 + (n + 240) \div 255 <= (a + n) + (a + n) \div 255 + 16

LEMMA LastRunFits ==
    ASSUME NEW a \in Nat, NEW n \in Nat, NEW o \in Nat, o <= a + a \div 255
    PROVE  LastRunRoom(a, n, o)
<1>1. a \div 255 + n \div 255 <= (a + n) \div 255 /\ (n + 240) \div 255 <= n \div 255 + 1
  OBVIOUS
<1>2. Extra(n) \in Nat /\ Extra(n) <= n \div 255 + 1
  BY ExtraIs
<1> QED BY <1>1, <1>2 DEF LastRunRoom

\* A run cut so that it fits, when dest is to be filled.
LEMMA CutRunFits ==
    ASSUME NEW room \in Nat, NEW run \in Nat, run + (run + 240) \div 255 > room,
           NEW n, n = room - (room + 241) \div 256
    PROVE  n \in Nat /\ n <= run /\ 1 + Extra(n) + n <= room + 1
<1> DEFINE q == (room + 241) \div 256
<1>1. q \in Nat /\ 256 * q <= room + 241 /\ room + 241 < 256 * q + 256
  OBVIOUS
<1>2. n = room - q
  OBVIOUS
<1> HIDE DEF q
<1>3. n \in Nat
  BY <1>1, <1>2
<1> DEFINE r == (run + 240) \div 255
<1>4. r \in Nat /\ 255 * r <= run + 240 /\ run + 240 < 255 * r + 255 /\ run + r > room
  OBVIOUS
<1> HIDE DEF r
<1>5. n <= run
  BY <1>1, <1>2, <1>3, <1>4
<1>6. Extra(n) <= q
  <2>1. CASE n < 15
    BY <1>1, <1>3, <2>1, ExtraIs
  <2>2. CASE n >= 15
    <3> DEFINE e == (n - 15) \div 255
    <3>1. e \in Nat /\ 255 * e <= n - 15
      BY <1>3, <2>2
    <3>2. Extra(n) = e + 1
      BY <2>2 DEF Extra
    <3> HIDE DEF e
    <3>3. e + 1 <= q
      BY <1>1, <1>2, <1>3, <2>2, <3>1
    <3> QED BY <3>2, <3>3
  <2> QED BY <1>3, <2>1, <2>2
<1> QED BY <1>1, <1>2, <1>3, <1>5, <1>6, ExtraIs

\* Literals and the token of a match grow what was written as they should.
SequenceFits(a, n, o) ==
    /\ o + 1 + Extra(n) + n <= (a + n) + (a + n) \div 255 + 2
    /\ o + 1 + Extra(n) + Greater(n + 7, 8) <= (a + n) + (a + n) \div 255 + 10
    /\ o + 1 + n + 8 + n \div 255 <= (a + n) + (a + n) \div 255 + 9
    /\ Extra(n) + Greater(n + 7, 8) <= n + n \div 255 + 8
    /\ Extra(n) + Greater(n + 7, 8) <= n + (n + 240) \div 255 + 8

LEMMA SequenceGrows ==
    ASSUME NEW a \in Nat, NEW n \in Nat, NEW o \in Nat, o <= a + a \div 255
    PROVE  SequenceFits(a, n, o)
<1>1. a \div 255 + n \div 255 <= (a + n) \div 255 /\ n \div 255 \in Nat
      /\ (n + 240) \div 255 \in Nat
  OBVIOUS
<1>2. /\ Extra(n) \in Nat /\ Extra(n) <= n \div 255 + 1
      /\ n < 15 => Extra(n) = 0
      /\ Extra(n) <= (n + 240) \div 255
  BY ExtraIs
<1>3. Greater(n + 7, 8) = IF n >= 1 THEN n + 7 ELSE 8
  BY DEF Greater
<1>4. n = 0 => n \div 255 = 0 /\ Extra(n) = 0
  BY <1>2
<1> QED BY <1>1, <1>2, <1>3, <1>4 DEF SequenceFits

LEMMA LastLiteralsKeeps ==
    ASSUME FormatOfLz4, CompressorInv, LastLiterals, UNCHANGED <<kind, phase, calls, dpc>>
    PROVE  CompressorInv'
<1> DEFINE run  == iend - anchor
           op   == Len(out)
           long == /\ call.directive # "notLimited"
                   /\ op + run + 1 + (run + MaxByte - RUN_MASK) \div MaxByte > call.cap
           room == call.cap - op - 1
           n    == IF long THEN room - (room + MaxByte + 1 - RUN_MASK) \div (MaxByte + 1) ELSE run
           a    == anchor - call.source
           text == out \o Literals(anchor, n)
<1>1. /\ pc = "lastLiterals" /\ pc \in Stages /\ UNCHANGED <<call, filledIp>>
      /\ IF long /\ limited
         THEN Finish(strm.work, call, <<>>, 0) /\ UNCHANGED high
         ELSE /\ Finish(strm.work, call, text, anchor + n - call.source)
              /\ high' = Greater(high, Len(out) + Len(Literals(anchor, n)))
  BY DEF LastLiterals, Stages, loopVars
<1>2. /\ call \in CallType /\ call.source \in Nat /\ call.size \in Nat /\ call.cap \in Nat
      /\ anchor \in Nat /\ anchor >= call.source /\ anchor <= iend
      /\ iend = call.source + call.size /\ iend <= MemHi + 1 /\ MemHi \in Nat
      /\ iend \in Nat
      /\ out \in Seq(0..MaxByte) /\ op \in Nat /\ high \in Nat /\ high <= Room
      /\ mem \in [0..MemHi -> HashedBytes]
      /\ (filling => call.cap >= 1)
  BY <1>1, StageFacts, CallFields, BlockBounds
<1>3. a \in Nat /\ run \in Nat /\ a + run = call.size /\ anchor = call.source + a
  <2>1. /\ call.source \in Nat /\ call.size \in Nat /\ anchor \in Nat /\ anchor >= call.source
        /\ anchor <= iend /\ iend = call.source + call.size /\ iend \in Nat
    BY <1>2
  <2> QED BY ONLY <2>1
<1>a. call.cap \in Nat /\ op \in Nat /\ (filling => call.cap >= 1)
  BY <1>2
<1>4. /\ op <= a + a \div 255
      /\ filling \/ limited => op = 0 \/ op + 6 <= call.cap
  <2>1. MaxByte = 255 /\ LASTLITERALS = 5 /\ phase = "compressing"
    BY <1>1, StageFacts DEF FormatOfLz4
  <2> QED BY <1>1, <1>2, <2>1 DEF CompressorInv, SizeInv, Grows, FillInv
<1>5. /\ long <=> /\ call.directive # "notLimited"
                  /\ op + run + 1 + (run + 240) \div 255 > call.cap
      /\ n = IF long THEN room - (room + 241) \div 256 ELSE run
  <2>1. MaxByte = 255 /\ RUN_MASK = 15
    BY DEF FormatOfLz4
  <2>2. run + MaxByte - RUN_MASK = run + 240 /\ room + MaxByte + 1 - RUN_MASK = room + 241
    BY <1>3, <1>a, <2>1
  <2> HIDE DEF run, op, room
  <2> QED BY <2>1, <2>2
<1> DEFINE bound == LZ4_compressBound(call.size)
<1>7. /\ bound \in Nat /\ bound = call.size + call.size \div 255 + 16
      /\ limited \/ filling => Room = call.cap
      /\ call.directive = "notLimited" => Room = bound
      /\ call.directive = "notLimited" \/ limited \/ filling
      /\ (call.directive = "notLimited" <=> ~limited /\ ~filling)
  BY <1>2, RoomIs
<1> HIDE DEF bound, op, run, a, room, long
<1>8. op + run + 1 + (run + 240) \div 255 <= bound /\ op + 1 + Extra(run) + run <= bound
  <2>1. call.size \in Nat /\ op <= a + a \div 255
    BY <1>2, <1>4
  <2>2. /\ op + 1 + Extra(run) + run <= call.size + call.size \div 255 + 16
        /\ op + run + 1 + (run + 240) \div 255 <= call.size + call.size \div 255 + 16
    <3>1. run \in Nat /\ a \in Nat /\ op \in Nat /\ op <= a + a \div 255 /\ call.size = a + run
      BY <1>3, <1>a, <2>1
    <3>2. LastRunRoom(a, run, op)
      BY <3>1, LastRunFits
    <3> QED BY <3>1, <3>2 DEF LastRunRoom
  <2>3. bound = call.size + call.size \div 255 + 16
    BY <1>7
  <2> QED BY <2>2, <2>3
<1>9. CASE long /\ limited
  <2>1. Finish(strm.work, call, <<>>, 0) /\ high' = high
    BY <1>1, <1>9
  <2>2. ~(Room >= bound)
    BY <1>2, <1>3, <1>5, <1>7, <1>8, <1>9, SMTT(20)
  <2>3. <<>> \in Seq(0..MaxByte) /\ Len(<<>>) = 0 /\ Len(<<>>) <= Room /\ 0 \in Nat
    BY <1>2, <1>7, <1>9
  <2>4. high' \in Nat /\ high' <= Room
    BY <1>2, <2>1
  <2> QED BY <1>1, <2>1, <2>2, <2>3, <2>4, FinishKeeps DEF bound
<1>10. CASE ~(long /\ limited)
  <2>1. /\ Finish(strm.work, call, text, anchor + n - call.source)
        /\ high' = Greater(high, op + Len(Literals(anchor, n)))
    BY <1>1, <1>10 DEF op
  <2>2. n \in Nat /\ n <= run /\ op + 1 + Extra(n) + n <= Room
    <3>1. CASE ~long
      <4>1. n = run
        BY <1>5, <3>1
      <4>2. CASE call.directive = "notLimited"
        BY <1>3, <1>7, <1>8, <4>1, <4>2
      <4>3. CASE call.directive # "notLimited"
        <5>1. op + run + 1 + (run + 240) \div 255 <= call.cap
          BY <1>3, <1>5, <1>a, <3>1, <4>3
        <5>2. Extra(run) \in Nat /\ Extra(run) <= (run + 240) \div 255
          BY <1>3, ExtraIs
        <5>3. Room = call.cap
          BY <1>7, <4>3
        <5> QED BY <1>3, <1>a, <4>1, <5>1, <5>2, <5>3
      <4> QED BY <4>2, <4>3
    <3>2. CASE long
      <4>1. filling /\ Room = call.cap
        BY <1>5, <1>7, <1>10, <3>2
      <4>2. room \in Nat /\ room = call.cap - op - 1
        BY <1>2, <1>4, <4>1 DEF room
      <4>3. run + (run + 240) \div 255 > room
        BY <1>3, <1>5, <1>a, <3>2, <4>2
      <4>4. n = room - (room + 241) \div 256
        BY <1>5, <3>2
      <4> HIDE DEF n
      <4>5. n \in Nat /\ n <= run /\ 1 + Extra(n) + n <= room + 1
        BY <1>3, <4>2, <4>3, <4>4, CutRunFits
      <4> QED BY <1>a, <4>1, <4>2, <4>5, ExtraIs
    <3> QED BY <3>1, <3>2
  <2> HIDE DEF n
  <2>3. anchor + n <= MemHi + 1
    BY <1>2, <1>3, <2>2
  <2>4. /\ Literals(anchor, n) \in Seq(0..MaxByte)
        /\ Len(Literals(anchor, n)) = 1 + Extra(n) + n
    BY <1>2, <2>2, <2>3, LiteralsAre
  <2>5. Extra(n) \in Nat
    BY <2>2, ExtraIs
  <2>6. /\ text \in Seq(0..MaxByte) /\ Len(text) = op + (1 + Extra(n) + n)
    <3>1. out \in Seq(0..MaxByte)
      BY <1>2
    <3>2. text \in Seq(0..MaxByte) /\ Len(text) = Len(out) + Len(Literals(anchor, n))
      BY ONLY <2>4, <3>1
    <3> QED BY <2>4, <3>2 DEF op
  <2>7. Len(text) <= Room /\ Len(text) > 0
    BY <1>2, <2>2, <2>5, <2>6
  <2>8. anchor + n - call.source \in Nat
    BY <1>2, <2>2
  <2>9. high' \in Nat /\ high' <= Room
    BY <1>2, <2>1, <2>2, <2>4, <2>5 DEF Greater
  <2> HIDE DEF text
  <2> QED BY <1>1, <2>1, <2>6, <2>7, <2>8, <2>9, FinishKeeps
<1> QED BY <1>9, <1>10

LEMMA Prefix ==
    ASSUME NEW S, NEW s \in Seq(S), NEW k \in 0..Len(s)
    PROVE  SubSeq(s, 1, k) \in Seq(S) /\ Len(SubSeq(s, 1, k)) = k
OBVIOUS

LEMMA RewindMatchKeeps ==
    ASSUME FormatOfLz4, CompressorInv, RewindMatch, UNCHANGED <<kind, phase, calls, dpc>>
    PROVE  CompressorInv'
<1>1. /\ pc = "match" /\ pc \in Stages /\ pc' = "lastLiterals" /\ pc' \in Stages
      /\ out' = SubSeq(out, 1, token - 1) /\ filling
      /\ UNCHANGED <<mem, strm, input, call, loopVars, high, ret>>
  BY DEF RewindMatch, Stages
<1>2. /\ phase = "compressing" /\ call \in CallType
      /\ strm \in [work : StreamType, dict : StreamType] /\ strm.work \in StreamType
      /\ strm.work.table \in [HashValues -> Nat]
      /\ lowLimit \in Int /\ filledIp \in Int
      /\ out \in Seq(0..MaxByte) /\ Len(out) \in Nat
  BY <1>1, StageFacts
<1>3. /\ anchor \in call.source..iend /\ ip \in anchor..(iend - MFLIMIT)
      /\ filledIp <= iend - MFLIMIT
      /\ Tabled(strm.work.table, Highest)
  BY <1>1 DEF CompressorInv, CursorInv, IndexInv
<1>4. iend \in Nat /\ call.source \in Nat /\ MFLIMIT = 12
  BY <1>2, BlockBounds, CallFields DEF FormatOfLz4
<1>5. /\ base' = base /\ iend' = iend /\ mflimitPlusOne' = mflimitPlusOne
      /\ filling' = filling /\ limited' = limited /\ Room' = Room /\ Highest' = Highest
  BY <1>1, SameCall
<1>6. Newest' = Highest
  BY <1>1, <1>5 DEF Newest
<1>8. Tabled(strm'.work.table, Highest) /\ Tabled(strm'.work.table, Newest')
  BY <1>1, <1>3, <1>6
<1>9. /\ PhaseInv' /\ MemoryInv' /\ CallInv' /\ TablesInv' /\ SourceInv'
      /\ IndexInv' /\ ReturnInv'
  <2>1. strm.work = [strm.work EXCEPT !.table = strm.work.table]
    BY <1>2 DEF StreamType
  <2> QED BY <1>1, <1>2, <1>8, <2>1, StageStays
<1>10. CursorInv'
  <2>1. UNCHANGED <<anchor, call, lowLimit, filledIp>>
    BY <1>1 DEF loopVars
  <2> QED BY <1>1, <1>2, <1>3, <1>5, <2>1 DEF CursorInv
<1>11. SizeInv'
  <2>1. /\ token \in 1..Len(out) /\ token - 1 <= Grows(anchor - call.source)
        /\ FillInv(token - 1, filling \/ limited) /\ high \in Nat /\ high <= Room
    BY <1>1, <1>2 DEF CompressorInv, SizeInv
  <2>2. out' \in Seq(0..MaxByte) /\ Len(out') = token - 1
    <3>1. token - 1 \in 0..Len(out)
      BY <1>2, <2>1
    <3>2. out \in Seq(0..MaxByte) /\ out' = SubSeq(out, 1, token - 1)
      BY <1>1, <1>2
    <3> QED BY <3>1, <3>2, Prefix
  <2>3. anchor' = anchor /\ call' = call /\ high' = high
    BY <1>1 DEF loopVars
  <2>4. phase' = phase
    OBVIOUS
  <2> QED BY <1>1, <1>5, <2>1, <2>2, <2>3, <2>4 DEF SizeInv, FillInv, Grows
<1>12. MatchInv'
  BY <1>1 DEF MatchInv
<1> QED BY <1>9, <1>10, <1>11, <1>12 DEF CompressorInv

LEMMA EncodeLiteralsKeeps ==
    ASSUME FormatOfLz4, CompressorInv, EncodeLiterals, UNCHANGED <<kind, phase, calls, dpc>>
    PROVE  CompressorInv'
<1> DEFINE max  == Greater(0, Lesser(ip - anchor, match - lowLimit))
           earlier == CountBack(ip, match, max)
           n    == ip - earlier - anchor
           o    == Len(out)
           op   == o + 1
           a    == anchor - call.source
           lits == Literals(anchor, n)
           text == out \o lits
           noRoom  == limited /\ op + n + (2 + 1 + LASTLITERALS) + n \div MaxByte > call.cap
           noMatch == filling /\ op + (n + MaxByte - RUN_MASK) \div MaxByte + n + 2 + 1
                                  + MFLIMIT - MINMATCH > call.cap
<1>1. /\ pc = "found" /\ pc \in Stages /\ ip' = ip - earlier /\ match' = match - earlier
      /\ UNCHANGED <<call, anchor, lowLimit, offset, filledIp, search>>
      /\ IF noRoom THEN Finish(strm.work, call, <<>>, 0) /\ UNCHANGED <<token, high>>
         ELSE /\ IF noMatch
                 THEN pc' = "lastLiterals" /\ UNCHANGED <<out, token, high>>
                 ELSE /\ pc' = "match"
                      /\ token' = op
                      /\ out' = text
                      /\ high' = Greater(high, WildEnd(Len(text) - n, n))
              /\ UNCHANGED <<mem, strm, input, ret>>
  BY DEF EncodeLiterals, Stages
<1>2. /\ phase = "compressing" /\ call \in CallType
      /\ mem \in [0..MemHi -> HashedBytes]
      /\ strm \in [work : StreamType, dict : StreamType] /\ strm.work \in StreamType
      /\ strm.work.table \in [HashValues -> Nat]
      /\ out \in Seq(0..MaxByte)
  BY <1>1, StageFacts
<1>3. /\ call.source \in Nat /\ call.size \in Nat /\ call.cap \in Nat
      /\ anchor \in Nat /\ anchor >= call.source /\ anchor <= iend
      /\ iend = call.source + call.size /\ iend \in Nat /\ iend <= MemHi + 1 /\ MemHi \in Nat
  BY <1>1, StageFacts, CallFields, BlockBounds
<1>a. o \in Nat /\ high \in Nat /\ high <= Room
  BY <1>1, StageFacts
<1>4. /\ match \in Int /\ offset \in Int /\ (~Ambiguous => offset \in 1..DISTANCE_MAX)
      /\ ip > anchor /\ filledIp = ip
      /\ ip \in anchor..(iend - MFLIMIT)
      /\ Tabled(strm.work.table, Highest) /\ (~Ambiguous => Tabled(strm.work.table, Newest))
      /\ Newest = ip
      /\ SameAt(match, ip, Agreed) /\ Agreed = MINMATCH
      /\ ~Ambiguous /\ InDict => match + Agreed <= dictEnd
      /\ o <= Grows(anchor - call.source)
      /\ FillInv(o, filling \/ limited)
  BY <1>1, <1>2, FormatAssumption
     DEF CompressorInv, CursorInv, IndexInv, Newest, MatchInv, Agreed, SizeInv
<1> HIDE DEF o
<1>5. /\ MFLIMIT = 12 /\ MINMATCH = 4 /\ MaxByte = 255 /\ LASTLITERALS = 5
      /\ RUN_MASK = 15 /\ ML_MASK = 15
  BY DEF FormatOfLz4
<1>6. /\ ip \in Nat /\ ip <= iend - 12 /\ ip > anchor
  BY <1>3, <1>4, <1>5
<1>7. max \in Nat /\ max <= ip - anchor
  <2>1. lowLimit \in Int /\ match \in Int /\ anchor \in Nat /\ ip \in Nat /\ ip > anchor
    BY <1>1, <1>3, <1>4, <1>6, StageFacts
  <2> QED BY ONLY <2>1 DEF Greater, Lesser
<1>8. earlier \in 0..max /\ SameAt(ip - earlier, match - earlier, earlier)
  <2> HIDE DEF max
  <2>1. ip \in Int /\ match \in Int /\ max \in Nat
    BY <1>4, <1>6, <1>7
  <2> QED BY <2>1, CountBackIs
<1> HIDE DEF earlier, max
<1>9. /\ earlier \in Nat /\ n \in Nat /\ n = ip' - anchor /\ ip' \in Nat /\ ip' >= anchor
      /\ ip' = ip - earlier /\ ip' <= iend - 12 /\ anchor + n = ip'
  <2>1. earlier \in Nat /\ earlier <= ip - anchor
    BY <1>3, <1>6, <1>7, <1>8
  <2>2. ip' = ip - earlier
    BY <1>1
  <2>3. anchor \in Nat /\ iend \in Nat /\ anchor <= iend
    BY <1>3
  <2> QED BY <1>6, <2>1, <2>2, <2>3
<1> HIDE DEF n
<1>10. /\ a \in Nat /\ a + n = ip' - call.source /\ op \in Nat /\ op = o + 1
       /\ a + n <= call.size
  BY <1>3, <1>a, <1>9
<1>11. /\ o <= a + a \div 255
       /\ filling \/ limited => o = 0 \/ o + 6 <= call.cap
  BY <1>3, <1>a, <1>4, <1>5 DEF Grows, FillInv
<1>12. /\ noRoom <=> limited /\ op + n + 8 + n \div 255 > call.cap
       /\ noMatch <=> filling /\ op + (n + 240) \div 255 + n + 11 > call.cap
  <2>1. n + MaxByte - RUN_MASK = n + 240 /\ 2 + 1 + LASTLITERALS = 8
    BY <1>5, <1>9
  <2>2. op + (n + 240) \div 255 + n + 2 + 1 + MFLIMIT - MINMATCH
            = op + (n + 240) \div 255 + n + 11
    BY <1>5, <1>9, <1>10
  <2> HIDE DEF op
  <2> QED BY <1>5, <2>1, <2>2
<1>13. /\ base' = base /\ iend' = iend /\ filling' = filling /\ limited' = limited
       /\ Room' = Room /\ maybe_extMem' = maybe_extMem /\ dictEnd' = dictEnd
       /\ Highest' = Highest /\ (Ambiguous' <=> Ambiguous)
  BY <1>1, SameCall
<1>14. /\ limited \/ filling => Room = call.cap
       /\ call.directive = "notLimited" => Room = LZ4_compressBound(call.size)
       /\ LZ4_compressBound(call.size) = call.size + call.size \div 255 + 16
       /\ call.directive = "notLimited" \/ limited \/ filling
       /\ ~(limited /\ filling)
  BY <1>2, RoomIs
<1> HIDE DEF a, op, noRoom, noMatch, lits
<1>15. /\ o + 1 + Extra(n) + n <= (a + n) + (a + n) \div 255 + 2
       /\ o + 1 + Extra(n) + Greater(n + 7, 8) <= (a + n) + (a + n) \div 255 + 10
       /\ o + 1 + n + 8 + n \div 255 <= (a + n) + (a + n) \div 255 + 9
       /\ Extra(n) + Greater(n + 7, 8) <= n + n \div 255 + 8
       /\ Extra(n) + Greater(n + 7, 8) <= n + (n + 240) \div 255 + 8
  <2>1. a \in Nat /\ n \in Nat /\ o \in Nat /\ o <= a + a \div 255
    BY <1>3, <1>a, <1>9, <1>10, <1>11
  <2>2. SequenceFits(a, n, o)
    BY <2>1, SequenceGrows
  <2> QED BY <2>2 DEF SequenceFits
<1>16. CASE noRoom
  <2>1. Finish(strm.work, call, <<>>, 0) /\ high' = high
    BY <1>1, <1>16
  <2>2. ~(Room >= LZ4_compressBound(call.size))
    <3>1. (a + n) \div 255 <= call.size \div 255
      BY <1>3, <1>9, <1>10
    <3> QED BY <1>3, <1>a, <1>9, <1>10, <1>12, <1>14, <1>15, <1>16, <3>1
  <2>3. <<>> \in Seq(0..MaxByte) /\ Len(<<>>) = 0 /\ Len(<<>>) <= Room /\ 0 \in Nat
    BY <1>3, <1>12, <1>14, <1>16
  <2>4. high' \in Nat /\ high' <= Room
    BY <1>a, <2>1
  <2> QED BY <1>1, <2>1, <2>2, <2>3, <2>4, FinishKeeps
<1>17. ASSUME ~noRoom
       PROVE  /\ UNCHANGED <<mem, strm, input, ret>>
              /\ IF noMatch
                 THEN pc' = "lastLiterals" /\ UNCHANGED <<out, token, high>>
                 ELSE /\ pc' = "match"
                      /\ token' = op
                      /\ out' = text
                      /\ high' = Greater(high, WildEnd(Len(text) - n, n))
  BY <1>1, <1>17
<1>18. ASSUME ~noRoom, pc' \in Stages, Newest' \in Int, Newest <= Newest'
       PROVE  /\ PhaseInv' /\ MemoryInv' /\ CallInv' /\ TablesInv' /\ SourceInv'
              /\ IndexInv' /\ ReturnInv'
  <2>1. Tabled(strm'.work.table, Highest)
    BY <1>4, <1>17, <1>18
  <2>2. ASSUME ~Ambiguous PROVE Tabled(strm'.work.table, Newest')
    <3>1. /\ call \in CallType /\ strm.work.table \in [HashValues -> Nat]
          /\ Newest \in Int /\ Newest' \in Int /\ Newest <= Newest'
          /\ Tabled(strm.work.table, Newest)
      BY <1>2, <1>4, <1>6, <1>18, <2>2
    <3>2. Tabled(strm.work.table, Newest')
      BY <3>1, TabledLater
    <3> QED BY <1>17, <1>18, <3>2
  <2>3. strm.work = [strm.work EXCEPT !.table = strm.work.table]
    BY <1>2 DEF StreamType
  <2> QED BY <1>1, <1>2, <1>17, <1>18, <2>1, <2>2, <2>3, StageStays
<1>19. CASE ~noRoom /\ noMatch
  <2>1. pc' = "lastLiterals" /\ UNCHANGED <<out, token, high, mem>>
    BY <1>17, <1>19
  <2>2. Newest' = Highest
    BY <1>13, <2>1 DEF Newest
  <2>3. Newest' \in Int /\ Newest <= Newest'
    <3>1. Highest \in Int /\ Highest >= iend - 12
      BY <1>2, HighestIs
    <3> QED BY <1>3, <1>4, <1>6, <2>2, <3>1
  <2>4. CursorInv'
    BY <1>1, <1>3, <1>13, <2>1 DEF CompressorInv, CursorInv
  <2>5. SizeInv'
    BY <1>1, <1>2, <1>a, <1>4, <1>13, <2>1 DEF SizeInv, FillInv, o
  <2>6. MatchInv'
    BY <2>1 DEF MatchInv
  <2> QED BY <1>18, <1>19, <2>1, <2>3, <2>4, <2>5, <2>6 DEF CompressorInv, Stages
<1>20. CASE ~noRoom /\ ~noMatch
  <2>1. /\ pc' = "match" /\ token' = op /\ out' = text /\ mem' = mem
        /\ high' = Greater(high, WildEnd(Len(text) - n, n))
    BY <1>17, <1>20
  <2>2. /\ lits \in Seq(0..MaxByte) /\ Len(lits) = 1 + Extra(n) + n
        /\ lits[1] % 16 = 0
    <3>1. anchor + n <= MemHi + 1
      BY <1>3, <1>9
    <3> QED BY <1>2, <1>3, <1>9, <3>1, LiteralsAre DEF lits
  <2>3. Extra(n) \in Nat
    BY <1>9, ExtraIs
  <2>4. /\ text \in Seq(0..MaxByte) /\ Len(text) = Len(out) + Len(lits)
        /\ text[Len(out) + 1] = lits[1] /\ Len(out) = o
    <3>1. out \in Seq(0..MaxByte) /\ lits \in Seq(0..MaxByte) /\ Len(lits) \in Nat
          /\ Len(lits) >= 1
      BY <1>2, <1>9, <2>2, <2>3
    <3>2. /\ text \in Seq(0..MaxByte) /\ Len(text) = Len(out) + Len(lits)
          /\ text[Len(out) + 1] = lits[1]
      BY ONLY <3>1
    <3> QED BY <3>2 DEF o
  <2> HIDE DEF text
  <2>5. Len(out') = o + 1 + Extra(n) + n /\ Len(text) - n = o + 1 + Extra(n)
    <3>1. Len(text) = o + (1 + Extra(n) + n) /\ Len(out') = Len(text)
      BY <2>1, <2>2, <2>4
    <3> QED BY <1>a, <1>9, <2>3, <3>1
  <2>6. Newest' = ip
    <3>1. Newest' = Greater(ip', filledIp')
      BY <2>1 DEF Newest
    <3>2. filledIp' = ip
      BY <1>1, <1>4
    <3> QED BY <1>6, <1>9, <3>1, <3>2 DEF Greater
  <2>7. CursorInv'
    <3>1. ip' \in anchor..(iend - MFLIMIT) /\ filledIp' <= iend - MFLIMIT
      <4>1. filledIp' = ip
        BY <1>1, <1>4
      <4> QED BY <1>3, <1>5, <1>6, <1>9, <4>1
    <3>2. /\ match' \in Int /\ lowLimit' \in Int /\ filledIp' \in Int /\ offset' \in Int
          /\ ~Ambiguous' => offset' \in 1..DISTANCE_MAX
      BY <1>1, <1>4, <1>6, <1>9, <1>13, StageFacts
    <3> QED BY <1>1, <1>13, <2>1, <3>1, <3>2 DEF CompressorInv, CursorInv
  <2>8. high' \in Nat /\ high' <= Room
    <3> DEFINE w == WildEnd(Len(text) - n, n)
               g == Greater(n + 7, 8)
    <3>1. w \in Int /\ w <= Len(text) - n + g
      <4>1. Len(text) - n \in Int /\ n \in Nat
        BY <1>a, <1>9, <2>3, <2>5
      <4> QED BY <4>1, StrideEnds
    <3>2. g \in Nat /\ g = IF n >= 1 THEN n + 7 ELSE 8
      BY <1>9 DEF Greater
    <3> HIDE DEF w, g
    <3>3. w <= o + 1 + Extra(n) + g
      <4>1. Len(text) - n = o + 1 + Extra(n)
        BY <2>5
      <4> QED BY <3>1, <4>1
    <3>4. /\ o + 1 + Extra(n) + g <= (a + n) + (a + n) \div 255 + 10
          /\ Extra(n) + g <= n + n \div 255 + 8
          /\ Extra(n) + g <= n + (n + 240) \div 255 + 8
      BY <1>15 DEF g
    <3>b. /\ o \in Nat /\ n \in Nat /\ a \in Nat /\ Extra(n) \in Nat /\ op = o + 1
          /\ w \in Int /\ g \in Nat /\ call.size \in Nat /\ call.cap \in Nat
      BY <1>3, <1>a, <1>9, <1>10, <2>3, <3>1, <3>2
    <3>5. w <= Room
      <4>1. CASE limited
        <5>1. op + n + 8 + n \div 255 <= call.cap /\ Room = call.cap
          BY <1>3, <1>a, <1>9, <1>10, <1>12, <1>14, <1>20, <4>1
        <5> QED BY ONLY <3>b, <3>3, <3>4, <5>1
      <4>2. CASE filling
        <5>1. op + (n + 240) \div 255 + n + 11 <= call.cap /\ Room = call.cap
          BY <1>3, <1>a, <1>9, <1>10, <1>12, <1>14, <1>20, <4>2
        <5> QED BY ONLY <3>b, <3>3, <3>4, <5>1
      <4>3. CASE call.directive = "notLimited"
        <5>1. (a + n) \div 255 <= call.size \div 255
          BY <1>3, <1>a, <1>9, <1>10
        <5>2. Room = call.size + call.size \div 255 + 16
          BY <1>14, <4>3
        <5>3. a + n <= call.size
          BY <1>10
        <5> QED BY ONLY <3>b, <3>3, <3>4, <5>1, <5>2, <5>3
      <4> QED BY <1>14, <4>1, <4>2, <4>3
    <3>6. high' = Greater(high, w)
      BY <2>1 DEF w
    <3> QED BY <1>a, <3>1, <3>5, <3>6 DEF Greater
  <2>9. SizeInv'
    <3>1. token' \in 1..Len(out') /\ token' - 1 = o
      <4>1. token' = o + 1 /\ Len(out') = o + 1 + Extra(n) + n
        BY <1>10, <2>1, <2>5
      <4> QED BY <1>a, <1>9, <2>3, <4>1
    <3>2. out'[token'] % (ML_MASK + 1) = 0
      BY <1>5, <1>10, <2>1, <2>2, <2>4
    <3>3. Len(out') <= Grows(ip' - call.source) + 2
      BY <1>5, <1>10, <1>15, <2>5 DEF Grows
    <3>4. out' \in Seq(0..MaxByte)
      BY <2>1, <2>4
    <3>5. ASSUME limited PROVE Len(out') + LASTLITERALS <= call.cap
      <4>1. op + n + 8 + n \div 255 <= call.cap
        BY <1>3, <1>a, <1>9, <1>10, <1>12, <1>20, <3>5
      <4>2. Extra(n) <= n \div 255 + 1
        BY <1>9, ExtraIs
      <4>3. Len(out') = o + 1 + Extra(n) + n /\ op = o + 1 /\ LASTLITERALS = 5
        BY <1>5, <1>10, <2>5
      <4>4. /\ o \in Nat /\ n \in Nat /\ Extra(n) \in Nat /\ call.cap \in Nat
            /\ n \div 255 \in Nat
        BY <1>3, <1>a, <1>9, <2>3
      <4> QED BY ONLY <4>1, <4>2, <4>3, <4>4
    <3> QED BY <1>1, <1>4, <1>13, <2>1, <2>8, <3>1, <3>2, <3>3, <3>4, <3>5
            DEF SizeInv, FillInv, Grows
  <2>10. MatchInv'
    <3>1. Agreed' = IF Ambiguous THEN 4 ELSE 4 + earlier
      <4>1. Agreed' = MINMATCH + IF Ambiguous THEN 0 ELSE Greater(filledIp' - ip', 0)
        BY <1>13, <2>1 DEF Agreed
      <4>2. filledIp' - ip' = earlier
        BY <1>1, <1>4, <1>6, <1>9
      <4> QED BY <1>5, <1>9, <4>1, <4>2 DEF Greater
    <3>2. SameAt(match - earlier, ip - earlier, 4 + earlier)
      <4> SUFFICES ASSUME NEW i \in 0..((4 + earlier) - 1)
                   PROVE  Byte(match - earlier + i) = Byte(ip - earlier + i)
        BY DEF SameAt
      <4>1. CASE i < earlier
        <5>1. i \in 0..(earlier - 1)
          BY <1>9, <4>1
        <5> QED BY <1>8, <5>1 DEF SameAt
      <4>2. CASE i >= earlier
        <5>1. i - earlier \in 0..(4 - 1)
          BY <1>9, <4>2
        <5>2. Byte(match + (i - earlier)) = Byte(ip + (i - earlier))
          BY <1>4, <1>5, <5>1 DEF SameAt
        <5>3. match + (i - earlier) = match - earlier + i /\ ip + (i - earlier) = ip - earlier + i
          BY <1>4, <1>6, <1>9
        <5> QED BY <5>2, <5>3
      <4>3. i \in Int
        BY <1>9
      <4> QED BY <1>9, <4>1, <4>2, <4>3
    <3>3. InDict' = InDict
      BY <1>1, <1>13 DEF InDict
    <3>4. ~Ambiguous /\ InDict =>
              match - earlier + (4 + earlier) <= dictEnd /\ match - earlier < dictEnd
      <4>1. dictEnd \in Nat
        BY <1>2, BlockBounds
      <4> QED BY <1>4, <1>5, <1>9, <4>1
    <3>5. SameAt(match, ip, Agreed)'
      <4>1. SameAt(match - earlier, ip - earlier, 4)
        BY <1>9, <3>2 DEF SameAt
      <4>2. SameAt(match - earlier, ip - earlier, Agreed')
        BY <3>1, <3>2, <4>1
      <4> QED BY <1>1, <2>1, <4>2 DEF SameAt, Byte
    <3>6. match' = match - earlier
      BY <1>1
    <3>7. ~Ambiguous' /\ InDict' => match' + Agreed' <= dictEnd'
      BY <1>13, <3>1, <3>3, <3>4, <3>6
    <3>8. ~Ambiguous' /\ InDict' => match' < dictEnd'
      BY <1>13, <3>3, <3>4, <3>6
    <3> QED BY <2>1, <3>5, <3>7, <3>8 DEF MatchInv
  <2>11. Newest' \in Int /\ Newest <= Newest'
    BY <1>4, <1>6, <2>6
  <2>12. pc' \in Stages
    BY <2>1 DEF Stages
  <2> QED BY <1>18, <1>20, <2>7, <2>9, <2>10, <2>11, <2>12 DEF CompressorInv
<1> QED BY <1>16, <1>19, <1>20

-----------------------------------------------------------------------------
(* The length of a match, and what it adds to dest.                           *)

LEMMA MatchLengthIs ==
    ASSUME FormatOfLz4, CompressorInv, pc = "match", ~MustRewind
    PROVE  /\ MatchLength \in Nat /\ ip + 4 + MatchLength <= iend - 5
           /\ ~Ambiguous => filledIp < ip + 4 + MatchLength
<1> DEFINE k == Greater(filledIp - ip, 0)
           limit == IF InDict THEN Lesser(ip + (dictEnd - match), matchlimit) ELSE matchlimit
           n == LZ4_count(ip + MINMATCH, match + MINMATCH, limit)
           m == LZ4_count(limit, call.source, matchlimit)
<1>1. pc \in Stages
  BY DEF Stages
<1>2. /\ iend \in Nat /\ dictEnd \in Nat /\ call.source \in Nat /\ matchlimit = iend - 5
      /\ filledIp \in Int /\ MINMATCH = 4 /\ MFLIMIT = 12
  BY <1>1, StageFacts, BlockBounds, CallFields DEF FormatOfLz4
<1>3. /\ match \in Int /\ ip \in anchor..(iend - MFLIMIT) /\ filledIp <= iend - MFLIMIT
      /\ anchor \in Nat
  BY <1>1, StageFacts DEF CompressorInv, CursorInv
<1>4. ~Ambiguous => /\ SameAt(match, ip, Agreed) /\ Agreed = 4 + k
                    /\ InDict => match + Agreed <= dictEnd
  BY <1>2 DEF CompressorInv, MatchInv, Agreed
<1>5. k \in Nat /\ filledIp - ip <= k /\ ip \in Nat /\ ip <= iend - 12 /\ ip + k <= iend - 12
  BY <1>2, <1>3 DEF Greater
<1> HIDE DEF k
<1>6. limit \in Int /\ limit <= iend - 5
  BY <1>2, <1>3, <1>5 DEF Lesser
<1>a. ~Ambiguous => ip + 4 + k <= limit
  BY <1>2, <1>3, <1>4, <1>5 DEF Lesser
<1> HIDE DEF limit
<1>7. ASSUME ~Ambiguous PROVE SameAt(match + 4, ip + 4, k)
  <2> SUFFICES ASSUME NEW i \in 0..(k - 1) PROVE Byte(match + 4 + i) = Byte(ip + 4 + i)
    BY DEF SameAt
  <2>1. 4 + i \in 0..((4 + k) - 1)
    BY <1>5
  <2>2. Byte(match + (4 + i)) = Byte(ip + (4 + i))
    BY <1>4, <1>7, <2>1 DEF SameAt
  <2>3. match + (4 + i) = match + 4 + i /\ ip + (4 + i) = ip + 4 + i
    BY <1>3, <1>5, <2>1
  <2> QED BY <2>2, <2>3
<1>8. n \in Nat /\ n <= Greater(limit - (ip + 4), 0) /\ (~Ambiguous => n >= k)
  <2>1. ip + 4 \in Int /\ match + 4 \in Int /\ k \in Int /\ limit \in Int /\ MINMATCH = 4
    BY <1>2, <1>3, <1>5, <1>6
  <2>2. n = LZ4_count(ip + 4, match + 4, limit)
    BY <2>1
  <2>3. ASSUME ~Ambiguous PROVE LZ4_count(ip + 4, match + 4, limit) >= k
    <3>1. ip + 4 + k <= limit /\ SameAt(match + 4, ip + 4, k)
      BY <1>a, <1>7, <2>3
    <3> QED BY ONLY <2>1, <3>1, CountAtLeast
  <2>4. /\ LZ4_count(ip + 4, match + 4, limit) \in Nat
        /\ LZ4_count(ip + 4, match + 4, limit) <= Greater(limit - (ip + 4), 0)
    BY ONLY <2>1, CountIs
  <2> HIDE DEF n
  <2> QED BY <2>2, <2>3, <2>4
<1>9. m \in Nat /\ m <= Greater(matchlimit - limit, 0)
  <2>1. call.source \in Int /\ matchlimit \in Int /\ limit \in Int
    BY <1>2, <1>6
  <2> QED BY ONLY <2>1, CountIs
<1>10. MatchLength = n + IF InDict /\ ip + MINMATCH + n = limit THEN m ELSE 0
  BY DEF MatchLength, InDict, limit
<1> HIDE DEF n, m
<1>11. ip + 4 + n <= iend - 5 /\ limit + m <= iend - 5
  BY <1>2, <1>5, <1>6, <1>8, <1>9 DEF Greater
<1> DEFINE x == IF InDict /\ ip + MINMATCH + n = limit THEN m ELSE 0
<1>12. /\ x \in Nat /\ MatchLength = n + x /\ ip + 4 + n + x <= iend - 5
  BY <1>2, <1>5, <1>6, <1>8, <1>9, <1>10, <1>11
<1> HIDE DEF x
<1> QED BY <1>2, <1>5, <1>8, <1>12

\* What a match whose length is coded as n adds.
MatchFits(i, n, size, op) ==
    /\ op + Extra(n) <= (i + 4 + n) + (i + 4 + n) \div 255
    /\ op + 6 + (n + 240) \div 255 <= size + size \div 255 + 16
    /\ op + Extra(n) + 3 <= size + size \div 255 + 16
    /\ Extra(n) <= (n + 240) \div 255

LEMMA MatchGrows ==
    ASSUME NEW i \in Nat, NEW n \in Nat, NEW size \in Nat, i + 4 + n + 5 <= size,
           NEW op \in Nat, op <= i + i \div 255 + 4
    PROVE  MatchFits(i, n, size, op)
<1>1. /\ i \div 255 <= (i + 4 + n) \div 255 /\ i \div 255 + n \div 255 <= size \div 255
      /\ (n + 240) \div 255 <= n \div 255 + 1 /\ n \div 255 \in Nat
  OBVIOUS
<1>2. /\ Extra(n) \in Nat /\ Extra(n) <= n /\ Extra(n) <= n \div 255 + 1
      /\ Extra(n) <= (n + 240) \div 255
  BY ExtraIs
<1> QED BY <1>1, <1>2 DEF MatchFits

\* A match that is cut fills the room there is.
LEMMA CutMatchFits ==
    ASSUME NEW code \in Nat, NEW room \in Nat, room >= 1, (code + 240) \div 255 > room
    PROVE  LET n == 14 + room * 255
           IN  n \in Nat /\ n < code /\ n >= 15 /\ Extra(n) = room
<1> DEFINE n == 14 + room * 255
<1>1. n \in Nat /\ n >= 15 /\ n - 15 = 255 * (room - 1) + 254
  OBVIOUS
<1>2. (n - 15) \div 255 = room - 1
  BY <1>1
<1>3. n < code
  <2> DEFINE q == (code + 240) \div 255
  <2>1. q \in Nat /\ 255 * q <= code + 240 /\ q >= room + 1
    OBVIOUS
  <2> HIDE DEF q
  <2> QED BY <1>1, <2>1
<1> QED BY <1>1, <1>2, <1>3 DEF Extra

\* The bytes that LZ4_write32 writes ahead of the length.
LEMMA FoursAre ==
    ASSUME NEW n \in Nat, n >= 15
    PROVE  /\ 4 * ((n - 15) \div 1020 + 1) \in Nat
           /\ 4 * ((n - 15) \div 1020 + 1) <= Extra(n) + 3
<1> DEFINE x == n - 15
           q == x \div 1020
           r == x \div 255
<1>1. x \in Nat /\ q \in Nat /\ r \in Nat /\ 1020 * q <= x /\ x < 255 * r + 255
  OBVIOUS
<1>2. Extra(n) = r + 1
  BY DEF Extra
<1> HIDE DEF q, r, x
<1>3. 4 * q <= r
  BY <1>1
<1> QED BY <1>1, <1>2, <1>3 DEF q, x

\* The table without the positions beyond the cut of a match.
LEMMA TabledCut ==
    ASSUME FormatOfLz4, call \in CallType, pc = "match",
           NEW old \in [HashValues -> Nat], Tabled(old, Newest),
           ip \in Nat, filledIp \in Int,
           NEW next \in Nat, next > ip, next > call.source,
           NEW table \in [HashValues -> Nat],
           \A h \in HashValues : table[h] = IF h \in TakenOut(next) THEN 0 ELSE old[h]
    PROVE  Tabled(table, next - 1)
<1>1. /\ base \in Int /\ First \in Nat /\ base + First = call.source /\ call.source \in Nat
  BY BlockBounds, CallFields
<1>2. Newest = Greater(ip, filledIp)
  BY DEF Newest
<1> SUFFICES ASSUME NEW h \in HashValues
             PROVE  /\ table[h] = 0 \/ table[h] <= next - 1 - base
                    /\ table[h] < First => table[h] = 0 \/ (table[h] + MINMATCH <= First
                                               /\ table[h] + MINMATCH <= call.startIndex)
                    /\ table[h] > First => LZ4_hashPosition(table[h] + base) = h
  BY DEF Tabled
<1>3. /\ old[h] \in Nat /\ (old[h] = 0 \/ old[h] <= Newest - base)
      /\ old[h] < First => old[h] = 0 \/ (old[h] + MINMATCH <= First
                                             /\ old[h] + MINMATCH <= call.startIndex)
      /\ old[h] > First => LZ4_hashPosition(old[h] + base) = h
  BY DEF Tabled
<1>4. CASE h \in TakenOut(next)
  BY <1>1, <1>4
<1>5. CASE h \notin TakenOut(next)
  <2>1. table[h] = old[h]
    BY <1>5
  <2>2. ASSUME old[h] # 0, old[h] > next - 1 - base PROVE FALSE
    <3> DEFINE p == old[h] + base
    <3>0. old[h] <= Newest - base /\ old[h] \in Nat
      BY <1>3, <2>2
    <3>1. p \in next..filledIp /\ old[h] > First
      BY <1>1, <1>2, <2>2, <3>0 DEF Greater
    <3>2. LZ4_hashPosition(p) = h
      BY <1>3, <3>1
    <3> HIDE DEF p
    <3> QED BY <1>5, <3>1, <3>2 DEF TakenOut
  <2>3. old[h] = 0 \/ old[h] <= next - 1 - base
    BY <1>1, <1>3, <2>2
  <2> QED BY <1>3, <2>1, <2>3
<1> QED BY <1>4, <1>5

\* An entry that is taken out is like one that was never made.
LEMMA TabledZeroed ==
    ASSUME FormatOfLz4, call \in CallType,
           NEW old \in [HashValues -> Nat], NEW n \in Int, Tabled(old, n),
           NEW table \in [HashValues -> Nat],
           \A h \in HashValues : table[h] = 0 \/ table[h] = old[h]
    PROVE  Tabled(table, n)
<1>1. First \in Nat
  BY BlockBounds
<1>2. ASSUME NEW h \in HashValues
      PROVE  /\ table[h] = 0 \/ table[h] <= n - base
             /\ table[h] < First => table[h] = 0 \/ (table[h] + MINMATCH <= First
                                               /\ table[h] + MINMATCH <= call.startIndex)
             /\ table[h] > First => LZ4_hashPosition(table[h] + base) = h
  <2>1. CASE table[h] = 0
    BY <1>1, <2>1
  <2>2. CASE table[h] = old[h]
    BY <2>2 DEF Tabled
  <2> QED BY <2>1, <2>2
<1> QED BY <1>2 DEF Tabled

LEMMA Joined ==
    ASSUME NEW S, NEW s \in Seq(S), NEW t \in Seq(S)
    PROVE  s \o t \in Seq(S) /\ Len(s \o t) = Len(s) + Len(t)
OBVIOUS

LEMMA ElementOf ==
    ASSUME NEW S, NEW s \in Seq(S), NEW k \in 1..Len(s)
    PROVE  s[k] \in S
OBVIOUS

LEMMA Replaced ==
    ASSUME NEW S, NEW s \in Seq(S), NEW k \in 1..Len(s), NEW x \in S
    PROVE  [s EXCEPT ![k] = x] \in Seq(S) /\ Len([s EXCEPT ![k] = x]) = Len(s)
OBVIOUS

\* The bytes of an offset, and the rest of a length.
LEMMA MatchBytesAre ==
    ASSUME FormatOfLz4, NEW n \in Nat, offset \in Int
    PROVE  LET two  == <<offset % (MaxByte + 1), (offset \div (MaxByte + 1)) % (MaxByte + 1)>>
               rest == IF n >= ML_MASK THEN LengthBytes(n - ML_MASK) ELSE <<>>
           IN  /\ two \in Seq(0..MaxByte) /\ Len(two) = 2
               /\ rest \in Seq(0..MaxByte) /\ Len(rest) = Extra(n)
<1> DEFINE two  == <<offset % (MaxByte + 1), (offset \div (MaxByte + 1)) % (MaxByte + 1)>>
           rest == IF n >= ML_MASK THEN LengthBytes(n - ML_MASK) ELSE <<>>
<1>1. MaxByte = 255 /\ ML_MASK = RUN_MASK
  BY DEF FormatOfLz4
<1>2. /\ offset % (MaxByte + 1) \in 0..MaxByte
      /\ (offset \div (MaxByte + 1)) % (MaxByte + 1) \in 0..MaxByte
  <2>1. ASSUME NEW x \in Int PROVE x % 256 \in Nat /\ x % 256 <= 255
    OBVIOUS
  <2>2. offset \div 256 \in Int
    OBVIOUS
  <2>3. MaxByte + 1 = 256
    BY <1>1
  <2>4. offset % 256 \in 0..255 /\ (offset \div 256) % 256 \in 0..255
    BY <2>1, <2>2
  <2> QED BY <1>1, <2>3, <2>4
<1>3. two \in Seq(0..MaxByte) /\ Len(two) = 2
  BY <1>2
<1>4. rest \in Seq(0..MaxByte) /\ Len(rest) = Extra(n)
  BY <1>1, LengthPart
<1> QED BY <1>3, <1>4

\* The token gets its length.
LEMMA TokenCompleted ==
    ASSUME FormatOfLz4, out \in Seq(0..MaxByte), token \in 1..Len(out),
           out[token] % (ML_MASK + 1) = 0, NEW n \in Nat
    PROVE  LET s == [out EXCEPT ![token] = @ + Lesser(n, ML_MASK)]
           IN  s \in Seq(0..MaxByte) /\ Len(s) = Len(out)
<1>1. MaxByte = 255 /\ ML_MASK = 15
  BY DEF FormatOfLz4
<1>2. out[token] \in 0..MaxByte
  BY ElementOf
<1>a. ML_MASK + 1 = 16
  BY <1>1
<1> DEFINE t == out[token]
           v == t + Lesser(n, ML_MASK)
<1>b. out[token] % 16 = 0
  BY <1>a
<1> HIDE DEF t
<1>3. t \in Nat /\ t <= 255 /\ t % 16 = 0
  <2>1. t \in 0..MaxByte /\ t % 16 = 0
    BY <1>2, <1>b DEF t
  <2>2. t \in Nat /\ t <= MaxByte
    BY <2>1, FormatAssumption
  <2> QED BY <1>1, <2>1, <2>2
<1>4. v \in Nat /\ v <= 255
  <2>1. Lesser(n, ML_MASK) \in Nat /\ Lesser(n, ML_MASK) <= 15
    BY <1>1 DEF Lesser
  <2> QED BY <1>3, <2>1
<1>5. v \in 0..MaxByte
  <2> HIDE DEF v
  <2> QED BY <1>1, <1>4
<1>6. [out EXCEPT ![token] = @ + Lesser(n, ML_MASK)] = [out EXCEPT ![token] = v]
  BY DEF t
<1> HIDE DEF v
<1>7. [out EXCEPT ![token] = v] \in Seq(0..MaxByte) /\ Len([out EXCEPT ![token] = v]) = Len(out)
  BY <1>5, Replaced
<1> QED BY <1>6, <1>7

LEMMA EncodeMatchKeeps ==
    ASSUME FormatOfLz4, CompressorInv, EncodeMatch, UNCHANGED <<kind, phase, calls, dpc>>
    PROVE  CompressorInv'
<1> DEFINE o    == Len(out)
           op   == Len(out) + 2
           code == MatchLength
           long == /\ call.directive # "notLimited"
                   /\ op + (1 + LASTLITERALS) + (code + MaxByte - ML_MASK) \div MaxByte > call.cap
           n    == IF long THEN ML_MASK - 1 + (call.cap - op - 1 - LASTLITERALS) * MaxByte ELSE code
           next == ip + MINMATCH + n
           undone == IF long THEN TakenOut(next) ELSE {}
           two  == <<offset % (MaxByte + 1), (offset \div (MaxByte + 1)) % (MaxByte + 1)>>
           rest == IF n >= ML_MASK THEN LengthBytes(n - ML_MASK) ELSE <<>>
           done == [out EXCEPT ![token] = @ + Lesser(n, ML_MASK)]
           text == done \o two \o rest
           i    == ip - call.source
           written == IF n < ML_MASK \/ (long /\ limited) THEN op
                      ELSE op + MINMATCH * ((n - ML_MASK) \div (MINMATCH * MaxByte) + 1)
<1>1. /\ pc = "match" /\ pc \in Stages /\ ~MustRewind
      /\ high' = Greater(high, written)
      /\ UNCHANGED <<call, match, lowLimit, offset, filledIp, search, token>>
      /\ IF long /\ limited
         THEN Finish(strm.work, call, <<>>, 0) /\ UNCHANGED <<ip, anchor>>
         ELSE /\ out' = text
              /\ ip' = next
              /\ anchor' = next
              /\ strm' = [strm EXCEPT !.work.table =
                              [h \in DOMAIN @ |-> IF h \in undone THEN 0 ELSE @[h]]]
              /\ pc' = IF next >= mflimitPlusOne THEN "lastLiterals" ELSE "testNext"
              /\ UNCHANGED <<mem, input, ret>>
  BY DEF EncodeMatch, Stages, MustRewind
<1>2. /\ phase = "compressing" /\ call \in CallType
      /\ mem \in [0..MemHi -> HashedBytes]
      /\ strm \in [work : StreamType, dict : StreamType] /\ strm.work \in StreamType
      /\ strm.work.table \in [HashValues -> Nat]
      /\ out \in Seq(0..MaxByte)
  BY <1>1, StageFacts
<1>3. /\ call.source \in Nat /\ call.size \in Nat /\ call.cap \in Nat
      /\ anchor \in Nat /\ anchor >= call.source
      /\ iend = call.source + call.size /\ iend \in Nat
      /\ filledIp \in Int /\ mflimitPlusOne = iend - 11
  BY <1>1, StageFacts, CallFields, BlockBounds
<1>a. o \in Nat /\ high \in Nat /\ high <= Room /\ op = o + 2
  BY <1>1, StageFacts
<1>4. /\ offset \in Int
      /\ ip \in anchor..(iend - MFLIMIT) /\ filledIp <= iend - MFLIMIT
      /\ Tabled(strm.work.table, Highest)
      /\ ~Ambiguous => Tabled(strm.work.table, Newest)
      /\ Newest = Greater(ip, filledIp)
      /\ token \in 1..Len(out) /\ out[token] % (ML_MASK + 1) = 0
      /\ o <= Grows(ip - call.source) + 2
      /\ limited => o + LASTLITERALS <= call.cap
  BY <1>1, <1>2 DEF CompressorInv, CursorInv, IndexInv, Newest, SizeInv
<1>5. /\ MFLIMIT = 12 /\ MINMATCH = 4 /\ MaxByte = 255 /\ LASTLITERALS = 5
      /\ RUN_MASK = 15 /\ ML_MASK = 15
  BY DEF FormatOfLz4
<1>6. /\ ip \in Nat /\ ip <= iend - 12 /\ ip >= anchor /\ filledIp <= iend - 12
      /\ Newest \in Int /\ Newest <= iend - 12
  BY <1>3, <1>4, <1>5 DEF Greater
<1>7. code \in Nat /\ ip + 4 + code <= iend - 5 /\ (~Ambiguous => filledIp < ip + 4 + code)
  BY <1>1, MatchLengthIs
<1>8. filling => o + 11 <= call.cap
  <2>1. filling => ~(o + 2 + 1 + MFLIMIT - MINMATCH > call.cap)
    BY <1>1 DEF MustRewind
  <2> HIDE DEF o
  <2> QED BY <1>3, <1>5, <1>a, <2>1
<1>9. i \in Nat /\ i + 4 + code + 5 <= call.size /\ op \in Nat /\ op <= i + i \div 255 + 4
  <2>a. i \in Nat
    BY <1>3, <1>6
  <2>1. i \in Nat /\ o <= i + i \div 255 + 2
    BY <1>4, <1>5, <2>a DEF Grows
  <2> HIDE DEF i
  <2>2. i = ip - call.source
    BY DEF i
  <2> HIDE DEF o, op, code
  <2> QED BY <1>3, <1>6, <1>7, <1>a, <2>1, <2>2
<1> HIDE DEF o, op, code, i
<1>10. /\ long <=> /\ call.directive # "notLimited"
                   /\ op + 6 + (code + 240) \div 255 > call.cap
       /\ n = IF long THEN 14 + (call.cap - op - 6) * 255 ELSE code
       /\ next = ip + 4 + n
  <2>1. code + MaxByte - ML_MASK = code + 240 /\ 1 + LASTLITERALS = 6
        /\ call.cap - op - 1 - LASTLITERALS = call.cap - op - 6 /\ ML_MASK - 1 = 14
    BY <1>3, <1>5, <1>7, <1>9
  <2> QED BY <1>5, <2>1
<1>11. /\ base' = base /\ iend' = iend /\ filling' = filling /\ limited' = limited
       /\ Room' = Room /\ maybe_extMem' = maybe_extMem /\ dictEnd' = dictEnd
       /\ Highest' = Highest /\ (Ambiguous' <=> Ambiguous) /\ Highest \in Int
  BY <1>1, <1>2, SameCall, HighestIs
<1>12. /\ limited \/ filling => Room = call.cap
       /\ call.directive = "notLimited" => Room = LZ4_compressBound(call.size)
       /\ LZ4_compressBound(call.size) = call.size + call.size \div 255 + 16
       /\ call.directive = "notLimited" \/ limited \/ filling
       /\ call.directive = "notLimited" <=> ~limited /\ ~filling
       /\ ~(limited /\ filling)
  BY <1>2, RoomIs
<1> HIDE DEF long
<1>b. op <= Room /\ Room \in Nat
  <2>1. CASE call.directive = "notLimited"
    <3>1. MatchFits(i, code, call.size, op)
      BY <1>3, <1>7, <1>9, MatchGrows
    <3>2. Extra(code) \in Nat
      BY <1>7, ExtraIs
    <3>3. call.size \div 255 \in Nat
      BY <1>3
    <3> QED BY <1>3, <1>9, <1>12, <2>1, <3>1, <3>2, <3>3 DEF MatchFits
  <2>2. CASE limited \/ filling
    <3>1. o + 5 <= call.cap
      <4>1. limited => o + 5 <= call.cap
        BY <1>4, <1>5
      <4>2. filling => o + 5 <= call.cap
        BY <1>3, <1>a, <1>8
      <4> QED BY <2>2, <4>1, <4>2
    <3> QED BY <1>3, <1>a, <1>12, <2>2, <3>1
  <2> QED BY <1>12, <2>1, <2>2
<1>13. CASE long /\ limited
  <2>1. Finish(strm.work, call, <<>>, 0) /\ high' = Greater(high, op)
    BY <1>1, <1>13
  <2>2. ~(Room >= LZ4_compressBound(call.size))
    <3>1. op + 6 + (code + 240) \div 255 <= call.size + call.size \div 255 + 16
      <4>1. call.size \in Nat
        BY <1>3
      <4>2. MatchFits(i, code, call.size, op)
        BY <1>7, <1>9, <4>1, MatchGrows
      <4> QED BY <4>2 DEF MatchFits
    <3>2. op + 6 + (code + 240) \div 255 > call.cap
      BY <1>10, <1>13
    <3> QED BY <1>3, <1>7, <1>9, <1>12, <1>13, <3>1, <3>2
  <2>3. <<>> \in Seq(0..MaxByte) /\ Len(<<>>) = 0 /\ Len(<<>>) <= Room /\ 0 \in Nat
    BY <1>3, <1>12, <1>13
  <2>4. high' \in Nat /\ high' <= Room
    BY <1>a, <1>b, <1>9, <2>1 DEF Greater
  <2> QED BY <1>1, <2>1, <2>2, <2>3, <2>4, FinishKeeps
<1>14. CASE ~(long /\ limited)
  <2>1. /\ out' = text
        /\ high' = Greater(high, IF n < ML_MASK THEN op
                   ELSE op + MINMATCH * ((n - ML_MASK) \div (MINMATCH * MaxByte) + 1))
        /\ ip' = next
        /\ anchor' = next
        /\ strm' = [strm EXCEPT !.work.table =
                        [h \in DOMAIN @ |-> IF h \in undone THEN 0 ELSE @[h]]]
        /\ pc' = IF next >= mflimitPlusOne THEN "lastLiterals" ELSE "testNext"
        /\ UNCHANGED <<mem, input, ret>>
    BY <1>1, <1>14
  <2> DEFINE len == op + Extra(n)
  <2>2. /\ n \in Nat /\ n <= code /\ Extra(n) \in Nat
        /\ len + 3 <= Room /\ (filling \/ limited => len + 6 <= call.cap)
        /\ long => filling /\ len + 6 = call.cap
    <3>1. CASE long
      <4>1. filling /\ Room = call.cap
        BY <1>10, <1>12, <1>14, <3>1
      <4> DEFINE room == call.cap - op - 6
      <4>2. room \in Nat /\ room >= 1 /\ (code + 240) \div 255 > room
        <5>1. o + 11 <= call.cap /\ op + 6 + (code + 240) \div 255 > call.cap
          BY <1>8, <1>10, <3>1, <4>1
        <5> QED BY <1>3, <1>7, <1>9, <1>a, <5>1
      <4>a. op + room + 6 = call.cap
        BY <1>3, <1>9
      <4> HIDE DEF room
      <4>3. n = 14 + room * 255
        BY <1>10, <3>1 DEF room
      <4> HIDE DEF n
      <4>4. n \in Nat /\ n < code /\ Extra(n) = room
        BY <1>7, <4>2, <4>3, CutMatchFits
      <4> QED BY <1>3, <1>7, <1>9, <4>1, <4>2, <4>a, <4>4
    <3>2. CASE ~long
      <4>1. n = code
        BY <1>10, <3>2
      <4> HIDE DEF n
      <4>2. call.size \in Nat
        BY <1>3
      <4>3. /\ op + Extra(code) + 3 <= call.size + call.size \div 255 + 16
            /\ Extra(code) <= (code + 240) \div 255
        <5>1. op + Extra(code) + 3 <= call.size + call.size \div 255 + 16
          <6>1. MatchFits(i, code, call.size, op)
            BY <1>7, <1>9, <4>2, MatchGrows
          <6> QED BY <6>1 DEF MatchFits
        <5> QED BY <1>7, <5>1, ExtraIs
      <4>4. Extra(code) \in Nat
        BY <1>7, ExtraIs
      <4>5. CASE call.directive = "notLimited"
        BY <1>12, <3>2, <4>1, <4>3, <4>4, <4>5, <1>7
      <4>6. CASE call.directive # "notLimited"
        <5>1. op + 6 + (code + 240) \div 255 <= call.cap
          BY <1>3, <1>7, <1>9, <1>10, <3>2, <4>6
        <5>2. Room = call.cap
          BY <1>12, <4>6
        <5>3. call.cap \in Nat /\ op \in Nat
          BY <1>3, <1>9
        <5> QED BY <1>7, <3>2, <4>1, <4>3, <4>4, <5>1, <5>2, <5>3
      <4> QED BY <4>5, <4>6
    <3> QED BY <3>1, <3>2
  <2> HIDE DEF n
  <2>3. /\ len <= (i + 4 + n) + (i + 4 + n) \div 255 /\ i + 4 + n + 5 <= call.size
        /\ len \in Nat /\ len >= 2
    <3>1. call.size \in Nat /\ i + 4 + n + 5 <= call.size /\ n \in Nat
      BY <1>3, <1>7, <1>9, <2>2
    <3>2. op + Extra(n) <= (i + 4 + n) + (i + 4 + n) \div 255
      <4>1. MatchFits(i, n, call.size, op)
        BY <1>9, <3>1, MatchGrows
      <4> QED BY <4>1 DEF MatchFits
    <3> QED BY <1>9, <1>a, <2>2, <3>1, <3>2
  <2>4. /\ next \in Nat /\ next = ip + 4 + n /\ next <= iend - 5 /\ next >= ip + 4
        /\ ~long /\ ~Ambiguous => filledIp < next
    <3>1. next = ip + 4 + n
      BY <1>10
    <3>2. ~long => n = code
      BY <1>10
    <3> HIDE DEF next
    <3> QED BY <1>3, <1>6, <1>7, <2>2, <3>1, <3>2
  <2> HIDE DEF next
  <2>5. out' \in Seq(0..MaxByte) /\ Len(out') = len
    <3>1. /\ two \in Seq(0..MaxByte) /\ Len(two) = 2
          /\ rest \in Seq(0..MaxByte) /\ Len(rest) = Extra(n)
      BY <1>4, <2>2, MatchBytesAre
    <3>2. done \in Seq(0..MaxByte) /\ Len(done) = o
      BY <1>2, <1>4, <2>2, TokenCompleted DEF o
    <3> HIDE DEF two, rest, done
    <3>3. done \o two \in Seq(0..MaxByte) /\ Len(done \o two) = o + 2
      BY <3>1, <3>2, Joined
    <3>4. /\ done \o two \o rest \in Seq(0..MaxByte)
          /\ Len(done \o two \o rest) = (o + 2) + Extra(n)
      BY <3>1, <3>3, Joined, SMTT(30)
    <3>5. (o + 2) + Extra(n) = len
      BY <1>a, <2>2
    <3> QED BY <2>1, <3>4, <3>5
  <2> HIDE DEF text
  <2>6. high' \in Nat /\ high' <= Room
    <3>1. CASE n < 15
      <4>1. high' = Greater(high, op)
        BY <1>5, <2>1, <3>1
      <4> QED BY <1>a, <1>b, <1>9, <4>1 DEF Greater
    <3>2. CASE n >= 15
      <4> DEFINE f == 4 * ((n - 15) \div 1020 + 1)
      <4>1. high' = Greater(high, op + f)
        <5>1. ~(n < ML_MASK) /\ MINMATCH * MaxByte = 1020
          BY <1>5, <2>2, <3>2
        <5> QED BY <1>5, <2>1, <5>1
      <4>2. f \in Nat /\ f <= Extra(n) + 3
        BY <2>2, <3>2, FoursAre
      <4>3. Room \in Nat
        BY <1>3, <1>12
      <4> HIDE DEF f
      <4>4. op + f \in Nat /\ op + f <= Room
        BY <1>9, <2>2, <4>2, <4>3
      <4> QED BY <1>a, <4>1, <4>4 DEF Greater
    <3> QED BY <2>2, <3>1, <3>2
  <2> DEFINE table == strm'.work.table
  <2>7. /\ strm' \in [work : StreamType, dict : StreamType] /\ strm'.dict = strm.dict
        /\ strm'.work = [strm.work EXCEPT !.table = strm'.work.table]
        /\ table \in [HashValues -> Nat]
        /\ \A h \in HashValues : table[h] = IF h \in undone THEN 0 ELSE strm.work.table[h]
    <3> DEFINE t == [h \in HashValues |-> IF h \in undone THEN 0 ELSE strm.work.table[h]]
               w == [strm.work EXCEPT !.table = t]
    <3>1. t \in [HashValues -> Nat]
      BY <1>2
    <3>2. strm' = [strm EXCEPT !.work.table = t]
      BY <1>2, <2>1
    <3>3. t = [h \in HashValues |-> IF h \in undone THEN 0 ELSE strm.work.table[h]]
      OBVIOUS
    <3> HIDE DEF t
    <3>4. strm' = [strm EXCEPT !.work = w]
      BY <1>2, <3>2
    <3>5. w \in StreamType /\ w.table = t
      BY <1>2, <3>1 DEF StreamType
    <3>6. w = [strm.work EXCEPT !.table = w.table]
      BY <3>5
    <3> HIDE DEF w
    <3>7. strm'.work = w /\ strm'.dict = strm.dict
          /\ strm' \in [work : StreamType, dict : StreamType]
      BY <1>2, <3>4, <3>5
    <3> QED BY <3>1, <3>3, <3>5, <3>6, <3>7
  <2>8. ASSUME ~Ambiguous PROVE Tabled(table, next - 1)
    <3>1. CASE long
      <4>1. undone = TakenOut(next)
        BY <3>1 DEF next
      <4>2. /\ call \in CallType /\ pc = "match" /\ strm.work.table \in [HashValues -> Nat]
            /\ Tabled(strm.work.table, Newest) /\ ip \in Nat /\ filledIp \in Int
            /\ next \in Nat /\ next > ip /\ next > call.source
            /\ table \in [HashValues -> Nat]
            /\ \A h \in HashValues : table[h] = IF h \in TakenOut(next) THEN 0
                                                ELSE strm.work.table[h]
        <5>1. next > ip /\ next > call.source /\ next \in Nat
          BY <1>3, <1>6, <2>4
        <5>2. \A h \in HashValues : table[h] = IF h \in TakenOut(next) THEN 0
                                                ELSE strm.work.table[h]
          BY <2>7, <4>1
        <5> HIDE DEF table, undone
        <5> QED BY <1>1, <1>2, <1>3, <1>4, <1>6, <2>7, <2>8, <5>1, <5>2
      <4> HIDE DEF table
      <4> QED BY ONLY FormatOfLz4, <4>2, TabledCut
    <3>2. CASE ~long
      <4>1. table = strm.work.table
        BY <1>2, <2>7, <3>2
      <4>2. Newest <= next - 1 /\ next - 1 \in Int
        <5>1. /\ next \in Nat /\ next >= ip + 4 /\ filledIp < next
              /\ ip \in Nat /\ filledIp \in Int
          BY <1>3, <1>6, <2>4, <2>8, <3>2
        <5>2. Newest = Greater(ip, filledIp)
          BY <1>4
        <5> QED BY ONLY <5>1, <5>2 DEF Greater
      <4> HIDE DEF table
      <4> QED BY <1>2, <1>4, <1>6, <2>8, <4>1, <4>2, TabledLater
    <3> QED BY <3>1, <3>2
  <2>a. Tabled(table, Highest)
    <3> HIDE DEF table, undone
    <3>1. \A h \in HashValues : table[h] = 0 \/ table[h] = strm.work.table[h]
      BY <2>7
    <3> QED BY <1>2, <1>4, <1>11, <2>7, <3>1, TabledZeroed
  <2> HIDE DEF table
  <2>9. pc' \in {"lastLiterals", "testNext"} /\ pc' \in Stages
    BY <2>1 DEF Stages
  <2>10. ASSUME ~Ambiguous PROVE Tabled(table, Newest')
    <3>1. CASE pc' = "lastLiterals"
      <4>1. Newest' = Highest
        BY <1>11, <3>1 DEF Newest
      <4> QED BY <2>a, <4>1
    <3>2. CASE pc' = "testNext"
      <4>1. Newest' = next - 1
        BY <2>1, <3>2 DEF Newest
      <4> QED BY <2>8, <2>10, <4>1
    <3> QED BY <2>9, <3>1, <3>2
  <2>11. /\ PhaseInv' /\ MemoryInv' /\ CallInv' /\ TablesInv' /\ SourceInv'
         /\ IndexInv' /\ ReturnInv'
    BY <1>1, <2>1, <2>7, <2>9, <2>a, <2>10, StageStays DEF table
  <2>12. /\ anchor' = next /\ ip' = next /\ call' = call /\ lowLimit' = lowLimit
         /\ filledIp' = filledIp /\ phase' = phase
         /\ pc' = "testNext" => next <= iend - 12
    <3>1. pc' = "testNext" => ~(next >= mflimitPlusOne)
      BY <2>1
    <3> QED BY <1>1, <1>3, <2>1, <2>4, <3>1
  <2>13. CursorInv'
    <3>1. anchor' \in call.source..iend /\ ip' >= call.source + MINMATCH
      BY <1>3, <1>5, <1>6, <2>4, <2>12
    <3>2. lowLimit' \in Int /\ filledIp' \in Int
      BY <1>1, <2>12, StageFacts
    <3>3. pc' = "testNext" => ip' \in anchor'..(iend - MFLIMIT) /\ filledIp' <= iend - MFLIMIT
      BY <1>3, <1>5, <1>6, <2>4, <2>12
    <3>4. ip' = anchor'
      BY <2>12
    <3> QED BY <1>11, <2>9, <2>12, <3>1, <3>2, <3>3, <3>4 DEF CursorInv
  <2>14. SizeInv'
    <3>1. Len(out') <= Grows(anchor' - call.source)
      <4>1. anchor' - call.source = i + 4 + n
        BY <1>3, <1>6, <2>2, <2>4, <2>12 DEF i
      <4>2. len <= (i + 4 + n) + (i + 4 + n) \div 255 /\ Len(out') = len
        BY <2>3, <2>5
      <4> QED BY <1>5, <4>1, <4>2 DEF Grows
    <3>2. FillInv(Len(out'), filling \/ limited)
      <4>1. filling \/ limited => len + 1 + LASTLITERALS <= call.cap
        BY <1>3, <1>5, <2>2, <2>3
      <4> QED BY <2>5, <4>1 DEF FillInv
    <3>3. Len(out') > 0 /\ out' \in Seq(0..MaxByte)
      BY <2>3, <2>5
    <3> QED BY <1>11, <2>6, <2>9, <2>12, <3>1, <3>2, <3>3 DEF SizeInv, FillInv, Grows
  <2>15. MatchInv'
    <3>1. pc' = "testNext" /\ ~Ambiguous =>
              filledIp' < ip' \/ (filling /\ Len(out') + MFLIMIT > call.cap)
      <4>1. CASE ~long
        BY <2>4, <2>12, <4>1
      <4>2. CASE long
        <5>1. filling /\ len + 6 = call.cap /\ Len(out') = len
          BY <2>2, <2>5, <4>2
        <5> QED BY <1>3, <1>5, <2>3, <5>1
      <4> QED BY <4>1, <4>2
    <3> QED BY <1>11, <2>9, <2>12, <3>1 DEF MatchInv
  <2> QED BY <2>11, <2>13, <2>14, <2>15 DEF CompressorInv
<1> QED BY <1>13, <1>14

\* Where a search starts its count.
LEMMA FirstCount ==
    LET nb == acceleration * 2^skipTrigger
    IN  nb \in Nat /\ nb >= 2^skipTrigger
<1> DEFINE k == 2^skipTrigger
<1>1. k \in Nat /\ acceleration \in Nat /\ acceleration >= 1
  BY CompressAssumption
<1> HIDE DEF k
<1>2. acceleration * k \in Nat /\ acceleration * k >= k
  <2>1. acceleration * k = k + (acceleration - 1) * k
    BY <1>1
  <2>2. (acceleration - 1) * k \in Nat
    BY <1>1
  <2> QED BY <1>1, <2>1, <2>2
<1> QED BY <1>2 DEF k

LEMMA TestNextKeeps ==
    ASSUME FormatOfLz4, CompressorInv, TestNext, UNCHANGED <<kind, phase, calls, dpc>>
    PROVE  CompressorInv'
<1> DEFINE filled == Put(ip - 2)
           c == Candidate(filled.work.table, LZ4_hashPosition(ip))
           o == Len(out)
<1>1. /\ pc = "testNext" /\ pc \in Stages
      /\ UNCHANGED <<mem, input, call, anchor, filledIp, ret>>
      /\ IF Usable(c, ip)
         THEN /\ pc' = "match"
              /\ Found(c, ip)
              /\ out' = Append(out, 0)
              /\ token' = Len(out) + 1
              /\ high' = Greater(high, Len(out) + 1)
              /\ UNCHANGED <<ip, search>>
         ELSE /\ pc' = "search"
              /\ ip' = ip + 1
              /\ search' = [next |-> ip + 1, step |-> 1, nb |-> acceleration * 2^skipTrigger]
              /\ UNCHANGED <<match, lowLimit, offset, out, token, high>>
  BY DEF TestNext, Stages
<1>2. filled = Entered(strm, ip - 2) /\ strm' = Entered(filled, ip)
  BY DEF TestNext, Put, Entered
<1>3. /\ phase = "compressing" /\ call \in CallType /\ ModeFacts
      /\ iend <= MemHi + 1 /\ mem \in [0..MemHi -> HashedBytes]
      /\ strm \in [work : StreamType, dict : StreamType]
      /\ strm.work \in StreamType /\ strm.dict \in StreamType
      /\ strm.work.table \in [HashValues -> Nat] /\ Aged(strm.dict)
      /\ lowLimit \in Int /\ filledIp \in Int
      /\ out \in Seq(0..MaxByte)
  BY <1>1, StageFacts
<1>4. /\ ip = anchor /\ ip >= call.source + MINMATCH /\ ip \in anchor..(iend - MFLIMIT)
      /\ filledIp <= iend - MFLIMIT
      /\ Tabled(strm.work.table, Highest)
      /\ ~Ambiguous => /\ Tabled(strm.work.table, ip - 1)
                       /\ filledIp < ip \/ (filling /\ o + MFLIMIT > call.cap)
      /\ o <= Grows(anchor - call.source) /\ FillInv(o, filling \/ limited) /\ o > 0
  BY <1>1, <1>3 DEF CompressorInv, CursorInv, IndexInv, Newest, SizeInv, MatchInv
<1>5. MFLIMIT = 12 /\ MINMATCH = 4 /\ MaxByte = 255 /\ ML_MASK = 15
  BY DEF FormatOfLz4
<1>6. /\ call.source \in Nat /\ iend \in Nat /\ anchor \in Nat /\ call.cap \in Nat
      /\ mflimitPlusOne = iend - 11 /\ base \in Int
  BY <1>1, <1>3, StageFacts, BlockBounds, CallFields
<1>7. /\ ip \in Nat /\ ip >= call.source + 4 /\ ip <= iend - 12 /\ ip - 2 \in Nat
      /\ ip - 2 >= call.source /\ ip - 2 <= iend - 12 /\ ip - 1 \in Int
      /\ ip > call.source /\ ip >= call.source /\ ip - 1 < ip /\ ip - 2 <= ip - 1
      /\ ip - 1 <= ip - 1 /\ ip - 1 <= ip /\ ip <= ip /\ ip \in Int
  <2>1. ip >= call.source + 4 /\ ip <= iend - 12 /\ ip = anchor
    BY <1>4, <1>5, <1>6
  <2> QED BY <1>6, <2>1
<1>8. /\ base' = base /\ iend' = iend /\ mflimitPlusOne' = mflimitPlusOne
      /\ filling' = filling /\ Room' = Room /\ maybe_extMem' = maybe_extMem
      /\ dictEnd' = dictEnd /\ limited' = limited
      /\ Highest' = Highest /\ (Ambiguous' <=> Ambiguous)
      /\ Highest \in Int /\ ip - 2 <= Highest /\ ip <= Highest /\ Highest <= Highest
  <2>1. Highest \in Int /\ Highest >= iend - 12
    BY <1>3, HighestIs
  <2>2. ip - 2 <= Highest /\ ip <= Highest /\ Highest <= Highest
    BY <1>6, <1>7, <2>1
  <2> QED BY <1>1, <2>1, <2>2, SameCall
<1> HIDE DEF filled
<1>9. /\ ip - 2 - base \in Nat
      /\ filled \in [work : StreamType, dict : StreamType] /\ filled.dict = strm.dict
      /\ filled.work = [strm.work EXCEPT !.table = filled.work.table]
      /\ filled.work.table \in [HashValues -> Nat]
      /\ filled.work.table[LZ4_hashPosition(ip - 2)] = ip - 2 - base
      /\ \A h \in HashValues : h # LZ4_hashPosition(ip - 2) =>
             filled.work.table[h] = strm.work.table[h]
  BY ONLY FormatOfLz4, <1>2, <1>3, <1>7, PutIs, ZenonT(30)
<1>10. /\ ip - base \in Nat
       /\ strm' \in [work : StreamType, dict : StreamType] /\ strm'.dict = filled.dict
       /\ strm'.work = [filled.work EXCEPT !.table = strm'.work.table]
       /\ LZ4_hashPosition(ip) \in HashValues
       /\ strm'.work.table \in [HashValues -> Nat]
       /\ strm'.work.table[LZ4_hashPosition(ip)] = ip - base
       /\ \A h \in HashValues : h # LZ4_hashPosition(ip) =>
              strm'.work.table[h] = filled.work.table[h]
  <2>1. /\ call \in CallType /\ ModeFacts /\ mem \in [0..MemHi -> HashedBytes]
        /\ iend <= MemHi + 1 /\ filled \in [work : StreamType, dict : StreamType]
        /\ ip \in Nat /\ ip >= call.source /\ ip <= iend - 12
    BY <1>3, <1>7, <1>9
  <2>2. strm' = Entered(filled, ip)
    BY <1>2
  <2> QED BY ONLY FormatOfLz4, <2>1, <2>2, PutIs
<1>b. Tabled(strm'.work.table, Highest)
  <2> DEFINE p == ip - 2
             old == filled.work.table
             table == strm'.work.table
  <2>1. /\ call \in CallType /\ strm.work.table \in [HashValues -> Nat] /\ Highest \in Int
        /\ Tabled(strm.work.table, Highest) /\ p \in Nat /\ p >= call.source
        /\ Highest <= Highest /\ p <= Highest
        /\ old \in [HashValues -> Nat] /\ old[LZ4_hashPosition(p)] = p - base
        /\ \A h \in HashValues : h # LZ4_hashPosition(p) => old[h] = strm.work.table[h]
    BY <1>3, <1>4, <1>7, <1>8, <1>9
  <2>2. /\ ip \in Nat /\ ip >= call.source /\ ip <= Highest
        /\ table \in [HashValues -> Nat] /\ table[LZ4_hashPosition(ip)] = ip - base
        /\ \A h \in HashValues : h # LZ4_hashPosition(ip) => table[h] = old[h]
    BY <1>7, <1>8, <1>10
  <2> HIDE DEF p, old, table
  <2>3. Tabled(old, Highest)
    BY ONLY FormatOfLz4, <2>1, TabledPut
  <2>4. Tabled(table, Highest)
    BY ONLY FormatOfLz4, <2>1, <2>2, <2>3, TabledPut
  <2> QED BY <2>4 DEF table
<1>11. ASSUME ~Ambiguous PROVE Tabled(filled.work.table, ip - 1)
  <2> DEFINE p == ip - 2
             n == ip - 1
             table == filled.work.table
  <2>1. /\ call \in CallType /\ strm.work.table \in [HashValues -> Nat] /\ n \in Int
        /\ Tabled(strm.work.table, n) /\ p \in Nat /\ p >= call.source /\ n <= n /\ p <= n
        /\ table \in [HashValues -> Nat] /\ table[LZ4_hashPosition(p)] = p - base
        /\ \A h \in HashValues : h # LZ4_hashPosition(p) => table[h] = strm.work.table[h]
    BY <1>3, <1>4, <1>7, <1>9, <1>11
  <2> HIDE DEF p, n, table
  <2>2. Tabled(table, n)
    BY ONLY FormatOfLz4, <2>1, TabledPut
  <2> QED BY <2>2 DEF table, n
<1>12. ASSUME ~Ambiguous PROVE Tabled(strm'.work.table, ip)
  <2> DEFINE n == ip - 1
             old == filled.work.table
             table == strm'.work.table
  <2>1. /\ call \in CallType /\ old \in [HashValues -> Nat] /\ n \in Int
        /\ Tabled(old, n) /\ ip \in Nat /\ ip \in Int /\ ip >= call.source /\ n <= ip /\ ip <= ip
        /\ table \in [HashValues -> Nat] /\ table[LZ4_hashPosition(ip)] = ip - base
        /\ \A h \in HashValues : h # LZ4_hashPosition(ip) => table[h] = old[h]
    BY <1>3, <1>7, <1>9, <1>10, <1>11, <1>12
  <2> HIDE DEF n, old, table
  <2>2. Tabled(table, ip)
    BY ONLY FormatOfLz4, <2>1, TabledPut
  <2> QED BY <2>2 DEF table
<1>13. /\ c.at \in Int /\ c.low \in Int /\ c.index \in Int
       /\ Usable(c, ip) => SameAt(c.at, ip, MINMATCH)
       /\ ~Ambiguous /\ Usable(c, ip) =>
             /\ ip - base - c.index \in 1..DISTANCE_MAX
             /\ maybe_extMem /\ c.low = call.dictionary => c.at + MINMATCH <= dictEnd
  <2>1. ~Ambiguous => Behind(filled.work.table, ip)
    BY ONLY FormatOfLz4, <1>3, <1>7, <1>9, <1>11, TabledIsBehind
  <2>2. ip <= iend - MFLIMIT
    BY <1>5, <1>7
  <2>3. ~Ambiguous /\ Usable(c, ip) =>
             /\ ip - base - c.index \in 1..DISTANCE_MAX
             /\ maybe_extMem /\ c.low = call.dictionary => c.at + MINMATCH <= dictEnd
    BY ONLY FormatOfLz4, <1>3, <1>7, <1>9, <1>10, <2>1, <2>2, CandidateIs
  <2>4. /\ c.at \in Int /\ c.low \in Int /\ c.index \in Int
        /\ Usable(c, ip) => SameAt(c.at, ip, MINMATCH)
    BY ONLY FormatOfLz4, <1>3, <1>7, <1>9, <1>10, CandidateType
  <2> QED BY <2>3, <2>4
<1> HIDE DEF c
<1>14. ASSUME pc' \in Stages, Newest' \in Int, ip <= Newest'
       PROVE  /\ PhaseInv' /\ MemoryInv' /\ CallInv' /\ TablesInv' /\ SourceInv'
              /\ IndexInv' /\ ReturnInv'
  <2>1. ~Ambiguous => Tabled(strm'.work.table, Newest')
    BY ONLY FormatOfLz4, <1>3, <1>7, <1>10, <1>12, <1>14, TabledLater
  <2>2. strm'.work = [strm.work EXCEPT !.table = strm'.work.table]
    BY <1>3, <1>9, <1>10 DEF StreamType
  <2>3. strm'.dict = strm.dict
    BY <1>9, <1>10
  <2> QED BY <1>1, <1>b, <1>10, <1>14, <2>1, <2>2, <2>3, StageStays
<1>15. o \in Nat
  BY <1>3
<1>16. CASE Usable(c, ip)
  <2>1. /\ pc' = "match" /\ match' = c.at /\ lowLimit' = c.low
        /\ offset' = ip - base - c.index
        /\ out' = Append(out, 0) /\ token' = o + 1 /\ ip' = ip
        /\ high' = Greater(high, o + 1)
    BY <1>1, <1>16 DEF Found
  <2>2. Newest' = Greater(ip, filledIp) /\ pc' \in Stages
    BY <1>1, <2>1 DEF Newest, Stages
  <2>3. Newest' \in Int /\ ip <= Newest'
    BY <1>3, <1>7, <2>2 DEF Greater
  <2>4. CursorInv'
    <3>1. offset' \in Int /\ match' \in Int /\ lowLimit' \in Int
      BY <1>6, <1>7, <1>13, <2>1
    <3>2. ~Ambiguous' => offset' \in 1..DISTANCE_MAX
      BY <1>8, <1>13, <1>16, <2>1
    <3> QED BY <1>1, <1>3, <1>4, <1>8, <2>1, <3>1, <3>2 DEF CompressorInv, CursorInv
  <2>5. SizeInv'
    <3>1. /\ out' \in Seq(0..MaxByte) /\ Len(out') = Len(out) + 1 /\ out'[Len(out) + 1] = 0
      BY <1>3, <1>5, <2>1
    <3> HIDE DEF o
    <3>2. Len(out') = o + 1 /\ out'[token'] = 0 /\ token' \in 1..Len(out') /\ token' - 1 = o
      BY <1>15, <2>1, <3>1 DEF o
    <3>3. Len(out') <= Grows(ip - call.source) + 2
      <4>1. Grows(ip - call.source) \in Int
        BY <1>5, <1>6, <1>7 DEF Grows
      <4> QED BY <1>4, <1>15, <3>2, <4>1
    <3>4. out'[token'] % (ML_MASK + 1) = 0
      BY <1>5, <3>2
    <3>a. limited \/ filling => o + 6 <= call.cap
      BY <1>4, <1>6, <1>15 DEF FillInv, FormatOfLz4
    <3>5. high' \in Nat /\ high' <= Room
      <4>1. high \in Nat /\ high <= Room /\ call.size \in Nat
        BY <1>1, <1>3, StageFacts, CallFields
      <4>2. CASE call.directive = "notLimited"
        <5>1. Room = Grows(call.size) + 16
          BY <1>3, <4>2, RoomIs
        <5> DEFINE a == anchor - call.source
        <5>2. a \in Nat /\ a <= call.size
          <6>1. iend = call.source + call.size
            BY <1>3, BlockBounds
          <6>2. anchor <= iend /\ anchor >= call.source
            BY <1>4, <1>6, <1>7
          <6> QED BY <1>6, <4>1, <6>1, <6>2
        <5>3. o <= Grows(a)
          BY <1>4
        <5> HIDE DEF a
        <5>4. a \div 255 <= call.size \div 255 /\ a \div 255 \in Nat /\ call.size \div 255 \in Nat
          BY <4>1, <5>2
        <5>5. o + 1 <= Room /\ o + 1 \in Nat
          BY <1>5, <1>15, <4>1, <5>1, <5>2, <5>3, <5>4 DEF Grows
        <5> QED BY <2>1, <4>1, <5>5 DEF Greater
      <4>3. CASE limited \/ filling
        <5>1. Room = call.cap
          BY <1>3, <4>3, RoomIs
        <5>2. o + 1 <= Room /\ o + 1 \in Nat
          BY <1>6, <1>15, <3>a, <4>3, <5>1
        <5> QED BY <2>1, <4>1, <5>2 DEF Greater
      <4> QED BY <1>3, <4>2, <4>3, RoomIs
    <3>6. call' = call /\ anchor' = anchor /\ ip' = ip
      BY <1>1, <2>1
    <3>7. limited => Len(out') + LASTLITERALS <= call.cap
      BY <1>6, <1>15, <3>a, <3>2 DEF FormatOfLz4
    <3> QED BY <1>4, <1>8, <2>1, <3>1, <3>2, <3>3, <3>4, <3>5, <3>6, <3>7
            DEF SizeInv, FillInv, Grows
  <2>6. MatchInv'
    <3>1. ~Ambiguous => MustRewind' \/ filledIp < ip
      <4>1. CASE filling /\ o + MFLIMIT > call.cap
        <5>1. Len(out') = o + 1
          BY <1>3, <2>1
        <5>2. Len(out') + 2 + 1 + MFLIMIT - MINMATCH > call.cap
          BY <1>5, <1>6, <1>15, <4>1, <5>1
        <5> QED BY <1>1, <1>8, <4>1, <5>2 DEF MustRewind
      <4> QED BY <1>4, <4>1
    <3>2. filledIp < ip \/ Ambiguous => Agreed' = MINMATCH
      <4>1. Agreed' = MINMATCH + IF Ambiguous THEN 0 ELSE Greater(filledIp - ip, 0)
        BY <1>1, <1>8, <2>1 DEF Agreed
      <4> QED BY <1>3, <1>5, <1>7, <4>1 DEF Greater
    <3>4. InDict' = (maybe_extMem /\ c.low = call.dictionary)
      BY <1>1, <1>8, <2>1 DEF InDict
    <3>5. ~Ambiguous /\ InDict' => match' + MINMATCH <= dictEnd /\ match' < dictEnd
      <4>1. dictEnd \in Nat
        BY <1>3, BlockBounds
      <4>2. c.at \in Int /\ match' = c.at /\ (~Ambiguous /\ InDict' => c.at + 4 <= dictEnd)
        BY <1>5, <1>13, <1>16, <2>1, <3>4
      <4>3. MINMATCH = 4
        BY <1>5
      <4> QED BY ONLY <4>1, <4>2, <4>3
    <3>6. ~MustRewind' => SameAt(match, ip, Agreed)'
      BY <1>1, <1>13, <1>16, <2>1, <3>1, <3>2 DEF SameAt, Byte
    <3> QED BY <1>8, <2>1, <3>1, <3>2, <3>5, <3>6 DEF MatchInv
  <2> QED BY <1>14, <2>2, <2>3, <2>4, <2>5, <2>6 DEF CompressorInv
<1>17. CASE ~Usable(c, ip)
  <2>1. /\ pc' = "search" /\ ip' = ip + 1 /\ search'.next = ip + 1
        /\ search' = [next |-> ip + 1, step |-> 1, nb |-> acceleration * 2^skipTrigger]
        /\ UNCHANGED <<match, lowLimit, offset, out, token, high>>
    BY <1>1, <1>17
  <2>2. Newest' = ip /\ pc' \in Stages
    BY <1>7, <2>1 DEF Newest, Stages
  <2>3. CursorInv'
    <3> DEFINE nb == acceleration * 2^skipTrigger
    <3>1. nb \in Nat /\ nb >= 2^skipTrigger
      BY FirstCount
    <3> HIDE DEF nb
    <3>2. search' = [next |-> ip + 1, step |-> 1, nb |-> nb]
      BY <2>1 DEF nb
    <3>3. search' \in SearchType /\ search'.nb >= 2^skipTrigger
      BY <1>7, <3>1, <3>2 DEF SearchType
    <3>4. search'.next > anchor /\ search'.next <= mflimitPlusOne
      BY <1>4, <1>6, <1>7, <2>1
    <3> QED BY <1>1, <1>3, <1>8, <2>1, <3>3, <3>4 DEF CompressorInv, CursorInv
  <2>4. SizeInv'
    BY <1>1, <1>3, <1>8, <2>1 DEF CompressorInv, SizeInv, FillInv
  <2>5. MatchInv'
    BY <2>1 DEF MatchInv
  <2> QED BY <1>7, <1>14, <2>2, <2>3, <2>4, <2>5 DEF CompressorInv
<1> QED BY <1>16, <1>17

-----------------------------------------------------------------------------
(* A call begins.                                                             *)

\* What a caller of LZ4_compress_generic asks for.
RequestType ==
    [api : {"one", "continue"}, source : Nat, size : Nat, cap : Nat,
     directive : Directives, tableType : TableTypes, dict : DictModes,
     dictIssue : {"dictSmall", "noDictIssue"}]

\* No entry of the table can be taken for one of this call.
Prepared(s, tableType) ==
    \A h \in HashValues :
        s.table[h] = 0 \/ (tableType # "byPtr" /\ s.table[h] + MINMATCH <= s.currentOffset)

\* What the callers of LZ4_compress_generic see to, whatever the mode.
Ready(s, k) ==
    /\ s \in StreamType /\ k \in RequestType
    /\ k.source = input.source /\ k.size = input.size
    /\ Aged(s) /\ Prepared(s, k.tableType)
    /\ k.api = "one" =>
          /\ kind = "one" /\ k.dict = "noDict" /\ s.dictionary = 0 /\ s.dictSize = 0
          /\ ~s.dictCtx
          /\ s.tableType = "clearedTable" => s.currentOffset = 0
          /\ k.tableType = "byU16" => s.currentOffset + k.size < LZ4_64Klimit
    /\ k.api = "continue" =>
          /\ kind # "one" /\ k.directive = "limitedOutput" /\ k.tableType = "byU32"
          /\ k.size >= 1
          /\ InMemory(s) /\ s.dictSize <= s.currentOffset
          /\ k.dict # "noDict"
    /\ k.dict = "withPrefix64k" => s.dictionary + s.dictSize = k.source
    /\ k.dict = "usingExtDict" =>
          s.currentOffset = 0 \/ s.currentOffset >= MINMATCH
    /\ k.dict = "usingDictCtx" => s.dictCtx
    /\ s.dictCtx => DictLoaded(strm.dict) /\ s.currentOffset >= KB64

LEMMA RequestFields ==
    ASSUME NEW k \in RequestType
    PROVE  /\ k.source \in Nat /\ k.size \in Nat /\ k.cap \in Nat
           /\ k.directive \in Directives /\ k.tableType \in TableTypes
           /\ k.dict \in DictModes /\ k.api \in {"one", "continue"}
           /\ k.dictIssue \in {"dictSmall", "noDictIssue"}
BY DEF RequestType

\* The stream whose dictionary a call uses.
DictOf(s, k) == IF k.dict = "usingDictCtx" THEN strm.dict ELSE s

LEMMA CallStarts ==
    ASSUME FormatOfLz4, CompressorInv, pc = "filled", NEW s, NEW k, Ready(s, k),
           LZ4_compress_generic(s, k), phase' = "compressing", UNCHANGED <<kind, calls, dpc>>
    PROVE  /\ call' \in CallType
           /\ call'.source = k.source /\ call'.size = k.size /\ call'.cap = k.cap
           /\ call'.api = k.api /\ call'.directive = k.directive
           /\ call'.tableType = k.tableType /\ call'.dict = k.dict
           /\ call'.startIndex = s.currentOffset
           /\ call'.dictionary = DictOf(s, k).dictionary
           /\ call'.dictSize = DictOf(s, k).dictSize
           /\ call'.dictOffset = DictOf(s, k).currentOffset
           /\ k.source >= 1 /\ k.source + k.size <= MemHi + 1
           /\ call'.dictionary + call'.dictSize <= MemHi + 1
<1> DEFINE d == DictOf(s, k)
<1>1. s \in StreamType /\ strm.dict \in StreamType /\ k \in RequestType
  BY DEF Ready, CompressorInv, MemoryInv
<1>2. d \in StreamType
  BY <1>1 DEF DictOf
<1>3. call' = [source |-> k.source, size |-> k.size, cap |-> k.cap, api |-> k.api,
               directive |-> k.directive, tableType |-> k.tableType,
               dict |-> k.dict, dictIssue |-> k.dictIssue,
               startIndex |-> s.currentOffset,
               dictionary |-> d.dictionary, dictSize |-> d.dictSize,
               dictOffset |-> d.currentOffset]
  BY DEF LZ4_compress_generic, DictOf
<1>4. k.source >= 1 /\ k.source + k.size <= MemHi + 1
  BY DEF Ready, CompressorInv, MemoryInv, PhaseInv
<1>5. d.dictionary + d.dictSize <= MemHi + 1
  <2>1. InMemory(strm.dict)
    BY DEF CompressorInv, MemoryInv
  <2>2. CASE k.dict = "usingDictCtx"
    BY <2>1, <2>2 DEF DictOf, InMemory
  <2>3. CASE k.dict # "usingDictCtx" /\ k.api = "continue"
    BY <2>3 DEF DictOf, InMemory, Ready
  <2>4. CASE k.dict # "usingDictCtx" /\ k.api = "one"
    <3>1. s.dictionary = 0 /\ s.dictSize = 0
      BY <2>4 DEF Ready
    <3> QED BY <2>4, <3>1, MemoryTop DEF DictOf
  <2> QED BY <1>1, <2>2, <2>3, <2>4, RequestFields
<1> HIDE DEF d
<1>6. call' \in CallType
  BY <1>1, <1>2, <1>3, RequestFields, StreamFields DEF CallType
<1> QED BY <1>3, <1>4, <1>5, <1>6 DEF d

\* The call ends before it begins: an empty block, or no room at all.
LEMMA RefusalKeeps ==
    ASSUME FormatOfLz4, CompressorInv, pc = "filled", NEW s, NEW k, Ready(s, k),
           LZ4_compress_generic(s, k), phase' = "compressing", UNCHANGED <<kind, calls, dpc>>,
           NEW dest \in Seq(0..MaxByte), Finish(s, k, dest, 0), UNCHANGED loopVars, high' = 0,
           k.api = "one", Len(dest) <= Room', Room' >= LZ4_compressBound(k.size) => Len(dest) > 0
    PROVE  CompressorInv'
<1>1. /\ pc' = "idle" /\ out' = dest /\ ret' = [size |-> Len(dest), used |-> 0]
      /\ strm' = [strm EXCEPT !.work = s] /\ mem' = mem /\ input' = input
  BY DEF Finish
<1>2. s \in StreamType /\ strm \in [work : StreamType, dict : StreamType]
  BY DEF Ready, CompressorInv, MemoryInv
<1>3. /\ strm' \in [work : StreamType, dict : StreamType]
      /\ strm'.work = s /\ strm'.dict = strm.dict
  BY <1>1, <1>2
<1>4. /\ kind = "one" /\ s.dictionary = 0 /\ s.dictSize = 0 /\ ~s.dictCtx
      /\ s.tableType = "clearedTable" => s.currentOffset = 0
      /\ Aged(s)
  BY DEF Ready
<1>5. pc' \notin Stages
  BY <1>1 DEF Stages
<1>6. PhaseInv'
  <2>1. phase = "filled" /\ dpc = "idle"
    BY DEF CompressorInv, PhaseInv
  <2> QED BY <1>1, <1>5, <2>1 DEF CompressorInv, PhaseInv, Phases
<1>7. MemoryInv'
  <2>1. InMemory(s)
    BY <1>4, MemoryTop DEF InMemory
  <2> QED BY <1>1, <1>3, <1>4, <2>1 DEF CompressorInv, MemoryInv, InMemory
<1>8. CallInv'
  <2>1. ret' \in [size : Nat, used : Nat]
    BY <1>1
  <2> QED BY <1>5, <2>1, CallStarts DEF CallInv, iend
<1>9. CursorInv' /\ SourceInv' /\ IndexInv' /\ MatchInv'
  <2>1. filledIp' = filledIp
    BY DEF loopVars
  <2> QED BY <1>1, <1>5, <2>1 DEF CompressorInv, CursorInv, SourceInv, IndexInv, MatchInv
<1>10. SizeInv'
  <2>1. 0 <= Room'
    <3>1. CASE call'.directive = "notLimited"
      BY <3>1, CallStarts, CallFields DEF Room, LZ4_compressBound, FormatOfLz4, CallType
    <3>2. CASE call'.directive # "notLimited"
      BY <3>2, CallStarts DEF Room, CallType
    <3> QED BY <3>1, <3>2
  <2> QED BY <1>1, <2>1 DEF SizeInv
<1>11. TablesInv'
  BY <1>1, <1>3, <1>4 DEF CompressorInv, TablesInv, Aged
<1>12. ReturnInv'
  <2>1. ret' \in [size : Nat, used : Nat] /\ ret'.size = Len(dest)
    BY <1>1
  <2>2. LZ4_compressBound(call.size)' = LZ4_compressBound(k.size)
    BY CallStarts DEF LZ4_compressBound
  <2> QED BY <1>1, <2>1, <2>2 DEF ReturnInv
<1> QED BY <1>6, <1>7, <1>8, <1>9, <1>10, <1>11, <1>12 DEF CompressorInv

\* The table with which the loop starts: nothing in it is ahead.
LEMMA TableStarts ==
    ASSUME FormatOfLz4, CompressorInv, pc = "filled", NEW s, NEW k, Ready(s, k),
           LZ4_compress_generic(s, k), phase' = "compressing", UNCHANGED <<kind, calls, dpc>>,
           mem' = mem, NEW table \in [HashValues -> Nat], NEW newest \in Int,
           newest >= k.source - 1,
           \/ table = s.table
           \/ /\ newest >= k.source
              /\ \A h \in HashValues : table[h] = s.table[h]
                     \/ (h = LZ4_hashPosition(k.source)
                         /\ table[h] = IF k.tableType = "byPtr" THEN k.source ELSE s.currentOffset)
    PROVE  \A h \in HashValues :
              /\ table[h] = 0 \/ table[h] <= newest - base'
              /\ table[h] < First' => table[h] = 0 \/ (table[h] + MINMATCH <= First'
                                               /\ table[h] + MINMATCH <= call'.startIndex)
              /\ table[h] > First' => LZ4_hashPosition(table[h] + base') = h
<1>1. /\ call'.source = k.source /\ call'.startIndex = s.currentOffset
      /\ call'.tableType = k.tableType
      /\ s \in StreamType /\ k \in RequestType
  BY CallStarts DEF Ready
<1>2. /\ k.source \in Nat /\ s.currentOffset \in Nat /\ \A h \in HashValues : s.table[h] \in Nat
      /\ MINMATCH = 4
  BY <1>1, RequestFields, StreamFields DEF FormatOfLz4
<1>3. /\ First' = IF k.tableType = "byPtr" THEN k.source ELSE s.currentOffset
      /\ base' + First' = k.source /\ base' \in Int /\ First' \in Nat
  BY <1>1, <1>2 DEF First, base
<1>4. \A h \in HashValues :
          s.table[h] = 0 \/ (k.tableType # "byPtr" /\ s.table[h] + 4 <= s.currentOffset)
  BY <1>2 DEF Ready, Prepared
<1> SUFFICES ASSUME NEW h \in HashValues
             PROVE  /\ table[h] = 0 \/ table[h] <= newest - base'
                    /\ table[h] < First' => table[h] = 0 \/ (table[h] + MINMATCH <= First'
                                               /\ table[h] + MINMATCH <= call'.startIndex)
                    /\ table[h] > First' => LZ4_hashPosition(table[h] + base') = h
  OBVIOUS
<1> DEFINE e == table[h]
<1>5. e \in Nat
  OBVIOUS
<1>6. \/ e = s.table[h]
      \/ e = First' /\ newest >= k.source
  BY <1>3
<1> HIDE DEF e
<1>7. CASE e = s.table[h]
  <2>1. e = 0 \/ (First' = s.currentOffset /\ e + 4 <= s.currentOffset)
    BY <1>3, <1>4, <1>7
  <2>2. e = 0 \/ (e + 4 <= First' /\ e + 4 <= call'.startIndex)
    BY <1>1, <2>1
  <2>3. e = 0 \/ e <= newest - base'
    <3>1. PICK b \in Int : b = base'
      BY <1>3
    <3>2. PICK f \in Int : f = First'
      BY <1>3
    <3>3. newest >= (b + f) - 1 /\ (e = 0 \/ e + 4 <= f)
      BY <1>2, <1>3, <2>2, <3>1, <3>2
    <3>4. e = 0 \/ e <= newest - b
      BY <1>5, <3>3
    <3> QED BY <3>1, <3>4
  <2>4. ~(e > First')
    BY <1>3, <1>5, <2>2
  <2> QED BY <1>2, <2>2, <2>3, <2>4 DEF e
<1>8. CASE e = First' /\ newest >= k.source
  <2>1. e <= newest - base' /\ ~(e < First') /\ ~(e > First')
    BY <1>2, <1>3, <1>8
  <2> QED BY <2>1 DEF e
<1> QED BY <1>6, <1>7, <1>8

\* The mode a caller picked fits the stream it was picked for.
LEMMA ModeStarts ==
    ASSUME FormatOfLz4, CompressorInv, pc = "filled", NEW s, NEW k, Ready(s, k),
           LZ4_compress_generic(s, k), phase' = "compressing", UNCHANGED <<kind, calls, dpc>>,
           strm'.dict = strm.dict
    PROVE  ModeFacts'
<1>1. /\ call'.source = k.source /\ call'.startIndex = s.currentOffset /\ call'.size = k.size
      /\ call'.tableType = k.tableType /\ call'.dict = k.dict
      /\ call'.dictionary = DictOf(s, k).dictionary
      /\ call'.dictOffset = DictOf(s, k).currentOffset
      /\ k \in RequestType
  BY CallStarts DEF Ready
<1>2. k.api \in {"one", "continue"} /\ k.dict \in DictModes
  BY <1>1, RequestFields
<1>3. call'.tableType # "byU32" => call'.dict = "noDict"
  BY <1>1, <1>2 DEF Ready
<1>4. call'.tableType = "byU16" => call'.startIndex + call'.size < LZ4_64Klimit
  BY <1>1, <1>2 DEF Ready
<1>5. call'.dict = "usingExtDict" =>
          /\ call'.dictOffset = call'.startIndex
          /\ call'.startIndex = 0 \/ call'.startIndex >= MINMATCH
  BY <1>1 DEF Ready, DictOf
<1>6. call'.dict = "usingDictCtx" =>
          /\ DictLoaded(strm.dict)
          /\ call'.dictOffset = strm.dict.currentOffset
          /\ call'.startIndex >= call'.dictOffset
  BY <1>1 DEF Ready, DictOf, DictLoaded
<1>7. DictLoaded(strm.dict)' <=> DictLoaded(strm.dict)
  BY DEF DictLoaded
<1>9. LZ4_64Klimit' = LZ4_64Klimit
  BY DEF LZ4_64Klimit
<1> QED BY <1>3, <1>4, <1>5, <1>6, <1>7, <1>9 DEF ModeFacts

\* The loop is entered.
LEMMA LoopKeeps ==
    ASSUME FormatOfLz4, CompressorInv, pc = "filled", NEW s, NEW k, Ready(s, k),
           LZ4_compress_generic(s, k), phase' = "compressing", UNCHANGED <<kind, calls, dpc>>,
           k.size # 0, k.directive = "fillOutput" => k.cap >= 1
    PROVE  CompressorInv'
<1> DEFINE inCtx == k.dict = "usingDictCtx"
           d   == DictOf(s, k)
           ctx == [s EXCEPT !.dictSize = (IF inCtx THEN 0 ELSE @) + k.size,
                            !.dictCtx  = @ /\ ~inCtx,
                            !.currentOffset = @ + k.size,
                            !.tableType = k.tableType]
           first == IF k.tableType = "byPtr" THEN k.source ELSE s.currentOffset
           hp  == LZ4_hashPosition(k.source)
           put == [s.table EXCEPT ![hp] = Stored(first, k.tableType)]
           w   == IF k.size < 13 THEN ctx ELSE [ctx EXCEPT !.table = put]
<1>1. /\ s \in StreamType /\ k \in RequestType /\ strm.dict \in StreamType
      /\ strm \in [work : StreamType, dict : StreamType]
      /\ mem \in [0..MemHi -> HashedBytes]
      /\ k.source \in Nat /\ k.size \in Nat /\ k.cap \in Nat /\ k.size >= 1
      /\ k.directive \in Directives /\ k.tableType \in TableTypes
      /\ k.dict \in DictModes /\ k.api \in {"one", "continue"}
      /\ s.table \in [HashValues -> Nat] /\ s.currentOffset \in Nat
      /\ s.dictionary \in Nat /\ s.dictSize \in Nat /\ s.dictCtx \in BOOLEAN
      /\ d \in StreamType
  <2>1. /\ s \in StreamType /\ k \in RequestType /\ strm.dict \in StreamType
        /\ strm \in [work : StreamType, dict : StreamType]
        /\ mem \in [0..MemHi -> HashedBytes]
    BY DEF Ready, CompressorInv, MemoryInv
  <2> QED BY <2>1, RequestFields, StreamFields DEF DictOf
<1>2. /\ call' \in CallType
      /\ call'.source = k.source /\ call'.size = k.size /\ call'.cap = k.cap
      /\ call'.api = k.api /\ call'.directive = k.directive
      /\ call'.tableType = k.tableType /\ call'.dict = k.dict
      /\ call'.startIndex = s.currentOffset
      /\ call'.dictionary = d.dictionary
      /\ call'.dictSize = d.dictSize
      /\ call'.dictOffset = d.currentOffset
      /\ k.source >= 1 /\ k.source + k.size <= MemHi + 1
      /\ call'.dictionary + call'.dictSize <= MemHi + 1
  BY CallStarts
<1>3. LZ4_minLength = 13 /\ LZ4_64Klimit = KB64 + 11 /\ KB64 \in Nat /\ KB64 >= 13
  BY FormatFacts
<1>4. ~(\/ k.directive = "fillOutput" /\ k.cap < 1
        \/ k.tableType = "byU16" /\ k.size >= LZ4_64Klimit)
  <2>1. k.tableType = "byU16" => s.currentOffset + k.size < LZ4_64Klimit
    BY <1>1 DEF Ready
  <2>2. ~(k.tableType = "byU16" /\ k.size >= LZ4_64Klimit)
    BY <1>1, <1>3, <2>1
  <2> QED BY <1>1, <2>2
<1>5. /\ anchor' = k.source /\ high' = 0 /\ out' = <<>>
      /\ lowLimit' = k.source - (IF k.dict = "withPrefix64k" THEN d.dictSize ELSE 0)
      /\ UNCHANGED <<mem, input, match, offset, filledIp, token, ret>>
      /\ IF k.size < 13
         THEN pc' = "lastLiterals" /\ strm' = [strm EXCEPT !.work = ctx]
         ELSE /\ pc' = "search"
              /\ strm' = [strm EXCEPT !.work =
                     [ctx EXCEPT !.table[hp] = Stored(first, k.tableType)]]
              /\ search' = [next |-> k.source + 1, step |-> 1,
                            nb |-> acceleration * 2^skipTrigger]
  BY <1>3, <1>4 DEF LZ4_compress_generic, DictOf
<1>6. first \in Nat /\ (k.size >= 13 => Stored(first, k.tableType) = first)
  <2>1. CASE k.tableType = "byU16" /\ k.size >= 13
    <3>1. s.currentOffset + k.size < KB64 + 11
      BY <1>1, <1>3, <2>1 DEF Ready
    <3>2. s.currentOffset < KB64
      BY <1>1, <1>3, <2>1, <3>1
    <3>3. ASSUME NEW x \in Nat, NEW m \in Nat, x < m PROVE x % m = x
      BY <3>3
    <3>4. s.currentOffset % KB64 = s.currentOffset
      BY <1>1, <1>3, <3>2, <3>3
    <3> QED BY <1>1, <2>1, <3>4 DEF Stored
  <2>2. CASE ~(k.tableType = "byU16" /\ k.size >= 13)
    BY <1>1, <2>2 DEF Stored
  <2> QED BY <2>1, <2>2
<1>7. k.size >= 13 => hp \in HashValues
  <2>1. k.size >= 13 => k.source + MINMATCH <= MemHi + 1
    BY <1>1, <1>2, MemoryTop DEF FormatOfLz4
  <2> QED BY <1>1, <2>1, HashOfPosition
<1>8. /\ ctx \in StreamType /\ ctx.table = s.table
      /\ ctx.currentOffset = s.currentOffset + k.size /\ ctx.tableType = k.tableType
      /\ ctx.dictionary = s.dictionary
      /\ ctx.dictSize = (IF inCtx THEN 0 ELSE s.dictSize) + k.size
      /\ ctx.dictCtx = (s.dictCtx /\ ~inCtx)
  <2> DEFINE ds == (IF inCtx THEN 0 ELSE s.dictSize) + k.size
             dc == s.dictCtx /\ ~inCtx
             co == s.currentOffset + k.size
  <2>1. ds \in Nat /\ dc \in BOOLEAN /\ co \in Nat
    BY <1>1
  <2>2. ctx = [s EXCEPT !.dictSize = ds, !.dictCtx = dc, !.currentOffset = co,
                        !.tableType = k.tableType]
    BY <1>1 DEF StreamType
  <2> HIDE DEF ds, dc, co, ctx
  <2>3. /\ ctx \in StreamType /\ ctx.table = s.table /\ ctx.currentOffset = co
        /\ ctx.tableType = k.tableType /\ ctx.dictionary = s.dictionary
        /\ ctx.dictSize = ds /\ ctx.dictCtx = dc
    BY <1>1, <2>1, <2>2 DEF StreamType
  <2> QED BY <2>3 DEF ds, dc, co
<1> HIDE DEF ctx, first, hp, d
<1>9. /\ w \in StreamType /\ strm' = [strm EXCEPT !.work = w]
      /\ w.currentOffset = s.currentOffset + k.size /\ w.tableType = k.tableType
      /\ w.dictionary = s.dictionary
      /\ w.dictSize = (IF inCtx THEN 0 ELSE s.dictSize) + k.size
      /\ w.dictCtx = (s.dictCtx /\ ~inCtx)
      /\ w.table = IF k.size < 13 THEN s.table ELSE put
  <2>1. CASE k.size < 13
    BY <1>5, <1>8, <2>1
  <2>2. CASE ~(k.size < 13)
    <3>1. put \in [HashValues -> Nat]
      BY <1>1, <1>6, <1>7, <2>2
    <3>2. [ctx EXCEPT !.table[hp] = Stored(first, k.tableType)] = [ctx EXCEPT !.table = put]
      BY <1>8 DEF StreamType
    <3> HIDE DEF put
    <3>3. /\ w \in StreamType /\ w.table = put /\ w.currentOffset = ctx.currentOffset
          /\ w.tableType = ctx.tableType /\ w.dictionary = ctx.dictionary
          /\ w.dictSize = ctx.dictSize /\ w.dictCtx = ctx.dictCtx
      BY <1>8, <2>2, <3>1 DEF StreamType
    <3> QED BY <1>5, <1>8, <2>2, <3>2, <3>3
  <2> QED BY <2>1, <2>2
<1> HIDE DEF w
<1>10. /\ strm' \in [work : StreamType, dict : StreamType]
       /\ strm'.work = w /\ strm'.dict = strm.dict
  BY <1>1, <1>9
<1>11. pc' \in Stages /\ pc' \in {"search", "lastLiterals"} /\ phase = "filled" /\ dpc = "idle"
  BY <1>5 DEF Stages, CompressorInv, PhaseInv
<1>12. ModeFacts'
  BY <1>10, ModeStarts
<1>13. PhaseInv'
  BY <1>11 DEF CompressorInv, PhaseInv, Phases, Stages
<1>14. MemoryInv'
  <2>1. InMemory(w) \/ (k.api = "continue" /\ k.dict # "withPrefix64k")
    <3>1. CASE k.api = "one"
      <4>1. s.dictionary = 0 /\ s.dictSize = 0 /\ ~inCtx
        BY <3>1 DEF Ready
      <4> QED BY <1>1, <1>2, <1>9, <4>1, MemoryTop DEF InMemory
    <3>2. CASE k.dict = "withPrefix64k"
      <4>1. s.dictionary + s.dictSize = k.source /\ ~inCtx
        BY <3>2 DEF Ready
      <4> QED BY <1>1, <1>2, <1>9, <4>1, MemoryTop DEF InMemory
    <3> QED BY <1>1, <3>1, <3>2
  <2>2. InMemory(strm.dict) /\ input \in [source : Nat, size : Nat]
    BY DEF CompressorInv, MemoryInv
  <2> QED BY <1>1, <1>2, <1>5, <1>10, <1>11, <2>1, <2>2 DEF MemoryInv, InMemory
<1>15. CallInv'
  <2>1. iend' <= MemHi + 1 /\ ret' \in [size : Nat, used : Nat]
    BY <1>2, <1>5 DEF iend, CompressorInv, CallInv
  <2> QED BY <1>1, <1>2, <1>4, <2>1 DEF CallInv
<1>16. CursorInv'
  <2>1. anchor' \in call'.source..iend' /\ lowLimit' \in Int
    <3>1. d.dictSize \in Nat
      BY <1>1, StreamFields
    <3> QED BY <1>1, <1>2, <1>5, <3>1 DEF iend
  <2>2. filledIp' \in Int
    BY <1>5 DEF CompressorInv, CursorInv
  <2>3. pc' = "search" =>
              /\ search' \in SearchType /\ search'.nb >= 2^skipTrigger
              /\ search'.next > anchor' /\ search'.next <= mflimitPlusOne'
    <3> SUFFICES ASSUME pc' = "search"
                 PROVE  /\ search' \in SearchType /\ search'.nb >= 2^skipTrigger
                        /\ search'.next > anchor' /\ search'.next <= mflimitPlusOne'
      OBVIOUS
    <3> DEFINE nb == acceleration * 2^skipTrigger
    <3>1. nb \in Nat /\ nb >= 2^skipTrigger
      BY FirstCount
    <3>2. k.size >= 13 /\ search' = [next |-> k.source + 1, step |-> 1, nb |-> nb]
      BY <1>1, <1>5
    <3> HIDE DEF nb
    <3>3. search' \in SearchType /\ search'.nb = nb /\ search'.next = k.source + 1
      BY <1>1, <3>1, <3>2 DEF SearchType
    <3>4. mflimitPlusOne' = k.source + k.size - 11
      BY <1>1, <1>2 DEF mflimitPlusOne, iend, FormatOfLz4
    <3> QED BY <1>1, <1>5, <3>1, <3>2, <3>3, <3>4
  <2> QED BY <1>11, <2>1, <2>2, <2>3 DEF CursorInv
<1>17. SizeInv'
  <2>1. Len(out') = 0 /\ out' \in Seq(0..MaxByte) /\ anchor' - call'.source = 0
    BY <1>1, <1>2, <1>5
  <2>2. 0 <= Room' /\ Len(out') <= Grows(anchor - call.source)' /\ FillInv(Len(out), filling \/ limited)'
    <3>1. 0 \div MaxByte = 0
      BY DEF FormatOfLz4
    <3>2. Grows(anchor - call.source)' = 0
      BY <2>1, <3>1 DEF Grows
    <3>3. 0 <= Room'
      BY <1>1, <1>2 DEF Room, LZ4_compressBound, FormatOfLz4
    <3> QED BY <2>1, <3>2, <3>3 DEF FillInv
  <2> QED BY <1>5, <1>11, <2>1, <2>2 DEF SizeInv
<1>18. TablesInv'
  <2>1. Aged(strm.dict)
    BY DEF CompressorInv, TablesInv
  <2>2. Aged(strm.dict)'
    BY <1>10, <2>1 DEF Aged
  <2>3. w.dictCtx => /\ kind # "one" /\ DictLoaded(strm.dict) /\ w.currentOffset >= KB64
    BY <1>1, <1>3, <1>9 DEF Ready
  <2>4. DictLoaded(strm.dict)' <=> DictLoaded(strm.dict)
    BY <1>10 DEF DictLoaded
  <2> QED BY <1>10, <1>11, <2>2, <2>3, <2>4 DEF TablesInv
<1>19. SourceInv' /\ MatchInv' /\ ReturnInv'
  BY <1>11 DEF SourceInv, MatchInv, ReturnInv
<1>20. IndexInv'
  <2>a. /\ Highest' = IF k.size < 11 THEN k.source - 1 ELSE k.source + k.size - 12
        /\ Highest' \in Int
    <3>1. iend' = k.source + k.size /\ MFLIMIT = 12
      BY <1>2 DEF iend, FormatOfLz4
    <3>2. Highest' = Greater(k.source - 1, (k.source + k.size) - 12)
      BY <1>2, <3>1 DEF Highest
    <3> QED BY <1>1, <3>2 DEF Greater
  <2>1. Newest' = IF k.size < 13 THEN Highest' ELSE k.source
    BY <1>1, <1>5 DEF Newest
  <2> DEFINE n == Newest'
             top == Highest'
  <2>2. /\ n \in Int /\ n >= k.source - 1 /\ (k.size >= 13 => n >= k.source)
        /\ top \in Int /\ n <= top /\ base' \in Int
    <3>1. base' \in Int
      BY <1>1, <1>2 DEF base
    <3> HIDE DEF n, top
    <3>2. top = (IF k.size < 11 THEN k.source - 1 ELSE k.source + k.size - 12) /\ top \in Int
      BY <2>a DEF top
    <3>3. n = IF k.size < 13 THEN top ELSE k.source
      BY <2>1 DEF n, top
    <3> QED BY <1>1, <3>1, <3>2, <3>3
  <2>3. w.table \in [HashValues -> Nat]
    BY <1>9, StreamFields
  <2>4. \/ w.table = s.table
        \/ /\ n >= k.source
           /\ \A h \in HashValues : w.table[h] = s.table[h]
                  \/ (h = hp /\ w.table[h] = first)
    <3>1. CASE k.size < 13
      BY <1>9, <3>1
    <3>2. CASE ~(k.size < 13)
      <4>1. w.table = put /\ Stored(first, k.tableType) = first /\ n >= k.source
        BY <1>1, <1>6, <1>9, <2>2, <3>2
      <4> HIDE DEF n
      <4>2. \A h \in HashValues : w.table[h] = s.table[h] \/ (h = hp /\ w.table[h] = first)
        BY <1>1, <4>1
      <4> QED BY <4>1, <4>2
    <3> QED BY <3>1, <3>2
  <2> HIDE DEF n
  <2>5. \A h \in HashValues :
              /\ w.table[h] = 0 \/ w.table[h] <= n - base'
              /\ w.table[h] < First' => w.table[h] = 0 \/ (w.table[h] + MINMATCH <= First'
                                               /\ w.table[h] + MINMATCH <= call'.startIndex)
              /\ w.table[h] > First' => LZ4_hashPosition(w.table[h] + base') = h
    <3>1. \/ w.table = s.table
          \/ /\ n >= k.source
             /\ \A h \in HashValues : w.table[h] = s.table[h]
                    \/ (h = LZ4_hashPosition(k.source)
                        /\ w.table[h] = IF k.tableType = "byPtr" THEN k.source ELSE s.currentOffset)
      BY <2>4 DEF hp, first
    <3>2. mem' = mem
      BY <1>5
    <3> QED BY <2>2, <2>3, <3>1, <3>2, TableStarts
  <2>6. Tabled(strm.work.table, Newest)'
    <3>1. \A x : LZ4_hashPosition(x)' = LZ4_hashPosition(x)
      BY <1>5 DEF LZ4_hashPosition, Byte
    <3> QED BY <1>10, <2>5, <3>1 DEF Tabled, n
  <2>b. Tabled(strm.work.table, Highest)'
    <3>1. \A x : LZ4_hashPosition(x)' = LZ4_hashPosition(x)
      BY <1>5 DEF LZ4_hashPosition, Byte
    <3>2. PICK b \in Int : b = base'
      BY <2>2
    <3>3. \A h \in HashValues : w.table[h] = 0 \/ w.table[h] <= top - base'
      <4> SUFFICES ASSUME NEW h \in HashValues
                   PROVE  w.table[h] = 0 \/ w.table[h] <= top - b
        BY <3>2
      <4>1. /\ w.table[h] = 0 \/ w.table[h] <= n - b
            /\ w.table[h] \in Nat /\ n \in Int /\ top \in Int /\ n <= top
        BY <2>2, <2>3, <2>5, <3>2
      <4> HIDE DEF top
      <4> QED BY ONLY <3>2, <4>1
    <3> QED BY <1>10, <2>5, <3>1, <3>3 DEF Tabled
  <2>7. kind # "one" =>
          /\ w.dictSize <= w.currentOffset
          /\ k.api = "continue" /\ k.size >= 1 /\ k.tableType = "byU32"
          /\ k.dict = "withPrefix64k" => w.dictSize >= k.size
    <3>1. kind # "one" => k.api = "continue" /\ k.tableType = "byU32" /\ s.dictSize <= s.currentOffset
      BY <1>1 DEF Ready
    <3>2. s.dictSize <= s.currentOffset => w.dictSize <= w.currentOffset
      BY <1>1, <1>9
    <3>3. k.dict = "withPrefix64k" => w.dictSize >= k.size
      BY <1>1, <1>9
    <3> QED BY <1>1, <3>1, <3>2, <3>3
  <2> QED BY <1>2, <1>9, <1>10, <1>12, <2>6, <2>b, <2>7 DEF IndexInv
<1> QED BY <1>13, <1>14, <1>15, <1>16, <1>17, <1>18, <1>19, <1>20 DEF CompressorInv

\* LZ4_compress_generic, called as it should be.
LEMMA GenericKeeps ==
    ASSUME FormatOfLz4, CompressorInv, pc = "filled", NEW s, NEW k, Ready(s, k),
           LZ4_compress_generic(s, k), phase' = "compressing", UNCHANGED <<kind, calls, dpc>>
    PROVE  CompressorInv'
<1>1. /\ s \in StreamType /\ k \in RequestType
      /\ k.size \in Nat /\ k.cap \in Nat /\ k.api \in {"one", "continue"}
      /\ k.directive \in Directives
  BY RequestFields DEF Ready
<1>2. Room' = IF k.directive = "notLimited" THEN LZ4_compressBound(k.size) ELSE k.cap
  BY CallStarts DEF Room, LZ4_compressBound
<1>3. LZ4_compressBound(k.size) >= 16
  BY <1>1 DEF LZ4_compressBound, FormatOfLz4
<1>4. high' = 0
  BY DEF LZ4_compress_generic
<1>5. CASE k.size = 0
  <2> DEFINE dest == IF k.directive # "notLimited" /\ k.cap <= 0 THEN <<>> ELSE <<0>>
  <2>1. Finish(s, k, dest, 0) /\ UNCHANGED loopVars
    BY <1>5 DEF LZ4_compress_generic
  <2>2. k.api = "one"
    BY <1>1, <1>5 DEF Ready
  <2>3. dest \in Seq(0..MaxByte) /\ Len(dest) \in Nat
        /\ Len(dest) = IF k.directive # "notLimited" /\ k.cap <= 0 THEN 0 ELSE 1
    <3>1. 0 \in 0..MaxByte
      BY DEF FormatOfLz4
    <3>2. <<0>> \in Seq(0..MaxByte) /\ Len(<<0>>) = 1
      BY <3>1
    <3>3. <<>> \in Seq(0..MaxByte) /\ Len(<<>>) = 0
      OBVIOUS
    <3>4. CASE k.directive # "notLimited" /\ k.cap <= 0
      BY <3>3, <3>4
    <3>5. CASE ~(k.directive # "notLimited" /\ k.cap <= 0)
      BY <3>2, <3>5
    <3> QED BY <3>4, <3>5
  <2> HIDE DEF dest
  <2> DEFINE n == Len(dest)
  <2> HIDE DEF n
  <2>4. n = IF k.directive # "notLimited" /\ k.cap <= 0 THEN 0 ELSE 1
    BY <2>3 DEF n
  <2>5. n <= Room' /\ (Room' >= LZ4_compressBound(k.size) => n > 0)
    <3>1. PICK room \in Int : room = Room'
      BY <1>1, <1>2 DEF LZ4_compressBound, FormatOfLz4
    <3>2. PICK bound \in Int : bound = LZ4_compressBound(k.size)
      BY <1>1 DEF LZ4_compressBound, FormatOfLz4
    <3>3. room = (IF k.directive = "notLimited" THEN bound ELSE k.cap) /\ bound >= 16
      BY <1>2, <1>3, <3>1, <3>2
    <3>4. n <= room /\ (room >= bound => n > 0)
      BY <1>1, <2>4, <3>3
    <3> QED BY <3>1, <3>2, <3>4
  <2> QED BY <1>4, <2>1, <2>2, <2>3, <2>5, RefusalKeeps DEF n
<1>6. CASE k.size # 0 /\ k.directive = "fillOutput" /\ k.cap < 1
  <2>1. Finish(s, k, <<>>, 0) /\ UNCHANGED loopVars
    BY <1>6 DEF LZ4_compress_generic
  <2>2. k.api = "one"
    BY <1>1, <1>6 DEF Ready
  <2>3. Room' = 0
    BY <1>1, <1>2, <1>6
  <2>4. <<>> \in Seq(0..MaxByte) /\ Len(<<>>) = 0
    OBVIOUS
  <2>5. Len(<<>>) <= Room' /\ ~(Room' >= LZ4_compressBound(k.size))
    <3>1. PICK bound \in Int : bound = LZ4_compressBound(k.size)
      BY <1>1 DEF LZ4_compressBound, FormatOfLz4
    <3>2. bound >= 16 /\ ~(0 >= bound)
      BY <1>3, <3>1
    <3> QED BY <2>3, <2>4, <3>1, <3>2
  <2> QED BY <1>4, <2>1, <2>2, <2>4, <2>5, RefusalKeeps
<1>7. CASE k.size # 0 /\ ~(k.directive = "fillOutput" /\ k.cap < 1)
  BY <1>1, <1>7, LoopKeeps
<1> QED BY <1>5, <1>6, <1>7

\* A stream that starts afresh.
LEMMA FreshStream ==
    ASSUME TRUE
    PROVE  LET s == LZ4_initStream
           IN  /\ s \in StreamType /\ s.dictionary = 0 /\ s.dictSize = 0 /\ ~s.dictCtx
               /\ s.currentOffset = 0 /\ s.tableType = "clearedTable"
               /\ \A h \in HashValues : s.table[h] = 0
BY DEF LZ4_initStream, StreamType, HashValues

\* LZ4_prepareTable: either no index of the call is one of the table, or
\* the table is empty.
LEMMA TablePrepared ==
    ASSUME FormatOfLz4, NEW s \in StreamType, Aged(s), NEW size \in Nat, NEW type \in TableTypes
    PROVE  LET t == LZ4_prepareTable(s, size, type)
           IN  /\ t \in StreamType /\ Aged(t) /\ Prepared(t, type)
               /\ t.dictionary = 0 /\ t.dictSize = 0 /\ ~t.dictCtx
               /\ t.tableType \in {"clearedTable", type}
               /\ t.currentOffset = 0 \/ t.currentOffset >= s.currentOffset
               /\ t.currentOffset # 0 /\ type = "byU32" => t.currentOffset >= KB64
               /\ t.tableType = "clearedTable" /\ (s.tableType = "clearedTable" => s.currentOffset = 0)
                     => t.currentOffset = 0
               /\ type = "byU16" /\ t.tableType # "clearedTable"
                     => t.currentOffset + size < KB64 - 1
<1> DEFINE stale == /\ s.tableType # "clearedTable"
                    /\ \/ s.tableType # type
                       \/ type = "byU16" /\ s.currentOffset + size >= KB64 - 1
                       \/ type = "byU32" /\ s.currentOffset > GB1
                       \/ type = "byPtr"
                       \/ size >= KB4
           kept == IF stale THEN LZ4_initStream ELSE s
           gap  == IF kept.currentOffset # 0 /\ type = "byU32" THEN KB64 ELSE 0
           t    == [kept EXCEPT !.currentOffset = @ + gap, !.dictCtx = FALSE,
                                !.dictionary = 0, !.dictSize = 0]
<1>1. LZ4_prepareTable(s, size, type) = t
  BY DEF LZ4_prepareTable
<1>2. KB64 \in Nat /\ KB64 >= 13 /\ MINMATCH = 4
  BY FormatFacts DEF FormatOfLz4
<1>3. /\ kept \in StreamType /\ kept.tableType \in {"clearedTable", type}
      /\ kept = LZ4_initStream \/ (kept = s /\ ~stale)
  BY FreshStream
<1>4. Aged(kept)
  BY <1>3, FreshStream DEF Aged
<1> HIDE DEF kept
<1>5. kept.currentOffset \in Nat /\ kept.table \in [HashValues -> Nat]
  BY <1>3, StreamFields
<1>6. gap \in Nat /\ kept.currentOffset + gap \in Nat
  BY <1>2, <1>5
<1> HIDE DEF gap
<1>7. /\ t \in StreamType /\ t.table = kept.table /\ t.currentOffset = kept.currentOffset + gap
      /\ t.tableType = kept.tableType /\ t.dictCtx = FALSE /\ t.dictionary = 0 /\ t.dictSize = 0
  BY <1>3, <1>6 DEF StreamType
<1> HIDE DEF t
<1>8. kept.tableType # "clearedTable" => kept = s /\ ~stale /\ type # "byPtr" /\ kept.tableType = type
  BY <1>3, FreshStream
<1>9. ASSUME NEW h \in HashValues
      PROVE  t.table[h] = 0 \/ (type # "byPtr" /\ t.table[h] + 4 <= t.currentOffset)
  <2> DEFINE e == kept.table[h]
  <2>1. CASE kept.tableType = "clearedTable"
    BY <1>4, <1>7, <2>1 DEF Aged
  <2>2. CASE kept.tableType # "clearedTable"
    <3>1. e \in Nat /\ (e = 0 \/ e + 4 <= kept.currentOffset)
      BY <1>2, <1>4, <1>5, <1>8, <2>2 DEF Aged
    <3> HIDE DEF e
    <3>2. e = 0 \/ e + 4 <= kept.currentOffset + gap
      BY <1>5, <1>6, <3>1
    <3> QED BY <1>7, <1>8, <2>2, <3>2 DEF e
  <2> QED BY <2>1, <2>2
<1>10. Prepared(t, type)
  BY <1>2, <1>9 DEF Prepared
<1>11. Aged(t)
  BY <1>2, <1>4, <1>7, <1>9 DEF Aged
<1>12. t.currentOffset = 0 \/ t.currentOffset >= s.currentOffset
  <2>1. CASE kept = s
    BY <1>5, <1>6, <1>7, <2>1
  <2>2. CASE kept = LZ4_initStream
    BY <1>7, <2>2, FreshStream DEF gap
  <2> QED BY <1>3, <2>1, <2>2
<1>13. t.currentOffset # 0 /\ type = "byU32" => t.currentOffset >= KB64
  BY <1>2, <1>5, <1>7 DEF gap
<1>14. t.tableType = "clearedTable" /\ (s.tableType = "clearedTable" => s.currentOffset = 0)
           => t.currentOffset = 0
  <2> SUFFICES ASSUME t.tableType = "clearedTable", s.tableType = "clearedTable" => s.currentOffset = 0
               PROVE  t.currentOffset = 0
    OBVIOUS
  <2>1. kept.currentOffset = 0
    BY <1>3, <1>7, FreshStream
  <2> QED BY <1>7, <2>1 DEF gap
<1>15. type = "byU16" /\ t.tableType # "clearedTable" => t.currentOffset + size < KB64 - 1
  <2> SUFFICES ASSUME type = "byU16", t.tableType # "clearedTable"
               PROVE  t.currentOffset + size < KB64 - 1
    OBVIOUS
  <2>1. kept = s /\ ~(s.currentOffset + size >= KB64 - 1) /\ gap = 0
    BY <1>7, <1>8 DEF gap
  <2> QED BY <1>2, <1>5, <1>7, <2>1
<1> QED BY <1>1, <1>7, <1>3, <1>10, <1>11, <1>12, <1>13, <1>14, <1>15

-----------------------------------------------------------------------------
(* The calls of lz4.h.                                                        *)

LEMMA RequestIs ==
    ASSUME CompressorInv, pc = "filled", NEW cap \in Caps(kind, input.size),
           NEW api \in {"one", "continue"}, NEW directive \in Directives,
           NEW type \in TableTypes, NEW dict \in DictModes,
           NEW issue \in {"dictSmall", "noDictIssue"}
    PROVE  LET k == OneBlock(api, cap, directive, type, dict, issue)
           IN  /\ k \in RequestType /\ k.source = input.source /\ k.size = input.size
               /\ k.api = api /\ k.directive = directive /\ k.tableType = type
               /\ k.dict = dict
<1>1. input.source \in Nat /\ input.size \in Nat
  BY DEF CompressorInv, MemoryInv
<1>2. cap \in Nat
  BY DEF CompressorInv, MemoryInv, PhaseInv
<1> QED BY <1>1, <1>2 DEF OneBlock, RequestType

LEMMA TableForIs ==
    ASSUME NEW source \in Nat, NEW size \in Nat
    PROVE  /\ TableFor(source, size) \in TableTypes
           /\ TableFor(source, size) = "byU16" => size < LZ4_64Klimit
BY DEF TableFor, TableTypes

LEMMA ExtStateKeeps ==
    ASSUME FormatOfLz4, CompressorInv, kind = "one", NEW cap \in Caps(kind, input.size),
           LZ4_compress_fast_extState(cap) \/ LZ4_compress_destSize_extState(cap),
           phase' = "compressing", UNCHANGED <<kind, calls, dpc>>
    PROVE  CompressorInv'
<1> DEFINE type == TableFor(input.source, input.size)
           k(directive) == OneBlock("one", cap, directive, type, "noDict", "noDictIssue")
<1>1. pc = "filled" /\ input.source \in Nat /\ input.size \in Nat
  BY DEF LZ4_compress_fast_extState, LZ4_compress_destSize_extState, CompressorInv, MemoryInv
<1>2. type \in TableTypes /\ (type = "byU16" => input.size < LZ4_64Klimit)
  BY <1>1, TableForIs
<1>3. PICK directive \in Directives : LZ4_compress_generic(LZ4_initStream, k(directive))
  BY DEF LZ4_compress_fast_extState, LZ4_compress_destSize_extState, Limit, Directives
<1> HIDE DEF type
<1>4. /\ k(directive) \in RequestType
      /\ k(directive).source = input.source /\ k(directive).size = input.size
      /\ k(directive).api = "one" /\ k(directive).tableType = type
      /\ k(directive).dict = "noDict"
  BY <1>1, <1>2, RequestIs DEF DictModes
<1> HIDE DEF k
<1>5. Aged(LZ4_initStream) /\ Prepared(LZ4_initStream, type)
  BY FreshStream DEF Aged, Prepared
<1>6. 0 + input.size = input.size
  BY <1>1
<1>7. Ready(LZ4_initStream, k(directive))
  BY <1>2, <1>4, <1>5, <1>6, FreshStream DEF Ready
<1> QED BY <1>1, <1>3, <1>7, GenericKeeps

LEMMA FastResetKeeps ==
    ASSUME FormatOfLz4, CompressorInv, kind = "one", NEW cap \in Caps(kind, input.size),
           LZ4_compress_fast_extState_fastReset(cap),
           phase' = "compressing", UNCHANGED <<kind, calls, dpc>>
    PROVE  CompressorInv'
<1> DEFINE type == TableFor(input.source, input.size)
           s == LZ4_prepareTable(strm.work, input.size, type)
           k(directive, issue) == OneBlock("one", cap, directive, type, "noDict", issue)
<1>1. /\ pc = "filled" /\ input.source \in Nat /\ input.size \in Nat
      /\ strm.work \in StreamType
  BY DEF LZ4_compress_fast_extState_fastReset, CompressorInv, MemoryInv
<1>2. type \in TableTypes /\ (type = "byU16" => input.size < LZ4_64Klimit)
  BY <1>1, TableForIs
<1>3. \E directive \in Directives, issue \in {"dictSmall", "noDictIssue"} :
          LZ4_compress_generic(s, k(directive, issue))
  BY DEF LZ4_compress_fast_extState_fastReset, Limit, Directives
<1>4. PICK directive \in Directives, issue \in {"dictSmall", "noDictIssue"} :
          LZ4_compress_generic(s, k(directive, issue))
  BY <1>3
<1>5. Aged(strm.work) /\ (strm.work.tableType = "clearedTable" => strm.work.currentOffset = 0)
  BY <1>1 DEF CompressorInv, TablesInv, Stages
<1> HIDE DEF type
<1>6. /\ s \in StreamType /\ Aged(s) /\ Prepared(s, type)
      /\ s.dictionary = 0 /\ s.dictSize = 0 /\ ~s.dictCtx
      /\ s.tableType = "clearedTable" => s.currentOffset = 0
      /\ type = "byU16" /\ s.tableType # "clearedTable"
             => s.currentOffset + input.size < KB64 - 1
  BY <1>1, <1>2, <1>5, TablePrepared
<1> HIDE DEF s
<1>7. /\ k(directive, issue) \in RequestType
      /\ k(directive, issue).source = input.source /\ k(directive, issue).size = input.size
      /\ k(directive, issue).api = "one" /\ k(directive, issue).tableType = type
      /\ k(directive, issue).dict = "noDict"
  BY <1>1, <1>2, RequestIs DEF DictModes
<1> HIDE DEF k
<1>8. type = "byU16" => s.currentOffset + input.size < LZ4_64Klimit
  <2>1. s.currentOffset \in Nat /\ KB64 \in Nat /\ LZ4_64Klimit = KB64 + 11
    BY <1>6, StreamFields, FormatFacts
  <2> QED BY <1>1, <1>2, <1>6, <2>1
<1>9. Ready(s, k(directive, issue))
  BY <1>6, <1>7, <1>8 DEF Ready
<1> QED BY <1>1, <1>4, <1>9, GenericKeeps

\* What a stream of the caller is before each of its blocks.
Streaming(s) ==
    /\ s \in StreamType /\ Aged(s) /\ StreamAged(s) /\ InMemory(s)
    /\ s.dictCtx => DictLoaded(strm.dict) /\ s.currentOffset >= KB64

\* LZ4_renormDictT moves every index down by as much, and forgets those that
\* would fall below 0.
LEMMA Renormed ==
    ASSUME FormatOfLz4, NEW s, Streaming(s), NEW size \in 1..MaxBlock
    PROVE  LET r == LZ4_renormDictT(s, size)
           IN  /\ Streaming(r) /\ r.dictionary + r.dictSize = s.dictionary + s.dictSize
               /\ s.dictSize < 4 => r.dictSize < 4
<1>1. CASE s.currentOffset + size <= IndexLimit
  BY <1>1 DEF LZ4_renormDictT
<1>2. CASE ~(s.currentOffset + size <= IndexLimit)
  <2> DEFINE delta == s.currentOffset - KB64
             end == s.dictionary + s.dictSize
             kept == Lesser(s.dictSize, KB64)
             tab == [h \in HashValues |-> IF s.table[h] < delta THEN 0 ELSE s.table[h] - delta]
             r == [s EXCEPT !.table = tab, !.currentOffset = KB64,
                            !.dictSize = kept, !.dictionary = end - kept]
  <2>1. /\ s \in StreamType /\ s.currentOffset \in Nat /\ s.dictionary \in Nat
        /\ s.dictSize \in Nat /\ s.table \in [HashValues -> Nat]
        /\ s.tableType \in {"clearedTable", "byU32"}
        /\ KB64 \in Nat /\ KB64 >= 13 /\ MINMATCH = 4
        /\ MaxBlock \in Nat /\ IndexLimit \in Nat /\ KB64 + MaxBlock <= IndexLimit
        /\ size \in Nat /\ size <= MaxBlock
    <3>1. s \in StreamType /\ s.tableType \in {"clearedTable", "byU32"}
      BY DEF Streaming, StreamAged
    <3>2. KB64 \in Nat /\ KB64 >= 13 /\ MINMATCH = 4
      BY FormatFacts DEF FormatOfLz4
    <3>3. MaxBlock \in Nat /\ IndexLimit \in Nat /\ KB64 + MaxBlock <= IndexLimit
      BY LayoutAssumption, CompressAssumption, CallerAssumption
    <3> QED BY <3>1, <3>2, <3>3, StreamFields
  <2>2. delta \in Nat
    BY <1>2, <2>1
  <2>3. kept \in Nat /\ kept <= s.dictSize /\ kept <= KB64 /\ end - kept \in Nat
        /\ (s.dictSize # 0 => kept # 0)
    BY <2>1 DEF Lesser
  <2>4. LZ4_renormDictT(s, size) = r
    BY <1>2, <2>1 DEF LZ4_renormDictT
  <2>5. tab \in [HashValues -> Nat]
    BY <2>1, <2>2
  <2>6. ASSUME NEW h \in HashValues
        PROVE  /\ tab[h] = 0 \/ tab[h] + 4 <= KB64
               /\ s.table[h] = 0 => tab[h] = 0
    <3>1. s.table[h] = 0 \/ s.table[h] + 4 <= s.currentOffset
      BY <2>1 DEF Streaming, Aged
    <3>2. tab[h] = IF s.table[h] < delta THEN 0 ELSE s.table[h] - delta
      OBVIOUS
    <3>3. s.table[h] \in Nat
      BY <2>1
    <3> QED BY <2>1, <2>2, <3>1, <3>2, <3>3
  <2> HIDE DEF tab, kept
  <2>7. /\ r \in StreamType /\ r.table = tab /\ r.currentOffset = KB64 /\ r.dictSize = kept
        /\ r.dictionary = end - kept /\ r.tableType = s.tableType /\ r.dictCtx = s.dictCtx
    BY <2>1, <2>3, <2>5 DEF StreamType
  <2> HIDE DEF r
  <2>8. Aged(r)
    <3>1. s.tableType = "clearedTable" => \A h \in HashValues : s.table[h] = 0
      BY DEF Streaming, Aged
    <3> QED BY <2>1, <2>6, <2>7, <3>1 DEF Aged
  <2>9. StreamAged(r)
    BY <2>1, <2>3, <2>7 DEF StreamAged
  <2>10. InMemory(r)
    <3>1. end <= MemHi + 1
      BY DEF Streaming, InMemory
    <3>2. r.dictionary + r.dictSize = end
      BY <2>1, <2>3, <2>7
    <3> QED BY <3>1, <3>2 DEF InMemory
  <2>11. r.dictCtx => DictLoaded(strm.dict) /\ r.currentOffset >= KB64
    BY <2>1, <2>7 DEF Streaming
  <2>12. r.dictionary + r.dictSize = end /\ (s.dictSize < 4 => r.dictSize < 4)
    BY <2>1, <2>3, <2>7
  <2> QED BY <2>4, <2>7, <2>8, <2>9, <2>10, <2>11, <2>12 DEF Streaming
<1> QED BY <1>1, <1>2

\* LZ4_compress_fast_continue gives up a dictionary that is too small and the
\* part of one that the block overwrites.
LEMMA ContinueIs ==
    ASSUME FormatOfLz4, NEW s0, Streaming(s0), NEW source \in Nat,
           NEW size \in 1..MaxBlock, source + size <= MemHi + 1
    PROVE  LET s == ContinueFrom(s0, source, size)
           IN  /\ s \in StreamType /\ Aged(s) /\ InMemory(s)
               /\ s.dictSize <= s.currentOffset
               /\ s.tableType \in {"clearedTable", "byU32"}
               /\ s.dictCtx => DictLoaded(strm.dict) /\ s.currentOffset >= KB64
               /\ s.dictionary + s.dictSize # source =>
                     s.currentOffset = 0 \/ s.currentOffset >= MINMATCH
<1> DEFINE s == LZ4_renormDictT(s0, size)
           end == s.dictionary + s.dictSize
           tiny == s.dictSize \in 1..(MINMATCH - 1) /\ end # source
           s1   == IF tiny THEN [s EXCEPT !.dictSize = 0, !.dictionary = source] ELSE s
           end1 == IF tiny THEN source ELSE end
           left == Lesser(end1 - (source + size), KB64)
           kept == IF left < MINMATCH THEN 0 ELSE left
           over == source + size > s1.dictionary /\ source + size < end1
           t == IF over THEN [s1 EXCEPT !.dictSize = kept, !.dictionary = end1 - kept] ELSE s1
<1>1. ContinueFrom(s0, source, size) = t
  BY DEF ContinueFrom
<1>2. Streaming(s)
  BY Renormed
<1> HIDE DEF s
<1>3. /\ s \in StreamType /\ s.currentOffset \in Nat /\ s.dictionary \in Nat
      /\ s.dictSize \in Nat /\ s.table \in [HashValues -> Nat]
      /\ s.tableType \in {"clearedTable", "byU32"}
      /\ s.dictSize <= s.currentOffset /\ end <= MemHi + 1
      /\ s.currentOffset \in 1..3 => s.dictSize > 0
      /\ KB64 \in Nat /\ KB64 >= 13 /\ MINMATCH = 4 /\ MemHi \in Nat
      /\ MaxBlock \in Nat /\ size \in Nat /\ size >= 1
  <2>1. /\ s \in StreamType /\ s.tableType \in {"clearedTable", "byU32"}
        /\ s.dictSize <= s.currentOffset /\ end <= MemHi + 1
        /\ s.currentOffset \in 1..(MINMATCH - 1) => s.dictSize > 0
    BY <1>2 DEF Streaming, StreamAged, InMemory
  <2>2. KB64 \in Nat /\ KB64 >= 13 /\ MINMATCH = 4 /\ MemHi \in Nat
    BY FormatFacts, MemoryTop DEF FormatOfLz4
  <2>3. MaxBlock \in Nat
    BY LayoutAssumption
  <2> QED BY <2>1, <2>2, <2>3, StreamFields
<1>4. CASE tiny
  <2>1. /\ s1 \in StreamType /\ s1.dictSize = 0 /\ s1.dictionary = source
        /\ s1.table = s.table /\ s1.currentOffset = s.currentOffset
        /\ s1.tableType = s.tableType /\ s1.dictCtx = s.dictCtx
    BY <1>3, <1>4 DEF StreamType
  <2>2. end1 = source
    BY <1>4
  <2>3. ~over
    BY <1>3, <2>1, <2>2
  <2>4. t = s1
    BY <2>3
  <2> HIDE DEF t, s1, tiny
  <2>5. Aged(t)
    BY <1>2, <2>1, <2>4 DEF Streaming, Aged
  <2>6. t.dictSize <= t.currentOffset /\ t.dictionary + t.dictSize = source
    BY <1>3, <2>1, <2>4
  <2>7. InMemory(t)
    BY <1>3, <2>6 DEF InMemory
  <2>8. t.dictCtx => DictLoaded(strm.dict) /\ t.currentOffset >= KB64
    BY <1>2, <2>1, <2>4 DEF Streaming
  <2> QED BY <1>1, <1>3, <2>1, <2>4, <2>5, <2>6, <2>7, <2>8
<1>5. CASE ~tiny
  <2>1. s1 = s /\ end1 = end
    BY <1>5
  <2>2. s.dictSize \in 1..3 => end = source
    BY <1>3, <1>5
  <2> HIDE DEF s1, end1, tiny
  <2>3. CASE over
    <3>1. source + size > s.dictionary /\ source + size < end
      BY <2>1, <2>3
    <3>2. kept \in Nat /\ kept <= end - (source + size) /\ kept <= s.dictSize
          /\ end - kept \in Nat
      BY <1>3, <2>1, <3>1 DEF Lesser
    <3> HIDE DEF kept
    <3>3. t = [s EXCEPT !.dictSize = kept, !.dictionary = end - kept]
      BY <2>1, <2>3
    <3> HIDE DEF t
    <3>4. /\ t \in StreamType /\ t.dictSize = kept /\ t.dictionary = end - kept
          /\ t.table = s.table /\ t.currentOffset = s.currentOffset
          /\ t.tableType = s.tableType /\ t.dictCtx = s.dictCtx
      BY <1>3, <3>2, <3>3 DEF StreamType
    <3>5. Aged(t)
      BY <1>2, <3>4 DEF Streaming, Aged
    <3>6. t.dictSize <= t.currentOffset /\ t.dictionary + t.dictSize = end
      BY <1>3, <3>2, <3>4
    <3>7. InMemory(t)
      BY <1>3, <3>6 DEF InMemory
    <3>8. t.dictCtx => DictLoaded(strm.dict) /\ t.currentOffset >= KB64
      BY <1>2, <3>4 DEF Streaming
    <3>9. t.currentOffset = 0 \/ t.currentOffset >= 4
      <4>1. ~(s.dictSize \in 1..3) /\ s.dictSize > 0
        BY <1>3, <2>2, <3>1
      <4> QED BY <1>3, <3>4, <4>1
    <3> QED BY <1>1, <1>3, <3>4, <3>5, <3>6, <3>7, <3>8, <3>9
  <2>4. CASE ~over
    <3>1. t = s
      BY <2>1, <2>4
    <3> HIDE DEF t
    <3>2. Aged(s) /\ InMemory(s) /\ (s.dictCtx => DictLoaded(strm.dict) /\ s.currentOffset >= KB64)
      BY <1>2 DEF Streaming
    <3>3. ASSUME end # source PROVE s.currentOffset = 0 \/ s.currentOffset >= 4
      <4>1. s.dictSize = 0 \/ s.dictSize >= 4
        BY <1>3, <2>2, <3>3
      <4> QED BY <1>3, <4>1
    <3> QED BY <1>1, <1>3, <3>1, <3>2, <3>3
  <2> QED BY <2>3, <2>4
<1> QED BY <1>4, <1>5

\* Each mode of LZ4_compress_fast_continue is called with what it needs.
LEMMA ContinueReady ==
    ASSUME FormatOfLz4, CompressorInv, kind # "one", NEW cap \in Caps(kind, input.size),
           LZ4_compress_fast_continue(cap)
    PROVE  \E t, r : /\ Ready(t, r) /\ LZ4_compress_generic(t, r) /\ r.api = "continue"
                     /\ r.dict = "withPrefix64k"
                           => t = ContinueFrom(strm.work, input.source, input.size)
                     /\ t.dictCtx => r.dict \in {"withPrefix64k", "usingDictCtx"}
<1> DEFINE s == ContinueFrom(strm.work, input.source, input.size)
           issue == IF s.dictSize < KB64 /\ s.dictSize < s.currentOffset
                    THEN "dictSmall" ELSE "noDictIssue"
           Block(dict, i) == OneBlock("continue", cap, "limitedOutput", "byU32", dict, i)
<1>1. /\ pc = "filled" /\ phase = "filled" /\ input.source \in Nat /\ input.size \in 1..MaxBlock
      /\ input.source + input.size <= MemHi + 1 /\ strm.work \in StreamType
      /\ strm.dict \in StreamType
      /\ input.source + input.size <= DictAt \/ input.source >= DictAt + Len(Dictionary)
  <2>1. pc = "filled" /\ phase = "filled"
    BY DEF LZ4_compress_fast_continue, CompressorInv, PhaseInv
  <2>2. /\ input.source \in Nat /\ input.size \in Nat /\ strm.work \in StreamType
        /\ strm.dict \in StreamType
        /\ input.source + input.size <= MemHi + 1
    BY <2>1 DEF CompressorInv, MemoryInv
  <2>3. /\ input.size >= 1 /\ input.size <= MaxBlock
        /\ input.source + input.size <= DictAt \/ input.source >= DictAt + Len(Dictionary)
    BY <2>1 DEF CompressorInv, SourceInv
  <2>4. MaxBlock \in Nat
    BY LayoutAssumption
  <2> QED BY <2>1, <2>2, <2>3, <2>4
<1>2. Streaming(strm.work)
  <2>1. pc \notin Stages
    BY <1>1 DEF Stages
  <2> QED BY <1>1, <2>1 DEF CompressorInv, MemoryInv, TablesInv, Streaming
<1>4. /\ s \in StreamType /\ Aged(s) /\ InMemory(s)
      /\ s.dictSize <= s.currentOffset
      /\ s.tableType \in {"clearedTable", "byU32"}
      /\ s.dictCtx => DictLoaded(strm.dict) /\ s.currentOffset >= KB64
      /\ s.dictionary + s.dictSize # input.source =>
            s.currentOffset = 0 \/ s.currentOffset >= MINMATCH
  BY <1>1, <1>2, ContinueIs
<1> HIDE DEF s
<1>5. ASSUME NEW dict \in DictModes, NEW i \in {"dictSmall", "noDictIssue"}
      PROVE  /\ Block(dict, i) \in RequestType
             /\ Block(dict, i).source = input.source /\ Block(dict, i).size = input.size
             /\ Block(dict, i).api = "continue" /\ Block(dict, i).directive = "limitedOutput"
             /\ Block(dict, i).tableType = "byU32" /\ Block(dict, i).dict = dict
  BY <1>1, RequestIs DEF Directives, TableTypes
<1>6. Prepared(s, "byU32")
  BY <1>4 DEF Prepared, Aged
<1>7. s.dictCtx =>
         /\ ~strm.dict.dictCtx /\ Aged(strm.dict) /\ Prepared(strm.dict, "byU32")
         /\ InMemory(strm.dict) /\ strm.dict.dictSize <= strm.dict.currentOffset
         /\ strm.dict.currentOffset = 0 \/ strm.dict.currentOffset >= MINMATCH
  <2> SUFFICES ASSUME s.dictCtx
               PROVE  /\ ~strm.dict.dictCtx /\ Aged(strm.dict) /\ Prepared(strm.dict, "byU32")
                      /\ InMemory(strm.dict) /\ strm.dict.dictSize <= strm.dict.currentOffset
                      /\ strm.dict.currentOffset = 0 \/ strm.dict.currentOffset >= MINMATCH
    OBVIOUS
  <2>1. /\ strm.dict.currentOffset = KB64
        /\ strm.dict.dictSize > 0 /\ strm.dict.dictSize <= KB64
        /\ strm.dict.dictionary >= DictAt
        /\ strm.dict.dictionary + strm.dict.dictSize = DictAt + Len(Dictionary)
        /\ strm.dict.tableType = "byU32" /\ ~strm.dict.dictCtx
    BY <1>4 DEF DictLoaded
  <2>2. Aged(strm.dict) /\ InMemory(strm.dict)
    BY DEF CompressorInv, MemoryInv, TablesInv
  <2>3. Prepared(strm.dict, "byU32")
    BY <2>1, <2>2 DEF Prepared, Aged
  <2>4. /\ KB64 \in Nat /\ KB64 >= 13 /\ MINMATCH = 4
        /\ strm.dict.dictSize \in Nat
    BY <1>1, FormatFacts, StreamFields DEF FormatOfLz4
  <2> QED BY <2>1, <2>2, <2>3, <2>4
<1>8. issue \in {"dictSmall", "noDictIssue"}
  OBVIOUS
<1> HIDE DEF Block, issue
<1>9. CASE s.dictionary + s.dictSize = input.source
  <2> DEFINE k == Block("withPrefix64k", issue)
  <2>1. LZ4_compress_generic(s, k)
    BY <1>9 DEF LZ4_compress_fast_continue, s, issue, Block
  <2>2. /\ k \in RequestType /\ k.source = input.source /\ k.size = input.size
        /\ k.api = "continue" /\ k.directive = "limitedOutput"
        /\ k.tableType = "byU32" /\ k.dict = "withPrefix64k"
    BY <1>5, <1>8 DEF DictModes
  <2> HIDE DEF k
  <2>3. Ready(s, k)
    BY <1>1, <1>4, <1>6, <1>9, <2>2 DEF Ready
  <2> QED BY <2>1, <2>2, <2>3 DEF s
<1>10. CASE s.dictionary + s.dictSize # input.source /\ ~s.dictCtx
  <2> DEFINE k == Block("usingExtDict", issue)
  <2>1. LZ4_compress_generic(s, k)
    BY <1>10 DEF LZ4_compress_fast_continue, s, issue, Block
  <2>2. /\ k \in RequestType /\ k.source = input.source /\ k.size = input.size
        /\ k.api = "continue" /\ k.directive = "limitedOutput"
        /\ k.tableType = "byU32" /\ k.dict = "usingExtDict"
    BY <1>5, <1>8 DEF DictModes
  <2> HIDE DEF k
  <2>3. Ready(s, k)
    BY <1>1, <1>4, <1>6, <1>10, <2>2 DEF Ready
  <2> QED BY <1>10, <2>1, <2>2, <2>3
<1>11. CASE s.dictionary + s.dictSize # input.source /\ s.dictCtx /\ input.size > KB4
  <2> DEFINE k == Block("usingExtDict", "noDictIssue")
  <2>1. LZ4_compress_generic(strm.dict, k)
    BY <1>11 DEF LZ4_compress_fast_continue, s, issue, Block
  <2>2. /\ k \in RequestType /\ k.source = input.source /\ k.size = input.size
        /\ k.api = "continue" /\ k.directive = "limitedOutput"
        /\ k.tableType = "byU32" /\ k.dict = "usingExtDict"
    BY <1>5 DEF DictModes
  <2> HIDE DEF k
  <2>3. Ready(strm.dict, k)
    BY <1>1, <1>7, <1>11, <2>2 DEF Ready
  <2> QED BY <1>7, <1>11, <2>1, <2>2, <2>3
<1>12. CASE s.dictionary + s.dictSize # input.source /\ s.dictCtx /\ ~(input.size > KB4)
  <2> DEFINE k == Block("usingDictCtx", "noDictIssue")
  <2>1. LZ4_compress_generic(s, k)
    BY <1>12 DEF LZ4_compress_fast_continue, s, issue, Block
  <2>2. /\ k \in RequestType /\ k.source = input.source /\ k.size = input.size
        /\ k.api = "continue" /\ k.directive = "limitedOutput"
        /\ k.tableType = "byU32" /\ k.dict = "usingDictCtx"
    BY <1>5 DEF DictModes
  <2> HIDE DEF k
  <2>3. Ready(s, k)
    BY <1>1, <1>4, <1>6, <1>7, <1>12, <2>2 DEF Ready
  <2> QED BY <2>1, <2>2, <2>3
<1> QED BY <1>9, <1>10, <1>11, <1>12

LEMMA ContinueKeeps ==
    ASSUME FormatOfLz4, CompressorInv, kind # "one", NEW cap \in Caps(kind, input.size),
           LZ4_compress_fast_continue(cap), phase' = "compressing", UNCHANGED <<kind, calls, dpc>>
    PROVE  CompressorInv'
<1>1. PICK t, r : Ready(t, r) /\ LZ4_compress_generic(t, r)
  BY ContinueReady
<1>2. pc = "filled"
  BY DEF LZ4_compress_fast_continue
<1> QED BY <1>1, <1>2, GenericKeeps

\* A call, from the block laid out to the first stage of the loop.
LEMMA CallKeeps ==
    ASSUME FormatOfLz4, CompressorInv, Call
    PROVE  CompressorInv'
<1>1. phase = "filled" /\ phase' = "compressing" /\ UNCHANGED <<kind, calls, dpc>>
  BY DEF Call, dvars
<1>2. PICK cap \in Caps(kind, input.size) :
          IF kind # "one" THEN LZ4_compress_fast_continue(cap)
          ELSE \/ LZ4_compress_fast_extState(cap)
               \/ LZ4_compress_fast_extState_fastReset(cap)
               \/ LZ4_compress_destSize_extState(cap)
  BY DEF Call
<1>3. CASE kind # "one"
  BY <1>1, <1>2, <1>3, ContinueKeeps
<1>4. CASE kind = "one"
  BY <1>1, <1>2, <1>4, ExtStateKeeps, FastResetKeeps
<1> QED BY <1>3, <1>4

\* The stages of the loop.
LEMMA StepKeeps ==
    ASSUME FormatOfLz4, CompressorInv, Compressing
    PROVE  CompressorInv'
<1>1. CompressStep /\ UNCHANGED <<kind, phase, calls, dpc>>
  BY DEF Compressing, dvars, rvars
<1> QED BY <1>1, SearchKeeps, EncodeLiteralsKeeps, RewindMatchKeeps, EncodeMatchKeeps,
           TestNextKeeps, LastLiteralsKeeps DEF CompressStep

-----------------------------------------------------------------------------
(* The compressing caller.                                                    *)

\* A set of naturals with a bound has a greatest element.
LEMMA GreatestNatural ==
    ASSUME NEW b \in Nat, NEW T, T \subseteq 0..b, T # {}
    PROVE  \E m \in T : \A k \in T : k <= m
<1> DEFINE U == {b - k : k \in T}
<1>1. U \subseteq Nat
  OBVIOUS
<1>2. U # {}
  OBVIOUS
<1>3. PICK u \in U : \A v \in U : u <= v
  BY <1>1, <1>2, LeastNatural
<1>4. PICK m \in T : u = b - m
  OBVIOUS
<1>5. ASSUME NEW k \in T PROVE k <= m
  <2>1. b - k \in U
    OBVIOUS
  <2>2. u <= b - k
    BY <1>3, <2>1
  <2> QED BY <1>4, <2>2
<1> QED BY <1>5

\* LZ4_loadDict: the table holds positions of the dictionary's last 64 KB.
LEMMA LoadedIs ==
    ASSUME FormatOfLz4, mem \in [0..MemHi -> HashedBytes]
    PROVE  LET s == LZ4_loadDict(DictAt, Len(Dictionary))
           IN  /\ s \in StreamType /\ Aged(s) /\ StreamAged(s) /\ InMemory(s)
               /\ ~s.dictCtx /\ s.currentOffset = KB64 /\ s.dictSize <= KB64
               /\ s.dictSize = 0 \/ DictLoaded(s)
<1> DEFINE n   == Len(Dictionary)
           s0  == [LZ4_initStream EXCEPT !.currentOffset = KB64]
           end == DictAt + n
           p0  == Greater(DictAt, end - KB64)
           in(h) == {k \in 0..KB64 : /\ p0 + 3 * k <= end - HASH_UNIT
                                     /\ LZ4_hashPosition(p0 + 3 * k) = h}
           last(h) == CHOOSE k \in in(h) : \A l \in in(h) : l <= k
           tab == [h \in HashValues |-> IF in(h) = {} THEN 0 ELSE p0 + 3 * last(h) - (end - KB64)]
           s1  == [s0 EXCEPT !.dictionary = p0, !.dictSize = end - p0, !.tableType = "byU32",
                             !.table = tab]
<1>1. /\ DictAt \in Nat /\ n \in Nat /\ KB64 \in Nat /\ KB64 >= 13 /\ HASH_UNIT \in Nat
      /\ HASH_UNIT >= 4 /\ MINMATCH = 4 /\ n <= KB64 /\ end <= MemHi + 1 /\ MemHi \in Nat
  <2>1. /\ DictAt \in Nat /\ SafeAt \in Nat /\ MaxBlock \in Nat
        /\ end <= SafeAt /\ SafeAt + KB64 + MaxBlock <= MemHi + 1
    BY LayoutAssumption
  <2>2. n \in Nat /\ n <= KB64
    BY CallerAssumption
  <2>3. KB64 \in Nat /\ KB64 >= 13 /\ MINMATCH = 4 /\ MemHi \in Nat
    BY FormatFacts, MemoryTop DEF FormatOfLz4
  <2>4. HASH_UNIT \in Nat /\ HASH_UNIT >= 4
    BY <2>3, CompressAssumption
  <2> HIDE DEF n
  <2> QED BY <2>1, <2>2, <2>3, <2>4
<1> HIDE DEF n
<1>2. /\ s0 \in StreamType /\ s0.currentOffset = KB64 /\ s0.tableType = "clearedTable"
      /\ s0.dictionary = 0 /\ s0.dictSize = 0 /\ s0.dictCtx = FALSE
      /\ \A h \in HashValues : s0.table[h] = 0
      /\ DOMAIN s0.table = HashValues
  BY <1>1, FreshStream DEF StreamType
<1>3. LZ4_loadDict(DictAt, n) = IF n < HASH_UNIT THEN s0 ELSE s1
  BY <1>2 DEF LZ4_loadDict
<1>4. CASE n < HASH_UNIT
  <2>1. LZ4_loadDict(DictAt, n) = s0
    BY <1>3, <1>4
  <2> HIDE DEF s0
  <2>2. Aged(s0) /\ StreamAged(s0) /\ InMemory(s0)
    BY <1>1, <1>2 DEF Aged, StreamAged, InMemory
  <2> QED BY <1>1, <1>2, <2>1, <2>2 DEF n
<1>5. CASE ~(n < HASH_UNIT)
  <2>1. LZ4_loadDict(DictAt, n) = s1
    BY <1>3, <1>5
  <2>2. p0 \in Nat /\ p0 >= DictAt /\ p0 >= end - KB64 /\ end - p0 \in Nat /\ end - p0 <= KB64
        /\ end - p0 > 0 /\ end \in Nat
    BY <1>1, <1>5 DEF Greater
  <2> HIDE DEF s0, p0, end
  <2>3. ASSUME NEW h \in HashValues
        PROVE  tab[h] \in Nat /\ (tab[h] = 0 \/ tab[h] + 4 <= KB64)
    <3>1. CASE in(h) = {}
      BY <3>1
    <3>2. CASE in(h) # {}
      <4>1. in(h) \subseteq 0..KB64
        OBVIOUS
      <4>2. \E k \in in(h) : \A l \in in(h) : l <= k
        <5> HIDE DEF in
        <5> QED BY <1>1, <3>2, <4>1, GreatestNatural
      <4>3. last(h) \in in(h)
        <5> HIDE DEF in
        <5> QED BY <4>2
      <4>4. last(h) \in Nat /\ p0 + 3 * last(h) <= end - HASH_UNIT
        <5> HIDE DEF last
        <5> QED BY <4>3, <1>1
      <4>5. tab[h] = p0 + 3 * last(h) - (end - KB64)
        BY <3>2
      <4> HIDE DEF last, in
      <4> QED BY <1>1, <2>2, <4>4, <4>5
    <3> QED BY <3>1, <3>2
  <2> HIDE DEF last, in
  <2>4. tab \in [HashValues -> Nat]
    BY <2>3
  <2> HIDE DEF tab
  <2>6. /\ s1 \in StreamType /\ s1.table = tab /\ s1.currentOffset = KB64
        /\ s1.tableType = "byU32" /\ s1.dictionary = p0 /\ s1.dictSize = end - p0
        /\ s1.dictCtx = FALSE
    BY <1>2, <2>2, <2>4 DEF StreamType, TableTypes
  <2> HIDE DEF s1
  <2>7. Aged(s1)
    BY <1>1, <2>3, <2>6 DEF Aged
  <2>8. StreamAged(s1)
    BY <2>2, <2>6 DEF StreamAged
  <2>9. s1.dictionary + s1.dictSize = end
    BY <2>2, <2>6
  <2>10. InMemory(s1)
    BY <1>1, <2>9 DEF InMemory, end
  <2>11. DictLoaded(s1)
    BY <2>2, <2>6, <2>9 DEF DictLoaded, end, n
  <2> QED BY <2>1, <2>2, <2>6, <2>7, <2>8, <2>10, <2>11 DEF n
<1> QED BY <1>4, <1>5

\* What no action of the caller can disturb while no call is running.
LEMMA Resting ==
    ASSUME FormatOfLz4, CompressorInv, pc' \in {"idle", "filled"}
    PROVE  /\ pc' \notin Stages
           /\ IndexInv' /\ MatchInv'
           /\ filledIp' = filledIp => CursorInv'
           /\ ret' = ret /\ phase' # "compressing" => CallInv' /\ SizeInv'
BY DEF CompressorInv, Stages, IndexInv, MatchInv, CursorInv, CallInv, SizeInv

\* The caller is done with the block, or hands it to the decoder.
LEMMA HandedOn ==
    ASSUME FormatOfLz4, CompressorInv, pc = "idle", UNCHANGED <<cvars, kind>>, calls' = calls,
           phase' \in {"caller", "arranged", "decoding"},
           kind = "saved" => phase # "compressing",
           phase' = "arranged" => phase = "saved",
           dpc' \in {"idle", "token", "match", "done"}, dpc' = "idle" <=> phase' # "decoding"
    PROVE  CompressorInv'
<1>1. UNCHANGED <<mem, strm, input, call, pc, filledIp, out, ret>>
  BY DEF cvars, loopVars
<1>2. pc' = "idle" /\ pc \notin Stages
  BY <1>1 DEF Stages
<1>3. PhaseInv'
  BY <1>1, <1>2 DEF CompressorInv, PhaseInv, Phases, Stages
<1>4. MemoryInv'
  <2>1. InMemory(strm.work) /\ InMemory(strm.dict)
    BY <1>2 DEF CompressorInv, MemoryInv
  <2> QED BY <1>1, <1>2, <2>1 DEF CompressorInv, MemoryInv, InMemory
<1>5. TablesInv'
  BY <1>1, <1>2 DEF CompressorInv, TablesInv, Aged, StreamAged, DictLoaded
<1>6. ReturnInv'
  <2> SUFFICES ASSUME phase' = "arranged" PROVE ReturnInv'
    BY DEF ReturnInv
  <2>1. phase = "saved"
    OBVIOUS
  <2> QED BY <1>1, <1>2, <2>1 DEF CompressorInv, ReturnInv, Room, LZ4_compressBound
<1>7. SourceInv'
  BY DEF SourceInv
<1> QED BY <1>1, <1>2, <1>3, <1>4, <1>5, <1>6, <1>7, Resting DEF CompressorInv

LEMMA BeginKeeps ==
    ASSUME FormatOfLz4, CompressorInv, NEW how \in {"reset", "load", "attach"}, Begin(how)
    PROVE  CompressorInv'
<1> DEFINE fresh  == LZ4_prepareTable(strm.work, 0, "byU32")
           loaded == LZ4_loadDict(DictAt, Len(Dictionary))
           tied   == LZ4_attach_dictionary(fresh, loaded)
<1>1. /\ phase = "caller" /\ kind # "one" /\ pc = "idle" /\ dpc = "idle"
      /\ UNCHANGED <<mem, input, call, pc, filledIp, out, ret, kind, phase, calls, dpc>>
      /\ \/ strm' = [strm EXCEPT !.work = fresh]
         \/ strm' = [strm EXCEPT !.work = loaded]
         \/ strm' = [dict |-> loaded, work |-> tied]
  BY DEF Begin, BeginStream, LZ4_setStreamDecode, loopVars
<1>2. /\ strm \in [work : StreamType, dict : StreamType] /\ strm.work \in StreamType
      /\ strm.dict \in StreamType /\ InMemory(strm.dict) /\ Aged(strm.dict) /\ Aged(strm.work)
      /\ mem \in [0..MemHi -> HashedBytes]
      /\ KB64 \in Nat /\ KB64 >= 13 /\ MINMATCH = 4
  BY <1>1, FormatFacts DEF CompressorInv, MemoryInv, TablesInv, Stages, FormatOfLz4
<1>3. /\ fresh \in StreamType /\ Aged(fresh)
      /\ fresh.dictionary = 0 /\ fresh.dictSize = 0 /\ ~fresh.dictCtx
      /\ fresh.tableType \in {"clearedTable", "byU32"}
      /\ fresh.currentOffset \in Nat
      /\ fresh.currentOffset # 0 => fresh.currentOffset >= KB64
  BY <1>2, TablePrepared, StreamFields DEF TableTypes
<1>4. /\ loaded \in StreamType /\ Aged(loaded) /\ StreamAged(loaded) /\ InMemory(loaded)
      /\ ~loaded.dictCtx /\ loaded.dictSize <= KB64
      /\ loaded.dictSize = 0 \/ DictLoaded(loaded)
  BY <1>2, LoadedIs
<1> HIDE DEF fresh, loaded
<1>5. /\ tied \in StreamType /\ tied.table = fresh.table /\ tied.tableType = fresh.tableType
      /\ tied.currentOffset = (IF fresh.currentOffset = 0 THEN KB64 ELSE fresh.currentOffset)
      /\ tied.dictionary = 0 /\ tied.dictSize = 0
      /\ tied.dictCtx <=> loaded.dictSize # 0
  BY <1>2, <1>3 DEF LZ4_attach_dictionary, StreamType
<1> HIDE DEF tied
<1>6. /\ Aged(tied) /\ StreamAged(tied) /\ StreamAged(fresh)
      /\ InMemory(tied) /\ InMemory(fresh)
  <2>1. Aged(tied)
    <3>1. \A h \in HashValues : fresh.table[h] \in Nat
      BY <1>3, StreamFields
    <3>2. fresh.currentOffset <= tied.currentOffset /\ tied.currentOffset \in Nat
      BY <1>2, <1>3, <1>5
    <3>3. ASSUME fresh.tableType # "byPtr", NEW h \in HashValues
          PROVE  fresh.table[h] = 0 \/ fresh.table[h] + MINMATCH <= tied.currentOffset
      BY <1>2, <1>3, <3>1, <3>2, <3>3 DEF Aged
    <3> QED BY <1>3, <1>5, <3>3 DEF Aged
  <2>2. StreamAged(tied) /\ StreamAged(fresh)
    BY <1>2, <1>3, <1>5 DEF StreamAged
  <2>3. InMemory(tied) /\ InMemory(fresh)
    BY <1>3, <1>5, MemoryTop DEF InMemory
  <2> QED BY <2>1, <2>2, <2>3
<1>7. PICK w \in {fresh, loaded, tied} :
        /\ strm'.work = w
        /\ strm' \in [work : StreamType, dict : StreamType]
        /\ strm'.dict \in {strm.dict, loaded}
        /\ w.dictCtx => DictLoaded(strm'.dict) /\ w.currentOffset >= KB64
  <2>1. CASE strm' = [strm EXCEPT !.work = fresh]
    BY <1>2, <1>3, <2>1
  <2>2. CASE strm' = [strm EXCEPT !.work = loaded]
    BY <1>2, <1>4, <2>2
  <2>3. CASE strm' = [dict |-> loaded, work |-> tied]
    <3>1. strm'.work = tied /\ strm'.dict = loaded /\ strm' \in [work : StreamType, dict : StreamType]
      BY <1>4, <1>5, <2>3
    <3>2. tied.currentOffset >= KB64
      BY <1>2, <1>3, <1>5
    <3> QED BY <1>4, <1>5, <3>1, <3>2
  <2> QED BY <1>1, <2>1, <2>2, <2>3
<1>8. /\ w \in StreamType /\ Aged(w) /\ StreamAged(w) /\ InMemory(w) /\ w.dictSize <= KB64
      /\ Aged(strm'.dict) /\ InMemory(strm'.dict)
  BY <1>2, <1>3, <1>4, <1>5, <1>6, <1>7
<1>9. PhaseInv'
  BY <1>1 DEF CompressorInv, PhaseInv
<1>10. MemoryInv'
  BY <1>1, <1>7, <1>8 DEF CompressorInv, MemoryInv, InMemory
<1>11. TablesInv'
  BY <1>1, <1>7, <1>8 DEF TablesInv, Aged, StreamAged, DictLoaded
<1>12. SourceInv' /\ ReturnInv'
  BY <1>1 DEF SourceInv, ReturnInv
<1> QED BY <1>1, <1>9, <1>10, <1>11, <1>12, Resting DEF CompressorInv

LEMMA LayOutKeeps ==
    ASSUME FormatOfLz4, CompressorInv, LayOut
    PROVE  CompressorInv'
<1>1. PICK data \in Blocks(kind, calls + 1) : \E source \in Sources(Len(data)) :
          Fill(source, data)
  BY DEF LayOut
<1>2. PICK source \in Sources(Len(data)) : Fill(source, data)
  BY <1>1
<1> DEFINE n == Len(data)
<1>3. /\ phase = "caller" /\ phase' = "filled" /\ calls \in Nat /\ calls < MaxCalls
      /\ calls' = calls + 1 /\ kind' = kind /\ dpc' = dpc /\ dpc = "idle" /\ kind \in Kinds
      /\ pc = "idle" /\ pc' = "filled"
      /\ UNCHANGED <<strm, call, filledIp, out, ret>>
      /\ mem' = [p \in DOMAIN mem |-> IF p \in source..(source + n - 1)
                                      THEN data[p - source + 1] ELSE mem[p]]
      /\ input' = [source |-> source, size |-> n]
  BY <1>2 DEF LayOut, Fill, dvars, loopVars, CompressorInv, PhaseInv
<1>4. /\ data \in Seq(HashedBytes) /\ n \in Nat
      /\ InputAt + n <= MemHi + 1
      /\ kind # "one" => n >= 1 /\ n <= MaxBlock
      /\ Caps(kind, n) \subseteq Nat
  <2>1. calls + 1 \in 1..MaxCalls
    BY <1>3, CallerAssumption
  <2>2. /\ data \in Seq(HashedBytes) /\ InputAt + n <= MemHi + 1
        /\ kind # "one" => n \in 1..MaxBlock
        /\ Caps(kind, n) \subseteq Nat
    BY <1>3, <2>1, BlocksAssumption
  <2>3. MaxBlock \in Nat
    BY LayoutAssumption
  <2> QED BY <2>2, <2>3
<1>5. /\ {MaxBlock, InputAt, RingEnd, DictAt, SafeAt} \subseteq Nat \ {0}
      /\ InputAt + MaxBlock <= RingEnd /\ RingEnd <= DictAt
      /\ DictAt + Len(Dictionary) <= SafeAt
      /\ SafeAt + KB64 + MaxBlock <= MemHi + 1
      /\ Len(Dictionary) \in Nat /\ KB64 \in Nat /\ MemHi \in Nat
  BY LayoutAssumption, CallerAssumption, FormatFacts, MemoryTop
<1>6. /\ mem \in [0..MemHi -> HashedBytes]
      /\ strm \in [work : StreamType, dict : StreamType]
      /\ strm.work \in StreamType /\ strm.dict \in StreamType
      /\ input.source \in Nat /\ input.size \in Nat
      /\ InMemory(strm.dict) /\ InMemory(strm.work)
      /\ kind = "saved" => strm.work.dictSize <= KB64
      /\ strm.work.dictSize \in Nat
  <2>1. /\ mem \in [0..MemHi -> HashedBytes]
        /\ strm \in [work : StreamType, dict : StreamType]
        /\ strm.work \in StreamType /\ strm.dict \in StreamType
        /\ input.source \in Nat /\ input.size \in Nat
        /\ InMemory(strm.dict) /\ InMemory(strm.work)
        /\ kind = "saved" => strm.work.dictSize <= KB64
    BY <1>3 DEF CompressorInv, MemoryInv, Stages
  <2> QED BY <2>1, StreamFields
<1> DEFINE dlen == Len(Dictionary)
<1> HIDE DEF n, dlen
<1>7. /\ source \in Nat /\ source >= 1 /\ source + n <= MemHi + 1
      /\ kind # "one" => source + n <= DictAt \/ source >= DictAt + dlen
  <2>1. /\ InputAt \in Nat /\ InputAt >= 1 /\ DictAt \in Nat /\ SafeAt \in Nat /\ RingEnd \in Nat
        /\ MaxBlock \in Nat /\ dlen \in Nat
        /\ InputAt + MaxBlock <= RingEnd /\ RingEnd <= DictAt
        /\ DictAt + dlen <= SafeAt
        /\ SafeAt + KB64 + MaxBlock <= MemHi + 1
    BY <1>5 DEF dlen
  <2>2. CASE source = InputAt
    BY <1>4, <1>5, <2>1, <2>2
  <2>3. CASE kind = "saved" /\ source = SafeAt + strm.work.dictSize
    BY <1>4, <1>5, <1>6, <2>1, <2>3
  <2>4. CASE kind = "ring" /\ input.size > 0 /\ input.source + input.size + n <= RingEnd
             /\ source = input.source + input.size
    <3>1. KB64 \in Nat /\ MemHi \in Nat /\ n \in Nat
      BY <1>4, <1>5
    <3>2. source \in Nat /\ source >= 1 /\ source + n <= RingEnd
      BY <1>4, <1>6, <2>4
    <3> QED BY <2>1, <3>1, <3>2
  <2>5. kind \in {"one", "ring", "saved"}
    BY <1>3, CallerAssumption
  <2>6. source \in Sources(n)
    BY <1>2 DEF n
  <2> QED BY <2>2, <2>3, <2>4, <2>5, <2>6 DEF Sources
<1>8. mem' \in [0..MemHi -> HashedBytes]
  <2>1. ASSUME NEW p \in source..(source + n - 1) PROVE data[p - source + 1] \in HashedBytes
    <3>1. p - source + 1 \in 1..n
      BY <1>4, <1>7
    <3>2. p - source + 1 \in 1..Len(data)
      BY <3>1 DEF n
    <3> QED BY <1>4, <3>2, ElementOf
  <2>2. DOMAIN mem = 0..MemHi /\ \A p \in 0..MemHi : mem[p] \in HashedBytes
    BY <1>6
  <2> QED BY <1>3, <2>1, <2>2
<1>9. PhaseInv'
  BY <1>3 DEF CompressorInv, PhaseInv, Phases, Stages
<1>10. input' \in [source : Nat, size : Nat] /\ input'.source = source /\ input'.size = n
  BY <1>3, <1>4, <1>7
<1>11. MemoryInv'
  <2>1. Caps(kind, input.size)' \subseteq Nat
    BY <1>3, <1>4, <1>10
  <2> QED BY <1>3, <1>6, <1>7, <1>8, <1>10, <2>1 DEF MemoryInv, InMemory
<1>12. TablesInv'
  BY <1>3 DEF CompressorInv, TablesInv, Aged, StreamAged, DictLoaded, Stages
<1>13. SourceInv'
  BY <1>3, <1>4, <1>7, <1>10 DEF SourceInv, dlen
<1>14. ReturnInv'
  BY <1>3 DEF ReturnInv
<1> QED BY <1>3, <1>9, <1>11, <1>12, <1>13, <1>14, Resting DEF CompressorInv

LEMMA SaveKeeps ==
    ASSUME FormatOfLz4, CompressorInv, Save
    PROVE  CompressorInv'
<1> DEFINE s == strm.work
           n == Lesser(Lesser(KB64, KB64), s.dictSize)
           from == s.dictionary + s.dictSize - n
           w == [s EXCEPT !.dictionary = SafeAt, !.dictSize = n]
<1>1. /\ phase = "compressing" /\ pc = "idle" /\ pc' = "idle" /\ phase' = "saved"
      /\ kind = "saved" /\ dpc = "idle"
      /\ mem' = [p \in DOMAIN mem |-> IF p \in SafeAt..(SafeAt + n - 1)
                                      THEN mem[from + p - SafeAt] ELSE mem[p]]
      /\ strm' = [strm EXCEPT !.work.dictionary = SafeAt, !.work.dictSize = n]
      /\ UNCHANGED <<input, call, filledIp, out, ret, kind, calls, dpc>>
  BY DEF Save, Returned, LZ4_saveDict, DictTail, dvars, loopVars, CompressorInv, PhaseInv
<1>2. /\ mem \in [0..MemHi -> HashedBytes]
      /\ strm \in [work : StreamType, dict : StreamType]
      /\ s \in StreamType /\ strm.dict \in StreamType
      /\ InMemory(strm.dict) /\ InMemory(s) /\ input \in [source : Nat, size : Nat]
      /\ Aged(s) /\ Aged(strm.dict) /\ StreamAged(s)
  BY <1>1 DEF CompressorInv, MemoryInv, TablesInv, Stages
<1>3. /\ s.dictionary \in Nat /\ s.dictSize \in Nat /\ KB64 \in Nat /\ MemHi \in Nat
      /\ SafeAt \in Nat /\ MaxBlock \in Nat /\ SafeAt + KB64 + MaxBlock <= MemHi + 1
      /\ s.dictionary + s.dictSize <= MemHi + 1 /\ s.currentOffset \in Nat
  BY <1>2, StreamFields, FormatFacts, MemoryTop, LayoutAssumption DEF InMemory
<1>4. n \in Nat /\ n <= KB64 /\ n <= s.dictSize /\ from \in Nat
      /\ from + n <= MemHi + 1 /\ (s.dictSize > 0 /\ KB64 > 0 => n > 0)
  BY <1>3 DEF Lesser
<1> HIDE DEF n, from
<1>5. mem' \in [0..MemHi -> HashedBytes]
  <2>1. ASSUME NEW p \in SafeAt..(SafeAt + n - 1) PROVE mem[from + p - SafeAt] \in HashedBytes
    <3>1. from + p - SafeAt \in 0..MemHi
      BY <1>3, <1>4
    <3> QED BY <1>2, <3>1
  <2>2. DOMAIN mem = 0..MemHi /\ \A p \in 0..MemHi : mem[p] \in HashedBytes
    BY <1>2
  <2> QED BY <1>1, <2>1, <2>2
<1>6. /\ w \in StreamType /\ w.table = s.table /\ w.currentOffset = s.currentOffset
      /\ w.tableType = s.tableType /\ w.dictionary = SafeAt /\ w.dictSize = n
      /\ w.dictCtx = s.dictCtx
  BY <1>2, <1>3, <1>4 DEF StreamType
<1>7. strm' = [strm EXCEPT !.work = w]
  BY <1>1, <1>2 DEF StreamType
<1> HIDE DEF w
<1>8. /\ strm' \in [work : StreamType, dict : StreamType]
      /\ strm'.work = w /\ strm'.dict = strm.dict
  BY <1>2, <1>6, <1>7
<1>9. PhaseInv'
  BY <1>1 DEF CompressorInv, PhaseInv, Phases, Stages
<1>10. MemoryInv'
  <2>1. InMemory(w) /\ w.dictSize <= KB64
    BY <1>3, <1>4, <1>6 DEF InMemory
  <2> QED BY <1>1, <1>2, <1>5, <1>8, <2>1 DEF MemoryInv, InMemory
<1>11. TablesInv'
  <2>1. StreamAged(w)
    <3>1. KB64 > 0
      BY <1>3, FormatFacts
    <3>2. n <= s.currentOffset
      BY <1>2, <1>3, <1>4 DEF StreamAged
    <3>3. s.currentOffset \in 1..(MINMATCH - 1) => n > 0
      BY <1>2, <1>4, <3>1 DEF StreamAged
    <3> QED BY <1>2, <1>6, <3>2, <3>3 DEF StreamAged
  <2>2. Aged(w)
    BY <1>2, <1>6 DEF Aged
  <2> QED BY <1>1, <1>2, <1>6, <1>8, <2>1, <2>2 DEF CompressorInv, TablesInv, Aged, StreamAged, DictLoaded
<1>12. SourceInv'
  BY <1>1 DEF SourceInv
<1>13. ReturnInv'
  BY <1>1 DEF CompressorInv, ReturnInv, Room, LZ4_compressBound
<1> QED BY <1>1, <1>9, <1>10, <1>11, <1>12, <1>13, Resting DEF CompressorInv

-----------------------------------------------------------------------------
(* The invariant of the compressor.                                           *)

LEMMA CompressorInit ==
    ASSUME FormatOfLz4, Init
    PROVE  CompressorInv
<1>1. /\ kind \in Kinds /\ phase = "caller" /\ calls = 0 /\ pc = "idle" /\ dpc = "idle"
      /\ strm = [work |-> LZ4_initStream, dict |-> LZ4_initStream]
      /\ input = [source |-> 0, size |-> 0] /\ filledIp = 0
      /\ ret = [size |-> 0, used |-> 0]
      /\ mem = At([p \in 0..MemHi |-> 0], DictAt, Dictionary)
  BY DEF Init, InitCompress, InitDecompress
<1>2. pc \notin Stages
  BY <1>1 DEF Stages
<1> DEFINE n == Len(Dictionary)
<1>3. Dictionary \in Seq(HashedBytes) /\ n \in Nat /\ DictAt \in Nat /\ MemHi \in Nat
      /\ 0 \in HashedBytes /\ KB64 \in Nat
  BY CallerAssumption, LayoutAssumption, MemoryTop, HashAssumption, FormatFacts
<1>4. mem \in [0..MemHi -> HashedBytes]
  <2>1. mem = [q \in 0..MemHi |-> IF q \in DictAt..(DictAt + n - 1)
                                  THEN Dictionary[q - DictAt + 1] ELSE 0]
    BY <1>1 DEF At
  <2> HIDE DEF n
  <2>2. ASSUME NEW q \in DictAt..(DictAt + n - 1) PROVE Dictionary[q - DictAt + 1] \in HashedBytes
    <3>1. q - DictAt + 1 \in 1..n
      BY <1>3
    <3>2. q - DictAt + 1 \in 1..Len(Dictionary)
      BY <3>1 DEF n
    <3> QED BY <1>3, <3>2, ElementOf
  <2> QED BY <1>3, <2>1, <2>2
<1>5. /\ strm \in [work : StreamType, dict : StreamType]
      /\ strm.work = LZ4_initStream /\ strm.dict = LZ4_initStream
  BY <1>1, FreshStream
<1>6. Aged(LZ4_initStream) /\ StreamAged(LZ4_initStream) /\ InMemory(LZ4_initStream)
  BY <1>3, FreshStream DEF Aged, StreamAged, InMemory
<1>7. PhaseInv
  BY <1>1 DEF PhaseInv, Phases, Stages
<1>8. MemoryInv
  BY <1>1, <1>3, <1>4, <1>5, <1>6, FreshStream DEF MemoryInv
<1>9. TablesInv
  BY <1>1, <1>5, <1>6, FreshStream DEF TablesInv
<1>10. CallInv /\ CursorInv /\ SizeInv /\ SourceInv /\ IndexInv /\ MatchInv /\ ReturnInv
  BY <1>1, <1>2 DEF CallInv, CursorInv, SizeInv, SourceInv, IndexInv, MatchInv, ReturnInv, Stages
<1> QED BY <1>7, <1>8, <1>9, <1>10 DEF CompressorInv

\* What the decoding caller does leaves the compressor as it is.
LEMMA DecoderSideKeeps ==
    ASSUME FormatOfLz4, CompressorInv,
           DecodeOne \/ DecodeRing \/ Arrange \/ DecodeSaved \/ Decompressing \/ Decoded
           \/ NotCompressed
    PROVE  CompressorInv'
<1>1. UNCHANGED <<cvars, kind, calls>>
  BY DEF DecodeOne, DecodeRing, Arrange, DecodeSaved, Decompressing, Decoded, NotCompressed,
         Decoding, rvars
<1>2. /\ phase # "filled" /\ pc = "idle"
      /\ phase' \in {"caller", "arranged", "decoding"}
      /\ kind = "saved" => phase # "compressing"
      /\ phase' = "arranged" => phase = "saved"
      /\ dpc' \in {"idle", "token", "match", "done"}
      /\ dpc' = "idle" <=> phase' # "decoding"
  <2>1. CASE DecodeOne \/ DecodeRing \/ DecodeSaved
    <3>1. phase' = "decoding" /\ dpc' \in {"token", "done"}
      BY <2>1 DEF DecodeOne, DecodeRing, DecodeSaved, Decoding, LZ4_decompress_safe,
         LZ4_decompress_safe_partial, LZ4_decompress_safe_continue,
         LZ4_decompress_safe_usingDict, LZ4_decompress_generic, Stop
    <3>2. /\ phase # "filled" /\ pc = "idle"
          /\ kind = "saved" => phase # "compressing"
      BY <2>1 DEF DecodeOne, DecodeRing, DecodeSaved, Returned, CompressorInv, PhaseInv
    <3> QED BY <3>1, <3>2, ZenonT(30)
  <2>2. CASE Arrange
    BY <2>2 DEF Arrange, CompressorInv, PhaseInv
  <2>3. CASE Decompressing
    <3>1. phase = "decoding" /\ phase' = phase /\ dpc' \in {"token", "match", "done"}
      BY <2>3 DEF Decompressing, rvars, DecompressStep, Shortcut, DecodeLiterals, CopyMatch,
         Failed, Stop
    <3> QED BY <3>1, SMTT(20) DEF CompressorInv, PhaseInv
  <2>4. CASE Decoded
    BY <2>4 DEF Decoded, ReturnDecoded, CompressorInv, PhaseInv
  <2>5. CASE NotCompressed
    BY <2>5 DEF NotCompressed, Returned, dvars, CompressorInv, PhaseInv
  <2> QED BY <2>1, <2>2, <2>3, <2>4, <2>5
<1> QED BY <1>1, <1>2, HandedOn

LEMMA CompressorStutter ==
    ASSUME CompressorInv, UNCHANGED vars
    PROVE  CompressorInv'
<1>1. UNCHANGED <<mem, strm, input, call, pc, ip, anchor, match, lowLimit, offset, filledIp,
                  search, token, out, high, ret, dpc, kind, phase, calls>>
  BY DEF vars, cvars, loopVars, dvars, rvars
<1>2. /\ base' = base /\ iend' = iend /\ mflimitPlusOne' = mflimitPlusOne /\ dictEnd' = dictEnd
      /\ Room' = Room /\ First' = First /\ Newest' = Newest /\ Agreed' = Agreed
      /\ (InDict <=> InDict') /\ (MustRewind <=> MustRewind') /\ (filling <=> filling')
      /\ (maybe_extMem <=> maybe_extMem') /\ Highest' = Highest
      /\ (limited <=> limited') /\ (Ambiguous <=> Ambiguous')
  BY <1>1 DEF base, iend, mflimitPlusOne, dictEnd, Room, First, Newest, Agreed, InDict, MustRewind,
         filling, maybe_extMem, LZ4_compressBound, Highest, limited, Ambiguous
<1>3. PhaseInv' /\ MemoryInv' /\ CallInv' /\ CursorInv'
  BY <1>1, <1>2 DEF CompressorInv, PhaseInv, MemoryInv, CallInv, CursorInv, InMemory
<1>4. SizeInv' /\ TablesInv' /\ SourceInv' /\ ReturnInv'
  BY <1>1, <1>2 DEF CompressorInv, SizeInv, TablesInv, SourceInv, ReturnInv, Aged, StreamAged,
     DictLoaded, FillInv, Grows
<1>5. IndexInv'
  <2>1. ModeFacts' <=> ModeFacts
    BY <1>1, <1>2 DEF ModeFacts, DictLoaded
  <2>2. Tabled(strm.work.table, Newest)' <=> Tabled(strm.work.table, Newest)
    BY <1>1, <1>2 DEF Tabled, LZ4_hashPosition, Byte
  <2>3. Tabled(strm.work.table, Highest)' <=> Tabled(strm.work.table, Highest)
    BY <1>1, <1>2 DEF Tabled, LZ4_hashPosition, Byte
  <2> QED BY <1>1, <1>2, <2>1, <2>2, <2>3 DEF CompressorInv, IndexInv
<1>6. MatchInv'
  BY <1>1, <1>2 DEF CompressorInv, MatchInv, SameAt, Byte
<1> QED BY <1>3, <1>4, <1>5, <1>6 DEF CompressorInv

LEMMA CompressorNext ==
    ASSUME FormatOfLz4, CompressorInv, [Next]_vars
    PROVE  CompressorInv'
<1>1. CASE UNCHANGED vars
  BY <1>1, CompressorStutter
<1>2. CASE \E how \in {"reset", "load", "attach"} : Begin(how)
  BY <1>2, BeginKeeps
<1>3. CASE LayOut \/ Call \/ Compressing \/ Save
  BY <1>3, LayOutKeeps, CallKeeps, StepKeeps, SaveKeeps
<1>4. CASE \/ DecodeOne \/ DecodeRing \/ Arrange \/ DecodeSaved
           \/ Decompressing \/ Decoded \/ NotCompressed
  BY <1>4, DecoderSideKeeps
<1> QED BY <1>1, <1>2, <1>3, <1>4 DEF Next

THEOREM CompressorTypes ==
    ASSUME FormatOfLz4 PROVE Spec => []CompressorInv
<1>1. Init => CompressorInv
  BY CompressorInit
<1>2. CompressorInv /\ [Next]_vars => CompressorInv'
  BY CompressorNext
<1> QED BY <1>1, <1>2, PTL DEF Spec

-----------------------------------------------------------------------------
(* What the invariant of the compressor is good for.                          *)

LEMMA AssertsFollow ==
    ASSUME FormatOfLz4, CompressorInv
    PROVE  AssertsHold
<1> SUFFICES ASSUME ~Ambiguous PROVE AssertsHold
  BY DEF AssertsHold
<1> DEFINE p == IF pc = "search" THEN search.next ELSE ip
           index == strm.work.table[LZ4_hashPosition(p)]
<1>1. ASSUME pc \in {"search", "testNext"}
      PROVE  /\ p + MINMATCH <= iend => index < p - base
             /\ pc = "search" /\ call.dict = "usingExtDict" /\ index < call.startIndex
                    => call.startIndex - index >= MINMATCH
  <2>1. pc \in Stages
    BY <1>1 DEF Stages
  <2>2. /\ call \in CallType /\ ModeFacts /\ mem \in [0..MemHi -> HashedBytes]
        /\ strm.work.table \in [HashValues -> Nat] /\ iend <= MemHi + 1 /\ MemHi \in Nat
        /\ anchor \in Nat /\ anchor >= call.source
    BY <2>1, StageFacts
  <2>3. /\ call.source \in Nat /\ iend \in Nat /\ mflimitPlusOne = iend - 11
        /\ base \in Int /\ First \in Nat /\ base + First = call.source
        /\ call.tableType # "byPtr" => First = call.startIndex
        /\ call.startIndex \in Nat /\ MINMATCH = 4
    BY <2>2, BlockBounds, CallFields DEF FormatOfLz4
  <2>4. Tabled(strm.work.table, Newest)
    BY <2>1 DEF CompressorInv, IndexInv
  <2>5. CASE pc = "search"
    <3>1. /\ search.next \in Nat /\ search.next > anchor /\ search.next <= iend - 11
          /\ Newest = search.next - 1 /\ p = search.next
      BY <2>1, <2>3, <2>5 DEF CompressorInv, CursorInv, SearchType, Newest
    <3> HIDE DEF p, index
    <3>2. p \in Nat /\ p > call.source /\ p + MINMATCH <= MemHi + 1 /\ p - 1 \in Int /\ p - 1 < p
      BY <2>2, <2>3, <3>1
    <3>3. LZ4_hashPosition(p) \in HashValues
      BY <2>2, <3>2, HashOfPosition
    <3>4. Behind(strm.work.table, p)
      BY <2>2, <2>4, <3>1, <3>2, TabledIsBehind
    <3>5. index \in Nat /\ (index = 0 \/ index < p - base)
          /\ (index < First => index = 0 \/ index + MINMATCH <= First)
      BY <2>2, <3>3, <3>4 DEF Behind, index
    <3>6. index < p - base
      BY <2>3, <3>2, <3>5
    <3>7. ASSUME call.dict = "usingExtDict", index < call.startIndex
          PROVE  call.startIndex - index >= MINMATCH
      <4>1. First = call.startIndex /\ (call.startIndex = 0 \/ call.startIndex >= MINMATCH)
        BY <2>2, <2>3, <3>7 DEF ModeFacts
      <4> QED BY <2>3, <3>5, <3>7, <4>1
    <3> QED BY <3>6, <3>7
  <2>6. CASE pc = "testNext"
    <3>1. ip \in Nat /\ ip > call.source /\ ip + MINMATCH <= MemHi + 1 /\ p = ip /\ Newest = ip - 1
      <4>1. ip \in anchor..(iend - MFLIMIT) /\ ip >= call.source + MINMATCH
        BY <2>1, <2>6 DEF CompressorInv, CursorInv
      <4>2. MFLIMIT = 12
        BY DEF FormatOfLz4
      <4>3. Newest = ip - 1 /\ p = ip
        BY <2>6 DEF Newest
      <4> HIDE DEF p
      <4> QED BY <2>2, <2>3, <4>1, <4>2, <4>3
    <3> HIDE DEF p, index
    <3>2. LZ4_hashPosition(p) \in HashValues /\ p \in Nat /\ p - 1 \in Int /\ p - 1 < p
      BY <2>2, <3>1, HashOfPosition
    <3>3. Behind(strm.work.table, p)
      BY <2>2, <2>4, <3>1, <3>2, TabledIsBehind
    <3>4. index \in Nat /\ (index = 0 \/ index < p - base)
      BY <2>2, <3>2, <3>3 DEF Behind, index
    <3>5. index < p - base
      BY <2>3, <3>1, <3>4
    <3> QED BY <2>6, <3>5
  <2> QED BY <1>1, <2>5, <2>6
<1>2. pc \in {"found", "match"} => offset \in 1..DISTANCE_MAX
  BY DEF CompressorInv, CursorInv, Stages
<1>3. pc = "match" /\ maybe_extMem /\ lowLimit = call.dictionary => match < dictEnd
  BY DEF CompressorInv, MatchInv, InDict
<1>4. pc = "testNext" /\ filling => Len(out) + 1 + LASTLITERALS <= call.cap
  <2> SUFFICES ASSUME pc = "testNext", filling PROVE Len(out) + 1 + LASTLITERALS <= call.cap
    OBVIOUS
  <2>1. phase = "compressing"
    BY DEF CompressorInv, PhaseInv, Stages
  <2> DEFINE o == Len(out)
  <2>2. o > 0 /\ FillInv(o, filling \/ limited)
    BY <2>1 DEF CompressorInv, SizeInv
  <2>3. o # 0
    <3> HIDE DEF o
    <3> QED BY <2>2
  <2> QED BY <2>2, <2>3 DEF FillInv
<1> HIDE DEF p, index
<1> QED BY <1>1, <1>2, <1>3, <1>4 DEF AssertsHold, p, index

LEMMA BoundFollows ==
    ASSUME FormatOfLz4, CompressorInv
    PROVE  BoundSuffices
<1> SUFFICES ASSUME Returned, call.directive = "notLimited" \/ call.cap >= LZ4_compressBound(call.size)
             PROVE  ret.size > 0
  BY DEF BoundSuffices
<1>1. phase = "compressing" /\ pc = "idle" /\ call \in CallType
  BY DEF Returned, CompressorInv, CallInv
<1>2. call.size \in Nat /\ LZ4_compressBound(call.size) = call.size + call.size \div 255 + 16
  BY <1>1, CallFields, RoomIs
<1>3. Room >= LZ4_compressBound(call.size)
  <2>1. CASE call.directive = "notLimited"
    BY <1>2, <2>1 DEF Room
  <2>2. CASE call.directive # "notLimited"
    BY <2>2 DEF Room
  <2> QED BY <2>1, <2>2
<1>4. ret.size = Len(out) /\ (Room >= LZ4_compressBound(call.size) => Len(out) > 0)
  BY <1>1 DEF CompressorInv, ReturnInv
<1> QED BY <1>3, <1>4

LEMMA WrittenWithinRoom ==
    ASSUME CompressorInv
    PROVE  /\ phase = "compressing" => high <= Room
           /\ Returned => ret.size <= Room
BY DEF CompressorInv, SizeInv, ReturnInv, Returned

-----------------------------------------------------------------------------
(* The decoder.                                                               *)

\* read_variable_length stops at a byte below MaxByte or at its limit.
LEMMA VariableLengthIs ==
    ASSUME FormatOfLz4, block \in Seq(0..MaxByte), NEW i \in Nat, i < dend,
           NEW lencheck \in Int, lencheck <= dend
    PROVE  LET r == VariableLength(i, lencheck)
           IN  /\ r.value \in Nat /\ r.bytes \in Nat /\ r.bytes >= 1
               /\ i + r.bytes <= Greater(i + 1, lencheck)
               /\ ~r.error => i + r.bytes < lencheck
<1> DEFINE Ends(k) == i + k >= lencheck \/ In(i + k - 1) # MaxByte
           Good(k) == /\ Ends(k)
                      /\ \A j \in 1..(k - 1) : i + j < lencheck /\ In(i + j - 1) = MaxByte
           T == {k \in 1..(dend + 1) : Ends(k)}
           n == CHOOSE k \in 1..(dend + 1) : Good(k)
<1>1. dend \in Nat
  BY DEF dend
<1>2. T \subseteq Nat /\ dend + 1 \in T
  BY <1>1
<1>3. PICK m \in T : \A k \in T : m <= k
  <2> HIDE DEF T
  <2> QED BY <1>2, LeastNatural
<1>4. m \in 1..(dend + 1) /\ Ends(m)
  BY <1>3
<1>5. ASSUME NEW j \in 1..(m - 1) PROVE i + j < lencheck /\ In(i + j - 1) = MaxByte
  <2>1. j \notin T /\ j \in 1..(dend + 1)
    <3>1. j \in Nat /\ j < m /\ m \in Nat /\ j >= 1 /\ m <= dend + 1
      BY <1>1, <1>4
    <3>2. ~(m <= j)
      BY <3>1
    <3>3. j \notin T
      BY <1>3, <3>2
    <3> QED BY <1>1, <3>1, <3>3
  <2>2. ~Ends(j)
    BY <2>1
  <2>3. ~(i + j >= lencheck) /\ In(i + j - 1) = MaxByte
    BY <2>2
  <2> QED BY <2>1, <2>3
<1>6. Good(m)
  BY <1>4, <1>5
<1> HIDE DEF Good
<1>7. n \in 1..(dend + 1) /\ Good(n)
  BY <1>4, <1>6
<1>8. VariableLength(i, lencheck) = [value |-> ((n - 1) * MaxByte) + In(i + n - 1), bytes |-> n,
                                     error |-> i + n >= lencheck]
  BY DEF VariableLength, Good
<1> HIDE DEF n
<1>9. n \in Nat /\ n >= 1 /\ (n > 1 => i + n - 1 < lencheck)
  <2>1. n \in Nat /\ n >= 1
    BY <1>1, <1>7
  <2>2. ASSUME n > 1 PROVE i + n - 1 < lencheck
    <3>1. n - 1 \in 1..(n - 1)
      BY <2>1, <2>2
    <3>2. i + (n - 1) < lencheck
      BY <1>7, <3>1 DEF Good
    <3> QED BY <2>1, <3>2
  <2> QED BY <2>1, <2>2
<1>10. i + n <= Greater(i + 1, lencheck) /\ i + n - 1 \in Nat /\ i + n - 1 < dend
  BY <1>1, <1>9 DEF Greater
<1>11. In(i + n - 1) \in Nat
  <2>1. i + n - 1 + 1 \in 1..Len(block)
    BY <1>1, <1>9, <1>10 DEF dend
  <2>2. block[i + n - 1 + 1] \in 0..MaxByte
    BY <2>1, ElementOf
  <2>3. MaxByte \in Nat
    BY DEF FormatOfLz4
  <2> QED BY <2>2, <2>3 DEF In
<1>12. (n - 1) * MaxByte + In(i + n - 1) \in Nat
  <2>1. (n - 1) * MaxByte \in Nat
    <3>1. MaxByte = 255
      BY DEF FormatOfLz4
    <3> QED BY <1>9, <3>1
  <2> QED BY <1>11, <2>1
<1> DEFINE r == VariableLength(i, lencheck)
           v == ((n - 1) * MaxByte) + In(i + n - 1)
           e == i + n >= lencheck
<1>13. r = [value |-> v, bytes |-> n, error |-> e]
  BY <1>8
<1>14. ~e => i + n < lencheck
  BY <1>9
<1>15. v \in Nat
  BY <1>12
<1> HIDE DEF v, e, r
<1>16. r.value = v /\ r.bytes = n /\ r.error = e
  BY <1>13
<1>17. ~r.error => i + r.bytes < lencheck
  BY <1>14, <1>16
<1> QED BY <1>9, <1>10, <1>15, <1>16, <1>17 DEF r

\* A byte of the block.
LEMMA InIs ==
    ASSUME FormatOfLz4, block \in Seq(0..MaxByte), NEW i \in 0..(dend - 1)
    PROVE  /\ In(i) \in Nat /\ In(i) \div (ML_MASK + 1) \in 0..RUN_MASK
           /\ In(i) % (ML_MASK + 1) \in 0..ML_MASK
<1>1. i + 1 \in 1..Len(block)
  <2>1. dend \in Nat
    BY DEF dend
  <2> QED BY <2>1 DEF dend
<1>2. block[i + 1] \in 0..MaxByte
  BY <1>1, ElementOf
<1>3. In(i) \in Nat /\ In(i) <= 255
  <2>1. MaxByte \in Nat /\ MaxByte <= 255
    BY DEF FormatOfLz4
  <2>2. PICK x : x = block[i + 1]
    OBVIOUS
  <2>3. x \in Nat /\ x <= MaxByte
    BY <1>2, <2>1, <2>2
  <2>4. x <= 255
    BY <2>1, <2>3
  <2> QED BY <2>2, <2>3, <2>4 DEF In
<1>4. ML_MASK = 15 /\ RUN_MASK = 15
  BY DEF FormatOfLz4
<1>5. In(i) \div 16 \in Nat /\ In(i) \div 16 <= 15 /\ In(i) % 16 \in Nat /\ In(i) % 16 <= 15
  BY <1>3
<1>6. In(i) \div (ML_MASK + 1) = In(i) \div 16 /\ In(i) % (ML_MASK + 1) = In(i) % 16
  BY <1>4
<1>7. In(i) \div (ML_MASK + 1) \in 0..RUN_MASK
  BY <1>4, <1>5, <1>6
<1>8. In(i) % (ML_MASK + 1) \in 0..ML_MASK
  BY <1>4, <1>5, <1>6
<1> QED BY <1>3, <1>7, <1>8

\* Where the strides of a match copy end.
LEMMA MatchCopyEndIs ==
    ASSUME FormatOfLz4, oend \in Int, NEW op \in Int, NEW n \in Nat, n >= 4,
           op + n <= oend, op <= oend - 12 \/ op + n <= oend - 12
    PROVE  MatchCopyEnd(op, n) \in Int /\ MatchCopyEnd(op, n) <= oend
<1> DEFINE first == op + 8
           limit == oend - 7
<1>1. MATCH_SAFEGUARD_DISTANCE = 12 /\ Stripe = 16 /\ WILDCOPYLENGTH = 8
  BY DEF MATCH_SAFEGUARD_DISTANCE, Stripe, FormatOfLz4
<1>2. MatchCopyEnd(op, n) =
        IF op + n > oend - 12
        THEN Greater(op + n, IF first < limit THEN Strides(first, limit - first) ELSE first)
        ELSE IF n > 16 THEN Strides(first, n - 8) ELSE op + 16
  BY <1>1 DEF MatchCopyEnd
<1>3. first \in Int /\ limit \in Int
  OBVIOUS
<1>4. CASE op + n > oend - 12
  <2>1. op <= oend - 12
    BY <1>4
  <2>2. first < limit => /\ Strides(first, limit - first) \in Int
                         /\ Strides(first, limit - first) <= oend
    <3> SUFFICES ASSUME first < limit
                 PROVE  /\ Strides(first, limit - first) \in Int
                        /\ Strides(first, limit - first) <= oend
      OBVIOUS
    <3>1. limit - first \in Nat /\ limit - first >= 1
      BY <1>3
    <3>2. /\ Strides(first, limit - first) \in Int
          /\ Strides(first, limit - first) <= first + Greater(limit - first + 7, 8)
      BY <1>3, <3>1, StrideEnds
    <3>3. Greater(limit - first + 7, 8) = limit - first + 7
      BY <3>1 DEF Greater
    <3> QED BY <3>1, <3>2, <3>3
  <2> QED BY <1>2, <1>3, <1>4, <2>1, <2>2 DEF Greater
<1>5. CASE ~(op + n > oend - 12) /\ n > 16
  <2>1. n - 8 \in Nat
    BY <1>5
  <2>2. /\ Strides(first, n - 8) \in Int
        /\ Strides(first, n - 8) <= first + Greater(n - 8 + 7, 8)
    BY <1>3, <2>1, StrideEnds
  <2>3. Greater(n - 8 + 7, 8) <= n - 1 /\ Greater(n - 8 + 7, 8) \in Int
    BY <1>5 DEF Greater
  <2> QED BY <1>2, <1>5, <2>2, <2>3
<1>6. CASE ~(op + n > oend - 12) /\ ~(n > 16)
  BY <1>2, <1>6
<1> QED BY <1>4, <1>5, <1>6

\* The names of the decoder, and their types.
LEMMA DecoderFacts ==
    ASSUME FormatOfLz4, DecodeInv, phase = "decoding"
    PROVE  /\ block \in Seq(0..MaxByte) /\ dend \in Nat /\ dend >= 1
           /\ dcall.dst \in Int /\ dcall.outputSize \in Nat /\ dcall.partial \in BOOLEAN
           /\ oend = dcall.dst + dcall.outputSize /\ oend \in Int
           /\ dread \in Int /\ dread <= dend /\ dhigh \in Int /\ dhigh <= oend
BY DEF DecodeInv, dend, oend

\* What a step of the decoder must show to keep the invariant.
LEMMA DecoderSteps ==
    ASSUME FormatOfLz4, DecodeInv, phase = "decoding", phase' = phase,
           UNCHANGED <<sd, block, dcall>>, dret' \in Int,
           dread' \in Int, dread' <= dend, dhigh' \in Int, dhigh' <= oend,
           dpc' \in {"token", "match"} =>
               /\ dip' \in Int /\ dip' >= 0 /\ dip' < dend
               /\ dop' \in Int /\ dop' >= dcall.dst /\ dop' <= oend,
           dpc' = "match" => length' \in 0..ML_MASK /\ (~dcall.partial => dop' <= oend - 12)
    PROVE  DecodeInv'
<1>1. dend' = dend /\ oend' = oend /\ MFLIMIT = 12
  BY DEF dend, oend, FormatOfLz4
<1>2. dend \in Nat /\ oend \in Int /\ dcall.dst \in Int
  BY DecoderFacts
<1>3. dpc' \in {"token", "match"} => dip' \in 0..(dend - 1) /\ dop' \in dcall.dst..oend
  BY <1>2
<1> QED BY <1>1, <1>3 DEF DecodeInv

LEMMA ShortcutKeeps ==
    ASSUME FormatOfLz4, DecodeInv, phase = "decoding", phase' = phase, Shortcut
    PROVE  DecodeInv'
<1> DEFINE n  == In(dip) \div (ML_MASK + 1)
           ml == In(dip) % (ML_MASK + 1)
           i  == dip + 1 + n
           op == dop + n
<1>1. /\ block \in Seq(0..MaxByte) /\ dend \in Nat
      /\ dcall.dst \in Int /\ oend \in Int
      /\ dread \in Int /\ dread <= dend /\ dhigh \in Int /\ dhigh <= oend
      /\ dret \in Int /\ dpc = "token" /\ dip \in 0..(dend - 1) /\ dop \in dcall.dst..oend
  BY DecoderFacts DEF Shortcut, DecodeInv
<1>2. RUN_MASK = 15 /\ ML_MASK = 15 /\ Stripe = 16 /\ MaxShort = 18 /\ MINMATCH = 4
  BY DEF FormatOfLz4, Stripe, MaxShort
<1>3. n \in 0..RUN_MASK /\ ml \in 0..ML_MASK /\ n # RUN_MASK
  BY <1>1, InIs DEF Shortcut
<1>4. n \in Nat /\ n <= 14 /\ ml \in Nat /\ ml <= 15
  BY <1>2, <1>3
<1>5. dip \in Int /\ dip >= 0 /\ dop \in Int /\ dop >= dcall.dst
  BY <1>1
<1>6. /\ dip + 1 < dend - (RUN_MASK - 1) - 2
      /\ dop <= oend - (RUN_MASK - 1) - MaxShort
      /\ dread' = Greater(dread, dip + 1 + Stripe)
      /\ dip' = i + 2
      /\ UNCHANGED <<sd, block, dcall, dret>>
      /\ \/ /\ ml # ML_MASK
            /\ dhigh' = Greater(dhigh, Greater(dop + Stripe, op + MaxShort))
            /\ dop' = op + ml + MINMATCH
            /\ dpc' = "token"
         \/ /\ dhigh' = Greater(dhigh, dop + Stripe)
            /\ dop' = op /\ length' = ml /\ dpc' = "match"
  BY DEF Shortcut
<1>7. dip + 1 < dend - 16 /\ dop <= oend - 32
  BY <1>1, <1>2, <1>5, <1>6
<1> HIDE DEF n, ml
<1>8. dread' \in Int /\ dread' <= dend
  BY <1>1, <1>2, <1>5, <1>6, <1>7 DEF Greater
<1>9. dip' \in Int /\ dip' >= 0 /\ dip' < dend
  BY <1>1, <1>4, <1>5, <1>6, <1>7
<1>10. dhigh' \in Int /\ dhigh' <= oend
  BY <1>1, <1>2, <1>4, <1>5, <1>6, <1>7 DEF Greater
<1>11. dop' \in Int /\ dop' >= dcall.dst /\ dop' <= oend
  BY <1>1, <1>2, <1>4, <1>5, <1>6, <1>7
<1>12. dpc' = "match" => length' \in 0..ML_MASK /\ (~dcall.partial => dop' <= oend - 12)
  BY <1>1, <1>3, <1>4, <1>5, <1>6, <1>7
<1> QED BY <1>1, <1>6, <1>8, <1>9, <1>10, <1>11, <1>12, DecoderSteps

LEMMA DecodeLiteralsKeeps ==
    ASSUME FormatOfLz4, DecodeInv, phase = "decoding", phase' = phase, DecodeLiterals
    PROVE  DecodeInv'
<1> DEFINE run  == In(dip) \div (ML_MASK + 1)
           more == VariableLength(dip + 1, dend - RUN_MASK)
           far  == run = RUN_MASK /\ dip + 1 >= dend - RUN_MASK
           i    == dip + 1 + IF run = RUN_MASK THEN more.bytes ELSE 0
           n    == run + IF run = RUN_MASK THEN more.value ELSE 0
           last == dop + n > oend - MFLIMIT \/ i + n > dend - (2 + 1 + LASTLITERALS)
           m    == Lesser(Lesser(n, dend - i), oend - dop)
           ml   == In(dip) % (ML_MASK + 1)
<1>1. /\ block \in Seq(0..MaxByte) /\ dend \in Nat
      /\ dcall.dst \in Int /\ oend \in Int
      /\ dread \in Int /\ dread <= dend /\ dhigh \in Int /\ dhigh <= oend
      /\ dret \in Int /\ dpc = "token" /\ dip \in 0..(dend - 1) /\ dop \in dcall.dst..oend
  BY DecoderFacts DEF DecodeLiterals, DecodeInv
<1>2. RUN_MASK = 15 /\ MFLIMIT = 12 /\ LASTLITERALS = 5
  BY DEF FormatOfLz4
<1>3. run \in 0..RUN_MASK /\ ml \in 0..ML_MASK
  BY <1>1, InIs
<1>4. run \in Nat /\ dip \in Nat /\ dip < dend /\ dop \in Int /\ dop >= dcall.dst /\ dop <= oend
  BY <1>1, <1>2, <1>3
<1>5. \/ /\ Failed
         /\ UNCHANGED <<dread, dhigh>>
      \/ /\ ~far /\ last
         /\ ~dcall.partial => i + n = dend
         /\ dhigh' = Greater(dhigh, dop + m)
         /\ dread' = Greater(dread, i + m)
         /\ dop' = dop + m
         /\ \/ Stop(dop + m - dcall.dst)
            \/ /\ dcall.partial /\ ~(i + m >= dend - 2)
               /\ dpc' = "match" /\ dip' = i + m + 2 /\ length' = ml /\ UNCHANGED dret
      \/ /\ ~far /\ ~last
         /\ dhigh' = Greater(dhigh, Strides(dop, n))
         /\ dread' = Greater(dread, Strides(i, n))
         /\ dop' = dop + n /\ dip' = i + n + 2 /\ length' = ml
         /\ dpc' = "match" /\ UNCHANGED dret
  BY DEF DecodeLiterals
<1>6. UNCHANGED <<sd, block, dcall>>
  BY DEF DecodeLiterals
<1>7. ASSUME ~far
      PROVE  n \in Nat /\ i \in Nat /\ i <= dend
  <2>1. CASE run = RUN_MASK
    <3>1. dip + 1 < dend - 15 /\ dip + 1 \in Nat /\ dip + 1 < dend /\ dend - RUN_MASK \in Int
          /\ dend - RUN_MASK <= dend
      BY <1>1, <1>2, <1>4, <1>7, <2>1
    <3>2. /\ more.value \in Nat /\ more.bytes \in Nat
          /\ dip + 1 + more.bytes <= Greater(dip + 1 + 1, dend - RUN_MASK)
      BY <1>1, <3>1, VariableLengthIs
    <3> HIDE DEF run, more
    <3>3. i = dip + 1 + more.bytes /\ n = run + more.value
      BY <2>1
    <3> QED BY <1>1, <1>2, <1>4, <3>1, <3>2, <3>3 DEF Greater
  <2>2. CASE run # RUN_MASK
    <3> HIDE DEF run
    <3> QED BY <1>1, <1>4, <2>2
  <2> QED BY <2>1, <2>2
<1>8. CASE Failed /\ UNCHANGED <<dread, dhigh>>
  <2>1. dpc' = "done" /\ dret' = -1
    BY <1>8 DEF Failed, Stop
  <2> QED BY <1>1, <1>6, <1>8, <2>1, DecoderSteps
<1> HIDE DEF run, more, far, i, n, ml
<1>9. CASE /\ ~far /\ last
           /\ ~dcall.partial => i + n = dend
           /\ dhigh' = Greater(dhigh, dop + m)
           /\ dread' = Greater(dread, i + m)
           /\ dop' = dop + m
           /\ \/ Stop(dop + m - dcall.dst)
              \/ /\ dcall.partial /\ ~(i + m >= dend - 2)
                 /\ dpc' = "match" /\ dip' = i + m + 2 /\ length' = ml /\ UNCHANGED dret
  <2>1. m \in Nat /\ dop + m <= oend /\ i + m <= dend /\ i \in Nat
    <3>1. n \in Nat /\ dend - i \in Nat /\ oend - dop \in Nat /\ i \in Nat
      BY <1>1, <1>4, <1>7, <1>9
    <3>2. m \in Nat /\ m <= dend - i /\ m <= oend - dop
      BY <3>1 DEF Lesser
    <3> HIDE DEF m
    <3> QED BY <1>1, <1>4, <3>1, <3>2
  <2> HIDE DEF m, last
  <2>2. dhigh' \in Int /\ dhigh' <= oend
    BY <1>1, <1>4, <1>9, <2>1 DEF Greater
  <2>3. dread' \in Int /\ dread' <= dend
    BY <1>1, <1>4, <1>9, <2>1 DEF Greater
  <2>4. dop' \in Int /\ dop' >= dcall.dst /\ dop' <= oend
    BY <1>1, <1>4, <1>9, <2>1
  <2>5. CASE Stop(dop + m - dcall.dst)
    <3>1. dpc' = "done" /\ dret' = dop + m - dcall.dst
      BY <2>5 DEF Stop
    <3>2. dret' \in Int
      BY <1>1, <1>4, <2>1, <3>1
    <3> QED BY <1>6, <2>2, <2>3, <3>1, <3>2, DecoderSteps
  <2>6. CASE /\ dcall.partial /\ ~(i + m >= dend - 2)
             /\ dpc' = "match" /\ dip' = i + m + 2 /\ length' = ml /\ UNCHANGED dret
    <3>1. dip' \in Int /\ dip' >= 0 /\ dip' < dend
      BY <1>1, <2>1, <2>6
    <3> QED BY <1>1, <1>3, <1>6, <2>2, <2>3, <2>4, <2>6, <3>1, DecoderSteps DEF ml
  <2> QED BY <1>9, <2>5, <2>6
<1>10. CASE /\ ~far /\ ~last
            /\ dhigh' = Greater(dhigh, Strides(dop, n))
            /\ dread' = Greater(dread, Strides(i, n))
            /\ dop' = dop + n /\ dip' = i + n + 2 /\ length' = ml
            /\ dpc' = "match" /\ UNCHANGED dret
  <2>1. n \in Nat /\ i \in Nat
    BY <1>7, <1>10
  <2>2. dop + n <= oend - 12 /\ i + n <= dend - 8
    BY <1>1, <1>2, <1>4, <1>10, <2>1
  <2> HIDE DEF last, m
  <2>3. /\ Strides(dop, n) \in Int /\ Strides(dop, n) <= dop + Greater(n + 7, 8)
        /\ Strides(i, n) \in Int /\ Strides(i, n) <= i + Greater(n + 7, 8)
    <3>1. dop \in Int /\ i \in Int
      BY <1>4, <2>1
    <3>2. Strides(dop, n) \in Int /\ Strides(dop, n) <= dop + Greater(n + 7, 8)
      BY <2>1, <3>1, StrideEnds
    <3>3. Strides(i, n) \in Int /\ Strides(i, n) <= i + Greater(n + 7, 8)
      BY <2>1, <3>1, StrideEnds
    <3> QED BY <3>2, <3>3
  <2>4. Greater(n + 7, 8) \in Int /\ Greater(n + 7, 8) <= n + 8
    BY <2>1 DEF Greater
  <2>5. Strides(dop, n) <= oend /\ Strides(i, n) <= dend
    BY <1>1, <1>4, <2>1, <2>2, <2>3, <2>4
  <2>6. dhigh' \in Int /\ dhigh' <= oend /\ dread' \in Int /\ dread' <= dend
    BY <1>1, <1>10, <2>3, <2>5 DEF Greater
  <2>7. dop' \in Int /\ dop' >= dcall.dst /\ dop' <= oend - 12 /\ dop' <= oend
    BY <1>1, <1>4, <1>10, <2>1, <2>2
  <2>8. dip' \in Int /\ dip' >= 0 /\ dip' < dend
    BY <1>1, <1>10, <2>1, <2>2
  <2> QED BY <1>1, <1>3, <1>6, <1>10, <2>6, <2>7, <2>8, DecoderSteps DEF ml
<1> QED BY <1>5, <1>8, <1>9, <1>10

LEMMA CopyMatchKeeps ==
    ASSUME FormatOfLz4, DecodeInv, phase = "decoding", phase' = phase, CopyMatch
    PROVE  DecodeInv'
<1> DEFINE more  == VariableLength(dip, dend - LASTLITERALS + 1)
           long  == length = ML_MASK
           n     == length + MINMATCH + IF long THEN more.value ELSE 0
           match_ == dop - back
           inExt == dcall.dict = "usingExtDict" /\ match_ < lowPrefix
           tooFar == dcall.dictSize < KB64 /\ match_ + dcall.dictSize < lowPrefix
           m     == IF dcall.partial THEN Lesser(n, oend - dop) ELSE n
           end   == IF inExt \/ (dcall.partial /\ dop + n > oend - MATCH_SAFEGUARD_DISTANCE)
                    THEN dop + m ELSE MatchCopyEnd(dop, m)
<1>1. /\ block \in Seq(0..MaxByte) /\ dend \in Nat /\ dend >= 1
      /\ dcall.dst \in Int /\ oend \in Int
      /\ dread \in Int /\ dread <= dend /\ dhigh \in Int /\ dhigh <= oend
      /\ dret \in Int /\ dpc = "match" /\ dip \in 0..(dend - 1) /\ dop \in dcall.dst..oend
      /\ length \in 0..ML_MASK /\ (~dcall.partial => dop <= oend - MFLIMIT)
  BY DecoderFacts DEF CopyMatch, DecodeInv
<1>2. /\ ML_MASK = 15 /\ MFLIMIT = 12 /\ LASTLITERALS = 5 /\ MINMATCH = 4 /\ WILDCOPYLENGTH = 8
      /\ MATCH_SAFEGUARD_DISTANCE = 12
  BY DEF FormatOfLz4, MATCH_SAFEGUARD_DISTANCE
<1>3. /\ dip \in Nat /\ dip < dend /\ dop \in Int /\ dop >= dcall.dst /\ dop <= oend
      /\ length \in Nat /\ dend - LASTLITERALS + 1 \in Int /\ dend - LASTLITERALS + 1 <= dend
  BY <1>1, <1>2
<1>4. /\ more.value \in Nat /\ more.bytes \in Nat
      /\ ~more.error => dip + more.bytes < dend - LASTLITERALS + 1
  BY <1>1, <1>3, VariableLengthIs
<1>5. UNCHANGED <<sd, block, dcall, length>>
  BY DEF CopyMatch
<1>6. \/ /\ (long /\ more.error) \/ tooFar \/ (~dcall.partial /\ dop + n > oend - LASTLITERALS)
         /\ Failed
         /\ dhigh' = IF tooFar \/ inExt \/ (long /\ more.error) THEN dhigh
                     ELSE Greater(dhigh, dop + WILDCOPYLENGTH)
         /\ UNCHANGED dread
      \/ /\ ~(long /\ more.error) /\ ~(~dcall.partial /\ dop + n > oend - LASTLITERALS)
         /\ dhigh' = Greater(dhigh, end)
         /\ dop' = dop + m
         /\ dip' = dip + IF long THEN more.bytes ELSE 0
         /\ dread' = Greater(dread, dip')
         /\ \/ Stop(dop + m - dcall.dst)
            \/ dpc' = "token" /\ UNCHANGED dret
  BY DEF CopyMatch
<1>7. n \in Nat /\ n >= 4
  <2> HIDE DEF more
  <2> QED BY <1>2, <1>3, <1>4
<1> HIDE DEF more, n, inExt, tooFar, long
<1>8. CASE /\ (long /\ more.error) \/ tooFar \/ (~dcall.partial /\ dop + n > oend - LASTLITERALS)
           /\ Failed
           /\ dhigh' = IF tooFar \/ inExt \/ (long /\ more.error) THEN dhigh
                       ELSE Greater(dhigh, dop + WILDCOPYLENGTH)
           /\ UNCHANGED dread
  <2>1. dpc' = "done" /\ dret' = -1
    BY <1>8 DEF Failed, Stop
  <2>2. dhigh' \in Int /\ dhigh' <= oend
    <3>1. CASE tooFar \/ inExt \/ (long /\ more.error)
      BY <1>1, <1>8, <3>1
    <3>2. CASE ~(tooFar \/ inExt \/ (long /\ more.error))
      <4>1. dop <= oend - 12 /\ dhigh' = Greater(dhigh, dop + 8)
        BY <1>1, <1>2, <1>8, <3>2
      <4> QED BY <1>1, <1>3, <4>1 DEF Greater
    <3> QED BY <3>1, <3>2
  <2> QED BY <1>1, <1>5, <1>8, <2>1, <2>2, DecoderSteps
<1>9. CASE /\ ~(long /\ more.error) /\ ~(~dcall.partial /\ dop + n > oend - LASTLITERALS)
           /\ dhigh' = Greater(dhigh, end)
           /\ dop' = dop + m
           /\ dip' = dip + IF long THEN more.bytes ELSE 0
           /\ dread' = Greater(dread, dip')
           /\ \/ Stop(dop + m - dcall.dst)
              \/ dpc' = "token" /\ UNCHANGED dret
  <2>1. m \in Nat /\ dop + m <= oend /\ (~dcall.partial => m = n /\ dop + m <= oend - 5)
    <3>1. CASE dcall.partial
      <4>1. m = Lesser(n, oend - dop) /\ oend - dop \in Nat
        BY <1>1, <1>3, <3>1
      <4> QED BY <1>1, <1>3, <1>7, <3>1, <4>1 DEF Lesser
    <3>2. CASE ~dcall.partial
      <4>1. m = n /\ ~(dop + n > oend - 5)
        BY <1>2, <1>9, <3>2
      <4> HIDE DEF m
      <4> QED BY <1>1, <1>3, <1>7, <3>2, <4>1
    <3> QED BY <3>1, <3>2
  <2>2. dcall.partial /\ ~(dop + n > oend - 12) => m = n
    BY <1>1, <1>3, <1>7 DEF Lesser
  <2> HIDE DEF m
  <2>3. end \in Int /\ end <= oend
    <3>1. CASE inExt \/ (dcall.partial /\ dop + n > oend - MATCH_SAFEGUARD_DISTANCE)
      BY <1>1, <1>3, <2>1, <3>1
    <3>2. CASE ~(inExt \/ (dcall.partial /\ dop + n > oend - MATCH_SAFEGUARD_DISTANCE))
      <4>1. end = MatchCopyEnd(dop, m)
        BY <3>2
      <4> HIDE DEF end
      <4>2. m = n /\ (dop <= oend - 12 \/ dop + m <= oend - 12)
        <5>1. CASE dcall.partial
          <6>1. ~(dop + n > oend - 12)
            BY <1>2, <3>2, <5>1
          <6>2. m = n
            BY <2>2, <5>1, <6>1
          <6> QED BY <1>1, <1>3, <1>7, <6>1, <6>2
        <5>2. CASE ~dcall.partial
          BY <1>1, <1>2, <2>1, <5>2
        <5> QED BY <5>1, <5>2
      <4>3. m >= 4
        BY <1>7, <4>2
      <4> QED BY <1>1, <1>3, <2>1, <4>1, <4>2, <4>3, MatchCopyEndIs
    <3> QED BY <3>1, <3>2
  <2> HIDE DEF end
  <2>4. dhigh' \in Int /\ dhigh' <= oend
    BY <1>1, <1>9, <2>3 DEF Greater
  <2>5. dip' \in Int /\ dip' >= 0 /\ dip' < dend
    <3>1. CASE long
      <4>1. dip + more.bytes < dend - 4 /\ dip' = dip + more.bytes
        BY <1>2, <1>1, <1>4, <1>9, <3>1
      <4> QED BY <1>1, <1>3, <1>4, <4>1
    <3>2. CASE ~long
      BY <1>1, <1>3, <1>9, <3>2
    <3> QED BY <3>1, <3>2
  <2>6. dread' \in Int /\ dread' <= dend
    BY <1>1, <1>9, <2>5 DEF Greater
  <2>7. dop' \in Int /\ dop' >= dcall.dst /\ dop' <= oend
    BY <1>1, <1>3, <1>9, <2>1
  <2>8. CASE Stop(dop + m - dcall.dst)
    <3>1. dpc' = "done" /\ dret' = dop + m - dcall.dst
      BY <2>8 DEF Stop
    <3>2. dret' \in Int
      BY <1>1, <1>3, <2>1, <3>1
    <3> QED BY <1>5, <2>4, <2>6, <3>1, <3>2, DecoderSteps
  <2>9. CASE dpc' = "token" /\ UNCHANGED dret
    BY <1>1, <1>5, <2>4, <2>5, <2>6, <2>7, <2>9, DecoderSteps
  <2> QED BY <1>9, <2>8, <2>9
<1> QED BY <1>6, <1>8, <1>9

\* A call of the decoder begins.
LEMMA DecoderStarts ==
    ASSUME FormatOfLz4, DecodeInv, phase' = "decoding", NEW src \in Seq(0..MaxByte), Len(src) > 0,
           NEW k, LZ4_decompress_generic(src, k),
           k.dst \in Int, k.outputSize \in Nat, k.partial \in BOOLEAN,
           sd' \in [prefixSize : Int, prefixEnd : Int, externalDict : Int, extDictSize : Int]
    PROVE  DecodeInv'
<1>1. /\ block' = src /\ dcall' = k /\ dip' = 0 /\ dop' = k.dst /\ dread' = 0 /\ dhigh' = k.dst
      /\ dpc' \in {"token", "done"} /\ dret' \in Int
  <2>1. dret \in Int
    BY DEF DecodeInv
  <2> QED BY <2>1 DEF LZ4_decompress_generic, Stop
<1>2. dend' = Len(src) /\ oend' = k.dst + k.outputSize
  BY <1>1 DEF dend, oend
<1> DEFINE z == Len(src)
<1>3. z \in Nat /\ z > 0
  OBVIOUS
<1> HIDE DEF z
<1>4. dend' = z
  BY <1>2 DEF z
<1>5. 0 \in 0..(z - 1) /\ 0 <= z /\ k.dst \in k.dst..(k.dst + k.outputSize)
      /\ k.dst <= k.dst + k.outputSize
  BY <1>3
<1> QED BY <1>1, <1>2, <1>4, <1>5 DEF DecodeInv

\* The decoder is idle, and what it keeps between calls has its type.
LEMMA DecoderRests ==
    ASSUME DecodeInv, phase' # "decoding", dpc' = "idle", dret' = dret,
           sd' \in [prefixSize : Int, prefixEnd : Int, externalDict : Int, extDictSize : Int]
    PROVE  DecodeInv'
BY DEF DecodeInv

LEMMA DecodeCallsKeep ==
    ASSUME FormatOfLz4, CompressorInv, DecodeInv, DecodeOne \/ DecodeRing \/ DecodeSaved
    PROVE  DecodeInv'
<1> DEFINE SdType == [prefixSize : Int, prefixEnd : Int, externalDict : Int, extDictSize : Int]
<1>1. /\ phase \in {"compressing", "arranged"} /\ pc = "idle" /\ phase' = "decoding" /\ ret.size > 0
  <2>1. phase' = "decoding" /\ ret.size > 0 /\ (Returned \/ phase = "arranged")
    BY DEF DecodeOne, DecodeRing, DecodeSaved, Decoding
  <2> QED BY <2>1 DEF Returned, CompressorInv, PhaseInv, Stages
<1>2. out \in Seq(0..MaxByte) /\ Len(out) > 0 /\ ret.used \in Nat
  BY <1>1 DEF CompressorInv, ReturnInv
<1>3. /\ MaxBlock \in Nat /\ RingAt \in Int /\ KeptAt \in Int /\ KB64 \in Nat
      /\ sd \in SdType /\ sd.prefixEnd \in Int /\ sd.prefixSize \in Int
  <2>1. MaxBlock \in Nat /\ KB64 \in Nat
    BY LayoutAssumption, FormatFacts
  <2>2. sd \in SdType
    BY DEF DecodeInv
  <2> QED BY <2>1, <2>2 DEF RingAt, KeptAt, TheirDictAt
<1>5. CASE DecodeOne
  <2>1. PICK size \in {ret.used, ret.used + 3, ret.used - 1} \ {-1} :
          \/ LZ4_decompress_safe(out, RingAt, size)
          \/ LZ4_decompress_safe_partial(out, RingAt, ret.used - ret.used \div 3, size)
    BY <1>5 DEF DecodeOne
  <2>2. size \in Nat /\ ret.used - ret.used \div 3 \in Nat
    BY <1>2
  <2>3. CASE LZ4_decompress_safe(out, RingAt, size)
    <3> DEFINE k == Arguments("once", RingAt, size, "noDict", 0, 0, 0)
    <3>1. LZ4_decompress_generic(out, k) /\ sd' = sd
      BY <2>3 DEF LZ4_decompress_safe
    <3>2. k.dst \in Int /\ k.outputSize \in Nat /\ k.partial \in BOOLEAN
      <4>1. k.dst = RingAt /\ k.outputSize = size /\ k.partial = FALSE
        BY DEF Arguments
      <4> QED BY <1>3, <2>2, <4>1
    <3> HIDE DEF k
    <3> QED BY <1>1, <1>2, <1>3, <3>1, <3>2, DecoderStarts
  <2>4. CASE LZ4_decompress_safe_partial(out, RingAt, ret.used - ret.used \div 3, size)
    <3> DEFINE t == Lesser(ret.used - ret.used \div 3, size)
               k == [Arguments("once", RingAt, t, "noDict", 0, 0, 0) EXCEPT !.partial = TRUE]
    <3>1. LZ4_decompress_generic(out, k) /\ sd' = sd
      BY <2>4 DEF LZ4_decompress_safe_partial
    <3>2. t \in Nat
      BY <2>2 DEF Lesser
    <3> HIDE DEF t
    <3>3. k.dst = RingAt /\ k.outputSize = t /\ k.partial = TRUE
      BY DEF Arguments
    <3> HIDE DEF k
    <3> QED BY <1>1, <1>2, <1>3, <3>1, <3>2, <3>3, DecoderStarts
  <2> QED BY <2>1, <2>3, <2>4
<1>6. CASE DecodeRing
  <2> DEFINE next == IF sd.prefixEnd < RingAt
                        \/ sd.prefixEnd + MaxBlock > RingAt + LZ4_decoderRingBufferSize
                     THEN RingAt ELSE sd.prefixEnd
             rolling == sd.prefixEnd = next
             ext == sd.prefixEnd - sd.prefixSize
             k == IF sd.prefixSize = 0
                  THEN Arguments("first", next, MaxBlock, "noDict", 0, 0, 0)
                  ELSE IF ~rolling
                  THEN Arguments("wrapped", next, MaxBlock, "usingExtDict", 0, ext, sd.prefixSize)
                  ELSE IF sd.prefixSize >= KB64 - 1
                  THEN Arguments("rolling", next, MaxBlock, "withPrefix64k", KB64, 0, 0)
                  ELSE IF sd.extDictSize = 0
                  THEN Arguments("rolling", next, MaxBlock, "noDict", sd.prefixSize, 0, 0)
                  ELSE Arguments("rolling", next, MaxBlock, "usingExtDict", sd.prefixSize,
                                 sd.externalDict, sd.extDictSize)
  <2>1. LZ4_decompress_safe_continue(out, next, MaxBlock)
    BY <1>6 DEF DecodeRing
  <2>2. next \in Int
    BY <1>3
  <2> HIDE DEF next
  <2>3. LZ4_decompress_generic(out, k)
        /\ sd' = IF k.api = "wrapped"
                 THEN [sd EXCEPT !.extDictSize = sd.prefixSize, !.externalDict = ext] ELSE sd
    BY <2>1 DEF LZ4_decompress_safe_continue
  <2>4. ext \in Int
    BY <1>3
  <2> HIDE DEF ext, rolling
  <2>5. k.dst = next /\ k.outputSize = MaxBlock /\ k.partial = FALSE
    BY DEF Arguments
  <2> HIDE DEF k
  <2>6. sd' \in SdType
    BY <1>3, <2>3, <2>4
  <2> QED BY <1>1, <1>2, <1>3, <2>2, <2>3, <2>5, <2>6, DecoderStarts
<1>7. CASE DecodeSaved
  <2> DEFINE kept == Lesser(Len(content), KB64)
  <2>1. PICK dst \in {KeptAt + kept, RingAt} :
          LZ4_decompress_safe_usingDict(out, dst, MaxBlock, KeptAt, kept)
    BY <1>7 DEF DecodeSaved
  <2> DEFINE k == IF kept = 0 THEN Arguments("once", dst, MaxBlock, "noDict", 0, 0, 0)
                  ELSE IF KeptAt + kept # dst
                  THEN Arguments("once", dst, MaxBlock, "usingExtDict", 0, KeptAt, kept)
                  ELSE IF kept >= KB64 - 1
                  THEN Arguments("once", dst, MaxBlock, "withPrefix64k", KB64, 0, 0)
                  ELSE Arguments("once", dst, MaxBlock, "noDict", kept, 0, 0)
  <2>2. LZ4_decompress_generic(out, k) /\ sd' = sd
    BY <2>1 DEF LZ4_decompress_safe_usingDict
  <2>3. dst \in Int
    BY DEF Lesser
  <2> HIDE DEF kept
  <2>4. k.dst = dst /\ k.outputSize = MaxBlock /\ k.partial = FALSE
    BY DEF Arguments
  <2> HIDE DEF k
  <2> QED BY <1>1, <1>2, <1>3, <2>2, <2>3, <2>4, DecoderStarts
<1> QED BY <1>5, <1>6, <1>7

\* Every action keeps what the decoder's steps rely on.
LEMMA DecoderNext ==
    ASSUME FormatOfLz4, CompressorInv, DecodeInv, [Next]_vars
    PROVE  DecodeInv'
<1> DEFINE SdType == [prefixSize : Int, prefixEnd : Int, externalDict : Int, extDictSize : Int]
<1>1. sd \in SdType /\ dret \in Int
  BY DEF DecodeInv
<1>2. CASE UNCHANGED vars
  BY <1>2 DEF vars, dvars, rvars, DecodeInv, dend, oend
<1>3. ASSUME NEW how \in {"reset", "load", "attach"}, Begin(how)
      PROVE  DecodeInv'
  <2> DEFINE dict == IF how = "reset" THEN <<>> ELSE Dictionary
  <2>1. /\ phase' = phase /\ phase = "caller" /\ dpc' = dpc /\ dret' = dret /\ dpc = "idle"
        /\ sd' = [prefixSize |-> Len(dict), prefixEnd |-> TheirDictAt + Len(dict),
                  externalDict |-> 0, extDictSize |-> 0]
    BY <1>3 DEF Begin, LZ4_setStreamDecode
  <2>2. Len(dict) \in Int /\ TheirDictAt + Len(dict) \in Int
    BY CallerAssumption DEF TheirDictAt
  <2> HIDE DEF dict
  <2>3. sd' \in SdType
    BY <2>1, <2>2
  <2> QED BY <2>1, <2>3, DecoderRests
<1>4. CASE LayOut \/ Call \/ Compressing \/ Save \/ NotCompressed \/ Arrange
  <2>1. phase' # "decoding" /\ UNCHANGED <<sd, dpc, dret>> /\ phase # "decoding"
    BY <1>4 DEF LayOut, Call, Compressing, Save, NotCompressed, Arrange, Returned, dvars, rvars
  <2>2. dpc = "idle"
    BY <2>1 DEF CompressorInv, PhaseInv
  <2> QED BY <1>1, <2>1, <2>2, DecoderRests
<1>5. CASE DecodeOne \/ DecodeRing \/ DecodeSaved
  BY <1>5, DecodeCallsKeep
<1>6. CASE Decompressing
  <2>1. phase = "decoding" /\ phase' = phase /\ DecompressStep
    BY <1>6 DEF Decompressing, rvars
  <2> QED BY <2>1, ShortcutKeeps, DecodeLiteralsKeeps, CopyMatchKeeps DEF DecompressStep
<1>7. CASE Decoded
  <2>1. /\ phase' = "caller" /\ dpc' = "idle" /\ dret' = dret
        /\ sd' = IF dcall.api = "once" \/ dret <= 0 THEN sd
                 ELSE IF dcall.api = "rolling"
                 THEN [sd EXCEPT !.prefixSize = @ + dret, !.prefixEnd = @ + dret]
                 ELSE [sd EXCEPT !.prefixSize = dret, !.prefixEnd = dcall.dst + dret]
        /\ phase = "decoding"
    BY <1>7 DEF Decoded, ReturnDecoded
  <2>2. dcall.dst \in Int
    BY <2>1 DEF DecodeInv
  <2>3. CASE dcall.api = "once" \/ dret <= 0
    BY <1>1, <2>1, <2>3, DecoderRests
  <2>4. CASE ~(dcall.api = "once" \/ dret <= 0) /\ dcall.api = "rolling"
    <3>1. sd' = [sd EXCEPT !.prefixSize = @ + dret, !.prefixEnd = @ + dret]
      BY <2>1, <2>4
    <3>2. sd.prefixSize + dret \in Int /\ sd.prefixEnd + dret \in Int
      BY <1>1
    <3>3. sd' \in SdType
      BY <1>1, <3>1, <3>2
    <3> QED BY <2>1, <3>3, DecoderRests
  <2>5. CASE ~(dcall.api = "once" \/ dret <= 0) /\ dcall.api # "rolling"
    <3>1. sd' = [sd EXCEPT !.prefixSize = dret, !.prefixEnd = dcall.dst + dret]
      BY <2>1, <2>5
    <3>2. dcall.dst + dret \in Int
      BY <1>1, <2>2
    <3>3. sd' \in SdType
      BY <1>1, <3>1, <3>2
    <3> QED BY <2>1, <3>3, DecoderRests
  <2> QED BY <2>3, <2>4, <2>5
<1> QED BY <1>2, <1>3, <1>4, <1>5, <1>6, <1>7 DEF Next

LEMMA DecoderInit ==
    ASSUME FormatOfLz4, Init
    PROVE  DecodeInv
BY DEF Init, InitDecompress, DecodeInv

-----------------------------------------------------------------------------
(* The theorems.                                                              *)

\* Both sides together: the decoder starts from what the compressor returned.
THEOREM RoundTripTypes ==
    ASSUME FormatOfLz4 PROVE Spec => [](CompressorInv /\ DecodeInv)
<1>1. Init => CompressorInv /\ DecodeInv
  BY CompressorInit, DecoderInit
<1>2. CompressorInv /\ DecodeInv /\ [Next]_vars => (CompressorInv /\ DecodeInv)'
  BY CompressorNext, DecoderNext
<1> QED BY <1>1, <1>2, PTL DEF Spec

\* What the assertions of LZ4_compress_generic_validated state holds wherever
\* they stand, for every sequence of calls that lz4.h allows; but for a block
\* of a ring laid over the dictionary from its first byte on, which lowLimit
\* does not tell from it (lz4.c:1074): of that one the theorem says nothing.
THEOREM AssertionsOfLz4 ==
    ASSUME FormatOfLz4 PROVE Spec => []AssertsHold
<1>1. CompressorInv /\ DecodeInv => AssertsHold
  BY AssertsFollow
<1> QED BY <1>1, RoundTripTypes, PTL

\* With LZ4_compressBound bytes in dest no call of the compressor fails
\* (lz4.h:317), whatever the ring has overwritten.
THEOREM BoundIsEnough ==
    ASSUME FormatOfLz4 PROVE Spec => []BoundSuffices
<1>1. CompressorInv /\ DecodeInv => BoundSuffices
  BY BoundFollows
<1> QED BY <1>1, RoundTripTypes, PTL

\* The compressor never writes past dest, the copies in strides of the decoder
\* never write past theirs, and it never reads past the end of the block; also
\* for the blocks of a ring that cover all the stream refers to.
THEOREM NothingOutside ==
    ASSUME FormatOfLz4 PROVE Spec => []WithinBuffers
<1>1. CompressorInv /\ DecodeInv => WithinBuffers
  <2> SUFFICES ASSUME CompressorInv, DecodeInv PROVE WithinBuffers
    OBVIOUS
  <2>1. phase = "decoding" => dhigh <= oend /\ dread <= dend
    BY DEF DecodeInv
  <2> QED BY <2>1, WrittenWithinRoom DEF WithinBuffers, Room
<1> QED BY <1>1, RoundTripTypes, PTL

-----------------------------------------------------------------------------
(* What the stream has held, and where it is.                                 *)

\* The n bytes of m in front of p are the end of text, but for those lost.
Ends(m, p, n, text, lost) ==
    /\ n <= Len(text)
    /\ \A j \in 1..n : p - j \in lost \/ m[p - j] = text[Len(text) + 1 - j]

HeldBy(s, m, text, lost) == Ends(m, s.dictionary + s.dictSize, s.dictSize, text, lost)

\* The cells the block was laid out in.
Laid == IF phase = "filled" THEN input.source..(input.source + input.size - 1) ELSE {}

\* A block that is laid out leaves the end of the dictionary alone, or the
\* dictionary is too small to be used.
Apart(s, source, size) ==
    \/ s.dictSize < MINMATCH
    \/ source >= s.dictionary + s.dictSize
    \/ source + size < s.dictionary + s.dictSize

\* Until a block covers it, the stream's data is the end of what it has held.
HistoryInv ==
    kind # "one" =>
        /\ content \in Seq(HashedBytes) /\ sent \in Seq(HashedBytes)
        /\ Ends(mem, DictAt + Len(Dictionary), Len(Dictionary), Dictionary, {})
        /\ phase \in {"caller", "filled"} =>
              /\ ~covered => HeldBy(strm.work, mem, content, Laid)
              /\ strm.work.dictCtx => /\ strm.work.dictionary = 0 /\ strm.work.dictSize = 0
                                      /\ content = Dictionary
        /\ phase = "filled" =>
              /\ input.size = Len(sent)
              /\ Ends(mem, input.source + input.size, input.size, sent, {})
              /\ ~covered => Apart(strm.work, input.source, input.size)
        /\ pc \in Stages =>
              /\ call.size = Len(sent) /\ ~strm.work.dictCtx
              /\ Ends(mem, iend, call.size, sent, {})
              /\ ~covered /\ call.dict = "withPrefix64k" =>
                    HeldBy(strm.work, mem, content \o sent, {})
        /\ pc = "idle" /\ phase # "caller" =>
              /\ ~covered => HeldBy(strm.work, mem, content \o sent, {})
              /\ ~strm.work.dictCtx

-----------------------------------------------------------------------------
(* Text in memory.                                                            *)

LEMMA EndsLess ==
    ASSUME NEW m, NEW p \in Int, NEW n \in Nat, NEW k \in Nat, k <= n,
           NEW text \in Seq(HashedBytes), NEW lost, Ends(m, p, n, text, lost)
    PROVE  Ends(m, p, k, text, lost)
<1> DEFINE o == Len(text)
<1>1. o \in Nat /\ n <= o
  BY DEF Ends
<1>2. k <= o
  <2> HIDE DEF o
  <2> QED BY <1>1
<1>3. 1..k \subseteq 1..n
  OBVIOUS
<1> QED BY <1>2, <1>3 DEF Ends

\* Nothing is lost that lies elsewhere.
LEMMA EndsAvoids ==
    ASSUME NEW m, NEW p \in Int, NEW n \in Nat, NEW text, NEW lost,
           Ends(m, p, n, text, lost), \A j \in 1..n : p - j \notin lost, NEW other
    PROVE  Ends(m, p, n, text, other)
BY DEF Ends

\* Memory written in lost.
LEMMA EndsUnder ==
    ASSUME NEW m, NEW new, NEW p \in Int, NEW n \in Nat, NEW text, NEW lost,
           Ends(m, p, n, text, {}),
           \A j \in 1..n : p - j \in lost \/ new[p - j] = m[p - j]
    PROVE  Ends(new, p, n, text, lost)
BY DEF Ends

LEMMA EndsSuffix ==
    ASSUME NEW m, NEW p \in Int, NEW text \in Seq(HashedBytes), NEW more \in Seq(HashedBytes),
           Ends(m, p, Len(more), more, {})
    PROVE  Ends(m, p, Len(more), text \o more, {})
<1> DEFINE o == Len(text)
           n == Len(more)
           all == text \o more
<1>1. o \in Nat /\ n \in Nat /\ Len(all) = o + n
  OBVIOUS
<1>2. \A i \in 1..n : all[o + i] = more[i]
  OBVIOUS
<1>3. \A j \in 1..n : m[p - j] = more[n + 1 - j]
  BY DEF Ends
<1> HIDE DEF o, all, n
<1>4. ASSUME NEW j \in 1..n PROVE m[p - j] = all[(o + n) + 1 - j]
  <2>1. n + 1 - j \in 1..n /\ o + (n + 1 - j) = (o + n) + 1 - j
    BY <1>1
  <2> QED BY <1>2, <1>3, <2>1
<1>5. n <= o + n
  BY <1>1
<1> QED BY <1>1, <1>4, <1>5 DEF Ends, all, n

LEMMA EndsAppend ==
    ASSUME NEW m, NEW p \in Int, NEW n \in Nat,
           NEW text \in Seq(HashedBytes), NEW more \in Seq(HashedBytes),
           Ends(m, p, n, text, {}), Ends(m, p + Len(more), Len(more), more, {})
    PROVE  Ends(m, p + Len(more), n + Len(more), text \o more, {})
<1> DEFINE o == Len(text)
           k == Len(more)
           all == text \o more
<1>1. o \in Nat /\ k \in Nat /\ Len(all) = o + k
  OBVIOUS
<1>2. \A i \in 1..o : all[i] = text[i]
  OBVIOUS
<1>3. Ends(m, p + k, k, all, {})
  BY <1>1, EndsSuffix
<1>4. n <= o /\ \A j \in 1..n : m[p - j] = text[o + 1 - j]
  BY DEF Ends
<1>5. \A j \in 1..k : m[p + k - j] = all[(o + k) + 1 - j]
  BY <1>1, <1>3 DEF Ends
<1> HIDE DEF o, all, k
<1>6. ASSUME NEW j \in 1..(n + k) PROVE m[p + k - j] = all[(o + k) + 1 - j]
  <2>1. CASE j <= k
    <3>1. j \in 1..k
      BY <1>1, <2>1
    <3> QED BY <1>5, <3>1
  <2>2. CASE ~(j <= k)
    <3>1. j - k \in 1..n /\ p + k - j = p - (j - k) /\ o + 1 - (j - k) = (o + k) + 1 - j
          /\ o + 1 - (j - k) \in 1..o
      BY <1>1, <1>4, <2>2
    <3> QED BY <1>2, <1>4, <3>1
  <2> QED BY <2>1, <2>2
<1>7. n + k <= o + k
  BY <1>1, <1>4
<1> QED BY <1>1, <1>6, <1>7 DEF Ends, all, k

LEMMA EndsCells ==
    ASSUME NEW m, NEW a \in Nat, NEW n \in Nat, NEW text \in Seq(HashedBytes),
           Ends(m, a + n, n, text, {})
    PROVE  Cells(m, a, n) = Last(text, n)
<1> DEFINE o == Len(text)
<1>1. o \in Nat /\ n <= o /\ \A j \in 1..n : m[a + n - j] = text[o + 1 - j]
  BY DEF Ends
<1>2. Last(text, n) = SubSeq(text, Greater(o - n, 0) + 1, o)
  BY DEF Last
<1>3. \A i \in 1..o : text[i] \in HashedBytes
  BY ElementOf
<1>4. SubSeq(text, (o - n) + 1, o) = [i \in 1..n |-> text[(o - n) + i]]
  <2>1. SubSeq(text, (o - n) + 1, o) = [i \in 1..(o - ((o - n) + 1) + 1) |-> text[i + ((o - n) + 1) - 1]]
    BY <1>1
  <2> HIDE DEF o
  <2>2. o - ((o - n) + 1) + 1 = n /\ \A i \in 1..n : i + ((o - n) + 1) - 1 = (o - n) + i
    BY <1>1
  <2> QED BY <2>1, <2>2
<1> HIDE DEF o
<1>5. Greater(o - n, 0) = o - n
  BY <1>1 DEF Greater
<1>6. ASSUME NEW i \in 1..n PROVE m[a + i - 1] = text[(o - n) + i]
  <2>1. n + 1 - i \in 1..n /\ a + n - (n + 1 - i) = a + i - 1 /\ o + 1 - (n + 1 - i) = (o - n) + i
    BY <1>1
  <2> QED BY <1>1, <2>1
<1> QED BY <1>2, <1>4, <1>5, <1>6 DEF Cells

\* LZ4_renormDictT keeps the end of the dictionary.
LEMMA RenormEnds ==
    ASSUME FormatOfLz4, NEW s, Streaming(s), NEW size \in 1..MaxBlock
    PROVE  LET r == LZ4_renormDictT(s, size)
           IN  /\ r.dictCtx = s.dictCtx
               /\ r.dictionary + r.dictSize = s.dictionary + s.dictSize
               /\ r.dictSize <= s.dictSize
<1>1. s \in StreamType /\ s.dictionary \in Nat /\ s.dictSize \in Nat /\ KB64 \in Nat
  BY StreamFields, FormatFacts DEF Streaming
<1>2. CASE s.currentOffset + size <= IndexLimit
  BY <1>1, <1>2 DEF LZ4_renormDictT
<1>3. CASE ~(s.currentOffset + size <= IndexLimit)
  <2> DEFINE delta == s.currentOffset - KB64
             end == s.dictionary + s.dictSize
             kept == Lesser(s.dictSize, KB64)
             tab == [h \in DOMAIN s.table |-> IF s.table[h] < delta THEN 0 ELSE s.table[h] - delta]
             r == [s EXCEPT !.table = tab, !.currentOffset = KB64,
                            !.dictSize = kept, !.dictionary = end - kept]
  <2>1. LZ4_renormDictT(s, size) = r
    BY <1>1, <1>3 DEF LZ4_renormDictT, StreamType
  <2>2. kept \in Nat /\ kept <= s.dictSize
    BY <1>1 DEF Lesser
  <2> HIDE DEF kept, tab
  <2>3. r.dictSize = kept /\ r.dictionary = end - kept /\ r.dictCtx = s.dictCtx
    BY <1>1 DEF StreamType
  <2> HIDE DEF r
  <2>4. r.dictionary + r.dictSize = end
    BY <1>1, <2>2, <2>3
  <2> QED BY <2>1, <2>2, <2>3, <2>4
<1> QED BY <1>2, <1>3

\* LZ4_compress_fast_continue leaves an attached dictionary attached.
LEMMA ContinueContext ==
    ASSUME FormatOfLz4, NEW s0, Streaming(s0), NEW source \in Nat, NEW size \in 1..MaxBlock
    PROVE  LET s == ContinueFrom(s0, source, size)
           IN  /\ s.dictCtx = s0.dictCtx
               /\ s0.dictionary = 0 /\ s0.dictSize = 0 => s.dictionary = 0 /\ s.dictSize = 0
<1> DEFINE s == LZ4_renormDictT(s0, size)
           end == s.dictionary + s.dictSize
           tiny == s.dictSize \in 1..(MINMATCH - 1) /\ end # source
           s1   == IF tiny THEN [s EXCEPT !.dictSize = 0, !.dictionary = source] ELSE s
           end1 == IF tiny THEN source ELSE end
           left == Lesser(end1 - (source + size), KB64)
           kept == IF left < MINMATCH THEN 0 ELSE left
           over == source + size > s1.dictionary /\ source + size < end1
           t == IF over THEN [s1 EXCEPT !.dictSize = kept, !.dictionary = end1 - kept] ELSE s1
<1>1. ContinueFrom(s0, source, size) = t
  BY DEF ContinueFrom
<1>2. /\ Streaming(s) /\ s.dictCtx = s0.dictCtx /\ end = s0.dictionary + s0.dictSize
      /\ s.dictSize <= s0.dictSize
  BY Renormed, RenormEnds
<1> HIDE DEF s
<1>3. /\ s \in StreamType /\ s.dictionary \in Nat /\ s.dictSize \in Nat
      /\ s0.dictionary \in Nat /\ s0.dictSize \in Nat /\ size \in Nat /\ size >= 1
  <2>1. s \in StreamType /\ s0 \in StreamType
    BY <1>2 DEF Streaming
  <2>2. MaxBlock \in Nat
    BY LayoutAssumption
  <2> QED BY <2>1, <2>2, StreamFields
<1>4. s1 \in StreamType /\ s1.dictCtx = s.dictCtx
  BY <1>3 DEF StreamType
<1>5. t.dictCtx = s.dictCtx
  <2> HIDE DEF s1, kept, over
  <2> QED BY <1>4 DEF StreamType
<1>6. s0.dictionary = 0 /\ s0.dictSize = 0 => t.dictionary = 0 /\ t.dictSize = 0
  <2> SUFFICES ASSUME s0.dictionary = 0, s0.dictSize = 0
               PROVE  t.dictionary = 0 /\ t.dictSize = 0
    OBVIOUS
  <2>1. s.dictSize = 0 /\ s.dictionary = 0 /\ end = 0
    BY <1>2, <1>3
  <2>2. ~tiny
    BY <2>1
  <2>3. s1 = s /\ end1 = 0
    BY <2>1, <2>2
  <2>4. ~over
    <3> HIDE DEF s1, end1, tiny
    <3> QED BY <1>3, <2>3
  <2> HIDE DEF s1, over
  <2> QED BY <2>1, <2>3, <2>4
<1> QED BY <1>1, <1>2, <1>5, <1>6

\* What LZ4_compress_fast_continue takes for its dictionary is still in memory:
\* it gives up what the block was written over.
LEMMA ContinueHolds ==
    ASSUME FormatOfLz4, NEW s0, Streaming(s0), NEW source \in Nat,
           NEW size \in 1..MaxBlock, Apart(s0, source, size),
           NEW text \in Seq(HashedBytes), HeldBy(s0, mem, text, source..(source + size - 1))
    PROVE  LET s == ContinueFrom(s0, source, size)
           IN  HeldBy(s, mem, text, {})
<1> DEFINE s == LZ4_renormDictT(s0, size)
           end == s.dictionary + s.dictSize
           tiny == s.dictSize \in 1..(MINMATCH - 1) /\ end # source
           s1   == IF tiny THEN [s EXCEPT !.dictSize = 0, !.dictionary = source] ELSE s
           end1 == IF tiny THEN source ELSE end
           left == Lesser(end1 - (source + size), KB64)
           kept == IF left < MINMATCH THEN 0 ELSE left
           over == source + size > s1.dictionary /\ source + size < end1
           t == IF over THEN [s1 EXCEPT !.dictSize = kept, !.dictionary = end1 - kept] ELSE s1
           lost == source..(source + size - 1)
<1>1. ContinueFrom(s0, source, size) = t
  BY DEF ContinueFrom
<1>2. /\ Streaming(s) /\ Apart(s, source, size)
      /\ s.dictCtx = s0.dictCtx /\ end = s0.dictionary + s0.dictSize
      /\ s.dictSize <= s0.dictSize
  <2>1. size \in Nat
    BY LayoutAssumption
  <2>2. /\ Streaming(s) /\ s.dictCtx = s0.dictCtx /\ end = s0.dictionary + s0.dictSize
        /\ s.dictSize <= s0.dictSize /\ (s0.dictSize < 4 => s.dictSize < 4)
    BY Renormed, RenormEnds
  <2> HIDE DEF s
  <2>3. MINMATCH = 4
    BY DEF FormatOfLz4
  <2> QED BY <2>2, <2>3 DEF Apart
<1> HIDE DEF s
<1>3. /\ s \in StreamType /\ s.dictionary \in Nat /\ s.dictSize \in Nat
      /\ s0.dictionary \in Nat /\ s0.dictSize \in Nat
      /\ KB64 \in Nat /\ MINMATCH = 4 /\ size \in Nat /\ size >= 1
  <2>1. s \in StreamType /\ s0 \in StreamType
    BY <1>2 DEF Streaming
  <2>2. KB64 \in Nat /\ MINMATCH = 4 /\ MaxBlock \in Nat
    BY FormatFacts, LayoutAssumption DEF FormatOfLz4
  <2> QED BY <2>1, <2>2, StreamFields
<1>4. Ends(mem, end, s.dictSize, text, lost)
  <2>1. Ends(mem, end, s0.dictSize, text, lost)
    BY <1>2 DEF HeldBy
  <2>2. end \in Int
    BY <1>3
  <2> HIDE DEF end, lost
  <2> QED BY <1>2, <1>3, <2>1, <2>2, EndsLess
<1>6. Len(text) \in Nat
  OBVIOUS
<1>7. CASE tiny
  <2>1. s1.dictSize = 0 /\ s1.dictionary = source /\ s1.dictCtx = s.dictCtx /\ end1 = source
    BY <1>3, <1>7 DEF StreamType
  <2>2. ~over
    BY <1>3, <2>1
  <2>3. t = s1
    BY <2>2
  <2> HIDE DEF t, s1, tiny
  <2>5. Ends(mem, source + 0, 0, text, {})
    BY <1>6 DEF Ends
  <2> QED BY <1>1, <2>1, <2>3, <2>5 DEF HeldBy
<1>8. CASE ~tiny /\ over
  <2>1. s1 = s /\ end1 = end
    BY <1>8
  <2> HIDE DEF s1, end1, tiny
  <2>2. source + size > s.dictionary /\ source + size < end
    BY <1>8, <2>1
  <2>3. kept \in Nat /\ kept <= end - (source + size) /\ kept <= s.dictSize
    BY <1>3, <2>1, <2>2 DEF Lesser
  <2> HIDE DEF kept
  <2>4. t = [s EXCEPT !.dictSize = kept, !.dictionary = end - kept]
    BY <1>8, <2>1
  <2> HIDE DEF t
  <2>5. t.dictSize = kept /\ t.dictionary = end - kept /\ t.dictCtx = s.dictCtx
    BY <1>3, <2>4 DEF StreamType
  <2>6. t.dictionary + t.dictSize = end /\ end \in Int
    <3>1. end \in Int
      BY <1>3
    <3> HIDE DEF end
    <3>2. (end - kept) + kept = end
      BY <2>3, <3>1
    <3> QED BY <2>5, <3>1, <3>2
  <2>7. ASSUME NEW j \in 1..kept PROVE end - j \notin lost
    BY <1>3, <2>3
  <2> HIDE DEF end, lost
  <2>8. Ends(mem, end, kept, text, lost)
    BY <1>3, <1>4, <2>3, <2>6, EndsLess
  <2>9. Ends(mem, end, kept, text, {})
    BY <2>3, <2>6, <2>7, <2>8, EndsAvoids
  <2> QED BY <1>1, <2>5, <2>6, <2>9 DEF HeldBy
<1>9. CASE ~tiny /\ ~over
  <2>1. s1 = s /\ end1 = end /\ t = s1
    BY <1>9
  <2> HIDE DEF t, s1, end1, tiny
  <2>2. ~(source + size > s.dictionary /\ source + size < end)
    BY <1>9, <2>1
  <2>6. s.dictSize \in 1..3 => end = source
    BY <1>3, <1>9 DEF tiny
  <2>3. ASSUME NEW j \in 1..s.dictSize PROVE end - j \notin lost
    <3>1. \/ source + size <= s.dictionary
          \/ source >= end
      BY <1>2, <1>3, <2>2, <2>3, <2>6 DEF Apart
    <3> QED BY <1>3, <3>1
  <2>4. end \in Int
    BY <1>3
  <2>5. Ends(mem, end, s.dictSize, text, {})
    <3> HIDE DEF end, lost
    <3> QED BY <1>3, <1>4, <2>3, <2>4, EndsAvoids
  <2> QED BY <1>1, <2>1, <2>5 DEF HeldBy
<1> QED BY <1>7, <1>8, <1>9

\* The dictionary a stream was loaded with is the one in memory.
LEMMA LoadedHolds ==
    ASSUME FormatOfLz4, NEW s \in StreamType, DictLoaded(s), NEW m,
           Ends(m, DictAt + Len(Dictionary), Len(Dictionary), Dictionary, {})
    PROVE  HeldBy(s, m, Dictionary, {})
<1> DEFINE n == Len(Dictionary)
<1>1. Dictionary \in Seq(HashedBytes) /\ n \in Nat /\ DictAt \in Nat
  BY CallerAssumption, LayoutAssumption
<1>2. s.dictionary \in Nat /\ s.dictSize \in Nat
  BY StreamFields
<1>3. s.dictionary >= DictAt /\ s.dictionary + s.dictSize = DictAt + n
  BY DEF DictLoaded
<1>4. Ends(m, DictAt + n, n, Dictionary, {})
  OBVIOUS
<1> HIDE DEF n
<1>5. s.dictSize <= n /\ DictAt + n \in Int
  BY <1>1, <1>2, <1>3
<1>6. Ends(m, DictAt + n, s.dictSize, Dictionary, {})
  BY <1>1, <1>2, <1>4, <1>5, EndsLess
<1> QED BY <1>3, <1>6 DEF HeldBy

\* A block is laid out: the stream's dictionary is the end of its history.
LEMMA HistoryIsDictionary ==
    ASSUME FormatOfLz4, CompressorInv, HistoryInv
    PROVE  DictionaryIsHistory
<1> SUFFICES ASSUME phase = "filled", kind # "one", ~covered PROVE DictionaryIsHistory
  BY DEF DictionaryIsHistory
<1> DEFINE s == ContinueFrom(strm.work, input.source, input.size)
           d == IF s.dictCtx THEN strm.dict ELSE s
<1>1. /\ pc = "filled" /\ pc \notin Stages
      /\ input.source \in Nat /\ input.size \in Nat /\ strm.work \in StreamType
      /\ strm.dict \in StreamType /\ input.source + input.size <= MemHi + 1
      /\ input.size >= 1 /\ input.size <= MaxBlock /\ MaxBlock \in Nat
  <2>1. pc = "filled" /\ pc \notin Stages
    BY DEF CompressorInv, PhaseInv, Stages
  <2>2. MaxBlock \in Nat
    BY LayoutAssumption
  <2> QED BY <2>1, <2>2 DEF CompressorInv, MemoryInv, SourceInv
<1>2. Streaming(strm.work)
  BY <1>1 DEF CompressorInv, MemoryInv, TablesInv, Streaming
<1>3. Apart(strm.work, input.source, input.size)
  BY DEF HistoryInv
<1>4. /\ content \in Seq(HashedBytes)
      /\ HeldBy(strm.work, mem, content, input.source..(input.source + input.size - 1))
      /\ strm.work.dictCtx => content = Dictionary
      /\ Ends(mem, DictAt + Len(Dictionary), Len(Dictionary), Dictionary, {})
  BY DEF HistoryInv, Laid
<1>5. input.size \in 1..MaxBlock
  BY <1>1
<1>6. s.dictCtx = strm.work.dictCtx /\ HeldBy(s, mem, content, {})
  BY <1>1, <1>2, <1>3, <1>4, <1>5, ContinueHolds, ContinueContext
<1>7. s \in StreamType
  BY <1>1, <1>2, <1>3, <1>5, ContinueIs
<1> HIDE DEF s
<1>8. d \in StreamType /\ HeldBy(d, mem, content, {})
  <2>1. CASE s.dictCtx
    <3>1. DictLoaded(strm.dict) /\ content = Dictionary
      BY <1>2, <1>4, <1>6, <2>1 DEF Streaming
    <3> QED BY <1>1, <1>4, <2>1, <3>1, LoadedHolds
  <2>2. CASE ~s.dictCtx
    BY <1>6, <1>7, <2>2
  <2> QED BY <2>1, <2>2
<1> HIDE DEF d
<1>9. Cells(mem, d.dictionary, d.dictSize) = Last(content, d.dictSize)
  <2>1. d.dictionary \in Nat /\ d.dictSize \in Nat
    BY <1>8, StreamFields
  <2>2. Ends(mem, d.dictionary + d.dictSize, d.dictSize, content, {})
    BY <1>8 DEF HeldBy
  <2> QED BY <1>4, <2>1, <2>2, EndsCells
<1> QED BY <1>9 DEF DictionaryIsHistory, d, s

-----------------------------------------------------------------------------
(* The history from step to step.                                             *)

LEMMA NothingHeld ==
    ASSUME NEW s, s.dictSize = 0, NEW m, NEW text \in Seq(HashedBytes), NEW lost
    PROVE  HeldBy(s, m, text, lost)
<1>1. Len(text) \in Nat
  OBVIOUS
<1> QED BY <1>1 DEF HeldBy, Ends

LEMMA DictionaryFacts ==
    ASSUME TRUE
    PROVE  /\ Dictionary \in Seq(HashedBytes) /\ Len(Dictionary) \in Nat
           /\ DictAt \in Nat /\ DictAt >= 1 /\ SafeAt \in Nat /\ MaxBlock \in Nat
           /\ DictAt + Len(Dictionary) <= SafeAt
           /\ SafeAt + KB64 + MaxBlock <= MemHi + 1
BY CallerAssumption, LayoutAssumption

LEMMA HistoryBegins ==
    ASSUME FormatOfLz4, CompressorInv, HistoryInv,
           NEW how \in {"reset", "load", "attach"}, Begin(how)
    PROVE  HistoryInv'
<1> DEFINE fresh  == LZ4_prepareTable(strm.work, 0, "byU32")
           loaded == LZ4_loadDict(DictAt, Len(Dictionary))
           tied   == LZ4_attach_dictionary(fresh, loaded)
           dict   == IF how = "reset" THEN <<>> ELSE Dictionary
<1>1. /\ phase = "caller" /\ kind # "one" /\ pc = "idle" /\ pc' = "idle" /\ phase' = "caller"
      /\ kind' = kind /\ mem' = mem /\ sent' = sent /\ content' = dict
      /\ \/ how = "reset"  /\ strm' = [strm EXCEPT !.work = fresh]
         \/ how = "load"   /\ strm' = [strm EXCEPT !.work = loaded]
         \/ how = "attach" /\ strm' = [dict |-> loaded, work |-> tied]
  BY DEF Begin, BeginStream
<1>2. /\ strm \in [work : StreamType, dict : StreamType] /\ strm.work \in StreamType
      /\ Aged(strm.work) /\ mem \in [0..MemHi -> HashedBytes]
  BY <1>1 DEF CompressorInv, MemoryInv, TablesInv, Stages
<1>3. fresh \in StreamType /\ fresh.dictionary = 0 /\ fresh.dictSize = 0 /\ ~fresh.dictCtx
  BY <1>2, TablePrepared DEF TableTypes
<1>4. loaded \in StreamType /\ ~loaded.dictCtx /\ (loaded.dictSize = 0 \/ DictLoaded(loaded))
  BY <1>2, LoadedIs
<1> HIDE DEF fresh, loaded
<1>5. tied.dictionary = 0 /\ tied.dictSize = 0
  BY <1>3 DEF LZ4_attach_dictionary, StreamType
<1> HIDE DEF tied
<1>6. /\ Ends(mem, DictAt + Len(Dictionary), Len(Dictionary), Dictionary, {})
      /\ sent \in Seq(HashedBytes) /\ content' \in Seq(HashedBytes)
      /\ Dictionary \in Seq(HashedBytes)
  BY <1>1, DictionaryFacts DEF HistoryInv
<1>7. /\ HeldBy(strm'.work, mem, content', {})
      /\ strm'.work.dictCtx => /\ strm'.work.dictionary = 0 /\ strm'.work.dictSize = 0
                               /\ content' = Dictionary
  <2>1. CASE how = "reset"
    <3>1. strm'.work = fresh
      BY <1>1, <1>2, <2>1
    <3> QED BY <1>3, <1>6, <3>1, NothingHeld
  <2>2. CASE how = "load"
    <3>1. strm'.work = loaded /\ content' = Dictionary
      BY <1>1, <1>2, <2>2
    <3>2. HeldBy(loaded, mem, Dictionary, {})
      BY <1>4, <1>6, NothingHeld, LoadedHolds
    <3> QED BY <1>4, <3>1, <3>2
  <2>3. CASE how = "attach"
    <3>1. strm'.work = tied /\ content' = Dictionary
      BY <1>1, <2>3
    <3> QED BY <1>5, <1>6, <3>1, NothingHeld
  <2> QED BY <2>1, <2>2, <2>3
<1>8. Laid' = {} /\ pc' \notin Stages
  BY <1>1 DEF Laid, Stages
<1> HIDE DEF dict
<1> QED BY <1>1, <1>6, <1>7, <1>8 DEF HistoryInv, HeldBy

LEMMA HistoryLaidOut ==
    ASSUME FormatOfLz4, CompressorInv, CompressorInv', HistoryInv, LayOut, kind # "one"
    PROVE  HistoryInv'
<1>0. PICK data \in Blocks(kind, calls + 1) :
          \E source \in Sources(Len(data)) :
              /\ Fill(source, data) /\ sent' = data
              /\ covered' = (covered \/ (kind # "one" /\ Covers(source, Len(data))))
  BY DEF LayOut
<1>1. PICK source \in Sources(Len(data)) :
          /\ Fill(source, data) /\ sent' = data
          /\ covered' = (covered \/ (kind # "one" /\ Covers(source, Len(data))))
  BY <1>0
<1> DEFINE n == Len(data)
           d == Len(Dictionary)
           s == strm.work
<1>2. /\ phase = "caller" /\ phase' = "filled" /\ kind' = kind /\ content' = content
      /\ strm' = strm /\ pc' = "filled" /\ calls \in Nat /\ calls < MaxCalls /\ kind \in Kinds
      /\ mem' = [p \in DOMAIN mem |-> IF p \in source..(source + n - 1)
                                      THEN data[p - source + 1] ELSE mem[p]]
      /\ input' = [source |-> source, size |-> n]
  BY <1>1 DEF LayOut, Fill, CompressorInv, PhaseInv
<1>3. data \in Seq(HashedBytes) /\ n \in Nat
  <2>1. calls + 1 \in 1..MaxCalls
    BY <1>2, CallerAssumption
  <2> QED BY <1>2, <2>1, BlocksAssumption
<1>4. /\ DOMAIN mem = 0..MemHi /\ MemHi \in Nat
      /\ s.dictionary \in Nat /\ s.dictSize \in Nat /\ s.dictionary + s.dictSize <= MemHi + 1
  <2>1. mem \in [0..MemHi -> HashedBytes] /\ s \in StreamType /\ InMemory(s)
    BY <1>2 DEF CompressorInv, MemoryInv, PhaseInv, Stages
  <2> QED BY <2>1, StreamFields, MemoryTop DEF InMemory
<1>5. /\ source \in Nat /\ source + n <= MemHi + 1
      /\ source + n <= DictAt \/ source >= DictAt + d
  <2>1. input'.source = source /\ input'.size = n
    BY <1>2
  <2>2. input' \in [source : Nat, size : Nat] /\ input'.source + input'.size <= MemHi + 1
    BY <1>2 DEF CompressorInv, MemoryInv
  <2>3. input'.source + input'.size <= DictAt \/ input'.source >= DictAt + d
    BY <1>2 DEF CompressorInv, SourceInv
  <2> QED BY <2>1, <2>2, <2>3
<1>6. \A q \in DOMAIN mem : q \notin source..(source + n - 1) => mem'[q] = mem[q]
  BY <1>2
<1>7. /\ content \in Seq(HashedBytes) /\ Ends(mem, DictAt + d, d, Dictionary, {})
      /\ ~covered => HeldBy(s, mem, content, {})
      /\ s.dictCtx => s.dictionary = 0 /\ s.dictSize = 0 /\ content = Dictionary
  BY <1>2 DEF HistoryInv, Laid
<1>8. ~covered' => ~covered /\ ~Covers(source, n)
  BY <1>1
<1>9. /\ d \in Nat /\ DictAt \in Nat /\ DictAt + d <= MemHi + 1
  <2>1. /\ d \in Nat /\ DictAt \in Nat /\ SafeAt \in Nat /\ MaxBlock \in Nat /\ KB64 \in Nat
        /\ DictAt + d <= SafeAt /\ SafeAt + KB64 + MaxBlock <= MemHi + 1
    BY DictionaryFacts, FormatFacts
  <2> HIDE DEF d
  <2> QED BY <1>4, <2>1
<1> DEFINE lost == source..(source + n - 1)
<1> PICK new : new = mem'
  OBVIOUS
<1>10. Ends(new, DictAt + d, d, Dictionary, {})
  <2> DEFINE end == DictAt + d
  <2>1. ASSUME NEW j \in 1..d PROVE end - j \notin lost /\ new[end - j] = mem[end - j]
    <3>1. end - j \in 0..MemHi /\ end - j \notin lost
      <4> HIDE DEF n, d
      <4> QED BY <1>3, <1>4, <1>5, <1>9
    <3> QED BY <1>4, <1>6, <3>1
  <2>2. end \in Int /\ Ends(mem, end, d, Dictionary, {})
    BY <1>7, <1>9
  <2> HIDE DEF d, lost, end
  <2>3. Ends(new, end, d, Dictionary, lost)
    BY <1>9, <2>1, <2>2, EndsUnder
  <2>4. Ends(new, end, d, Dictionary, {})
    BY <1>9, <2>1, <2>2, <2>3, EndsAvoids
  <2> QED BY <2>4 DEF end
<1>11. ASSUME ~covered' PROVE Apart(s, source, n)
  <2>1. ~(s.dictSize >= MINMATCH /\ source < s.dictionary + s.dictSize
             /\ s.dictionary + s.dictSize <= source + n)
    BY <1>8, <1>11 DEF Covers
  <2>2. MINMATCH = 4
    BY DEF FormatOfLz4
  <2> HIDE DEF s, n
  <2> QED BY <1>3, <1>4, <1>5, <2>1, <2>2 DEF Apart
<1>12. ASSUME ~covered PROVE Ends(new, s.dictionary + s.dictSize, s.dictSize, content, lost)
  <2>1. ASSUME NEW j \in 1..s.dictSize
        PROVE  \/ s.dictionary + s.dictSize - j \in lost
               \/ new[s.dictionary + s.dictSize - j] = mem[s.dictionary + s.dictSize - j]
    <3>1. s.dictionary + s.dictSize - j \in 0..MemHi
      <4> HIDE DEF s
      <4> QED BY <1>4
    <3> QED BY <1>4, <1>6, <3>1
  <2>2. s.dictionary + s.dictSize \in Int
    <3> HIDE DEF s
    <3> QED BY <1>4
  <2> HIDE DEF s, lost
  <2>3. Ends(mem, s.dictionary + s.dictSize, s.dictSize, content, {})
    BY <1>7, <1>12 DEF HeldBy
  <2> QED BY <1>4, <2>1, <2>2, <2>3, EndsUnder
<1>13. Ends(new, source + n, n, data, {})
  <2>1. ASSUME NEW j \in 1..n PROVE new[source + n - j] = data[n + 1 - j]
    <3>1. /\ source + n - j \in 0..MemHi /\ source + n - j \in source..(source + n - 1)
          /\ (source + n - j) - source + 1 = n + 1 - j
      <4> HIDE DEF n
      <4> QED BY <1>3, <1>4, <1>5, SMTT(20)
    <3> QED BY <1>2, <1>4, <3>1
  <2>2. n <= Len(data)
    BY <1>3
  <2>3. \A j \in 1..n : new[source + n - j] = data[Len(data) + 1 - j]
    BY <2>1
  <2> HIDE DEF n
  <2>4. n \in Nat /\ Len(data) \in Nat /\ source \in Nat
    BY <1>3, <1>5
  <2> QED BY <2>2, <2>3, <2>4 DEF Ends
<1>14. Laid' = lost /\ input'.source = source /\ input'.size = n
  <2>1. input'.source = source /\ input'.size = n
    BY <1>2
  <2> HIDE DEF n
  <2> QED BY <1>2, <2>1 DEF Laid
<1> HIDE DEF lost
<1>15. pc' \notin Stages
  BY <1>2 DEF Stages
<1>16. ~covered' => HeldBy(s, mem', content, Laid')
  BY <1>12, <1>14, <1>8 DEF HeldBy
<1>17. strm'.work = s /\ strm.work = s
  BY <1>2
<1>18. ~covered' => Apart(strm'.work, source, n)
  BY <1>17, <1>11
<1> HIDE DEF s
<1> QED BY <1>1, <1>2, <1>3, <1>7, <1>10, <1>13, <1>14, <1>15, <1>16, <1>17, <1>18 DEF HistoryInv, Apart

\* A call of the stream starts the loop with what ContinueFrom kept.
LEMMA HistoryCalled ==
    ASSUME FormatOfLz4, CompressorInv, HistoryInv, Call, kind # "one"
    PROVE  HistoryInv'
<1>1. /\ phase = "filled" /\ phase' = "compressing" /\ UNCHANGED <<kind, calls, dpc, content, sent, covered>>
      /\ pc = "filled"
  BY DEF Call, dvars, CompressorInv, PhaseInv
<1>2. PICK cap \in Caps(kind, input.size) : LZ4_compress_fast_continue(cap)
  BY DEF Call
<1>3. PICK s, k :
        /\ Ready(s, k) /\ LZ4_compress_generic(s, k) /\ k.api = "continue"
        /\ k.dict = "withPrefix64k" => s = ContinueFrom(strm.work, input.source, input.size)
        /\ s.dictCtx => k.dict \in {"withPrefix64k", "usingDictCtx"}
  BY <1>2, ContinueReady
<1>4. /\ s \in StreamType /\ k \in RequestType /\ k.source = input.source /\ k.size = input.size
      /\ k.size >= 1 /\ k.directive = "limitedOutput" /\ k.tableType = "byU32"
      /\ k.dict = "withPrefix64k" => s.dictionary + s.dictSize = k.source
  BY <1>3 DEF Ready
<1>5. /\ strm \in [work : StreamType, dict : StreamType] /\ strm.work \in StreamType
      /\ k.source \in Nat /\ k.source >= 1 /\ k.size \in Nat
      /\ s.dictionary \in Nat /\ s.dictSize \in Nat
  BY <1>1, <1>4, RequestFields, StreamFields DEF CompressorInv, MemoryInv
<1> DEFINE inCtx == k.dict = "usingDictCtx"
           ctx   == [s EXCEPT !.dictSize = (IF inCtx THEN 0 ELSE @) + k.size,
                              !.dictCtx  = @ /\ ~inCtx,
                              !.currentOffset = @ + k.size,
                              !.tableType = k.tableType]
           first == IF k.tableType = "byPtr" THEN k.source ELSE s.currentOffset
<1>6. /\ mem' = mem /\ pc' \in {"lastLiterals", "search"}
      /\ \/ strm' = [strm EXCEPT !.work = ctx]
         \/ strm' = [strm EXCEPT !.work = [ctx EXCEPT !.table[LZ4_hashPosition(k.source)] =
                                              Stored(first, k.tableType)]]
  <2>1. k.tableType # "byU16" /\ k.directive # "fillOutput" /\ k.size # 0
    BY <1>4, <1>5
  <2>2. LZ4_compress_generic(s, k)
    BY <1>3
  <2> HIDE DEF ctx, first
  <2>3. mem' = mem
    BY <2>1, <2>2 DEF LZ4_compress_generic
  <2>4. pc' \in {"lastLiterals", "search"}
    BY <2>1, <2>2 DEF LZ4_compress_generic
  <2>5. \/ strm' = [strm EXCEPT !.work = ctx]
        \/ strm' = [strm EXCEPT !.work = [ctx EXCEPT !.table[LZ4_hashPosition(k.source)] =
                                              Stored(first, k.tableType)]]
    BY <2>1, <2>2 DEF LZ4_compress_generic, ctx, first, inCtx
  <2> QED BY <2>3, <2>4, <2>5
<1>7. call'.source = k.source /\ call'.size = k.size /\ call'.dict = k.dict
  BY <1>1, <1>3, CallStarts
<1>8. /\ ctx.dictionary = s.dictionary
      /\ k.dict = "withPrefix64k" => ctx.dictSize = s.dictSize + k.size
      /\ ctx.dictCtx = (s.dictCtx /\ ~inCtx)
  BY <1>4, <1>5 DEF StreamType
<1> HIDE DEF first
<1>9. /\ strm'.work.dictionary = ctx.dictionary /\ strm'.work.dictSize = ctx.dictSize
      /\ strm'.work.dictCtx = ctx.dictCtx
  <2>1. CASE strm' = [strm EXCEPT !.work = ctx]
    BY <1>5, <2>1
  <2>2. CASE strm' = [strm EXCEPT !.work = [ctx EXCEPT !.table[LZ4_hashPosition(k.source)] =
                                               Stored(first, k.tableType)]]
    <3>1. strm'.work = [ctx EXCEPT !.table[LZ4_hashPosition(k.source)] = Stored(first, k.tableType)]
      BY <1>5, <2>2
    <3> QED BY <1>4, <3>1 DEF StreamType
  <2> QED BY <1>6, <2>1, <2>2
<1> HIDE DEF ctx, inCtx
<1>10. /\ content \in Seq(HashedBytes) /\ sent \in Seq(HashedBytes)
       /\ Ends(mem, DictAt + Len(Dictionary), Len(Dictionary), Dictionary, {})
       /\ ~covered => /\ HeldBy(strm.work, mem, content,
                                input.source..(input.source + input.size - 1))
                      /\ Apart(strm.work, input.source, input.size)
       /\ strm.work.dictCtx => strm.work.dictionary = 0 /\ strm.work.dictSize = 0
       /\ input.size = Len(sent)
       /\ Ends(mem, input.source + input.size, input.size, sent, {})
  BY <1>1 DEF HistoryInv, Laid
<1>11. k.dict = "withPrefix64k" => ~s.dictCtx /\ (~covered => HeldBy(s, mem, content, {}))
  <2> SUFFICES ASSUME k.dict = "withPrefix64k"
               PROVE  ~s.dictCtx /\ (~covered => HeldBy(s, mem, content, {}))
    OBVIOUS
  <2>1. Streaming(strm.work)
    BY <1>1, <1>5 DEF CompressorInv, MemoryInv, TablesInv, Streaming, Stages
  <2>2. input.size \in 1..MaxBlock /\ input.source \in Nat
    <3>1. input.size <= MaxBlock /\ MaxBlock \in Nat
      BY <1>1, LayoutAssumption DEF CompressorInv, SourceInv
    <3> QED BY <1>4, <1>5, <3>1
  <2>3. /\ s.dictCtx = strm.work.dictCtx
        /\ strm.work.dictionary = 0 /\ strm.work.dictSize = 0 => s.dictionary = 0 /\ s.dictSize = 0
    BY <1>3, <2>1, <2>2, ContinueContext
  <2>4. ~covered => HeldBy(s, mem, content, {})
    BY <1>3, <1>10, <2>1, <2>2, ContinueHolds
  <2>5. ~(s.dictionary = 0 /\ s.dictSize = 0)
    BY <1>4, <1>5
  <2> QED BY <1>10, <2>3, <2>4, <2>5
<1>12. ~strm'.work.dictCtx
  BY <1>3, <1>8, <1>9, <1>11 DEF inCtx
<1>13. ~covered /\ k.dict = "withPrefix64k" => HeldBy(strm'.work, mem, content \o sent, {})
  <2> SUFFICES ASSUME ~covered, k.dict = "withPrefix64k"
               PROVE  HeldBy(strm'.work, mem, content \o sent, {})
    OBVIOUS
  <2> DEFINE end == s.dictionary + s.dictSize
  <2>1. end \in Int /\ end = input.source
    BY <1>4, <1>5
  <2>2. Ends(mem, end, s.dictSize, content, {})
    BY <1>11 DEF HeldBy
  <2> HIDE DEF end
  <2>3. Ends(mem, end + Len(sent), s.dictSize + Len(sent), content \o sent, {})
    BY <1>5, <1>10, <2>1, <2>2, EndsAppend
  <2>4. s.dictionary + (s.dictSize + k.size) = end + k.size
    BY <1>5 DEF end
  <2> QED BY <1>4, <1>8, <1>9, <1>10, <2>3, <2>4 DEF HeldBy
<1>14. iend' = input.source + input.size
  BY <1>4, <1>7 DEF iend
<1>15. pc' # "idle"
  BY <1>6
<1> QED BY <1>1, <1>4, <1>6, <1>7, <1>10, <1>12, <1>13, <1>14, <1>15 DEF HistoryInv, HeldBy

\* What a step of the loop does to what the stream holds.
LEMMA StepHolds ==
    ASSUME strm \in [work : StreamType, dict : StreamType], CompressStep
    PROVE  /\ pc \in Stages /\ mem' = mem /\ call' = call
           /\ \/ /\ pc' \in Stages
                 /\ strm'.work.dictionary = strm.work.dictionary
                 /\ strm'.work.dictSize = strm.work.dictSize
                 /\ strm'.work.dictCtx = strm.work.dictCtx
              \/ /\ pc' = "idle"
                 /\ strm'.work = IF call.api = "continue" /\ call.dict # "withPrefix64k"
                                 THEN [strm.work EXCEPT !.dictionary = call.source,
                                                        !.dictSize = call.size]
                                 ELSE strm.work
<1> USE DEF Stages
<1>1. CASE Search
  <2>1. /\ pc = "search" /\ pc' \in {"lastLiterals", "found", "search"}
        /\ strm' = strm \/ strm' = Put(search.next)
    BY <1>1 DEF Search
  <2>2. UNCHANGED <<mem, call>>
    BY <1>1 DEF Search
  <2>3. CASE strm' = strm
    BY <2>1, <2>2, <2>3
  <2>4. CASE strm' = Put(search.next)
    BY <2>1, <2>2, <2>4 DEF Put, StreamType
  <2> QED BY <2>1, <2>3, <2>4
<1>2. CASE EncodeLiterals
  <2>1. pc = "found" /\ UNCHANGED call
    BY <1>2 DEF EncodeLiterals
  <2>2. \/ Finish(strm.work, call, <<>>, 0)
        \/ pc' \in {"lastLiterals", "match"} /\ UNCHANGED <<mem, strm>>
    BY <1>2 DEF EncodeLiterals
  <2>3. CASE Finish(strm.work, call, <<>>, 0)
    BY <2>1, <2>3 DEF Finish
  <2>4. CASE pc' \in {"lastLiterals", "match"} /\ UNCHANGED <<mem, strm>>
    BY <2>1, <2>4
  <2> QED BY <2>2, <2>3, <2>4
<1>3. CASE RewindMatch
  BY <1>3 DEF RewindMatch
<1>4. CASE EncodeMatch
  <2> DEFINE op    == Len(out) + 2
             code  == MatchLength
             long  == /\ call.directive # "notLimited"
                      /\ op + (1 + LASTLITERALS) + (code + MaxByte - ML_MASK) \div MaxByte > call.cap
             n     == IF long THEN ML_MASK - 1 + (call.cap - op - 1 - LASTLITERALS) * MaxByte
                      ELSE code
             undone == IF long THEN TakenOut(ip + MINMATCH + n) ELSE {}
             tab   == [h \in DOMAIN strm.work.table |->
                          IF h \in undone THEN 0 ELSE strm.work.table[h]]
  <2>1. pc = "match" /\ UNCHANGED call
    BY <1>4 DEF EncodeMatch
  <2>2. \/ Finish(strm.work, call, <<>>, 0)
        \/ /\ pc' \in {"lastLiterals", "testNext"} /\ UNCHANGED mem
           /\ strm' = [strm EXCEPT !.work.table = tab]
    BY <1>4 DEF EncodeMatch
  <2> HIDE DEF tab
  <2>3. CASE Finish(strm.work, call, <<>>, 0)
    BY <2>1, <2>3 DEF Finish
  <2>4. CASE /\ pc' \in {"lastLiterals", "testNext"} /\ UNCHANGED mem
             /\ strm' = [strm EXCEPT !.work.table = tab]
    <3>1. /\ strm'.work.dictionary = strm.work.dictionary
          /\ strm'.work.dictSize = strm.work.dictSize
          /\ strm'.work.dictCtx = strm.work.dictCtx
      BY <2>4 DEF StreamType
    <3> QED BY <2>1, <2>4, <3>1
  <2> QED BY <2>2, <2>3, <2>4
<1>5. CASE TestNext
  <2> DEFINE filled == Put(ip - 2)
  <2>1. /\ pc = "testNext" /\ pc' \in {"match", "search"} /\ UNCHANGED <<mem, call>>
        /\ strm' = [filled EXCEPT !.work.table[LZ4_hashPosition(ip)] =
                        Stored(ip - base, call.tableType)]
    BY <1>5 DEF TestNext
  <2>2. /\ filled.work.dictionary = strm.work.dictionary
        /\ filled.work.dictSize = strm.work.dictSize
        /\ filled.work.dictCtx = strm.work.dictCtx
        /\ DOMAIN filled = {"work", "dict"} /\ DOMAIN filled.work = DOMAIN strm.work
    BY DEF Put, StreamType
  <2> HIDE DEF filled
  <2>3. /\ strm'.work.dictionary = strm.work.dictionary
        /\ strm'.work.dictSize = strm.work.dictSize
        /\ strm'.work.dictCtx = strm.work.dictCtx
    BY <2>1, <2>2 DEF StreamType
  <2> QED BY <2>1, <2>3
<1>6. CASE LastLiterals
  <2>1. pc = "lastLiterals" /\ UNCHANGED call /\ \E dest, used : Finish(strm.work, call, dest, used)
    BY <1>6 DEF LastLiterals
  <2> QED BY <2>1 DEF Finish
<1> QED BY <1>1, <1>2, <1>3, <1>4, <1>5, <1>6 DEF CompressStep

LEMMA HistoryStepped ==
    ASSUME FormatOfLz4, CompressorInv, CompressorInv', HistoryInv, Compressing, kind # "one"
    PROVE  HistoryInv'
<1>1. /\ phase = "compressing" /\ CompressStep
      /\ UNCHANGED <<kind, phase, content, sent, covered>>
  BY DEF Compressing, rvars
<1>2. strm \in [work : StreamType, dict : StreamType] /\ strm.work \in StreamType
  BY DEF CompressorInv, MemoryInv
<1>3. /\ pc \in Stages /\ mem' = mem /\ call' = call
      /\ \/ /\ pc' \in Stages
            /\ strm'.work.dictionary = strm.work.dictionary
            /\ strm'.work.dictSize = strm.work.dictSize
            /\ strm'.work.dictCtx = strm.work.dictCtx
         \/ /\ pc' = "idle"
            /\ strm'.work = IF call.api = "continue" /\ call.dict # "withPrefix64k"
                            THEN [strm.work EXCEPT !.dictionary = call.source,
                                                   !.dictSize = call.size]
                            ELSE strm.work
  BY <1>1, <1>2, StepHolds
<1>4. /\ content \in Seq(HashedBytes) /\ sent \in Seq(HashedBytes)
      /\ Ends(mem, DictAt + Len(Dictionary), Len(Dictionary), Dictionary, {})
      /\ call.size = Len(sent) /\ ~strm.work.dictCtx
      /\ Ends(mem, iend, call.size, sent, {})
      /\ ~covered /\ call.dict = "withPrefix64k" => HeldBy(strm.work, mem, content \o sent, {})
  BY <1>3 DEF HistoryInv
<1>5. call.source \in Nat /\ call.size \in Nat /\ iend \in Int /\ call.api = "continue"
  <2>1. call \in CallType
    BY <1>1 DEF CompressorInv, CallInv
  <2>2. call.source \in Nat /\ call.size \in Nat
    BY <2>1 DEF CallType
  <2>3. call.api = "continue"
    BY <1>3 DEF CompressorInv, IndexInv
  <2> QED BY <2>2, <2>3 DEF iend
<1>6. CASE pc' \in Stages
  <2>1. /\ strm'.work.dictionary = strm.work.dictionary
        /\ strm'.work.dictSize = strm.work.dictSize
        /\ strm'.work.dictCtx = strm.work.dictCtx
    BY <1>3, <1>6 DEF Stages
  <2>2. iend' = iend
    BY <1>3 DEF iend
  <2>3. pc' # "idle"
    BY <1>6 DEF Stages
  <2> QED BY <1>1, <1>3, <1>4, <2>1, <2>2, <2>3 DEF HistoryInv, HeldBy
<1>7. CASE pc' \notin Stages
  <2>1. /\ pc' = "idle"
        /\ strm'.work = IF call.dict # "withPrefix64k"
                        THEN [strm.work EXCEPT !.dictionary = call.source,
                                               !.dictSize = call.size]
                        ELSE strm.work
    BY <1>3, <1>5, <1>7
  <2>2. (~covered => HeldBy(strm'.work, mem, content \o sent, {})) /\ ~strm'.work.dictCtx
    <3>1. CASE call.dict = "withPrefix64k"
      BY <1>4, <2>1, <3>1
    <3>2. CASE call.dict # "withPrefix64k"
      <4>1. /\ strm'.work.dictionary = call.source /\ strm'.work.dictSize = call.size
            /\ strm'.work.dictCtx = strm.work.dictCtx
        BY <1>2, <2>1, <3>2 DEF StreamType
      <4>2. Ends(mem, iend, call.size, content \o sent, {})
        BY <1>4, <1>5, EndsSuffix
      <4> QED BY <1>4, <4>1, <4>2 DEF HeldBy, iend
    <3> QED BY <3>1, <3>2
  <2> QED BY <1>1, <1>3, <1>4, <1>7, <2>1, <2>2 DEF HistoryInv, HeldBy
<1> QED BY <1>6, <1>7

\* LZ4_saveDict moves the end of what the stream holds.
LEMMA HistorySaved ==
    ASSUME FormatOfLz4, CompressorInv, HistoryInv, Save
    PROVE  HistoryInv'
<1> DEFINE s == strm.work
           n == Lesser(Lesser(KB64, KB64), s.dictSize)
           from == s.dictionary + s.dictSize - n
           end == s.dictionary + s.dictSize
           text == content \o sent
           d == Len(Dictionary)
<1>1. /\ phase = "compressing" /\ pc = "idle" /\ kind = "saved" /\ phase' = "saved"
      /\ pc' = "idle" /\ UNCHANGED <<kind, content, sent, covered>>
      /\ mem' = [p \in DOMAIN mem |-> IF p \in SafeAt..(SafeAt + n - 1)
                                      THEN mem[from + p - SafeAt] ELSE mem[p]]
      /\ strm' = [strm EXCEPT !.work.dictionary = SafeAt, !.work.dictSize = n]
  BY DEF Save, Returned, LZ4_saveDict, DictTail, loopVars
<1>2. /\ strm \in [work : StreamType, dict : StreamType] /\ s \in StreamType
      /\ mem \in [0..MemHi -> HashedBytes] /\ InMemory(s)
  BY <1>1 DEF CompressorInv, MemoryInv, Stages
<1>3. /\ s.dictionary \in Nat /\ s.dictSize \in Nat /\ s.dictionary + s.dictSize <= MemHi + 1
      /\ DOMAIN mem = 0..MemHi /\ MemHi \in Nat /\ KB64 \in Nat
  BY <1>2, StreamFields, MemoryTop, FormatFacts DEF InMemory
<1>4. n \in Nat /\ n <= s.dictSize /\ n <= KB64
  <2> HIDE DEF s
  <2> QED BY <1>3 DEF Lesser
<1>5. /\ strm'.work.dictionary = SafeAt /\ strm'.work.dictSize = n
      /\ strm'.work.dictCtx = s.dictCtx
  <2> HIDE DEF n
  <2> QED BY <1>1, <1>2 DEF StreamType
<1>6. /\ content \in Seq(HashedBytes) /\ sent \in Seq(HashedBytes) /\ text \in Seq(HashedBytes)
      /\ Ends(mem, DictAt + d, d, Dictionary, {})
      /\ ~covered => Ends(mem, end, s.dictSize, text, {})
      /\ ~s.dictCtx
  <2>1. /\ content \in Seq(HashedBytes) /\ sent \in Seq(HashedBytes)
        /\ Ends(mem, DictAt + d, d, Dictionary, {})
        /\ ~covered => HeldBy(s, mem, text, {})
        /\ ~s.dictCtx
    BY <1>1 DEF HistoryInv
  <2> QED BY <2>1 DEF HeldBy
<1>7. /\ d \in Nat /\ DictAt \in Nat /\ SafeAt \in Nat /\ DictAt + d <= SafeAt
      /\ SafeAt + KB64 <= MemHi + 1
  <2>1. /\ d \in Nat /\ DictAt \in Nat /\ SafeAt \in Nat /\ MaxBlock \in Nat
        /\ DictAt + d <= SafeAt /\ SafeAt + KB64 + MaxBlock <= MemHi + 1
    BY DictionaryFacts
  <2> HIDE DEF d
  <2> QED BY <1>3, <2>1
<1> HIDE DEF n, d
<1> PICK new : new = mem'
  OBVIOUS
<1>8. Ends(new, DictAt + d, d, Dictionary, {})
  <2> DEFINE at == DictAt + d
  <2>1. ASSUME NEW j \in 1..d PROVE new[at - j] = mem[at - j]
    <3>1. at - j \in 0..MemHi /\ at - j \notin SafeAt..(SafeAt + n - 1)
      <4> HIDE DEF s
      <4> QED BY <1>3, <1>4, <1>7
    <3> QED BY <1>1, <1>3, <3>1
  <2>2. at \in Int /\ Ends(mem, at, d, Dictionary, {})
    BY <1>6, <1>7
  <2> HIDE DEF at
  <2>3. Ends(new, at, d, Dictionary, {})
    BY <1>7, <2>1, <2>2, EndsUnder
  <2> QED BY <2>3 DEF at
<1>9. ASSUME ~covered PROVE Ends(new, SafeAt + n, n, text, {})
  <2>1. end \in Int /\ n \in Nat /\ s.dictSize \in Nat
    <3> HIDE DEF s
    <3> QED BY <1>3, <1>4
  <2>2. Ends(mem, end, n, text, {})
    <3> HIDE DEF end, text, s
    <3> QED BY <1>4, <1>6, <1>9, <2>1, EndsLess
  <2>3. ASSUME NEW j \in 1..n PROVE new[SafeAt + n - j] = mem[end - j]
    <3>1. /\ SafeAt + n - j \in 0..MemHi /\ SafeAt + n - j \in SafeAt..(SafeAt + n - 1)
          /\ from + (SafeAt + n - j) - SafeAt = end - j
      <4> HIDE DEF s
      <4> QED BY <1>3, <1>4, <1>7
    <3>2. new[SafeAt + n - j] = mem[from + (SafeAt + n - j) - SafeAt]
      <4> HIDE DEF from
      <4> QED BY <1>1, <1>3, <3>1
    <3> QED BY <3>1, <3>2
  <2> HIDE DEF end, text
  <2> QED BY <1>4, <1>7, <2>1, <2>2, <2>3 DEF Ends
<1>10. (~covered => HeldBy(strm'.work, mem', text, {})) /\ ~strm'.work.dictCtx
  <2> HIDE DEF text
  <2> QED BY <1>5, <1>6, <1>9 DEF HeldBy
<1>11. /\ Ends(mem', DictAt + Len(Dictionary), Len(Dictionary), Dictionary, {})
       /\ ~covered' => HeldBy(strm'.work, mem', content' \o sent', {})
       /\ content' \in Seq(HashedBytes) /\ sent' \in Seq(HashedBytes)
       /\ pc' \notin Stages
  BY <1>1, <1>6, <1>8, <1>10 DEF d, Stages
<1> QED BY <1>1, <1>10, <1>11 DEF HistoryInv, HeldBy

\* The decoding side leaves the compressor alone.
LEMMA HistoryDecoded ==
    ASSUME CompressorInv, HistoryInv,
           DecodeOne \/ DecodeRing \/ Arrange \/ DecodeSaved \/ Decompressing \/ Decoded
           \/ NotCompressed,
           kind # "one"
    PROVE  HistoryInv'
<1>1. UNCHANGED <<mem, strm, input, call, pc, kind, sent, covered>>
  BY DEF DecodeOne, DecodeRing, Arrange, DecodeSaved, Decompressing, Decoded, NotCompressed,
         Decoding, rvars, cvars
<1>2. /\ phase \notin {"caller", "filled"} /\ pc = "idle"
      /\ \/ phase' \in {"arranged", "decoding"} /\ content' = content
         \/ phase' = "caller" /\ content' = content \o sent
  <2>1. phase \in {"saved", "arranged", "decoding"} \/ Returned
    BY DEF DecodeOne, DecodeRing, Arrange, DecodeSaved, Decompressing, Decoded, NotCompressed
  <2>2. phase \notin {"caller", "filled"} /\ pc = "idle"
    BY <2>1 DEF Returned, CompressorInv, PhaseInv, Stages
  <2>3. \/ phase' \in {"arranged", "decoding"} /\ content' = content
        \/ phase' = "caller" /\ content' = content \o sent
    BY DEF DecodeOne, DecodeRing, Arrange, DecodeSaved, Decompressing, Decoded, NotCompressed,
           Decoding, rvars
  <2> QED BY <2>2, <2>3
<1>3. /\ content \in Seq(HashedBytes) /\ sent \in Seq(HashedBytes)
      /\ Ends(mem, DictAt + Len(Dictionary), Len(Dictionary), Dictionary, {})
      /\ ~covered => HeldBy(strm.work, mem, content \o sent, {})
      /\ ~strm.work.dictCtx
  BY <1>2 DEF HistoryInv
<1>4. content \o sent \in Seq(HashedBytes) /\ pc' = "idle" /\ pc' \notin Stages
  BY <1>1, <1>2, <1>3 DEF Stages
<1>5. CASE phase' \in {"arranged", "decoding"} /\ content' = content
  BY <1>1, <1>3, <1>4, <1>5 DEF HistoryInv, HeldBy
<1>6. CASE phase' = "caller" /\ content' = content \o sent
  <2>1. Laid' = {}
    BY <1>6 DEF Laid
  <2> QED BY <1>1, <1>3, <1>4, <1>6, <2>1 DEF HistoryInv, HeldBy
<1> QED BY <1>2, <1>5, <1>6

LEMMA HistoryInit ==
    ASSUME FormatOfLz4, Init
    PROVE  HistoryInv
<1> DEFINE d == Len(Dictionary)
<1>1. /\ phase = "caller" /\ pc = "idle" /\ content = <<>> /\ sent = <<>>
      /\ strm.work = LZ4_initStream
      /\ mem = At([p \in 0..MemHi |-> 0], DictAt, Dictionary)
  BY DEF Init, InitCompress
<1>2. strm.work.dictSize = 0 /\ ~strm.work.dictCtx
  BY <1>1 DEF LZ4_initStream
<1>3. /\ d \in Nat /\ DictAt \in Nat /\ DictAt + d <= MemHi + 1 /\ MemHi \in Nat
      /\ Dictionary \in Seq(HashedBytes)
  <2>1. /\ d \in Nat /\ DictAt \in Nat /\ SafeAt \in Nat /\ MaxBlock \in Nat
        /\ DictAt + d <= SafeAt /\ SafeAt + KB64 + MaxBlock <= MemHi + 1
        /\ KB64 \in Nat /\ MemHi \in Nat
    BY DictionaryFacts, FormatFacts, MemoryTop
  <2>2. Dictionary \in Seq(HashedBytes)
    BY DictionaryFacts
  <2> HIDE DEF d
  <2> QED BY <2>1, <2>2
<1>4. mem = [q \in 0..MemHi |-> IF q \in DictAt..(DictAt + d - 1)
                                THEN Dictionary[q - DictAt + 1] ELSE 0]
  BY <1>1 DEF At
<1>5. Ends(mem, DictAt + d, d, Dictionary, {})
  <2>1. ASSUME NEW j \in 1..d PROVE mem[DictAt + d - j] = Dictionary[d + 1 - j]
    <3>1. /\ DictAt + d - j \in 0..MemHi /\ DictAt + d - j \in DictAt..(DictAt + d - 1)
          /\ (DictAt + d - j) - DictAt + 1 = d + 1 - j
      <4> HIDE DEF d
      <4> QED BY <1>3
    <3> HIDE DEF d
    <3> QED BY <1>4, <3>1
  <2>2. d <= Len(Dictionary)
    BY <1>3
  <2>3. \A j \in 1..d : mem[DictAt + d - j] = Dictionary[Len(Dictionary) + 1 - j]
    BY <2>1
  <2> HIDE DEF d
  <2> QED BY <1>3, <2>2, <2>3 DEF Ends
<1>6. <<>> \in Seq(HashedBytes) /\ pc \notin Stages
  BY <1>1 DEF Stages
<1>7. HeldBy(strm.work, mem, content, Laid)
  BY <1>1, <1>2, <1>6, NothingHeld
<1> QED BY <1>1, <1>2, <1>5, <1>6, <1>7 DEF HistoryInv

LEMMA HistoryNext ==
    ASSUME FormatOfLz4, CompressorInv, CompressorInv', HistoryInv, [Next]_vars
    PROVE  HistoryInv'
<1>1. CASE kind = "one"
  <2>1. kind' = kind
    BY DEF Next, Begin, LayOut, Call, Compressing, Save, DecodeOne, DecodeRing, Arrange,
           DecodeSaved, Decompressing, Decoded, NotCompressed, Decoding, vars, rvars
  <2> QED BY <1>1, <2>1 DEF HistoryInv
<1>2. CASE kind # "one"
  <2>1. CASE UNCHANGED vars
    <3>1. UNCHANGED <<mem, strm, input, call, pc, kind, phase, content, sent, covered>>
      BY <2>1 DEF vars, cvars, rvars
    <3>2. Laid' = Laid /\ iend' = iend
      BY <3>1 DEF Laid, iend
    <3> QED BY <3>1, <3>2 DEF HistoryInv, HeldBy, Apart
  <2>2. CASE \E how \in {"reset", "load", "attach"} : Begin(how)
    BY <2>2, HistoryBegins
  <2>3. CASE LayOut
    BY <1>2, <2>3, HistoryLaidOut
  <2>4. CASE Call
    BY <1>2, <2>4, HistoryCalled
  <2>5. CASE Compressing
    BY <1>2, <2>5, HistoryStepped
  <2>6. CASE Save
    BY <2>6, HistorySaved
  <2>7. CASE DecodeOne \/ DecodeRing \/ Arrange \/ DecodeSaved \/ Decompressing \/ Decoded
             \/ NotCompressed
    BY <1>2, <2>7, HistoryDecoded
  <2> QED BY <2>1, <2>2, <2>3, <2>4, <2>5, <2>6, <2>7 DEF Next
<1> QED BY <1>1, <1>2

\* What the caller's memory holds of the stream, from one call to the next.
THEOREM HistoryKept ==
    ASSUME FormatOfLz4 PROVE Spec => []HistoryInv
<1>1. Init => CompressorInv /\ HistoryInv
  BY CompressorInit, HistoryInit
<1>2. CompressorInv /\ HistoryInv /\ [Next]_vars => (CompressorInv /\ HistoryInv)'
  BY CompressorNext, HistoryNext
<1> QED BY <1>1, <1>2, PTL DEF Spec

\* What a stream takes for its dictionary when the next block is laid out is
\* still in the caller's memory, and is the end of what the stream has held:
\* through blocks that did not fit, dictionaries saved, attached or dropped,
\* renumbered indexes and a ring that has overwritten its oldest data. It stops
\* holding, until the stream begins again, when a block of a ring is laid over
\* all the data the stream refers to: lz4.c:1591 does not give that data up.
THEOREM DictionaryFollowsHistory ==
    ASSUME FormatOfLz4 PROVE Spec => []DictionaryIsHistory
<1>1. CompressorInv /\ HistoryInv => DictionaryIsHistory
  BY HistoryIsDictionary
<1> QED BY <1>1, CompressorTypes, HistoryKept, PTL
================================================================================
