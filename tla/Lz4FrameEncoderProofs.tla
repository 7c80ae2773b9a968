------------------------- MODULE Lz4FrameEncoderProofs -------------------------
(* Theorems about Lz4FrameEncoder: for windows and blocks of any size, any      *)
(* preferences, and calls with any number of bytes.                             *)
EXTENDS Lz4FrameEncoder, FiniteSetTheorems, WellFoundedInduction, TLAPS

-----------------------------------------------------------------------------
(* The sizes of blocks.                                                       *)

\* A set of naturals that is not empty has a least element.
LEMMA LeastNatural ==
    ASSUME NEW T, T \subseteq Nat, T # {}
    PROVE  \E m \in T : \A k \in T : m <= k
<1>1. IsWellFoundedOn(OpToRel(<, Nat), Nat)
  BY NatLessThanWellFounded
<1>2. PICK m \in T : \A k \in T : ~(<<k, m>> \in OpToRel(<, Nat))
  BY <1>1, WFMin
<1>3. \A k \in T : ~(k < m)
  BY <1>2 DEF OpToRel
<1> QED BY <1>3

\* Max is what it is meant to be: when a set is enumerated, the shortest prefix
\* of it without a greatest element would not be the shortest.
LEMMA MaxIsGreatest ==
    ASSUME NEW S, S \subseteq Nat, S # {}, NEW n \in Nat, NEW f \in [1..n -> S],
           \A x \in S : \E i \in 1..n : f[i] = x
    PROVE  Max(S) \in S /\ \A x \in S : x <= Max(S)
<1> DEFINE Top(k) == \E j \in 1..k : \A i \in 1..k : f[i] <= f[j]
           Bad == {k \in 1..n : ~Top(k)}
<1>1. \A i \in 1..n : f[i] \in Nat
  OBVIOUS
<1>2. Bad = {}
  <2> SUFFICES ASSUME Bad # {} PROVE FALSE
    OBVIOUS
  <2>0. Bad \subseteq Nat
    OBVIOUS
  <2> HIDE DEF Bad
  <2>1. PICK k \in Bad : \A l \in Bad : k <= l
    BY <2>0, LeastNatural
  <2> USE DEF Bad
  <2>a. k \in 1..n /\ ~Top(k)
    BY <2>1
  <2>2. k # 1
    <3>1. Top(1)
      <4>1. 1 \in 1..n /\ f[1] \in Nat /\ \A i \in 1..1 : i = 1 BY <1>1, <2>a
      <4>2. \A i \in 1..1 : f[i] <= f[1] BY <4>1
      <4> QED BY <4>2
    <3> QED BY <2>a, <3>1
  <2>3. k - 1 \in 1..n /\ ~(k <= k - 1)
    BY <2>a, <2>2
  <2>b. Top(k - 1)
    BY <2>1, <2>3
  <2>4. PICK j \in 1..(k - 1) : \A i \in 1..(k - 1) : f[i] <= f[j]
    BY <2>b
  <2>5. /\ f[j] \in Nat /\ f[k] \in Nat /\ j \in 1..k /\ k \in 1..k
        /\ \A i \in 1..k : f[i] \in Nat /\ (i = k \/ i \in 1..(k - 1))
    BY <1>1, <2>a, <2>3
  <2>6. CASE f[j] <= f[k]
    <3>1. ASSUME NEW i \in 1..k PROVE f[i] <= f[k]
      <4>1. f[i] \in Nat /\ (i = k \/ f[i] <= f[j]) BY <2>4, <2>5
      <4>2. f[i] \in Nat /\ f[j] \in Nat /\ f[k] \in Nat /\ (f[i] = f[k] \/ f[i] <= f[j])
        BY <2>5, <4>1
      <4> QED BY ONLY <2>6, <4>2
    <3> QED BY <2>a, <2>5, <3>1
  <2>7. CASE ~(f[j] <= f[k])
    <3>1. ASSUME NEW i \in 1..k PROVE f[i] <= f[j]
      <4>1. f[i] \in Nat /\ (i = k \/ f[i] <= f[j]) BY <2>4, <2>5
      <4>2. f[i] \in Nat /\ f[j] \in Nat /\ f[k] \in Nat /\ (f[i] = f[k] \/ f[i] <= f[j])
        BY <2>5, <4>1
      <4> QED BY ONLY <2>7, <4>2
    <3> QED BY <2>a, <2>5, <3>1
  <2> QED BY <2>6, <2>7
<1>3. n \in 1..n
  <2>1. PICK x \in S : TRUE OBVIOUS
  <2> QED BY <2>1
<1>4. Top(n)
  BY <1>2, <1>3
<1>5. PICK j \in 1..n : \A i \in 1..n : f[i] <= f[j]
  BY <1>4
<1>6. f[j] \in S /\ \A x \in S : f[j] >= x
  BY <1>1, <1>5
<1>7. Max(S) \in S /\ \A x \in S : Max(S) >= x
  BY <1>6 DEF Max
<1> QED BY <1>7

LEMMA BlockSizes ==
    /\ MaxBlock \in Nat \ {0}
    /\ \A id \in BSIDs : blockSizes[id] \in KB64..MaxBlock
<1> DEFINE sizes == {blockSizes[id] : id \in BSIDs}
<1>1. PICK n \in Nat : ExistsSurjection(1..n, BSIDs)
  BY FS_NatSurjection, EncoderAssumption
<1>2. PICK f \in [1..n -> BSIDs] : \A id \in BSIDs : \E i \in 1..n : f[i] = id
  BY <1>1 DEF ExistsSurjection, Surjection
<1> DEFINE g == [i \in 1..n |-> blockSizes[f[i]]]
<1>3. sizes \subseteq Nat \ {0} /\ sizes # {}
  BY EncoderAssumption
<1>4. g \in [1..n -> sizes]
  BY <1>2
<1>5. \A x \in sizes : \E i \in 1..n : g[i] = x
  BY <1>2
<1> HIDE DEF sizes, g
<1>6. Max(sizes) \in sizes /\ \A x \in sizes : x <= Max(sizes)
  BY <1>3, <1>4, <1>5, MaxIsGreatest
<1>7. MaxBlock = Max(sizes)
  BY DEF MaxBlock, sizes
<1>8. MaxBlock \in Nat \ {0}
  BY <1>3, <1>6, <1>7
<1>9. ASSUME NEW id \in BSIDs PROVE blockSizes[id] \in KB64..MaxBlock
  <2>1. blockSizes[id] \in sizes BY DEF sizes
  <2>2. blockSizes[id] <= MaxBlock BY <1>6, <1>7, <2>1
  <2>3. blockSizes[id] \in Nat /\ blockSizes[id] >= KB64 /\ KB64 \in Nat
    BY EncoderAssumption
  <2> QED BY <1>8, <2>2, <2>3
<1> QED BY <1>8, <1>9

\* tmpBuff is large enough for whatever the preferences need, and the source
\* lies behind it.
LEMMA Addresses ==
    /\ KB64 \in Nat \ {0} /\ TmpEnd \in Nat /\ KB64 <= TmpEnd
    /\ SrcAt \in Nat /\ SrcEnd \in Nat /\ TmpEnd < SrcAt /\ SrcEnd = SrcAt + MaxContent
    /\ MaxContent \in Nat
BY BlockSizes, EncoderAssumption DEF TmpEnd, SrcAt, SrcEnd

LEMMA BufferSizes ==
    ASSUME NEW p \in LZ4F_preferences_t
    PROVE  /\ LZ4F_getBlockSize(p.blockSizeID) \in KB64..MaxBlock
           /\ requiredBuffSize(p) \in 0..TmpEnd
<1>1. p.blockSizeID \in BSIDs \cup {0} /\ DEFAULT \in BSIDs /\ KB64 \in Nat
  BY EncoderAssumption DEF LZ4F_preferences_t
<1>2. LZ4F_getBlockSize(p.blockSizeID) \in KB64..MaxBlock
  BY <1>1, BlockSizes DEF LZ4F_getBlockSize
<1>3. MaxBlock \in Nat
  BY BlockSizes
<1> QED BY <1>1, <1>2, <1>3 DEF requiredBuffSize, TmpEnd

-----------------------------------------------------------------------------
(* Content in memory: from address at on, n bytes of it, the first at the       *)
(* place first.                                                                *)

Holds(m, at, n, first) == \A i \in 0..(n - 1) : m[at + i] = first + i

LEMMA HoldsPart ==
    ASSUME NEW m, NEW at \in Int, NEW n \in Int, NEW first \in Int, Holds(m, at, n, first),
           NEW j \in Nat, NEW k \in Int, j + k <= n
    PROVE  Holds(m, at + j, k, first + j)
<1> SUFFICES ASSUME NEW i \in 0..(k - 1) PROVE m[at + j + i] = first + j + i
  BY DEF Holds
<1>1. j + i \in 0..(n - 1) /\ at + (j + i) = at + j + i /\ first + (j + i) = first + j + i
  OBVIOUS
<1>2. m[at + (j + i)] = first + (j + i)
  BY <1>1 DEF Holds
<1> QED BY <1>1, <1>2

LEMMA HoldsJoin ==
    ASSUME NEW m, NEW at \in Int, NEW n \in Nat, NEW k \in Int, NEW first \in Int,
           Holds(m, at, n, first), Holds(m, at + n, k, first + n)
    PROVE  Holds(m, at, n + k, first)
<1> SUFFICES ASSUME NEW i \in 0..(n + k - 1) PROVE m[at + i] = first + i
  BY DEF Holds
<1>1. CASE i < n BY <1>1 DEF Holds
<1>2. CASE i >= n
  <2>1. i - n \in 0..(k - 1) /\ at + n + (i - n) = at + i /\ first + n + (i - n) = first + i
    BY <1>2
  <2>2. m[at + n + (i - n)] = first + n + (i - n)
    BY <2>1 DEF Holds
  <2> QED BY <2>1, <2>2
<1> QED BY <1>1, <1>2

\* Memory that is the same holds the same.
LEMMA HoldsSame ==
    ASSUME NEW m, NEW m2, NEW at \in Int, NEW n \in Int, NEW first \in Int,
           Holds(m, at, n, first),
           \A a \in at..(at + n - 1) : m2[a] = m[a]
    PROVE  Holds(m2, at, n, first)
<1> SUFFICES ASSUME NEW i \in 0..(n - 1) PROVE m2[at + i] = first + i
  BY DEF Holds
<1>1. at + i \in at..(at + n - 1)
  OBVIOUS
<1> QED BY <1>1 DEF Holds

LEMMA HoldsNone ==
    ASSUME NEW m, NEW at, NEW first
    PROVE  Holds(m, at, 0, first)
BY DEF Holds

\* What is copied is then there; what lies elsewhere stays.
LEMMA HoldsCopied ==
    ASSUME NEW m, NEW to \in Int, NEW from \in Int, NEW n \in Int, NEW first \in Int,
           to..(to + n - 1) \subseteq DOMAIN m, Holds(m, from, n, first)
    PROVE  Holds(Copied(m, to, from, n), to, n, first)
<1> SUFFICES ASSUME NEW i \in 0..(n - 1) PROVE Copied(m, to, from, n)[to + i] = first + i
  BY DEF Holds
<1>1. to + i \in to..(to + n - 1) /\ to + i \in DOMAIN m /\ from + (to + i) - to = from + i
  OBVIOUS
<1>2. Copied(m, to, from, n)[to + i] = m[from + (to + i) - to]
  BY <1>1 DEF Copied
<1> QED BY <1>1, <1>2 DEF Holds

LEMMA HoldsElsewhere ==
    ASSUME NEW m, NEW to \in Int, NEW from \in Int, NEW n \in Int,
           NEW at \in Int, NEW k \in Int, NEW first \in Int, Holds(m, at, k, first),
           at..(at + k - 1) \subseteq DOMAIN m,
           at + k <= to \/ to + n <= at
    PROVE  Holds(Copied(m, to, from, n), at, k, first)
<1>1. \A a \in at..(at + k - 1) : a \in DOMAIN m /\ a \notin to..(to + n - 1)
  OBVIOUS
<1>2. \A a \in at..(at + k - 1) : Copied(m, to, from, n)[a] = m[a]
  BY <1>1 DEF Copied
<1> QED BY <1>2, HoldsSame

LEMMA InDomain ==
    ASSUME NEW at \in Nat, NEW n \in Nat, NEW end \in Nat, at + n <= end
    PROVE  at..(at + n - 1) \subseteq 0..end
OBVIOUS

LEMMA CopiedDomain ==
    ASSUME NEW m, NEW to, NEW from, NEW n
    PROVE  DOMAIN Copied(m, to, from, n) = DOMAIN m
BY DEF Copied

\* Bytes of a source that follow what is buffered come to be buffered.
LEMMA HoldsMoved ==
    ASSUME NEW m, NEW tmpIn \in Nat, NEW size \in Nat, NEW src \in Nat, NEW k \in Nat,
           NEW n \in Nat, NEW first \in Int, n <= k, tmpIn + size + n <= src,
           0..(src + k - 1) \subseteq DOMAIN m,
           Holds(m, tmpIn, size, first), Holds(m, src, k, first + size)
    PROVE  LET moved == Copied(m, tmpIn + size, src, n)
           IN  /\ Holds(moved, tmpIn, size + n, first)
               /\ Holds(moved, src + n, k - n, first + (size + n))
<1> DEFINE moved == Copied(m, tmpIn + size, src, n)
           tmp == tmpIn + size
           next == first + size
<1>0. tmp \in Nat /\ next \in Int /\ src + n \in Int /\ k - n \in Int /\ src + 0 = src
      /\ next + 0 = next /\ next + n = first + (size + n) /\ 0 + n <= k /\ n + (k - n) <= k
  OBVIOUS
<1>1. Holds(m, src + 0, n, next + 0) /\ Holds(m, src + n, k - n, next + n)
  <2> HIDE DEF tmp, next
  <2>1. Holds(m, src, k, next) BY DEF next
  <2>2. Holds(m, src + 0, n, next + 0) BY <1>0, <2>1, HoldsPart
  <2>3. Holds(m, src + n, k - n, next + n) BY <1>0, <2>1, HoldsPart
  <2> QED BY <2>2, <2>3
<1>2. /\ tmp..(tmp + n - 1) \subseteq DOMAIN m
      /\ tmpIn..(tmpIn + size - 1) \subseteq DOMAIN m
      /\ (src + n)..(src + n + (k - n) - 1) \subseteq DOMAIN m
  OBVIOUS
<1>a. Holds(m, src, n, next)
  BY <1>0, <1>1
<1>3. Holds(moved, tmp, n, next)
  BY <1>0, <1>2, <1>a, HoldsCopied
<1>4. Holds(moved, tmpIn, size, first)
  BY <1>0, <1>2, HoldsElsewhere
<1>5. Holds(moved, tmpIn, size + n, first)
  BY <1>3, <1>4, HoldsJoin
<1>6. Holds(moved, src + n, k - n, next + n)
  <2> HIDE DEF next
  <2>1. tmp + n <= src + n OBVIOUS
  <2> QED BY <1>0, <1>1, <1>2, <2>1, HoldsElsewhere
<1> QED BY <1>0, <1>5, <1>6

-----------------------------------------------------------------------------
(* The inductive invariant.                                                   *)

InUpdate == {"update", "complete", "blocks", "limits", "left"}
Flushing == {"flush", "block", "flushed"}

LZ4F_cctx_t ==
    [prefs : LZ4F_preferences_t, cStage : {0, 1}, maxBlockSize : Nat,
     maxBufferSize : 0..TmpEnd, tmpIn : Nat, tmpInSize : Nat,
     totalInSize : Nat, xxh : Nat, lz4Ctx : BOOLEAN]
Streams == [dictionary : Nat, dictSize : Nat]
Calls ==
    [op : {"none", "begin", "update", "flush", "end", "frame"},
     whole : BOOLEAN, src : SrcAt..SrcEnd, size : 0..MaxContent, cap : Int,
     stableSrc : BOOLEAN, prefs : LZ4F_preferences_t]

TypeOK ==
    /\ cctx \in LZ4F_cctx_t
    /\ stream \in Streams
    /\ DOMAIN mem = 0..SrcEnd
    /\ call \in Calls /\ srcEnd <= SrcEnd
    /\ pc \in {"idle", "begin", "end"} \cup InUpdate \cup Flushing
    /\ srcPtr \in SrcAt..SrcEnd
    /\ lastBlockCompressed \in {"notDone", "fromTmpBuffer", "fromSrcBuffer"}
    /\ live \in BOOLEAN
    /\ given \in 0..MaxContent /\ arena \in SrcAt..(SrcAt + given) /\ done \in Nat

\* Which call can be at which step, and that a live frame was begun.
CallInv ==
    /\ call.whole = (call.op = "frame")
    /\ call.whole => call.prefs.autoFlush = 1 /\ call.stableSrc /\ (live => pc # "idle")
    /\ pc = "begin" => live /\ call.op \in {"begin", "frame"} /\ done = 0
    /\ pc \in InUpdate => call.op \in {"update", "frame"}
    /\ pc \in Flushing => call.op \in {"flush", "end", "frame"}
    /\ pc = "end" => call.op \in {"end", "frame"}
    /\ pc = "update" => live \/ cctx.cStage = 0
    /\ pc \notin {"idle", "begin", "update"} => live
    /\ pc # "idle" => ret = "ok"

Begun == live /\ pc # "begin"

\* What LZ4F_compressBegin sets up, and that tmpIn stays inside its buffer: with
\* room for a block behind it where one may be put there.
RoomNeeded ==
    ~autoFlush /\ (pc \notin {"blocks", "limits", "flushed"} \/ cctx.tmpInSize > 0)
FitInv ==
    /\ cctx.cStage = 1 /\ cctx.prefs.blockSizeID \in BSIDs
    /\ blockSize = blockSizes[cctx.prefs.blockSizeID]
    /\ cctx.maxBufferSize >= requiredBuffSize(cctx.prefs)
    /\ call.whole => autoFlush
    /\ ~linked => cctx.tmpIn = 0
    /\ Tmp <= cctx.maxBufferSize
    /\ IF pc = "complete" THEN cctx.tmpInSize = blockSize ELSE cctx.tmpInSize < blockSize
    /\ autoFlush => cctx.tmpInSize = 0 /\ pc \notin {"complete", "block", "flushed"}
    /\ RoomNeeded => cctx.tmpIn + blockSize <= cctx.maxBufferSize
    /\ pc \in {"flushed", "end"} => cctx.tmpInSize = 0

\* What is left of the input of an update, and where.
Cursor == IF pc = "update" THEN call.src ELSE srcPtr
Left == IF pc \in InUpdate THEN srcEnd - Cursor ELSE 0
LeftInv ==
    /\ pc \in InUpdate => Cursor \in call.src..srcEnd
    /\ pc \in InUpdate /\ ~call.whole =>
          arena = IF call.stableSrc THEN srcEnd ELSE call.src
    /\ pc \in {"blocks", "limits", "left"} /\ cctx.tmpInSize > 0 => srcPtr = srcEnd
    /\ pc \in {"limits", "left"} => Left < blockSize /\ (autoFlush => Left = 0)

\* What is buffered, and then what is left of the input, comes next.
ContentInv ==
    /\ Holds(mem, cctx.tmpIn, cctx.tmpInSize, done + 1)
    /\ Holds(mem, Cursor, Left, done + 1 + cctx.tmpInSize)
    /\ given = done + cctx.tmpInSize + Left

\* The dictionary is the content before that. It ends where tmpIn begins, or is
\* in buffers of the caller that stay, or ends where the source blocks go on.
DictEnd == stream.dictionary + stream.dictSize
FromSource == pc = "blocks" /\ lastBlockCompressed = "fromSrcBuffer"
Staying == IF call.whole THEN SrcEnd ELSE arena
DictPlace ==
    IF FromSource
    THEN stream.dictionary >= SrcAt /\ DictEnd = srcPtr /\ cctx.tmpInSize = 0
    ELSE \/ DictEnd = cctx.tmpIn
         \/ /\ stream.dictionary >= SrcAt /\ cctx.tmpIn = 0
            /\ DictEnd <= Staying
            /\ pc \in {"update", "complete", "blocks"} => DictEnd <= call.src
DictInv ==
    linked =>
        /\ Holds(mem, stream.dictionary, stream.dictSize, done + 1 - stream.dictSize)
        /\ DictPlace

\* The checksum and the size cover what earlier calls were given.
Before == given - (IF pc \in InUpdate THEN call.size ELSE 0)
WholeInv ==
    /\ cctx.prefs.contentChecksumFlag = 1 => cctx.xxh = Before
    /\ cctx.prefs.contentSize # 0 => cctx.totalInSize = Before

BeginInv ==
    pc = "begin" =>
        /\ call.src = SrcAt /\ given = call.size
        /\ Holds(mem, SrcAt, call.size, 1)
        /\ call.op = "begin" => call.size = 0

EndedInv ==
    pc = "idle" /\ ret \in {"ended", "frameSize_wrong"} =>
        /\ ~live /\ done = given /\ cctx.tmpInSize = 0
        /\ cctx.prefs.contentChecksumFlag = 1 => cctx.xxh = given
        /\ (ret = "ended") <=> (cctx.prefs.contentSize \in {0, given})

FrameInv == FitInv /\ LeftInv /\ ContentInv /\ DictInv /\ WholeInv
Inv ==
    /\ TypeOK /\ CallInv /\ BeginInv /\ EndedInv
    /\ Begun => FrameInv

-----------------------------------------------------------------------------
(* Updates.                                                                   *)

\* Of a frame that was begun.
LEMMA Sizes ==
    ASSUME Inv, Begun
    PROVE  /\ blockSize \in Nat /\ blockSize > 0 /\ KB64 <= blockSize /\ KB64 \in Nat
           /\ cctx.tmpIn \in Nat /\ cctx.tmpInSize \in Nat /\ Tmp \in Nat
           /\ cctx.maxBufferSize \in Nat /\ cctx.maxBufferSize <= TmpEnd
           /\ TmpEnd < SrcAt /\ SrcAt \in Nat /\ TmpEnd \in Nat /\ SrcEnd \in Nat
           /\ DOMAIN mem = 0..SrcEnd /\ cctx.prefs \in LZ4F_preferences_t
<1>1. FitInv /\ TypeOK
  BY DEF Inv, FrameInv
<1>2. blockSize \in KB64..MaxBlock
  BY <1>1, BlockSizes DEF FitInv
<1> QED BY <1>1, <1>2, Addresses, BlockSizes DEF TypeOK, LZ4F_cctx_t, Tmp

\* What FitInv says of the room there is.
LEMMA Room ==
    ASSUME Inv, Begun
    PROVE  /\ linked /\ autoFlush => KB64 <= cctx.maxBufferSize
           /\ linked /\ ~autoFlush => blockSize + 2 * KB64 <= cctx.maxBufferSize
           /\ ~linked /\ ~autoFlush => blockSize <= cctx.maxBufferSize
<1>1. /\ cctx.maxBufferSize >= requiredBuffSize(cctx.prefs)
      /\ cctx.prefs.blockSizeID \in BSIDs /\ blockSize = blockSizes[cctx.prefs.blockSizeID]
  BY DEF Inv, FrameInv, FitInv
<1>2. LZ4F_getBlockSize(cctx.prefs.blockSizeID) = blockSize
  BY <1>1, EncoderAssumption DEF LZ4F_getBlockSize
<1> QED BY <1>1, <1>2 DEF requiredBuffSize, linked, autoFlush

\* Where the dictionary is, it is not where the next block is.
NoOverlap(s, source, n) ==
    s.dictionary + s.dictSize <= source \/ source + n <= s.dictionary

LEMMA DictionaryUsed ==
    ASSUME NEW s \in Streams, NEW source \in Nat, NEW n \in Nat, NoOverlap(s, source, n)
    PROVE  DictionaryFor(s, source, n) \in {s, [dictionary |-> source, dictSize |-> 0]}
<1>1. s.dictionary \in Nat /\ s.dictSize \in Nat
  BY DEF Streams
<1>2. ~(source + n > s.dictionary /\ source + n < s.dictionary + s.dictSize)
  BY <1>1 DEF NoOverlap
<1> QED BY <1>2 DEF DictionaryFor

\* The dictionary after a block is the content up to its end.
LEMMA DictionaryGrows ==
    ASSUME NEW m, NEW s \in Streams, NEW source \in Nat, NEW n \in Nat, NEW done0 \in Nat,
           Holds(m, s.dictionary, s.dictSize, done0 + 1 - s.dictSize),
           Holds(m, source, n, done0 + 1), NoOverlap(s, source, n),
           NEW after, after = DictionaryAfter(s, source, n)
    PROVE  /\ after \in Streams
           /\ Holds(m, after.dictionary, after.dictSize, done0 + n + 1 - after.dictSize)
           /\ after.dictionary + after.dictSize = source + n
           /\ \/ after.dictionary = source
              \/ after.dictionary = s.dictionary /\ s.dictionary + s.dictSize = source
<1> DEFINE d == DictionaryFor(s, source, n)
<1>0. s.dictionary \in Nat /\ s.dictSize \in Nat
  BY DEF Streams
<1>1. d = s \/ d = [dictionary |-> source, dictSize |-> 0]
  BY DictionaryUsed
<1> HIDE DEF d
<1>2. CASE d = s /\ s.dictionary + s.dictSize = source
  <2>1. after = [s EXCEPT !.dictSize = @ + n]
    BY <1>2 DEF DictionaryAfter, d
  <2>2. /\ after \in Streams /\ after.dictionary = s.dictionary
        /\ after.dictSize = s.dictSize + n
    BY <1>0, <2>1 DEF Streams
  <2>3. /\ done0 + 1 - s.dictSize \in Int
        /\ done0 + 1 - s.dictSize + s.dictSize = done0 + 1
        /\ done0 + n + 1 - (s.dictSize + n) = done0 + 1 - s.dictSize
        /\ s.dictionary \in Int
    BY <1>0
  <2>4. Holds(m, s.dictionary, s.dictSize + n, done0 + 1 - s.dictSize)
    <3>1. Holds(m, s.dictionary + s.dictSize, n, done0 + 1 - s.dictSize + s.dictSize)
      BY <1>2, <2>3
    <3> QED BY <1>0, <2>3, <3>1, HoldsJoin
  <2> QED BY <1>0, <1>2, <2>2, <2>3, <2>4
<1>3. CASE ~(d = s /\ s.dictionary + s.dictSize = source)
  <2>1. after = [dictionary |-> source, dictSize |-> n]
    <3>1. CASE d = s
      BY <1>3, <3>1 DEF DictionaryAfter, d
    <3>2. CASE d = [dictionary |-> source, dictSize |-> 0]
      <4>1. d.dictionary = source /\ d.dictSize = 0
        BY <3>2
      <4>2. d.dictionary + d.dictSize = source
        BY <4>1
      <4>3. after = [d EXCEPT !.dictSize = @ + n]
        BY <4>2 DEF DictionaryAfter, d
      <4> QED BY <3>2, <4>3
    <3> QED BY <1>1, <3>1, <3>2
  <2>2. after \in Streams /\ after.dictionary = source /\ after.dictSize = n
    BY <2>1 DEF Streams
  <2>3. done0 + n + 1 - n = done0 + 1
    OBVIOUS
  <2> QED BY <2>2, <2>3
<1> QED BY <1>2, <1>3

\* LZ4_saveDict: the end of the dictionary comes to the start of tmpBuff.
LEMMA DictionarySaved ==
    ASSUME NEW m, NEW dict \in Nat, NEW size \in Nat, NEW real \in Nat, real <= size,
           NEW next \in Int, Holds(m, dict, size, next - size),
           0..(real - 1) \subseteq DOMAIN m
    PROVE  Holds(Copied(m, 0, dict + size - real, real), 0, real, next - real)
<1> DEFINE j == size - real
<1>1. /\ j \in Nat /\ dict + j = dict + size - real /\ next - size + j = next - real
      /\ dict + j \in Int /\ next - size \in Int /\ next - real \in Int /\ j + real <= size
  OBVIOUS
<1> HIDE DEF j
<1>2. Holds(m, dict + j, real, next - size + j)
  BY <1>1, HoldsPart
<1>3. Holds(m, dict + size - real, real, next - real)
  BY <1>1, <1>2
<1>4. 0..(0 + real - 1) \subseteq DOMAIN m
  OBVIOUS
<1> QED BY <1>1, <1>3, <1>4, HoldsCopied

LEMMA CompressUpdateStep == Inv /\ CompressUpdate => Inv'
<1> SUFFICES ASSUME Inv, CompressUpdate PROVE Inv'
  OBVIOUS
<1> DEFINE size == cctx.tmpInSize
           toCopy == blockSize - size
           n == IF size = 0 THEN 0 ELSE Lesser(toCopy, call.size)
<1>0. /\ pc = "update" /\ cctx.cStage = 1 /\ mem' = Copied(mem, Tmp, call.src, n)
      /\ srcPtr' = call.src + n
      /\ cctx' = [cctx EXCEPT !.tmpInSize = @ + n]
      /\ pc' = IF n > 0 /\ n = toCopy THEN "complete" ELSE "blocks"
      /\ lastBlockCompressed' = "notDone"
      /\ UNCHANGED <<stream, call, written, ret, live, arena, given, done>>
  BY DEF CompressUpdate, caller
<1>1. Begun /\ TypeOK /\ CallInv /\ FrameInv /\ live
  BY <1>0 DEF Inv, CallInv, Begun, TypeOK
<1>2. /\ blockSize \in Nat /\ blockSize > 0 /\ size \in Nat /\ Tmp \in Nat /\ cctx.tmpIn \in Nat
      /\ Tmp = cctx.tmpIn + size
      /\ cctx.maxBufferSize \in Nat /\ cctx.maxBufferSize <= TmpEnd
      /\ TmpEnd < SrcAt /\ SrcAt \in Nat /\ TmpEnd \in Nat /\ SrcEnd \in Nat
  BY <1>1, Sizes DEF Tmp
<1>m. DOMAIN mem = 0..SrcEnd
  BY <1>1 DEF TypeOK
<1>3. /\ call.src \in Nat /\ call.size \in Nat /\ SrcAt <= call.src
      /\ srcEnd = call.src + call.size /\ srcEnd <= SrcEnd
      /\ given \in Nat /\ done \in Nat
  BY <1>1, <1>2 DEF TypeOK, Calls, srcEnd
<1>4. size < blockSize /\ (size > 0 => ~autoFlush /\ cctx.tmpIn + blockSize <= cctx.maxBufferSize)
  BY <1>0, <1>1, <1>2 DEF FrameInv, FitInv, RoomNeeded
<1>5. /\ n \in Nat /\ n <= call.size /\ size + n <= blockSize
      /\ n > 0 => size > 0
      /\ size > 0 /\ size + n # blockSize => n = call.size
      /\ size + n = blockSize => n > 0 /\ n = toCopy
      /\ n > 0 /\ n = toCopy => size + n = blockSize
      /\ size = 0 => n = 0
  <2>1. toCopy \in Nat \ {0} /\ call.size \in Nat
    BY <1>2, <1>3, <1>4
  <2>2. CASE size = 0
    BY <1>2, <1>3, <2>2
  <2>3. CASE size # 0
    BY <1>2, <1>3, <2>1, <2>3 DEF Lesser
  <2> QED BY <2>2, <2>3
<1>b. Tmp + n <= TmpEnd /\ Tmp + n <= cctx.maxBufferSize
  <2>1. Tmp <= cctx.maxBufferSize
    BY <1>1 DEF FrameInv, FitInv
  <2>2. CASE n = 0
    BY <1>2, <2>1, <2>2
  <2>3. CASE n > 0
    <3>1. cctx.tmpIn + blockSize <= cctx.maxBufferSize BY <1>4, <1>5, <2>3
    <3>2. size + n <= blockSize /\ n \in Nat BY <1>5
    <3> QED BY <1>2, <3>1, <3>2
  <2> QED BY <1>5, <2>2, <2>3
<1> HIDE DEF n
<1>6. /\ cctx' \in LZ4F_cctx_t /\ cctx'.tmpInSize = size + n /\ cctx'.tmpIn = cctx.tmpIn
      /\ cctx'.prefs = cctx.prefs /\ cctx'.cStage = cctx.cStage
      /\ cctx'.maxBlockSize = cctx.maxBlockSize /\ cctx'.maxBufferSize = cctx.maxBufferSize
      /\ cctx'.xxh = cctx.xxh /\ cctx'.totalInSize = cctx.totalInSize
  <2>1. cctx \in LZ4F_cctx_t /\ cctx.tmpInSize + n \in Nat
    BY <1>1, <1>2, <1>5 DEF TypeOK
  <2> QED BY <1>0, <2>1 DEF LZ4F_cctx_t
<1>7. TypeOK'
  <2>1. DOMAIN mem' = 0..SrcEnd
    BY <1>0, <1>m, CopiedDomain
  <2>2. srcPtr' \in SrcAt..SrcEnd
    BY <1>0, <1>2, <1>3, <1>5
  <2>3. srcEnd' <= SrcEnd
    BY <1>0, <1>3 DEF srcEnd
  <2> QED BY <1>0, <1>1, <1>6, <2>1, <2>2, <2>3 DEF TypeOK, InUpdate
<1>8. CallInv' /\ BeginInv' /\ EndedInv'
  BY <1>0, <1>1, <1>6 DEF CallInv, BeginInv, EndedInv, InUpdate, Flushing
<1>9. FitInv'
  <2>1. /\ blockSize' = blockSize /\ linked' = linked /\ autoFlush' = autoFlush
        /\ Tmp' = Tmp + n /\ call' = call
    BY <1>0, <1>2, <1>5, <1>6 DEF blockSize, linked, autoFlush, Tmp
  <2>2. FitInv
    BY <1>1 DEF FrameInv
  <2>3. IF pc' = "complete" THEN size + n = blockSize ELSE size + n < blockSize
    BY <1>0, <1>2, <1>5
  <2>4. autoFlush => size = 0 /\ n = 0 /\ pc' = "blocks"
    BY <1>0, <1>4, <1>5, <2>2 DEF FitInv
  <2>5. RoomNeeded' => cctx.tmpIn + blockSize <= cctx.maxBufferSize
    <3>1. RoomNeeded' => cctx'.tmpInSize > 0 \/ pc' = "complete"
      BY <1>0, <2>1 DEF RoomNeeded
    <3>2. cctx'.tmpInSize > 0 \/ pc' = "complete" => size > 0
      BY <1>0, <1>2, <1>5, <1>6
    <3> QED BY <1>4, <3>1, <3>2
  <2>6. pc' \in {"complete", "blocks"}
    BY <1>0
  <2> QED BY <1>6, <1>b, <2>1, <2>2, <2>3, <2>4, <2>5, <2>6 DEF FitInv
<1>10. Cursor = call.src /\ Left = call.size
  BY <1>0, <1>3 DEF Cursor, Left, InUpdate
<1>11. /\ Cursor' = call.src + n /\ Left' = call.size - n
       /\ srcEnd' = srcEnd /\ srcPtr' \in call.src..srcEnd
  BY <1>0, <1>3, <1>5 DEF Cursor, Left, InUpdate, srcEnd
<1>12. LeftInv'
  <2>1. pc' = "blocks" /\ cctx'.tmpInSize > 0 => srcPtr' = srcEnd'
    BY <1>0, <1>2, <1>3, <1>5, <1>6, <1>11
  <2>2. Cursor' \in call.src..srcEnd
    BY <1>0, <1>11 DEF Cursor
  <2>3. pc' \in {"complete", "blocks"} /\ call' = call /\ arena' = arena /\ pc \in InUpdate
    BY <1>0 DEF InUpdate
  <2>4. LeftInv
    BY <1>1 DEF FrameInv
  <2> QED BY <1>11, <2>1, <2>2, <2>3, <2>4 DEF LeftInv
<1>13. ContentInv'
  <2>1. Holds(mem, cctx.tmpIn, size, done + 1) /\ Holds(mem, call.src, call.size, done + 1 + size)
    BY <1>1, <1>10 DEF FrameInv, ContentInv
  <2>2. /\ cctx.tmpIn + size + n <= call.src
        /\ done + 1 \in Int
    BY <1>2, <1>3, <1>5, <1>b
  <2>a. 0..(call.src + call.size - 1) \subseteq DOMAIN mem
    BY <1>2, <1>3, <1>m
  <2>3. /\ Holds(mem', cctx.tmpIn, size + n, done + 1)
        /\ Holds(mem', call.src + n, call.size - n, done + 1 + (size + n))
    BY <1>0, <1>2, <1>3, <1>5, <2>1, <2>2, <2>a, HoldsMoved
  <2>4. given = done + size + call.size
    BY <1>1, <1>10 DEF FrameInv, ContentInv
  <2>5. given = done + (size + n) + (call.size - n)
    BY <1>2, <1>3, <1>5, <2>4
  <2> QED BY <1>0, <1>6, <1>11, <2>3, <2>5 DEF ContentInv
<1>14. DictInv'
  <2> SUFFICES ASSUME linked
               PROVE  Holds(mem', stream.dictionary, stream.dictSize, done + 1 - stream.dictSize)
                      /\ DictPlace'
    BY <1>0, <1>6 DEF DictInv, linked
  <2>1. /\ Holds(mem, stream.dictionary, stream.dictSize, done + 1 - stream.dictSize)
        /\ DictPlace
    BY <1>1 DEF FrameInv, DictInv
  <2>2. /\ DictEnd' = DictEnd /\ DictEnd = stream.dictionary + stream.dictSize
        /\ stream.dictionary \in Nat /\ stream.dictSize \in Nat
    BY <1>0, <1>1 DEF TypeOK, Streams, DictEnd
  <2>3. ~FromSource /\ ~FromSource'
    BY <1>0 DEF FromSource
  <2>4. \/ DictEnd = cctx.tmpIn
        \/ stream.dictionary >= SrcAt /\ DictEnd <= call.src
    BY <1>0, <2>1, <2>3 DEF DictPlace
  <2>5. stream.dictionary..(stream.dictionary + stream.dictSize - 1) \subseteq DOMAIN mem
    <3>2. call.src <= SrcEnd /\ cctx.tmpIn <= call.src BY <1>2, <1>3, <1>b, <1>5
    <3>1. DictEnd <= SrcEnd BY <1>2, <1>3, <2>2, <2>4, <3>2
    <3> QED BY <1>2, <1>m, <2>2, <3>1
  <2>6. DictEnd <= Tmp \/ Tmp + n <= stream.dictionary
    BY <1>2, <1>b, <1>5, <2>2, <2>4
  <2>7. Holds(mem', stream.dictionary, stream.dictSize, done + 1 - stream.dictSize)
    <3>1. /\ done + 1 - stream.dictSize \in Int /\ Tmp \in Int /\ call.src \in Int /\ n \in Int
          /\ stream.dictionary \in Int /\ stream.dictSize \in Int
          /\ stream.dictionary + stream.dictSize <= Tmp \/ Tmp + n <= stream.dictionary
      BY <1>2, <1>3, <1>5, <2>2, <2>6
    <3> QED BY <1>0, <2>1, <2>5, <3>1, HoldsElsewhere
  <2>8. DictPlace'
    BY <1>0, <1>6, <2>1, <2>2, <2>3 DEF DictPlace, Staying
  <2> QED BY <2>7, <2>8
<1>15. WholeInv'
  BY <1>0, <1>1, <1>6 DEF FrameInv, WholeInv, Before, InUpdate
<1> QED BY <1>7, <1>8, <1>9, <1>12, <1>13, <1>14, <1>15 DEF Inv, FrameInv

LEMMA Facts ==
    ASSUME Inv
    PROVE  /\ call.src \in Nat /\ call.size \in Nat /\ SrcAt <= call.src
           /\ srcEnd = call.src + call.size /\ srcEnd <= SrcEnd /\ srcEnd \in Nat
           /\ srcPtr \in Nat /\ SrcAt <= srcPtr /\ srcPtr <= SrcEnd
           /\ given \in Nat /\ done \in Nat /\ arena \in Nat /\ SrcAt <= arena
           /\ arena <= SrcAt + given /\ given <= MaxContent /\ MaxContent \in Nat
           /\ stream \in Streams /\ stream.dictionary \in Nat /\ stream.dictSize \in Nat
           /\ TmpEnd < SrcAt /\ SrcAt \in Nat /\ TmpEnd \in Nat /\ SrcEnd \in Nat
           /\ KB64 \in Nat /\ KB64 <= TmpEnd /\ SrcEnd = SrcAt + MaxContent
<1>1. TypeOK
  BY DEF Inv
<1>2. call \in Calls /\ srcEnd <= SrcEnd /\ stream \in Streams /\ srcPtr \in SrcAt..SrcEnd
      /\ given \in 0..MaxContent /\ arena \in SrcAt..(SrcAt + given) /\ done \in Nat
  BY <1>1 DEF TypeOK
<1>3. call.src \in SrcAt..SrcEnd /\ call.size \in 0..MaxContent
  BY <1>2 DEF Calls
<1>4. stream.dictionary \in Nat /\ stream.dictSize \in Nat
  BY <1>2 DEF Streams
<1> QED BY <1>2, <1>3, <1>4, Addresses DEF srcEnd

\* A block out of tmpIn, which was completed or is flushed.
LEMMA TmpBlockStep == Inv /\ (CompleteTmpBlock \/ FlushBlock) => Inv'
<1> SUFFICES ASSUME Inv, CompleteTmpBlock \/ FlushBlock PROVE Inv'
  OBVIOUS
<1> DEFINE n == cctx.tmpInSize
<1>1. pc \in {"complete", "block"} /\ live /\ Begun /\ TypeOK /\ CallInv /\ FrameInv
  BY DEF CompleteTmpBlock, FlushBlock, Inv, CallInv, Begun
<1>2. /\ blockSize \in Nat /\ blockSize > 0 /\ n \in Nat /\ Tmp \in Nat /\ cctx.tmpIn \in Nat
      /\ Tmp = cctx.tmpIn + n /\ cctx.maxBufferSize <= TmpEnd /\ cctx.maxBufferSize \in Nat
  BY <1>1, Sizes DEF Tmp
<1>3. Tmp <= cctx.maxBufferSize /\ ~autoFlush /\ (pc = "complete" => n = blockSize)
  BY <1>1, <1>2 DEF FrameInv, FitInv
<1>4. /\ LZ4F_makeBlock(cctx.tmpIn, n)
      /\ cctx' = [cctx EXCEPT !.tmpIn = IF linked THEN @ + n ELSE @, !.tmpInSize = 0]
      /\ pc' = IF pc = "complete" THEN "blocks" ELSE "flushed"
      /\ pc = "complete" => lastBlockCompressed' = "fromTmpBuffer"
      /\ pc = "block" => lastBlockCompressed' = lastBlockCompressed
      /\ UNCHANGED <<mem, call, srcPtr, ret, live, arena, given>>
  <2>1. CASE CompleteTmpBlock
    <3>1. pc = "complete" /\ cctx' = [cctx EXCEPT !.tmpIn = IF linked THEN @ + blockSize ELSE @, !.tmpInSize = 0]
      BY <2>1 DEF CompleteTmpBlock
    <3> QED BY <1>3, <2>1, <3>1 DEF CompleteTmpBlock, caller
  <2>2. CASE FlushBlock
    <3>1. pc = "block" /\ cctx' = [cctx EXCEPT !.tmpIn = IF linked THEN cctx.tmpIn + n ELSE @, !.tmpInSize = 0]
      BY <2>2 DEF FlushBlock, Tmp
    <3> QED BY <2>2, <3>1 DEF FlushBlock, caller, local
  <2> QED BY <2>1, <2>2
<1>5. /\ cctx' \in LZ4F_cctx_t /\ cctx'.tmpInSize = 0
      /\ cctx'.tmpIn = IF linked THEN cctx.tmpIn + n ELSE cctx.tmpIn
      /\ cctx'.prefs = cctx.prefs /\ cctx'.cStage = cctx.cStage
      /\ cctx'.maxBlockSize = cctx.maxBlockSize /\ cctx'.maxBufferSize = cctx.maxBufferSize
      /\ cctx'.xxh = cctx.xxh /\ cctx'.totalInSize = cctx.totalInSize
  <2>1. cctx \in LZ4F_cctx_t /\ cctx.tmpIn + n \in Nat /\ cctx.tmpIn \in Nat
    BY <1>1, <1>2 DEF TypeOK
  <2> QED BY <1>4, <2>1 DEF LZ4F_cctx_t
<1>6. /\ stream' = IF linked THEN DictionaryAfter(stream, cctx.tmpIn, n) ELSE NoDictionary
      /\ done' = done + n
  BY <1>4 DEF LZ4F_makeBlock
<1>7. Holds(mem, cctx.tmpIn, n, done + 1) /\ Holds(mem, Cursor, Left, done + 1 + n)
      /\ given = done + n + Left
  BY <1>1 DEF FrameInv, ContentInv
<1>8. linked => /\ stream' \in Streams
                /\ Holds(mem, stream'.dictionary, stream'.dictSize, done + n + 1 - stream'.dictSize)
                /\ stream'.dictionary + stream'.dictSize = cctx.tmpIn + n
  <2> SUFFICES ASSUME linked PROVE
           /\ stream' \in Streams
           /\ Holds(mem, stream'.dictionary, stream'.dictSize, done + n + 1 - stream'.dictSize)
           /\ stream'.dictionary + stream'.dictSize = cctx.tmpIn + n
    OBVIOUS
  <2>1. Holds(mem, stream.dictionary, stream.dictSize, done + 1 - stream.dictSize) /\ DictPlace
    BY <1>1 DEF FrameInv, DictInv
  <2>2. DictEnd = cctx.tmpIn \/ stream.dictionary >= SrcAt
    BY <1>1, <2>1 DEF DictPlace, FromSource
  <2>3. NoOverlap(stream, cctx.tmpIn, n)
    BY <1>2, <1>3, <2>2, Facts DEF NoOverlap, DictEnd
  <2>4. stream' = DictionaryAfter(stream, cctx.tmpIn, n)
    BY <1>6
  <2> HIDE DEF n
  <2> QED BY <1>2, <1>7, <2>1, <2>3, <2>4, Facts, DictionaryGrows
<1>9. stream' \in Streams /\ done' \in Nat
  <2>1. NoDictionary \in Streams
    BY DEF NoDictionary, Streams
  <2> QED BY <1>2, <1>6, <1>8, <2>1, Facts
<1>10. TypeOK'
  <2>1. srcEnd' = srcEnd
    BY <1>4 DEF srcEnd
  <2>2. lastBlockCompressed' \in {"notDone", "fromTmpBuffer", "fromSrcBuffer"}
    BY <1>1, <1>4 DEF TypeOK
  <2> QED BY <1>1, <1>4, <1>5, <1>9, <2>1, <2>2 DEF TypeOK, InUpdate, Flushing
<1>11. CallInv' /\ BeginInv' /\ EndedInv'
  BY <1>1, <1>4, <1>5 DEF CallInv, BeginInv, EndedInv, InUpdate, Flushing
<1>12. /\ blockSize' = blockSize /\ linked' = linked /\ autoFlush' = autoFlush
       /\ Tmp' = cctx'.tmpIn
  BY <1>2, <1>5 DEF blockSize, linked, autoFlush, Tmp
<1>13. FitInv'
  <2>1. cctx'.tmpIn <= cctx.maxBufferSize
    BY <1>2, <1>3, <1>5
  <2>2. ~RoomNeeded' /\ pc' \in {"blocks", "flushed"}
    BY <1>1, <1>4, <1>5 DEF RoomNeeded
  <2>3. FitInv
    BY <1>1 DEF FrameInv
  <2> QED BY <1>2, <1>3, <1>4, <1>5, <1>12, <2>1, <2>2, <2>3 DEF FitInv
<1>14. Cursor' = Cursor /\ Left' = Left /\ srcEnd' = srcEnd
  BY <1>1, <1>4 DEF Cursor, Left, InUpdate, srcEnd
<1>15. LeftInv'
  BY <1>1, <1>4, <1>5, <1>14 DEF FrameInv, LeftInv, InUpdate
<1>16. ContentInv'
  <2>1. Holds(mem', cctx'.tmpIn, 0, done' + 1)
    BY HoldsNone
  <2>2. done' + 1 + 0 = done + 1 + n /\ Left \in Int /\ given = done' + 0 + Left
    BY <1>2, <1>6, <1>7, Facts DEF Left, Cursor
  <2> QED BY <1>4, <1>5, <1>7, <1>14, <2>1, <2>2 DEF ContentInv
<1>17. DictInv'
  <2> SUFFICES ASSUME linked PROVE
         /\ Holds(mem', stream'.dictionary, stream'.dictSize, done' + 1 - stream'.dictSize)
         /\ DictPlace'
    BY <1>12 DEF DictInv
  <2>1. ~FromSource' /\ DictEnd' = cctx'.tmpIn
    BY <1>1, <1>4, <1>5, <1>8 DEF FromSource, DictEnd
  <2> QED BY <1>4, <1>6, <1>8, <2>1 DEF DictPlace
<1>18. WholeInv'
  BY <1>1, <1>4, <1>5 DEF FrameInv, WholeInv, Before, InUpdate
<1> QED BY <1>10, <1>11, <1>13, <1>15, <1>16, <1>17, <1>18 DEF Inv, FrameInv

\* A block out of the source.
LEMMA CompressSrcBlockStep == Inv /\ CompressSrcBlock => Inv'
<1> SUFFICES ASSUME Inv, CompressSrcBlock PROVE Inv'
  OBVIOUS
<1> DEFINE n == SrcBlock
<1>1. pc = "blocks" /\ MoreBlocks /\ live /\ Begun /\ TypeOK /\ CallInv /\ FrameInv
  BY DEF CompressSrcBlock, Inv, CallInv, Begun
<1>2. /\ LZ4F_makeBlock(srcPtr, n)
      /\ srcPtr' = srcPtr + n /\ lastBlockCompressed' = "fromSrcBuffer"
      /\ UNCHANGED <<cctx, mem, call, pc, ret, live, arena, given>>
  BY DEF CompressSrcBlock, caller
<1>3. /\ blockSize \in Nat /\ blockSize > 0 /\ cctx.tmpIn \in Nat /\ cctx.tmpInSize \in Nat
      /\ Tmp \in Nat /\ Tmp = cctx.tmpIn + cctx.tmpInSize /\ Tmp <= cctx.maxBufferSize
      /\ cctx.maxBufferSize \in Nat /\ cctx.maxBufferSize <= TmpEnd
  BY <1>1, Sizes DEF Tmp, FrameInv, FitInv
<1>4. Cursor = srcPtr /\ Left = srcEnd - srcPtr /\ call.src <= srcPtr /\ srcPtr <= srcEnd
  BY <1>1, Facts DEF Cursor, Left, InUpdate, FrameInv, LeftInv
<1>5. n \in Nat /\ n > 0 /\ n <= srcEnd - srcPtr
  BY <1>1, <1>3, <1>4, Facts DEF MoreBlocks, SrcBlock, Lesser
<1> HIDE DEF n
<1>6. cctx.tmpInSize = 0
  BY <1>1, <1>3, <1>4, <1>5, Facts DEF FrameInv, LeftInv
<1>7. Holds(mem, srcPtr, srcEnd - srcPtr, done + 1) /\ given = done + 0 + (srcEnd - srcPtr)
  <2>1. done + 1 + 0 = done + 1
    BY Facts
  <2> QED BY <1>1, <1>4, <1>6, <2>1 DEF FrameInv, ContentInv
<1>8. /\ Holds(mem, srcPtr, n, done + 1)
      /\ Holds(mem, srcPtr + n, srcEnd - srcPtr - n, done + 1 + n)
  <2>1. /\ srcPtr \in Int /\ srcEnd - srcPtr \in Int /\ done + 1 \in Int /\ n \in Int
        /\ srcPtr + 0 = srcPtr /\ done + 1 + 0 = done + 1 /\ 0 + n <= srcEnd - srcPtr
        /\ srcEnd - srcPtr - n \in Int /\ n + (srcEnd - srcPtr - n) <= srcEnd - srcPtr
    BY <1>5, Facts
  <2>2. Holds(mem, srcPtr + 0, n, done + 1 + 0)
    BY <1>7, <2>1, HoldsPart
  <2>3. Holds(mem, srcPtr + n, srcEnd - srcPtr - n, done + 1 + n)
    BY <1>5, <1>7, <2>1, HoldsPart
  <2> QED BY <2>1, <2>2, <2>3
<1>9. /\ stream' = IF linked THEN DictionaryAfter(stream, srcPtr, n) ELSE NoDictionary
      /\ done' = done + n
  BY <1>2 DEF LZ4F_makeBlock
<1>10. linked => /\ stream' \in Streams
                 /\ Holds(mem, stream'.dictionary, stream'.dictSize, done + n + 1 - stream'.dictSize)
                 /\ stream'.dictionary + stream'.dictSize = srcPtr + n
                 /\ stream'.dictionary >= SrcAt
  <2> SUFFICES ASSUME linked PROVE
           /\ stream' \in Streams
           /\ Holds(mem, stream'.dictionary, stream'.dictSize, done + n + 1 - stream'.dictSize)
           /\ stream'.dictionary + stream'.dictSize = srcPtr + n
           /\ stream'.dictionary >= SrcAt
    OBVIOUS
  <2>1. Holds(mem, stream.dictionary, stream.dictSize, done + 1 - stream.dictSize) /\ DictPlace
    BY <1>1 DEF FrameInv, DictInv
  <2>2. \/ DictEnd = cctx.tmpIn
        \/ stream.dictionary >= SrcAt /\ DictEnd <= srcPtr
    BY <1>1, <1>4, <2>1, Facts DEF DictPlace, DictEnd
  <2>3. NoOverlap(stream, srcPtr, n) /\ (DictEnd = srcPtr => stream.dictionary >= SrcAt)
    BY <1>3, <2>2, Facts DEF NoOverlap, DictEnd
  <2>4. stream' = DictionaryAfter(stream, srcPtr, n)
    BY <1>9
  <2>5. /\ stream' \in Streams
        /\ Holds(mem, stream'.dictionary, stream'.dictSize, done + n + 1 - stream'.dictSize)
        /\ stream'.dictionary + stream'.dictSize = srcPtr + n
        /\ \/ stream'.dictionary = srcPtr
           \/ stream'.dictionary = stream.dictionary /\ DictEnd = srcPtr
    BY <1>5, <1>8, <2>1, <2>3, <2>4, Facts, DictionaryGrows DEF DictEnd
  <2> QED BY <2>3, <2>5, Facts
<1>11. stream' \in Streams /\ done' \in Nat
  <2>1. NoDictionary \in Streams
    BY DEF NoDictionary, Streams
  <2> QED BY <1>5, <1>9, <1>10, <2>1, Facts
<1>12. srcEnd' = srcEnd /\ srcPtr' \in call.src..srcEnd /\ srcPtr' \in SrcAt..SrcEnd
  BY <1>2, <1>4, <1>5, Facts DEF srcEnd
<1>13. TypeOK'
  BY <1>1, <1>2, <1>11, <1>12 DEF TypeOK
<1>14. CallInv' /\ BeginInv' /\ EndedInv'
  BY <1>1, <1>2 DEF CallInv, BeginInv, EndedInv, InUpdate, Flushing
<1>15. FitInv'
  BY <1>1, <1>2 DEF FrameInv, FitInv, RoomNeeded, blockSize, autoFlush, linked, Tmp
<1>16. Cursor' = srcPtr + n /\ Left' = srcEnd - srcPtr - n
  BY <1>1, <1>2, <1>5, <1>12, Facts DEF Cursor, Left, InUpdate
<1>17. LeftInv'
  <2>1. pc' = "blocks" /\ cctx'.tmpInSize = 0 /\ call' = call /\ arena' = arena /\ Cursor' = srcPtr'
    BY <1>1, <1>2, <1>6 DEF Cursor
  <2> QED BY <1>1, <1>12, <2>1 DEF FrameInv, LeftInv, InUpdate
<1>18. ContentInv'
  <2>1. Holds(mem', cctx'.tmpIn, 0, done' + 1)
    BY HoldsNone
  <2>2. done' + 1 + 0 = done + 1 + n /\ given = done' + 0 + (srcEnd - srcPtr - n)
    BY <1>5, <1>7, <1>9, Facts
  <2> QED BY <1>2, <1>6, <1>8, <1>16, <2>1, <2>2 DEF ContentInv
<1>19. DictInv'
  <2> SUFFICES ASSUME linked PROVE
         /\ Holds(mem', stream'.dictionary, stream'.dictSize, done' + 1 - stream'.dictSize)
         /\ DictPlace'
    BY <1>2 DEF DictInv, linked
  <2>1. FromSource' /\ DictEnd' = srcPtr' /\ cctx'.tmpInSize = 0
    BY <1>1, <1>2, <1>6, <1>10 DEF FromSource, DictEnd
  <2> QED BY <1>2, <1>9, <1>10, <2>1 DEF DictPlace
<1>20. WholeInv'
  BY <1>1, <1>2 DEF FrameInv, WholeInv, Before, InUpdate
<1> QED BY <1>13, <1>14, <1>15, <1>17, <1>18, <1>19, <1>20 DEF Inv, FrameInv

\* LZ4F_localSaveDict: the dictionary ends where tmpIn then begins, and the
\* input, which is elsewhere, stays as it is.
LEMMA SaveDict ==
    ASSUME Inv, Begun, linked, LZ4F_localSaveDict
    PROVE  /\ realDictSize \in Nat /\ realDictSize <= KB64
           /\ stream' \in Streams /\ DictEnd' = realDictSize
           /\ cctx' \in LZ4F_cctx_t /\ cctx' = [cctx EXCEPT !.tmpIn = realDictSize]
           /\ cctx'.tmpIn = realDictSize /\ cctx'.tmpInSize = cctx.tmpInSize
           /\ cctx'.prefs = cctx.prefs /\ cctx'.cStage = cctx.cStage
           /\ cctx'.maxBlockSize = cctx.maxBlockSize
           /\ cctx'.maxBufferSize = cctx.maxBufferSize
           /\ cctx'.xxh = cctx.xxh /\ cctx'.totalInSize = cctx.totalInSize
           /\ DOMAIN mem' = DOMAIN mem
           /\ Holds(mem', stream'.dictionary, stream'.dictSize, done + 1 - stream'.dictSize)
           /\ Holds(mem', Cursor, Left, done + 1 + cctx.tmpInSize)
<1> DEFINE real == realDictSize
<1>1. TypeOK /\ FrameInv
  BY DEF Inv
<1>2. real \in Nat /\ real <= KB64 /\ real <= stream.dictSize
  BY Facts DEF realDictSize, Lesser
<1>3. /\ mem' = Copied(mem, 0, stream.dictionary + stream.dictSize - real, real)
      /\ stream' = [dictionary |-> 0, dictSize |-> real]
      /\ cctx' = [cctx EXCEPT !.tmpIn = real]
  BY DEF LZ4F_localSaveDict
<1> HIDE DEF real
<1>4. stream' \in Streams /\ stream'.dictionary = 0 /\ stream'.dictSize = real
  BY <1>2, <1>3 DEF Streams
<1>5. DictEnd' = real
  BY <1>2, <1>4 DEF DictEnd
<1>6. /\ cctx' \in LZ4F_cctx_t /\ cctx'.tmpIn = real /\ cctx'.tmpInSize = cctx.tmpInSize
      /\ cctx'.prefs = cctx.prefs /\ cctx'.cStage = cctx.cStage
      /\ cctx'.maxBlockSize = cctx.maxBlockSize
      /\ cctx'.maxBufferSize = cctx.maxBufferSize
      /\ cctx'.xxh = cctx.xxh /\ cctx'.totalInSize = cctx.totalInSize
  BY <1>1, <1>2, <1>3 DEF TypeOK, LZ4F_cctx_t
<1>7. DOMAIN mem' = DOMAIN mem
  BY <1>3, CopiedDomain
<1>d. DOMAIN mem = 0..SrcEnd
  BY <1>1 DEF TypeOK
<1>8. Holds(mem', 0, real, done + 1 - real)
  <2>1. Holds(mem, stream.dictionary, stream.dictSize, done + 1 - stream.dictSize)
    BY <1>1 DEF FrameInv, DictInv
  <2>2. 0..(real - 1) \subseteq DOMAIN mem
    <3>1. real - 1 <= SrcEnd BY <1>2, Facts
    <3> QED BY <1>2, <1>d, <3>1, Facts
  <2>3. done + 1 \in Int /\ stream.dictionary \in Nat /\ stream.dictSize \in Nat
    BY Facts
  <2>4. Holds(Copied(mem, 0, stream.dictionary + stream.dictSize - real, real),
              0, real, done + 1 - real)
    <3>1. /\ done + 1 - stream.dictSize = (done + 1) - stream.dictSize
          /\ done + 1 - real = (done + 1) - real
          /\ stream.dictionary + stream.dictSize - real
                = stream.dictionary + (stream.dictSize - real)
      BY <1>2, <2>3, Facts
    <3> QED BY <1>2, <2>1, <2>2, <2>3, <3>1, DictionarySaved
  <2> QED BY <1>3, <2>4
<1>9. Holds(mem', Cursor, Left, done + 1 + cctx.tmpInSize)
  <2>1. Holds(mem, Cursor, Left, done + 1 + cctx.tmpInSize)
    BY <1>1 DEF FrameInv, ContentInv
  <2>2. CASE pc \in InUpdate
    <3>1. Cursor \in call.src..srcEnd /\ Left = srcEnd - Cursor
      BY <1>1, <2>2 DEF FrameInv, LeftInv, Left
    <3>2. /\ Cursor \in Int /\ Left \in Int /\ 0 + real <= Cursor /\ real \in Int
          /\ stream.dictionary + stream.dictSize - real \in Int
      BY <1>2, <3>1, Facts
    <3>3. Cursor..(Cursor + Left - 1) \subseteq DOMAIN mem
      <4>1. 0 <= Cursor /\ Cursor + Left - 1 <= SrcEnd
        BY <3>1, Facts
      <4> QED BY <1>d, <3>2, <4>1, Facts
    <3>4. done + 1 + cctx.tmpInSize \in Int
      <4>1. done \in Nat /\ cctx.tmpInSize \in Nat BY Sizes, Facts
      <4> QED BY <4>1
    <3>5. Holds(Copied(mem, 0, stream.dictionary + stream.dictSize - real, real),
                Cursor, Left, done + 1 + cctx.tmpInSize)
      BY <2>1, <3>2, <3>3, <3>4, HoldsElsewhere
    <3> QED BY <1>3, <3>5
  <2>3. CASE pc \notin InUpdate
    <3>1. Left = 0 BY <2>3 DEF Left
    <3> QED BY <3>1, HoldsNone
  <2> QED BY <2>2, <2>3
<1> QED BY <1>2, <1>3, <1>4, <1>5, <1>6, <1>7, <1>8, <1>9 DEF real

LEMMA PreserveDictionaryStep == Inv /\ PreserveDictionary => Inv'
<1> SUFFICES ASSUME Inv, PreserveDictionary PROVE Inv'
  OBVIOUS
<1>1. pc = "blocks" /\ ~MoreBlocks /\ live /\ Begun /\ TypeOK /\ CallInv /\ FrameInv
  BY DEF PreserveDictionary, Inv, CallInv, Begun
<1>2. UNCHANGED <<call, srcPtr, lastBlockCompressed, written, arena, given, done>>
  BY DEF PreserveDictionary, local
<1>3. Cursor = srcPtr /\ Left = srcEnd - srcPtr /\ call.src <= srcPtr /\ srcPtr <= srcEnd
  BY <1>1, Facts DEF Cursor, Left, InUpdate, FrameInv, LeftInv
<1>4. Left \in Nat /\ Left < blockSize /\ (autoFlush => Left = 0)
  <2>1. blockSize \in Nat /\ blockSize > 0 BY <1>1, Sizes
  <2> QED BY <1>1, <1>3, <2>1, Facts DEF MoreBlocks, SrcBlock, Lesser
<1>5. srcEnd' = srcEnd
  BY <1>2 DEF srcEnd
<1>6. ASSUME pc' = "idle", live' = FALSE, ret' = "GENERIC",
             cctx' \in LZ4F_cctx_t, stream' \in Streams, DOMAIN mem' = DOMAIN mem
      PROVE  Inv'
  BY <1>1, <1>2, <1>5, <1>6
     DEF Inv, TypeOK, CallInv, BeginInv, EndedInv, Begun, InUpdate, Flushing
<1>7. ASSUME pc' = "limits", ret' = ret, live' = live,
             cctx' \in LZ4F_cctx_t, stream' \in Streams, DOMAIN mem' = DOMAIN mem,
             cctx'.prefs = cctx.prefs, cctx'.cStage = cctx.cStage,
             cctx'.maxBlockSize = cctx.maxBlockSize,
             cctx'.maxBufferSize = cctx.maxBufferSize,
             cctx'.tmpInSize = cctx.tmpInSize,
             cctx'.xxh = cctx.xxh, cctx'.totalInSize = cctx.totalInSize,
             Tmp' <= cctx.maxBufferSize,
             cctx'.tmpIn = cctx.tmpIn \/ (linked /\ cctx.tmpInSize = 0),
             Holds(mem', cctx'.tmpIn, cctx.tmpInSize, done + 1),
             Holds(mem', srcPtr, Left, done + 1 + cctx.tmpInSize),
             linked => /\ Holds(mem', stream'.dictionary, stream'.dictSize,
                                done + 1 - stream'.dictSize)
                       /\ \/ DictEnd' = cctx'.tmpIn
                          \/ /\ stream'.dictionary >= SrcAt /\ cctx'.tmpIn = 0
                             /\ DictEnd' <= Staying
      PROVE  Inv'
  <2>1. TypeOK'
    BY <1>1, <1>2, <1>5, <1>7 DEF TypeOK, InUpdate
  <2>2. CallInv' /\ BeginInv' /\ EndedInv'
    BY <1>1, <1>2, <1>7 DEF CallInv, BeginInv, EndedInv, InUpdate, Flushing
  <2>3. FitInv'
    <3>1. blockSize' = blockSize /\ linked' = linked /\ autoFlush' = autoFlush
      BY <1>7 DEF blockSize, linked, autoFlush
    <3>2. RoomNeeded' => RoomNeeded /\ cctx.tmpInSize > 0 /\ cctx.tmpIn = cctx'.tmpIn
      BY <1>7, <3>1 DEF RoomNeeded
    <3>3. FitInv
      BY <1>1 DEF FrameInv
    <3> QED BY <1>1, <1>2, <1>7, <3>1, <3>2, <3>3 DEF FitInv
  <2>4. Cursor' = srcPtr /\ Left' = Left
    BY <1>2, <1>3, <1>5, <1>7 DEF Cursor, Left, InUpdate
  <2>5. LeftInv'
    <3>1. srcPtr \in call.src..srcEnd BY <1>3, Facts
    <3>2. blockSize' = blockSize /\ autoFlush' = autoFlush
      BY <1>7 DEF blockSize, autoFlush
    <3> QED BY <1>1, <1>2, <1>4, <1>5, <1>7, <2>4, <3>1, <3>2 DEF FrameInv, LeftInv, InUpdate
  <2>6. ContentInv'
    BY <1>1, <1>2, <1>3, <1>7, <2>4 DEF FrameInv, ContentInv
  <2>7. DictInv'
    <3>1. linked' = linked /\ ~FromSource'
      BY <1>7 DEF linked, FromSource
    <3> QED BY <1>2, <1>7, <3>1 DEF DictInv, DictPlace, Staying
  <2>8. WholeInv'
    BY <1>1, <1>2, <1>7 DEF FrameInv, WholeInv, Before, InUpdate
  <2> QED BY <2>1, <2>2, <2>3, <2>5, <2>6, <2>7, <2>8 DEF Inv, FrameInv
<1>8. /\ Holds(mem, cctx.tmpIn, cctx.tmpInSize, done + 1)
      /\ Holds(mem, srcPtr, Left, done + 1 + cctx.tmpInSize)
      /\ linked => Holds(mem, stream.dictionary, stream.dictSize, done + 1 - stream.dictSize)
                   /\ DictPlace
  BY <1>1, <1>3 DEF FrameInv, ContentInv, DictInv
<1>9. cctx \in LZ4F_cctx_t /\ Tmp <= cctx.maxBufferSize
  BY <1>1 DEF TypeOK, FrameInv, FitInv
<1>10. CASE ~linked \/ lastBlockCompressed # "fromSrcBuffer"
  <2>1. pc' = "limits" /\ UNCHANGED <<cctx, stream, mem, ret, live>>
    BY <1>10 DEF PreserveDictionary
  <2>2. Tmp' = Tmp /\ DictEnd' = DictEnd
    BY <2>1 DEF Tmp, DictEnd
  <2>3. linked => ~FromSource
    BY <1>10 DEF FromSource
  <2> QED BY <1>7, <1>8, <1>9, <2>1, <2>2, <2>3, Facts DEF DictPlace
<1>11. CASE linked /\ lastBlockCompressed = "fromSrcBuffer" /\ SourceStays
  <2>1. pc' = "limits" /\ cctx' = [cctx EXCEPT !.tmpIn = 0] /\ UNCHANGED <<stream, mem, ret, live>>
    BY <1>11 DEF PreserveDictionary
  <2>2. /\ cctx' \in LZ4F_cctx_t /\ cctx'.prefs = cctx.prefs /\ cctx'.cStage = cctx.cStage
        /\ cctx'.maxBlockSize = cctx.maxBlockSize
        /\ cctx'.maxBufferSize = cctx.maxBufferSize
        /\ cctx'.tmpInSize = cctx.tmpInSize /\ cctx'.tmpIn = 0
        /\ cctx'.xxh = cctx.xxh /\ cctx'.totalInSize = cctx.totalInSize
    BY <1>9, <2>1 DEF LZ4F_cctx_t
  <2>3. stream.dictionary >= SrcAt /\ DictEnd = srcPtr /\ cctx.tmpInSize = 0
    BY <1>1, <1>8, <1>11 DEF DictPlace, FromSource
  <2>4. Tmp' = 0 /\ 0 <= cctx.maxBufferSize
    BY <1>1, <2>2, <2>3, Sizes DEF Tmp
  <2>5. Holds(mem', 0, 0, done + 1)
    BY HoldsNone
  <2>6. DictEnd <= Staying
    <3>1. ~call.whole => DictEnd <= arena
      BY <1>1, <1>3, <1>11, <2>3 DEF SourceStays, FrameInv, LeftInv, InUpdate
    <3> QED BY <1>3, <2>3, <3>1, Facts DEF Staying
  <2>7. DictEnd' = DictEnd
    BY <2>1 DEF DictEnd
  <2> QED BY <1>7, <1>8, <1>11, <2>1, <2>2, <2>3, <2>4, <2>5, <2>6, <2>7, Facts
<1>12. CASE linked /\ lastBlockCompressed = "fromSrcBuffer" /\ ~SourceStays
  <2>1. /\ LZ4F_localSaveDict
        /\ IF realDictSize = 0 THEN Return("GENERIC", "idle")
           ELSE pc' = "limits" /\ UNCHANGED <<ret, live>>
    BY <1>12 DEF PreserveDictionary
  <2>2. /\ realDictSize \in Nat /\ realDictSize <= KB64
        /\ stream' \in Streams /\ DictEnd' = realDictSize
        /\ cctx' \in LZ4F_cctx_t
        /\ cctx'.tmpIn = realDictSize /\ cctx'.tmpInSize = cctx.tmpInSize
        /\ cctx'.prefs = cctx.prefs /\ cctx'.cStage = cctx.cStage
        /\ cctx'.maxBlockSize = cctx.maxBlockSize
        /\ cctx'.maxBufferSize = cctx.maxBufferSize
        /\ cctx'.xxh = cctx.xxh /\ cctx'.totalInSize = cctx.totalInSize
        /\ DOMAIN mem' = DOMAIN mem
        /\ Holds(mem', stream'.dictionary, stream'.dictSize, done + 1 - stream'.dictSize)
        /\ Holds(mem', srcPtr, Left, done + 1 + cctx.tmpInSize)
    BY <1>1, <1>3, <1>12, <2>1, SaveDict
  <2>3. CASE realDictSize = 0
    BY <1>6, <2>1, <2>2, <2>3 DEF Return
  <2>4. CASE realDictSize # 0
    <3>1. cctx.tmpInSize = 0
      BY <1>1, <1>8, <1>12 DEF DictPlace, FromSource
    <3>2. Tmp' <= cctx.maxBufferSize
      BY <1>1, <1>12, <2>2, <3>1, Room, Sizes DEF Tmp
    <3>3. Holds(mem', cctx'.tmpIn, 0, done + 1)
      BY HoldsNone
    <3> QED BY <1>7, <1>12, <2>1, <2>2, <2>4, <3>1, <3>2, <3>3
  <2> QED BY <2>3, <2>4
<1> QED BY <1>10, <1>11, <1>12

\* The end of a call that failed, and of a frame that is given up.
LEMMA NotLive ==
    ASSUME Inv, pc' = "idle", live' = FALSE, ret' \notin {"ended", "frameSize_wrong"},
           cctx' \in LZ4F_cctx_t, stream' \in Streams, DOMAIN mem' = DOMAIN mem,
           UNCHANGED <<call, srcPtr, lastBlockCompressed, arena, given, done>>
    PROVE  Inv'
<1>1. srcEnd' = srcEnd
  BY DEF srcEnd
<1>2. TypeOK /\ CallInv
  BY DEF Inv
<1>3. TypeOK'
  BY <1>1, <1>2 DEF TypeOK
<1>4. CallInv'
  BY <1>2 DEF CallInv, InUpdate, Flushing
<1> QED BY <1>3, <1>4 DEF Inv, BeginInv, EndedInv, Begun

LEMMA KeepLimitsStep == Inv /\ (UpdateKeepsLimits \/ FlushKeepsLimits) => Inv'
<1> SUFFICES ASSUME Inv, UpdateKeepsLimits \/ FlushKeepsLimits PROVE Inv'
  OBVIOUS
<1>1. /\ pc \in {"limits", "flushed"} /\ live /\ Begun /\ TypeOK /\ CallInv /\ FrameInv
      /\ LeftInv /\ FitInv
  BY DEF UpdateKeepsLimits, FlushKeepsLimits, Inv, CallInv, Begun, FrameInv
<1>2. /\ IF OutOfRoom /\ (~autoFlush \/ pc = "flushed")
         THEN LZ4F_localSaveDict ELSE UNCHANGED <<cctx, stream, mem>>
      /\ pc' = IF pc = "limits" THEN "left" ELSE AfterFlush
      /\ UNCHANGED <<call, srcPtr, lastBlockCompressed, ret, live, arena, given, done>>
  BY DEF UpdateKeepsLimits, FlushKeepsLimits, KeepTmpInWithinLimits, local, caller
<1>3. /\ pc' \in {"left", "idle", "end"} /\ (pc' = "left" <=> pc = "limits")
      /\ pc' = "idle" => ~call.whole
      /\ pc' = "end" => call.op \in {"end", "frame"}
  BY <1>1, <1>2 DEF AfterFlush, CallInv, Flushing
<1>4. srcEnd' = srcEnd /\ Cursor = srcPtr /\ Cursor' = srcPtr /\ Left' = Left
  BY <1>1, <1>2, <1>3 DEF srcEnd, Cursor, Left, InUpdate
<1>5. /\ blockSize \in Nat /\ cctx.tmpIn \in Nat /\ cctx.tmpInSize \in Nat
      /\ cctx.maxBufferSize \in Nat
      /\ Tmp = cctx.tmpIn + cctx.tmpInSize /\ Tmp <= cctx.maxBufferSize
  BY <1>1, Sizes DEF Tmp, FitInv
<1>6. ~FromSource /\ ~FromSource'
  BY <1>1, <1>3 DEF FromSource
<1>7. CallInv' /\ BeginInv' /\ EndedInv'
  BY <1>1, <1>2, <1>3 DEF CallInv, BeginInv, EndedInv, InUpdate, Flushing
<1>8. ASSUME cctx' \in LZ4F_cctx_t, stream' \in Streams, DOMAIN mem' = DOMAIN mem,
             cctx'.prefs = cctx.prefs, cctx'.cStage = cctx.cStage,
             cctx'.maxBlockSize = cctx.maxBlockSize,
             cctx'.maxBufferSize = cctx.maxBufferSize,
             cctx'.tmpInSize = cctx.tmpInSize,
             cctx'.xxh = cctx.xxh, cctx'.totalInSize = cctx.totalInSize,
             Tmp' <= cctx.maxBufferSize,
             ~autoFlush => cctx'.tmpIn + blockSize <= cctx.maxBufferSize,
             ~linked => cctx'.tmpIn = 0,
             Holds(mem', cctx'.tmpIn, cctx.tmpInSize, done + 1),
             Holds(mem', Cursor, Left, done + 1 + cctx.tmpInSize),
             linked => /\ Holds(mem', stream'.dictionary, stream'.dictSize,
                                done + 1 - stream'.dictSize)
                       /\ \/ DictEnd' = cctx'.tmpIn
                          \/ /\ stream'.dictionary >= SrcAt /\ cctx'.tmpIn = 0
                             /\ DictEnd' <= Staying
      PROVE  Inv'
  <2>1. TypeOK'
    BY <1>1, <1>2, <1>3, <1>4, <1>8 DEF TypeOK, InUpdate
  <2>2. blockSize' = blockSize /\ linked' = linked /\ autoFlush' = autoFlush
    BY <1>8 DEF blockSize, linked, autoFlush
  <2>3. FitInv'
    <3>1. RoomNeeded' => cctx'.tmpIn + blockSize <= cctx.maxBufferSize
      BY <1>8, <2>2 DEF RoomNeeded
    <3>2. pc' = "end" => cctx'.tmpInSize = 0
      BY <1>1, <1>3, <1>8 DEF FitInv
    <3>3. pc' \notin {"complete", "block", "flushed"} /\ pc # "complete"
      BY <1>1, <1>3
    <3> QED BY <1>1, <1>2, <1>8, <2>2, <3>1, <3>2, <3>3 DEF FitInv
  <2>4. LeftInv'
    BY <1>1, <1>2, <1>3, <1>4, <1>8, <2>2 DEF LeftInv, InUpdate
  <2>5. ContentInv'
    BY <1>1, <1>2, <1>4, <1>8 DEF FrameInv, ContentInv
  <2>6. DictInv'
    BY <1>2, <1>3, <1>6, <1>8, <2>2 DEF DictInv, DictPlace, Staying
  <2>7. WholeInv'
    BY <1>1, <1>2, <1>3, <1>8 DEF FrameInv, WholeInv, Before, InUpdate
  <2> QED BY <1>7, <2>1, <2>3, <2>4, <2>5, <2>6, <2>7 DEF Inv, FrameInv
<1>9. CASE OutOfRoom /\ (~autoFlush \/ pc = "flushed")
  <2>1. ~autoFlush /\ cctx.tmpInSize = 0
    <3>1. ~autoFlush BY <1>1, <1>9 DEF FitInv
    <3>2. cctx.tmpInSize > 0 => cctx.tmpIn + blockSize <= cctx.maxBufferSize
      BY <1>1, <3>1 DEF FitInv, RoomNeeded
    <3> QED BY <1>5, <1>9, <3>1, <3>2 DEF OutOfRoom
  <2>2. linked
    <3>1. SUFFICES ASSUME ~linked PROVE FALSE OBVIOUS
    <3>2. cctx.tmpIn = 0 /\ blockSize <= cctx.maxBufferSize
      BY <1>1, <2>1, <3>1, Room DEF FitInv
    <3> QED BY <1>5, <1>9, <3>2 DEF OutOfRoom
  <2>3. /\ realDictSize \in Nat /\ realDictSize <= KB64
        /\ stream' \in Streams /\ DictEnd' = realDictSize
        /\ cctx' \in LZ4F_cctx_t
        /\ cctx'.tmpIn = realDictSize /\ cctx'.tmpInSize = cctx.tmpInSize
        /\ cctx'.prefs = cctx.prefs /\ cctx'.cStage = cctx.cStage
        /\ cctx'.maxBlockSize = cctx.maxBlockSize
        /\ cctx'.maxBufferSize = cctx.maxBufferSize
        /\ cctx'.xxh = cctx.xxh /\ cctx'.totalInSize = cctx.totalInSize
        /\ DOMAIN mem' = DOMAIN mem
        /\ Holds(mem', stream'.dictionary, stream'.dictSize, done + 1 - stream'.dictSize)
        /\ Holds(mem', Cursor, Left, done + 1 + cctx.tmpInSize)
    BY <1>1, <1>2, <1>9, <2>2, SaveDict
  <2>4. cctx'.tmpIn + blockSize <= cctx.maxBufferSize /\ Tmp' <= cctx.maxBufferSize
    <3>1. blockSize + 2 * KB64 <= cctx.maxBufferSize /\ KB64 \in Nat
      BY <1>1, <2>1, <2>2, Room, Facts
    <3>2. Tmp' = realDictSize
      BY <2>1, <2>3 DEF Tmp
    <3> QED BY <1>5, <2>3, <3>1, <3>2
  <2>5. Holds(mem', cctx'.tmpIn, 0, done + 1)
    BY HoldsNone
  <2> QED BY <1>8, <2>1, <2>2, <2>3, <2>4, <2>5
<1>10. CASE ~(OutOfRoom /\ (~autoFlush \/ pc = "flushed"))
  <2>1. UNCHANGED <<cctx, stream, mem>>
    BY <1>2, <1>10
  <2>2. Tmp' = Tmp /\ DictEnd' = DictEnd
    BY <2>1 DEF Tmp, DictEnd
  <2>3. ~autoFlush => cctx.tmpIn + blockSize <= cctx.maxBufferSize
    BY <1>5, <1>10 DEF OutOfRoom
  <2>4. /\ Holds(mem, cctx.tmpIn, cctx.tmpInSize, done + 1)
        /\ Holds(mem, Cursor, Left, done + 1 + cctx.tmpInSize)
        /\ linked => Holds(mem, stream.dictionary, stream.dictSize, done + 1 - stream.dictSize)
                     /\ DictPlace
    BY <1>1 DEF FrameInv, ContentInv, DictInv
  <2>5. cctx \in LZ4F_cctx_t /\ stream \in Streams /\ (~linked => cctx.tmpIn = 0)
    BY <1>1 DEF TypeOK, FitInv
  <2> QED BY <1>5, <1>6, <1>8, <2>1, <2>2, <2>3, <2>4, <2>5 DEF DictPlace
<1> QED BY <1>9, <1>10

LEMMA FlagTimes ==
    ASSUME NEW x \in Nat, NEW flag \in {0, 1}
    PROVE  x * flag \in Nat /\ flag * x = x * flag /\ (flag = 1 => x * flag = x)
           /\ (flag = 0 => x * flag = 0)
<1>1. x * 0 = 0 /\ x * 1 = x /\ 0 * x = 0 /\ 1 * x = x
  OBVIOUS
<1>2. CASE flag = 0 BY <1>1, <1>2
<1>3. CASE flag = 1 BY <1>1, <1>3
<1> QED BY <1>2, <1>3

LEMMA BufferTheRestStep == Inv /\ BufferTheRest => Inv'
<1> SUFFICES ASSUME Inv, BufferTheRest PROVE Inv'
  OBVIOUS
<1> DEFINE n == srcEnd - srcPtr
           size == cctx.tmpInSize
           xxh == cctx.xxh + call.size * cctx.prefs.contentChecksumFlag
<1>1. /\ pc = "left" /\ live /\ Begun /\ TypeOK /\ CallInv /\ FrameInv /\ LeftInv /\ FitInv
      /\ cctx \in LZ4F_cctx_t
  BY DEF BufferTheRest, Inv, CallInv, Begun, FrameInv, TypeOK
<1>2. /\ mem' = Copied(mem, cctx.tmpIn, srcPtr, n)
      /\ cctx' = [cctx EXCEPT !.tmpInSize = IF n > 0 THEN n ELSE @,
                              !.xxh = @ + call.size * cctx.prefs.contentChecksumFlag,
                              !.totalInSize = @ + call.size]
      /\ pc' = IF call.whole THEN "flush" ELSE "idle"
      /\ ret' = "ok" /\ live' = live
      /\ UNCHANGED <<stream, call, srcPtr, lastBlockCompressed, arena, given, done>>
  BY <1>1 DEF BufferTheRest, Return, local
<1>3. /\ blockSize \in Nat /\ cctx.tmpIn \in Nat /\ size \in Nat
      /\ cctx.maxBufferSize \in Nat /\ cctx.maxBufferSize <= TmpEnd
      /\ Tmp = cctx.tmpIn + size /\ Tmp <= cctx.maxBufferSize
  BY <1>1, Sizes DEF Tmp, FitInv
<1>4. Cursor = srcPtr /\ Left = n /\ call.src <= srcPtr /\ srcPtr <= srcEnd
  BY <1>1, Facts DEF Cursor, Left, InUpdate, LeftInv
<1>5. /\ n \in Nat /\ n < blockSize /\ (autoFlush => n = 0) /\ (n > 0 => size = 0)
      /\ srcPtr + n = srcEnd
  <2>1. n < blockSize /\ (autoFlush => n = 0) /\ (size > 0 => srcPtr = srcEnd)
    BY <1>1, <1>4 DEF LeftInv
  <2> QED BY <1>3, <1>4, <2>1, Facts
<1> HIDE DEF n
<1>6. n > 0 => cctx.tmpIn + n <= cctx.maxBufferSize
  BY <1>1, <1>3, <1>5 DEF FitInv, RoomNeeded
<1>7. /\ cctx.xxh \in Nat /\ cctx.totalInSize \in Nat /\ xxh \in Nat
      /\ cctx.totalInSize + call.size \in Nat
      /\ cctx.prefs.contentChecksumFlag = 1 => xxh = cctx.xxh + call.size
  <2>1. cctx.xxh \in Nat /\ cctx.totalInSize \in Nat /\ cctx.prefs.contentChecksumFlag \in {0, 1}
    BY <1>1 DEF LZ4F_cctx_t, LZ4F_preferences_t
  <2>2. /\ call.size * cctx.prefs.contentChecksumFlag \in Nat
        /\ cctx.prefs.contentChecksumFlag = 1
             => call.size * cctx.prefs.contentChecksumFlag = call.size
    BY <2>1, Facts, FlagTimes
  <2> QED BY <2>1, <2>2, Facts
<1> HIDE DEF xxh
<1>8. /\ cctx' \in LZ4F_cctx_t /\ cctx'.tmpInSize = (IF n > 0 THEN n ELSE size)
      /\ cctx'.tmpIn = cctx.tmpIn
      /\ cctx'.prefs = cctx.prefs /\ cctx'.cStage = cctx.cStage
      /\ cctx'.maxBlockSize = cctx.maxBlockSize /\ cctx'.maxBufferSize = cctx.maxBufferSize
      /\ cctx'.xxh = xxh /\ cctx'.totalInSize = cctx.totalInSize + call.size
  <2>1. cctx' = [cctx EXCEPT !.tmpInSize = IF n > 0 THEN n ELSE @, !.xxh = xxh,
                             !.totalInSize = cctx.totalInSize + call.size]
    BY <1>2 DEF xxh
  <2> QED BY <1>1, <1>3, <1>5, <1>7, <2>1 DEF LZ4F_cctx_t
<1>9. srcEnd' = srcEnd /\ Left' = 0 /\ pc' \in {"flush", "idle"}
  BY <1>2 DEF srcEnd, Left, InUpdate
<1>10. DOMAIN mem = 0..SrcEnd /\ DOMAIN mem' = DOMAIN mem
  BY <1>1, <1>2, CopiedDomain DEF TypeOK
<1>11. TypeOK'
  BY <1>1, <1>2, <1>8, <1>9, <1>10 DEF TypeOK, Flushing
<1>12. CallInv' /\ BeginInv' /\ EndedInv'
  BY <1>1, <1>2 DEF CallInv, BeginInv, EndedInv, InUpdate, Flushing
<1>13. /\ blockSize' = blockSize /\ linked' = linked /\ autoFlush' = autoFlush
       /\ cctx'.tmpInSize = size + n /\ Tmp' = Tmp + n
  BY <1>3, <1>5, <1>8 DEF blockSize, linked, autoFlush, Tmp
<1>14. FitInv'
  <2>1. Tmp' <= cctx.maxBufferSize
    BY <1>3, <1>5, <1>6, <1>13
  <2>2. size + n < blockSize /\ (autoFlush => size + n = 0)
    BY <1>1, <1>3, <1>5 DEF FitInv
  <2>3. RoomNeeded' => cctx.tmpIn + blockSize <= cctx.maxBufferSize
    BY <1>1, <1>13 DEF FitInv, RoomNeeded
  <2> QED BY <1>1, <1>2, <1>8, <1>9, <1>13, <2>1, <2>2, <2>3 DEF FitInv
<1>15. LeftInv'
  BY <1>9 DEF LeftInv, InUpdate
<1>16. ContentInv'
  <2>1. /\ Holds(mem, cctx.tmpIn, size, done + 1) /\ Holds(mem, srcPtr, n, done + 1 + size)
        /\ given = done + size + n
    BY <1>1, <1>4 DEF FrameInv, ContentInv
  <2>2. Holds(mem', cctx.tmpIn, size + n, done + 1)
    <3>1. CASE n > 0
      <4>1. size = 0 /\ size + n = n /\ done + 1 + size = done + 1 /\ done + 1 \in Int
        BY <1>5, <3>1, Facts
      <4>2. cctx.tmpIn..(cctx.tmpIn + n - 1) \subseteq DOMAIN mem
        <5>1. cctx.tmpIn + n <= SrcEnd /\ SrcEnd \in Nat
          BY <1>3, <1>5, <1>6, <3>1, Facts
        <5> QED BY <1>3, <1>5, <1>10, <5>1, InDomain
      <4>3. Holds(mem, srcPtr, n, done + 1) /\ srcPtr \in Int /\ cctx.tmpIn \in Int /\ n \in Int
        BY <1>3, <1>5, <2>1, <4>1, Facts
      <4>4. Holds(mem', cctx.tmpIn, n, done + 1)
        BY <1>2, <4>1, <4>2, <4>3, HoldsCopied
      <4> QED BY <4>1, <4>4
    <3>2. CASE n = 0
      <4>1. size + n = size /\ done + 1 \in Int /\ cctx.tmpIn + n <= cctx.tmpIn /\ srcPtr \in Int
        BY <1>3, <3>2, Facts
      <4>2. cctx.tmpIn..(cctx.tmpIn + size - 1) \subseteq DOMAIN mem
        <5>1. cctx.tmpIn + size <= SrcEnd /\ SrcEnd \in Nat BY <1>3, Facts
        <5> QED BY <1>3, <1>10, <5>1, InDomain
      <4>a. size \in Int /\ cctx.tmpIn \in Int /\ n \in Int
        BY <1>3, <1>5
      <4>3. Holds(mem', cctx.tmpIn, size, done + 1)
        BY <1>2, <2>1, <4>1, <4>2, <4>a, HoldsElsewhere
      <4> QED BY <4>1, <4>3
    <3> QED BY <1>5, <3>1, <3>2
  <2>3. Holds(mem', Cursor', 0, done + 1 + (size + n))
    BY HoldsNone
  <2>4. given = done + (size + n) + 0
    BY <1>3, <1>5, <2>1, Facts
  <2> QED BY <1>2, <1>8, <1>9, <1>13, <2>2, <2>3, <2>4 DEF ContentInv
<1>17. DictInv'
  <2> SUFFICES ASSUME linked
               PROVE  Holds(mem', stream.dictionary, stream.dictSize, done + 1 - stream.dictSize)
                      /\ DictPlace'
    BY <1>2, <1>13 DEF DictInv
  <2>1. /\ Holds(mem, stream.dictionary, stream.dictSize, done + 1 - stream.dictSize)
        /\ DictPlace
    BY <1>1 DEF FrameInv, DictInv
  <2>2. DictEnd' = DictEnd /\ ~FromSource /\ ~FromSource'
    BY <1>1, <1>2, <1>9 DEF DictEnd, FromSource
  <2>3. \/ DictEnd = cctx.tmpIn
        \/ stream.dictionary >= SrcAt /\ cctx.tmpIn = 0 /\ DictEnd <= Staying
    BY <2>1, <2>2 DEF DictPlace
  <2>4. Staying' = Staying /\ Staying \in Nat /\ Staying <= SrcEnd
    BY <1>2, Facts DEF Staying
  <2>5. DictPlace'
    BY <1>8, <1>9, <2>2, <2>3, <2>4, <1>2 DEF DictPlace, InUpdate
  <2>6. stream.dictionary..(stream.dictionary + stream.dictSize - 1) \subseteq DOMAIN mem
    <3>1. stream.dictionary + stream.dictSize <= SrcEnd
      BY <1>3, <2>3, <2>4, Facts DEF DictEnd
    <3>2. stream.dictionary \in Nat /\ stream.dictSize \in Nat /\ SrcEnd \in Nat
      BY Facts
    <3> QED BY <1>10, <3>1, <3>2, InDomain
  <2>7. stream.dictionary + stream.dictSize <= cctx.tmpIn \/ cctx.tmpIn + n <= stream.dictionary
    <3>1. cctx.tmpIn = 0 => cctx.tmpIn + n <= SrcAt
      BY <1>3, <1>5, <1>6, Facts
    <3> QED BY <1>3, <1>5, <2>3, <3>1, Facts DEF DictEnd
  <2>8. /\ done + 1 - stream.dictSize \in Int /\ cctx.tmpIn \in Int /\ srcPtr \in Int /\ n \in Int
        /\ stream.dictionary \in Int /\ stream.dictSize \in Int
    BY <1>3, <1>5, Facts
  <2> QED BY <1>2, <2>1, <2>5, <2>6, <2>7, <2>8, HoldsElsewhere
<1>18. WholeInv'
  <2>1. Before = given - call.size /\ Before' = given
    BY <1>1, <1>2, <1>9, Facts DEF Before, InUpdate
  <2> QED BY <1>1, <1>7, <1>8, <2>1, Facts DEF FrameInv, WholeInv
<1> QED BY <1>11, <1>12, <1>14, <1>15, <1>16, <1>17, <1>18 DEF Inv, FrameInv

-----------------------------------------------------------------------------
(* The other steps.                                                           *)

LEMMA RefusedStep == Inv /\ (UpdateRefused \/ Abandon) => Inv'
<1> SUFFICES ASSUME Inv, UpdateRefused \/ Abandon PROVE Inv'
  OBVIOUS
<1>1. cctx \in LZ4F_cctx_t /\ stream \in Streams /\ EndedInv /\ live \in BOOLEAN /\ CallInv
  BY DEF Inv, TypeOK
<1>2. CASE UpdateRefused
  <2>1. /\ pc' = "idle" /\ live' = FALSE /\ ret' \in {"GENERIC", "dstMaxSize_tooSmall"}
        /\ UNCHANGED <<cctx, stream, mem, call, srcPtr, lastBlockCompressed, arena, given, done>>
    BY <1>1, <1>2 DEF UpdateRefused, Return, local
  <2> QED BY <1>1, <2>1, NotLive
<1>3. CASE Abandon
  <2>1. /\ pc = "idle" /\ live /\ pc' = "idle" /\ live' = FALSE /\ ret' = ret
        /\ UNCHANGED <<cctx, stream, mem, call, srcPtr, lastBlockCompressed, arena, given, done>>
    BY <1>3 DEF Abandon, local
  <2>2. ret \notin {"ended", "frameSize_wrong"}
    BY <1>1, <2>1 DEF EndedInv
  <2> QED BY <1>1, <2>1, <2>2, NotLive
<1> QED BY <1>2, <1>3

LEMMA FlushStep == Inv /\ LZ4F_flush => Inv'
<1> SUFFICES ASSUME Inv, LZ4F_flush PROVE Inv'
  OBVIOUS
<1>1. /\ pc = "flush" /\ live /\ Begun /\ TypeOK /\ CallInv /\ FrameInv /\ FitInv
      /\ UNCHANGED <<cctx, stream, mem, call, srcPtr, lastBlockCompressed, arena, given, done>>
  BY DEF LZ4F_flush, Inv, CallInv, Begun, FrameInv, local
<1>2. CASE live' = FALSE
  <2>1. pc' = "idle" /\ ret' \in {"GENERIC", "dstMaxSize_tooSmall"}
    BY <1>1, <1>2 DEF LZ4F_flush, Return
  <2>2. cctx \in LZ4F_cctx_t /\ stream \in Streams
    BY <1>1 DEF TypeOK
  <2> QED BY <1>1, <1>2, <2>1, <2>2, NotLive
<1>3. CASE live' # FALSE
  <2>1. /\ ret' = ret /\ live' = live
        /\ \/ cctx.tmpInSize = 0 /\ pc' = AfterFlush
           \/ cctx.tmpInSize # 0 /\ pc' = "block"
    BY <1>1, <1>3 DEF LZ4F_flush, Return
  <2>2. /\ pc' \in {"idle", "end", "block"} /\ (pc' = "block" => cctx.tmpInSize # 0)
        /\ pc' = "idle" => ~call.whole
        /\ pc' = "end" => call.op \in {"end", "frame"}
    BY <1>1, <2>1 DEF AfterFlush, CallInv, Flushing
  <2>3. /\ srcEnd' = srcEnd /\ Tmp' = Tmp /\ DictEnd' = DictEnd /\ linked' = linked
        /\ autoFlush' = autoFlush /\ blockSize' = blockSize /\ Staying' = Staying
        /\ Left = 0 /\ Left' = 0
    BY <1>1, <2>2
       DEF srcEnd, Tmp, DictEnd, linked, autoFlush, blockSize, Staying, Left, InUpdate
  <2>4. TypeOK'
    BY <1>1, <2>1, <2>2, <2>3 DEF TypeOK, Flushing
  <2>5. CallInv' /\ BeginInv' /\ EndedInv'
    BY <1>1, <2>1, <2>2 DEF CallInv, BeginInv, EndedInv, InUpdate, Flushing
  <2>6. FitInv'
    <3>1. autoFlush => cctx.tmpInSize = 0
      BY <1>1 DEF FitInv
    <3>2. RoomNeeded' => RoomNeeded
      BY <1>1, <2>3 DEF RoomNeeded
    <3> QED BY <1>1, <2>1, <2>2, <2>3, <3>1, <3>2 DEF FitInv
  <2>7. LeftInv'
    BY <1>1, <2>2 DEF LeftInv, InUpdate
  <2>8. ContentInv'
    <3>1. Holds(mem', Cursor', 0, done + 1 + cctx.tmpInSize)
      BY HoldsNone
    <3> QED BY <1>1, <2>3, <3>1 DEF FrameInv, ContentInv
  <2>9. DictInv'
    BY <1>1, <2>2, <2>3 DEF FrameInv, DictInv, DictPlace, FromSource
  <2>10. WholeInv'
    BY <1>1, <2>2 DEF FrameInv, WholeInv, Before, InUpdate
  <2> QED BY <2>4, <2>5, <2>6, <2>7, <2>8, <2>9, <2>10 DEF Inv, FrameInv
<1> QED BY <1>2, <1>3

LEMMA EndStep == Inv /\ LZ4F_compressEnd => Inv'
<1> SUFFICES ASSUME Inv, LZ4F_compressEnd PROVE Inv'
  OBVIOUS
<1>1. /\ pc = "end" /\ live /\ Begun /\ TypeOK /\ CallInv /\ FrameInv
      /\ UNCHANGED <<stream, mem, call, srcPtr, lastBlockCompressed, arena, given, done>>
  BY DEF LZ4F_compressEnd, Inv, CallInv, Begun, local
<1>2. cctx \in LZ4F_cctx_t /\ stream \in Streams
  BY <1>1 DEF TypeOK
<1> DEFINE size == cctx.prefs.contentSize
           Refused == dstCapacity < BHSize + cctx.prefs.contentChecksumFlag * BFSize
<1>3. CASE Refused
  <2>1. pc' = "idle" /\ live' = FALSE /\ ret' = "dstMaxSize_tooSmall" /\ cctx' = cctx
    BY <1>3 DEF LZ4F_compressEnd, Return
  <2> QED BY <1>1, <1>2, <2>1, NotLive
<1>4. CASE ~Refused
  <2>1. /\ cctx' = [cctx EXCEPT !.cStage = 0, !.maxBufferSize = 0]
        /\ ret' = (IF size # 0 /\ size # cctx.totalInSize THEN "frameSize_wrong" ELSE "ended")
        /\ pc' = "idle" /\ live' = FALSE
    BY <1>4 DEF LZ4F_compressEnd, Return
  <2>2. /\ cctx' \in LZ4F_cctx_t /\ cctx'.prefs = cctx.prefs
        /\ cctx'.tmpInSize = cctx.tmpInSize /\ cctx'.xxh = cctx.xxh
    <3>1. 0 \in 0..TmpEnd
      BY Addresses
    <3> QED BY <1>2, <2>1, <3>1 DEF LZ4F_cctx_t
  <2>3. cctx.tmpInSize = 0 /\ Left = 0 /\ Before = given
    BY <1>1, Facts DEF FrameInv, FitInv, Left, Before, InUpdate
  <2>4. given = done
    BY <1>1, <2>3, Facts DEF FrameInv, ContentInv
  <2>5. /\ cctx.prefs.contentChecksumFlag = 1 => cctx.xxh = given
        /\ size # 0 => cctx.totalInSize = given
    BY <1>1, <2>3 DEF FrameInv, WholeInv
  <2>6. (ret' = "ended") <=> (size \in {0, given})
    BY <2>1, <2>5
  <2>7. EndedInv'
    BY <1>1, <2>1, <2>2, <2>3, <2>4, <2>5, <2>6 DEF EndedInv
  <2>8. srcEnd' = srcEnd
    BY <1>1 DEF srcEnd
  <2>9. TypeOK'
    BY <1>1, <2>1, <2>2, <2>8 DEF TypeOK
  <2>10. CallInv'
    BY <1>1, <2>1 DEF CallInv, InUpdate, Flushing
  <2> QED BY <2>1, <2>7, <2>9, <2>10 DEF Inv, BeginInv, Begun
<1> QED BY <1>3, <1>4

-----------------------------------------------------------------------------
(* The caller.                                                                *)

LEMMA ProductIsInt ==
    ASSUME NEW x \in Int, NEW y \in Int
    PROVE  x * y \in Int
OBVIOUS

LEMMA DivisionIsInt ==
    ASSUME NEW x \in Int, NEW y \in Nat, y > 0
    PROVE  x \div y \in Int /\ x % y \in Int
OBVIOUS

LEMMA BoundIsInt ==
    ASSUME NEW p \in LZ4F_preferences_t, NEW n \in Nat, NEW buffered \in Nat
    PROVE  LZ4F_compressBound_internal(n, p, buffered) \in Int
<1> DEFINE size    == LZ4F_getBlockSize(p.blockSizeID)
           total   == n + Buffered(buffered, size)
           full    == total \div size
           flush   == p.autoFlush = 1 \/ n = 0
           lastOne == IF flush THEN total % size ELSE 0
           blocks  == full + (IF lastOne > 0 THEN 1 ELSE 0)
<1>1. size \in Nat /\ size > 0
  BY BufferSizes, BlockSizes, EncoderAssumption
<1> HIDE DEF size
<1>2. total \in Int
  BY <1>1 DEF Buffered, Lesser
<1> HIDE DEF total
<1>3. full \in Int /\ lastOne \in Int
  BY <1>1, <1>2, DivisionIsInt
<1> HIDE DEF full, lastOne
<1>4. blocks \in Int
  BY <1>3
<1> HIDE DEF blocks
<1>5. p.blockChecksumFlag \in Int /\ p.contentChecksumFlag \in Int
  BY DEF LZ4F_preferences_t
<1>6. BHSize \in Int /\ BFSize \in Int
  BY EncoderAssumption
<1>7. /\ BFSize * p.blockChecksumFlag \in Int /\ p.contentChecksumFlag * BFSize \in Int
      /\ size * full \in Int
  BY <1>1, <1>3, <1>5, <1>6, ProductIsInt
<1>8. BHSize + BFSize * p.blockChecksumFlag \in Int
  BY <1>6, <1>7
<1>9. (BHSize + BFSize * p.blockChecksumFlag) * blocks \in Int
  BY <1>4, <1>8, ProductIsInt
<1>10. LZ4F_compressBound_internal(n, p, buffered)
         = (BHSize + BFSize * p.blockChecksumFlag) * blocks
           + size * full + lastOne
           + BHSize + p.contentChecksumFlag * BFSize
  BY DEF LZ4F_compressBound_internal, blocks, lastOne, full, total, size
<1> QED BY <1>3, <1>6, <1>7, <1>9, <1>10

\* A context that was just created has preferences as any caller's.
LEMMA FirstContext ==
    /\ LZ4F_createCompressionContext \in LZ4F_cctx_t
    /\ NoCall.prefs \in LZ4F_preferences_t
<1>1. 0 \in 0..TmpEnd
  BY Addresses
<1> QED BY <1>1 DEF LZ4F_createCompressionContext, NoCall, LZ4F_cctx_t,
                   LZ4F_preferences_t, Modes

LEMMA UpdateStep == Inv /\ Update => Inv'
<1> SUFFICES ASSUME Inv, Update PROVE Inv'
  OBVIOUS
<1>1. TypeOK /\ CallInv /\ pc = "idle" /\ (live \/ cctx.cStage = 0)
  BY DEF Inv, Update
<1>2. cctx \in LZ4F_cctx_t /\ cctx.prefs \in LZ4F_preferences_t /\ cctx.tmpInSize \in Nat
      /\ cctx.tmpIn \in Nat
  BY <1>1 DEF TypeOK, LZ4F_cctx_t
<1>3. PICK n \in Inputs, stable \in BOOLEAN :
        /\ given + n <= MaxContent
        /\ Place(n, stable)
        /\ \E cap \in
              LET bound == LZ4F_compressBound_internal(n, cctx.prefs, cctx.tmpInSize)
              IN  {bound - 1, bound} :
              call' = [NoCall EXCEPT !.op = "update", !.src = arena,
                                     !.size = n, !.stableSrc = stable, !.cap = cap]
  BY DEF Update
<1>4. n \in 0..MaxContent /\ n \in Nat
  BY EncoderAssumption
<1>5. PICK cap \in Int : call' = [NoCall EXCEPT !.op = "update", !.src = arena,
                                    !.size = n, !.stableSrc = stable, !.cap = cap]
  <2> DEFINE bound == LZ4F_compressBound_internal(n, cctx.prefs, cctx.tmpInSize)
  <2>1. bound \in Int
    BY <1>2, <1>4, BoundIsInt
  <2>2. PICK cap \in {bound - 1, bound} :
          call' = [NoCall EXCEPT !.op = "update", !.src = arena,
                                 !.size = n, !.stableSrc = stable, !.cap = cap]
    BY <1>3
  <2> HIDE DEF bound
  <2>3. cap \in Int
    BY <2>1
  <2> QED BY <2>2, <2>3
<1>6. /\ call'.op = "update" /\ call'.whole = FALSE /\ call'.src = arena /\ call'.size = n
      /\ call'.stableSrc = stable /\ call'.cap = cap /\ call'.prefs = NoCall.prefs
      /\ call' = [op |-> "update", whole |-> FALSE, src |-> arena, size |-> n, cap |-> cap,
                  stableSrc |-> stable, prefs |-> NoCall.prefs]
  BY <1>5 DEF NoCall
<1>7. /\ arena' = (IF stable THEN arena + n ELSE arena) /\ given' = given + n
      /\ mem' = [a \in DOMAIN mem |->
                   IF a \in arena..(arena + n - 1) THEN given + 1 + a - arena
                   ELSE IF a >= arena THEN Junk ELSE mem[a]]
  BY <1>3 DEF Place
<1>8. /\ pc' = "update" /\ srcPtr' = SrcAt /\ lastBlockCompressed' = "notDone" /\ ret' = "ok"
      /\ UNCHANGED <<cctx, stream, live, done>>
  BY DEF Update, NewCall
<1>9. /\ arena \in Nat /\ SrcAt <= arena /\ SrcAt \in Nat /\ arena + n <= SrcEnd
      /\ SrcEnd \in Nat /\ given \in Nat /\ done \in Nat
      /\ arena' \in Nat /\ arena <= arena' /\ arena' <= SrcAt + given' /\ given' <= MaxContent
      /\ TmpEnd < SrcAt /\ TmpEnd \in Nat /\ MaxContent \in Nat
  BY <1>3, <1>4, <1>7, Facts
<1>10. TypeOK'
  <2>1. call' \in Calls
    <3>1. arena \in SrcAt..SrcEnd
      BY <1>4, <1>9
    <3> QED BY <1>4, <1>6, <3>1, FirstContext DEF Calls
  <2>2. srcEnd' <= SrcEnd /\ srcPtr' \in SrcAt..SrcEnd
    BY <1>4, <1>6, <1>8, <1>9 DEF srcEnd
  <2>3. given' \in 0..MaxContent /\ arena' \in SrcAt..(SrcAt + given')
    BY <1>4, <1>7, <1>9
  <2>4. DOMAIN mem' = DOMAIN mem
    BY <1>7
  <2> QED BY <1>1, <1>8, <2>1, <2>2, <2>3, <2>4 DEF TypeOK, InUpdate
<1>11. CallInv' /\ BeginInv' /\ EndedInv'
  BY <1>1, <1>6, <1>8 DEF CallInv, BeginInv, EndedInv, InUpdate, Flushing
<1>12. ASSUME Begun' PROVE FrameInv'
  <2>1. Begun /\ live /\ ~call.whole
    BY <1>1, <1>8, <1>12 DEF Begun, CallInv
  <2>2. FrameInv /\ FitInv
    BY <2>1 DEF Inv, FrameInv
  <2>3. /\ srcEnd' = arena + n /\ Cursor' = arena /\ Left' = n /\ Left = 0
        /\ Tmp' = Tmp /\ DictEnd' = DictEnd /\ linked' = linked /\ blockSize' = blockSize
        /\ autoFlush' = autoFlush /\ Staying' = arena' /\ Staying = arena
        /\ Before = given /\ Before' = given
    BY <1>1, <1>4, <1>6, <1>7, <1>8, <1>9, <2>1
       DEF srcEnd, Cursor, Left, Tmp, DictEnd, linked, blockSize, autoFlush, Staying, Before,
           InUpdate
  <2>4. DOMAIN mem = 0..SrcEnd
    BY <1>1 DEF TypeOK
  <2>5. \A a \in 0..(arena - 1) : mem'[a] = mem[a]
    <3> SUFFICES ASSUME NEW a \in 0..(arena - 1) PROVE mem'[a] = mem[a]
      OBVIOUS
    <3>1. a \in 0..SrcEnd /\ a \notin arena..(arena + n - 1) /\ ~(a >= arena)
      BY <1>4, <1>9
    <3> QED BY <1>7, <2>4, <3>1
  <2>6. Tmp <= TmpEnd /\ Tmp = cctx.tmpIn + cctx.tmpInSize
    BY <2>1, <2>2, Sizes DEF FitInv, Tmp
  <2>7. FitInv'
    <3>1. RoomNeeded' => RoomNeeded
      BY <1>1, <1>8, <2>3 DEF RoomNeeded
    <3> QED BY <1>1, <1>6, <1>8, <2>2, <2>3, <3>1 DEF FitInv
  <2>8. LeftInv'
    BY <1>4, <1>6, <1>7, <1>8, <1>9, <2>3 DEF LeftInv, InUpdate
  <2>9. ContentInv'
    <3>1. Holds(mem, cctx.tmpIn, cctx.tmpInSize, done + 1)
          /\ given = done + cctx.tmpInSize + 0
      BY <2>2, <2>3 DEF FrameInv, ContentInv
    <3>2. Holds(mem', cctx.tmpIn, cctx.tmpInSize, done + 1)
      <4>1. cctx.tmpIn \in Int /\ cctx.tmpInSize \in Int /\ done + 1 \in Int
        BY <1>2, <1>9
      <4>2. cctx.tmpIn..(cctx.tmpIn + cctx.tmpInSize - 1) \subseteq 0..(arena - 1)
        BY <1>2, <1>9, <2>6
      <4>3. \A a \in cctx.tmpIn..(cctx.tmpIn + cctx.tmpInSize - 1) : mem'[a] = mem[a]
        BY <2>5, <4>2
      <4> QED BY <3>1, <4>1, <4>3, HoldsSame
    <3>3. Holds(mem', arena, n, done + 1 + cctx.tmpInSize)
      <4> SUFFICES ASSUME NEW i \in 0..(n - 1)
                   PROVE  mem'[arena + i] = done + 1 + cctx.tmpInSize + i
        BY DEF Holds
      <4>1. /\ arena + i \in 0..SrcEnd /\ arena + i \in arena..(arena + n - 1)
            /\ given + 1 + (arena + i) - arena = done + 1 + cctx.tmpInSize + i
        BY <1>2, <1>4, <1>9, <3>1
      <4>2. mem'[arena + i] = given + 1 + (arena + i) - arena
        BY <1>7, <2>4, <4>1
      <4> QED BY <4>1, <4>2
    <3>4. given' = done + cctx.tmpInSize + n
      BY <1>2, <1>4, <1>7, <1>9, <3>1
    <3> QED BY <1>8, <2>3, <3>2, <3>3, <3>4 DEF ContentInv
  <2>10. DictInv'
    <3> SUFFICES ASSUME linked
                 PROVE  Holds(mem', stream.dictionary, stream.dictSize,
                              done + 1 - stream.dictSize) /\ DictPlace'
      BY <1>8, <2>3 DEF DictInv
    <3>1. /\ Holds(mem, stream.dictionary, stream.dictSize, done + 1 - stream.dictSize)
          /\ DictPlace
      BY <2>2 DEF FrameInv, DictInv
    <3>2. \/ DictEnd = cctx.tmpIn
          \/ stream.dictionary >= SrcAt /\ cctx.tmpIn = 0 /\ DictEnd <= arena
      BY <1>1, <2>3, <3>1 DEF DictPlace, FromSource
    <3>3. stream.dictionary \in Nat /\ stream.dictSize \in Nat
      BY Facts
    <3>4. DictEnd = stream.dictionary + stream.dictSize
      BY DEF DictEnd
    <3>5. DictEnd <= arena
      BY <1>2, <1>9, <2>6, <3>2
    <3>6. stream.dictionary..(stream.dictionary + stream.dictSize - 1) \subseteq 0..(arena - 1)
      BY <1>9, <3>3, <3>4, <3>5
    <3>7. Holds(mem', stream.dictionary, stream.dictSize, done + 1 - stream.dictSize)
      <4>1. \A a \in stream.dictionary..(stream.dictionary + stream.dictSize - 1) :
               mem'[a] = mem[a]
        BY <2>5, <3>6
      <4>2. stream.dictionary \in Int /\ stream.dictSize \in Int
            /\ done + 1 - stream.dictSize \in Int
        BY <1>9, <3>3
      <4> QED BY <3>1, <4>1, <4>2, HoldsSame
    <3>8. DictPlace'
      <4>1. ~FromSource'
        BY <1>8 DEF FromSource
      <4>2. DictEnd <= arena'
        BY <1>9, <3>3, <3>4, <3>5
      <4> QED BY <1>6, <1>8, <2>3, <3>2, <3>5, <4>1, <4>2 DEF DictPlace
    <3> QED BY <3>7, <3>8
  <2>11. WholeInv'
    BY <1>8, <2>2, <2>3 DEF FrameInv, WholeInv
  <2> QED BY <2>7, <2>8, <2>9, <2>10, <2>11 DEF FrameInv
<1> QED BY <1>10, <1>11, <1>12 DEF Inv

LEMMA BeginStep == Inv /\ Begin => Inv'
<1> SUFFICES ASSUME Inv, Begin PROVE Inv'
  OBVIOUS
<1>1. TypeOK
  BY DEF Inv
<1>2. PICK p \in Preferences, cap \in {maxFHSize - 1, maxFHSize} :
        call' = [NoCall EXCEPT !.op = "begin", !.prefs = p, !.cap = cap]
  BY DEF Begin
<1>3. /\ call' = [op |-> "begin", whole |-> FALSE, src |-> SrcAt, size |-> 0, cap |-> cap,
                  stableSrc |-> FALSE, prefs |-> p]
      /\ call'.op = "begin" /\ call'.whole = FALSE /\ call'.src = SrcAt /\ call'.size = 0
  BY <1>2 DEF NoCall
<1>4. /\ pc' = "begin" /\ mem' = [a \in DOMAIN mem |-> Junk] /\ arena' = SrcAt /\ given' = 0
      /\ live' = TRUE /\ done' = 0 /\ srcPtr' = SrcAt /\ lastBlockCompressed' = "notDone"
      /\ ret' = "ok" /\ UNCHANGED <<cctx, stream>>
  BY DEF Begin, NewCall
<1>5. SrcAt \in Nat /\ SrcEnd \in Nat /\ SrcAt <= SrcEnd /\ MaxContent \in Nat
  BY Addresses
<1>6. call' \in Calls
  <2>1. p \in LZ4F_preferences_t /\ cap \in Int
    BY EncoderAssumption
  <2>2. SrcAt \in SrcAt..SrcEnd /\ 0 \in 0..MaxContent
    BY <1>5
  <2> QED BY <1>3, <2>1, <2>2 DEF Calls
<1>7. TypeOK'
  <2>1. srcEnd' <= SrcEnd /\ srcPtr' \in SrcAt..SrcEnd
    BY <1>3, <1>4, <1>5 DEF srcEnd
  <2>2. given' \in 0..MaxContent /\ arena' \in SrcAt..(SrcAt + given')
    BY <1>4, <1>5
  <2>3. DOMAIN mem' = DOMAIN mem
    BY <1>4
  <2> QED BY <1>1, <1>4, <1>6, <2>1, <2>2, <2>3 DEF TypeOK
<1>8. CallInv' /\ EndedInv'
  BY <1>3, <1>4 DEF CallInv, EndedInv, InUpdate, Flushing
<1>9. BeginInv'
  BY <1>3, <1>4, HoldsNone DEF BeginInv
<1> QED BY <1>4, <1>7, <1>8, <1>9 DEF Inv, Begun

LEMMA FlushOrEndStep == Inv /\ FlushOrEnd => Inv'
<1> SUFFICES ASSUME Inv, FlushOrEnd PROVE Inv'
  OBVIOUS
<1>1. TypeOK /\ CallInv /\ pc = "idle" /\ live /\ Begun /\ FrameInv /\ FitInv
  BY DEF Inv, FlushOrEnd, Begun, FrameInv
<1>2. cctx.prefs \in LZ4F_preferences_t /\ cctx.tmpInSize \in Nat
  BY <1>1 DEF TypeOK, LZ4F_cctx_t
<1>3. PICK op \in {"flush", "end"} :
      \E cap \in {cctx.tmpInSize + BHSize + BFSize - 1, LZ4F_compressBound(0, cctx.prefs)} :
          call' = [NoCall EXCEPT !.op = op, !.cap = cap]
  BY DEF FlushOrEnd
<1>4. PICK cap \in {cctx.tmpInSize + BHSize + BFSize - 1, LZ4F_compressBound(0, cctx.prefs)} :
          call' = [NoCall EXCEPT !.op = op, !.cap = cap]
  BY <1>3
<1>5. cap \in Int
  <2>1. cctx.tmpInSize + BHSize + BFSize - 1 \in Int
    BY <1>2, EncoderAssumption
  <2>2. LZ4F_getBlockSize(cctx.prefs.blockSizeID) \in Nat
    BY <1>2, BufferSizes, BlockSizes, EncoderAssumption
  <2>3. LZ4F_compressBound(0, cctx.prefs) \in Int
    BY <1>2, <2>2, BoundIsInt DEF LZ4F_compressBound
  <2> QED BY <2>1, <2>3
<1>6. /\ call' = [op |-> op, whole |-> FALSE, src |-> SrcAt, size |-> 0, cap |-> cap,
                  stableSrc |-> FALSE, prefs |-> NoCall.prefs]
      /\ call'.op = op /\ call'.whole = FALSE /\ call'.src = SrcAt /\ call'.size = 0
  BY <1>4 DEF NoCall
<1>7. /\ pc' = "flush" /\ srcPtr' = SrcAt /\ lastBlockCompressed' = "notDone" /\ ret' = "ok"
      /\ UNCHANGED <<cctx, stream, mem, live, arena, given, done>>
  BY DEF FlushOrEnd, NewCall, caller
<1>8. SrcAt \in Nat /\ SrcEnd \in Nat /\ SrcAt <= SrcEnd /\ MaxContent \in Nat
  BY Addresses
<1>9. TypeOK'
  <2>1. call' \in Calls
    <3>1. SrcAt \in SrcAt..SrcEnd /\ 0 \in 0..MaxContent
      BY <1>8
    <3> QED BY <1>5, <1>6, <3>1, FirstContext DEF Calls
  <2>2. srcEnd' <= SrcEnd /\ srcPtr' \in SrcAt..SrcEnd
    BY <1>6, <1>7, <1>8 DEF srcEnd
  <2> QED BY <1>1, <1>7, <2>1, <2>2 DEF TypeOK, Flushing
<1>10. CallInv' /\ BeginInv' /\ EndedInv'
  BY <1>1, <1>6, <1>7 DEF CallInv, BeginInv, EndedInv, InUpdate, Flushing
<1>11. /\ Tmp' = Tmp /\ DictEnd' = DictEnd /\ linked' = linked /\ autoFlush' = autoFlush
       /\ blockSize' = blockSize /\ Left = 0 /\ Left' = 0 /\ ~call.whole
       /\ Staying' = Staying /\ Before' = Before
  BY <1>1, <1>6, <1>7 DEF Tmp, DictEnd, linked, autoFlush, blockSize, Left, CallInv, Staying,
                          Before, InUpdate
<1>12. FitInv'
  <2>1. RoomNeeded' => RoomNeeded
    BY <1>1, <1>7, <1>11 DEF RoomNeeded
  <2> QED BY <1>1, <1>6, <1>7, <1>11, <2>1 DEF FitInv
<1>13. LeftInv'
  BY <1>7 DEF LeftInv, InUpdate
<1>14. ContentInv'
  <2>1. Holds(mem', Cursor', 0, done + 1 + cctx.tmpInSize)
    BY HoldsNone
  <2> QED BY <1>1, <1>7, <1>11, <2>1 DEF FrameInv, ContentInv
<1>15. DictInv'
  BY <1>1, <1>7, <1>11 DEF FrameInv, DictInv, DictPlace, FromSource
<1>16. WholeInv'
  BY <1>1, <1>7, <1>11 DEF FrameInv, WholeInv
<1> QED BY <1>9, <1>10, <1>12, <1>13, <1>14, <1>15, <1>16 DEF Inv, FrameInv

\* LZ4F_optimalBSID returns one of the sizes there are, so that the preferences
\* of a whole frame are preferences.
LEMMA FramePreferences ==
    ASSUME NEW p \in LZ4F_preferences_t, NEW n \in Nat
    PROVE  PrefsForFrame(p, n) \in LZ4F_preferences_t /\ PrefsForFrame(p, n).autoFlush = 1
<1> DEFINE id == LZ4F_optimalBSID(p.blockSizeID, n)
           fits == {k \in BSIDs : k <= p.blockSizeID /\ n <= blockSizes[k]}
<1>1. id \in BSIDs \cup {0}
  <2>1. CASE fits = {}
    BY <2>1 DEF LZ4F_optimalBSID, LZ4F_preferences_t
  <2>2. CASE fits # {}
    <3>1. fits \subseteq Nat /\ fits \subseteq BSIDs
      BY EncoderAssumption
    <3>2. id = Min(fits)
      BY <2>2 DEF LZ4F_optimalBSID
    <3> HIDE DEF fits
    <3>3. \E m \in fits : \A k \in fits : m <= k
      BY <2>2, <3>1, LeastNatural
    <3>4. Min(fits) \in fits
      BY <3>3 DEF Min
    <3> QED BY <3>1, <3>2, <3>4
  <2> QED BY <2>1, <2>2
<1> HIDE DEF id
<1>2. PrefsForFrame(p, n) =
        [p EXCEPT !.contentSize = IF @ # 0 THEN n ELSE 0, !.blockSizeID = id, !.autoFlush = 1,
                  !.blockMode = IF n <= LZ4F_getBlockSize(id) THEN "blockIndependent" ELSE @]
  BY DEF PrefsForFrame, id
<1> QED BY <1>1, <1>2 DEF LZ4F_preferences_t, Modes

LEMMA FrameStep == Inv /\ LZ4F_compressFrame => Inv'
<1> SUFFICES ASSUME Inv, LZ4F_compressFrame PROVE Inv'
  OBVIOUS
<1>1. TypeOK
  BY DEF Inv
<1>2. PICK prefs \in Preferences, n \in Inputs :
          LET p     == PrefsForFrame(prefs, n)
              bound == LZ4F_compressFrameBound(n, p)
          IN  \E cap \in {bound - 1, bound} :
                 /\ call' = [op |-> "frame", whole |-> TRUE, src |-> SrcAt, size |-> n,
                               cap |-> cap, stableSrc |-> TRUE, prefs |-> p]
                 /\ pc' = IF cap < bound THEN "idle" ELSE "begin"
                 /\ mem' = [a \in DOMAIN mem |->
                               IF a \in SrcAt..(SrcAt + n - 1) THEN 1 + a - SrcAt ELSE Junk]
                 /\ arena' = SrcAt /\ given' = n
                 /\ live' = (cap >= bound)
                 /\ ret' = IF cap < bound THEN "dstMaxSize_tooSmall" ELSE "ok"
  BY DEF LZ4F_compressFrame
<1> DEFINE p     == PrefsForFrame(prefs, n)
           bound == LZ4F_compressFrameBound(n, p)
<1>3. prefs \in LZ4F_preferences_t /\ n \in 0..MaxContent /\ n \in Nat
  BY EncoderAssumption
<1>4. p \in LZ4F_preferences_t /\ p.autoFlush = 1
  BY <1>3, FramePreferences
<1>5. PICK cap \in {bound - 1, bound} :
         /\ call' = [op |-> "frame", whole |-> TRUE, src |-> SrcAt, size |-> n,
                       cap |-> cap, stableSrc |-> TRUE, prefs |-> p]
         /\ pc' = IF cap < bound THEN "idle" ELSE "begin"
         /\ mem' = [a \in DOMAIN mem |->
                       IF a \in SrcAt..(SrcAt + n - 1) THEN 1 + a - SrcAt ELSE Junk]
         /\ arena' = SrcAt /\ given' = n
         /\ live' = (cap >= bound)
         /\ ret' = IF cap < bound THEN "dstMaxSize_tooSmall" ELSE "ok"
  BY <1>2
<1> HIDE DEF p
<1>6. bound \in Int
  <2>1. [p EXCEPT !.autoFlush = 1] \in LZ4F_preferences_t
    BY <1>4 DEF LZ4F_preferences_t
  <2>2. LZ4F_compressBound_internal(n, [p EXCEPT !.autoFlush = 1], 0) \in Int
    BY <1>3, <2>1, BoundIsInt
  <2> QED BY <2>2, EncoderAssumption DEF LZ4F_compressFrameBound
<1> HIDE DEF bound
<1>7. /\ cap \in Int
      /\ \/ pc' = "idle" /\ live' = FALSE /\ ret' = "dstMaxSize_tooSmall"
         \/ pc' = "begin" /\ live' = TRUE /\ ret' = "ok"
  <2>1. cap \in Int
    BY <1>6
  <2>2. CASE cap < bound
    <3>1. (cap >= bound) = FALSE
      BY <1>6, <2>1, <2>2
    <3>2. live' = FALSE
      BY <1>5, <3>1, Zenon
    <3> QED BY <1>5, <2>1, <2>2, <3>2, Zenon
  <2>3. CASE ~(cap < bound)
    <3>1. (cap >= bound) = TRUE
      BY <1>6, <2>1, <2>3
    <3>2. live' = TRUE
      BY <1>5, <3>1, Zenon
    <3> QED BY <1>5, <2>1, <2>3, <3>2, Zenon
  <2> QED BY <2>2, <2>3
<1>8. /\ call'.op = "frame" /\ call'.whole = TRUE /\ call'.src = SrcAt /\ call'.size = n
      /\ call'.stableSrc = TRUE /\ call'.prefs = p
  BY <1>5
<1>9. /\ srcPtr' = SrcAt /\ lastBlockCompressed' = "notDone" /\ done' = 0
      /\ UNCHANGED <<cctx, stream>>
  BY DEF LZ4F_compressFrame
<1>10. SrcAt \in Nat /\ SrcEnd \in Nat /\ SrcEnd = SrcAt + MaxContent /\ MaxContent \in Nat
  BY Addresses
<1>11. TypeOK'
  <2>1. call' \in Calls
    <3>1. SrcAt \in SrcAt..SrcEnd
      BY <1>10
    <3> QED BY <1>3, <1>4, <1>5, <1>7, <3>1 DEF Calls
  <2>2. srcEnd' <= SrcEnd /\ srcPtr' \in SrcAt..SrcEnd
    BY <1>3, <1>8, <1>9, <1>10 DEF srcEnd
  <2>3. given' \in 0..MaxContent /\ arena' \in SrcAt..(SrcAt + given')
    BY <1>3, <1>5, <1>10
  <2>4. DOMAIN mem' = DOMAIN mem
    BY <1>5
  <2> QED BY <1>1, <1>7, <1>9, <2>1, <2>2, <2>3, <2>4 DEF TypeOK
<1>12. CallInv' /\ EndedInv'
  BY <1>4, <1>7, <1>8, <1>9 DEF CallInv, EndedInv, InUpdate, Flushing
<1>13. BeginInv'
  <2>1. Holds(mem', SrcAt, n, 1)
    <3> SUFFICES ASSUME NEW i \in 0..(n - 1) PROVE mem'[SrcAt + i] = 1 + i
      BY DEF Holds
    <3>1. /\ SrcAt + i \in 0..SrcEnd /\ SrcAt + i \in SrcAt..(SrcAt + n - 1)
          /\ 1 + (SrcAt + i) - SrcAt = 1 + i
      BY <1>3, <1>10
    <3>2. SrcAt + i \in DOMAIN mem
      BY <1>1, <3>1 DEF TypeOK
    <3>3. mem'[SrcAt + i] = 1 + (SrcAt + i) - SrcAt
      BY <1>5, <3>1, <3>2
    <3> QED BY <3>1, <3>3
  <2> QED BY <1>5, <1>8, <2>1 DEF BeginInv
<1> QED BY <1>7, <1>11, <1>12, <1>13 DEF Inv, Begun

LEMMA CompressBeginStep == Inv /\ LZ4F_compressBegin => Inv'
<1> SUFFICES ASSUME Inv, LZ4F_compressBegin PROVE Inv'
  OBVIOUS
<1> DEFINE p    == call.prefs
           need == requiredBuffSize(p)
           p1   == [p EXCEPT !.blockSizeID = IF @ = 0 THEN DEFAULT ELSE @]
           size == LZ4F_getBlockSize(p.blockSizeID)
           c1   == [cctx EXCEPT !.prefs = p1, !.lz4Ctx = TRUE, !.maxBlockSize = size]
           max  == IF cctx.maxBufferSize < need THEN need ELSE cctx.maxBufferSize
           c2   == [c1 EXCEPT
                      !.maxBufferSize = IF @ < need THEN need ELSE @,
                      !.tmpIn = 0, !.tmpInSize = 0, !.xxh = 0,
                      !.totalInSize = IF TotalReset(p) THEN 0 ELSE @,
                      !.cStage = 1]
<1>1. /\ pc = "begin" /\ live /\ TypeOK /\ CallInv /\ BeginInv /\ done = 0
      /\ call.op \in {"begin", "frame"}
      /\ UNCHANGED <<call, srcPtr, lastBlockCompressed, arena, given, done>>
  BY DEF LZ4F_compressBegin, Inv, CallInv, local
<1>2. cctx \in LZ4F_cctx_t /\ stream \in Streams /\ call \in Calls /\ p \in LZ4F_preferences_t
  BY <1>1 DEF TypeOK, Calls
<1>3. p1 \in LZ4F_preferences_t /\ p1.blockSizeID \in BSIDs
  BY <1>2, EncoderAssumption DEF LZ4F_preferences_t
<1>4. /\ size \in Nat /\ size > 0 /\ size = blockSizes[p1.blockSizeID]
      /\ LZ4F_getBlockSize(p1.blockSizeID) = size
  <2>1. size \in Nat /\ size > 0
    BY <1>2, BufferSizes, BlockSizes, EncoderAssumption
  <2>2. p1.blockSizeID = IF p.blockSizeID = 0 THEN DEFAULT ELSE p.blockSizeID
    BY <1>2 DEF LZ4F_preferences_t
  <2>3. p1.blockSizeID # 0
    BY <1>3, EncoderAssumption
  <2> QED BY <2>1, <2>2, <2>3 DEF LZ4F_getBlockSize
<1>5. need \in 0..TmpEnd /\ need \in Nat /\ requiredBuffSize(p1) = need /\ 0 \in 0..TmpEnd
  <2>1. p1.blockMode = p.blockMode /\ p1.autoFlush = p.autoFlush
    BY <1>2 DEF LZ4F_preferences_t
  <2>2. requiredBuffSize(p1) = need
    BY <1>4, <2>1 DEF requiredBuffSize
  <2> QED BY <1>2, <2>2, BufferSizes, Addresses
<1>c. /\ c1 \in LZ4F_cctx_t /\ [c1 EXCEPT !.maxBufferSize = 0] \in LZ4F_cctx_t
      /\ [cctx EXCEPT !.prefs = p] \in LZ4F_cctx_t
  <2> HIDE DEF p1, size
  <2>1. c1 \in LZ4F_cctx_t
    BY <1>2, <1>3, <1>4 DEF LZ4F_cctx_t
  <2>2. [cctx EXCEPT !.prefs = p] \in LZ4F_cctx_t
    BY <1>2 DEF LZ4F_cctx_t
  <2> HIDE DEF c1
  <2> QED BY <1>5, <2>1, <2>2 DEF LZ4F_cctx_t
<1>f. CASE \/ /\ Return("dstMaxSize_tooSmall", "idle") /\ UNCHANGED <<cctx, stream, mem>>
           \/ /\ cctx' \in LZ4F_cctx_t
              /\ Return("allocation_failed", "idle") /\ UNCHANGED <<stream, mem>>
  <2>1. /\ pc' = "idle" /\ live' = FALSE /\ ret' \in {"dstMaxSize_tooSmall", "allocation_failed"}
        /\ cctx' \in LZ4F_cctx_t /\ UNCHANGED <<stream, mem>>
    BY <1>2, <1>f DEF Return
  <2> QED BY <1>1, <1>2, <2>1, NotLive
<1>s. CASE /\ cctx' = c2
           /\ stream' = IF p.blockMode = "blockLinked" THEN NoDictionary ELSE stream
           /\ mem' = IF cctx.maxBufferSize < need
                     THEN [a \in DOMAIN mem |-> IF a < TmpEnd THEN Junk ELSE mem[a]]
                     ELSE mem
           /\ Return("ok", "update")
  <2>1. /\ cctx' \in LZ4F_cctx_t /\ cctx'.prefs = p1 /\ cctx'.maxBlockSize = size
        /\ cctx'.maxBufferSize >= need /\ cctx'.tmpIn = 0 /\ cctx'.tmpInSize = 0
        /\ cctx'.xxh = 0 /\ (p.contentSize # 0 => cctx'.totalInSize = 0) /\ cctx'.cStage = 1
    <3>1. cctx.maxBufferSize \in 0..TmpEnd /\ cctx.totalInSize \in Nat /\ TmpEnd \in Nat
      BY <1>2, Addresses DEF LZ4F_cctx_t
    <3>2. c1.prefs = p1 /\ c1.maxBlockSize = size /\ c1.maxBufferSize = cctx.maxBufferSize
          /\ c1.totalInSize = cctx.totalInSize
      BY <1>2 DEF LZ4F_cctx_t
    <3> HIDE DEF c1, p1, size, need
    <3> DEFINE total == IF TotalReset(p) THEN 0 ELSE cctx.totalInSize
    <3>3. max \in 0..TmpEnd /\ max >= need /\ total \in Nat
          /\ (p.contentSize # 0 => total = 0)
      BY <1>5, <3>1 DEF TotalReset
    <3>4. c2 = [c1 EXCEPT !.maxBufferSize = max, !.tmpIn = 0, !.tmpInSize = 0, !.xxh = 0,
                          !.totalInSize = total, !.cStage = 1]
      BY <1>c, <3>2 DEF LZ4F_cctx_t
    <3> HIDE DEF c2, max, total
    <3> QED BY <1>c, <1>s, <3>2, <3>3, <3>4 DEF LZ4F_cctx_t
  <2>2. ret' = "ok" /\ live' = live /\ pc' = IF call.whole THEN "update" ELSE "idle"
    BY <1>1, <1>s DEF Return, TypeOK
  <2>3. stream' \in Streams /\ (p.blockMode = "blockLinked" => stream' = NoDictionary)
    BY <1>2, <1>s DEF NoDictionary, Streams
  <2>4. DOMAIN mem' = DOMAIN mem /\ \A a \in SrcAt..SrcEnd : mem'[a] = mem[a]
    <3>1. DOMAIN mem' = DOMAIN mem
      BY <1>s
    <3>2. ASSUME NEW a \in SrcAt..SrcEnd PROVE mem'[a] = mem[a]
      <4>1. ~(a < TmpEnd) /\ a \in 0..SrcEnd
        BY Addresses
      <4> QED BY <1>1, <1>s, <4>1 DEF TypeOK
    <3> QED BY <3>1, <3>2
  <2>5. srcEnd' = srcEnd
    BY <1>1 DEF srcEnd
  <2> HIDE DEF p1, size, need
  <2>6. TypeOK'
    BY <1>1, <2>1, <2>2, <2>3, <2>4, <2>5 DEF TypeOK, InUpdate
  <2>7. CallInv' /\ BeginInv' /\ EndedInv'
    BY <1>1, <2>1, <2>2 DEF CallInv, BeginInv, EndedInv, InUpdate, Flushing
  <2>8. p1.blockMode = p.blockMode /\ p1.autoFlush = p.autoFlush
        /\ p1.contentSize = p.contentSize
    BY <1>2 DEF LZ4F_preferences_t, p1
  <2>9. /\ linked' = (p.blockMode = "blockLinked") /\ autoFlush' = (p.autoFlush = 1)
        /\ blockSize' = size /\ Tmp' = 0
    BY <2>1, <2>8 DEF linked, autoFlush, blockSize, Tmp
  <2>10. /\ call.src = SrcAt /\ given = call.size /\ Holds(mem, SrcAt, call.size, 1)
         /\ ~call.whole => call.size = 0
    BY <1>1 DEF BeginInv, CallInv
  <2>11. FitInv'
    <3>1. ~(p.autoFlush = 1) => need >= size
      BY <1>2, <1>4, Addresses DEF requiredBuffSize, need, size
    <3>2. cctx'.maxBufferSize \in Nat
      BY <2>1, Addresses DEF LZ4F_cctx_t
    <3>3. RoomNeeded' => cctx'.tmpIn + blockSize' <= cctx'.maxBufferSize
      <4>1. RoomNeeded' => ~autoFlush'
        BY DEF RoomNeeded
      <4>2. ~autoFlush' => need >= size
        BY <2>9, <3>1
      <4>3. need >= size => cctx'.tmpIn + blockSize' <= cctx'.maxBufferSize
        BY <1>4, <1>5, <2>1, <2>9, <3>2
      <4> QED BY <4>1, <4>2, <4>3
    <3>4. call.whole => autoFlush'
      BY <1>1, <2>9 DEF CallInv
    <3>5. Tmp' <= cctx'.maxBufferSize
      BY <2>9, <3>2
    <3> QED BY <1>1, <1>3, <1>4, <1>5, <2>1, <2>2, <2>9, <3>3, <3>4, <3>5 DEF FitInv
  <2>12. /\ Cursor' = IF call.whole THEN SrcAt ELSE srcPtr
         /\ Left' = call.size /\ Before' = 0
    <3>1. call.size \in Nat /\ SrcAt \in Nat /\ srcEnd = SrcAt + call.size
      BY <2>10, Facts
    <3>2. CASE call.whole
      BY <1>1, <2>2, <2>5, <2>10, <3>1, <3>2 DEF Cursor, Left, Before, InUpdate
    <3>3. CASE ~call.whole
      BY <1>1, <2>2, <2>5, <2>10, <3>1, <3>3 DEF Cursor, Left, Before, InUpdate
    <3> QED BY <3>2, <3>3
  <2>13. LeftInv'
    <3>1. SrcAt \in call.src..srcEnd
      BY <2>10, Facts
    <3> QED BY <1>1, <2>2, <2>5, <2>12, <3>1 DEF LeftInv, InUpdate
  <2>14. ContentInv'
    <3>1. Holds(mem', cctx'.tmpIn, 0, 0 + 1)
      BY HoldsNone
    <3>2. Holds(mem', Cursor', call.size, 0 + 1 + 0)
      <4>1. CASE call.whole
        <5>1. SrcAt \in Int /\ call.size \in Int /\ 0 + 1 + 0 = 1 /\ 1 \in Int
          BY Facts
        <5>2. SrcAt..(SrcAt + call.size - 1) \subseteq SrcAt..SrcEnd
          BY <2>10, Facts
        <5>3. \A a \in SrcAt..(SrcAt + call.size - 1) : mem'[a] = mem[a]
          BY <2>4, <5>2
        <5>4. Holds(mem', SrcAt, call.size, 1)
          BY <2>10, <5>1, <5>3, HoldsSame
        <5> QED BY <2>12, <4>1, <5>1, <5>4
      <4>2. CASE ~call.whole
        BY <2>10, <4>2, HoldsNone
      <4> QED BY <4>1, <4>2
    <3>3. given = 0 + 0 + call.size
      BY <2>10, Facts
    <3> QED BY <1>1, <2>1, <2>12, <3>1, <3>2, <3>3 DEF ContentInv
  <2>15. DictInv'
    <3> SUFFICES ASSUME p.blockMode = "blockLinked"
                 PROVE  Holds(mem', stream'.dictionary, stream'.dictSize,
                              done' + 1 - stream'.dictSize) /\ DictPlace'
      BY <2>9 DEF DictInv
    <3>1. stream'.dictionary = 0 /\ stream'.dictSize = 0 /\ DictEnd' = 0
      BY <2>3 DEF NoDictionary, DictEnd
    <3>2. ~FromSource'
      BY <2>2 DEF FromSource
    <3> QED BY <2>1, <3>1, <3>2, HoldsNone DEF DictPlace
  <2>16. WholeInv'
    BY <2>1, <2>8, <2>12 DEF WholeInv
  <2> QED BY <2>6, <2>7, <2>11, <2>13, <2>14, <2>15, <2>16 DEF Inv, FrameInv
<1> QED
  <2> HIDE DEF c2, c1
  <2> QED BY <1>c, <1>f, <1>s DEF LZ4F_compressBegin, c1, c2

-----------------------------------------------------------------------------
(* The theorems.                                                              *)

LEMMA FirstState == Init => Inv
<1> SUFFICES ASSUME Init PROVE Inv
  OBVIOUS
<1>1. /\ cctx = LZ4F_createCompressionContext /\ stream = NoDictionary /\ call = NoCall
      /\ mem = [a \in 0..SrcEnd |-> Junk] /\ pc = "idle" /\ srcPtr = SrcAt
      /\ lastBlockCompressed = "notDone" /\ ret = "ok"
      /\ live = FALSE /\ arena = SrcAt /\ given = 0 /\ done = 0
  BY DEF Init
<1>2. SrcAt \in Nat /\ SrcEnd \in Nat /\ SrcAt <= SrcEnd /\ MaxContent \in Nat
  BY Addresses
<1>3. call = [op |-> "none", whole |-> FALSE, src |-> SrcAt, size |-> 0, cap |-> 0,
              stableSrc |-> FALSE, prefs |-> NoCall.prefs]
  BY <1>1 DEF NoCall
<1>4. call.whole = FALSE /\ call.op = "none" /\ call.src = SrcAt /\ call.size = 0
  BY <1>3
<1>5. TypeOK
  <2>1. call \in Calls
    <3>1. SrcAt \in SrcAt..SrcEnd /\ 0 \in 0..MaxContent
      BY <1>2
    <3> QED BY <1>3, <3>1, FirstContext DEF Calls
  <2>2. srcEnd <= SrcEnd /\ srcPtr \in SrcAt..SrcEnd
    BY <1>1, <1>2, <1>4 DEF srcEnd
  <2>3. given \in 0..MaxContent /\ arena \in SrcAt..(SrcAt + given) /\ done \in Nat
    BY <1>1, <1>2
  <2>4. stream \in Streams
    BY <1>1 DEF NoDictionary, Streams
  <2>5. DOMAIN mem = 0..SrcEnd
    BY <1>1
  <2> QED BY <1>1, <2>1, <2>2, <2>3, <2>4, <2>5, FirstContext DEF TypeOK
<1>6. CallInv /\ BeginInv /\ EndedInv /\ ~Begun
  BY <1>1, <1>4 DEF CallInv, BeginInv, EndedInv, Begun, InUpdate, Flushing
<1> QED BY <1>5, <1>6 DEF Inv

LEMMA Stutter == Inv /\ UNCHANGED vars => Inv'
<1> SUFFICES ASSUME Inv, UNCHANGED vars PROVE Inv'
  OBVIOUS
<1>1. UNCHANGED <<cctx, stream, mem, call, pc, srcPtr, lastBlockCompressed, ret, live, arena,
                  given, done>>
  BY DEF vars, local, caller
<1>2. TypeOK' /\ CallInv' /\ BeginInv' /\ EndedInv' /\ (Begun <=> Begun')
  BY <1>1 DEF Inv, TypeOK, CallInv, BeginInv, EndedInv, Begun, srcEnd
<1>3. Begun => FitInv' /\ LeftInv'
  BY <1>1 DEF Inv, FrameInv, FitInv, LeftInv, RoomNeeded, Left, Cursor, srcEnd, linked,
              autoFlush, blockSize, Tmp
<1>4. Begun => ContentInv' /\ DictInv' /\ WholeInv'
  BY <1>1 DEF Inv, FrameInv, ContentInv, DictInv, WholeInv, DictPlace, DictEnd, FromSource,
              Staying, Before, Left, Cursor, srcEnd, linked
<1> QED BY <1>2, <1>3, <1>4 DEF Inv, FrameInv

\* The inductive invariant: where tmpIn and the dictionary are at every step,
\* and what content they and the rest of the input hold.
THEOREM EncoderInvariant == Spec => []Inv
<1>1. Inv /\ [Next]_vars => Inv'
  BY BeginStep, RefusedStep, UpdateStep, FlushOrEndStep, FrameStep, CompressBeginStep,
     CompressUpdateStep, TmpBlockStep, CompressSrcBlockStep, PreserveDictionaryStep,
     KeepLimitsStep, BufferTheRestStep, FlushStep, EndStep, Stutter
     DEF Next
<1> QED BY <1>1, FirstState, PTL DEF Spec

\* The next block is the content that follows the finished blocks, and lies
\* apart from the dictionary.
LEMMA BlockToMake ==
    ASSUME Inv, Making, NEW b, b = NextBlock
    PROVE  /\ Begun /\ b.at \in Nat /\ b.size \in Nat
           /\ Holds(mem, b.at, b.size, done + 1)
           /\ linked => /\ Holds(mem, stream.dictionary, stream.dictSize,
                                 done + 1 - stream.dictSize)
                        /\ NoOverlap(stream, b.at, b.size)
<1>1. /\ pc \in {"complete", "block", "blocks"} /\ (pc = "blocks" => MoreBlocks)
      /\ live /\ Begun /\ FrameInv
  BY DEF Making, Inv, CallInv, Begun
<1>2. /\ blockSize \in Nat /\ blockSize > 0 /\ cctx.tmpIn \in Nat /\ cctx.tmpInSize \in Nat
      /\ Tmp = cctx.tmpIn + cctx.tmpInSize /\ Tmp <= cctx.maxBufferSize
      /\ cctx.maxBufferSize \in Nat /\ cctx.maxBufferSize <= TmpEnd
  BY <1>1, Sizes DEF Tmp, FrameInv, FitInv
<1>3. linked => /\ Holds(mem, stream.dictionary, stream.dictSize, done + 1 - stream.dictSize)
                /\ DictPlace
  BY <1>1 DEF FrameInv, DictInv
<1>4. CASE pc \in {"complete", "block"}
  <2>1. b.at = cctx.tmpIn /\ b.size = cctx.tmpInSize
    BY <1>1, <1>4 DEF NextBlock, FrameInv, FitInv
  <2>2. Holds(mem, cctx.tmpIn, cctx.tmpInSize, done + 1)
    BY <1>1 DEF FrameInv, ContentInv
  <2>3. linked => DictEnd = cctx.tmpIn \/ stream.dictionary >= SrcAt
    BY <1>3, <1>4 DEF DictPlace, FromSource
  <2>4. linked => NoOverlap(stream, cctx.tmpIn, cctx.tmpInSize)
    BY <1>2, <2>3, Facts DEF NoOverlap, DictEnd
  <2> QED BY <1>1, <1>2, <1>3, <2>1, <2>2, <2>4
<1>5. CASE pc = "blocks"
  <2> DEFINE n == SrcBlock
  <2>1. b.at = srcPtr /\ b.size = n
    BY <1>5 DEF NextBlock
  <2>2. Left = srcEnd - srcPtr /\ call.src <= srcPtr /\ srcPtr <= srcEnd /\ Cursor = srcPtr
    BY <1>1, <1>5, Facts DEF Cursor, Left, InUpdate, FrameInv, LeftInv
  <2>3. n \in Nat /\ n > 0 /\ n <= srcEnd - srcPtr
    BY <1>1, <1>2, <1>5, <2>2, Facts DEF MoreBlocks, SrcBlock, Lesser
  <2> HIDE DEF n
  <2>4. cctx.tmpInSize = 0
    BY <1>1, <1>2, <1>5, <2>2, <2>3, Facts DEF FrameInv, LeftInv
  <2>5. /\ srcPtr \in Int /\ srcEnd - srcPtr \in Int /\ done + 1 \in Int /\ n \in Int
        /\ srcPtr + 0 = srcPtr /\ done + 1 + 0 = done + 1 /\ 0 + n <= srcEnd - srcPtr
    BY <2>3, Facts
  <2>6. Holds(mem, srcPtr, srcEnd - srcPtr, done + 1)
    BY <1>1, <2>2, <2>4, <2>5 DEF FrameInv, ContentInv
  <2>7. Holds(mem, srcPtr + 0, n, done + 1 + 0)
    BY <2>5, <2>6, HoldsPart
  <2>8. linked => \/ DictEnd = cctx.tmpIn
                  \/ stream.dictionary >= SrcAt /\ DictEnd <= srcPtr
    BY <1>3, <1>5, <2>2, Facts DEF DictPlace, DictEnd
  <2>9. linked => NoOverlap(stream, srcPtr, n)
    BY <1>2, <2>3, <2>4, <2>8, Facts DEF NoOverlap, DictEnd
  <2> QED BY <1>1, <1>3, <2>1, <2>3, <2>5, <2>7, <2>9, Facts
<1> QED BY <1>1, <1>4, <1>5

\* Every block is made of the content that follows the blocks before it, for
\* inputs of any size, blocks of any size and every mode.
THEOREM BlocksAreTheContent == Spec => []BlocksInOrder
<1>1. ASSUME Inv PROVE BlocksInOrder
  <2>1. ASSUME Making
        PROVE  \A i \in 0..(NextBlock.size - 1) : mem[NextBlock.at + i] = done + 1 + i
    BY <1>1, <2>1, BlockToMake DEF Holds
  <2>2. ASSUME pc = "idle", live PROVE done + cctx.tmpInSize = given
    <3>1. Begun /\ FrameInv /\ Left = 0
      BY <1>1, <2>2 DEF Inv, Begun, Left, InUpdate
    <3>2. given = done + cctx.tmpInSize + 0
      BY <3>1 DEF FrameInv, ContentInv
    <3>3. done \in Nat /\ cctx.tmpInSize \in Nat
      BY <1>1, <3>1, Facts, Sizes
    <3> QED BY <3>2, <3>3
  <2> QED BY <2>1, <2>2 DEF BlocksInOrder
<1> QED BY <1>1, EncoderInvariant, PTL

\* A linked block is compressed with the content before it, wherever the caller
\* and the buffering of other calls have put it.
THEOREM DictionaryIsBefore == Spec => []DictionaryIsContent
<1>1. ASSUME Inv PROVE DictionaryIsContent
  <2> SUFFICES ASSUME Making, linked
               PROVE  LET d == DictionaryFor(stream, NextBlock.at, NextBlock.size)
                      IN  \A i \in 0..(d.dictSize - 1) :
                             mem[d.dictionary + i] = done + 1 + i - d.dictSize
    BY DEF DictionaryIsContent
  <2> DEFINE b == NextBlock
             d == DictionaryFor(stream, b.at, b.size)
  <2>1. /\ b.at \in Nat /\ b.size \in Nat /\ NoOverlap(stream, b.at, b.size)
        /\ Holds(mem, stream.dictionary, stream.dictSize, done + 1 - stream.dictSize)
    BY <1>1, BlockToMake
  <2> HIDE DEF b
  <2>2. d = stream \/ d = [dictionary |-> b.at, dictSize |-> 0]
    BY <1>1, <2>1, Facts, DictionaryUsed
  <2> HIDE DEF d
  <2>3. \A i \in 0..(d.dictSize - 1) : mem[d.dictionary + i] = done + 1 + i - d.dictSize
    <3>1. CASE d = stream
      <4> SUFFICES ASSUME NEW i \in 0..(stream.dictSize - 1)
                   PROVE  mem[stream.dictionary + i] = done + 1 + i - stream.dictSize
        BY <3>1
      <4>1. mem[stream.dictionary + i] = done + 1 - stream.dictSize + i
        BY <2>1 DEF Holds
      <4>2. done + 1 - stream.dictSize + i = done + 1 + i - stream.dictSize
        BY <1>1, Facts
      <4> QED BY <4>1, <4>2
    <3>2. CASE d = [dictionary |-> b.at, dictSize |-> 0]
      <4>1. d.dictSize = 0
        BY <3>2
      <4> QED BY <4>1
    <3> QED BY <2>2, <3>1, <3>2
  <2> QED BY <2>3 DEF b, d
<1> QED BY <1>1, EncoderInvariant, PTL

\* No copy into tmpBuff leaves it: what is buffered, the block it is completed
\* to, and a dictionary that is saved before it fit in maxBufferSize.
THEOREM TmpBufferHoldsAll == Spec => []TmpInFits
<1>1. ASSUME Inv PROVE TmpInFits
  <2> SUFFICES ASSUME live, pc # "begin"
               PROVE  /\ Tmp <= cctx.maxBufferSize
                      /\ pc = "idle" /\ ~autoFlush =>
                             cctx.tmpIn + blockSize <= cctx.maxBufferSize
                      /\ cctx.tmpInSize < blockSize \/ pc = "complete"
    BY DEF TmpInFits
  <2>1. FitInv
    BY <1>1 DEF Inv, Begun, FrameInv
  <2> QED BY <2>1 DEF FitInv, RoomNeeded
<1> QED BY <1>1, EncoderInvariant, PTL

\* A frame that ended has in its blocks, its checksum and its size field what
\* the caller gave in all of its calls.
THEOREM EndedFrameHoldsAll == Spec => []EndedFrameIsWhole
<1>1. ASSUME Inv PROVE EndedFrameIsWhole
  BY <1>1 DEF Inv, EndedInv, EndedFrameIsWhole
<1> QED BY <1>1, EncoderInvariant, PTL

-----------------------------------------------------------------------------
(* Sizes of the output. Division, of which the provers know little.           *)

LEMMA DivMod ==
    ASSUME NEW t \in Int, NEW size \in Nat, size > 0
    PROVE  /\ t \div size \in Int /\ t % size \in 0..(size - 1)
           /\ t = size * (t \div size) + (t % size)
OBVIOUS

LEMMA NoProduct ==
    ASSUME NEW size \in Nat, NEW k \in Int, size * k < size, 0 - size < size * k
    PROVE  k = 0
<1>0. size > 0 OBVIOUS
<1>1. CASE k >= 1
  <2>1. size * k = size + size * (k - 1) /\ size * (k - 1) >= 0 BY <1>1
  <2> QED BY <2>1
<1>2. CASE k <= -1
  <2>1. size * k = size * (k + 1) - size /\ size * (k + 1) <= 0 BY <1>2
  <2> QED BY <2>1
<1> QED BY <1>1, <1>2

\* Quotient and remainder are the only ones.
LEMMA Quotient ==
    ASSUME NEW size \in Nat, size > 0, NEW q \in Int, NEW r \in 0..(size - 1), NEW t \in Int,
           t = size * q + r
    PROVE  t \div size = q /\ t % size = r
<1> DEFINE q2 == t \div size
           r2 == t % size
<1>1. q2 \in Int /\ r2 \in 0..(size - 1) /\ t = size * q2 + r2 BY DivMod
<1> HIDE DEF q2, r2
<1>2. size * (q2 - q) = r - r2 BY <1>1
<1>3. q2 - q = 0 BY <1>1, <1>2, NoProduct
<1>4. q2 = q BY <1>1, <1>3
<1> QED BY <1>1, <1>4 DEF q2, r2

LEMMA NatProduct ==
    ASSUME NEW x \in Nat, NEW y \in Nat
    PROVE  x * y \in Nat
OBVIOUS

\* What t bytes take at most in blocks of size bytes, when each block takes each
\* bytes more than its content, and flush tells whether a short one is made.
Worst(each, size, t, flush) ==
    LET full    == t \div size
        lastOne == IF flush THEN t % size ELSE 0
    IN  each * (full + (IF lastOne > 0 THEN 1 ELSE 0)) + size * full + lastOne

\* Less than a block.
LEMMA WorstOfLess ==
    ASSUME NEW each \in Nat, NEW size \in Nat, NEW t \in Nat, t < size, NEW flush
    PROVE  Worst(each, size, t, flush) = IF flush /\ t > 0 THEN each + t ELSE 0
<1>1. t = size * 0 + t /\ t \in 0..(size - 1) /\ size > 0
  OBVIOUS
<1>2. t \div size = 0 /\ t % size = t
  BY <1>1, Quotient
<1>3. each * 0 = 0 /\ each * 1 = each /\ size * 0 = 0 /\ 0 + 1 = 1 /\ 0 + 0 = 0
  OBVIOUS
<1> DEFINE lastOne == IF flush THEN t ELSE 0
<1>4. Worst(each, size, t, flush) = each * (0 + (IF lastOne > 0 THEN 1 ELSE 0)) + size * 0 + lastOne
  BY <1>2 DEF Worst
<1>5. CASE flush /\ t > 0
  BY <1>3, <1>4, <1>5
<1>6. CASE ~(flush /\ t > 0)
  <2>1. lastOne = 0 BY <1>6
  <2> QED BY <1>3, <1>4, <1>6, <2>1
<1> QED BY <1>5, <1>6

\* A block and the rest.
LEMMA WorstOfMore ==
    ASSUME NEW each \in Nat, NEW size \in Nat, size > 0, NEW t \in Nat, t >= size, NEW flush
    PROVE  Worst(each, size, t, flush) = each + size + Worst(each, size, t - size, flush)
<1> DEFINE q == (t - size) \div size
           r == (t - size) % size
<1>1. q \in Int /\ r \in 0..(size - 1) /\ t - size = size * q + r
  BY DivMod
<1> HIDE DEF q, r
<1>2. t = size * (q + 1) + r
  BY <1>1
<1>3. t \div size = q + 1 /\ t % size = r
  BY <1>1, <1>2, Quotient
<1> DEFINE lastOne == IF flush THEN r ELSE 0
           one == IF lastOne > 0 THEN 1 ELSE 0
<1>4. Worst(each, size, t, flush) = each * (q + 1 + one) + size * (q + 1) + lastOne
  BY <1>3 DEF Worst
<1>5. Worst(each, size, t - size, flush) = each * (q + one) + size * q + lastOne
  BY DEF Worst, q, r
<1>6. lastOne \in Int /\ one \in Int
  BY <1>1
<1> HIDE DEF lastOne, one
<1>7. each * (q + 1 + one) = each * (q + one) + each
  BY <1>1, <1>6
<1>8. size * (q + 1) = size * q + size
  BY <1>1
<1>9. each * (q + one) \in Int /\ size * q \in Int
  BY <1>1, <1>6
<1> QED BY <1>4, <1>5, <1>6, <1>7, <1>8, <1>9

LEMMA WorstIsNat ==
    ASSUME NEW each \in Nat, NEW size \in Nat, size > 0, NEW t \in Nat, NEW flush
    PROVE  Worst(each, size, t, flush) \in Nat
<1> DEFINE q == t \div size
           lastOne == IF flush THEN t % size ELSE 0
           one == IF lastOne > 0 THEN 1 ELSE 0
<1>1. q \in Int /\ t % size \in 0..(size - 1) /\ t = size * q + (t % size)
  BY DivMod
<1>2. q \in Nat
  <2> SUFFICES ASSUME q < 0 PROVE FALSE
    BY <1>1
  <2> HIDE DEF q
  <2>1. size * (q + 1) <= 0 /\ size * q = size * (q + 1) - size
    BY <1>1
  <2> QED BY <1>1, <2>1
<1>3. lastOne \in Nat /\ one \in Nat
  BY <1>1
<1>4. Worst(each, size, t, flush) = each * (q + one) + size * q + lastOne
  BY DEF Worst
<1> HIDE DEF q, lastOne, one
<1>5. each * (q + one) \in Nat /\ size * q \in Nat
  BY <1>2, <1>3, NatProduct
<1> QED BY <1>3, <1>4, <1>5

\* More bytes do not take less.
LEMMA WorstGrows ==
    ASSUME NEW each \in Nat, NEW size \in Nat, size > 0, NEW t \in Nat, NEW k \in Nat
    PROVE  Worst(each, size, t, FALSE) <= Worst(each, size, t + k, FALSE)
<1> DEFINE q == t \div size
           r == t % size
           q2 == (t + k) \div size
           r2 == (t + k) % size
           d == q2 - q
<1>1. /\ q \in Int /\ r \in 0..(size - 1) /\ t = size * q + r
      /\ q2 \in Int /\ r2 \in 0..(size - 1) /\ t + k = size * q2 + r2
  BY DivMod
<1>2. /\ Worst(each, size, t, FALSE) = each * (q + 0) + size * q + 0
      /\ Worst(each, size, t + k, FALSE) = each * (q2 + 0) + size * q2 + 0
  BY DEF Worst
<1> HIDE DEF q, r, q2, r2
<1>3. size * q2 = size * q + size * d /\ each * q2 = each * q + each * d
  BY <1>1
<1>4. d \in Nat
  <2>1. d \in Int
    BY <1>1
  <2> HIDE DEF d
  <2>2. size * d \in Int /\ size * q \in Int
    BY <1>1, <2>1
  <2>3. size * d > 0 - size
    BY <1>1, <1>3, <2>2
  <2>4. ASSUME d <= -1 PROVE FALSE
    <3>1. size * d + size = size * (d + 1) /\ size * (d + 1) <= 0
      BY <2>1, <2>4
    <3> QED BY <2>2, <2>3, <3>1
  <2> QED BY <2>1, <2>4
<1> HIDE DEF d
<1>5. each * d \in Nat /\ size * d \in Nat
  BY <1>4, NatProduct
<1>6. each * q \in Int /\ size * q \in Int /\ q + 0 = q /\ q2 + 0 = q2
  BY <1>1
<1>7. /\ Worst(each, size, t, FALSE) = each * q + size * q + 0
      /\ Worst(each, size, t + k, FALSE) = each * q + each * d + (size * q + size * d) + 0
  BY <1>2, <1>3, <1>6, Zenon
<1>8. each * q + size * q + 0 <= each * q + each * d + (size * q + size * d) + 0
  BY <1>5, <1>6
<1> QED BY <1>7, <1>8, Zenon

-----------------------------------------------------------------------------
(* Room in the caller's output: the invariant and the bounds it is made of.   *)

Each    == BHSize + BFSize * cctx.prefs.blockChecksumFlag
Trailer == BHSize + cctx.prefs.contentChecksumFlag * BFSize

\* The part of the input, with what is buffered, that may still become blocks.
Rest == Left + (IF pc = "complete" THEN blockSize ELSE 0)

\* What is written leaves room for what the call may still write.
CapInv ==
    /\ written \in Nat /\ written <= call.cap
    /\ pc = "begin" =>
          /\ written = 0
          /\ call.whole => call.cap >= LZ4F_compressFrameBound(call.size, call.prefs)
    /\ pc = "update" => IF call.whole
          THEN dstCapacity >= LZ4F_compressBound_internal(call.size, cctx.prefs, 0)
          ELSE written = 0
    /\ pc \in {"complete", "blocks"} =>
          written + (Worst(Each, blockSize, Rest, autoFlush) + Trailer) <= call.cap
    /\ pc \in {"limits", "left"} => written + Trailer <= call.cap
    /\ pc \in {"flush", "block"} /\ ~call.whole => written = 0
    /\ pc = "block" => cctx.tmpInSize > 0 /\ cctx.tmpInSize + BHSize + BFSize <= call.cap
    /\ pc = "flush" /\ call.whole => written + Trailer <= call.cap
    /\ pc \in {"flushed", "end"} => written + Trailer <=
          IF call.whole THEN call.cap ELSE LZ4F_compressBound(0, cctx.prefs)

RefusedInv ==
    pc = "idle" /\ ret = "dstMaxSize_tooSmall" =>
        CASE call.op = "begin"  -> call.cap < maxFHSize
          [] call.op = "update" -> call.cap < LZ4F_compressBound(call.size, cctx.prefs)
          [] call.op = "frame"  -> call.cap < LZ4F_compressFrameBound(call.size, call.prefs)
          [] OTHER              -> call.cap < LZ4F_compressBound(0, cctx.prefs)

LEMMA Overheads ==
    ASSUME NEW p \in LZ4F_preferences_t
    PROVE  /\ BHSize + BFSize * p.blockChecksumFlag \in Nat
           /\ BHSize + p.contentChecksumFlag * BFSize \in Nat
           /\ BFSize * p.blockChecksumFlag = p.blockChecksumFlag * BFSize
           /\ BFSize * p.blockChecksumFlag \in 0..BFSize
           /\ p.contentChecksumFlag * BFSize \in 0..BFSize
           /\ BHSize \in Nat \ {0} /\ BFSize \in Nat \ {0} /\ BFSize <= BHSize
<1>1. /\ p.blockChecksumFlag \in {0, 1} /\ p.contentChecksumFlag \in {0, 1}
      /\ BHSize \in Nat \ {0} /\ BFSize \in Nat \ {0} /\ BFSize <= BHSize
  BY EncoderAssumption, SizesAssumption DEF LZ4F_preferences_t
<1>2. \A flag \in {0, 1} : /\ BFSize * flag \in Nat /\ flag * BFSize = BFSize * flag
                           /\ (flag = 1 => BFSize * flag = BFSize)
                           /\ (flag = 0 => BFSize * flag = 0)
  BY <1>1, FlagTimes
<1>3. /\ BFSize * p.blockChecksumFlag \in 0..BFSize
      /\ p.contentChecksumFlag * BFSize \in 0..BFSize
      /\ BFSize * p.blockChecksumFlag = p.blockChecksumFlag * BFSize
  BY <1>1, <1>2
<1> QED BY <1>1, <1>3

\* LZ4F_compressBound_internal is the worst case of blocks, and what ends a frame.
LEMMA BoundIsWorst ==
    ASSUME NEW p \in LZ4F_preferences_t, NEW n \in Nat, NEW buffered \in Nat
    PROVE  LET size  == LZ4F_getBlockSize(p.blockSizeID)
               total == n + Lesser(buffered, size - 1)
               worst == Worst(BHSize + BFSize * p.blockChecksumFlag, size, total,
                              p.autoFlush = 1 \/ n = 0)
               bound == LZ4F_compressBound_internal(n, p, buffered)
           IN  /\ worst \in Nat
               /\ bound = worst + (BHSize + p.contentChecksumFlag * BFSize)
               /\ bound \in Nat /\ bound >= BHSize
<1> DEFINE size  == LZ4F_getBlockSize(p.blockSizeID)
           total == n + Lesser(buffered, size - 1)
           each  == BHSize + BFSize * p.blockChecksumFlag
           flush == p.autoFlush = 1 \/ n = 0
           worst == Worst(each, size, total, flush)
           bound == LZ4F_compressBound_internal(n, p, buffered)
           sum   == p.contentChecksumFlag * BFSize
<1>1. size \in Nat \ {0} /\ size > 0
  BY BufferSizes, BlockSizes, EncoderAssumption
<1>2. total \in Nat
  <2> HIDE DEF size
  <2> QED BY <1>1 DEF Lesser
<1>3. each \in Nat /\ sum \in Nat /\ BHSize \in Nat
  BY Overheads
<1>4. worst \in Nat
  <2> HIDE DEF each, size, total, flush
  <2> QED BY <1>1, <1>2, <1>3, WorstIsNat
<1>5. bound = worst + BHSize + sum
  BY DEF LZ4F_compressBound_internal, Worst, Buffered
<1> HIDE DEF worst, sum, bound
<1>6. bound = worst + (BHSize + sum) /\ bound \in Nat /\ bound >= BHSize
  BY <1>3, <1>4, <1>5
<1> QED BY <1>4, <1>6 DEF worst, sum, bound

\* Of a frame that was begun.
LEMMA Overhead ==
    ASSUME Inv
    PROVE  /\ Each \in Nat /\ Trailer \in Nat /\ Each >= BHSize /\ Trailer >= BHSize
           /\ Each <= BHSize + BFSize
           /\ Each = BHSize + cctx.prefs.blockChecksumFlag * BFSize
           /\ BHSize \in Nat /\ BFSize \in Nat /\ BFSize <= BHSize
           /\ cctx.prefs \in LZ4F_preferences_t /\ cctx.tmpInSize \in Nat
           /\ call.cap \in Int
<1>1. cctx \in LZ4F_cctx_t /\ call \in Calls
  BY DEF Inv, TypeOK
<1>2. cctx.prefs \in LZ4F_preferences_t /\ cctx.tmpInSize \in Nat /\ call.cap \in Int
  BY <1>1 DEF LZ4F_cctx_t, Calls
<1> QED BY <1>2, Overheads DEF Each, Trailer

LEMMA OwnBlockSize ==
    ASSUME Inv, Begun
    PROVE  LZ4F_getBlockSize(cctx.prefs.blockSizeID) = blockSize
<1>1. cctx.prefs.blockSizeID \in BSIDs /\ blockSize = blockSizes[cctx.prefs.blockSizeID]
  BY DEF Inv, FrameInv, FitInv
<1> QED BY <1>1, EncoderAssumption DEF LZ4F_getBlockSize

\* The bound that an update checks.
LEMMA UpdateBound ==
    ASSUME Inv, Begun, pc # "complete", NEW n \in Nat
    PROVE  LET flush == autoFlush \/ n = 0
               worst == Worst(Each, blockSize, n + cctx.tmpInSize, flush)
           IN  /\ LZ4F_compressBound_internal(n, cctx.prefs, cctx.tmpInSize) = worst + Trailer
               /\ worst \in Nat
<1>1. /\ cctx.tmpInSize < blockSize /\ blockSize \in Nat /\ cctx.tmpInSize \in Nat
      /\ cctx.prefs \in LZ4F_preferences_t
  BY Sizes DEF Inv, FrameInv, FitInv
<1>2. Lesser(cctx.tmpInSize, blockSize - 1) = cctx.tmpInSize
  BY <1>1 DEF Lesser
<1> DEFINE total == n + Lesser(cctx.tmpInSize, blockSize - 1)
           worst == Worst(Each, blockSize, total, autoFlush \/ n = 0)
<1>3. /\ LZ4F_compressBound_internal(n, cctx.prefs, cctx.tmpInSize) = worst + Trailer
      /\ worst \in Nat
  <2>1. LET p == cctx.prefs
            size == LZ4F_getBlockSize(p.blockSizeID)
            w == Worst(BHSize + BFSize * p.blockChecksumFlag, size,
                       n + Lesser(cctx.tmpInSize, size - 1), p.autoFlush = 1 \/ n = 0)
        IN  /\ LZ4F_compressBound_internal(n, p, cctx.tmpInSize)
                  = w + (BHSize + p.contentChecksumFlag * BFSize)
            /\ w \in Nat
    BY <1>1, BoundIsWorst, Zenon
  <2> QED BY <2>1, OwnBlockSize DEF Each, Trailer, autoFlush
<1> QED BY <1>2, <1>3

\* The bound for a flush or an end covers the block that is buffered.
LEMMA FlushBound ==
    ASSUME Inv, Begun, pc # "complete"
    PROVE  LET bound == LZ4F_compressBound(0, cctx.prefs)
               size  == cctx.tmpInSize
           IN  /\ bound \in Nat /\ Trailer <= bound
               /\ size > 0 => /\ Each + size + Trailer <= bound
                              /\ size + BHSize + BFSize <= bound
<1> DEFINE bound == LZ4F_compressBound(0, cctx.prefs)
           size == cctx.tmpInSize
           buffered == IF cctx.prefs.autoFlush = 1 THEN 0 ELSE blockSize
           total == 0 + Lesser(buffered, blockSize - 1)
           worst == Worst(Each, blockSize, total, cctx.prefs.autoFlush = 1 \/ 0 = 0)
<1>1. /\ size < blockSize /\ blockSize \in Nat /\ size \in Nat /\ blockSize > 0
      /\ (autoFlush => size = 0) /\ cctx.prefs \in LZ4F_preferences_t
  BY Sizes DEF Inv, FrameInv, FitInv
<1>2. bound = LZ4F_compressBound_internal(0, cctx.prefs, buffered) /\ buffered \in Nat
  BY <1>1, OwnBlockSize DEF LZ4F_compressBound
<1>3. bound = worst + Trailer /\ worst \in Nat /\ bound \in Nat
  <2> HIDE DEF buffered
  <2>1. LET p == cctx.prefs
            w == Worst(BHSize + BFSize * p.blockChecksumFlag, blockSize, total,
                       p.autoFlush = 1 \/ 0 = 0)
            b == LZ4F_compressBound_internal(0, p, buffered)
        IN  b = w + (BHSize + p.contentChecksumFlag * BFSize) /\ w \in Nat /\ b \in Nat
    BY <1>1, <1>2, OwnBlockSize, BoundIsWorst, Zenon
  <2> QED BY <1>2, <2>1 DEF Each, Trailer
<1>4. size > 0 => worst = Each + (blockSize - 1)
  <2> SUFFICES ASSUME size > 0 PROVE worst = Each + (blockSize - 1)
    OBVIOUS
  <2>1. ~(cctx.prefs.autoFlush = 1)
    BY <1>1 DEF autoFlush
  <2>2. total = blockSize - 1 /\ total \in Nat /\ total < blockSize /\ total > 0
    BY <1>1, <2>1 DEF Lesser
  <2> HIDE DEF total
  <2> QED BY <1>1, <2>2, Overhead, WorstOfLess
<1> HIDE DEF bound, worst
<1>5. Trailer <= bound
  BY <1>3, Overhead
<1>6. size > 0 => Each + size + Trailer <= bound /\ size + BHSize + BFSize <= bound
  BY <1>1, <1>3, <1>4, Overhead
<1> QED BY <1>3, <1>5, <1>6 DEF bound

\* LZ4F_compressBound, which does not know what is buffered, is at least the
\* bound that an update checks, which does.
LEMMA BoundCovers ==
    ASSUME Inv, Begun, pc # "complete", NEW n \in Nat
    PROVE  LZ4F_compressBound_internal(n, cctx.prefs, cctx.tmpInSize)
              <= LZ4F_compressBound(n, cctx.prefs)
<1> DEFINE size == cctx.tmpInSize
           bound == LZ4F_compressBound(n, cctx.prefs)
<1>1. /\ size < blockSize /\ blockSize \in Nat /\ size \in Nat /\ blockSize > 0
      /\ (autoFlush => size = 0) /\ cctx.prefs \in LZ4F_preferences_t
  BY Sizes DEF Inv, FrameInv, FitInv
<1>2. CASE autoFlush
  <2>1. bound = LZ4F_compressBound_internal(n, cctx.prefs, 0) /\ size = 0
    BY <1>1, <1>2 DEF LZ4F_compressBound, autoFlush
  <2>2. LZ4F_compressBound_internal(n, cctx.prefs, 0) \in Nat
    <3>1. 0 \in Nat
      OBVIOUS
    <3> QED BY <1>1, <3>1, BoundIsWorst, Zenon
  <2> QED BY <2>1, <2>2
<1>3. CASE ~autoFlush
  <2> DEFINE more == Worst(Each, blockSize, n + (blockSize - 1), autoFlush \/ n = 0)
             less == Worst(Each, blockSize, n + size, autoFlush \/ n = 0)
  <2>1. bound = LZ4F_compressBound_internal(n, cctx.prefs, blockSize)
    BY <1>3, OwnBlockSize DEF LZ4F_compressBound, autoFlush
  <2>2. Lesser(blockSize, blockSize - 1) = blockSize - 1
    BY <1>1 DEF Lesser
  <2>3. bound = more + Trailer /\ more \in Nat
    <3> DEFINE total == n + Lesser(blockSize, blockSize - 1)
    <3>1. LET p == cctx.prefs
              size1 == LZ4F_getBlockSize(p.blockSizeID)
              w == Worst(BHSize + BFSize * p.blockChecksumFlag, size1,
                         n + Lesser(blockSize, size1 - 1), p.autoFlush = 1 \/ n = 0)
          IN  /\ LZ4F_compressBound_internal(n, p, blockSize)
                    = w + (BHSize + p.contentChecksumFlag * BFSize)
              /\ w \in Nat
      BY <1>1, BoundIsWorst, Zenon
    <3>2. /\ bound = Worst(Each, blockSize, total, autoFlush \/ n = 0) + Trailer
          /\ Worst(Each, blockSize, total, autoFlush \/ n = 0) \in Nat
      BY <2>1, <3>1, OwnBlockSize DEF Each, Trailer, autoFlush
    <3> QED BY <2>2, <3>2
  <2>4. LZ4F_compressBound_internal(n, cctx.prefs, cctx.tmpInSize) = less + Trailer
        /\ less \in Nat
    BY UpdateBound
  <2>5. less <= more
    <3> DEFINE d == blockSize - 1 - size
    <3>1. d \in Nat /\ n + size \in Nat /\ n + size + d = n + (blockSize - 1)
      BY <1>1
    <3> HIDE DEF d
    <3>2. CASE n = 0
      <4>1. n + size < blockSize /\ n + (blockSize - 1) < blockSize /\ n + (blockSize - 1) \in Nat
            /\ n + (blockSize - 1) >= n + size
        BY <1>1, <3>2
      <4>t. (autoFlush \/ n = 0) = TRUE
        BY <3>2
      <4>a. /\ less = Worst(Each, blockSize, n + size, TRUE)
            /\ more = Worst(Each, blockSize, n + (blockSize - 1), TRUE)
        BY <4>t, Zenon
      <4>b. \A t \in Nat : t < blockSize =>
               Worst(Each, blockSize, t, TRUE) = IF t > 0 THEN Each + t ELSE 0
        BY <1>1, Overhead, WorstOfLess
      <4>2. Worst(Each, blockSize, n + size, TRUE)
              = IF n + size > 0 THEN Each + (n + size) ELSE 0
        BY <3>1, <4>1, <4>b
      <4>3. Worst(Each, blockSize, n + (blockSize - 1), TRUE)
              = IF n + (blockSize - 1) > 0 THEN Each + (n + (blockSize - 1)) ELSE 0
        BY <4>1, <4>b
      <4>4. /\ less = IF n + size > 0 THEN Each + (n + size) ELSE 0
            /\ more = IF n + (blockSize - 1) > 0 THEN Each + (n + (blockSize - 1)) ELSE 0
        BY <4>a, <4>2, <4>3, Zenon
      <4>5. Each \in Nat
        BY Overhead
      <4> HIDE DEF less, more
      <4> QED BY <1>1, <4>1, <4>4, <4>5
    <3>3. CASE n # 0
      <4>1. (autoFlush \/ n = 0) = FALSE
        BY <1>3, <3>3
      <4>2. Worst(Each, blockSize, n + size, FALSE)
               <= Worst(Each, blockSize, n + size + d, FALSE)
        BY <1>1, <3>1, Overhead, WorstGrows
      <4> QED BY <3>1, <4>1, <4>2, Zenon
    <3> QED BY <3>2, <3>3
  <2> HIDE DEF less, more
  <2>6. less + Trailer <= more + Trailer
    BY <2>3, <2>4, <2>5, Overhead
  <2> QED BY <2>3, <2>4, <2>6
<1> QED BY <1>2, <1>3

Capacity == CapInv /\ RefusedInv

\* A call begins with enough room for nothing, and has written nothing.
LEMMA CallsHaveRoom ==
    ASSUME Inv, Begin \/ Update \/ FlushOrEnd \/ LZ4F_compressFrame
    PROVE  Capacity'
<1>1. /\ cctx.prefs \in LZ4F_preferences_t /\ cctx.tmpInSize \in Nat
      /\ BHSize \in Nat \ {0} /\ BFSize \in Nat \ {0} /\ maxFHSize \in Nat \ {0}
  BY EncoderAssumption DEF Inv, TypeOK, LZ4F_cctx_t
<1>2. CASE Begin
  <2>1. PICK p \in Preferences, cap \in {maxFHSize - 1, maxFHSize} :
          call' = [NoCall EXCEPT !.op = "begin", !.prefs = p, !.cap = cap]
    BY <1>2 DEF Begin
  <2>2. call'.cap = cap /\ call'.whole = FALSE /\ cap >= 0 /\ cap \in Int
    BY <1>1, <2>1 DEF NoCall
  <2>3. pc' = "begin" /\ written' = 0
    BY <1>2 DEF Begin, NewCall
  <2> QED BY <2>2, <2>3 DEF Capacity, CapInv, RefusedInv
<1>3. CASE Update
  <2> DEFINE bound(n) == LZ4F_compressBound_internal(n, cctx.prefs, cctx.tmpInSize)
  <2>1. PICK n \in Inputs, stable \in BOOLEAN :
          \E cap \in {bound(n) - 1, bound(n)} :
              call' = [NoCall EXCEPT !.op = "update", !.src = arena,
                                     !.size = n, !.stableSrc = stable, !.cap = cap]
    BY <1>3 DEF Update
  <2>2. PICK cap \in {bound(n) - 1, bound(n)} :
              call' = [NoCall EXCEPT !.op = "update", !.src = arena,
                                     !.size = n, !.stableSrc = stable, !.cap = cap]
    BY <2>1
  <2>3. n \in Nat
    BY EncoderAssumption
  <2>4. bound(n) \in Nat /\ bound(n) >= BHSize
    BY <1>1, <2>3, BoundIsWorst, Zenon
  <2> HIDE DEF bound
  <2>5. call'.cap = cap /\ call'.whole = FALSE /\ cap >= 0 /\ cap \in Int
    BY <1>1, <2>2, <2>4 DEF NoCall
  <2>6. pc' = "update" /\ written' = 0
    BY <1>3 DEF Update, NewCall
  <2> QED BY <2>5, <2>6 DEF Capacity, CapInv, RefusedInv
<1>4. CASE FlushOrEnd
  <2> DEFINE room  == cctx.tmpInSize + BHSize + BFSize - 1
             bound == LZ4F_compressBound(0, cctx.prefs)
  <2>1. PICK op \in {"flush", "end"} : \E cap \in {room, bound} :
            call' = [NoCall EXCEPT !.op = op, !.cap = cap]
    BY <1>4 DEF FlushOrEnd
  <2>2. PICK cap \in {room, bound} : call' = [NoCall EXCEPT !.op = op, !.cap = cap]
    BY <2>1
  <2>3. room \in Nat
    BY <1>1
  <2>4. bound \in Nat
    <3>1. LZ4F_getBlockSize(cctx.prefs.blockSizeID) \in Nat /\ 0 \in Nat
      BY <1>1, BufferSizes, BlockSizes, EncoderAssumption
    <3>2. /\ LZ4F_compressBound_internal(0, cctx.prefs, 0) \in Nat
          /\ LZ4F_compressBound_internal(0, cctx.prefs,
                LZ4F_getBlockSize(cctx.prefs.blockSizeID)) \in Nat
      BY <1>1, <3>1, BoundIsWorst, Zenon
    <3> QED BY <3>2 DEF LZ4F_compressBound
  <2> HIDE DEF room, bound
  <2>5. call'.cap = cap /\ call'.whole = FALSE /\ cap \in Nat
    BY <2>2, <2>3, <2>4 DEF NoCall
  <2>6. pc' = "flush" /\ written' = 0
    BY <1>4 DEF FlushOrEnd, NewCall
  <2> QED BY <2>5, <2>6 DEF Capacity, CapInv, RefusedInv
<1>5. CASE LZ4F_compressFrame
  <2>1. PICK prefs \in Preferences, n \in Inputs :
          LET p     == PrefsForFrame(prefs, n)
              bound == LZ4F_compressFrameBound(n, p)
          IN  \E cap \in {bound - 1, bound} :
                 /\ call' = [op |-> "frame", whole |-> TRUE, src |-> SrcAt, size |-> n,
                               cap |-> cap, stableSrc |-> TRUE, prefs |-> p]
                 /\ pc' = IF cap < bound THEN "idle" ELSE "begin"
    BY <1>5 DEF LZ4F_compressFrame
  <2> DEFINE p     == PrefsForFrame(prefs, n)
             bound == LZ4F_compressFrameBound(n, p)
  <2>2. PICK cap \in {bound - 1, bound} :
           /\ call' = [op |-> "frame", whole |-> TRUE, src |-> SrcAt, size |-> n,
                         cap |-> cap, stableSrc |-> TRUE, prefs |-> p]
           /\ pc' = IF cap < bound THEN "idle" ELSE "begin"
    BY <2>1
  <2>3. prefs \in LZ4F_preferences_t /\ n \in Nat
    BY EncoderAssumption
  <2>4. p \in LZ4F_preferences_t
    BY <2>3, FramePreferences
  <2> HIDE DEF p
  <2>5. bound \in Nat /\ bound >= maxFHSize
    <3>1. [p EXCEPT !.autoFlush = 1] \in LZ4F_preferences_t /\ 0 \in Nat
      BY <2>4 DEF LZ4F_preferences_t
    <3>2. LZ4F_compressBound_internal(n, [p EXCEPT !.autoFlush = 1], 0) \in Nat
      BY <2>3, <3>1, BoundIsWorst, Zenon
    <3> QED BY <1>1, <3>2 DEF LZ4F_compressFrameBound
  <2>6. /\ call'.op = "frame" /\ call'.cap = cap /\ call'.size = n /\ call'.prefs = p
        /\ call'.whole = TRUE
        /\ LZ4F_compressFrameBound(call'.size, call'.prefs) = bound
    BY <2>2
  <2> HIDE DEF bound
  <2>7. written' = 0 /\ cap >= 0 /\ cap \in Int
    BY <1>1, <1>5, <2>5 DEF LZ4F_compressFrame
  <2>8. \/ pc' = "idle" /\ call'.cap < bound
        \/ pc' = "begin" /\ call'.cap >= bound
    BY <2>2, <2>5, <2>6, <2>7
  <2>9. CapInv'
    BY <2>6, <2>7, <2>8 DEF CapInv
  <2>10. RefusedInv'
    BY <2>6, <2>8 DEF RefusedInv
  <2> QED BY <2>9, <2>10 DEF Capacity
<1> QED BY <1>2, <1>3, <1>4, <1>5

LEMMA HeaderFits ==
    ASSUME NEW p \in LZ4F_preferences_t
    PROVE  headerSize(p) \in Nat /\ headerSize(p) <= maxFHSize
BY EncoderAssumption, SizesAssumption DEF headerSize

\* LZ4F_compressFrame's capacity is that of a header and of its only update.
LEMMA BeginHasRoom ==
    ASSUME Inv, Capacity, LZ4F_compressBegin
    PROVE  Capacity'
<1> DEFINE p == call.prefs
           p1 == [p EXCEPT !.blockSizeID = IF @ = 0 THEN DEFAULT ELSE @]
<1>1. /\ pc = "begin" /\ written = 0 /\ call' = call /\ CapInv
      /\ call.whole = (call.op = "frame") /\ call.op \in {"begin", "frame"}
      /\ call \in Calls
  BY DEF LZ4F_compressBegin, local, Inv, CallInv, TypeOK, Capacity, CapInv
<1>2. p \in LZ4F_preferences_t /\ call.cap \in Int /\ call.size \in Nat /\ maxFHSize \in Nat
  BY <1>1, EncoderAssumption DEF Calls
<1> DEFINE worst == LZ4F_compressBound_internal(call.size, p, 0)
<1>3. worst \in Nat
  <2>1. 0 \in Nat
    OBVIOUS
  <2> QED BY <1>2, <2>1, BoundIsWorst, Zenon
<1>4. call.whole => /\ LZ4F_compressFrameBound(call.size, p) = maxFHSize + worst
                    /\ call.cap >= maxFHSize + worst
  <2> SUFFICES ASSUME call.whole
               PROVE  /\ LZ4F_compressFrameBound(call.size, p) = maxFHSize + worst
                      /\ call.cap >= maxFHSize + worst
    OBVIOUS
  <2>1. p.autoFlush = 1
    BY DEF Inv, CallInv
  <2>2. [p EXCEPT !.autoFlush = 1] = p
    BY <1>2, <2>1 DEF LZ4F_preferences_t
  <2>3. LZ4F_compressFrameBound(call.size, p) = maxFHSize + worst
    BY <2>2 DEF LZ4F_compressFrameBound
  <2>4. call.cap >= LZ4F_compressFrameBound(call.size, p)
    BY <1>1 DEF CapInv
  <2> QED BY <2>3, <2>4
<1> HIDE DEF worst
<1>5. CASE call.cap < maxFHSize /\ Return("dstMaxSize_tooSmall", "idle") /\ written' = written
  <2>1. ~call.whole
    BY <1>2, <1>3, <1>4, <1>5
  <2>2. pc' = "idle" /\ call.op = "begin" /\ written' = written
    BY <1>1, <1>5, <2>1 DEF Return
  <2> QED BY <1>1, <1>5, <2>2 DEF Capacity, CapInv, RefusedInv
<1>6. CASE Return("allocation_failed", "idle") /\ written' = written
  <2>1. pc' = "idle" /\ ret' = "allocation_failed"
    BY <1>6 DEF Return
  <2> QED BY <1>1, <1>6, <2>1 DEF Capacity, CapInv, RefusedInv
<1>7. CASE /\ call.cap >= maxFHSize /\ written' = headerSize(p) /\ Return("ok", "update")
           /\ cctx'.prefs = p1
  <2>1. written' \in Nat /\ written' <= maxFHSize /\ written' <= call.cap
    BY <1>2, <1>7, HeaderFits
  <2>2. ret' = "ok" /\ pc' = IF call.whole THEN "update" ELSE "idle"
    BY <1>7 DEF Return
  <2>3. LZ4F_compressBound_internal(call.size, p1, 0) = worst
    <3>1. /\ p1.autoFlush = p.autoFlush /\ p1.blockChecksumFlag = p.blockChecksumFlag
          /\ p1.contentChecksumFlag = p.contentChecksumFlag
          /\ p1.blockSizeID = IF p.blockSizeID = 0 THEN DEFAULT ELSE p.blockSizeID
      BY <1>2 DEF LZ4F_preferences_t
    <3>2. LZ4F_getBlockSize(p1.blockSizeID) = LZ4F_getBlockSize(p.blockSizeID)
      <4>1. DEFAULT # 0
        BY EncoderAssumption
      <4> QED BY <3>1, <4>1 DEF LZ4F_getBlockSize
    <3> HIDE DEF p1
    <3> QED BY <3>1, <3>2 DEF LZ4F_compressBound_internal, worst
  <2>4. call.whole => call.cap - written' >= LZ4F_compressBound_internal(call.size, cctx'.prefs, 0)
    BY <1>2, <1>3, <1>4, <1>7, <2>1, <2>3
  <2> QED BY <1>1, <2>1, <2>2, <2>4 DEF Capacity, CapInv, RefusedInv, dstCapacity
<1>8. \/ call.cap < maxFHSize /\ Return("dstMaxSize_tooSmall", "idle") /\ written' = written
      \/ Return("allocation_failed", "idle") /\ written' = written
      \/ /\ call.cap >= maxFHSize /\ written' = headerSize(p) /\ Return("ok", "update")
         /\ cctx'.prefs = p1
  <2>1. cctx \in LZ4F_cctx_t
    BY DEF Inv, TypeOK
  <2> DEFINE c1 == [cctx EXCEPT !.prefs = p1, !.lz4Ctx = TRUE,
                                 !.maxBlockSize = LZ4F_getBlockSize(p.blockSizeID)]
             Begins(size, total) == [c1 EXCEPT !.maxBufferSize = size, !.tmpIn = 0,
                                        !.tmpInSize = 0, !.xxh = 0,
                                        !.totalInSize = total, !.cStage = 1]
  <2>2. ASSUME NEW size, NEW total PROVE Begins(size, total).prefs = p1
    BY <2>1 DEF LZ4F_cctx_t
  <2> HIDE DEF p1
  <2>3. c1.maxBufferSize = cctx.maxBufferSize /\ c1.totalInSize = cctx.totalInSize
    BY <2>1 DEF LZ4F_cctx_t
  <2>4. Begins(IF c1.maxBufferSize < requiredBuffSize(p) THEN requiredBuffSize(p)
               ELSE c1.maxBufferSize,
               IF TotalReset(p) THEN 0 ELSE c1.totalInSize).prefs = p1
    BY <2>2
  <2> QED BY <2>4 DEF LZ4F_compressBegin, p1
<1> QED BY <1>5, <1>6, <1>7, <1>8

\* An update is refused only when LZ4F_compressBound says so; within
\* LZ4F_compressFrame it is not.
LEMMA RefusedHasReason ==
    ASSUME Inv, Capacity, UpdateRefused \/ Abandon
    PROVE  Capacity'
<1>1. /\ UNCHANGED <<cctx, call, written>> /\ CapInv /\ RefusedInv
      /\ written \in Nat /\ written <= call.cap
  BY DEF UpdateRefused, Abandon, Capacity, CapInv, local
<1>2. pc' = "idle" /\ (Abandon => pc = "idle" /\ ret' = ret)
  BY DEF UpdateRefused, Abandon, Return
<1>3. CapInv'
  BY <1>1, <1>2 DEF CapInv
<1>4. CASE Abandon
  <2>1. RefusedInv'
    BY <1>1, <1>2, <1>4 DEF RefusedInv
  <2> QED BY <1>3, <2>1 DEF Capacity
<1>5. CASE UpdateRefused /\ ret' # "dstMaxSize_tooSmall"
  BY <1>3, <1>5 DEF Capacity, RefusedInv
<1>6. CASE UpdateRefused /\ ret' = "dstMaxSize_tooSmall"
  <2>1. /\ pc = "update" /\ cctx.cStage = 1
        /\ dstCapacity < LZ4F_compressBound_internal(call.size, cctx.prefs, cctx.tmpInSize)
    BY <1>6 DEF UpdateRefused, Return
  <2>2. Begun /\ call.op \in {"update", "frame"} /\ call.whole = (call.op = "frame")
    BY <2>1 DEF Inv, CallInv, Begun, InUpdate
  <2>3. call.size \in Nat /\ call.cap \in Int
    BY Facts, Overhead
  <2>4. LZ4F_compressBound_internal(call.size, cctx.prefs, cctx.tmpInSize)
           <= LZ4F_compressBound(call.size, cctx.prefs)
    BY <2>1, <2>2, <2>3, BoundCovers
  <2>5. /\ LZ4F_compressBound_internal(call.size, cctx.prefs, cctx.tmpInSize) \in Nat
        /\ LZ4F_compressBound(call.size, cctx.prefs) \in Int
    <3>1. cctx.prefs \in LZ4F_preferences_t /\ cctx.tmpInSize \in Nat
      BY Overhead
    <3>2. LZ4F_compressBound_internal(call.size, cctx.prefs, cctx.tmpInSize) \in Nat
      BY <2>3, <3>1, BoundIsWorst, Zenon
    <3>3. LZ4F_getBlockSize(cctx.prefs.blockSizeID) \in Nat /\ 0 \in Nat
      BY <3>1, BufferSizes, BlockSizes, EncoderAssumption
    <3>4. /\ LZ4F_compressBound_internal(call.size, cctx.prefs, 0) \in Nat
          /\ LZ4F_compressBound_internal(call.size, cctx.prefs,
                LZ4F_getBlockSize(cctx.prefs.blockSizeID)) \in Nat
      BY <2>3, <3>1, <3>3, BoundIsWorst, Zenon
    <3>5. LZ4F_compressBound(call.size, cctx.prefs) \in Nat
      BY <3>4 DEF LZ4F_compressBound
    <3> QED BY <3>2, <3>5
  <2>6. call.op = "update"
    <3> SUFFICES ASSUME call.whole PROVE FALSE
      BY <2>2
    <3>1. autoFlush /\ FitInv
      BY <2>2 DEF Inv, FrameInv, FitInv
    <3>2. cctx.tmpInSize = 0
      BY <3>1 DEF FitInv
    <3>3. dstCapacity >= LZ4F_compressBound_internal(call.size, cctx.prefs, cctx.tmpInSize)
      BY <1>1, <2>1, <3>2 DEF CapInv
    <3>4. dstCapacity \in Int
      BY <1>1, <2>3 DEF dstCapacity
    <3> QED BY <2>1, <2>5, <3>3, <3>4
  <2>7. written = 0 /\ dstCapacity = call.cap
    <3>1. written = 0
      BY <1>1, <2>1, <2>2, <2>6 DEF CapInv
    <3> QED BY <2>3, <3>1 DEF dstCapacity
  <2>8. call.cap < LZ4F_compressBound(call.size, cctx.prefs)
    BY <2>1, <2>3, <2>4, <2>5, <2>7
  <2>9. RefusedInv'
    BY <1>1, <1>2, <2>6, <2>8 DEF RefusedInv
  <2> QED BY <1>3, <2>9 DEF Capacity
<1> QED BY <1>4, <1>5, <1>6

\* The bound that was checked is what the blocks of the update need.
LEMMA UpdateHasRoom ==
    ASSUME Inv, Capacity, CompressUpdate
    PROVE  Capacity'
<1> DEFINE size == cctx.tmpInSize
           toCopy == blockSize - size
           n == IF size = 0 THEN 0 ELSE Lesser(toCopy, call.size)
           total == call.size + size
<1>1. /\ pc = "update" /\ cctx.cStage = 1 /\ CapInv
      /\ dstCapacity >= LZ4F_compressBound_internal(call.size, cctx.prefs, size)
      /\ srcPtr' = call.src + n
      /\ cctx' = [cctx EXCEPT !.tmpInSize = @ + n]
      /\ pc' = IF n > 0 /\ n = toCopy THEN "complete" ELSE "blocks"
      /\ UNCHANGED <<call, written>>
  BY DEF CompressUpdate, Capacity
<1>2. Begun /\ FitInv /\ cctx \in LZ4F_cctx_t
  BY <1>1 DEF Inv, CallInv, Begun, FrameInv, TypeOK
<1>3. /\ blockSize \in Nat /\ blockSize > 0 /\ size \in Nat /\ size < blockSize
      /\ (autoFlush => size = 0)
  BY <1>1, <1>2, Sizes DEF FitInv
<1>4. call.src \in Nat /\ call.size \in Nat /\ srcEnd = call.src + call.size
  BY Facts
<1>5. n \in Nat /\ n <= call.size /\ (size = 0 => n = 0) /\ (size # 0 /\ n # toCopy => n = call.size)
  BY <1>3, <1>4 DEF Lesser
<1>6. /\ Each' = Each /\ Trailer' = Trailer /\ blockSize' = blockSize
      /\ autoFlush' = autoFlush /\ srcEnd' = srcEnd
  <2>1. cctx'.prefs = cctx.prefs /\ cctx'.maxBlockSize = cctx.maxBlockSize
    BY <1>1, <1>2 DEF LZ4F_cctx_t
  <2> QED BY <1>1, <2>1 DEF Each, Trailer, blockSize, autoFlush, srcEnd
<1> HIDE DEF n
<1>7. /\ Left' = call.size - n /\ pc' \in {"complete", "blocks"}
      /\ Rest' = IF pc' = "complete" THEN call.size - n + blockSize ELSE call.size - n
  <2>1. Left' = srcEnd' - srcPtr' /\ pc' \in {"complete", "blocks"}
    BY <1>1 DEF Left, Cursor, InUpdate
  <2>2. Left' = call.size - n
    BY <1>1, <1>4, <1>5, <1>6, <2>1
  <2> QED BY <1>4, <1>5, <1>6, <1>3, <2>1, <2>2 DEF Rest
<1> DEFINE worst(t, flush) == Worst(Each, blockSize, t, flush)
<1>8. worst(total, autoFlush \/ call.size = 0) + Trailer <= call.cap - written
      /\ worst(total, autoFlush \/ call.size = 0) \in Nat
  BY <1>1, <1>2, <1>4, UpdateBound DEF dstCapacity
<1>9. \A flush : worst(0, flush) = 0
  <2>1. 0 \in Nat /\ 0 < blockSize /\ Each \in Nat
    BY <1>3, Overhead
  <2>2. \A flush : worst(0, flush) = IF flush /\ 0 > 0 THEN Each + 0 ELSE 0
    BY <1>3, <2>1, WorstOfLess
  <2> QED BY <2>2
<1>10. /\ Trailer \in Nat /\ call.cap \in Int /\ written \in Nat /\ written <= call.cap
  BY <1>1, Overhead DEF CapInv
<1>11. \/ Rest' = total /\ (call.size = 0 => total = 0)
       \/ Rest' = 0
  <2>1. CASE size = 0
    <3>1. n = 0 /\ pc' = "blocks"
      BY <1>1, <1>5, <2>1
    <3> QED BY <1>4, <1>7, <2>1, <3>1
  <2>2. CASE size # 0 /\ n = toCopy
    <3>1. n > 0 /\ pc' = "complete" /\ call.size > 0
      BY <1>1, <1>3, <1>4, <1>5, <2>2
    <3> QED BY <1>3, <1>4, <1>7, <2>2, <3>1
  <2>3. CASE size # 0 /\ n # toCopy
    <3>1. n = call.size /\ pc' = "blocks"
      BY <1>1, <1>5, <2>3
    <3> QED BY <1>4, <1>7, <3>1
  <2> QED BY <2>1, <2>2, <2>3
<1>12. worst(Rest', autoFlush) + Trailer <= call.cap - written /\ worst(Rest', autoFlush) \in Nat
  <2>1. CASE Rest' = 0 \/ call.size = 0
    <3>1. Rest' = 0
      BY <1>11, <2>1
    <3>2. worst(Rest', autoFlush) = 0
      BY <1>9, <3>1
    <3> QED BY <1>8, <1>10, <3>2
  <2>2. CASE ~(Rest' = 0 \/ call.size = 0)
    <3>1. Rest' = total /\ (autoFlush \/ call.size = 0) = autoFlush
      BY <1>11, <2>2 DEF autoFlush
    <3>2. worst(total, autoFlush \/ call.size = 0) = worst(Rest', autoFlush)
      BY <3>1, Zenon
    <3> QED BY <1>8, <3>2
  <2> QED BY <2>1, <2>2
<1> DEFINE w == worst(Rest', autoFlush)
<1> HIDE DEF w
<1>13. written + (w + Trailer) <= call.cap
  BY <1>10, <1>12 DEF w
<1>14. Worst(Each', blockSize', Rest', autoFlush') = w
  BY <1>6, Zenon DEF w
<1>15. CapInv'
  BY <1>1, <1>6, <1>7, <1>10, <1>13, <1>14 DEF CapInv
<1> QED BY <1>7, <1>15 DEF Capacity, RefusedInv

\* A block takes what it was given room for.
LEMMA BlockHasRoom ==
    ASSUME Inv, Capacity, CompleteTmpBlock \/ CompressSrcBlock
    PROVE  Capacity'
<1> DEFINE n == IF pc = "complete" THEN blockSize ELSE SrcBlock
           worst(t) == Worst(Each, blockSize, t, autoFlush)
<1>1. /\ pc \in {"complete", "blocks"} /\ pc' = "blocks" /\ CapInv
      /\ pc = "blocks" => MoreBlocks
      /\ call' = call
      /\ written' = written + BHSize + n + cctx.prefs.blockChecksumFlag * BFSize
      /\ srcPtr' = IF pc = "complete" THEN srcPtr ELSE srcPtr + n
  <2>1. CASE CompleteTmpBlock
    <3>1. pc = "complete"
      BY <2>1 DEF CompleteTmpBlock
    <3> QED BY <2>1, <3>1 DEF CompleteTmpBlock, LZ4F_makeBlock, Capacity
  <2>2. CASE CompressSrcBlock
    <3>1. pc = "blocks"
      BY <2>2 DEF CompressSrcBlock
    <3> QED BY <2>2, <3>1 DEF CompressSrcBlock, LZ4F_makeBlock, Capacity
  <2> QED BY <2>1, <2>2
<1>2. Begun /\ FrameInv /\ cctx \in LZ4F_cctx_t
  BY <1>1 DEF Inv, CallInv, Begun, TypeOK
<1>3. /\ Each' = Each /\ Trailer' = Trailer /\ blockSize' = blockSize
      /\ autoFlush' = autoFlush /\ srcEnd' = srcEnd
  <2>1. cctx'.prefs = cctx.prefs /\ cctx'.maxBlockSize = cctx.maxBlockSize
    BY <1>1, <1>2 DEF CompleteTmpBlock, CompressSrcBlock, LZ4F_cctx_t
  <2> QED BY <1>1, <2>1 DEF Each, Trailer, blockSize, autoFlush, srcEnd
<1>4. blockSize \in Nat /\ blockSize > 0
  BY <1>2, Sizes
<1>5. /\ Left = srcEnd - srcPtr /\ srcPtr <= srcEnd /\ srcPtr \in Nat /\ srcEnd \in Nat
  BY <1>1, <1>2, Facts DEF FrameInv, LeftInv, Left, Cursor, InUpdate
<1>6. n \in Nat /\ n > 0 /\ (n = blockSize \/ (autoFlush /\ n < blockSize /\ n = Rest))
      /\ Rest \in Nat /\ n <= Rest
  <2>0. Left \in Nat
    BY <1>5
  <2>1. CASE pc = "complete"
    <3>1. n = blockSize /\ Rest = Left + blockSize
      BY <2>1 DEF Rest
    <3> HIDE DEF n
    <3> QED BY <1>4, <2>0, <3>1
  <2>2. CASE pc = "blocks"
    <3>1. MoreBlocks /\ n = SrcBlock /\ Rest = Left /\ SrcBlock = Lesser(blockSize, Left)
      BY <1>1, <1>5, <2>0, <2>2 DEF Rest, SrcBlock
    <3> HIDE DEF n
    <3> QED BY <1>4, <2>0, <3>1 DEF MoreBlocks, Lesser
  <2> QED BY <1>1, <2>1, <2>2
<1>7. Rest' = Rest - n
  <2>1. Left' = srcEnd' - srcPtr' /\ Rest' = Left' + 0
    BY <1>1 DEF Left, Cursor, Rest, InUpdate
  <2>2. CASE pc = "complete"
    BY <1>1, <1>3, <1>4, <1>5, <2>1, <2>2 DEF Rest
  <2>3. CASE pc = "blocks"
    <3>1. Rest = srcEnd - srcPtr + 0 /\ Rest' = srcEnd - (srcPtr + n) + 0
      BY <1>1, <1>3, <1>5, <2>1, <2>3 DEF Rest
    <3> HIDE DEF n
    <3> QED BY <1>5, <1>6, <3>1
  <2> QED BY <1>1, <2>2, <2>3
<1> HIDE DEF n
<1>8. worst(Rest) = Each + n + worst(Rest - n) /\ worst(Rest - n) \in Nat
  <2>1. Each \in Nat /\ Rest - n \in Nat
    BY <1>6, Overhead
  <2>2. worst(Rest - n) \in Nat
    BY <1>4, <2>1, WorstIsNat
  <2>3. CASE n = blockSize
    BY <1>4, <1>6, <2>1, <2>2, <2>3, WorstOfMore
  <2>4. CASE n # blockSize
    <3>1. autoFlush /\ Rest < blockSize /\ Rest > 0 /\ Rest = n /\ Rest - n = 0 /\ 0 \in Nat
          /\ 0 < blockSize /\ ~(0 > 0)
      BY <1>4, <1>6, <2>4
    <3>2. worst(Rest) = Each + Rest
      BY <1>4, <1>6, <2>1, <3>1, WorstOfLess
    <3>3. worst(0) = 0
      <4>1. \A flush : Worst(Each, blockSize, 0, flush) = IF flush /\ 0 > 0 THEN Each + 0 ELSE 0
        BY <1>4, <2>1, <3>1, WorstOfLess
      <4> QED BY <3>1, <4>1
    <3>4. worst(Rest - n) = 0
      BY <3>1, <3>3, Zenon
    <3> HIDE DEF worst
    <3> QED BY <1>6, <2>1, <3>1, <3>2, <3>4
  <2> QED BY <2>3, <2>4
<1>9. Worst(Each', blockSize', Rest', autoFlush') = worst(Rest - n)
  BY <1>3, <1>7, Zenon
<1>10. written \in Nat /\ written + (worst(Rest) + Trailer) <= call.cap
  BY <1>1 DEF CapInv
<1> HIDE DEF worst
<1>11. written' = written + Each + n /\ written' \in Nat
  BY <1>1, <1>6, <1>10, Overhead, Overheads
<1>12. written' + (worst(Rest - n) + Trailer) <= call.cap /\ written' <= call.cap
  BY <1>6, <1>8, <1>10, <1>11, Overhead
<1>13. CapInv'
  BY <1>1, <1>3, <1>9, <1>11, <1>12 DEF CapInv
<1> QED BY <1>1, <1>13 DEF Capacity, RefusedInv

\* Steps that write nothing, and of which the call goes on or ends well.
LEMMA NothingWritten ==
    ASSUME Inv, Capacity,
           PreserveDictionary \/ UpdateKeepsLimits \/ FlushKeepsLimits \/ BufferTheRest
    PROVE  Capacity'
<1>1. /\ pc \in {"blocks", "limits", "left", "flushed"} /\ ret = "ok" /\ CapInv
      /\ UNCHANGED <<call, written>> /\ Begun /\ cctx \in LZ4F_cctx_t
  BY DEF PreserveDictionary, UpdateKeepsLimits, FlushKeepsLimits, KeepTmpInWithinLimits,
         BufferTheRest, local, Inv, CallInv, Begun, Capacity, TypeOK
<1>2. cctx'.prefs = cctx.prefs
  BY <1>1 DEF PreserveDictionary, UpdateKeepsLimits, FlushKeepsLimits, KeepTmpInWithinLimits,
              BufferTheRest, LZ4F_localSaveDict, LZ4F_cctx_t
<1>3. /\ pc = "blocks" => pc' \in {"limits", "idle"}
      /\ pc = "limits" => pc' = "left"
      /\ pc = "left" => pc' = IF call.whole THEN "flush" ELSE "idle"
      /\ pc = "flushed" => pc' \in {"idle", "end"}
      /\ pc' = "idle" => ret' \in {"ok", "GENERIC"}
  BY <1>1 DEF PreserveDictionary, UpdateKeepsLimits, FlushKeepsLimits, KeepTmpInWithinLimits,
              BufferTheRest, Return, AfterFlush
<1>4. Trailer' = Trailer
  BY <1>2 DEF Trailer
<1>5. /\ written \in Nat /\ written <= call.cap
      /\ pc \in {"blocks", "limits", "left"} => written + Trailer <= call.cap
  <2>1. ASSUME pc = "blocks" PROVE written + Trailer <= call.cap
    <3> DEFINE w == Worst(Each, blockSize, Rest, autoFlush)
    <3>1. blockSize \in Nat /\ blockSize > 0 /\ Each \in Nat
      BY <1>1, Sizes, Overhead
    <3>2. Rest \in Nat
      BY <1>1, <2>1, Facts DEF Rest, Inv, FrameInv, LeftInv, Left, Cursor, InUpdate
    <3>3. w \in Nat
      BY <3>1, <3>2, WorstIsNat
    <3>4. written + (w + Trailer) <= call.cap /\ written \in Nat
      BY <1>1, <2>1 DEF CapInv
    <3> HIDE DEF w
    <3> QED BY <3>3, <3>4, Overhead
  <2> QED BY <1>1, <2>1 DEF CapInv
<1>6. CapInv'
  <2>1. pc = "flushed" => written + Trailer <=
           IF call.whole THEN call.cap ELSE LZ4F_compressBound(0, cctx.prefs)
    BY <1>1 DEF CapInv
  <2> QED BY <1>1, <1>2, <1>3, <1>4, <1>5, <2>1 DEF CapInv
<1>7. RefusedInv'
  BY <1>3 DEF RefusedInv
<1> QED BY <1>6, <1>7 DEF Capacity

\* A flush is refused only when LZ4F_compressBound(0) says so.
LEMMA FlushHasRoom ==
    ASSUME Inv, Capacity, LZ4F_flush
    PROVE  Capacity'
<1>1. /\ pc = "flush" /\ UNCHANGED <<cctx, call, written>> /\ CapInv /\ Begun /\ FitInv
      /\ call.op \in {"flush", "end", "frame"} /\ call.whole = (call.op = "frame")
      /\ cctx.cStage = 1 /\ ret = "ok"
  BY DEF LZ4F_flush, local, Capacity, Inv, CallInv, Begun, FrameInv, FitInv, Flushing
<1> DEFINE bound == LZ4F_compressBound(0, cctx.prefs)
           size  == cctx.tmpInSize
<1>2. /\ bound \in Nat /\ Trailer <= bound
      /\ size > 0 => size + BHSize + BFSize <= bound
  BY <1>1, FlushBound
<1> HIDE DEF bound
<1>3. /\ written \in Nat /\ written <= call.cap /\ (~call.whole => written = 0)
      /\ call.whole => written + Trailer <= call.cap
  BY <1>1 DEF CapInv
<1>4. /\ Trailer \in Nat /\ call.cap \in Int /\ size \in Nat /\ BHSize \in Nat /\ BFSize \in Nat
  BY Overhead
<1>5. call.whole => size = 0
  BY <1>1 DEF FitInv
<1>6. Trailer' = Trailer /\ LZ4F_compressBound(0, cctx.prefs)' = bound
  BY <1>1 DEF Trailer, bound
<1>7. CASE size = 0
  <2>1. pc' = AfterFlush /\ ret' = "ok"
    BY <1>1, <1>7 DEF LZ4F_flush
  <2>2. pc' \in {"idle", "end"}
    BY <2>1 DEF AfterFlush
  <2>3. written + Trailer <= IF call.whole THEN call.cap ELSE bound
    BY <1>2, <1>3, <1>4
  <2>4. CapInv'
    BY <1>1, <1>3, <1>6, <2>2, <2>3 DEF CapInv, bound
  <2> QED BY <2>1, <2>4 DEF Capacity, RefusedInv
<1>8. CASE size # 0 /\ dstCapacity < size + BHSize + BFSize
  <2>1. pc' = "idle" /\ ret' = "dstMaxSize_tooSmall"
    BY <1>1, <1>8 DEF LZ4F_flush, Return
  <2>2. call.op \in {"flush", "end"} /\ ~call.whole /\ dstCapacity = call.cap
    <3>1. ~call.whole
      BY <1>5, <1>8
    <3>2. written = 0
      BY <1>3, <3>1
    <3>3. call.op \in {"flush", "end"}
      BY <1>1, <3>1, Zenon
    <3> QED BY <1>4, <3>1, <3>2, <3>3 DEF dstCapacity
  <2>3. call.cap < bound
    BY <1>2, <1>4, <1>8, <2>2
  <2>4. RefusedInv'
    BY <1>1, <1>6, <2>2, <2>3 DEF RefusedInv
  <2>5. CapInv'
    BY <1>1, <1>3, <2>1 DEF CapInv
  <2> QED BY <2>4, <2>5 DEF Capacity
<1>9. CASE size # 0 /\ ~(dstCapacity < size + BHSize + BFSize)
  <2>1. pc' = "block" /\ ret' = ret
    BY <1>1, <1>9 DEF LZ4F_flush
  <2>2. size > 0 /\ size + BHSize + BFSize <= call.cap
    BY <1>3, <1>4, <1>9 DEF dstCapacity
  <2>3. CapInv'
    BY <1>1, <1>3, <2>1, <2>2 DEF CapInv
  <2> QED BY <2>1, <2>3 DEF Capacity, RefusedInv
<1> QED BY <1>7, <1>8, <1>9

LEMMA FlushBlockHasRoom ==
    ASSUME Inv, Capacity, FlushBlock
    PROVE  Capacity'
<1> DEFINE bound == LZ4F_compressBound(0, cctx.prefs)
           size  == cctx.tmpInSize
<1>1. /\ pc = "block" /\ pc' = "flushed" /\ call' = call /\ CapInv /\ Begun /\ FitInv
      /\ written' = written + BHSize + size + cctx.prefs.blockChecksumFlag * BFSize
      /\ cctx \in LZ4F_cctx_t
  BY DEF FlushBlock, LZ4F_makeBlock, local, Capacity, Inv, CallInv, Begun, FrameInv, TypeOK
<1>2. bound \in Nat /\ (size > 0 => Each + size + Trailer <= bound)
  BY <1>1, FlushBound
<1> HIDE DEF bound
<1>3. ~call.whole
  BY <1>1 DEF FitInv
<1>4. written = 0 /\ size > 0 /\ size + BHSize + BFSize <= call.cap
  BY <1>1, <1>3 DEF CapInv
<1>5. /\ written' = Each + size /\ written' \in Nat /\ written' <= call.cap
      /\ written' + Trailer <= bound
  <2>1. size \in Nat /\ call.cap \in Int
    BY Overhead
  <2>2. written' = Each + size
    BY <1>1, <1>4, <2>1, Overhead, Overheads
  <2> QED BY <1>2, <1>4, <2>1, <2>2, Overhead
<1>6. cctx'.prefs = cctx.prefs
  BY <1>1 DEF FlushBlock, LZ4F_cctx_t
<1>7. Trailer' = Trailer /\ LZ4F_compressBound(0, cctx.prefs)' = bound
  BY <1>6 DEF Trailer, bound
<1>8. CapInv'
  BY <1>1, <1>3, <1>5, <1>6, <1>7 DEF CapInv, bound
<1> QED BY <1>1, <1>8 DEF Capacity, RefusedInv

LEMMA EndHasRoom ==
    ASSUME Inv, Capacity, LZ4F_compressEnd
    PROVE  Capacity'
<1>1. /\ pc = "end" /\ pc' = "idle" /\ call' = call /\ CapInv /\ Begun
      /\ call.op \in {"end", "frame"} /\ call.whole = (call.op = "frame")
  BY DEF LZ4F_compressEnd, Return, local, Capacity, Inv, CallInv, Begun
<1> DEFINE sum   == cctx.prefs.contentChecksumFlag * BFSize
           bound == LZ4F_compressBound(0, cctx.prefs)
<1>2. /\ written \in Nat /\ written <= call.cap
      /\ written + Trailer <= IF call.whole THEN call.cap ELSE bound
  BY <1>1 DEF CapInv
<1>3. /\ Trailer = BHSize + sum /\ BHSize \in Nat /\ sum \in Nat /\ call.cap \in Int
      /\ Trailer \in Nat
  <2>1. cctx.prefs \in LZ4F_preferences_t /\ call.cap \in Int /\ BHSize \in Nat
        /\ Trailer \in Nat
    BY Overhead
  <2> QED BY <2>1, Overheads DEF Trailer
<1>4. bound \in Nat
  BY <1>1, FlushBound
<1> HIDE DEF sum, bound
<1>5. CASE dstCapacity < BHSize + sum
  <2>1. cctx' = cctx /\ written' = written /\ ret' = "dstMaxSize_tooSmall"
    BY <1>5 DEF LZ4F_compressEnd, Return, sum
  <2>2. call.op = "end" /\ call.cap < bound
    <3>1. call.cap < written + Trailer
      BY <1>2, <1>3, <1>5 DEF dstCapacity
    <3>2. ~call.whole
      BY <1>2, <1>3, <3>1
    <3>3. written + Trailer <= bound
      BY <1>2, <3>2
    <3>4. call.op = "end"
      BY <1>1, <3>2, Zenon
    <3> QED BY <1>2, <1>3, <1>4, <3>1, <3>3, <3>4
  <2>3. RefusedInv'
    BY <1>1, <2>1, <2>2 DEF RefusedInv, bound
  <2>4. CapInv'
    BY <1>1, <1>2, <2>1 DEF CapInv
  <2> QED BY <2>3, <2>4 DEF Capacity
<1>6. CASE ~(dstCapacity < BHSize + sum)
  <2>1. written' = written + BHSize + sum /\ ret' \in {"frameSize_wrong", "ended"}
    BY <1>6 DEF LZ4F_compressEnd, Return, sum
  <2>2. written' \in Nat /\ written' <= call.cap
    BY <1>2, <1>3, <1>6, <2>1 DEF dstCapacity
  <2> QED BY <1>1, <2>1, <2>2 DEF Capacity, CapInv, RefusedInv
<1> QED BY <1>5, <1>6

\* No call writes more than it was given room for, and a caller that gives what
\* LZ4F_compressBound or LZ4F_compressFrameBound asks for is never refused: the
\* promise of lz4frame.h, for every size of window, block, header and input.
THEOREM BoundsAreEnough == Spec => []CapacityIsEnough
<1>1. Init => Capacity
  <2> SUFFICES ASSUME Init PROVE Capacity
    OBVIOUS
  <2>1. written = 0 /\ call.cap = 0 /\ pc = "idle" /\ ret = "ok"
    BY DEF Init, NoCall
  <2> QED BY <2>1 DEF Capacity, CapInv, RefusedInv
<1>2. Inv /\ Capacity /\ [Next]_vars => Capacity'
  <2> SUFFICES ASSUME Inv, Capacity, [Next]_vars PROVE Capacity'
    OBVIOUS
  <2>1. CASE UNCHANGED vars
    <3>1. UNCHANGED <<cctx, call, pc, written, ret, srcPtr>>
      BY <2>1 DEF vars, local
    <3> QED BY <3>1 DEF Capacity, CapInv, RefusedInv, Each, Trailer, Rest, Left, Cursor,
                        srcEnd, blockSize, autoFlush, dstCapacity
  <2>2. CASE Next
    BY <2>2, CallsHaveRoom, BeginHasRoom, RefusedHasReason, UpdateHasRoom, BlockHasRoom,
       NothingWritten, FlushHasRoom, FlushBlockHasRoom, EndHasRoom DEF Next
  <2> QED BY <2>1, <2>2
<1>3. Capacity => CapacityIsEnough
  BY DEF Capacity, CapInv, RefusedInv, CapacityIsEnough
<1> QED BY <1>1, <1>2, <1>3, EncoderInvariant, PTL DEF Spec

=============================================================================
