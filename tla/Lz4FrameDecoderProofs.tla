------------------------ MODULE Lz4FrameDecoderProofs ------------------------
(* Theorems about Lz4FrameDecoder: for every size of window, block and buffer, *)
(* every input of whole frames, damaged or not, and every way to cut input and *)
(* output.                                                                     *)
EXTENDS Lz4FrameDecoder, FiniteSetTheorems, WellFoundedInduction, TLAPS

-----------------------------------------------------------------------------
(* The sizes of blocks and buffers                                           *)

\* A set of naturals that is not empty has a least element.
LEMMA LeastNatural ==
    ASSUME NEW T, T \subseteq Nat, T # {}
    PROVE  \E m \in T : \A k \in T : m <= k
<1>1. IsWellFoundedOn(OpToRel(<, Nat), Nat)
  BY NatLessThanWellFounded
<1>2. PICK m \in T : \A k \in T : ~(<<k, m>> \in OpToRel(<, Nat))
  BY <1>1, WFMin
<1>3. \A k \in T : ~(k < m)
  BY <1>2 DEF OpToRel
<1> QED BY <1>3

\* Max is what it is meant to be: when a set is enumerated, the shortest prefix
\* of it without a greatest element would not be the shortest.
LEMMA MaxIsGreatest ==
    ASSUME NEW S, S \subseteq Nat, S # {}, NEW n \in Nat, NEW f \in [1..n -> S],
           \A x \in S : \E i \in 1..n : f[i] = x
    PROVE  Max(S) \in S /\ \A x \in S : x <= Max(S)
<1> DEFINE Top(k) == \E j \in 1..k : \A i \in 1..k : f[i] <= f[j]
           Bad == {k \in 1..n : ~Top(k)}
<1>1. \A i \in 1..n : f[i] \in Nat
  OBVIOUS
<1>2. Bad = {}
  <2> SUFFICES ASSUME Bad # {} PROVE FALSE
    OBVIOUS
  <2>0. Bad \subseteq Nat
    OBVIOUS
  <2> HIDE DEF Bad
  <2>1. PICK k \in Bad : \A l \in Bad : k <= l
    BY <2>0, LeastNatural
  <2> USE DEF Bad
  <2>a. k \in 1..n /\ ~Top(k)
    BY <2>1
  <2>2. k # 1
    <3>1. Top(1)
      <4>1. 1 \in 1..n /\ f[1] \in Nat /\ \A i \in 1..1 : i = 1 BY <1>1, <2>a
      <4>2. \A i \in 1..1 : f[i] <= f[1] BY <4>1
      <4> QED BY <4>2
    <3> QED BY <2>a, <3>1
  <2>3. k - 1 \in 1..n /\ ~(k <= k - 1)
    BY <2>a, <2>2
  <2>b. Top(k - 1)
    BY <2>1, <2>3
  <2>4. PICK j \in 1..(k - 1) : \A i \in 1..(k - 1) : f[i] <= f[j]
    BY <2>b
  <2>5. /\ f[j] \in Nat /\ f[k] \in Nat /\ j \in 1..k /\ k \in 1..k
        /\ \A i \in 1..k : f[i] \in Nat /\ (i = k \/ i \in 1..(k - 1))
    BY <1>1, <2>a, <2>3
  <2>6. CASE f[j] <= f[k]
    <3>1. ASSUME NEW i \in 1..k PROVE f[i] <= f[k]
      <4>1. f[i] \in Nat /\ (i = k \/ f[i] <= f[j]) BY <2>4, <2>5
      <4>2. f[i] \in Nat /\ f[j] \in Nat /\ f[k] \in Nat /\ (f[i] = f[k] \/ f[i] <= f[j])
        BY <2>5, <4>1
      <4> QED BY ONLY <2>6, <4>2
    <3> QED BY <2>a, <2>5, <3>1
  <2>7. CASE ~(f[j] <= f[k])
    <3>1. ASSUME NEW i \in 1..k PROVE f[i] <= f[j]
      <4>1. f[i] \in Nat /\ (i = k \/ f[i] <= f[j]) BY <2>4, <2>5
      <4>2. f[i] \in Nat /\ f[j] \in Nat /\ f[k] \in Nat /\ (f[i] = f[k] \/ f[i] <= f[j])
        BY <2>5, <4>1
      <4> QED BY ONLY <2>7, <4>2
    <3> QED BY <2>a, <2>5, <3>1
  <2> QED BY <2>6, <2>7
<1>3. n \in 1..n
  <2>1. PICK x \in S : TRUE OBVIOUS
  <2> QED BY <2>1
<1>4. Top(n)
  BY <1>2, <1>3
<1>5. PICK j \in 1..n : \A i \in 1..n : f[i] <= f[j]
  BY <1>4
<1>6. f[j] \in S /\ \A x \in S : f[j] >= x
  BY <1>1, <1>5
<1>7. Max(S) \in S /\ \A x \in S : Max(S) >= x
  BY <1>6 DEF Max
<1> QED BY <1>7

\* Every size of block is a natural between KB64 and the greatest of them.
LEMMA BlockSizes ==
    /\ MaxBlock \in Nat /\ KB64 \in Nat \ {0}
    /\ \A id \in DOMAIN blockSizes : blockSizes[id] \in Nat /\ blockSizes[id] \in KB64..MaxBlock
<1> DEFINE sizes == {blockSizes[id] : id \in DOMAIN blockSizes}
<1>1. PICK n \in Nat : ExistsSurjection(1..n, DOMAIN blockSizes)
  BY FS_NatSurjection, DecoderAssumption
<1>2. PICK f \in [1..n -> DOMAIN blockSizes] :
        \A id \in DOMAIN blockSizes : \E i \in 1..n : f[i] = id
  BY <1>1 DEF ExistsSurjection, Surjection
<1> DEFINE g == [i \in 1..n |-> blockSizes[f[i]]]
<1>3. sizes \subseteq Nat /\ sizes # {}
  BY DecoderAssumption
<1>4. g \in [1..n -> sizes]
  BY <1>2
<1>5. \A x \in sizes : \E i \in 1..n : g[i] = x
  BY <1>2
<1> HIDE DEF sizes, g
<1>6. Max(sizes) \in sizes /\ \A x \in sizes : x <= Max(sizes)
  BY <1>3, <1>4, <1>5, MaxIsGreatest
<1>7. MaxBlock = Max(sizes)
  BY DEF MaxBlock, sizes
<1>8. MaxBlock \in Nat /\ KB64 \in Nat \ {0}
  BY <1>3, <1>6, <1>7, DecoderAssumption
<1>9. ASSUME NEW id \in DOMAIN blockSizes
      PROVE  blockSizes[id] \in Nat /\ blockSizes[id] \in KB64..MaxBlock
  <2>1. blockSizes[id] \in sizes BY DEF sizes
  <2>2. blockSizes[id] <= MaxBlock BY <1>6, <1>7, <2>1
  <2>3. blockSizes[id] \in Nat /\ blockSizes[id] >= KB64
    BY DecoderAssumption
  <2> QED BY <1>8, <2>2, <2>3
<1> QED BY <1>8, <1>9

\* The caller's memory begins behind the greatest tmpOutBuffer.
LEMMA Addresses ==
    /\ TmpEnd \in Nat /\ DstAt \in Nat /\ DstEnd \in Nat /\ MaxDst \in Nat
    /\ TmpEnd = MaxBlock + 2 * KB64 /\ DstAt = TmpEnd + 1 /\ DstEnd = DstAt + MaxDst
BY BlockSizes, DecoderAssumption DEF TmpEnd, DstAt, DstEnd

\* A buffer that was made for one size of block and holds what another needs has
\* a tmpIn that fits as well.
LEMMA TmpInFits ==
    ASSUME NEW i \in DOMAIN blockSizes, NEW j \in DOMAIN blockSizes,
           NEW size \in {blockSizes[i], blockSizes[i] + 2 * KB64}, blockSizes[j] <= size
    PROVE  blockSizes[j] <= blockSizes[i]
<1>1. i \in Nat /\ j \in Nat /\ (i < j => blockSizes[j] > blockSizes[i] + 2 * KB64)
      /\ (j < i => blockSizes[i] > blockSizes[j] + 2 * KB64)
  BY DecoderAssumption
<1> QED BY <1>1, BlockSizes

-----------------------------------------------------------------------------
(* Content in memory: from address at on, n bytes of it, the first at the     *)
(* place first.                                                               *)

Holds(m, at, n, first) == \A i \in 0..(n - 1) : m[at + i] = first + i

\* Memory that is the same holds the same.
LEMMA HoldsSame ==
    ASSUME NEW m, NEW m2, NEW at \in Int, NEW n \in Int, NEW first \in Int,
           Holds(m, at, n, first),
           \A a \in at..(at + n - 1) : m2[a] = m[a]
    PROVE  Holds(m2, at, n, first)
<1> SUFFICES ASSUME NEW i \in 0..(n - 1) PROVE m2[at + i] = first + i
  BY DEF Holds
<1>1. at + i \in at..(at + n - 1)
  OBVIOUS
<1> QED BY <1>1 DEF Holds

\* What is copied is then there; what lies elsewhere stays.
LEMMA HoldsCopied ==
    ASSUME NEW m, NEW to \in Int, NEW from \in Int, NEW n \in Int,
           to..(to + n - 1) \subseteq DOMAIN m,
           NEW b \in Int, NEW k \in Int, NEW f \in Int, Holds(m, b, k, f),
           from <= b, b + k <= from + n, NEW c \in Int, c - b = to - from
    PROVE  Holds(Copied(m, to, from, n), c, k, f)
<1> SUFFICES ASSUME NEW i \in 0..(k - 1)
             PROVE  Copied(m, to, from, n)[c + i] = f + i
  BY DEF Holds
<1>1. c + i \in to..(to + n - 1) /\ from + (c + i) - to = b + i
  OBVIOUS
<1>2. Copied(m, to, from, n)[c + i] = m[from + (c + i) - to]
  BY <1>1 DEF Copied
<1> QED BY <1>1, <1>2 DEF Holds

\* A copy to one place leaves alone what is held at another.
LEMMA HoldsElsewhere ==
    ASSUME NEW m, NEW to \in Int, NEW from \in Int, NEW n \in Int,
           NEW at \in Int, NEW k \in Int, NEW first \in Int, Holds(m, at, k, first),
           at..(at + k - 1) \subseteq DOMAIN m,
           at + k <= to \/ to + n <= at
    PROVE  Holds(Copied(m, to, from, n), at, k, first)
<1>1. \A a \in at..(at + k - 1) : a \in DOMAIN m /\ a \notin to..(to + n - 1)
  OBVIOUS
<1>2. \A a \in at..(at + k - 1) : Copied(m, to, from, n)[a] = m[a]
  BY <1>1 DEF Copied
<1> QED BY <1>2, HoldsSame

\* Of two pieces of content, the second where the first ends or within it, any
\* part that does not begin before them.
LEMMA HoldsOf ==
    ASSUME NEW m, NEW a \in Int, NEW n \in Int, NEW f \in Int, Holds(m, a, n, f),
           NEW b \in Int, NEW k \in Int, NEW g \in Int, Holds(m, b, k, g),
           b <= a + n, g - b = f - a,
           NEW c \in Int, NEW l \in Int, NEW h \in Int, c + l <= b + k, h - c = f - a,
           (a <= c /\ n >= 0) \/ b <= c
    PROVE  Holds(m, c, l, h)
<1> SUFFICES ASSUME NEW i \in 0..(l - 1) PROVE m[c + i] = h + i
  BY DEF Holds
<1>1. CASE c + i >= b
  <2>1. c + i - b \in 0..(k - 1) /\ b + (c + i - b) = c + i /\ g + (c + i - b) = h + i
    BY <1>1
  <2>2. m[b + (c + i - b)] = g + (c + i - b)
    BY <2>1 DEF Holds
  <2> QED BY <2>1, <2>2
<1>2. CASE c + i < b
  <2>1. c + i - a \in 0..(n - 1) /\ a + (c + i - a) = c + i /\ f + (c + i - a) = h + i
    BY <1>2
  <2>2. m[a + (c + i - a)] = f + (c + i - a)
    BY <2>1 DEF Holds
  <2> QED BY <2>1, <2>2
<1> QED BY <1>1, <1>2

\* A part of a piece of content is content.
LEMMA HoldsIn ==
    ASSUME NEW m, NEW a \in Int, NEW n \in Int, NEW f \in Int, Holds(m, a, n, f),
           NEW c \in Int, NEW l \in Int, NEW h \in Int, a <= c, c + l <= a + n, h - c = f - a
    PROVE  Holds(m, c, l, h)
<1> SUFFICES ASSUME NEW i \in 0..(l - 1) PROVE m[c + i] = h + i
  BY DEF Holds
<1>1. c + i - a \in 0..(n - 1) /\ a + (c + i - a) = c + i /\ f + (c + i - a) = h + i
  OBVIOUS
<1>2. m[a + (c + i - a)] = f + (c + i - a)
  BY <1>1 DEF Holds
<1> QED BY <1>1, <1>2

\* A copy writes no other address.
LEMMA CopiedDomain ==
    ASSUME NEW m, NEW to, NEW from, NEW n
    PROVE  DOMAIN Copied(m, to, from, n) = DOMAIN m
BY DEF Copied

-----------------------------------------------------------------------------
(* The inductive invariant. First the types, and the sizes of buffers.       *)

Before   == {"getFrameHeader", "storeFrameHeader", "getSFrameSize", "storeSFrameSize",
             "skipSkippable"}
Decoding == InBlocks \ {"init"}
AtEnd    == {"getSuffix", "storeSuffix"}
Stages   == Before \cup InBlocks \cup AtEnd

\* The content given so far, and what of a decoded block is still in tmpOut.
Given   == sent + (dst.at - dst.start)
Pending == IF dctx.dStage = "flushOut" THEN dctx.tmpOutSize - dctx.tmpOutStart ELSE 0

Contexts(stored) ==
    [frameInfo : FrameInfo, dStage : Stages, frameRemainingSize : Int,
     maxBlockSize : Nat, maxBufferSize : Nat, tmpInCapacity : Nat,
     stored : {stored}, tmpInSize : Nat, tmpInTarget : Nat,
     dict : Nat \cup {NULL}, dictSize : Nat, tmpOut : Nat, tmpOutSize : Nat,
     tmpOutStart : Nat, hashed : Nat]

Errors == {"header_invalid", "allocation_failed", "maxBlockSize_invalid", "misread",
           "blockChecksum_invalid", "decompressionFailed", "frameSize_wrong",
           "contentChecksum_invalid"}

RoomOK ==
    /\ dst \in [start : Int, at : Int, end : Int, stable : BOOLEAN]
    /\ \/ dst.start = NULL /\ dst.at = NULL /\ dst.end = NULL
       \/ /\ DstAt <= dst.start /\ dst.start <= dst.at /\ dst.at <= dst.end
          /\ dst.end <= DstEnd + 1

TypeOK ==
    /\ stream \in Streams /\ srcPtr \in Nat /\ srcStart \in Nat /\ srcEnd \in Nat
    /\ RoomOK
    /\ dctx \in Contexts(dctx.stored)
    /\ DOMAIN mem = 0..DstEnd
    /\ pc \in {"idle", "run", "preserve"}
    /\ ret \in [error : Errors \cup {"none"}, hint : Nat]
    /\ arena \in DstAt..(DstEnd + 1) /\ sent \in Nat
    /\ asserts = TRUE

\* The call: it reads within its input; what it writes begins where content may.
CallInv ==
    /\ srcPtr <= Total + 1
    /\ pc # "idle" => /\ srcStart <= srcPtr /\ srcPtr <= srcEnd /\ srcEnd <= Total + 1
                      /\ ~failed
    /\ pc # "idle" /\ dst.at # NULL => dst.start = arena
    /\ pc = "idle" /\ ~failed => dst.at = dst.start

\* The buffers are those of one size of block, and the current frame fits in.
BufferInv ==
    /\ \/ dctx.maxBufferSize = 0
       \/ \E id \in DOMAIN blockSizes :
             /\ dctx.tmpInCapacity = blockSizes[id] + BFSize
             /\ dctx.maxBufferSize \in {blockSizes[id], blockSizes[id] + 2 * KB64}
    /\ dctx.dStage \notin Before =>
          /\ dctx.frameInfo.blockSizeID \in DOMAIN blockSizes
          /\ dctx.maxBlockSize = blockSizes[dctx.frameInfo.blockSizeID]
    /\ dctx.dStage \in Decoding =>
          /\ bufferNeeded <= dctx.maxBufferSize
          /\ dctx.tmpOutSize <= dctx.maxBlockSize /\ dctx.tmpOutStart <= dctx.tmpOutSize
          /\ dctx.tmpOut <= (IF dctx.frameInfo.linked THEN 2 * KB64 ELSE 0)
TargetInv ==
    /\ dctx.dStage \in {"getCBlock", "storeCBlock"} =>
          dctx.tmpInTarget <= dctx.maxBlockSize + BFSize
    /\ dctx.dStage \in {"storeFrameHeader", "storeSFrameSize"} =>
          dctx.tmpInTarget <= maxFHSize

\* Where the dictionary is: nowhere, in tmpOutBuffer, or in content that stays.
Stays == IF pc # "idle" /\ dst.at # NULL THEN dst.at ELSE arena
DictInv ==
    /\ dctx.dStage \in Before \cup {"init"} \/ ~dctx.frameInfo.linked =>
          dctx.dict = NULL /\ dctx.dictSize = 0
    /\ dctx.dStage \in Decoding =>
          \/ dctx.dict = NULL /\ dctx.dictSize = 0
          \/ dctx.dict = 0 /\ dctx.dictSize <= dctx.maxBufferSize
          \/ DstAt <= dctx.dict /\ (~failed => dctx.dict + dctx.dictSize <= Stays)
    /\ dctx.dStage = "flushOut" /\ dctx.frameInfo.linked /\ dctx.dict = 0 =>
          dctx.dictSize = dctx.tmpOut + dctx.tmpOutStart

-----------------------------------------------------------------------------
(* Which field the next byte belongs to. All fields before it are fine.      *)

Fine(i) == \A j \in 1..(i - 1) : stream[j].ok
Reads(i, kinds) == i \in DOMAIN stream /\ stream[i].k \in kinds /\ Fine(i)
InFrame(i, kinds) == Reads(i, kinds) /\ stream[i].info = dctx.frameInfo
Stores(c, n, i) ==
    \A j \in n..(c.tmpInSize - 1) : j \in DOMAIN c.stored /\ c.stored[j] = stream[i].at + j
StoredFrom(n, i) == Stores(dctx, n, i)
Collects(i, n) ==
    /\ srcPtr = stream[i].at + dctx.tmpInSize /\ dctx.tmpInSize < n
    /\ StoredFrom(0, i)
SumSize == IF dctx.frameInfo.blockSum THEN BFSize ELSE 0

AtFrame ==
    \/ srcPtr = Total + 1
    \/ \E i \in DOMAIN stream : Reads(i, {"frame", "skip"}) /\ srcPtr = stream[i].at
InHeader ==
    \E i \in DOMAIN stream :
        /\ Reads(i, {"frame", "skip"}) /\ Collects(i, dctx.tmpInTarget)
        /\ \/ dctx.tmpInTarget = minFHSize
           \/ stream[i].k = "frame" /\ dctx.tmpInTarget = stream[i].size
AtSkipSize ==
    \E i \in DOMAIN stream : Reads(i, {"skip"}) /\ srcPtr = stream[i].at + 4
InSkipSize ==
    \E i \in DOMAIN stream :
        /\ Reads(i, {"skip"}) /\ srcPtr = stream[i].at + dctx.tmpInSize
        /\ 4 <= dctx.tmpInSize /\ dctx.tmpInSize < 8 /\ dctx.tmpInTarget = 8
        /\ StoredFrom(4, i)
InSkipped ==
    \E i \in DOMAIN stream :
        /\ Reads(i, {"skip"})
        /\ srcPtr + dctx.tmpInTarget = stream[i].at + 8 + stream[i].n
        /\ dctx.tmpInTarget > 0 \/ (pc = "run" /\ srcPtr > srcStart)
AtBlock ==
    \E i \in DOMAIN stream :
        /\ InFrame(i, {"head", "end"}) /\ srcPtr = stream[i].at
        /\ stream[i].from = Given + Pending + 1
InBlockHeader ==
    \E i \in DOMAIN stream :
        /\ InFrame(i, {"head", "end"}) /\ Collects(i, BHSize)
        /\ stream[i].from = Given + 1
InRaw ==
    \E i \in DOMAIN stream :
        /\ InFrame(i, {"raw"}) /\ stream[i].at <= srcPtr
        /\ srcPtr + dctx.tmpInTarget = stream[i].at + stream[i].size
        /\ Given + dctx.tmpInTarget + 1 = stream[i].from + stream[i].n
InBlockSum ==
    \E i \in DOMAIN stream :
        /\ InFrame(i, {"bsum"}) /\ Collects(i, BFSize)
        /\ stream[i].from = Given + 1
AtPacked ==
    \E i \in DOMAIN stream :
        /\ InFrame(i, {"block"}) /\ srcPtr = stream[i].at
        /\ dctx.tmpInTarget = stream[i].size + SumSize
        /\ stream[i].from = Given + 1
InPacked ==
    \E i \in DOMAIN stream :
        /\ InFrame(i, {"block"}) /\ Collects(i, dctx.tmpInTarget)
        /\ dctx.tmpInTarget = stream[i].size + SumSize
        /\ stream[i].from = Given + 1
AfterEnd ==
    /\ pc = "run" /\ srcPtr > srcStart
    /\ \E i \in DOMAIN stream :
          /\ InFrame(i, {"end"}) /\ srcPtr = stream[i].at + stream[i].size
          /\ stream[i].n = Given
InSuffix ==
    \E i \in DOMAIN stream :
        /\ InFrame(i, {"sum"}) /\ Collects(i, BFSize) /\ stream[i].n = Given
        /\ dctx.frameInfo.contentSum

PlaceInv ==
    /\ dctx.dStage = "getFrameHeader" /\ pc # "preserve" => AtFrame
    /\ dctx.dStage = "storeFrameHeader" => InHeader
    /\ dctx.dStage = "getSFrameSize" => AtSkipSize
    /\ dctx.dStage = "storeSFrameSize" => InSkipSize
    /\ dctx.dStage = "skipSkippable" => InSkipped
    /\ dctx.dStage \in {"init", "getBlockHeader", "flushOut"} => AtBlock
    /\ dctx.dStage = "storeBlockHeader" => InBlockHeader
    /\ dctx.dStage = "copyDirect" => InRaw
    /\ dctx.dStage = "getBlockChecksum" => InBlockSum
    /\ dctx.dStage = "getCBlock" => AtPacked
    /\ dctx.dStage = "storeCBlock" => InPacked
    /\ dctx.dStage = "getSuffix" => AfterEnd
    /\ dctx.dStage = "storeSuffix" => InSuffix

\* A frame starts with nothing given; it counts what it has given.
CountInv ==
    /\ dctx.dStage \in (Before \cup {"init"}) \ {"getFrameHeader"} => Given = 0
    /\ dctx.dStage = "getFrameHeader" /\ pc = "run" => Given = 0
    /\ dctx.dStage \in Decoding \cup AtEnd /\ dctx.frameInfo.contentSum =>
          dctx.hashed = Given + Pending
    /\ dctx.dStage \notin Before /\ dctx.frameInfo.contentSize # 0 =>
          dctx.frameRemainingSize = dctx.frameInfo.contentSize - (Given + Pending)
    /\ dctx.dStage = "storeSuffix" => dctx.frameRemainingSize = 0
RemainingInv ==
    ~carried /\ (dctx.dStage \in Before \/ dctx.frameInfo.contentSize = 0) =>
        dctx.frameRemainingSize = 0

DoneInv ==
    pc = "preserve" => (ret.hint = 0 <=> dctx.dStage = "getFrameHeader")
FailInv ==
    failed => \/ ret.error = "allocation_failed"
              \/ carried /\ ret.error = "frameSize_wrong" /\ dctx.frameInfo.contentSize = 0
              \/ \E i \in DOMAIN stream : ~stream[i].ok

-----------------------------------------------------------------------------
(* What memory holds.                                                        *)

\* The window before what comes next is at the end of the dictionary, less
\* what of it is still in tmpOut.
Window == Lesser(Given, KB64 - Pending)
WindowInv ==
    dctx.dStage \in Decoding /\ dctx.frameInfo.linked =>
        /\ Window <= dctx.dictSize
        /\ Holds(mem, dctx.dict + dctx.dictSize - Window, Window, Given - Window + 1)
\* tmpOut holds a whole block, with room before it for the window.
OutInv ==
    dctx.dStage = "flushOut" =>
        /\ dctx.tmpOutStart <= Given
        /\ Holds(mem, dctx.tmpOut, dctx.tmpOutSize, Given - dctx.tmpOutStart + 1)
        /\ dctx.frameInfo.linked =>
              \/ dctx.tmpOut >= Given - dctx.tmpOutStart
              \/ dctx.tmpOut >= KB64 - dctx.tmpOutSize

SizeInv == TypeOK /\ CallInv /\ BufferInv /\ TargetInv /\ DictInv
ReadInv == PlaceInv /\ CountInv /\ WindowInv /\ OutInv
PastInv == RemainingInv /\ DoneInv /\ FailInv
Inv ==
    /\ SizeInv /\ PastInv
    /\ ~failed => ReadInv
    /\ OutputIsContent /\ CompleteMeansWhole /\ Progress

-----------------------------------------------------------------------------
(* The fields of the input                                                   *)

\* What StreamsAssumption says of one field.
LEMMA FieldTypes ==
    ASSUME stream \in Streams
    PROVE  /\ Len(stream) \in Nat /\ Len(stream) >= 1 /\ DOMAIN stream = 1..Len(stream)
           /\ \A i \in DOMAIN stream :
                 /\ stream[i] \in Fields /\ stream[i].k # "other"
                 /\ stream[i].at \in Nat /\ stream[i].size \in Nat /\ stream[i].n \in Nat
                 /\ stream[i].from \in Nat /\ stream[i].info \in FrameInfo
                 /\ stream[i].ok \in BOOLEAN /\ stream[i].raw \in BOOLEAN
                 /\ Whole(stream[i]) /\ Ends(stream[i])
           /\ \A i, j \in DOMAIN stream : i < j => stream[i].at + stream[i].size <= stream[j].at
           /\ stream[1].at = 1 /\ Begins(stream[1]) /\ stream[Len(stream)].last
<1>1. /\ stream \in Seq(Fields) /\ stream # <<>>
      /\ stream[1].at = 1 /\ Begins(stream[1]) /\ stream[Len(stream)].last
      /\ \A i \in DOMAIN stream : stream[i].k # "other" /\ Whole(stream[i]) /\ Ends(stream[i])
      /\ \A i, j \in DOMAIN stream : i < j => stream[i].at + stream[i].size <= stream[j].at
  BY StreamsAssumption
<1>2. Len(stream) \in Nat /\ Len(stream) >= 1 /\ DOMAIN stream = 1..Len(stream)
  BY <1>1
<1>3. \A i \in DOMAIN stream : stream[i] \in Fields
  BY <1>1
<1>4. \A f \in Fields : /\ f.at \in Nat /\ f.size \in Nat /\ f.n \in Nat /\ f.from \in Nat
                        /\ f.info \in FrameInfo /\ f.ok \in BOOLEAN /\ f.raw \in BOOLEAN
  BY DEF Fields
<1> QED BY <1>1, <1>2, <1>3, <1>4

\* Only one field begins with a byte of the input.
LEMMA FieldIs ==
    ASSUME stream \in Streams, NEW i \in DOMAIN stream, NEW buf, NEW from \in Int,
           NEW n \in Nat \ {0}, n <= stream[i].size,
           \A j \in 0..(n - 1) : buf[from + j] = stream[i].at + j
    PROVE  Field(buf, from, n) = stream[i]
<1> DEFINE fs == {l \in DOMAIN stream :
                     /\ n <= stream[l].size
                     /\ \A j \in 0..(n - 1) : buf[from + j] = stream[l].at + j}
<1>1. i \in fs
  OBVIOUS
<1>2. ASSUME NEW l \in fs PROVE l = i
  <2>1. 0 \in 0..(n - 1)
    OBVIOUS
  <2>2. stream[l].at + 0 = stream[i].at + 0
    BY <2>1
  <2>3. /\ i \in Nat /\ l \in Nat /\ stream[i].at \in Nat /\ stream[l].at \in Nat
        /\ stream[i].size \in Nat /\ stream[l].size \in Nat
        /\ stream[l].size >= n /\ stream[i].size >= n
    BY FieldTypes
  <2>4. ~(i < l)
    <3> SUFFICES ASSUME i < l PROVE FALSE
      OBVIOUS
    <3>1. stream[i].at + stream[i].size <= stream[l].at
      BY FieldTypes
    <3> QED BY <2>2, <2>3, <3>1
  <2>5. ~(l < i)
    <3> SUFFICES ASSUME l < i PROVE FALSE
      OBVIOUS
    <3>1. stream[l].at + stream[l].size <= stream[i].at
      BY FieldTypes
    <3> QED BY <2>2, <2>3, <3>1
  <2> QED BY <2>3, <2>4, <2>5
<1>3. (CHOOSE l \in fs : TRUE) = i
  BY <1>1, <1>2
<1> QED BY <1>1, <1>3 DEF Field

\* A field that does not end a frame has another behind it.
LEMMA NextField ==
    ASSUME stream \in Streams, NEW i \in DOMAIN stream
    PROVE  /\ ~stream[i].last => i # Len(stream)
           /\ i # Len(stream) => /\ i + 1 \in DOMAIN stream
                                 /\ stream[i + 1].at = stream[i].at + stream[i].size
                                 /\ Follows(stream[i], stream[i + 1])
<1>1. \A l \in 1..(Len(stream) - 1) :
          stream[l + 1].at = stream[l].at + stream[l].size /\ Follows(stream[l], stream[l + 1])
  BY StreamsAssumption
<1>2. i \in 1..Len(stream) /\ Len(stream) \in Nat /\ stream[Len(stream)].last
      /\ DOMAIN stream = 1..Len(stream)
  BY FieldTypes
<1> QED BY <1>1, <1>2

\* Behind a field that is fine, all fields so far are.
LEMMA FineNext ==
    ASSUME stream \in Streams, NEW i \in DOMAIN stream, Fine(i), stream[i].ok
    PROVE  Fine(i + 1)
<1> SUFFICES ASSUME NEW j \in 1..i PROVE stream[j].ok
  BY FieldTypes DEF Fine
<1>1. i \in Nat
  BY FieldTypes
<1>2. j = i \/ j \in 1..(i - 1)
  BY <1>1
<1> QED BY <1>2 DEF Fine

\* No field reaches beyond the input, and the last ends with it.
LEMMA InputEnds ==
    ASSUME stream \in Streams
    PROVE  /\ Total \in Nat
           /\ \A i \in DOMAIN stream : stream[i].at + stream[i].size <= Total + 1
           /\ stream[Len(stream)].at + stream[Len(stream)].size = Total + 1
<1>1. Total = stream[Len(stream)].at + stream[Len(stream)].size - 1
  BY DEF Total, EndOf, Last
<1>2. Len(stream) \in DOMAIN stream /\ stream[Len(stream)].at \in Nat
      /\ stream[Len(stream)].size \in Nat
  BY FieldTypes
<1>3. stream[Len(stream)].at >= 1
  <2>1. CASE Len(stream) = 1
    BY <2>1, FieldTypes
  <2>2. CASE 1 < Len(stream)
    <3>1. stream[1].at + stream[1].size <= stream[Len(stream)].at
      BY <2>2, <1>2, FieldTypes
    <3>2. stream[1].at = 1 /\ stream[1].size \in Nat
      BY FieldTypes
    <3> QED BY <1>2, <3>1, <3>2
  <2> QED BY <2>1, <2>2, FieldTypes
<1>4. ASSUME NEW i \in DOMAIN stream
      PROVE  stream[i].at + stream[i].size <= Total + 1
  <2>1. CASE i = Len(stream)
    BY <1>1, <1>2, <2>1
  <2>2. CASE i < Len(stream)
    <3>1. stream[i].at + stream[i].size <= stream[Len(stream)].at
      BY <1>2, <2>2, FieldTypes
    <3>2. stream[i].at \in Nat /\ stream[i].size \in Nat
      BY FieldTypes
    <3> QED BY <1>1, <1>2, <3>1, <3>2
  <2> QED BY <2>1, <2>2, FieldTypes
<1> QED BY <1>1, <1>2, <1>3, <1>4

-----------------------------------------------------------------------------
(* Bytes that are collected in header or tmpIn                               *)

\* A context that differs only in what it collects, and in its stage.
Kept(c, d) ==
    /\ c.frameInfo = d.frameInfo /\ c.frameRemainingSize = d.frameRemainingSize
    /\ c.maxBlockSize = d.maxBlockSize /\ c.maxBufferSize = d.maxBufferSize
    /\ c.tmpInCapacity = d.tmpInCapacity /\ c.dict = d.dict /\ c.dictSize = d.dictSize
    /\ c.tmpOut = d.tmpOut /\ c.tmpOutSize = d.tmpOutSize
    /\ c.tmpOutStart = d.tmpOutStart /\ c.hashed = d.hashed

\* What the members of a context are.
LEMMA ContextTypes ==
    ASSUME NEW c, c \in Contexts(c.stored)
    PROVE  /\ c.frameInfo \in FrameInfo /\ c.dStage \in Stages /\ c.frameRemainingSize \in Int
           /\ c.maxBlockSize \in Nat /\ c.maxBufferSize \in Nat /\ c.tmpInCapacity \in Nat
           /\ c.tmpInSize \in Nat /\ c.tmpInTarget \in Nat /\ c.dict \in Nat \cup {NULL}
           /\ c.dictSize \in Nat /\ c.tmpOut \in Nat /\ c.tmpOutSize \in Nat
           /\ c.tmpOutStart \in Nat /\ c.hashed \in Nat
           /\ c.frameInfo.linked \in BOOLEAN /\ c.frameInfo.blockSum \in BOOLEAN
           /\ c.frameInfo.contentSum \in BOOLEAN /\ c.frameInfo.contentSize \in Nat
BY DEF Contexts, FrameInfo

\* Store keeps the bytes there are and puts the next of the input behind them.
LEMMA StoreIs ==
    ASSUME NEW c, c \in Contexts(c.stored), NEW n \in Nat
    PROVE  LET d == Store(c, n)
           IN  /\ d \in Contexts(d.stored) /\ Kept(d, c)
               /\ d.dStage = c.dStage /\ d.tmpInTarget = c.tmpInTarget
               /\ d.tmpInSize = c.tmpInSize + n
               /\ \A j \in c.tmpInSize..(c.tmpInSize + n - 1) :
                     j \in DOMAIN d.stored /\ d.stored[j] = srcPtr + j - c.tmpInSize
               /\ \A j \in DOMAIN c.stored : j < c.tmpInSize =>
                     j \in DOMAIN d.stored /\ d.stored[j] = c.stored[j]
<1> DEFINE new == c.tmpInSize..(c.tmpInSize + n - 1)
           stored == [j \in new \cup DOMAIN c.stored |->
                         IF j \in new THEN srcPtr + j - c.tmpInSize ELSE c.stored[j]]
           size == c.tmpInSize + n
           e == [c EXCEPT !.tmpInSize = size, !.stored = stored]
<1>1. c.tmpInSize \in Nat /\ size \in Nat
  BY ContextTypes
<1>2. Store(c, n) = e
  BY DEF Store, Contexts
<1> HIDE DEF size
<1>3. \A j \in c.tmpInSize..(c.tmpInSize + n - 1) :
          j \in DOMAIN stored /\ stored[j] = srcPtr + j - c.tmpInSize
  OBVIOUS
<1>4. ASSUME NEW j \in DOMAIN c.stored, j < c.tmpInSize
      PROVE  j \in DOMAIN stored /\ stored[j] = c.stored[j]
  <2>1. j \notin new
    BY <1>1, <1>4
  <2> HIDE DEF new
  <2> QED BY <2>1
<1> HIDE DEF stored
<1>5. /\ e \in Contexts(e.stored) /\ Kept(e, c) /\ e.stored = stored
      /\ e.dStage = c.dStage /\ e.tmpInTarget = c.tmpInTarget
      /\ e.tmpInSize = size
  BY <1>1 DEF Contexts, Kept
<1> QED BY <1>2, <1>3, <1>4, <1>5 DEF size

\* Restore begins a collection, and changes nothing else.
LEMMA RestoreIs ==
    ASSUME NEW c, c \in Contexts(c.stored)
    PROVE  LET d == Restore(c, 0)
           IN  /\ d \in Contexts(d.stored) /\ Kept(d, c)
               /\ d.dStage = c.dStage /\ d.tmpInTarget = c.tmpInTarget /\ d.tmpInSize = 0
<1> DEFINE e == [c EXCEPT !.tmpInSize = 0, !.stored = <<>>]
<1>1. e \in Contexts(e.stored) /\ Kept(e, c) /\ e.tmpInSize = 0
      /\ e.dStage = c.dStage /\ e.tmpInTarget = c.tmpInTarget
  BY DEF Contexts, Kept
<1>2. Restore(c, 0) = Store(e, 0)
  BY DEF Restore
<1> HIDE DEF e
<1>3. /\ Store(e, 0) \in Contexts(Store(e, 0).stored) /\ Kept(Store(e, 0), e)
      /\ Store(e, 0).dStage = e.dStage /\ Store(e, 0).tmpInTarget = e.tmpInTarget
      /\ Store(e, 0).tmpInSize = e.tmpInSize + 0
  BY <1>1, StoreIs
<1> QED BY <1>1, <1>2, <1>3 DEF Kept

\* What a stage that collects does: it takes all there is, or all it wants.
LEMMA Collect ==
    ASSUME TypeOK, CallInv, pc = "run", NEW i \in DOMAIN stream, NEW m \in Nat,
           NEW target \in Nat, dctx.tmpInSize < target,
           srcPtr = stream[i].at + dctx.tmpInSize, StoredFrom(m, i)
    PROVE  LET n == Wanted(dctx, target)
               d == Store(dctx, n)
           IN  /\ n \in Nat /\ srcPtr + n <= srcEnd
               /\ d \in Contexts(d.stored) /\ Kept(d, dctx)
               /\ d.dStage = dctx.dStage /\ d.tmpInTarget = dctx.tmpInTarget
               /\ d.tmpInSize = dctx.tmpInSize + n /\ d.tmpInSize <= target
               /\ srcPtr + n = stream[i].at + d.tmpInSize
               /\ d.tmpInSize < target => srcPtr + n = srcEnd
               /\ Stores(d, m, i)
<1> DEFINE n == Wanted(dctx, target)
           d == Store(dctx, n)
<1>1. /\ dctx.tmpInSize \in Nat /\ srcPtr \in Nat /\ srcEnd \in Nat /\ srcPtr <= srcEnd
      /\ stream[i].at \in Nat
  BY ContextTypes, FieldTypes DEF TypeOK, CallInv
<1>2. /\ n \in Nat /\ srcPtr + n <= srcEnd /\ dctx.tmpInSize + n <= target
      /\ dctx.tmpInSize + n < target => srcPtr + n = srcEnd
  BY <1>1 DEF Wanted, Lesser, available
<1> HIDE DEF n
<1>3. /\ d \in Contexts(d.stored) /\ Kept(d, dctx)
      /\ d.dStage = dctx.dStage /\ d.tmpInTarget = dctx.tmpInTarget
      /\ d.tmpInSize = dctx.tmpInSize + n
      /\ \A j \in dctx.tmpInSize..(dctx.tmpInSize + n - 1) :
            j \in DOMAIN d.stored /\ d.stored[j] = srcPtr + j - dctx.tmpInSize
      /\ \A j \in DOMAIN dctx.stored : j < dctx.tmpInSize =>
            j \in DOMAIN d.stored /\ d.stored[j] = dctx.stored[j]
  BY <1>2, StoreIs DEF TypeOK
<1>4. Stores(d, m, i)
  <2> SUFFICES ASSUME NEW j \in m..(d.tmpInSize - 1)
               PROVE  j \in DOMAIN d.stored /\ d.stored[j] = stream[i].at + j
    BY DEF Stores
  <2>1. CASE j < dctx.tmpInSize
    <3>1. j \in m..(dctx.tmpInSize - 1)
      BY <1>1, <2>1
    <3>2. j \in DOMAIN dctx.stored /\ dctx.stored[j] = stream[i].at + j
      BY <3>1 DEF StoredFrom, Stores
    <3> QED BY <1>3, <2>1, <3>2
  <2>2. CASE ~(j < dctx.tmpInSize)
    <3>1. j \in dctx.tmpInSize..(dctx.tmpInSize + n - 1)
      BY <1>1, <1>2, <1>3, <2>2
    <3>2. srcPtr + j - dctx.tmpInSize = stream[i].at + j
      BY <1>1, <3>1
    <3> QED BY <1>3, <3>1, <3>2
  <2> QED BY <2>1, <2>2
<1>5. srcPtr + n = stream[i].at + d.tmpInSize
  BY <1>1, <1>2, <1>3
<1> QED BY <1>2, <1>3, <1>4, <1>5 DEF n

-----------------------------------------------------------------------------
(* How a stage ends, and what holds at any end of one                        *)

Went       == UNCHANGED <<pc, ret>>
Stopped(h) == pc' = "preserve" /\ ret' = [error |-> "none", hint |-> h]
Failed(e)  == pc' = "idle" /\ ret' = [error |-> e, hint |-> 0]
Ended ==
    \/ Went
    \/ \E h \in Nat : Stopped(h)
    \/ \E e \in Errors : Failed(e)

\* What a stage leaves alone, and what one that gives nothing does.
StageKeeps == UNCHANGED <<stream, srcStart, srcEnd, arena, sent, carried>>
Advances   == srcPtr' \in Nat /\ srcPtr <= srcPtr' /\ srcPtr' <= srcEnd

Settled ==
    /\ TypeOK /\ CallInv /\ BufferInv /\ DictInv /\ RemainingInv /\ OutputIsContent
    /\ ~failed => WindowInv /\ OutInv /\ CountInv

\* The call stays well formed however a stage ends.
LEMMA EndedTypes ==
    ASSUME TypeOK, CallInv, pc = "run", Ended, StageKeeps, Advances, RoomOK'
    PROVE  /\ ~failed /\ pc' \in {"idle", "run", "preserve"}
           /\ ret' \in [error : Errors \cup {"none"}, hint : Nat]
           /\ failed' <=> pc' = "idle"
           /\ pc' # "idle" => /\ srcStart' <= srcPtr' /\ srcPtr' <= srcEnd' /\ ~failed'
                              /\ srcEnd' <= Total' + 1
           /\ srcPtr' <= Total' + 1
           /\ stream' \in Streams /\ srcPtr' \in Nat /\ srcStart' \in Nat /\ srcEnd' \in Nat
           /\ arena' \in DstAt..(DstEnd + 1) /\ sent' \in Nat
<1>1. ~failed
  BY DEF CallInv
<1>3. ASSUME NEW h \in Nat, Stopped(h)
      PROVE  /\ pc' = "preserve" /\ ret' \in [error : Errors \cup {"none"}, hint : Nat] /\ ~failed'
  <2>2. ret' = [error |-> "none", hint |-> h]
    BY <1>3 DEF Stopped
  <2>3. ret'.error = "none" /\ ret' \in [error : Errors \cup {"none"}, hint : Nat]
    BY <2>2
  <2> QED BY <1>3, <2>3 DEF Stopped, failed
<1>4. ASSUME NEW e \in Errors, Failed(e)
      PROVE  /\ pc' = "idle" /\ ret' \in [error : Errors \cup {"none"}, hint : Nat] /\ failed'
  BY <1>4 DEF Failed, failed, Errors
<1>5. /\ pc' \in {"idle", "run", "preserve"} /\ ret' \in [error : Errors \cup {"none"}, hint : Nat]
      /\ failed' <=> pc' = "idle"
  <2>1. CASE Went
    BY <1>1, <2>1 DEF Went, TypeOK, failed
  <2> QED BY <1>3, <1>4, <2>1 DEF Ended
<1>6. srcStart <= srcPtr /\ srcStart \in Nat /\ srcPtr \in Nat /\ srcEnd \in Nat
  BY DEF TypeOK, CallInv
<1>7. srcStart' <= srcPtr' /\ srcPtr' <= srcEnd'
  BY <1>6 DEF StageKeeps, Advances
<1>8. srcEnd' <= Total' + 1 /\ srcPtr' <= Total' + 1
  <2>1. srcEnd <= Total + 1 /\ Total \in Nat
    BY InputEnds DEF CallInv, TypeOK
  <2>2. Total' = Total
    BY DEF Total, StageKeeps
  <2> QED BY <1>6, <1>7, <2>1, <2>2 DEF StageKeeps, Advances
<1> QED BY <1>1, <1>5, <1>6, <1>7, <1>8 DEF TypeOK, StageKeeps, Advances

\* What was given is counted from 0.
LEMMA GivenType ==
    ASSUME TypeOK
    PROVE  /\ Given \in Nat /\ sent <= Given /\ sent \in Nat
           /\ dst.at \in Int /\ dst.start \in Int /\ dst.end \in Int
           /\ dst.start <= dst.at /\ dst.at <= dst.end /\ Given = sent + (dst.at - dst.start)
<1>1. dst.at \in Int /\ dst.start \in Int /\ dst.end \in Int /\ sent \in Nat
  BY DEF TypeOK, RoomOK
<1>2. dst.start <= dst.at /\ dst.at <= dst.end
  BY <1>1 DEF TypeOK, RoomOK, NULL
<1> QED BY <1>1, <1>2 DEF Given

\* A stage of a block that takes input and gives nothing.
LEMMA QuietStep ==
    ASSUME Inv, pc = "run", Ended, StageKeeps, Advances, UNCHANGED <<dst, mem, asserts>>,
           dctx' \in Contexts(dctx'.stored), Kept(dctx', dctx),
           \/ /\ dctx.dStage \in Decoding \ {"flushOut"}
              /\ dctx'.dStage \in (Decoding \ {"flushOut"}) \cup AtEnd
           \/ dctx.dStage \in AtEnd /\ dctx'.dStage \in AtEnd,
           dctx'.dStage = "storeSuffix" => dctx.frameRemainingSize = 0
    PROVE  Settled' /\ Given' = Given
<1>1. SizeInv /\ TypeOK /\ CallInv /\ ~failed
  BY DEF Inv, SizeInv, CallInv
<1>2. ReadInv
  BY <1>1 DEF Inv
<1>3. RoomOK' /\ Given' = Given
  BY <1>1 DEF RoomOK, TypeOK, Given, StageKeeps
<1>4. TypeOK' /\ CallInv'
  <2>1. /\ ~failed /\ pc' \in {"idle", "run", "preserve"}
        /\ ret' \in [error : Errors \cup {"none"}, hint : Nat]
        /\ failed' <=> pc' = "idle"
        /\ pc' # "idle" => /\ srcStart' <= srcPtr' /\ srcPtr' <= srcEnd' /\ ~failed'
                           /\ srcEnd' <= Total' + 1
        /\ srcPtr' <= Total' + 1
        /\ stream' \in Streams /\ srcPtr' \in Nat /\ srcStart' \in Nat /\ srcEnd' \in Nat
        /\ arena' \in DstAt..(DstEnd + 1) /\ sent' \in Nat
    BY <1>1, <1>3, EndedTypes
  <2>2. TypeOK'
    BY <1>1, <1>3, <2>1 DEF TypeOK
  <2>3. CallInv'
    BY <1>1, <2>1 DEF CallInv, StageKeeps
  <2> QED BY <2>2, <2>3
<1>5. /\ dctx.dStage \notin Before /\ dctx'.dStage \notin Before
      /\ dctx.dStage # "flushOut" /\ dctx'.dStage # "flushOut"
      /\ dctx.dStage # "init" /\ dctx'.dStage # "init"
      /\ dctx'.dStage \in Decoding => dctx.dStage \in Decoding
      /\ dctx'.dStage \in Decoding \cup AtEnd /\ dctx.dStage \in Decoding \cup AtEnd
      /\ Pending' = 0 /\ Pending = 0
  BY DEF Before, Decoding, InBlocks, AtEnd, Pending
<1>6. BufferInv'
  BY <1>1, <1>5 DEF SizeInv, BufferInv, Kept, bufferNeeded
<1>7. DictInv'
  <2>1. Stays' = Stays \/ failed'
    BY <1>1, <1>4 DEF Stays, StageKeeps, CallInv, Ended, Went, Stopped, Failed, failed
  <2> QED BY <1>1, <1>5, <2>1 DEF SizeInv, DictInv, Kept, Before
<1>8. RemainingInv'
  BY <1>5 DEF Inv, PastInv, RemainingInv, Kept, StageKeeps
<1>9. OutputIsContent'
  BY <1>1, <1>3 DEF Inv, OutputIsContent, StageKeeps
<1>10. WindowInv' /\ OutInv' /\ CountInv'
  <2>1. Window' = Window
    BY <1>3, <1>5 DEF Window
  <2>2. WindowInv'
    BY <1>2, <1>3, <1>5, <2>1 DEF ReadInv, WindowInv, Kept
  <2>3. OutInv'
    BY <1>5 DEF OutInv
  <2>4. CountInv'
    BY <1>2, <1>3, <1>5 DEF ReadInv, CountInv, Kept, Before
  <2> QED BY <2>2, <2>3, <2>4
<1> QED BY <1>3, <1>4, <1>6, <1>7, <1>8, <1>9, <1>10 DEF Settled

\* The rest of the invariant, at the three ends of a stage.
LEMMA GoesOn ==
    ASSUME Settled', Went, pc = "run", TargetInv', PlaceInv'
    PROVE  Inv'
<1>1. pc' = "run" /\ ~failed'
  BY DEF Went, Settled, CallInv
<1> QED BY <1>1 DEF Inv, SizeInv, PastInv, ReadInv, DoneInv, FailInv, CompleteMeansWhole,
                    Progress, Settled

\* A stage that ends the call for lack of input or room.
LEMMA StopsThere ==
    ASSUME Settled', NEW h \in Nat \ {0}, Stopped(h), dctx'.dStage # "getFrameHeader",
           TargetInv', PlaceInv',
           \/ srcPtr' = srcEnd' \/ srcPtr' > srcStart' \/ dst'.at = dst'.end
    PROVE  Inv'
<1>1. pc' = "preserve" /\ ~failed' /\ ret'.hint = h /\ ret'.hint # 0
  BY DEF Stopped, failed
<1>2. DoneInv' /\ FailInv' /\ CompleteMeansWhole' /\ Progress'
  BY <1>1 DEF DoneInv, FailInv, CompleteMeansWhole, Progress
<1> QED BY <1>1, <1>2 DEF Inv, SizeInv, PastInv, ReadInv, Settled

\* A stage that ends the call with an error.
LEMMA FailsThere ==
    ASSUME Settled', NEW e \in Errors, Failed(e), TargetInv',
           \/ e = "allocation_failed"
           \/ carried' /\ e = "frameSize_wrong" /\ dctx'.frameInfo.contentSize = 0
           \/ \E i \in DOMAIN stream' : ~stream'[i].ok
    PROVE  Inv'
<1>1. pc' = "idle" /\ failed' /\ ret'.error = e
  BY DEF Failed, failed, Errors
<1>2. DoneInv' /\ FailInv' /\ CompleteMeansWhole' /\ Progress'
  BY <1>1 DEF DoneInv, FailInv, CompleteMeansWhole, Progress
<1> QED BY <1>1, <1>2 DEF Inv, SizeInv, PastInv, Settled

\* A context that goes on to another stage.
LEMMA Restaged ==
    ASSUME NEW c, c \in Contexts(c.stored), NEW s \in Stages
    PROVE  LET d == [c EXCEPT !.dStage = s]
           IN  /\ d \in Contexts(d.stored) /\ Kept(d, c) /\ d.dStage = s
               /\ d.tmpInTarget = c.tmpInTarget /\ d.tmpInSize = c.tmpInSize
               /\ d.stored = c.stored
BY DEF Contexts, Kept

\* Two changes to what is collected are one.
LEMMA KeptTransitive ==
    ASSUME NEW a, NEW b, NEW c, Kept(a, b), Kept(b, c)
    PROVE  Kept(a, c)
BY DEF Kept

\* Kinds of fields, and the stages of blocks, are different.
LEMMA BlockStages ==
    /\ Decoding = {"getBlockHeader", "storeBlockHeader", "copyDirect",
                   "getBlockChecksum", "getCBlock", "storeCBlock", "flushOut"}
    /\ Decoding \subseteq Stages /\ AtEnd \subseteq Stages /\ AtEnd = {"getSuffix", "storeSuffix"}
    /\ Decoding \cap Before = {} /\ AtEnd \cap Before = {} /\ "init" \notin Before
    /\ "init" \notin Decoding \cup AtEnd
BY DEF Decoding, InBlocks, Stages, AtEnd, Before

\* The header of a block, all of it at hand.
LEMMA BlockHeaderStep ==
    ASSUME Inv, pc = "run", StageKeeps, Advances, UNCHANGED <<dst, mem, asserts>>,
           dctx.dStage \in {"getBlockHeader", "storeBlockHeader"},
           NEW i \in DOMAIN stream, InFrame(i, {"head", "end"}), stream[i].from = Given + 1,
           NEW d, d \in Contexts(d.stored), Kept(d, dctx), d.dStage = dctx.dStage,
           NEW buf, \A j \in 0..(BHSize - 1) : buf[j] = stream[i].at + j,
           NEW consumed \in Nat, srcPtr' = stream[i].at + BHSize, srcPtr' > srcPtr,
           DecodeBlockHeader(d, buf, consumed)
    PROVE  Inv'
<1> DEFINE f       == stream[i]
           crcSize == IF d.frameInfo.blockSum THEN BFSize ELSE 0
           block   == [d EXCEPT !.tmpInTarget = f.n + crcSize, !.dStage = "getCBlock"]
<1>1. TypeOK /\ CallInv /\ BufferInv /\ stream \in Streams /\ stream' = stream
  BY DEF Inv, SizeInv, TypeOK, StageKeeps
<1>2. /\ f.k \in {"head", "end"} /\ Fine(i) /\ f.info = dctx.frameInfo
      /\ f.at \in Nat /\ f.size \in Nat /\ f.n \in Nat /\ f.from \in Nat
      /\ f.ok \in BOOLEAN /\ f.raw \in BOOLEAN /\ Whole(f) /\ Ends(f)
  BY <1>1, FieldTypes DEF InFrame, Reads
<1>3. f.size = BHSize /\ BHSize \in Nat \ {0} /\ BFSize \in Nat \ {0}
  BY <1>2, DecoderAssumption DEF Whole
<1>4. Field(buf, 0, BHSize) = f
  <2>1. \A j \in 0..(BHSize - 1) : buf[0 + j] = stream[i].at + j
    BY <1>3
  <2>2. 0 \in Int /\ BHSize <= stream[i].size /\ BHSize \in Nat \ {0} /\ stream \in Streams
    BY <1>1, <1>3
  <2> QED BY ONLY <2>1, <2>2, i \in DOMAIN stream, FieldIs
<1>5. /\ dctx.frameInfo.blockSizeID \in DOMAIN blockSizes
      /\ dctx.maxBlockSize = blockSizes[dctx.frameInfo.blockSizeID]
      /\ d.maxBlockSize = dctx.maxBlockSize /\ d.frameInfo = dctx.frameInfo
      /\ dctx.maxBlockSize \in Nat
  BY <1>1, BlockStages, ContextTypes DEF BufferInv, Kept, TypeOK
<1>6. srcStart' < srcPtr'
  BY <1>1 DEF CallInv, TypeOK, StageKeeps, Advances
<1>7. crcSize \in Nat /\ crcSize <= BFSize /\ f.n + crcSize \in Nat
  BY <1>2, <1>3
<1>8. CASE f.k = "end"
  <2>1. Went /\ dctx' = [d EXCEPT !.dStage = "getSuffix"]
    BY <1>4, <1>8 DEF DecodeBlockHeader, Go, Went
  <2>2. /\ dctx' \in Contexts(dctx'.stored) /\ Kept(dctx', d) /\ dctx'.dStage = "getSuffix"
        /\ "getSuffix" \in AtEnd
    BY <2>1, Restaged, BlockStages
  <2>3. Kept(dctx', dctx) /\ Ended
    BY <2>1, <2>2, KeptTransitive DEF Ended
  <2>4. Settled' /\ Given' = Given
    BY <1>1, <2>2, <2>3, QuietStep, BlockStages
  <2>5. f.n = Given'
    BY <1>1, <1>2, <1>8, <2>4, GivenType DEF Whole
  <2>6. AfterEnd'
    <3>1. /\ InFrame(i, {"end"})' /\ srcPtr' = stream'[i].at + stream'[i].size
          /\ stream'[i].n = Given' /\ i \in DOMAIN stream'
      BY <1>1, <1>2, <1>3, <1>8, <2>3, <2>5 DEF InFrame, Reads, Fine, Kept
    <3> QED BY <1>6, <2>1, <3>1 DEF AfterEnd, Went
  <2>7. TargetInv' /\ PlaceInv'
    BY <2>2, <2>6 DEF TargetInv, PlaceInv
  <2> QED BY <2>1, <2>4, <2>7, GoesOn
<1>9. ASSUME f.k = "head", ~(f.n <= d.maxBlockSize)
      PROVE  Inv'
  <2>1. f.n > d.maxBlockSize
    BY <1>2, <1>5, <1>9
  <2>2. Failed("maxBlockSize_invalid") /\ dctx' = d
    BY <1>4, <1>9, <2>1 DEF DecodeBlockHeader, Fail, Failed
  <2>3. Ended /\ "maxBlockSize_invalid" \in Errors
    BY <2>2 DEF Ended, Errors
  <2>4. Settled'
    BY <1>1, <2>2, <2>3, QuietStep, BlockStages
  <2>5. ~f.ok
    BY <1>2, <1>5, <1>9 DEF Whole
  <2>6. TargetInv'
    BY <2>2 DEF TargetInv
  <2> QED BY <1>1, <2>2, <2>3, <2>4, <2>5, <2>6, FailsThere
<1>10. ASSUME f.k = "head", f.n <= d.maxBlockSize
       PROVE  Inv'
  <2>1. f.ok
    BY <1>2, <1>5, <1>10 DEF Whole
  <2>2. ~f.last
    BY <1>2, <1>10 DEF Ends
  <2> DEFINE g == stream[i + 1]
  <2>3. /\ i + 1 \in DOMAIN stream /\ g.at = f.at + f.size /\ Follows(f, g) /\ Fine(i + 1)
    BY <1>1, <1>2, <2>1, <2>2, NextField, FineNext
  <2>4. /\ g.k = (IF f.raw THEN "raw" ELSE "block") /\ g.size = f.n /\ g.from = f.from
        /\ g.info = f.info /\ Whole(g)
    BY <1>1, <1>10, <2>2, <2>3, FieldTypes DEF Follows
  <2>5. ASSUME f.raw PROVE Inv'
    <3>1. Went /\ dctx' = [d EXCEPT !.tmpInTarget = f.n, !.dStage = "copyDirect"]
      <4>1. ~(f.n > d.maxBlockSize) /\ f.k # "end"
        BY <1>2, <1>5, <1>10
      <4> QED BY <1>4, <1>10, <2>5, <4>1 DEF DecodeBlockHeader, Go, Went
    <3>2. /\ dctx' \in Contexts(dctx'.stored) /\ Kept(dctx', d) /\ dctx'.dStage = "copyDirect"
          /\ dctx'.tmpInTarget = f.n
      <4>1. f.n \in Nat /\ "copyDirect" \in Stages
        BY <1>2, BlockStages
      <4> QED BY <3>1, <4>1 DEF Contexts, Kept
    <3>3. Kept(dctx', dctx) /\ Ended
      BY <3>1, <3>2, KeptTransitive DEF Ended
    <3>4. Settled' /\ Given' = Given
      BY <1>1, <3>2, <3>3, QuietStep, BlockStages
    <3>5. Given \in Nat /\ g.n = g.size
      BY <1>1, <2>4, <2>5, GivenType DEF Whole
    <3>6. InRaw'
      <4>1. /\ InFrame(i + 1, {"raw"})'
            /\ i + 1 \in DOMAIN stream' /\ stream'[i + 1].at <= srcPtr'
            /\ srcPtr' + dctx'.tmpInTarget = stream'[i + 1].at + stream'[i + 1].size
            /\ Given' + dctx'.tmpInTarget + 1 = stream'[i + 1].from + stream'[i + 1].n
        <5>1. InFrame(i + 1, {"raw"})' /\ i + 1 \in DOMAIN stream'
          BY <1>1, <1>2, <2>3, <2>4, <2>5, <3>3 DEF InFrame, Reads, Fine, Kept
        <5>2. srcPtr' = g.at /\ g.at \in Nat
          BY <1>1, <1>3, <2>3, FieldTypes
        <5> QED BY <1>1, <1>2, <2>4, <3>2, <3>4, <3>5, <5>1, <5>2
      <4> QED BY <4>1 DEF InRaw
    <3>7. TargetInv' /\ PlaceInv'
      BY <3>2, <3>6 DEF TargetInv, PlaceInv
    <3> QED BY <3>1, <3>4, <3>7, GoesOn
  <2>6. ASSUME ~f.raw PROVE Inv'
    <3>1. dctx' = block /\ (Went \/ Stopped(BHSize + f.n + crcSize))
      <4>1. ~(f.n > d.maxBlockSize) /\ f.k # "end"
        BY <1>2, <1>5, <1>10
      <4> QED BY <1>4, <1>10, <2>6, <4>1 DEF DecodeBlockHeader, Go, Stop, Went, Stopped
    <3>2. /\ dctx' \in Contexts(dctx'.stored) /\ Kept(dctx', d) /\ dctx'.dStage = "getCBlock"
          /\ dctx'.tmpInTarget = f.n + crcSize
      <4>1. f.n + crcSize \in Nat /\ "getCBlock" \in Stages
        BY <1>7, BlockStages
      <4> HIDE DEF crcSize
      <4> QED BY <3>1, <4>1 DEF Contexts, Kept
    <3>3. BHSize + f.n + crcSize \in Nat \ {0}
      BY <1>2, <1>3, <1>7
    <3>4. Kept(dctx', dctx) /\ Ended
      BY <3>1, <3>2, <3>3, KeptTransitive DEF Ended
    <3>5. Settled' /\ Given' = Given
      BY <1>1, <3>2, <3>4, QuietStep, BlockStages
    <3>6. AtPacked'
      <4>1. InFrame(i + 1, {"block"})' /\ i + 1 \in DOMAIN stream'
        BY <1>1, <1>2, <2>3, <2>4, <2>6, <3>4 DEF InFrame, Reads, Fine, Kept
      <4>2. srcPtr' = stream'[i + 1].at /\ stream'[i + 1].from = Given' + 1
        BY <1>1, <1>3, <2>3, <2>4, <3>5
      <4>3. dctx'.tmpInTarget = stream'[i + 1].size + SumSize'
        BY <1>1, <1>5, <2>4, <3>2, <3>4 DEF SumSize, Kept
      <4> QED BY <4>1, <4>2, <4>3 DEF AtPacked
    <3>7. TargetInv' /\ PlaceInv'
      <4>1. dctx'.tmpInTarget <= dctx'.maxBlockSize + BFSize
        BY <1>2, <1>3, <1>5, <1>7, <1>10, <3>2, <3>4 DEF Kept
      <4> QED BY <3>2, <3>6, <4>1 DEF TargetInv, PlaceInv
    <3> QED BY <1>6, <3>1, <3>2, <3>3, <3>5, <3>7, GoesOn, StopsThere
  <2> QED BY <1>2, <2>5, <2>6
<1> QED BY <1>2, <1>8, <1>9, <1>10

\* A block's stage that begins to collect.
LEMMA Restored ==
    ASSUME NEW c, c \in Contexts(c.stored), NEW s \in Stages,
           dctx' = [Restore(c, 0) EXCEPT !.dStage = s]
    PROVE  /\ dctx' \in Contexts(dctx'.stored) /\ Kept(dctx', c) /\ dctx'.dStage = s
           /\ dctx'.tmpInSize = 0 /\ dctx'.tmpInTarget = c.tmpInTarget
           /\ \A i : Stores(dctx', 0, i)
<1> DEFINE r == Restore(c, 0)
<1>1. r \in Contexts(r.stored) /\ Kept(r, c) /\ r.tmpInSize = 0 /\ r.tmpInTarget = c.tmpInTarget
  BY RestoreIs
<1> HIDE DEF r
<1>2. dctx' = [r EXCEPT !.dStage = s]
  BY DEF r
<1>3. dctx' \in Contexts(dctx'.stored) /\ Kept(dctx', r) /\ dctx'.dStage = s
      /\ dctx'.tmpInTarget = r.tmpInTarget /\ dctx'.tmpInSize = r.tmpInSize
  BY <1>1, <1>2 DEF Contexts, Kept
<1>4. dctx'.tmpInSize = 0 /\ \A i : Stores(dctx', 0, i)
  BY <1>1, <1>3 DEF Stores
<1> QED BY <1>1, <1>3, <1>4, KeptTransitive

\* What is read next, after a stage that took nothing or everything.
LEMMA HereIs ==
    ASSUME NEW n \in Nat, NEW at, srcPtr = at
    PROVE  \A j \in 0..(n - 1) : Here(n)[j] = at + j
BY DEF Here

\* The header of a block in the input, or too little of it.
LEMMA GetBlockHeaderStep ==
    ASSUME Inv, pc = "run", StageKeeps, getBlockHeader
    PROVE  Inv'
<1>1. /\ TypeOK /\ CallInv /\ stream \in Streams /\ stream' = stream /\ PlaceInv
      /\ dctx.dStage = "getBlockHeader" /\ dctx \in Contexts(dctx.stored)
      /\ UNCHANGED <<dst, mem, asserts>>
  BY DEF Inv, SizeInv, CallInv, TypeOK, StageKeeps, getBlockHeader, ReadInv, NoOutput
<1>2. PICK i \in DOMAIN stream : /\ InFrame(i, {"head", "end"}) /\ srcPtr = stream[i].at
                                 /\ stream[i].from = Given + 1
  <2>1. Pending = 0 /\ AtBlock
    BY <1>1 DEF Pending, PlaceInv
  <2>2. PICK i \in DOMAIN stream : /\ InFrame(i, {"head", "end"}) /\ srcPtr = stream[i].at
                                   /\ stream[i].from = Given + Pending + 1
    BY <2>1 DEF AtBlock
  <2>3. Given \in Nat
    BY <1>1, GivenType
  <2> QED BY <2>1, <2>2, <2>3
<1>3. srcPtr \in Nat /\ srcEnd \in Nat /\ srcPtr <= srcEnd /\ BHSize \in Nat \ {0}
  BY <1>1, DecoderAssumption DEF TypeOK, CallInv
<1>4. CASE available >= BHSize
  <2>1. DecodeBlockHeader(dctx, Here(BHSize), BHSize) /\ srcPtr' = srcPtr + BHSize
    BY <1>4 DEF getBlockHeader, Consume
  <2>2. Advances /\ srcPtr' > srcPtr /\ srcPtr' = stream[i].at + BHSize
    BY <1>2, <1>3, <1>4, <2>1 DEF Advances, available
  <2>3. \A j \in 0..(BHSize - 1) : Here(BHSize)[j] = stream[i].at + j
    BY <1>2, <1>3, HereIs
  <2>4. Kept(dctx, dctx) /\ BHSize \in Nat
    BY <1>3 DEF Kept
  <2> QED BY <1>1, <1>2, <2>1, <2>2, <2>3, <2>4, BlockHeaderStep
<1>5. CASE ~(available >= BHSize)
  <2>1. /\ Went /\ dctx' = [Restore(dctx, 0) EXCEPT !.dStage = "storeBlockHeader"]
        /\ srcPtr' = srcPtr + 0
    BY <1>5 DEF getBlockHeader, Consume, Go, Went
  <2>2. /\ dctx' \in Contexts(dctx'.stored) /\ Kept(dctx', dctx)
        /\ dctx'.dStage = "storeBlockHeader" /\ dctx'.tmpInSize = 0 /\ Stores(dctx', 0, i)
    BY <1>1, <2>1, Restored, BlockStages
  <2>3. Advances /\ Ended /\ srcPtr' = srcPtr
    BY <1>3, <2>1 DEF Advances, Ended
  <2>4. Settled' /\ Given' = Given
    BY <1>1, <2>2, <2>3, QuietStep, BlockStages
  <2>5. InBlockHeader'
    <3>1. srcPtr' = stream'[i].at + dctx'.tmpInSize /\ dctx'.tmpInSize < BHSize
      BY <1>1, <1>2, <1>3, <2>2, <2>3
    <3>2. StoredFrom(0, i)'
      BY <1>1, <2>2 DEF StoredFrom, Stores
    <3>3. InFrame(i, {"head", "end"})' /\ i \in DOMAIN stream' /\ stream'[i].from = Given' + 1
      BY <1>1, <1>2, <2>2, <2>4 DEF InFrame, Reads, Fine, Kept
    <3> QED BY <3>1, <3>2, <3>3 DEF InBlockHeader, Collects
  <2>6. TargetInv' /\ PlaceInv'
    BY <2>2, <2>5 DEF TargetInv, PlaceInv
  <2> QED BY <2>1, <2>4, <2>6, GoesOn
<1> QED BY <1>4, <1>5

\* The header of a block, collected.
LEMMA StoreBlockHeaderStep ==
    ASSUME Inv, pc = "run", StageKeeps, storeBlockHeader
    PROVE  Inv'
<1> DEFINE n == Wanted(dctx, BHSize)
           d == Store(dctx, n)
<1>1. /\ TypeOK /\ CallInv /\ stream \in Streams /\ stream' = stream /\ PlaceInv
      /\ dctx.dStage = "storeBlockHeader" /\ dctx \in Contexts(dctx.stored)
      /\ UNCHANGED <<dst, mem, asserts>> /\ srcPtr' = srcPtr + n
      /\ IF d.tmpInSize < BHSize THEN Stop(d, BHSize - d.tmpInSize)
         ELSE DecodeBlockHeader(d, d.stored, n)
  BY DEF Inv, SizeInv, CallInv, TypeOK, StageKeeps, storeBlockHeader, ReadInv, NoOutput, Consume
<1>2. PICK i \in DOMAIN stream : /\ InFrame(i, {"head", "end"}) /\ Collects(i, BHSize)
                                 /\ stream[i].from = Given + 1
  BY <1>1 DEF PlaceInv, InBlockHeader
<1>3. BHSize \in Nat \ {0}
  BY DecoderAssumption
<1>4. /\ srcPtr = stream[i].at + dctx.tmpInSize /\ dctx.tmpInSize < BHSize /\ StoredFrom(0, i)
  BY <1>2 DEF Collects
<1>5. /\ n \in Nat /\ srcPtr + n <= srcEnd /\ d \in Contexts(d.stored) /\ Kept(d, dctx)
      /\ d.dStage = dctx.dStage /\ d.tmpInTarget = dctx.tmpInTarget
      /\ d.tmpInSize = dctx.tmpInSize + n /\ d.tmpInSize <= BHSize
      /\ srcPtr + n = stream[i].at + d.tmpInSize
      /\ d.tmpInSize < BHSize => srcPtr + n = srcEnd
      /\ Stores(d, 0, i)
  BY <1>1, <1>3, <1>4, Collect
<1> HIDE DEF n, d
<1>6. /\ srcPtr \in Nat /\ srcEnd \in Nat /\ d.tmpInSize \in Nat /\ dctx.tmpInSize \in Nat
      /\ stream[i].at \in Nat
  BY <1>1, <1>5, ContextTypes, FieldTypes DEF TypeOK
<1>7. Advances
  BY <1>1, <1>5, <1>6 DEF Advances
<1>8. CASE d.tmpInSize < BHSize
  <2>1. Stopped(BHSize - d.tmpInSize) /\ dctx' = d /\ BHSize - d.tmpInSize \in Nat \ {0}
    BY <1>1, <1>3, <1>6, <1>8 DEF Stop, Stopped
  <2>2. Ended
    BY <2>1 DEF Ended
  <2>3. Settled' /\ Given' = Given
    BY <1>1, <1>5, <1>7, <2>1, <2>2, QuietStep, BlockStages
  <2>4. InBlockHeader'
    <3>1. srcPtr' = stream'[i].at + dctx'.tmpInSize /\ dctx'.tmpInSize < BHSize
      BY <1>1, <1>5, <1>8, <2>1
    <3>2. StoredFrom(0, i)'
      BY <1>1, <1>5, <2>1 DEF StoredFrom, Stores
    <3>3. InFrame(i, {"head", "end"})' /\ i \in DOMAIN stream' /\ stream'[i].from = Given' + 1
      BY <1>1, <1>2, <1>5, <2>1, <2>3 DEF InFrame, Reads, Fine, Kept
    <3> QED BY <3>1, <3>2, <3>3 DEF InBlockHeader, Collects
  <2>5. TargetInv' /\ PlaceInv' /\ dctx'.dStage # "getFrameHeader"
    BY <1>1, <1>5, <2>1, <2>4 DEF TargetInv, PlaceInv
  <2>6. srcPtr' = srcEnd'
    BY <1>1, <1>5, <1>8 DEF StageKeeps
  <2> QED BY <2>1, <2>3, <2>5, <2>6, StopsThere
<1>9. CASE ~(d.tmpInSize < BHSize)
  <2>1. DecodeBlockHeader(d, d.stored, n) /\ d.tmpInSize = BHSize
    BY <1>1, <1>3, <1>5, <1>6, <1>9
  <2>2. \A j \in 0..(BHSize - 1) : d.stored[j] = stream[i].at + j
    BY <1>5, <2>1 DEF Stores
  <2>3. srcPtr' = stream[i].at + BHSize /\ srcPtr' > srcPtr
    BY <1>1, <1>3, <1>4, <1>5, <1>6, <2>1
  <2> QED BY <1>1, <1>2, <1>5, <1>7, <2>1, <2>2, <2>3, BlockHeaderStep
<1> QED BY <1>8, <1>9

\* The checksum of an uncompressed block.
LEMMA GetBlockChecksumStep ==
    ASSUME Inv, pc = "run", StageKeeps, getBlockChecksum
    PROVE  Inv'
<1> DEFINE n == Wanted(dctx, BFSize)
           d == Store(dctx, n)
<1>1. /\ TypeOK /\ CallInv /\ stream \in Streams /\ stream' = stream /\ PlaceInv
      /\ dctx.dStage = "getBlockChecksum" /\ dctx \in Contexts(dctx.stored)
      /\ UNCHANGED <<dst, mem, asserts>> /\ srcPtr' = srcPtr + n
      /\ IF d.tmpInSize < BFSize THEN Stop(d, 1)
         ELSE IF GoodSum(d.stored, 0) THEN Go([d EXCEPT !.dStage = "getBlockHeader"])
         ELSE Fail(d, "blockChecksum_invalid")
  BY DEF Inv, SizeInv, CallInv, TypeOK, StageKeeps, getBlockChecksum, ReadInv, NoOutput, Consume
<1>2. PICK i \in DOMAIN stream : /\ InFrame(i, {"bsum"}) /\ Collects(i, BFSize)
                                 /\ stream[i].from = Given + 1
  BY <1>1 DEF PlaceInv, InBlockSum
<1>3. BFSize \in Nat \ {0}
  BY DecoderAssumption
<1>4. /\ srcPtr = stream[i].at + dctx.tmpInSize /\ dctx.tmpInSize < BFSize /\ StoredFrom(0, i)
      /\ stream[i].k = "bsum" /\ stream[i].size = BFSize /\ Fine(i)
      /\ stream[i].info = dctx.frameInfo
  <2>1. Whole(stream[i]) /\ stream[i].k = "bsum"
    BY <1>1, <1>2, FieldTypes DEF InFrame, Reads
  <2> QED BY <1>2, <2>1 DEF Collects, InFrame, Reads, Whole
<1>5. /\ n \in Nat /\ srcPtr + n <= srcEnd /\ d \in Contexts(d.stored) /\ Kept(d, dctx)
      /\ d.dStage = dctx.dStage /\ d.tmpInTarget = dctx.tmpInTarget
      /\ d.tmpInSize = dctx.tmpInSize + n /\ d.tmpInSize <= BFSize
      /\ srcPtr + n = stream[i].at + d.tmpInSize
      /\ d.tmpInSize < BFSize => srcPtr + n = srcEnd
      /\ Stores(d, 0, i)
  BY <1>1, <1>3, <1>4, Collect
<1> HIDE DEF n, d
<1>6. /\ srcPtr \in Nat /\ srcEnd \in Nat /\ d.tmpInSize \in Nat /\ dctx.tmpInSize \in Nat
      /\ stream[i].at \in Nat
  BY <1>1, <1>5, ContextTypes, FieldTypes DEF TypeOK
<1>7. Advances
  BY <1>1, <1>5, <1>6 DEF Advances
<1>8. CASE d.tmpInSize < BFSize
  <2>1. Stopped(1) /\ dctx' = d
    BY <1>1, <1>8 DEF Stop, Stopped
  <2>2. Ended
    BY <2>1 DEF Ended
  <2>3. Settled' /\ Given' = Given
    BY <1>1, <1>5, <1>7, <2>1, <2>2, QuietStep, BlockStages
  <2>4. InBlockSum'
    <3>1. srcPtr' = stream'[i].at + dctx'.tmpInSize /\ dctx'.tmpInSize < BFSize
      BY <1>1, <1>5, <1>8, <2>1
    <3>2. StoredFrom(0, i)'
      BY <1>1, <1>5, <2>1 DEF StoredFrom, Stores
    <3>3. InFrame(i, {"bsum"})' /\ i \in DOMAIN stream' /\ stream'[i].from = Given' + 1
      BY <1>1, <1>2, <1>5, <2>1, <2>3 DEF InFrame, Reads, Fine, Kept
    <3> QED BY <3>1, <3>2, <3>3 DEF InBlockSum, Collects
  <2>5. TargetInv' /\ PlaceInv' /\ dctx'.dStage # "getFrameHeader"
    BY <1>1, <1>5, <2>1, <2>4 DEF TargetInv, PlaceInv
  <2>6. srcPtr' = srcEnd' /\ 1 \in Nat \ {0}
    BY <1>1, <1>5, <1>8 DEF StageKeeps
  <2> QED BY <2>1, <2>3, <2>5, <2>6, StopsThere
<1>9. ASSUME ~(d.tmpInSize < BFSize) PROVE Inv'
  <2>1. d.tmpInSize = BFSize
    BY <1>3, <1>5, <1>6, <1>9
  <2>2. Field(d.stored, 0, BFSize) = stream[i]
    <3>1. \A j \in 0..(BFSize - 1) : d.stored[j] = stream[i].at + j
      BY <1>5, <2>1 DEF Stores
    <3>2. \A j \in 0..(BFSize - 1) : d.stored[0 + j] = stream[i].at + j
      BY <1>3, <3>1
    <3>3. 0 \in Int /\ BFSize <= stream[i].size /\ BFSize \in Nat \ {0} /\ stream \in Streams
      BY <1>1, <1>3, <1>4
    <3> QED BY ONLY <3>2, <3>3, i \in DOMAIN stream, FieldIs
  <2>3. GoodSum(d.stored, 0) <=> stream[i].ok
    BY <1>4, <2>2 DEF GoodSum
  <2>4. CASE stream[i].ok
    <3>1. Went /\ dctx' = [d EXCEPT !.dStage = "getBlockHeader"]
      BY <1>1, <1>9, <2>3, <2>4 DEF Go, Went
    <3>2. /\ dctx' \in Contexts(dctx'.stored) /\ Kept(dctx', d)
          /\ dctx'.dStage = "getBlockHeader"
      BY <1>5, <3>1, Restaged, BlockStages
    <3>3. Kept(dctx', dctx) /\ Ended
      BY <1>5, <3>1, <3>2, KeptTransitive DEF Ended
    <3>4. Settled' /\ Given' = Given
      BY <1>1, <1>7, <3>2, <3>3, QuietStep, BlockStages
    <3>5. AtBlock'
      <4> DEFINE g == stream[i + 1]
      <4>1. ~stream[i].last
        BY <1>1, <1>4, FieldTypes DEF Ends
      <4>2. /\ i + 1 \in DOMAIN stream /\ g.at = stream[i].at + stream[i].size
            /\ Follows(stream[i], g) /\ Fine(i + 1)
        BY <1>1, <1>4, <2>4, <4>1, NextField, FineNext
      <4>3. NextBlock(stream[i], g) /\ g.from = stream[i].from
        BY <1>4, <4>1, <4>2 DEF Follows
      <4>4. srcPtr' = stream'[i + 1].at /\ i + 1 \in DOMAIN stream'
        BY <1>1, <1>4, <1>5, <2>1, <4>2
      <4>5. InFrame(i + 1, {"head", "end"})'
        BY <1>1, <1>4, <3>3, <4>2, <4>3 DEF InFrame, Reads, Fine, Kept, NextBlock
      <4>6. stream'[i + 1].from = Given' + Pending' + 1
        <5>1. Pending' = 0 /\ Given \in Nat
          BY <1>1, <3>2, GivenType DEF Pending
        <5> QED BY <1>1, <1>2, <3>4, <4>3, <5>1
      <4> QED BY <4>4, <4>5, <4>6 DEF AtBlock
    <3>6. TargetInv' /\ PlaceInv'
      BY <3>2, <3>5 DEF TargetInv, PlaceInv
    <3> QED BY <3>1, <3>4, <3>6, GoesOn
  <2>5. CASE ~stream[i].ok
    <3>1. Failed("blockChecksum_invalid") /\ dctx' = d
      BY <1>1, <1>9, <2>3, <2>5 DEF Fail, Failed
    <3>2. Ended /\ "blockChecksum_invalid" \in Errors
      BY <3>1 DEF Ended, Errors
    <3>3. Settled'
      BY <1>1, <1>5, <1>7, <3>1, <3>2, QuietStep, BlockStages
    <3>4. TargetInv'
      BY <1>1, <1>5, <3>1 DEF TargetInv
    <3> QED BY <1>1, <2>5, <3>1, <3>2, <3>3, <3>4, FailsThere
  <2> QED BY <2>4, <2>5
<1> QED BY <1>8, <1>9

\* A compressed block that is not there as a whole is collected in tmpIn.
LEMMA AwaitCBlock ==
    ASSUME Inv, pc = "run", StageKeeps, dctx.dStage = "getCBlock",
           UNCHANGED <<dst, mem, asserts>>, srcPtr' = srcPtr + 0,
           Go([Restore(dctx, 0) EXCEPT !.dStage = "storeCBlock"])
    PROVE  Inv'
<1>1. /\ TypeOK /\ CallInv /\ stream \in Streams /\ stream' = stream /\ PlaceInv /\ TargetInv
      /\ dctx \in Contexts(dctx.stored)
  BY DEF Inv, SizeInv, CallInv, TypeOK, StageKeeps, ReadInv
<1>2. PICK i \in DOMAIN stream :
        /\ InFrame(i, {"block"}) /\ srcPtr = stream[i].at
        /\ dctx.tmpInTarget = stream[i].size + SumSize /\ stream[i].from = Given + 1
  BY <1>1 DEF PlaceInv, AtPacked
<1>3. /\ Went /\ dctx' = [Restore(dctx, 0) EXCEPT !.dStage = "storeCBlock"]
  BY DEF Go, Went
<1>4. /\ dctx' \in Contexts(dctx'.stored) /\ Kept(dctx', dctx)
      /\ dctx'.dStage = "storeCBlock" /\ dctx'.tmpInSize = 0 /\ Stores(dctx', 0, i)
      /\ dctx'.tmpInTarget = dctx.tmpInTarget
  BY <1>1, <1>3, Restored, BlockStages
<1>5. Advances /\ Ended /\ srcPtr' = srcPtr
  BY <1>1, <1>3 DEF Advances, Ended, TypeOK, CallInv
<1>6. Settled' /\ Given' = Given
  BY <1>1, <1>4, <1>5, QuietStep, BlockStages
<1>7. dctx.tmpInTarget > 0
  <2>1. stream[i].size \in Nat /\ stream[i].size > 0
    BY <1>1, <1>2, FieldTypes DEF InFrame, Reads, Whole
  <2>2. SumSize \in Nat
    BY DecoderAssumption DEF SumSize
  <2> QED BY <1>2, <2>1, <2>2
<1>8. InPacked'
  <2>1. srcPtr' = stream'[i].at + dctx'.tmpInSize /\ dctx'.tmpInSize < dctx'.tmpInTarget
    <3>1. srcPtr \in Nat
      BY <1>1 DEF TypeOK
    <3> QED BY <1>1, <1>2, <1>4, <1>5, <1>7, <3>1
  <2>2. StoredFrom(0, i)'
    BY <1>1, <1>4 DEF StoredFrom, Stores
  <2>3. InFrame(i, {"block"})' /\ i \in DOMAIN stream' /\ stream'[i].from = Given' + 1
    BY <1>1, <1>2, <1>4, <1>6 DEF InFrame, Reads, Fine, Kept
  <2>4. dctx'.tmpInTarget = stream'[i].size + SumSize'
    BY <1>1, <1>2, <1>4 DEF SumSize, Kept
  <2> QED BY <2>1, <2>2, <2>3, <2>4 DEF InPacked, Collects
<1>9. TargetInv' /\ PlaceInv'
  <2>1. dctx'.tmpInTarget <= dctx'.maxBlockSize + BFSize
    BY <1>1, <1>4 DEF TargetInv, Kept
  <2> QED BY <1>4, <1>8, <2>1 DEF TargetInv, PlaceInv
<1> QED BY <1>3, <1>6, <1>9, GoesOn

-----------------------------------------------------------------------------
(* The end of a frame                                                        *)

\* The end of a frame of which everything was read.
LEMMA FrameDoneStep ==
    ASSUME Inv, pc = "run", StageKeeps, Advances, UNCHANGED <<dst, mem, asserts>>,
           dctx.dStage \in AtEnd \cup {"skipSkippable"},
           NEW d, d \in Contexts(d.stored), Kept(d, dctx), FrameDone(d),
           srcPtr' > srcStart', ~carried => dctx.frameRemainingSize = 0,
           NEW i \in DOMAIN stream, EndOf(stream[i]) = srcPtr' - 1, stream[i].last,
           stream[i].n = Given, \A j \in 1..i : stream[j].ok
    PROVE  Inv'
<1>1. SizeInv /\ TypeOK /\ CallInv /\ ~failed /\ BufferInv
  BY DEF Inv, SizeInv, CallInv
<1>2. /\ Stopped(0) /\ dctx' = LZ4F_resetDecompressionContext(d)
  BY DEF FrameDone, Stop, Stopped
<1>3. /\ dctx' \in Contexts(dctx'.stored) /\ dctx'.dStage = "getFrameHeader"
      /\ dctx'.dict = NULL /\ dctx'.dictSize = 0
      /\ dctx'.frameRemainingSize = dctx.frameRemainingSize
      /\ dctx'.maxBufferSize = dctx.maxBufferSize /\ dctx'.tmpInCapacity = dctx.tmpInCapacity
  <2>1. "getFrameHeader" \in Stages
    BY DEF Stages, Before
  <2> QED BY <1>2, <2>1 DEF LZ4F_resetDecompressionContext, Contexts, Kept
<1>4. RoomOK' /\ Given' = Given /\ Ended
  BY <1>1, <1>2 DEF RoomOK, TypeOK, Given, StageKeeps, Ended
<1>5. TypeOK' /\ CallInv' /\ pc' = "preserve" /\ ~failed'
  <2>1. /\ ~failed /\ pc' \in {"idle", "run", "preserve"}
        /\ ret' \in [error : Errors \cup {"none"}, hint : Nat]
        /\ failed' <=> pc' = "idle"
        /\ pc' # "idle" => /\ srcStart' <= srcPtr' /\ srcPtr' <= srcEnd' /\ ~failed'
                           /\ srcEnd' <= Total' + 1
        /\ srcPtr' <= Total' + 1
        /\ stream' \in Streams /\ srcPtr' \in Nat /\ srcStart' \in Nat /\ srcEnd' \in Nat
        /\ arena' \in DstAt..(DstEnd + 1) /\ sent' \in Nat
    BY <1>1, <1>4, EndedTypes
  <2>2. TypeOK'
    BY <1>1, <1>3, <1>4, <2>1 DEF TypeOK
  <2>3. CallInv'
    BY <1>1, <2>1 DEF CallInv, StageKeeps
  <2>4. pc' = "preserve"
    BY <1>2 DEF Stopped
  <2> QED BY <2>1, <2>2, <2>3, <2>4
<1>6. /\ dctx'.dStage \in Before /\ dctx'.dStage \notin Decoding \cup AtEnd \cup {"init"}
  BY <1>3, BlockStages DEF Before
<1>7. BufferInv' /\ TargetInv' /\ DictInv' /\ RemainingInv'
  <2>1. BufferInv'
    BY <1>1, <1>3, <1>6 DEF BufferInv
  <2>2. TargetInv' /\ DictInv'
    BY <1>3, <1>6 DEF TargetInv, DictInv
  <2>3. RemainingInv'
    BY <1>3 DEF RemainingInv, StageKeeps
  <2> QED BY <2>1, <2>2, <2>3
<1>8. DoneInv' /\ FailInv' /\ Progress' /\ ret'.hint = 0
  <2>1. ret'.hint = 0
    BY <1>2 DEF Stopped
  <2> QED BY <1>3, <1>5, <2>1 DEF DoneInv, FailInv, Progress
<1>9. PlaceInv' /\ CountInv' /\ WindowInv' /\ OutInv'
  BY <1>3, <1>5, <1>6 DEF PlaceInv, CountInv, WindowInv, OutInv
<1>10. OutputIsContent'
  BY <1>1 DEF Inv, OutputIsContent, StageKeeps
<1>11. CompleteMeansWhole'
  <2>1. /\ i \in DOMAIN stream' /\ EndOf(stream'[i]) = srcPtr' - 1 /\ stream'[i].last
        /\ \A j \in 1..i : stream'[j].ok
    BY DEF StageKeeps
  <2>2. sent' + dst'.at - dst'.start = stream'[i].n
    <3>1. sent + dst.at - dst.start = Given
      BY <1>1, GivenType
    <3> QED BY <3>1 DEF StageKeeps
  <2> QED BY <2>1, <2>2 DEF CompleteMeansWhole
<1> QED BY <1>5, <1>7, <1>8, <1>9, <1>10, <1>11 DEF Inv, SizeInv, PastInv, ReadInv

\* The checksum of the content, all of it at hand.
LEMMA CheckSuffixStep ==
    ASSUME Inv, pc = "run", StageKeeps, Advances, UNCHANGED <<dst, mem, asserts>>,
           dctx.dStage \in AtEnd, dctx.frameInfo.contentSum, dctx.frameRemainingSize = 0,
           NEW i \in DOMAIN stream, InFrame(i, {"sum"}), stream[i].n = Given,
           NEW d, d \in Contexts(d.stored), Kept(d, dctx), d.dStage = dctx.dStage,
           NEW buf, \A j \in 0..(BFSize - 1) : buf[j] = stream[i].at + j,
           srcPtr' = stream[i].at + BFSize, srcPtr' > srcPtr,
           CheckSuffix(d, buf)
    PROVE  Inv'
<1>1. TypeOK /\ CallInv /\ stream \in Streams /\ stream' = stream /\ ReadInv
  BY DEF Inv, SizeInv, TypeOK, CallInv, StageKeeps
<1>2. /\ stream[i].k = "sum" /\ Fine(i) /\ stream[i].size = BFSize /\ stream[i].last
      /\ stream[i].at \in Nat /\ BFSize \in Nat \ {0} /\ i \in Nat
  <2>1. /\ stream[i].k = "sum" /\ Fine(i) /\ Whole(stream[i]) /\ Ends(stream[i])
        /\ stream[i].at \in Nat /\ i \in Nat
    BY <1>1, FieldTypes DEF InFrame, Reads
  <2>2. stream[i].size = BFSize /\ stream[i].last
    BY <2>1 DEF Whole, Ends
  <2> QED BY <2>1, <2>2, DecoderAssumption
<1>3. Field(buf, 0, BFSize) = stream[i]
  <2>1. \A j \in 0..(BFSize - 1) : buf[0 + j] = stream[i].at + j
    BY <1>2
  <2>2. 0 \in Int /\ BFSize <= stream[i].size /\ BFSize \in Nat \ {0} /\ stream \in Streams
    BY <1>1, <1>2
  <2> QED BY ONLY <2>1, <2>2, i \in DOMAIN stream, FieldIs
<1>4. d.hashed = Given /\ Given \in Nat
  <2>1. Pending = 0 /\ Given \in Nat
    BY <1>1, GivenType, BlockStages DEF Pending
  <2>2. dctx.hashed = Given + Pending
    BY <1>1 DEF ReadInv, CountInv
  <2> QED BY <2>1, <2>2 DEF Kept
<1>5. srcPtr' > srcStart'
  BY <1>1 DEF CallInv, TypeOK, StageKeeps, Advances
<1>6. CASE stream[i].ok
  <2>1. FrameDone(d)
    BY <1>2, <1>3, <1>4, <1>6 DEF CheckSuffix
  <2>2. \A j \in 1..i : stream[j].ok
    BY <1>2, <1>6 DEF Fine
  <2>3. EndOf(stream[i]) = srcPtr' - 1
    BY <1>2 DEF EndOf
  <2> QED BY <1>2, <1>5, <2>1, <2>2, <2>3, FrameDoneStep
<1>7. CASE ~stream[i].ok
  <2>1. Failed("contentChecksum_invalid") /\ dctx' = d
    BY <1>3, <1>7 DEF CheckSuffix, Fail, Failed
  <2>2. Ended /\ "contentChecksum_invalid" \in Errors
    BY <2>1 DEF Ended, Errors
  <2>3. Settled'
    BY <2>1, <2>2, QuietStep
  <2>4. TargetInv'
    BY <2>1, BlockStages DEF TargetInv
  <2> QED BY <1>1, <1>7, <2>1, <2>2, <2>3, <2>4, FailsThere
<1> QED BY <1>6, <1>7

\* What follows the last block.
LEMMA GetSuffixStep ==
    ASSUME Inv, pc = "run", StageKeeps, getSuffix
    PROVE  Inv'
<1>1. /\ TypeOK /\ CallInv /\ stream \in Streams /\ stream' = stream /\ ReadInv
      /\ dctx.dStage = "getSuffix" /\ dctx \in Contexts(dctx.stored)
      /\ UNCHANGED <<dst, mem, asserts>> /\ Kept(dctx, dctx) /\ RemainingInv
      /\ dctx.dStage \in AtEnd
  BY BlockStages
     DEF Inv, SizeInv, CallInv, TypeOK, StageKeeps, getSuffix, NoOutput, Kept, PastInv
<1>2. PICK i \in DOMAIN stream : /\ InFrame(i, {"end"}) /\ srcPtr = stream[i].at + stream[i].size
                                 /\ stream[i].n = Given
  BY <1>1 DEF ReadInv, PlaceInv, AfterEnd
<1>3. /\ srcPtr \in Nat /\ srcEnd \in Nat /\ srcPtr <= srcEnd /\ BFSize \in Nat \ {0}
      /\ srcPtr > srcStart /\ srcStart \in Nat
  BY <1>1, DecoderAssumption DEF TypeOK, CallInv, ReadInv, PlaceInv, AfterEnd
<1>4. /\ stream[i].k = "end" /\ Fine(i) /\ stream[i].info = dctx.frameInfo
      /\ stream[i].last <=> ~dctx.frameInfo.contentSum
      /\ stream[i].ok <=> dctx.frameInfo.contentSize \in {0, stream[i].n}
      /\ stream[i].n + 1 = stream[i].from /\ i \in Nat
      /\ stream[i].at \in Nat /\ stream[i].size \in Nat /\ stream[i].n \in Nat
  <2>1. Whole(stream[i]) /\ Ends(stream[i]) /\ stream[i].k = "end"
    BY <1>1, <1>2, FieldTypes DEF InFrame, Reads
  <2>2. stream[i].info = dctx.frameInfo /\ Fine(i)
    BY <1>2 DEF InFrame, Reads
  <2>3. /\ stream[i].last <=> ~dctx.frameInfo.contentSum
        /\ stream[i].ok <=> dctx.frameInfo.contentSize \in {0, stream[i].n}
        /\ stream[i].n + 1 = stream[i].from
    BY <2>1, <2>2 DEF Whole, Ends
  <2> QED BY <1>1, <2>1, <2>2, <2>3, FieldTypes
<1>5. /\ dctx.frameInfo.contentSize # 0 =>
            dctx.frameRemainingSize = dctx.frameInfo.contentSize - stream[i].n
      /\ dctx.frameInfo.contentSize \in Nat
  <2>1. Pending = 0 /\ Given \in Nat
    BY <1>1, GivenType DEF Pending
  <2> QED BY <1>1, <1>2, <2>1, BlockStages, ContextTypes DEF ReadInv, CountInv
<1>6. CASE dctx.frameRemainingSize # 0
  <2>1. Failed("frameSize_wrong") /\ dctx' = dctx /\ srcPtr' = srcPtr + 0
    BY <1>6 DEF getSuffix, Fail, Failed, Consume
  <2>2. Ended /\ "frameSize_wrong" \in Errors /\ Advances
    BY <1>3, <2>1 DEF Ended, Errors, Advances
  <2>3. Settled'
    BY <1>1, <2>1, <2>2, QuietStep, BlockStages
  <2>4. TargetInv'
    BY <1>1, <2>1 DEF TargetInv
  <2>5. \/ carried' /\ dctx'.frameInfo.contentSize = 0
        \/ ~stream[i].ok
    BY <1>1, <1>4, <1>5, <1>6, <2>1 DEF RemainingInv, StageKeeps
  <2> QED BY <1>1, <2>1, <2>2, <2>3, <2>4, <2>5, FailsThere
<1>7. ASSUME dctx.frameRemainingSize = 0 PROVE Inv'
  <2>1. stream[i].ok
    BY <1>4, <1>5, <1>7
  <2>2. CASE ~dctx.frameInfo.contentSum
    <3>1. FrameDone(dctx) /\ srcPtr' = srcPtr + 0
      BY <1>7, <2>2 DEF getSuffix, Consume
    <3>2. Advances /\ srcPtr' > srcStart'
      BY <1>1, <1>3, <3>1 DEF Advances, StageKeeps
    <3>3. EndOf(stream[i]) = srcPtr' - 1
      BY <1>2, <1>3, <1>4, <3>1 DEF EndOf
    <3>4. \A j \in 1..i : stream[j].ok
      BY <1>4, <2>1 DEF Fine
    <3> QED BY <1>1, <1>2, <1>4, <1>7, <2>2, <3>1, <3>2, <3>3, <3>4, FrameDoneStep
  <2>3. ASSUME dctx.frameInfo.contentSum PROVE Inv'
    <3> DEFINE g == stream[i + 1]
    <3>1. /\ i + 1 \in DOMAIN stream /\ g.at = srcPtr /\ Fine(i + 1) /\ Follows(stream[i], g)
      BY <1>1, <1>2, <1>4, <2>1, <2>3, NextField, FineNext
    <3>2. g.k = "sum" /\ g.info = dctx.frameInfo /\ g.from = stream[i].from
      BY <1>4, <2>3, <3>1 DEF Follows
    <3>3. g.n = Given
      <4>1. g.n + 1 = g.from /\ g.n \in Nat
        BY <1>1, <3>1, <3>2, FieldTypes DEF Whole
      <4>2. g.n + 1 = stream[i].n + 1 /\ g.n \in Nat /\ stream[i].n \in Nat
        BY <1>4, <3>2, <4>1
      <4>3. g.n = stream[i].n
        BY ONLY <4>2
      <4> QED BY <1>2, <4>3
    <3>4. InFrame(i + 1, {"sum"})
      BY <3>1, <3>2 DEF InFrame, Reads
    <3>5. CASE available >= BFSize
      <4>1. CheckSuffix(dctx, Here(BFSize)) /\ srcPtr' = srcPtr + BFSize
        BY <1>3, <1>7, <2>3, <3>5 DEF getSuffix, Consume, available
      <4>2. Advances /\ srcPtr' > srcPtr /\ srcPtr' = g.at + BFSize
        BY <1>3, <3>1, <3>5, <4>1 DEF Advances, available
      <4>3. \A j \in 0..(BFSize - 1) : Here(BFSize)[j] = g.at + j
        BY <1>3, <3>1, HereIs
      <4> QED BY <1>1, <1>7, <2>3, <3>1, <3>3, <3>4, <4>1, <4>2, <4>3, CheckSuffixStep
    <3>6. CASE ~(available >= BFSize)
      <4>1. /\ Went /\ dctx' = [Restore(dctx, 0) EXCEPT !.dStage = "storeSuffix"]
            /\ srcPtr' = srcPtr + 0
        <5>1. available < BFSize
          BY <1>3, <3>6 DEF available
        <5> QED BY <1>7, <2>3, <5>1 DEF getSuffix, Consume, Go, Went
      <4>2. /\ dctx' \in Contexts(dctx'.stored) /\ Kept(dctx', dctx)
            /\ dctx'.dStage = "storeSuffix" /\ dctx'.tmpInSize = 0 /\ Stores(dctx', 0, i + 1)
        BY <1>1, <4>1, Restored, BlockStages
      <4>3. Advances /\ Ended /\ srcPtr' = srcPtr
        BY <1>3, <4>1 DEF Advances, Ended
      <4>4. Settled' /\ Given' = Given
        BY <1>1, <1>7, <4>2, <4>3, QuietStep, BlockStages
      <4>5. InSuffix'
        <5>1. srcPtr' = stream'[i + 1].at + dctx'.tmpInSize /\ dctx'.tmpInSize < BFSize
          BY <1>1, <1>3, <3>1, <4>2, <4>3
        <5>2. StoredFrom(0, i + 1)'
          BY <1>1, <4>2 DEF StoredFrom, Stores
        <5>3. /\ InFrame(i + 1, {"sum"})' /\ i + 1 \in DOMAIN stream'
              /\ stream'[i + 1].n = Given' /\ dctx'.frameInfo.contentSum
          BY <1>1, <2>3, <3>1, <3>3, <3>4, <4>2, <4>4 DEF InFrame, Reads, Fine, Kept
        <5> QED BY <5>1, <5>2, <5>3 DEF InSuffix, Collects
      <4>6. TargetInv' /\ PlaceInv'
        BY <4>2, <4>5 DEF TargetInv, PlaceInv
      <4> QED BY <4>1, <4>4, <4>6, GoesOn
    <3> QED BY <3>5, <3>6
  <2> QED BY <2>2, <2>3
<1> QED BY <1>6, <1>7

\* The checksum of the content, collected.
LEMMA StoreSuffixStep ==
    ASSUME Inv, pc = "run", StageKeeps, storeSuffix
    PROVE  Inv'
<1> DEFINE n == Wanted(dctx, BFSize)
           d == Store(dctx, n)
<1>1. /\ TypeOK /\ CallInv /\ stream \in Streams /\ stream' = stream /\ ReadInv
      /\ dctx.dStage = "storeSuffix" /\ dctx \in Contexts(dctx.stored)
      /\ UNCHANGED <<dst, mem, asserts>> /\ srcPtr' = srcPtr + n
      /\ IF d.tmpInSize < BFSize THEN Stop(d, BFSize - d.tmpInSize)
         ELSE CheckSuffix(d, d.stored)
  BY DEF Inv, SizeInv, CallInv, TypeOK, StageKeeps, storeSuffix, NoOutput, Consume
<1>2. PICK i \in DOMAIN stream : /\ InFrame(i, {"sum"}) /\ Collects(i, BFSize)
                                 /\ stream[i].n = Given /\ dctx.frameInfo.contentSum
  BY <1>1 DEF ReadInv, PlaceInv, InSuffix
<1>3. BFSize \in Nat \ {0} /\ dctx.frameRemainingSize = 0
  BY <1>1, DecoderAssumption DEF ReadInv, CountInv
<1>4. /\ srcPtr = stream[i].at + dctx.tmpInSize /\ dctx.tmpInSize < BFSize /\ StoredFrom(0, i)
  BY <1>2 DEF Collects
<1>5. /\ n \in Nat /\ srcPtr + n <= srcEnd /\ d \in Contexts(d.stored) /\ Kept(d, dctx)
      /\ d.dStage = dctx.dStage /\ d.tmpInTarget = dctx.tmpInTarget
      /\ d.tmpInSize = dctx.tmpInSize + n /\ d.tmpInSize <= BFSize
      /\ srcPtr + n = stream[i].at + d.tmpInSize
      /\ d.tmpInSize < BFSize => srcPtr + n = srcEnd
      /\ Stores(d, 0, i)
  BY <1>1, <1>3, <1>4, Collect
<1> HIDE DEF n, d
<1>6. /\ srcPtr \in Nat /\ srcEnd \in Nat /\ d.tmpInSize \in Nat /\ dctx.tmpInSize \in Nat
      /\ stream[i].at \in Nat
  BY <1>1, <1>5, ContextTypes, FieldTypes DEF TypeOK
<1>7. Advances
  BY <1>1, <1>5, <1>6 DEF Advances
<1>8. CASE d.tmpInSize < BFSize
  <2>1. Stopped(BFSize - d.tmpInSize) /\ dctx' = d /\ BFSize - d.tmpInSize \in Nat \ {0}
    BY <1>1, <1>3, <1>6, <1>8 DEF Stop, Stopped
  <2>2. Ended
    BY <2>1 DEF Ended
  <2>3. Settled' /\ Given' = Given
    BY <1>1, <1>3, <1>5, <1>7, <2>1, <2>2, QuietStep, BlockStages
  <2>4. InSuffix'
    <3>1. srcPtr' = stream'[i].at + dctx'.tmpInSize /\ dctx'.tmpInSize < BFSize
      BY <1>1, <1>5, <1>8, <2>1
    <3>2. StoredFrom(0, i)'
      BY <1>1, <1>5, <2>1 DEF StoredFrom, Stores
    <3>3. /\ InFrame(i, {"sum"})' /\ i \in DOMAIN stream' /\ stream'[i].n = Given'
          /\ dctx'.frameInfo.contentSum
      BY <1>1, <1>2, <1>5, <2>1, <2>3 DEF InFrame, Reads, Fine, Kept
    <3> QED BY <3>1, <3>2, <3>3 DEF InSuffix, Collects
  <2>5. TargetInv' /\ PlaceInv' /\ dctx'.dStage # "getFrameHeader"
    BY <1>1, <1>5, <2>1, <2>4 DEF TargetInv, PlaceInv
  <2>6. srcPtr' = srcEnd'
    BY <1>1, <1>5, <1>8 DEF StageKeeps
  <2> QED BY <2>1, <2>3, <2>5, <2>6, StopsThere
<1>9. CASE ~(d.tmpInSize < BFSize)
  <2>1. CheckSuffix(d, d.stored) /\ d.tmpInSize = BFSize
    BY <1>1, <1>3, <1>5, <1>6, <1>9
  <2>2. \A j \in 0..(BFSize - 1) : d.stored[j] = stream[i].at + j
    BY <1>5, <2>1 DEF Stores
  <2>3. srcPtr' = stream[i].at + BFSize /\ srcPtr' > srcPtr
    BY <1>1, <1>3, <1>4, <1>5, <1>6, <2>1
  <2>4. dctx.dStage \in AtEnd
    BY <1>1, BlockStages
  <2> QED BY <1>1, <1>2, <1>3, <1>5, <1>7, <2>1, <2>2, <2>3, <2>4, CheckSuffixStep
<1> QED BY <1>8, <1>9

-----------------------------------------------------------------------------
(* Headers, and skippable frames                                             *)

\* A context before a frame, or with the header of one just decoded.
Headed(c, d) ==
    /\ d \in Contexts(d.stored) /\ d.dStage \in Before \cup {"init"}
    /\ d.maxBufferSize = c.maxBufferSize /\ d.tmpInCapacity = c.tmpInCapacity
    /\ d.dict = c.dict /\ d.dictSize = c.dictSize
    /\ d.dStage = "init" =>
          /\ d.frameInfo.blockSizeID \in DOMAIN blockSizes
          /\ d.maxBlockSize = blockSizes[d.frameInfo.blockSizeID]
          /\ d.frameInfo.contentSize # 0 => d.frameRemainingSize = d.frameInfo.contentSize
    /\ d.dStage \in Before \/ d.frameInfo.contentSize = 0 =>
          d.frameRemainingSize \in {0, c.frameRemainingSize}

\* Before a frame, and when its header is read, nothing is given or remembered.
LEMMA HeadedSettles ==
    ASSUME Inv, dctx.dStage \in Before, Headed(dctx, dctx'),
           TypeOK', CallInv', OutputIsContent', ~failed' => Given' = 0,
           carried' = carried
    PROVE  Settled'
<1>1. SizeInv /\ BufferInv /\ DictInv /\ RemainingInv
  BY DEF Inv, SizeInv, PastInv
<1>2. /\ dctx'.dStage \in Before \cup {"init"} /\ dctx'.dStage \notin Decoding \cup AtEnd
      /\ dctx'.dStage # "flushOut"
  BY BlockStages DEF Headed
<1>3. BufferInv'
  BY <1>1, <1>2 DEF Headed, BufferInv
<1>4. DictInv'
  BY <1>1, <1>2 DEF Headed, DictInv
<1>5. RemainingInv'
  BY <1>1, <1>2 DEF Headed, RemainingInv
<1>6. WindowInv' /\ OutInv'
  BY <1>2 DEF WindowInv, OutInv
<1>7. ASSUME ~failed' PROVE CountInv'
  <2>1. Given' = 0 /\ Pending' = 0
    BY <1>2, <1>7 DEF Pending
  <2>2. ASSUME dctx'.dStage \notin Before /\ dctx'.frameInfo.contentSize # 0
        PROVE  dctx'.frameRemainingSize = dctx'.frameInfo.contentSize - (Given' + Pending')
    <3>1. dctx'.frameRemainingSize = dctx'.frameInfo.contentSize
          /\ dctx'.frameInfo.contentSize \in Nat
      BY <1>2, <2>2, ContextTypes DEF Headed
    <3> QED BY <2>1, <3>1
  <2> QED BY <1>2, <2>1, <2>2, BlockStages DEF CountInv
<1> QED BY <1>3, <1>4, <1>5, <1>6, <1>7 DEF Settled

\* A stage before a frame, in a call.
LEMMA BeforeStep ==
    ASSUME Inv, pc = "run", dctx.dStage \in Before, Ended, StageKeeps, Advances,
           UNCHANGED <<dst, mem, asserts>>, Headed(dctx, dctx')
    PROVE  Settled' /\ Given' = 0
<1>1. TypeOK /\ CallInv /\ ~failed /\ ReadInv
  BY DEF Inv, SizeInv, CallInv
<1>2. RoomOK' /\ Given' = Given
  BY <1>1 DEF RoomOK, TypeOK, Given, StageKeeps
<1>3. Given = 0
  BY <1>1 DEF ReadInv, CountInv
<1>4. TypeOK' /\ CallInv'
  <2>1. /\ ~failed /\ pc' \in {"idle", "run", "preserve"}
        /\ ret' \in [error : Errors \cup {"none"}, hint : Nat]
        /\ failed' <=> pc' = "idle"
        /\ pc' # "idle" => /\ srcStart' <= srcPtr' /\ srcPtr' <= srcEnd' /\ ~failed'
                           /\ srcEnd' <= Total' + 1
        /\ srcPtr' <= Total' + 1
        /\ stream' \in Streams /\ srcPtr' \in Nat /\ srcStart' \in Nat /\ srcEnd' \in Nat
        /\ arena' \in DstAt..(DstEnd + 1) /\ sent' \in Nat
    BY <1>1, <1>2, EndedTypes
  <2>2. TypeOK'
    BY <1>1, <1>2, <2>1 DEF TypeOK, Headed
  <2>3. CallInv'
    BY <1>1, <2>1 DEF CallInv, StageKeeps
  <2> QED BY <2>2, <2>3
<1>5. OutputIsContent'
  BY <1>1 DEF Inv, OutputIsContent, StageKeeps
<1> QED BY <1>2, <1>3, <1>4, <1>5, HeadedSettles DEF StageKeeps

\* A context that only collects is headed.
LEMMA KeptIsHeaded ==
    ASSUME NEW c, NEW d, d \in Contexts(d.stored), Kept(d, c), d.dStage \in Before
    PROVE  Headed(c, d)
BY BlockStages DEF Headed, Kept

\* What a header leads to: the blocks of its frame, more of the header, what a
\* skippable frame skips, or an error if it is damaged.
LEMMA HeaderStep ==
    ASSUME stream \in Streams, UNCHANGED stream, srcPtr \in Nat,
           dctx \in Contexts(dctx.stored), dctx.dStage \in Before, TargetInv,
           NEW i \in DOMAIN stream, Reads(i, {"frame", "skip"}),
           NEW d, d \in Contexts(d.stored), Kept(d, dctx), d.dStage = dctx.dStage,
           d.tmpInTarget = dctx.tmpInTarget,
           NEW src, NEW size \in Nat, minFHSize <= size,
           \A j \in 0..(size - 1) : src[j] = stream[i].at + j,
           NEW inHeader \in BOOLEAN, NEW consumed \in Nat,
           inHeader => /\ srcPtr + consumed = stream[i].at + size
                       /\ src = d.stored /\ Stores(d, 0, i) /\ d.tmpInSize = size
                       /\ size = minFHSize \/ (stream[i].k = "frame" /\ size = stream[i].size),
           ~inHeader => /\ consumed = 0 /\ srcPtr = stream[i].at
                        /\ stream[i].k = "frame" => stream[i].size <= size,
           LZ4F_decodeHeader(d, src, size, inHeader, consumed),
           Given' = 0
    PROVE  /\ Headed(dctx, dctx') /\ TargetInv'
           /\ srcPtr' \in Nat /\ srcPtr <= srcPtr' /\ srcPtr' <= stream[i].at + size
           /\ \/ Went /\ PlaceInv'
              \/ Failed("header_invalid") /\ ~stream[i].ok
<1> DEFINE f == stream[i]
           e == [d EXCEPT !.frameInfo = NoFrameInfo]
<1>1. /\ f.k \in {"frame", "skip"} /\ Fine(i) /\ Whole(f) /\ Ends(f)
      /\ f.at \in Nat /\ f.size \in Nat /\ f.n \in Nat /\ f.info \in FrameInfo
      /\ f.ok \in BOOLEAN
  BY FieldTypes DEF Reads
<1>2. minFHSize \in Nat /\ 4 < minFHSize /\ minFHSize < 8 /\ 8 <= maxFHSize /\ maxFHSize \in Nat
  <2>1. 4 < knowHeaderSize /\ knowHeaderSize <= minFHSize /\ minFHSize < 8 /\ 8 <= maxFHSize
    BY StreamsAssumption
  <2>2. knowHeaderSize \in Nat /\ minFHSize \in Nat /\ maxFHSize \in Nat
    BY DecoderAssumption
  <2> QED BY <2>1, <2>2
<1>3. /\ f.k = "skip" => f.size = 8 /\ f.ok
      /\ f.k = "frame" => /\ f.size \in minFHSize..maxFHSize /\ f.from = 1
                          /\ f.ok => f.info.blockSizeID \in DOMAIN blockSizes
                          /\ f.info.sized \/ f.info.contentSize = 0
      /\ minFHSize <= f.size /\ ~f.last
  <2>1. CASE f.k = "skip"
    BY <1>1, <1>2, <2>1 DEF Whole, Ends
  <2>2. CASE f.k = "frame"
    BY <1>1, <1>2, <2>2 DEF Whole, Ends
  <2> QED BY <1>1, <2>1, <2>2
<1>4. ASSUME NEW n \in Nat \ {0}, n <= size, n <= f.size
      PROVE  Field(src, 0, n) = f
  <2>1. \A j \in 0..(n - 1) : src[0 + j] = stream[i].at + j
    BY <1>4
  <2>2. 0 \in Int /\ n <= stream[i].size
    BY <1>4
  <2> QED BY ONLY <2>1, <2>2, n \in Nat \ {0}, stream \in Streams, i \in DOMAIN stream, FieldIs
<1>5. Field(src, 0, minFHSize) = f
  BY <1>2, <1>3, <1>4
<1>6. /\ e \in Contexts(e.stored) /\ e.dStage = dctx.dStage /\ e.stored = d.stored
      /\ e.tmpInTarget = dctx.tmpInTarget /\ e.tmpInSize = d.tmpInSize
      /\ e.maxBufferSize = dctx.maxBufferSize /\ e.tmpInCapacity = dctx.tmpInCapacity
      /\ e.dict = dctx.dict /\ e.dictSize = dctx.dictSize
      /\ e.frameRemainingSize = dctx.frameRemainingSize
  BY DEF Contexts, Kept, NoFrameInfo, FrameInfo
<1>7. /\ Before \subseteq Stages /\ "init" \in Stages
      /\ {"storeSFrameSize", "getSFrameSize", "storeFrameHeader", "getFrameHeader"} \subseteq Before
      /\ "init" \notin Before
  BY DEF Stages, Before, InBlocks
<1> HIDE DEF e
<1>8. CASE f.k = "skip"
  <2>1. ASSUME inHeader
        PROVE  /\ Went /\ srcPtr' = srcPtr + consumed
               /\ dctx' = [e EXCEPT !.tmpInSize = size, !.tmpInTarget = 8,
                                    !.dStage = "storeSFrameSize"]
    BY <1>5, <1>8, <2>1 DEF LZ4F_decodeHeader, Go, Went, Consume, e
  <2>2. ASSUME ~inHeader
        PROVE  Went /\ srcPtr' = srcPtr + 4 /\ dctx' = [e EXCEPT !.dStage = "getSFrameSize"]
    BY <1>5, <1>8, <2>2 DEF LZ4F_decodeHeader, Go, Went, Consume, e
  <2>3. CASE inHeader
    <3>1. /\ dctx' \in Contexts(dctx'.stored) /\ dctx'.dStage = "storeSFrameSize"
          /\ dctx'.tmpInSize = size /\ dctx'.tmpInTarget = 8 /\ dctx'.stored = d.stored
          /\ dctx'.maxBufferSize = dctx.maxBufferSize
          /\ dctx'.tmpInCapacity = dctx.tmpInCapacity
          /\ dctx'.dict = dctx.dict /\ dctx'.dictSize = dctx.dictSize
          /\ dctx'.frameRemainingSize = dctx.frameRemainingSize
      <4>1. dctx' = [e EXCEPT !.tmpInSize = size, !.tmpInTarget = 8,
                              !.dStage = "storeSFrameSize"]
        BY <2>1, <2>3
      <4>2. 8 \in Nat /\ size \in Nat /\ "storeSFrameSize" \in Stages
        BY <1>7
      <4> QED BY <1>6, <4>1, <4>2 DEF Contexts
    <3>2. Headed(dctx, dctx') /\ TargetInv'
      BY <1>2, <1>7, <3>1 DEF Headed, TargetInv
    <3>3. size = minFHSize
      BY <1>8, <2>3
    <3>4. InSkipSize'
      <4>1. /\ srcPtr' = stream'[i].at + dctx'.tmpInSize
            /\ 4 <= dctx'.tmpInSize /\ dctx'.tmpInSize < 8 /\ dctx'.tmpInTarget = 8
        BY <1>2, <2>1, <2>3, <3>1, <3>3
      <4>2. StoredFrom(4, i)'
        BY <2>3, <3>1 DEF StoredFrom, Stores
      <4>3. Reads(i, {"skip"})' /\ i \in DOMAIN stream'
        BY <1>1, <1>8 DEF Reads, Fine
      <4> QED BY <4>1, <4>2, <4>3 DEF InSkipSize
    <3>5. PlaceInv'
      BY <3>1, <3>4 DEF PlaceInv
    <3>6. srcPtr' = stream[i].at + size /\ srcPtr <= srcPtr' /\ srcPtr' \in Nat
      BY <1>1, <2>1, <2>3
    <3> QED BY <2>1, <2>3, <3>2, <3>5, <3>6
  <2>4. CASE ~inHeader
    <3>1. /\ dctx' \in Contexts(dctx'.stored) /\ dctx'.dStage = "getSFrameSize"
          /\ dctx'.maxBufferSize = dctx.maxBufferSize
          /\ dctx'.tmpInCapacity = dctx.tmpInCapacity
          /\ dctx'.dict = dctx.dict /\ dctx'.dictSize = dctx.dictSize
          /\ dctx'.frameRemainingSize = dctx.frameRemainingSize
      BY <1>6, <1>7, <2>2, <2>4 DEF Contexts
    <3>2. Headed(dctx, dctx') /\ TargetInv'
      BY <1>7, <3>1 DEF Headed, TargetInv
    <3>3. AtSkipSize'
      <4>1. Reads(i, {"skip"})' /\ i \in DOMAIN stream' /\ srcPtr' = stream'[i].at + 4
        BY <1>1, <1>8, <2>2, <2>4 DEF Reads, Fine
      <4> QED BY <4>1 DEF AtSkipSize
    <3>4. PlaceInv'
      BY <3>1, <3>3 DEF PlaceInv
    <3>5. srcPtr' <= stream[i].at + size /\ srcPtr <= srcPtr' /\ srcPtr' \in Nat
      BY <1>1, <1>2, <2>2, <2>4
    <3> QED BY <2>2, <2>4, <3>2, <3>4, <3>5
  <2> QED BY <2>3, <2>4
<1>9. ASSUME f.k = "frame", ~(size >= f.size)
      PROVE  /\ Headed(dctx, dctx') /\ TargetInv' /\ Went /\ PlaceInv'
             /\ srcPtr' \in Nat /\ srcPtr <= srcPtr' /\ srcPtr' <= stream[i].at + size
  <2>1. inHeader
    BY <1>1, <1>9
  <2>2. /\ Went /\ srcPtr' = srcPtr + consumed
        /\ dctx' = [e EXCEPT !.tmpInSize = size, !.tmpInTarget = f.size,
                             !.dStage = "storeFrameHeader"]
    BY <1>5, <1>9 DEF LZ4F_decodeHeader, Go, Went, Consume, e
  <2>3. /\ dctx' \in Contexts(dctx'.stored) /\ dctx'.dStage = "storeFrameHeader"
        /\ dctx'.tmpInSize = size /\ dctx'.tmpInTarget = f.size /\ dctx'.stored = d.stored
        /\ dctx'.maxBufferSize = dctx.maxBufferSize
        /\ dctx'.tmpInCapacity = dctx.tmpInCapacity
        /\ dctx'.dict = dctx.dict /\ dctx'.dictSize = dctx.dictSize
        /\ dctx'.frameRemainingSize = dctx.frameRemainingSize
    BY <1>1, <1>6, <1>7, <2>2 DEF Contexts
  <2>4. Headed(dctx, dctx') /\ TargetInv'
    BY <1>2, <1>3, <1>7, <1>9, <2>3 DEF Headed, TargetInv
  <2>5. InHeader'
    <3>1. srcPtr' = stream'[i].at + dctx'.tmpInSize /\ dctx'.tmpInSize < dctx'.tmpInTarget
      BY <1>1, <1>9, <2>1, <2>2, <2>3
    <3>2. StoredFrom(0, i)'
      BY <2>1, <2>3 DEF StoredFrom, Stores
    <3>3. /\ Reads(i, {"frame", "skip"})' /\ i \in DOMAIN stream'
          /\ stream'[i].k = "frame" /\ dctx'.tmpInTarget = stream'[i].size
      BY <1>1, <1>9, <2>3 DEF Reads, Fine
    <3> QED BY <3>1, <3>2, <3>3 DEF InHeader, Collects
  <2>6. PlaceInv'
    BY <2>3, <2>5 DEF PlaceInv
  <2>7. srcPtr' = stream[i].at + size /\ srcPtr <= srcPtr' /\ srcPtr' \in Nat
    BY <1>1, <2>1, <2>2
  <2> QED BY <2>2, <2>4, <2>6, <2>7
<1>10. ASSUME f.k = "frame", size >= f.size
       PROVE  /\ Headed(dctx, dctx') /\ TargetInv'
              /\ srcPtr' \in Nat /\ srcPtr <= srcPtr' /\ srcPtr' <= stream[i].at + size
              /\ \/ Went /\ PlaceInv'
                 \/ Failed("header_invalid") /\ ~f.ok
  <2>1. Field(src, 0, f.size) = f
    BY <1>1, <1>2, <1>3, <1>4, <1>10
  <2>2. srcPtr \in Nat /\ (inHeader => size = f.size)
    <3>1. ASSUME inHeader PROVE size = f.size
      BY <1>1, <1>2, <1>3, <1>10, <3>1
    <3> QED BY <3>1
  <2>3. CASE f.ok
    <3> DEFINE h == [e EXCEPT
                     !.frameInfo = f.info,
                     !.maxBlockSize = blockSizes[f.info.blockSizeID],
                     !.frameRemainingSize = IF f.info.sized THEN f.info.contentSize ELSE @,
                     !.dStage = "init"]
    <3>1. Went /\ dctx' = h /\ srcPtr' = srcPtr + (IF inHeader THEN consumed ELSE f.size)
      BY <1>5, <1>10, <2>1, <2>3 DEF LZ4F_decodeHeader, Go, Went, Consume, e
    <3>2. /\ blockSizes[f.info.blockSizeID] \in Nat /\ f.info.contentSize \in Nat
          /\ f.info.blockSizeID \in DOMAIN blockSizes
      BY <1>1, <1>3, <1>10, <2>3, BlockSizes DEF FrameInfo
    <3>3. /\ dctx' \in Contexts(dctx'.stored) /\ dctx'.dStage = "init"
          /\ dctx'.frameInfo = f.info
          /\ dctx'.maxBlockSize = blockSizes[f.info.blockSizeID]
          /\ dctx'.maxBufferSize = dctx.maxBufferSize
          /\ dctx'.tmpInCapacity = dctx.tmpInCapacity
          /\ dctx'.dict = dctx.dict /\ dctx'.dictSize = dctx.dictSize
          /\ dctx'.frameRemainingSize =
                IF f.info.sized THEN f.info.contentSize ELSE dctx.frameRemainingSize
      <4> DEFINE remaining == IF f.info.sized THEN f.info.contentSize ELSE e.frameRemainingSize
                 max == blockSizes[f.info.blockSizeID]
      <4>1. remaining \in Int /\ max \in Nat /\ f.info \in FrameInfo /\ "init" \in Stages
        BY <1>1, <1>6, <1>7, <3>2 DEF Contexts
      <4>2. dctx' = [e EXCEPT !.frameInfo = f.info, !.maxBlockSize = max,
                              !.frameRemainingSize = remaining, !.dStage = "init"]
        BY <1>6, <3>1 DEF Contexts
      <4> HIDE DEF remaining, max
      <4>3. /\ dctx' \in Contexts(dctx'.stored) /\ dctx'.dStage = "init"
            /\ dctx'.frameInfo = f.info /\ dctx'.maxBlockSize = max
            /\ dctx'.maxBufferSize = e.maxBufferSize
            /\ dctx'.tmpInCapacity = e.tmpInCapacity
            /\ dctx'.dict = e.dict /\ dctx'.dictSize = e.dictSize
            /\ dctx'.frameRemainingSize = remaining
        BY <1>6, <4>1, <4>2 DEF Contexts
      <4> QED BY <1>6, <4>3 DEF remaining, max
    <3>4. Headed(dctx, dctx') /\ TargetInv'
      <4>1. f.info.sized \/ f.info.contentSize = 0
        BY <1>3, <1>10
      <4> QED BY <1>7, <3>2, <3>3, <4>1 DEF Headed, TargetInv
    <3>5. srcPtr' = stream[i].at + f.size
      BY <1>1, <2>2, <3>1
    <3>6. AtBlock'
      <4> DEFINE g == stream[i + 1]
      <4>1. /\ i + 1 \in DOMAIN stream /\ g.at = f.at + f.size /\ Follows(f, g) /\ Fine(i + 1)
        BY <1>1, <1>3, <2>3, NextField, FineNext
      <4>2. NextBlock(f, g) /\ g.from = 1
        BY <1>3, <1>10, <4>1 DEF Follows
      <4>3. InFrame(i + 1, {"head", "end"})' /\ i + 1 \in DOMAIN stream'
        BY <3>3, <4>1, <4>2 DEF InFrame, Reads, Fine, NextBlock
      <4>4. srcPtr' = stream'[i + 1].at /\ stream'[i + 1].from = Given' + Pending' + 1
        <5>1. Pending' = 0
          BY <3>3 DEF Pending
        <5> QED BY <3>5, <4>1, <4>2, <5>1
      <4> QED BY <4>3, <4>4 DEF AtBlock
    <3>7. PlaceInv'
      BY <3>3, <3>6 DEF PlaceInv
    <3>8. srcPtr' <= stream[i].at + size /\ srcPtr <= srcPtr' /\ srcPtr' \in Nat
      BY <1>1, <1>10, <2>2, <3>1, <3>5
    <3> QED BY <3>1, <3>4, <3>7, <3>8
  <2>4. CASE ~f.ok
    <3>1. Failed("header_invalid") /\ dctx' = e /\ srcPtr' = srcPtr + consumed
      BY <1>5, <1>10, <2>4 DEF LZ4F_decodeHeader, Fail, Failed, Consume, e
    <3>2. Headed(dctx, dctx') /\ TargetInv'
      <4>1. Headed(dctx, dctx')
        BY <1>6, <1>7, <3>1 DEF Headed
      <4>2. dctx'.dStage \notin {"getCBlock", "storeCBlock"}
        BY <1>6, <3>1 DEF Before
      <4> QED BY <1>6, <3>1, <4>1, <4>2 DEF TargetInv
    <3>3. srcPtr' <= stream[i].at + size /\ srcPtr <= srcPtr' /\ srcPtr' \in Nat
      BY <1>1, <3>1
    <3> QED BY <2>4, <3>1, <3>2, <3>3
  <2> QED BY <1>1, <2>3, <2>4
<1> QED BY <1>1, <1>8, <1>9, <1>10

\* The sizes of headers, in order.
LEMMA HeaderSizes ==
    /\ minFHSize \in Nat /\ 4 < minFHSize /\ minFHSize < 8 /\ 8 <= maxFHSize /\ maxFHSize \in Nat
    /\ knowHeaderSize \in Nat /\ 4 < knowHeaderSize /\ knowHeaderSize <= minFHSize
    /\ BHSize \in Nat \ {0}
<1>1. 4 < knowHeaderSize /\ knowHeaderSize <= minFHSize /\ minFHSize < 8 /\ 8 <= maxFHSize
  BY StreamsAssumption
<1>2. knowHeaderSize \in Nat /\ minFHSize \in Nat /\ maxFHSize \in Nat /\ BHSize \in Nat \ {0}
  BY DecoderAssumption
<1> QED BY <1>1, <1>2

\* The stages before the blocks of a frame.
LEMMA BeforeStages ==
    /\ Before = {"getFrameHeader", "storeFrameHeader", "getSFrameSize", "storeSFrameSize",
                 "skipSkippable"}
    /\ Before \subseteq Stages /\ "init" \notin Before /\ "init" \in Stages
    /\ Before \cap {"getCBlock", "storeCBlock"} = {}
BY DEF Before, Stages, InBlocks

\* Where a header step ends in a call, the invariant holds.
LEMMA HeaderEnds ==
    ASSUME Inv, pc = "run", dctx.dStage \in Before, StageKeeps, Advances,
           UNCHANGED <<dst, mem, asserts>>, Headed(dctx, dctx'), TargetInv',
           NEW i \in DOMAIN stream,
           \/ Went /\ PlaceInv'
           \/ Failed("header_invalid") /\ ~stream[i].ok
    PROVE  Inv'
<1>1. "header_invalid" \in Errors
  BY DEF Errors
<1>2. Ended
  BY <1>1 DEF Ended
<1>3. Settled'
  BY <1>2, BeforeStep
<1>4. stream' = stream
  BY DEF StageKeeps
<1> QED BY <1>1, <1>3, <1>4, GoesOn, FailsThere

\* The header of a frame in the input, too little of it, or no input at all.
LEMMA GetFrameHeaderStep ==
    ASSUME Inv, pc = "run", StageKeeps, getFrameHeader
    PROVE  Inv'
<1>1. /\ TypeOK /\ CallInv /\ stream \in Streams /\ stream' = stream /\ ReadInv /\ ~failed
      /\ dctx.dStage = "getFrameHeader" /\ dctx \in Contexts(dctx.stored) /\ TargetInv
      /\ UNCHANGED <<dst, mem, asserts>> /\ Kept(dctx, dctx) /\ dctx.dStage \in Before
  BY BeforeStages
     DEF Inv, SizeInv, CallInv, TypeOK, StageKeeps, getFrameHeader, NoOutput, Kept
<1>2. /\ srcPtr \in Nat /\ srcEnd \in Nat /\ srcPtr <= srcEnd /\ srcEnd <= Total + 1
      /\ available = srcEnd - srcPtr /\ Total \in Nat
  BY <1>1, InputEnds DEF TypeOK, CallInv, available
<1>3. Given = 0 /\ Given' = 0
  <2>1. Given = 0
    BY <1>1 DEF ReadInv, CountInv
  <2> QED BY <1>1, <2>1 DEF Given, StageKeeps
<1>4. ASSUME available # 0
      PROVE  \E i \in DOMAIN stream : Reads(i, {"frame", "skip"}) /\ srcPtr = stream[i].at
  <2>1. AtFrame
    BY <1>1 DEF ReadInv, PlaceInv
  <2> QED BY <1>2, <1>4, <2>1 DEF AtFrame
<1>5. CASE available >= maxFHSize
  <2>1. LZ4F_decodeHeader(dctx, Here(available), available, FALSE, 0)
    BY <1>5 DEF getFrameHeader
  <2>2. PICK i \in DOMAIN stream : Reads(i, {"frame", "skip"}) /\ srcPtr = stream[i].at
    BY <1>2, <1>4, <1>5, HeaderSizes
  <2>3. \A j \in 0..(available - 1) : Here(available)[j] = stream[i].at + j
    BY <1>2, <2>2, HereIs
  <2>4. stream[i].k = "frame" => stream[i].size <= available
    <3>1. ASSUME stream[i].k = "frame"
          PROVE  stream[i].size \in Nat /\ stream[i].size <= maxFHSize
      <4>1. Whole(stream[i])
        BY <1>1, FieldTypes
      <4> QED BY <3>1, <4>1, HeaderSizes DEF Whole
    <3> QED BY <1>2, <1>5, <3>1, HeaderSizes
  <2>5. available \in Nat /\ minFHSize <= available
    BY <1>2, <1>5, HeaderSizes
  <2>6. /\ Headed(dctx, dctx') /\ TargetInv'
        /\ srcPtr' \in Nat /\ srcPtr <= srcPtr' /\ srcPtr' <= stream[i].at + available
        /\ \/ Went /\ PlaceInv'
           \/ Failed("header_invalid") /\ ~stream[i].ok
    <3>1. FALSE \in BOOLEAN /\ 0 \in Nat
      OBVIOUS
    <3> HIDE DEF available
    <3> QED BY <1>1, <1>2, <1>3, <2>1, <2>2, <2>3, <2>4, <2>5, <3>1, HeaderStep
  <2>7. Advances
    BY <1>2, <2>2, <2>6 DEF Advances
  <2> QED BY <1>1, <2>6, <2>7, HeaderEnds
<1>6. CASE ~(available >= maxFHSize) /\ available # 0
  <2>1. /\ Went /\ srcPtr' = srcPtr + 0
        /\ dctx' = [Restore(dctx, 0) EXCEPT !.tmpInTarget = minFHSize,
                                            !.dStage = "storeFrameHeader"]
    BY <1>6 DEF getFrameHeader, Go, Went, Consume
  <2>2. /\ dctx' \in Contexts(dctx'.stored) /\ Kept(dctx', dctx)
        /\ dctx'.dStage = "storeFrameHeader" /\ dctx'.tmpInSize = 0
        /\ dctx'.tmpInTarget = minFHSize
    <3> DEFINE r == Restore(dctx, 0)
    <3>1. r \in Contexts(r.stored) /\ Kept(r, dctx) /\ r.tmpInSize = 0
      BY <1>1, RestoreIs
    <3> HIDE DEF r
    <3>2. dctx' = [r EXCEPT !.tmpInTarget = minFHSize, !.dStage = "storeFrameHeader"]
      BY <2>1 DEF r
    <3>3. "storeFrameHeader" \in Stages /\ minFHSize \in Nat
      BY BeforeStages, HeaderSizes
    <3> QED BY <3>1, <3>2, <3>3 DEF Contexts, Kept
  <2>3. PICK i \in DOMAIN stream : Reads(i, {"frame", "skip"}) /\ srcPtr = stream[i].at
    BY <1>4, <1>6
  <2>4. srcPtr' = srcPtr /\ Advances
    BY <1>2, <2>1 DEF Advances
  <2>5. Headed(dctx, dctx') /\ TargetInv'
    <3>1. minFHSize <= maxFHSize
      BY HeaderSizes
    <3>2. TargetInv'
      BY <2>2, <3>1 DEF TargetInv
    <3>3. dctx'.dStage \in Before
      BY <2>2, BeforeStages
    <3> QED BY <2>2, <3>2, <3>3, KeptIsHeaded
  <2>6. InHeader'
    <3>1. srcPtr' = stream'[i].at + dctx'.tmpInSize /\ dctx'.tmpInSize < dctx'.tmpInTarget
      BY <1>1, <1>2, <2>2, <2>3, <2>4, HeaderSizes
    <3>2. StoredFrom(0, i)'
      BY <2>2 DEF StoredFrom, Stores
    <3>3. Reads(i, {"frame", "skip"})' /\ i \in DOMAIN stream' /\ dctx'.tmpInTarget = minFHSize
      BY <1>1, <2>2, <2>3 DEF Reads, Fine
    <3> QED BY <3>1, <3>2, <3>3 DEF InHeader, Collects
  <2>7. PlaceInv'
    BY <2>2, <2>6 DEF PlaceInv
  <2> QED BY <1>1, <2>1, <2>3, <2>4, <2>5, <2>7, HeaderEnds
<1>7. CASE ~(available >= maxFHSize) /\ available = 0
  <2>1. /\ dctx' = Restore(dctx, 0) /\ pc' = "idle" /\ srcPtr' = srcPtr + 0
        /\ ret' = [error |-> "none", hint |-> minFHSize]
    BY <1>7 DEF getFrameHeader, Consume
  <2>2. /\ dctx' \in Contexts(dctx'.stored) /\ Kept(dctx', dctx)
        /\ dctx'.dStage = "getFrameHeader"
    BY <1>1, <2>1, RestoreIs
  <2>3. /\ ~failed' /\ ret' \in [error : Errors \cup {"none"}, hint : Nat] /\ srcPtr' = srcPtr
    BY <1>2, <2>1, HeaderSizes DEF failed
  <2>4. TypeOK'
    BY <1>1, <2>1, <2>2, <2>3 DEF TypeOK, RoomOK, StageKeeps
  <2>5. CallInv'
    <3>1. dst.at = dst.start
      <4>1. sent \in Nat /\ dst.start <= dst.at /\ dst.at \in Int /\ dst.start \in Int
            /\ Given = sent + (dst.at - dst.start)
        BY <1>1, GivenType
      <4> QED BY <1>3, <4>1
    <3>2. srcPtr' <= Total' + 1
      BY <1>1, <1>2, <2>3 DEF Total
    <3> QED BY <1>1, <2>1, <3>1, <3>2 DEF CallInv
  <2>6. OutputIsContent' /\ DoneInv' /\ FailInv' /\ CompleteMeansWhole' /\ Progress'
    BY <2>1, <2>3 DEF OutputIsContent, DoneInv, FailInv, CompleteMeansWhole, Progress
  <2>7. Headed(dctx, dctx')
    BY <1>1, <2>2, KeptIsHeaded
  <2>8. Settled'
    BY <1>1, <1>3, <2>4, <2>5, <2>6, <2>7, HeadedSettles DEF StageKeeps
  <2>9. TargetInv'
    BY <2>2 DEF TargetInv
  <2>10. PlaceInv'
    <3>1. AtFrame
      BY <1>1 DEF ReadInv, PlaceInv
    <3>2. AtFrame'
      BY <1>1, <2>3, <3>1 DEF AtFrame, Reads, Fine, Total
    <3> QED BY <2>2, <3>2 DEF PlaceInv
  <2> QED BY <2>3, <2>6, <2>8, <2>9, <2>10 DEF Inv, SizeInv, PastInv, ReadInv, Settled
<1> QED BY <1>5, <1>6, <1>7

\* The header of a frame, collected, in one or two portions.
LEMMA StoreFrameHeaderStep ==
    ASSUME Inv, pc = "run", StageKeeps, storeFrameHeader
    PROVE  Inv'
<1> DEFINE n == Wanted(dctx, dctx.tmpInTarget)
           d == Store(dctx, n)
           target == dctx.tmpInTarget
<1>1. /\ TypeOK /\ CallInv /\ stream \in Streams /\ stream' = stream /\ ReadInv /\ ~failed
      /\ dctx.dStage = "storeFrameHeader" /\ dctx \in Contexts(dctx.stored) /\ TargetInv
      /\ UNCHANGED <<dst, mem, asserts>> /\ dctx.dStage \in Before
      /\ IF d.tmpInSize < d.tmpInTarget
         THEN Stop(d, d.tmpInTarget - d.tmpInSize + BHSize) /\ srcPtr' = srcPtr + n
         ELSE LZ4F_decodeHeader(d, d.stored, d.tmpInTarget, TRUE, n)
  BY BeforeStages
     DEF Inv, SizeInv, CallInv, TypeOK, StageKeeps, storeFrameHeader, NoOutput, Consume
<1>2. PICK i \in DOMAIN stream :
        /\ Reads(i, {"frame", "skip"}) /\ Collects(i, dctx.tmpInTarget)
        /\ \/ dctx.tmpInTarget = minFHSize
           \/ stream[i].k = "frame" /\ dctx.tmpInTarget = stream[i].size
  BY <1>1 DEF ReadInv, PlaceInv, InHeader
<1>3. target \in Nat /\ dctx.tmpInSize \in Nat
  BY <1>1, ContextTypes
<1>4. /\ srcPtr = stream[i].at + dctx.tmpInSize /\ dctx.tmpInSize < target /\ StoredFrom(0, i)
  BY <1>2 DEF Collects
<1>5. /\ n \in Nat /\ srcPtr + n <= srcEnd /\ d \in Contexts(d.stored) /\ Kept(d, dctx)
      /\ d.dStage = dctx.dStage /\ d.tmpInTarget = dctx.tmpInTarget
      /\ d.tmpInSize = dctx.tmpInSize + n /\ d.tmpInSize <= target
      /\ srcPtr + n = stream[i].at + d.tmpInSize
      /\ d.tmpInSize < target => srcPtr + n = srcEnd
      /\ Stores(d, 0, i)
  BY <1>1, <1>3, <1>4, Collect
<1> HIDE DEF n, d
<1>6. /\ srcPtr \in Nat /\ srcEnd \in Nat /\ d.tmpInSize \in Nat /\ stream[i].at \in Nat
      /\ stream[i].size \in Nat /\ Whole(stream[i])
  BY <1>1, <1>5, ContextTypes, FieldTypes DEF TypeOK
<1>7. Given' = 0
  <2>1. Given = 0
    BY <1>1, BeforeStages DEF ReadInv, CountInv
  <2> QED BY <1>1, <2>1 DEF Given, StageKeeps
<1>8. CASE d.tmpInSize < target
  <2> DEFINE h == target - d.tmpInSize + BHSize
  <2>1. Stopped(h) /\ dctx' = d /\ h \in Nat \ {0} /\ srcPtr' = srcPtr + n
    BY <1>1, <1>3, <1>5, <1>6, <1>8, HeaderSizes DEF Stop, Stopped
  <2>2. Ended /\ Advances
    BY <1>5, <1>6, <2>1 DEF Ended, Advances
  <2>3. Headed(dctx, dctx') /\ dctx'.dStage = "storeFrameHeader"
    BY <1>1, <1>5, <2>1, KeptIsHeaded
  <2>4. Settled'
    BY <1>1, <2>2, <2>3, BeforeStep
  <2>5. InHeader'
    <3>1. srcPtr' = stream'[i].at + dctx'.tmpInSize /\ dctx'.tmpInSize < dctx'.tmpInTarget
      BY <1>1, <1>5, <1>8, <2>1
    <3>2. StoredFrom(0, i)'
      BY <1>1, <1>5, <2>1 DEF StoredFrom, Stores
    <3>3. /\ Reads(i, {"frame", "skip"})' /\ i \in DOMAIN stream'
          /\ \/ dctx'.tmpInTarget = minFHSize
             \/ stream'[i].k = "frame" /\ dctx'.tmpInTarget = stream'[i].size
      BY <1>1, <1>2, <1>5, <2>1 DEF Reads, Fine
    <3> QED BY <3>1, <3>2, <3>3 DEF InHeader, Collects
  <2>6. TargetInv' /\ PlaceInv' /\ dctx'.dStage # "getFrameHeader"
    BY <1>1, <1>5, <2>1, <2>3, <2>5 DEF TargetInv, PlaceInv
  <2>7. srcPtr' = srcEnd'
    BY <1>1, <1>5, <1>8, <2>1 DEF StageKeeps
  <2> HIDE DEF h
  <2> QED BY <2>1, <2>4, <2>6, <2>7, StopsThere
<1>9. CASE ~(d.tmpInSize < target)
  <2>1. LZ4F_decodeHeader(d, d.stored, target, TRUE, n) /\ d.tmpInSize = target
    <3>1. d.tmpInSize = target
      BY <1>3, <1>5, <1>6, <1>9
    <3>2. d.tmpInTarget = target /\ ~(d.tmpInSize < d.tmpInTarget)
      BY <1>5, <1>9
    <3>3. LZ4F_decodeHeader(d, d.stored, d.tmpInTarget, TRUE, n)
      BY <1>1, <3>2
    <3> QED BY <3>1, <3>2, <3>3
  <2>2. \A j \in 0..(target - 1) : d.stored[j] = stream[i].at + j
    BY <1>5, <2>1 DEF Stores
  <2>3. minFHSize <= target
    <3>1. CASE target = minFHSize
      BY <3>1, HeaderSizes
    <3>2. CASE stream[i].k = "frame" /\ target = stream[i].size
      BY <1>6, <3>2, HeaderSizes DEF Whole
    <3> QED BY <1>2, <3>1, <3>2
  <2>4. /\ Headed(dctx, dctx') /\ TargetInv'
        /\ srcPtr' \in Nat /\ srcPtr <= srcPtr' /\ srcPtr' <= stream[i].at + target
        /\ \/ Went /\ PlaceInv'
           \/ Failed("header_invalid") /\ ~stream[i].ok
    <3>1. /\ srcPtr + n = stream[i].at + target
          /\ target = minFHSize \/ (stream[i].k = "frame" /\ target = stream[i].size)
      BY <1>2, <1>5, <2>1
    <3>2. TRUE \in BOOLEAN
      OBVIOUS
    <3>3. d.tmpInTarget = dctx.tmpInTarget
      BY <1>5
    <3> HIDE DEF target
    <3> QED BY <1>1, <1>2, <1>3, <1>5, <1>6, <1>7, <2>1, <2>2, <2>3, <3>1, <3>2, <3>3, HeaderStep
  <2>5. Advances
    <3>1. stream[i].at + target <= srcEnd
      BY <1>5, <2>1
    <3> QED BY <1>3, <1>6, <2>4, <3>1 DEF Advances
  <2> QED BY <1>1, <2>4, <2>5, HeaderEnds
<1> QED BY <1>8, <1>9

Skips(d, n) ==
    Went /\ dctx' = [d EXCEPT !.frameInfo.contentSize = n, !.tmpInTarget = n,
                              !.dStage = "skipSkippable"]

\* Only one skippable frame has these four bytes at the end of its header.
LEMMA SkippableIs ==
    ASSUME stream \in Streams, NEW i \in DOMAIN stream, stream[i].k = "skip",
           NEW buf, NEW from \in Int, \A j \in 0..3 : buf[from + j] = stream[i].at + 4 + j,
           NEW d, Skippable(d, buf, from)
    PROVE  Skips(d, stream[i].n)
<1> DEFINE is == {l \in DOMAIN stream : stream[l].k = "skip" /\
                     \A j \in 0..3 : buf[from + j] = stream[l].at + 4 + j}
<1>1. i \in is
  OBVIOUS
<1>2. ASSUME NEW l \in is PROVE l = i
  <2>1. 0 \in 0..3
    OBVIOUS
  <2>2. stream[l].at + 4 + 0 = stream[i].at + 4 + 0
    BY <2>1
  <2>3. /\ i \in Nat /\ l \in Nat /\ stream[i].at \in Nat /\ stream[l].at \in Nat
        /\ stream[i].size = 8 /\ stream[l].size = 8
        /\ i \in DOMAIN stream /\ l \in DOMAIN stream
    <3>1. Whole(stream[i]) /\ Whole(stream[l]) /\ stream[l].k = "skip" /\ l \in DOMAIN stream
      BY FieldTypes
    <3>2. stream[i].size = 8 /\ stream[l].size = 8
      BY <3>1 DEF Whole
    <3> QED BY <3>1, <3>2, FieldTypes, SMTT(30)
  <2>4. ~(i < l)
    <3> SUFFICES ASSUME i < l PROVE FALSE
      OBVIOUS
    <3>1. stream[i].at + stream[i].size <= stream[l].at
      BY <2>3, FieldTypes
    <3> QED BY <2>2, <2>3, <3>1
  <2>5. ~(l < i)
    <3> SUFFICES ASSUME l < i PROVE FALSE
      OBVIOUS
    <3>1. stream[l].at + stream[l].size <= stream[i].at
      BY <2>3, FieldTypes
    <3> QED BY <2>2, <2>3, <3>1
  <2> QED BY <2>3, <2>4, <2>5
<1>3. (CHOOSE l \in is : TRUE) = i /\ is # {}
  BY <1>1, <1>2
<1> QED BY <1>3 DEF Skippable, Go, Went, Skips

\* The size of what is skipped is at hand.
LEMMA SkippableStep ==
    ASSUME Inv, pc = "run", StageKeeps, Advances, UNCHANGED <<dst, mem, asserts>>,
           dctx.dStage \in Before,
           NEW i \in DOMAIN stream, Reads(i, {"skip"}),
           NEW d, d \in Contexts(d.stored), Kept(d, dctx),
           NEW buf, NEW from \in Int, \A j \in 0..3 : buf[from + j] = stream[i].at + 4 + j,
           srcPtr' = stream[i].at + 8, srcPtr' > srcPtr, Skippable(d, buf, from)
    PROVE  Inv'
<1>1. /\ TypeOK /\ CallInv /\ stream \in Streams /\ stream' = stream
      /\ stream[i].k = "skip" /\ Fine(i)
  BY DEF Inv, SizeInv, TypeOK, CallInv, StageKeeps, Reads
<1>2. Went /\ dctx' = [d EXCEPT !.frameInfo.contentSize = stream[i].n,
                                !.tmpInTarget = stream[i].n, !.dStage = "skipSkippable"]
  <2>1. Skips(d, stream[i].n)
    BY <1>1, SkippableIs
  <2> QED BY <2>1 DEF Skips
<1>3. stream[i].n \in Nat /\ "skipSkippable" \in Stages /\ stream[i].at \in Nat
  BY <1>1, FieldTypes, BeforeStages
<1>4. /\ dctx' \in Contexts(dctx'.stored) /\ dctx'.dStage = "skipSkippable"
      /\ dctx'.tmpInTarget = stream[i].n
      /\ dctx'.maxBufferSize = d.maxBufferSize /\ dctx'.tmpInCapacity = d.tmpInCapacity
      /\ dctx'.dict = d.dict /\ dctx'.dictSize = d.dictSize
      /\ dctx'.frameRemainingSize = d.frameRemainingSize
  <2> DEFINE info == [d.frameInfo EXCEPT !.contentSize = stream[i].n]
  <2>1. info \in FrameInfo
    BY <1>3, ContextTypes DEF FrameInfo
  <2>2. dctx' = [d EXCEPT !.frameInfo = info, !.tmpInTarget = stream[i].n,
                          !.dStage = "skipSkippable"]
    BY <1>2 DEF Contexts
  <2> HIDE DEF info
  <2> QED BY <1>3, <2>1, <2>2 DEF Contexts
<1>5. Headed(dctx, dctx')
  BY <1>4, BeforeStages DEF Headed, Kept
<1>6. Settled'
  BY <1>2, <1>5, BeforeStep DEF Ended
<1>7. InSkipped'
  <2>1. srcPtr' > srcStart'
    BY <1>1 DEF CallInv, TypeOK, StageKeeps, Advances
  <2>2. Reads(i, {"skip"})' /\ i \in DOMAIN stream' /\ pc' = "run"
    BY <1>1, <1>2 DEF Reads, Fine, Went
  <2>3. srcPtr' + dctx'.tmpInTarget = stream'[i].at + 8 + stream'[i].n
    BY <1>1, <1>4
  <2> QED BY <2>1, <2>2, <2>3 DEF InSkipped
<1>8. TargetInv' /\ PlaceInv'
  BY <1>4, <1>7 DEF TargetInv, PlaceInv
<1> QED BY <1>2, <1>6, <1>8, GoesOn

\* The size of a skippable frame in the input, or too little of it.
LEMMA GetSFrameSizeStep ==
    ASSUME Inv, pc = "run", StageKeeps, getSFrameSize
    PROVE  Inv'
<1>1. /\ TypeOK /\ CallInv /\ stream \in Streams /\ stream' = stream /\ ReadInv
      /\ dctx.dStage = "getSFrameSize" /\ dctx \in Contexts(dctx.stored)
      /\ UNCHANGED <<dst, mem, asserts>> /\ Kept(dctx, dctx) /\ dctx.dStage \in Before
  BY BeforeStages
     DEF Inv, SizeInv, CallInv, TypeOK, StageKeeps, getSFrameSize, NoOutput, Kept
<1>2. PICK i \in DOMAIN stream : Reads(i, {"skip"}) /\ srcPtr = stream[i].at + 4
  BY <1>1 DEF ReadInv, PlaceInv, AtSkipSize
<1>3. /\ srcPtr \in Nat /\ srcEnd \in Nat /\ srcPtr <= srcEnd /\ available = srcEnd - srcPtr
      /\ stream[i].at \in Nat
  BY <1>1, FieldTypes DEF TypeOK, CallInv, available
<1>4. CASE available >= 4
  <2>1. Skippable(dctx, Here(4), 0) /\ srcPtr' = srcPtr + 4
    BY <1>4 DEF getSFrameSize, Consume
  <2>2. \A j \in 0..3 : Here(4)[0 + j] = stream[i].at + 4 + j
    BY <1>2, <1>3 DEF Here
  <2>3. Advances /\ srcPtr' = stream[i].at + 8 /\ srcPtr' > srcPtr
    BY <1>2, <1>3, <1>4, <2>1 DEF Advances
  <2>4. 0 \in Int
    OBVIOUS
  <2> QED BY <1>1, <1>2, <2>1, <2>2, <2>3, <2>4, SkippableStep
<1>5. CASE ~(available >= 4)
  <2>1. /\ Went /\ srcPtr' = srcPtr + 0
        /\ dctx' = [Restore(dctx, 0) EXCEPT !.tmpInSize = 4, !.tmpInTarget = 8,
                                            !.dStage = "storeSFrameSize"]
    BY <1>5 DEF getSFrameSize, Go, Went, Consume
  <2>2. /\ dctx' \in Contexts(dctx'.stored) /\ Kept(dctx', dctx)
        /\ dctx'.dStage = "storeSFrameSize" /\ dctx'.tmpInSize = 4 /\ dctx'.tmpInTarget = 8
    <3> DEFINE r == Restore(dctx, 0)
    <3>1. r \in Contexts(r.stored) /\ Kept(r, dctx)
      BY <1>1, RestoreIs
    <3> HIDE DEF r
    <3>2. dctx' = [r EXCEPT !.tmpInSize = 4, !.tmpInTarget = 8, !.dStage = "storeSFrameSize"]
      BY <2>1 DEF r
    <3>3. "storeSFrameSize" \in Stages
      BY BeforeStages
    <3> QED BY <3>1, <3>2, <3>3 DEF Contexts, Kept
  <2>3. srcPtr' = srcPtr /\ Advances /\ Ended
    BY <1>3, <2>1 DEF Advances, Ended
  <2>4. Headed(dctx, dctx') /\ TargetInv'
    <3>1. TargetInv'
      BY <2>2, HeaderSizes DEF TargetInv
    <3> QED BY <2>2, <3>1, BeforeStages, KeptIsHeaded
  <2>5. Settled'
    BY <1>1, <2>3, <2>4, BeforeStep
  <2>6. InSkipSize'
    <3>1. /\ srcPtr' = stream'[i].at + dctx'.tmpInSize
          /\ 4 <= dctx'.tmpInSize /\ dctx'.tmpInSize < 8 /\ dctx'.tmpInTarget = 8
      BY <1>1, <1>2, <2>2, <2>3
    <3>2. StoredFrom(4, i)'
      BY <2>2 DEF StoredFrom, Stores
    <3>3. Reads(i, {"skip"})' /\ i \in DOMAIN stream'
      BY <1>1, <1>2 DEF Reads, Fine
    <3> QED BY <3>1, <3>2, <3>3 DEF InSkipSize
  <2>7. PlaceInv'
    BY <2>2, <2>6 DEF PlaceInv
  <2> QED BY <2>1, <2>4, <2>5, <2>7, GoesOn
<1> QED BY <1>4, <1>5

\* The size of a skippable frame, collected.
LEMMA StoreSFrameSizeStep ==
    ASSUME Inv, pc = "run", StageKeeps, storeSFrameSize
    PROVE  Inv'
<1> DEFINE n == Wanted(dctx, dctx.tmpInTarget)
           d == Store(dctx, n)
<1>1. /\ TypeOK /\ CallInv /\ stream \in Streams /\ stream' = stream /\ ReadInv
      /\ dctx.dStage = "storeSFrameSize" /\ dctx \in Contexts(dctx.stored)
      /\ UNCHANGED <<dst, mem, asserts>> /\ dctx.dStage \in Before /\ srcPtr' = srcPtr + n
      /\ IF d.tmpInSize < d.tmpInTarget THEN Stop(d, d.tmpInTarget - d.tmpInSize)
         ELSE Skippable(d, d.stored, 4)
  BY BeforeStages
     DEF Inv, SizeInv, CallInv, TypeOK, StageKeeps, storeSFrameSize, NoOutput, Consume
<1>2. PICK i \in DOMAIN stream :
        /\ Reads(i, {"skip"}) /\ srcPtr = stream[i].at + dctx.tmpInSize
        /\ 4 <= dctx.tmpInSize /\ dctx.tmpInSize < 8 /\ dctx.tmpInTarget = 8
        /\ StoredFrom(4, i)
  BY <1>1 DEF ReadInv, PlaceInv, InSkipSize
<1>3. /\ n \in Nat /\ srcPtr + n <= srcEnd /\ d \in Contexts(d.stored) /\ Kept(d, dctx)
      /\ d.dStage = dctx.dStage /\ d.tmpInTarget = dctx.tmpInTarget
      /\ d.tmpInSize = dctx.tmpInSize + n /\ d.tmpInSize <= 8
      /\ srcPtr + n = stream[i].at + d.tmpInSize
      /\ d.tmpInSize < 8 => srcPtr + n = srcEnd
      /\ Stores(d, 4, i)
  <2>1. 8 \in Nat /\ 4 \in Nat /\ n = Wanted(dctx, 8)
    BY <1>2
  <2> HIDE DEF n
  <2> QED BY <1>1, <1>2, <2>1, Collect
<1> HIDE DEF n, d
<1>4. /\ srcPtr \in Nat /\ srcEnd \in Nat /\ d.tmpInSize \in Nat /\ stream[i].at \in Nat
      /\ dctx.tmpInSize \in Nat
  BY <1>1, <1>3, ContextTypes, FieldTypes DEF TypeOK
<1>5. Advances
  BY <1>1, <1>3, <1>4 DEF Advances
<1>6. CASE d.tmpInSize < 8
  <2>1. Stopped(8 - d.tmpInSize) /\ dctx' = d /\ 8 - d.tmpInSize \in Nat \ {0}
    BY <1>1, <1>2, <1>3, <1>4, <1>6 DEF Stop, Stopped
  <2>2. Ended
    BY <2>1 DEF Ended
  <2>3. Headed(dctx, dctx') /\ dctx'.dStage = "storeSFrameSize"
    BY <1>1, <1>3, <2>1, KeptIsHeaded
  <2>4. Settled'
    BY <1>1, <1>5, <2>2, <2>3, BeforeStep
  <2>5. InSkipSize'
    <3>1. /\ srcPtr' = stream'[i].at + dctx'.tmpInSize
          /\ 4 <= dctx'.tmpInSize /\ dctx'.tmpInSize < 8 /\ dctx'.tmpInTarget = 8
      BY <1>1, <1>2, <1>3, <1>4, <1>6, <2>1
    <3>2. StoredFrom(4, i)'
      BY <1>1, <1>3, <2>1 DEF StoredFrom, Stores
    <3>3. Reads(i, {"skip"})' /\ i \in DOMAIN stream'
      BY <1>1, <1>2 DEF Reads, Fine
    <3> QED BY <3>1, <3>2, <3>3 DEF InSkipSize
  <2>6. TargetInv' /\ PlaceInv' /\ dctx'.dStage # "getFrameHeader"
    BY <2>3, <2>5, HeaderSizes DEF TargetInv, PlaceInv, InSkipSize
  <2>7. srcPtr' = srcEnd'
    BY <1>1, <1>3, <1>6 DEF StageKeeps
  <2> QED BY <2>1, <2>4, <2>6, <2>7, StopsThere
<1>7. CASE ~(d.tmpInSize < 8)
  <2>1. d.tmpInSize = 8
    BY <1>3, <1>4, <1>7
  <2>2. Skippable(d, d.stored, 4)
    BY <1>1, <1>2, <1>3, <1>7
  <2>3. \A j \in 0..3 : d.stored[4 + j] = stream[i].at + 4 + j
    <3> SUFFICES ASSUME NEW j \in 0..3 PROVE d.stored[4 + j] = stream[i].at + 4 + j
      OBVIOUS
    <3>1. 4 + j \in 4..7 /\ stream[i].at + (4 + j) = stream[i].at + 4 + j
      BY <1>4
    <3>2. d.stored[4 + j] = stream[i].at + (4 + j)
      BY <1>3, <2>1, <3>1 DEF Stores
    <3> QED BY <3>1, <3>2
  <2>4. srcPtr' = stream[i].at + 8 /\ srcPtr' > srcPtr /\ 4 \in Int
    BY <1>1, <1>2, <1>3, <1>4, <2>1
  <2> QED BY <1>1, <1>2, <1>3, <1>5, <2>2, <2>3, <2>4, SkippableStep
<1> QED BY <1>6, <1>7

\* Input that is skipped.
LEMMA SkipSkippableStep ==
    ASSUME Inv, pc = "run", StageKeeps, skipSkippable
    PROVE  Inv'
<1> DEFINE n == Lesser(dctx.tmpInTarget, available)
           left == dctx.tmpInTarget - n
           d == [dctx EXCEPT !.tmpInTarget = left]
<1>1. /\ TypeOK /\ CallInv /\ stream \in Streams /\ stream' = stream /\ ReadInv
      /\ dctx.dStage = "skipSkippable" /\ dctx \in Contexts(dctx.stored)
      /\ UNCHANGED <<dst, mem, asserts>> /\ dctx.dStage \in Before /\ srcPtr' = srcPtr + n
      /\ IF d.tmpInTarget > 0 THEN Stop(d, d.tmpInTarget) ELSE FrameDone(d)
  <2>1. d = [dctx EXCEPT !.tmpInTarget = @ - n]
    OBVIOUS
  <2> QED BY <2>1, BeforeStages
     DEF Inv, SizeInv, CallInv, TypeOK, StageKeeps, skipSkippable, NoOutput, Consume
<1>2. PICK i \in DOMAIN stream :
        /\ Reads(i, {"skip"})
        /\ srcPtr + dctx.tmpInTarget = stream[i].at + 8 + stream[i].n
        /\ dctx.tmpInTarget > 0 \/ (pc = "run" /\ srcPtr > srcStart)
  BY <1>1 DEF ReadInv, PlaceInv, InSkipped
<1>3. /\ srcPtr \in Nat /\ srcEnd \in Nat /\ srcPtr <= srcEnd /\ available = srcEnd - srcPtr
      /\ stream[i].at \in Nat /\ stream[i].n \in Nat /\ dctx.tmpInTarget \in Nat
      /\ srcStart \in Nat /\ srcStart <= srcPtr /\ i \in Nat
  BY <1>1, ContextTypes, FieldTypes DEF TypeOK, CallInv, available
<1>4. /\ n \in Nat /\ left \in Nat /\ srcPtr + n <= srcEnd
      /\ srcPtr + n + left = stream[i].at + 8 + stream[i].n
      /\ left > 0 => srcPtr + n = srcEnd
      /\ left = 0 => n = dctx.tmpInTarget
  BY <1>2, <1>3 DEF Lesser
<1>5. /\ d \in Contexts(d.stored) /\ Kept(d, dctx) /\ d.dStage = "skipSkippable"
      /\ d.tmpInTarget = left
  BY <1>1, <1>4 DEF Contexts, Kept
<1> HIDE DEF n, d, left
<1>6. Advances
  BY <1>1, <1>3, <1>4 DEF Advances
<1>7. CASE left > 0
  <2>1. Stopped(left) /\ dctx' = d /\ left \in Nat \ {0}
    BY <1>1, <1>4, <1>5, <1>7 DEF Stop, Stopped
  <2>2. Ended
    BY <2>1 DEF Ended
  <2>3. Headed(dctx, dctx')
    BY <1>1, <1>5, <2>1, KeptIsHeaded
  <2>4. Settled'
    BY <1>1, <1>6, <2>2, <2>3, BeforeStep
  <2>5. InSkipped'
    <3>1. /\ srcPtr' + dctx'.tmpInTarget = stream'[i].at + 8 + stream'[i].n
          /\ dctx'.tmpInTarget > 0
      BY <1>1, <1>4, <1>5, <1>7, <2>1
    <3>2. Reads(i, {"skip"})' /\ i \in DOMAIN stream'
      BY <1>1, <1>2 DEF Reads, Fine
    <3> QED BY <3>1, <3>2 DEF InSkipped
  <2>6. TargetInv' /\ PlaceInv' /\ dctx'.dStage # "getFrameHeader"
    BY <1>5, <2>1, <2>5 DEF TargetInv, PlaceInv
  <2>7. srcPtr' = srcEnd'
    BY <1>1, <1>4, <1>7 DEF StageKeeps
  <2> QED BY <2>1, <2>4, <2>6, <2>7, StopsThere
<1>8. CASE ~(left > 0)
  <2> DEFINE g == stream[i + 1]
  <2>1. left = 0 /\ n = dctx.tmpInTarget
    BY <1>4, <1>8
  <2>2. FrameDone(d)
    BY <1>1, <1>5, <1>8
  <2>3. /\ stream[i].k = "skip" /\ Fine(i) /\ stream[i].ok /\ stream[i].size = 8
        /\ ~stream[i].last
    <3>1. Whole(stream[i]) /\ Ends(stream[i]) /\ stream[i].k = "skip" /\ Fine(i)
      BY <1>1, <1>2, FieldTypes DEF Reads
    <3> QED BY <3>1 DEF Whole, Ends
  <2>4. /\ i + 1 \in DOMAIN stream /\ g.at = stream[i].at + 8 /\ Follows(stream[i], g)
        /\ Fine(i + 1)
    BY <1>1, <2>3, NextField, FineNext
  <2>5. g.k = "skipped" /\ g.size = stream[i].n
    BY <2>3, <2>4 DEF Follows
  <2>6. g.n = 0 /\ g.ok /\ g.last
    <3>1. Whole(g) /\ Ends(g)
      BY <1>1, <2>4, FieldTypes
    <3> QED BY <2>5, <3>1 DEF Whole, Ends
  <2>7. EndOf(g) = srcPtr' - 1
    BY <1>1, <1>3, <1>4, <2>1, <2>4, <2>5 DEF EndOf
  <2>8. \A j \in 1..(i + 1) : stream[j].ok
    <3> SUFFICES ASSUME NEW j \in 1..(i + 1) PROVE stream[j].ok
      OBVIOUS
    <3>1. j = i + 1 \/ j \in 1..((i + 1) - 1)
      BY <1>3
    <3> QED BY <2>4, <2>6, <3>1 DEF Fine
  <2>9. srcPtr' > srcStart'
    BY <1>1, <1>2, <1>3, <1>4, <2>1 DEF StageKeeps
  <2>10. g.n = Given
    BY <1>1, <2>6, BeforeStages DEF ReadInv, CountInv
  <2>11. ~carried => dctx.frameRemainingSize = 0
    BY <1>1 DEF Inv, PastInv, RemainingInv
  <2> QED BY <1>1, <1>5, <1>6, <2>2, <2>4, <2>6, <2>7, <2>8, <2>9, <2>10, <2>11, FrameDoneStep
<1> QED BY <1>7, <1>8

-----------------------------------------------------------------------------
(* The buffers of a frame                                                    *)

\* The buffers are enough for the frame: made for it, or made for a larger one.
LEMMA InitStep ==
    ASSUME Inv, pc = "run", StageKeeps, init
    PROVE  Inv'
<1> DEFINE tooSmall == bufferNeeded > dctx.maxBufferSize
           id       == dctx.frameInfo.blockSizeID
           capacity == IF tooSmall THEN dctx.maxBlockSize + BFSize ELSE dctx.tmpInCapacity
           size     == IF tooSmall THEN bufferNeeded ELSE dctx.maxBufferSize
           c == [dctx EXCEPT
                     !.maxBufferSize = size, !.tmpInCapacity = capacity,
                     !.tmpInSize = 0, !.tmpInTarget = 0, !.stored = <<>>,
                     !.tmpOut = 0, !.tmpOutStart = 0, !.tmpOutSize = 0,
                     !.hashed = 0, !.dStage = "getBlockHeader"]
           e == [dctx EXCEPT !.maxBufferSize = 0, !.tmpInCapacity = 0]
<1>1. /\ TypeOK /\ CallInv /\ stream \in Streams /\ stream' = stream /\ ReadInv
      /\ BufferInv /\ DictInv /\ RemainingInv /\ OutputIsContent
      /\ dctx.dStage = "init" /\ dctx \in Contexts(dctx.stored) /\ ~failed
      /\ UNCHANGED <<dst, mem, asserts>> /\ srcPtr' = srcPtr + 0
  BY DEF Inv, SizeInv, PastInv, CallInv, TypeOK, StageKeeps, init, NoOutput, Consume
<1>2. /\ id \in DOMAIN blockSizes /\ dctx.maxBlockSize = blockSizes[id]
      /\ dctx.maxBlockSize \in Nat /\ BFSize \in Nat /\ KB64 \in Nat /\ bufferNeeded \in Nat
      /\ dctx.maxBufferSize \in Nat /\ dctx.tmpInCapacity \in Nat
      /\ dctx.frameInfo \in FrameInfo
      /\ bufferNeeded = dctx.maxBlockSize + (IF dctx.frameInfo.linked THEN 2 * KB64 ELSE 0)
  <2>1. id \in DOMAIN blockSizes /\ dctx.maxBlockSize = blockSizes[id]
    BY <1>1, BeforeStages DEF BufferInv
  <2>2. dctx.maxBlockSize \in Nat /\ BFSize \in Nat /\ KB64 \in Nat
    BY <1>1, ContextTypes, DecoderAssumption
  <2>3. bufferNeeded = dctx.maxBlockSize + (IF dctx.frameInfo.linked THEN 2 * KB64 ELSE 0)
    BY DEF bufferNeeded
  <2>4. bufferNeeded \in Nat
    BY <2>2, <2>3
  <2> QED BY <1>1, <2>1, <2>2, <2>3, <2>4, ContextTypes
<1>3. /\ Given = 0 /\ Given' = 0 /\ Pending = 0
      /\ dctx.dict = NULL /\ dctx.dictSize = 0
      /\ dctx.frameInfo.contentSize # 0 =>
            dctx.frameRemainingSize = dctx.frameInfo.contentSize
  <2>1. Given = 0 /\ Pending = 0
    BY <1>1, BeforeStages DEF ReadInv, CountInv, Pending
  <2>2. Given' = Given
    BY <1>1 DEF Given, StageKeeps
  <2>3. dctx.dict = NULL /\ dctx.dictSize = 0
    BY <1>1 DEF DictInv
  <2>4. ASSUME dctx.frameInfo.contentSize # 0
        PROVE  dctx.frameRemainingSize = dctx.frameInfo.contentSize
    <3>1. dctx.frameRemainingSize = dctx.frameInfo.contentSize - (Given + Pending)
      BY <1>1, <2>4, BeforeStages DEF ReadInv, CountInv
    <3>2. dctx.frameInfo.contentSize \in Nat
      BY <1>1, ContextTypes
    <3> QED BY <2>1, <3>1, <3>2
  <2> QED BY <2>1, <2>2, <2>3, <2>4
<1>4. Advances /\ srcPtr' = srcPtr
  BY <1>1 DEF Advances, TypeOK, CallInv
<1>5. \/ Went /\ dctx' = c
      \/ Failed("allocation_failed") /\ dctx' = e
  <2>1. \/ Go(c)
        \/ Fail(e, "allocation_failed")
    BY DEF init
  <2> HIDE DEF c, e
  <2> QED BY <2>1 DEF Go, Fail, Went, Failed
<1>6. Ended /\ "allocation_failed" \in Errors
  <2>1. "allocation_failed" \in Errors
    BY DEF Errors
  <2> QED BY <1>5, <2>1 DEF Ended
<1>7. ASSUME dctx' \in Contexts(dctx'.stored) PROVE TypeOK' /\ CallInv'
  <2>0. RoomOK'
    BY <1>1 DEF TypeOK, RoomOK
  <2>1. /\ ~failed /\ pc' \in {"idle", "run", "preserve"}
        /\ ret' \in [error : Errors \cup {"none"}, hint : Nat]
        /\ failed' <=> pc' = "idle"
        /\ pc' # "idle" => /\ srcStart' <= srcPtr' /\ srcPtr' <= srcEnd' /\ ~failed'
                           /\ srcEnd' <= Total' + 1
        /\ srcPtr' <= Total' + 1
        /\ stream' \in Streams /\ srcPtr' \in Nat /\ srcStart' \in Nat /\ srcEnd' \in Nat
        /\ arena' \in DstAt..(DstEnd + 1) /\ sent' \in Nat
    BY <1>1, <1>4, <1>6, <2>0, EndedTypes
  <2>2. TypeOK'
    BY <1>1, <1>7, <2>0, <2>1 DEF TypeOK
  <2>3. CallInv'
    BY <1>1, <2>1 DEF CallInv, StageKeeps
  <2> QED BY <2>2, <2>3
<1>8. OutputIsContent'
  BY <1>1 DEF OutputIsContent, StageKeeps
<1>9. CASE Went /\ dctx' = c
  <2>1. size \in Nat /\ capacity \in Nat
    BY <1>2
  <2>2. /\ dctx' \in Contexts(dctx'.stored) /\ dctx'.dStage = "getBlockHeader"
        /\ dctx'.maxBufferSize = size /\ dctx'.tmpInCapacity = capacity
        /\ dctx'.tmpOut = 0 /\ dctx'.tmpOutStart = 0 /\ dctx'.tmpOutSize = 0
        /\ dctx'.hashed = 0 /\ dctx'.dict = dctx.dict /\ dctx'.dictSize = dctx.dictSize
        /\ dctx'.maxBlockSize = dctx.maxBlockSize /\ dctx'.frameInfo = dctx.frameInfo
        /\ dctx'.frameRemainingSize = dctx.frameRemainingSize
    <3>1. "getBlockHeader" \in Stages
      BY BlockStages
    <3> HIDE DEF size, capacity
    <3> QED BY <1>1, <1>9, <2>1, <3>1 DEF Contexts
  <2>3. /\ dctx'.dStage \in Decoding /\ dctx'.dStage \notin Before \cup {"init"}
    BY <2>2, BlockStages
  <2>4. BufferInv'
    <3>1. \/ size = 0
          \/ \E k \in DOMAIN blockSizes :
                /\ capacity = blockSizes[k] + BFSize
                /\ size \in {blockSizes[k], blockSizes[k] + 2 * KB64}
      <4>1. CASE tooSmall
        BY <1>2, <4>1
      <4>2. CASE ~tooSmall
        BY <1>1, <4>2 DEF BufferInv
      <4> QED BY <4>1, <4>2
    <3>2. bufferNeeded' = bufferNeeded /\ bufferNeeded <= size
      <4>1. bufferNeeded' = bufferNeeded
        BY <2>2 DEF bufferNeeded
      <4>2. bufferNeeded <= size
        BY <1>2
      <4> QED BY <4>1, <4>2
    <3>3. /\ 0 <= dctx.maxBlockSize /\ 0 <= 2 * KB64
      BY <1>2
    <3> HIDE DEF size, capacity
    <3> QED BY <1>2, <2>2, <3>1, <3>2, <3>3 DEF BufferInv
  <2>5. DictInv'
    BY <1>3, <2>2, <2>3 DEF DictInv
  <2>6. RemainingInv'
    BY <1>1, <2>2, <2>3 DEF RemainingInv, StageKeeps
  <2>7. Pending' = 0 /\ Window' = 0
    <3>1. Pending' = 0
      BY <2>2 DEF Pending
    <3> QED BY <1>2, <1>3, <3>1 DEF Window, Lesser
  <2>8. WindowInv' /\ OutInv' /\ CountInv'
    <3>1. WindowInv'
      BY <1>3, <2>2, <2>7 DEF WindowInv, Holds
    <3>2. OutInv'
      BY <2>2 DEF OutInv
    <3>3. CountInv'
      BY <1>2, <1>3, <2>2, <2>3, <2>7, BlockStages DEF CountInv, FrameInfo
    <3> QED BY <3>1, <3>2, <3>3
  <2>9. Settled'
    BY <1>7, <1>8, <2>2, <2>4, <2>5, <2>6, <2>8 DEF Settled
  <2>10. AtBlock'
    <3>1. PICK i \in DOMAIN stream :
            /\ InFrame(i, {"head", "end"}) /\ srcPtr = stream[i].at
            /\ stream[i].from = Given + Pending + 1
      BY <1>1 DEF ReadInv, PlaceInv, AtBlock
    <3>2. /\ InFrame(i, {"head", "end"})' /\ i \in DOMAIN stream' /\ srcPtr' = stream'[i].at
          /\ stream'[i].from = Given' + Pending' + 1
      BY <1>1, <1>3, <1>4, <2>2, <2>7, <3>1 DEF InFrame, Reads, Fine
    <3> QED BY <3>2 DEF AtBlock
  <2>11. TargetInv' /\ PlaceInv'
    BY <2>2, <2>10 DEF TargetInv, PlaceInv
  <2> QED BY <1>9, <2>9, <2>11, GoesOn
<1>10. CASE Failed("allocation_failed") /\ dctx' = e
  <2>1. /\ dctx' \in Contexts(dctx'.stored) /\ dctx'.dStage = "init"
        /\ dctx'.maxBufferSize = 0 /\ dctx'.dict = dctx.dict /\ dctx'.dictSize = dctx.dictSize
        /\ dctx'.maxBlockSize = dctx.maxBlockSize /\ dctx'.frameInfo = dctx.frameInfo
        /\ dctx'.frameRemainingSize = dctx.frameRemainingSize
    BY <1>1, <1>10 DEF Contexts
  <2>2. dctx'.dStage \notin Before \cup Decoding
    BY <2>1, BlockStages
  <2>3. BufferInv'
    BY <1>2, <2>1, <2>2 DEF BufferInv
  <2>4. DictInv'
    BY <1>3, <2>1, <2>2 DEF DictInv
  <2>5. RemainingInv'
    BY <1>1, <2>1, <2>2 DEF RemainingInv, StageKeeps
  <2>6. failed' /\ TargetInv'
    BY <1>10, <2>1 DEF Failed, failed, TargetInv
  <2>7. Settled'
    BY <1>7, <1>8, <2>1, <2>3, <2>4, <2>5, <2>6 DEF Settled
  <2> QED BY <1>6, <1>10, <2>6, <2>7, FailsThere
<1> QED BY <1>5, <1>9, <1>10

-----------------------------------------------------------------------------
(* The dictionary                                                            *)

\* Where the dictionary and the buffers of linked blocks are.
LEMMA DictIs ==
    ASSUME Inv, pc # "idle", dctx.dStage \in Decoding, dctx.frameInfo.linked
    PROVE  /\ dctx.maxBufferSize \in Nat /\ dctx.maxBufferSize <= TmpEnd
           /\ dctx.maxBlockSize \in Nat /\ dctx.maxBlockSize >= KB64 /\ KB64 \in Nat \ {0}
           /\ dctx.maxBlockSize + 2 * KB64 <= dctx.maxBufferSize
           /\ dctx.tmpOut \in Nat /\ dctx.tmpOutSize \in Nat /\ dctx.tmpOutStart \in Nat
           /\ dctx.tmpOutSize <= dctx.maxBlockSize /\ dctx.tmpOutStart <= dctx.tmpOutSize
           /\ dctx.tmpOut <= 2 * KB64
           /\ dctx.tmpOut + dctx.tmpOutSize <= dctx.maxBufferSize
           /\ dctx.dict \in Nat \cup {NULL} /\ dctx.dictSize \in Nat
           /\ \/ dctx.dictSize = 0
              \/ dctx.dict = 0 /\ dctx.dictSize <= dctx.maxBufferSize
              \/ DstAt <= dctx.dict /\ dctx.dict + dctx.dictSize <= Stays
           /\ Given \in Nat /\ Pending \in Int /\ Window \in Int
           /\ Window <= Given /\ Window <= KB64 - Pending /\ Window <= dctx.dictSize
           /\ Window = Given \/ Window = KB64 - Pending
           /\ Holds(mem, dctx.dict + dctx.dictSize - Window, Window, Given - Window + 1)
<1>1. /\ TypeOK /\ CallInv /\ BufferInv /\ DictInv /\ ~failed /\ WindowInv
      /\ dctx \in Contexts(dctx.stored) /\ KB64 \in Nat \ {0}
  BY BlockSizes DEF Inv, SizeInv, CallInv, TypeOK, ReadInv
<1>2. /\ dctx.maxBufferSize \in Nat /\ dctx.maxBlockSize \in Nat
      /\ dctx.tmpOut \in Nat /\ dctx.tmpOutSize \in Nat /\ dctx.tmpOutStart \in Nat
      /\ dctx.dict \in Nat \cup {NULL} /\ dctx.dictSize \in Nat
  BY <1>1, ContextTypes
<1>3. /\ dctx.maxBlockSize >= KB64
      /\ dctx.maxBlockSize + 2 * KB64 <= dctx.maxBufferSize
      /\ dctx.tmpOutSize <= dctx.maxBlockSize /\ dctx.tmpOutStart <= dctx.tmpOutSize
      /\ dctx.tmpOut <= 2 * KB64
  <2>1. dctx.maxBlockSize = blockSizes[dctx.frameInfo.blockSizeID]
        /\ dctx.frameInfo.blockSizeID \in DOMAIN blockSizes
    BY <1>1, BlockStages DEF BufferInv
  <2>2. blockSizes[dctx.frameInfo.blockSizeID] >= KB64
    BY <2>1, DecoderAssumption
  <2>3. /\ dctx.maxBlockSize + 2 * KB64 <= dctx.maxBufferSize
        /\ dctx.tmpOutSize <= dctx.maxBlockSize /\ dctx.tmpOutStart <= dctx.tmpOutSize
        /\ dctx.tmpOut <= 2 * KB64
    BY <1>1 DEF BufferInv, bufferNeeded
  <2> QED BY <2>1, <2>2, <2>3
<1>4. dctx.maxBufferSize <= TmpEnd
  <2>1. dctx.maxBufferSize # 0
    BY <1>1, <1>2, <1>3
  <2>2. PICK id \in DOMAIN blockSizes :
          dctx.maxBufferSize \in {blockSizes[id], blockSizes[id] + 2 * KB64}
    BY <1>1, <2>1 DEF BufferInv
  <2>3. blockSizes[id] \in Nat /\ blockSizes[id] <= MaxBlock /\ MaxBlock \in Nat
    BY BlockSizes
  <2> QED BY <1>1, <2>2, <2>3, Addresses
<1>5. dctx.tmpOut + dctx.tmpOutSize <= dctx.maxBufferSize
  BY <1>1, <1>2, <1>3
<1>6. \/ dctx.dictSize = 0
      \/ dctx.dict = 0 /\ dctx.dictSize <= dctx.maxBufferSize
      \/ DstAt <= dctx.dict /\ dctx.dict + dctx.dictSize <= Stays
  BY <1>1 DEF DictInv
<1>7. Given \in Nat /\ Pending \in Int
  BY <1>1, <1>2, GivenType DEF Pending
<1>8. /\ Window \in Int /\ Window <= Given /\ Window <= KB64 - Pending
      /\ Window = Given \/ Window = KB64 - Pending
  BY <1>1, <1>7 DEF Window, Lesser
<1>9. /\ Window <= dctx.dictSize
      /\ Holds(mem, dctx.dict + dctx.dictSize - Window, Window, Given - Window + 1)
  BY <1>1 DEF WindowInv
<1> QED BY <1>1, <1>2, <1>3, <1>4, <1>5, <1>6, <1>7, <1>8, <1>9

\* n bytes of content have come to dst, and m is memory with them.
Came(m, n) ==
    /\ dst.at # NULL /\ n \in Nat /\ dst.at + n <= dst.end
    /\ DOMAIN m = 0..DstEnd
    /\ \A a \in 0..(dst.at - 1) : m[a] = mem[a]
    /\ Holds(m, dst.at, n, Given + 1)
SameDict(d) ==
    /\ d.dict = dctx.dict /\ d.dictSize = dctx.dictSize /\ d.maxBufferSize = dctx.maxBufferSize
    /\ d.tmpOut = dctx.tmpOut /\ d.tmpOutSize = dctx.tmpOutSize
    /\ d.tmpOutStart = dctx.tmpOutStart /\ d.frameInfo = dctx.frameInfo

\* What must be true of dictionary and memory after these bytes, when w bytes
\* of window are needed next.
InTmpOut(m) == Holds(m, dctx.tmpOut, dctx.tmpOutSize, Given - dctx.tmpOutStart + 1)
DictAfter(u, m, n, w) ==
    /\ u.holds
    /\ DOMAIN u.mem = 0..DstEnd /\ \A a \in DstAt..DstEnd : u.mem[a] = m[a]
    /\ u.dict \in Nat /\ u.dictSize \in Nat
    /\ \/ u.dict = 0 /\ u.dictSize <= dctx.maxBufferSize
       \/ DstAt <= u.dict /\ u.dict + u.dictSize <= dst.at + n
    /\ w <= u.dictSize
    /\ Holds(u.mem, u.dict + u.dictSize - w, w, Given + n - w + 1)
    /\ dctx.dStage = "flushOut" =>
          /\ u.dict = 0 => u.dictSize = dctx.tmpOut + dctx.tmpOutStart + n
          /\ InTmpOut(u.mem)

\* Where the bytes that came are.
LEMMA DstIs ==
    ASSUME Inv, pc = "run", NEW m, NEW n, Came(m, n)
    PROVE  /\ dst.at \in Nat /\ dst.start \in Nat /\ dst.end \in Nat
           /\ DstAt <= dst.start /\ dst.start <= dst.at /\ dst.at + n <= DstEnd + 1
           /\ Stays = dst.at /\ Given = sent + (dst.at - dst.start) /\ sent \in Nat
           /\ Holds(mem, dst.start, dst.at - dst.start, sent + 1)
<1>1. TypeOK /\ OutputIsContent
  BY DEF Inv, SizeInv
<1>2. /\ DstAt <= dst.start /\ dst.start <= dst.at /\ dst.at <= dst.end
      /\ dst.end <= DstEnd + 1 /\ dst.start \in Int /\ dst.at \in Int /\ dst.end \in Int
      /\ sent \in Nat
  BY <1>1 DEF Came, TypeOK, RoomOK
<1>3. /\ dst.at \in Nat /\ dst.start \in Nat /\ dst.end \in Nat /\ dst.at + n <= DstEnd + 1
  <2>1. n \in Nat /\ dst.at + n <= dst.end
    BY DEF Came
  <2> QED BY <1>2, <2>1, Addresses
<1>4. Stays = dst.at
  BY DEF Came, Stays
<1>5. Holds(mem, dst.start, dst.at - dst.start, sent + 1)
  <2> SUFFICES ASSUME NEW i \in 0..(dst.at - dst.start - 1)
               PROVE  mem[dst.start + i] = sent + 1 + i
    BY DEF Holds
  <2>1. dst.start + i \in dst.start..(dst.at - 1)
        /\ sent + 1 + (dst.start + i) - dst.start = sent + 1 + i
    BY <1>2
  <2>2. mem[dst.start + i] = sent + 1 + (dst.start + i) - dst.start
    BY <1>1, <2>1 DEF OutputIsContent
  <2> QED BY <2>1, <2>2
<1> QED BY <1>2, <1>3, <1>4, <1>5 DEF Given

\* What a memory has in common with mem that holds the bytes that came.
LEMMA CameHolds ==
    ASSUME Inv, pc = "run", NEW m, NEW n, Came(m, n),
           NEW at \in Nat, NEW k \in Int, NEW first \in Int, Holds(mem, at, k, first),
           at + k <= dst.at
    PROVE  Holds(m, at, k, first)
<1>1. \A a \in at..(at + k - 1) : m[a] = mem[a]
  <2> SUFFICES ASSUME NEW a \in at..(at + k - 1) PROVE m[a] = mem[a]
    OBVIOUS
  <2>1. a \in 0..(dst.at - 1)
    BY DstIs
  <2> QED BY <2>1 DEF Came
<1> QED BY <1>1, HoldsSame

\* The bytes lie right behind the dictionary: it grows.
LEMMA DictGrows ==
    ASSUME Inv, pc = "run", dctx.dStage \in Decoding, dctx.frameInfo.linked,
           NEW m, NEW n, Came(m, n), NEW w \in Int, w <= Window + n,
           NEW dict \in Nat, DstAt <= dict, dict + dctx.dictSize = dst.at,
           dctx.dictSize # 0 => dict = dctx.dict,
           dctx.dStage = "flushOut" => InTmpOut(m)
    PROVE  DictAfter([dict |-> dict, dictSize |-> dctx.dictSize + n, mem |-> m,
                      holds |-> TRUE], m, n, w)
<1> DEFINE at == dst.at  size == dctx.dictSize  W == Window  g == Given
<1>1. /\ n \in Nat /\ DOMAIN m = 0..DstEnd /\ Holds(m, at, n, g + 1)
  BY DEF Came
<1>2. /\ at \in Nat /\ g \in Nat /\ W \in Int /\ W <= size /\ size \in Nat
      /\ DstAt \in Nat /\ DstAt > 0 /\ w <= W + n /\ dict + size = at
  BY DstIs, DictIs, Addresses
<1>3. Holds(m, at - W, W, g - W + 1)
  <2>1. CASE W <= 0
    BY <1>2, <2>1 DEF Holds
  <2>2. CASE ~(W <= 0)
    <3>1. dict = dctx.dict
      BY <1>2, <2>2
    <3>2. Holds(mem, dctx.dict + size - W, W, g - W + 1)
      BY DictIs
    <3> HIDE DEF at, size, W, g
    <3>3. dctx.dict + size - W = at - W
      BY <1>2, <3>1
    <3>4. /\ at - W \in Nat /\ g - W + 1 \in Int /\ (at - W) + W <= at
      BY <1>2
    <3> QED BY <1>2, <3>2, <3>3, <3>4, CameHolds DEF at
  <2> QED BY <2>1, <2>2
<1> HIDE DEF at, size, W, g
<1>4. Holds(m, at + n - w, w, g + n - w + 1)
  <2>1. /\ at - W \in Int /\ g - W + 1 \in Int /\ at \in Int /\ n \in Int /\ g + 1 \in Int
        /\ at <= (at - W) + W /\ g + 1 - at = (g - W + 1) - (at - W)
        /\ at + n - w \in Int /\ g + n - w + 1 \in Int /\ (at + n - w) + w <= at + n
        /\ (g + n - w + 1) - (at + n - w) = (g - W + 1) - (at - W)
        /\ (at - W <= at + n - w /\ W >= 0) \/ at <= at + n - w
    BY <1>1, <1>2
  <2> QED BY ONLY <1>1, <1>2, <1>3, <2>1, w \in Int, HoldsOf
<1> DEFINE sum == size + n
<1>5. /\ dict + sum - w = at + n - w /\ w <= sum /\ sum \in Nat
      /\ dict + sum <= at + n /\ dict # 0
  BY <1>1, <1>2
<1> HIDE DEF sum
<1>6. Holds(m, dict + sum - w, w, g + n - w + 1)
  BY <1>4, <1>5
<1>7. DictAfter([dict |-> dict, dictSize |-> sum, mem |-> m, holds |-> TRUE], m, n, w)
  BY <1>1, <1>5, <1>6 DEF DictAfter, at, g
<1> QED BY <1>7 DEF sum, size

\* What was given by this call is enough of a dictionary.
LEMMA DictInDst ==
    ASSUME Inv, pc = "run", dctx.dStage \in Decoding, dctx.frameInfo.linked,
           NEW m, NEW n, Came(m, n), NEW w \in Int, w <= KB64,
           NEW size, size = dst.at - dst.start + n, size >= KB64,
           dctx.dStage = "flushOut" => InTmpOut(m)
    PROVE  DictAfter([dict |-> dst.start, dictSize |-> size, mem |-> m,
                      holds |-> TRUE], m, n, w)
<1> DEFINE at == dst.at  start == dst.start  g == Given  k == at - start  first == sent + 1
<1>1. /\ n \in Nat /\ DOMAIN m = 0..DstEnd /\ Holds(m, at, n, g + 1)
  BY DEF Came
<1>2. /\ at \in Nat /\ start \in Nat /\ DstAt <= start /\ start <= at
      /\ sent \in Nat /\ g = sent + (at - start) /\ KB64 \in Nat /\ size = at - start + n
      /\ DstAt \in Nat /\ DstAt > 0
  BY DstIs, DictIs, Addresses
<1> HIDE DEF at, start, g
<1>3. k \in Nat /\ first \in Int /\ start + k = at /\ first + k = g + 1 /\ size = k + n
      /\ size \in Nat
  BY <1>1, <1>2
<1>4. Holds(m, start, k, first)
  <2>1. Holds(mem, start, k, first)
    BY DstIs DEF at, start
  <2> HIDE DEF k, first
  <2> QED BY <1>2, <1>3, <2>1, CameHolds DEF at
<1> HIDE DEF k, first
<1>5. Holds(m, start + size - w, w, g + n - w + 1)
  <2>1. n \in Nat /\ Holds(m, at, n, g + 1)
    BY <1>1
  <2>2. /\ at \in Int /\ start \in Int /\ k \in Int /\ n \in Int /\ g \in Int /\ size \in Int
        /\ g + 1 \in Int /\ first \in Int /\ k >= 0
        /\ start + size - w \in Int /\ g + n - w + 1 \in Int
    BY <1>2, <1>3, <2>1
  <2>3. /\ at <= start + k /\ g + 1 - at = first - start
        /\ (start + size - w) + w <= at + n
        /\ (g + n - w + 1) - (start + size - w) = first - start
    BY <1>3, <2>2
  <2>4. start <= start + size - w
    BY <1>2, <2>2
  <2> QED BY ONLY <1>4, <2>1, <2>2, <2>3, <2>4, w \in Int, HoldsOf, SMTT(30)
<1>6. w <= size /\ start + size <= at + n /\ start # 0
  BY <1>1, <1>2, <1>3
<1> QED BY <1>1, <1>2, <1>3, <1>5, <1>6 DEF DictAfter, at, start, g

\* A dictionary in tmpOutBuffer grows with the block behind it.
LEMMA DictGrowsInTmp ==
    ASSUME Inv, pc = "run", dctx.dStage = "flushOut", dctx.frameInfo.linked,
           NEW m, NEW n, Came(m, n), NEW w \in Int, w <= Window + n,
           dctx.dict = 0, dctx.dictSize # 0, n <= dctx.tmpOutSize - dctx.tmpOutStart,
           InTmpOut(m)
    PROVE  /\ dctx.dictSize = dctx.tmpOut + dctx.tmpOutStart
           /\ DictAfter([dict |-> 0, dictSize |-> dctx.dictSize + n, mem |-> m,
                         holds |-> TRUE], m, n, w)
<1> DEFINE at == dctx.tmpOut + dctx.tmpOutStart
           out == dctx.tmpOut
           start == dctx.tmpOutStart
           len == dctx.tmpOutSize
           first == Given - dctx.tmpOutStart + 1
           W == Window
           g == Given
<1>1. /\ n \in Nat /\ DOMAIN m = 0..DstEnd
  BY DEF Came
<1>2. dctx.dStage \in Decoding
  BY BlockStages
<1>3. dctx.dictSize = at
  BY DEF Inv, SizeInv, DictInv
<1>4. /\ g \in Nat /\ W \in Int /\ W <= at /\ out \in Nat /\ len \in Nat
      /\ start \in Nat /\ start <= len /\ out + len <= dctx.maxBufferSize
      /\ dctx.maxBufferSize \in Nat /\ dctx.maxBufferSize <= TmpEnd
  BY <1>2, <1>3, DictIs
<1>5. Holds(mem, 0 + at - W, W, g - W + 1)
  BY <1>2, <1>3, DictIs
<1>6. Holds(m, out, len, first)
  BY DEF InTmpOut
<1>7. /\ dst.at \in Nat /\ TmpEnd < dst.at /\ TmpEnd \in Nat
  <2>1. dst.at \in Nat /\ dst.start \in Nat /\ DstAt <= dst.start /\ dst.start <= dst.at
    BY DstIs
  <2> QED BY <2>1, Addresses
<1>8. first = g - start + 1 /\ at = out + start /\ n <= len - start /\ w <= W + n
  OBVIOUS
<1> HIDE DEF out, start, len, g, W, first, at
<1>9. Holds(m, at - W, W, g - W + 1)
  <2>1. /\ at - W = 0 + at - W /\ at - W \in Nat /\ (at - W) + W <= dst.at
        /\ g - W + 1 \in Int
    BY <1>4, <1>7, <1>8
  <2> QED BY <1>4, <1>5, <2>1, CameHolds
<1>10. Holds(m, at + n - w, w, g + n - w + 1)
  <2>1. /\ at - W \in Int /\ g - W + 1 \in Int /\ first \in Int
        /\ out <= (at - W) + W /\ first - out = (g - W + 1) - (at - W)
        /\ at + n - w \in Int /\ g + n - w + 1 \in Int /\ (at + n - w) + w <= out + len
        /\ (g + n - w + 1) - (at + n - w) = (g - W + 1) - (at - W)
        /\ (at - W <= at + n - w /\ W >= 0) \/ out <= at + n - w
    BY <1>1, <1>4, <1>8
  <2>2. out \in Int /\ len \in Int
    BY <1>4
  <2> QED BY ONLY <1>4, <1>6, <1>9, <2>1, <2>2, w \in Int, HoldsOf, ZenonT(30)
<1> DEFINE size == at + n
<1>11. 0 + size - w = at + n - w /\ size \in Nat /\ size <= dctx.maxBufferSize /\ w <= size
  BY <1>1, <1>4, <1>8
<1>12. dctx.dictSize + n = size /\ size = dctx.tmpOut + dctx.tmpOutStart + n
  BY <1>3 DEF at
<1> HIDE DEF size
<1>13. DictAfter([dict |-> 0, dictSize |-> size, mem |-> m, holds |-> TRUE], m, n, w)
  BY <1>1, <1>10, <1>11, <1>12 DEF DictAfter, g
<1> QED BY <1>3, <1>12, <1>13 DEF at

\* What is written to tmpOutBuffer leaves the caller's memory alone.
Alike(m2, m) == DOMAIN m2 = 0..DstEnd /\ \A a \in DstAt..DstEnd : m2[a] = m[a]
\* What is moved into tmpOutBuffer lies below the caller's memory.
LEMMA MovedIsLow ==
    ASSUME NEW m, DOMAIN m = 0..DstEnd, NEW to \in Int, NEW from \in Int, NEW size \in Int,
           to + size <= TmpEnd
    PROVE  Alike(Copied(m, to, from, size), m)
<1>1. TmpEnd \in Nat /\ DstAt = TmpEnd + 1 /\ DstEnd \in Nat
  BY Addresses
<1>2. ASSUME NEW a \in DstAt..DstEnd PROVE Copied(m, to, from, size)[a] = m[a]
  <2>1. a \in DOMAIN m /\ a \notin to..(to + size - 1)
    BY <1>1
  <2> QED BY <2>1 DEF Copied
<1> QED BY <1>2, CopiedDomain DEF Alike

\* The last bytes of some content go to the start of tmpOutBuffer.
LEMMA MovedToStart ==
    ASSUME NEW m, DOMAIN m = 0..DstEnd, NEW from \in Int, NEW size \in Nat, size <= TmpEnd,
           NEW b \in Int, NEW W \in Int, NEW f \in Int, Holds(m, b, W, f), b + W = from + size,
           NEW c \in Int, NEW V \in Int, NEW h \in Int, c + V = size, V <= W, V <= size,
           h + V = f + W
    PROVE  Holds(Copied(m, 0, from, size), c, V, h)
<1>1. TmpEnd \in Nat /\ DstAt = TmpEnd + 1 /\ DstEnd \in Nat /\ TmpEnd < DstEnd
  BY Addresses
<1> DEFINE e == b + W - V
<1>2. /\ e \in Int /\ size \in Int /\ b <= e /\ e + V <= b + W /\ h - e = f - b
      /\ from <= e /\ e + V <= from + size /\ c - e = 0 - from
  OBVIOUS
<1> HIDE DEF e
<1>3. Holds(m, e, V, h)
  BY ONLY <1>2, Holds(m, b, W, f), b \in Int, f \in Int, h \in Int, W \in Int, V \in Int, HoldsIn
<1>4. 0..(0 + size - 1) \subseteq DOMAIN m
  BY <1>1
<1> QED BY ONLY <1>2, <1>3, <1>4, V \in Int, 0 \in Int, from \in Int, h \in Int, c \in Int, HoldsCopied

\* The part of the window that a block in tmpOut needs goes in front of it.
LEMMA MovedInFront ==
    ASSUME Inv, pc # "idle", dctx.dStage = "flushOut", dctx.frameInfo.linked,
           NEW m, DOMAIN m = 0..DstEnd, InTmpOut(m), NEW d, SameDict(d),
           Holds(m, dctx.dict + dctx.dictSize - Window, Window, Given - Window + 1)
    PROVE  LET m2 == InFrontOfTmpOut(m, d, dctx.dict + dctx.dictSize)
               P  == Window - dctx.tmpOutStart
           IN  /\ DOMAIN m2 = 0..DstEnd /\ \A a \in DstAt..DstEnd : m2[a] = m[a]
               /\ InTmpOut(m2)
               /\ Holds(m2, dctx.tmpOut - P, P, Given - Window + 1)
<1> DEFINE out == dctx.tmpOut
           start == dctx.tmpOutStart
           len == dctx.tmpOutSize
           end == dctx.dict + dctx.dictSize
           W == Window
           g == Given
           P == W - start
           copySize == IF len > KB64 THEN 0 ELSE Lesser(KB64 - len, out)
           m2 == Copied(m, out - copySize, end - start - copySize, copySize)
<1>1. dctx.dStage \in Decoding
  BY BlockStages
<1>2. InFrontOfTmpOut(m, d, end) = m2
  BY DEF InFrontOfTmpOut, SameDict
<1>3. /\ g \in Nat /\ W \in Int /\ W <= g /\ out \in Nat /\ len \in Nat
      /\ start \in Nat /\ start <= len /\ KB64 \in Nat
      /\ out + len <= dctx.maxBufferSize /\ dctx.maxBufferSize \in Nat
      /\ dctx.maxBufferSize <= TmpEnd
      /\ dctx.dict \in Nat \cup {NULL} /\ dctx.dictSize \in Nat
  BY <1>1, DictIs
<1>a. dctx.dict \in Int /\ end \in Int /\ end - W = dctx.dict + dctx.dictSize - W
  <2>1. dctx.dict \in Int
    BY <1>3 DEF NULL
  <2> QED BY <1>3, <2>1
<1>4. /\ W <= KB64 - (len - start)
      /\ out >= g - start \/ out >= KB64 - len
  BY <1>1, DictIs DEF Pending, Inv, ReadInv, OutInv, CallInv, SizeInv
<1>5. TmpEnd \in Nat /\ DstAt = TmpEnd + 1 /\ DstEnd \in Nat /\ TmpEnd < DstEnd
  BY Addresses
<1>6. Holds(m, end - W, W, g - W + 1)
  BY <1>a
<1>7. Holds(m, out, len, g - start + 1)
  BY DEF InTmpOut
<1> HIDE DEF out, start, len, end, W, g
<1>8. copySize \in Nat /\ copySize <= out /\ P <= copySize /\ P \in Int
  BY <1>3, <1>4 DEF Lesser
<1> HIDE DEF copySize
<1>9. /\ out - copySize \in Int /\ end - start - copySize \in Int /\ copySize \in Int
      /\ end - W \in Int /\ g - W + 1 \in Int /\ out - P \in Int /\ len \in Int /\ out \in Int
      /\ g - start + 1 \in Int
  BY <1>3, <1>8, <1>a
<1>10. /\ DOMAIN m2 = 0..DstEnd
       /\ (out - copySize)..((out - copySize) + copySize - 1) \subseteq DOMAIN m
       /\ out..(out + len - 1) \subseteq DOMAIN m
  BY <1>3, <1>5, <1>8, CopiedDomain
<1>11. ASSUME NEW a \in DstAt..DstEnd PROVE m2[a] = m[a]
  <2>1. a \in DOMAIN m /\ a \notin (out - copySize)..((out - copySize) + copySize - 1)
    BY <1>3, <1>5, <1>8
  <2> QED BY <2>1 DEF Copied
<1>12. Holds(m2, out, len, g - start + 1)
  <2>1. (out - copySize) + copySize <= out
    BY <1>3, <1>8
  <2> QED BY ONLY <1>7, <1>9, <1>10, <2>1, HoldsElsewhere
<1>13. Holds(m2, out - P, P, g - W + 1)
  <2>1. Holds(m, end - W, P, g - W + 1)
    <3>1. end - W <= end - W /\ (end - W) + P <= (end - W) + W
      BY <1>3, <1>9
    <3> QED BY ONLY <1>3, <1>6, <1>8, <1>9, <3>1, HoldsIn
  <2>2. /\ end - start - copySize <= end - W
        /\ (end - W) + P <= (end - start - copySize) + copySize
        /\ (out - P) - (end - W) = (out - copySize) - (end - start - copySize)
    BY <1>3, <1>8, <1>a
  <2> HIDE DEF P
  <2> QED BY ONLY <1>8, <1>9, <1>10, <2>1, <2>2, HoldsCopied
<1> QED BY <1>2, <1>10, <1>11, <1>12, <1>13 DEF InTmpOut, out, start, len, end, W, g

\* Content that came joins the window.
LEMMA WindowCame ==
    ASSUME Inv, pc = "run", dctx.dStage \in Decoding, dctx.frameInfo.linked,
           NEW m, NEW n, Came(m, n), dctx.dictSize # 0
    PROVE  /\ dctx.dict = 0 \/ DstAt <= dctx.dict
           /\ dctx.dict \in Nat /\ dctx.dict + dctx.dictSize <= dst.at
           /\ Holds(m, dctx.dict + dctx.dictSize - Window, Window, Given - Window + 1)
<1> DEFINE dict == dctx.dict  size == dctx.dictSize  W == Window  g == Given  at == dst.at
<1>1. /\ \/ dict = 0 /\ size <= dctx.maxBufferSize
         \/ DstAt <= dict /\ dict + size <= at
      /\ size \in Nat /\ W \in Int /\ W <= size /\ g \in Nat /\ dict \in Nat \cup {NULL}
      /\ dctx.maxBufferSize \in Nat /\ dctx.maxBufferSize <= TmpEnd
  BY DictIs, DstIs
<1>2. /\ at \in Nat /\ DstAt <= dst.start /\ dst.start <= at /\ dst.start \in Nat
      /\ DstAt = TmpEnd + 1 /\ TmpEnd \in Nat
  BY DstIs, Addresses
<1>3. Holds(mem, dict + size - W, W, g - W + 1)
  BY DictIs
<1> HIDE DEF dict, size, W, g, at
<1>4. dict \in Nat /\ dict + size <= at /\ (dict = 0 \/ DstAt <= dict)
  BY <1>1, <1>2 DEF NULL
<1>5. Holds(m, dict + size - W, W, g - W + 1)
  <2>1. CASE W <= 0
    BY <1>1, <2>1 DEF Holds
  <2>2. CASE ~(W <= 0)
    <3>1. dict + size - W \in Nat /\ (dict + size - W) + W <= at /\ g - W + 1 \in Int
      BY <1>1, <1>4
    <3> QED BY <1>1, <1>3, <3>1, CameHolds DEF at
  <2> QED BY <2>1, <2>2
<1> QED BY <1>4, <1>5 DEF dict, size, W, g, at

\* The end of the dictionary goes to the start of tmpOutBuffer, unless it is
\* there and has room, and the bytes behind it.
LEMMA DictMoves ==
    ASSUME Inv, pc = "run", dctx.dStage \in Decoding \ {"flushOut"}, dctx.frameInfo.linked,
           NEW m, NEW n, Came(m, n), NEW w \in Int, w <= Window + n, w <= KB64,
           dctx.dictSize # 0, dst.at - dst.start + n < KB64,
           NEW end, end = dctx.dict + dctx.dictSize,
           NEW size, size = IF dctx.dict = 0 /\ dctx.dictSize + n <= dctx.maxBufferSize
                            THEN dctx.dictSize ELSE Lesser(KB64 - n, dctx.dictSize),
           NEW m1, m1 = IF dctx.dict = 0 /\ size = dctx.dictSize THEN m
                        ELSE Copied(m, 0, end - size, size)
    PROVE  /\ n < KB64
           /\ DictAfter([dict |-> 0, dictSize |-> size + n, mem |-> Copied(m1, size, dst.at, n),
                         holds |-> TRUE], m, n, w)
<1> DEFINE W == Window  g == Given  at == dst.at  max == dctx.maxBufferSize
           V == Lesser(W, size)
<1>1. /\ n \in Nat /\ DOMAIN m = 0..DstEnd
  BY DEF Came
<1>a. n \in Nat /\ n \in Int
  BY <1>1
<1>2. Holds(m, at, n, g + 1)
  BY DEF Came
<1>3. /\ at \in Nat /\ dst.start \in Nat /\ DstAt <= dst.start /\ dst.start <= at
      /\ at + n <= DstEnd + 1
      /\ DstAt = TmpEnd + 1 /\ TmpEnd \in Nat /\ DstEnd \in Nat
      /\ at - dst.start + n < KB64
  BY DstIs, Addresses
<1>4. /\ dctx.dict \in Nat /\ dctx.dictSize \in Nat /\ g \in Nat /\ W \in Int
      /\ W <= dctx.dictSize /\ max \in Nat /\ max <= TmpEnd /\ KB64 \in Nat
      /\ KB64 <= max /\ dctx.dictSize > 0
  <2>1. /\ dctx.maxBlockSize \in Nat /\ KB64 \in Nat /\ KB64 <= dctx.maxBlockSize
        /\ dctx.maxBlockSize + 2 * KB64 <= max /\ max \in Nat
    BY DictIs
  <2>2. KB64 <= max
    BY <2>1
  <2> QED BY <2>1, <2>2, DictIs, WindowCame
<1>5. /\ end \in Nat /\ n < KB64
      /\ size \in Nat /\ size + n <= max /\ size <= dctx.dictSize
      /\ size = dctx.dictSize \/ size = KB64 - n
  <2>1. end \in Nat /\ n \in Nat /\ n < KB64
    BY <1>1, <1>3, <1>4, SMTT(30)
  <2>2. CASE dctx.dict = 0 /\ dctx.dictSize + n <= max
    BY <1>4, <2>1, <2>2
  <2>3. CASE ~(dctx.dict = 0 /\ dctx.dictSize + n <= max)
    <3>1. size = Lesser(KB64 - n, dctx.dictSize)
      BY <2>3
    <3>2. KB64 - n \in Nat
      BY <1>4, <2>1
    <3> QED BY <1>4, <2>1, <3>1, <3>2 DEF Lesser
  <2> QED BY <2>2, <2>3
<1>6. V \in Int /\ V <= W /\ V <= size /\ w - n <= V /\ (size = dctx.dictSize => V = W)
  BY <1>1, <1>4, <1>5 DEF Lesser
<1>7. Holds(m, end - W, W, g - W + 1)
  <2>1. end - W = dctx.dict + dctx.dictSize - W
    BY <1>4
  <2>2. Holds(m, dctx.dict + dctx.dictSize - W, W, g - W + 1)
    BY WindowCame
  <2> QED BY <2>1, <2>2
<1>8. DictAfter([dict |-> 0, dictSize |-> size + n, mem |-> Copied(m1, size, at, n),
                 holds |-> TRUE], m, n, w)
  <2> HIDE DEF W, g, at, max, V
  <2>1. /\ DOMAIN m1 = 0..DstEnd /\ \A a \in DstAt..DstEnd : m1[a] = m[a]
        /\ Holds(m1, size - V, V, g - V + 1)
    <3>1. CASE dctx.dict = 0 /\ size = dctx.dictSize
      <4>1. m1 = m /\ V = W /\ end - W = size - V
        BY <1>4, <1>5, <1>6, <3>1
      <4> QED BY <1>1, <1>7, <4>1
    <3>2. CASE ~(dctx.dict = 0 /\ size = dctx.dictSize)
      <4>1. m1 = Copied(m, 0, end - size, size)
        BY <3>2
      <4>2. /\ end - size \in Int /\ size \in Nat /\ size <= TmpEnd
            /\ end - W \in Int /\ W \in Int /\ g - W + 1 \in Int
            /\ (end - W) + W = (end - size) + size
            /\ size - V \in Int /\ V \in Int /\ g - V + 1 \in Int
            /\ (size - V) + V = size /\ V <= W /\ V <= size
            /\ (g - V + 1) + V = (g - W + 1) + W
        BY <1>a, <1>3, <1>4, <1>5, <1>6
      <4>3. DOMAIN m = 0..DstEnd
        BY <1>1
      <4> DEFINE from == end - size  b == end - W  f == g - W + 1  c == size - V  e == g - V + 1
      <4>4. /\ from \in Int /\ size \in Nat /\ size <= TmpEnd /\ b \in Int /\ W \in Int /\ f \in Int
            /\ b + W = from + size /\ c \in Int /\ V \in Int /\ e \in Int /\ c + V = size
            /\ V <= W /\ V <= size /\ e + V = f + W /\ Holds(m, b, W, f)
        BY <1>7, <4>2
      <4> HIDE DEF from, b, f, c, e
      <4>5. Holds(Copied(m, 0, from, size), c, V, e)
        BY ONLY <4>3, <4>4, MovedToStart
      <4>6. Alike(Copied(m, 0, from, size), m)
        <5>1. 0 \in Int /\ size \in Int /\ 0 + size <= TmpEnd
          BY <4>4
        <5> QED BY ONLY <4>3, <4>4, <5>1, MovedIsLow
      <4> QED BY <4>1, <4>5, <4>6 DEF from, c, e, Alike
    <3> QED BY <3>1, <3>2
  <2>2. Holds(m1, at, n, g + 1)
    <3>1. \A a \in at..(at + n - 1) : a \in DstAt..DstEnd
      BY <1>1, <1>3
    <3>2. \A a \in at..(at + n - 1) : m1[a] = m[a]
      BY <2>1, <3>1
    <3>3. at \in Int /\ n \in Int /\ g + 1 \in Int
      BY <1>1, <1>3, <1>4
    <3> QED BY ONLY <1>2, <3>2, <3>3, HoldsSame
  <2> DEFINE m2 == Copied(m1, size, at, n)
  <2>3. /\ size \in Int /\ at \in Int /\ n \in Int /\ g + 1 \in Int /\ size - V \in Int
        /\ g - V + 1 \in Int /\ V \in Int
        /\ size..(size + n - 1) \subseteq DOMAIN m1
        /\ (V <= 0 \/ (size - V)..((size - V) + V - 1) \subseteq DOMAIN m1)
    <3>1. /\ size \in Int /\ at \in Int /\ n \in Int /\ g + 1 \in Int /\ size - V \in Int
          /\ g - V + 1 \in Int /\ V \in Int
      BY <1>a, <1>3, <1>4, <1>5, <1>6
    <3>2. size + n <= TmpEnd /\ TmpEnd < DstEnd + 1
      BY <1>a, <1>3, <1>4, <1>5
    <3>3. size..(size + n - 1) \subseteq 0..DstEnd
      BY <1>a, <1>3, <1>5, <3>2
    <3>4. V <= 0 \/ (size - V)..((size - V) + V - 1) \subseteq 0..DstEnd
      BY <1>a, <1>3, <1>5, <1>6, <3>1, <3>2
    <3> QED BY <2>1, <3>1, <3>3, <3>4
  <2>4. Holds(m2, size, n, g + 1)
    <3>1. at <= at /\ at + n <= at + n /\ size - at = size - at
      BY <2>3
    <3> QED BY ONLY <2>2, <2>3, <3>1, HoldsCopied
  <2>5. Holds(m2, size - V, V, g - V + 1)
    <3>1. CASE V <= 0
      BY <1>6, <3>1 DEF Holds
    <3>2. CASE ~(V <= 0)
      <4>1. (size - V) + V <= size
        BY <2>3
      <4> QED BY ONLY <2>1, <2>3, <3>2, <4>1, HoldsElsewhere
    <3> QED BY <3>1, <3>2
  <2> HIDE DEF m2
  <2> DEFINE a == size - V  f == g - V + 1  c == size + n - w  e == g + n - w + 1  h == g + 1
  <2>6. Holds(m2, c, w, e)
    <3>1. /\ a \in Int /\ V \in Int /\ f \in Int /\ size \in Int /\ n \in Int /\ h \in Int
          /\ c \in Int /\ e \in Int
          /\ size <= a + V /\ h - size = f - a /\ c + w <= size + n /\ e - c = f - a
          /\ (a <= c /\ V >= 0) \/ size <= c
      BY <1>a, <1>4, <1>5, <1>6
    <3>2. Holds(m2, a, V, f) /\ Holds(m2, size, n, h)
      BY <2>4, <2>5
    <3> HIDE DEF a, f, c, e, h
    <3> QED BY ONLY <3>1, <3>2, w \in Int, HoldsOf
  <2>7. /\ DOMAIN m2 = 0..DstEnd
        /\ \A x \in DstAt..DstEnd : m2[x] = m[x]
    <3>1. \A x \in DstAt..DstEnd : x \in DOMAIN m1 /\ x \notin size..(size + n - 1)
      <4>1. size + n <= TmpEnd
        BY <1>a, <1>3, <1>4, <1>5
      <4>2. \A x \in DstAt..DstEnd : x \in 0..DstEnd /\ x \notin size..(size + n - 1)
        BY <1>a, <1>3, <1>5, <4>1
      <4> QED BY <2>1, <4>2
    <3>2. \A x \in DstAt..DstEnd : m2[x] = m1[x]
      BY <3>1 DEF Copied, m2
    <3> QED BY <2>1, <3>2, CopiedDomain DEF m2
  <2> DEFINE sum == size + n
  <2>8. /\ sum \in Nat /\ sum <= max /\ w <= sum /\ 0 + sum - w = size + n - w
    BY <1>a, <1>4, <1>5, <1>6
  <2> HIDE DEF sum
  <2>9. Holds(m2, 0 + sum - w, w, g + n - w + 1)
    BY <2>6, <2>8
  <2>10. DictAfter([dict |-> 0, dictSize |-> sum, mem |-> m2, holds |-> TRUE], m, n, w)
    BY <2>7, <2>8, <2>9 DEF DictAfter, g, max
  <2> QED BY <2>10 DEF sum, m2
<1> QED BY <1>5, <1>8

\* The dictionary is made of the window in front of tmpOut and what is given of it.
LEMMA DictInFront ==
    ASSUME Inv, pc = "run", dctx.dStage = "flushOut", dctx.frameInfo.linked,
           NEW m, NEW n, Came(m, n), NEW w \in Int, w <= Window + n,
           dctx.dictSize # 0, n <= dctx.tmpOutSize - dctx.tmpOutStart, InTmpOut(m),
           NEW d, SameDict(d)
    PROVE  DictAfter([dict |-> 0, dictSize |-> dctx.tmpOut + dctx.tmpOutStart + n,
                      mem |-> InFrontOfTmpOut(m, d, dctx.dict + dctx.dictSize),
                      holds |-> TRUE], m, n, w)
<1> DEFINE out == dctx.tmpOut
           start == dctx.tmpOutStart
           len == dctx.tmpOutSize
           W == Window
           g == Given
           m2 == InFrontOfTmpOut(m, d, dctx.dict + dctx.dictSize)
<1>1. n \in Nat /\ DOMAIN m = 0..DstEnd
  BY DEF Came
<1>2. dctx.dStage \in Decoding
  BY BlockStages
<1>3. /\ g \in Nat /\ W \in Int /\ W <= g /\ out \in Nat /\ len \in Nat
      /\ start \in Nat /\ start <= len /\ KB64 \in Nat
      /\ out + len <= dctx.maxBufferSize /\ dctx.maxBufferSize \in Nat
  BY <1>2, DictIs
<1>4. /\ W <= KB64 - (len - start)
      /\ out >= g - start \/ out >= KB64 - len
  BY <1>2, DictIs DEF Pending, Inv, ReadInv, OutInv, CallInv, SizeInv
<1>5. Holds(m, dctx.dict + dctx.dictSize - W, W, g - W + 1)
  BY <1>2, WindowCame
<1>6. /\ DOMAIN m2 = 0..DstEnd /\ \A a \in DstAt..DstEnd : m2[a] = m[a]
      /\ InTmpOut(m2)
      /\ Holds(m2, out - (W - start), W - start, g - W + 1)
  BY <1>1, <1>5, MovedInFront
<1>7. Holds(m2, out, len, g - start + 1)
  BY <1>6 DEF InTmpOut
<1>8. n <= len - start /\ w <= W + n
  OBVIOUS
<1> HIDE DEF out, start, len, W, g, m2
<1> DEFINE size == out + start + n
           P == W - start
           b == out - P
           f == g - W + 1
           h == g - start + 1
           c == size - w
           e == g + n - w + 1
<1>9. w <= size /\ size \in Nat /\ size <= dctx.maxBufferSize
  BY <1>1, <1>3, <1>4, <1>8
<1>10. Holds(m2, c, w, e)
  <2>1. /\ b \in Int /\ P \in Int /\ f \in Int /\ out \in Int /\ len \in Int /\ h \in Int
        /\ c \in Int /\ e \in Int
        /\ out <= b + P /\ h - out = f - b /\ c + w <= out + len /\ e - c = f - b
        /\ (b <= c /\ P >= 0) \/ out <= c
    BY <1>1, <1>3, <1>8
  <2>2. Holds(m2, b, P, f) /\ Holds(m2, out, len, h)
    BY <1>6, <1>7
  <2> HIDE DEF size, P, b, f, h, c, e
  <2> QED BY ONLY <2>1, <2>2, w \in Int, HoldsOf
<1>11. 0 + size - w = c /\ size = out + start + n
  BY <1>9
<1>12. Holds(m2, 0 + size - w, w, g + n - w + 1)
  BY <1>10, <1>11
<1> HIDE DEF size, P, b, f, h, c, e
<1>13. DictAfter([dict |-> 0, dictSize |-> size, mem |-> m2, holds |-> TRUE], m, n, w)
  BY <1>6, <1>9, <1>11, <1>12 DEF DictAfter, out, start, g
<1> QED BY <1>11, <1>13 DEF m2, out, start

\* LZ4F_updateDict keeps the window, wherever it puts it.
LEMMA UpdateDict ==
    ASSUME Inv, pc = "run", dctx.dStage \in Decoding, dctx.frameInfo.linked,
           NEW m, NEW n, Came(m, n), NEW w \in Int, w <= Window + n, w <= KB64,
           NEW d, SameDict(d), NEW t \in BOOLEAN, t <=> dctx.dStage = "flushOut",
           t => InTmpOut(m) /\ n <= dctx.tmpOutSize - dctx.tmpOutStart
    PROVE  DictAfter(LZ4F_updateDict(d, m, dst.at, n, t), m, n, w)
<1> DEFINE at == dst.at
           dict == IF dctx.dictSize = 0 THEN at ELSE dctx.dict
           end == dict + dctx.dictSize
           inDst == at - dst.start + n
           inTmp == dict = 0
           As(x, size, m1, holds) == [dict |-> x, dictSize |-> size, mem |-> m1, holds |-> holds]
           size == IF inTmp /\ dctx.dictSize + n <= dctx.maxBufferSize THEN dctx.dictSize
                   ELSE Lesser(KB64 - n, dctx.dictSize)
           m1 == IF inTmp /\ size = dctx.dictSize THEN m ELSE Copied(m, 0, end - size, size)
           u == LZ4F_updateDict(d, m, at, n, t)
<1>1. u = IF end = at THEN As(dict, dctx.dictSize + n, m, TRUE)
          ELSE IF inDst >= KB64 THEN As(dst.start, inDst, m, TRUE)
          ELSE IF t /\ inTmp
          THEN As(0, dctx.dictSize + n, m, end = dctx.tmpOut + dctx.tmpOutStart)
          ELSE IF t THEN As(0, dctx.tmpOut + dctx.tmpOutStart + n, InFrontOfTmpOut(m, d, end), TRUE)
          ELSE As(0, size + n, Copied(m1, size, at, n), n < KB64)
  BY DEF LZ4F_updateDict, SameDict, WindowBefore
<1>2. /\ at \in Nat /\ DstAt <= at /\ dctx.dictSize \in Nat /\ DstAt = TmpEnd + 1
      /\ TmpEnd \in Nat
  <2>1. at \in Nat /\ DstAt <= dst.start /\ dst.start <= at /\ dst.start \in Nat
    BY DstIs
  <2> QED BY <2>1, DictIs, Addresses
<1>3. dctx.dictSize # 0 => /\ dict = dctx.dict /\ dctx.dict \in Nat
                           /\ dctx.dict = 0 \/ DstAt <= dctx.dict
                           /\ dctx.dict = 0 => dctx.dictSize < at
  <2> SUFFICES ASSUME dctx.dictSize # 0
               PROVE  /\ dctx.dict \in Nat /\ (dctx.dict = 0 \/ DstAt <= dctx.dict)
                      /\ dctx.dict = 0 => dctx.dictSize < at
    OBVIOUS
  <2>1. dctx.dict \in Nat /\ (dctx.dict = 0 \/ DstAt <= dctx.dict)
    BY WindowCame
  <2>2. ASSUME dctx.dict = 0 PROVE dctx.dictSize < at
    <3>1. dctx.dictSize <= dctx.maxBufferSize
      BY <1>2, <2>2, DictIs
    <3>2. dctx.maxBufferSize \in Nat /\ dctx.maxBufferSize <= TmpEnd
      BY DictIs
    <3> QED BY <1>2, <3>1, <3>2
  <2> QED BY <2>1, <2>2
<1> HIDE DEF u, m1, size
<1>4. CASE end = at
  <2>1. dict \in Nat /\ DstAt <= dict
    BY <1>2, <1>3, <1>4
  <2>2. (dctx.dictSize # 0 => dict = dctx.dict) /\ (dctx.dStage = "flushOut" => InTmpOut(m))
    OBVIOUS
  <2>3. u = As(dict, dctx.dictSize + n, m, TRUE)
    BY <1>1, <1>4
  <2>4. dict + dctx.dictSize = dst.at
    BY <1>4
  <2> HIDE DEF dict
  <2>5. DictAfter(As(dict, dctx.dictSize + n, m, TRUE), m, n, w)
    BY <2>1, <2>2, <2>4, DictGrows
  <2> QED BY <2>3, <2>5 DEF u
<1>5. CASE end # at /\ inDst >= KB64
  <2>1. u = As(dst.start, inDst, m, TRUE)
    BY <1>1, <1>5
  <2>2. dctx.dStage = "flushOut" => InTmpOut(m)
    OBVIOUS
  <2>3. inDst = dst.at - dst.start + n /\ inDst >= KB64
    BY <1>5
  <2> HIDE DEF inDst
  <2>4. DictAfter(As(dst.start, inDst, m, TRUE), m, n, w)
    BY <2>2, <2>3, DictInDst
  <2> QED BY <2>1, <2>4 DEF u
<1>6. CASE end # at /\ ~(inDst >= KB64)
  <2>1. dctx.dictSize # 0
    BY <1>2, <1>6
  <2>2. dict = dctx.dict /\ dctx.dict \in Nat /\ end = dctx.dict + dctx.dictSize
    BY <1>3, <2>1
  <2>3. CASE t /\ dctx.dict = 0
    <3>1. /\ dctx.dictSize = dctx.tmpOut + dctx.tmpOutStart
          /\ DictAfter([dict |-> 0, dictSize |-> dctx.dictSize + n, mem |-> m,
                        holds |-> TRUE], m, n, w)
      BY <2>1, <2>3, DictGrowsInTmp
    <3>2. (end = dctx.tmpOut + dctx.tmpOutStart) = TRUE
      BY <1>2, <2>2, <2>3, <3>1
    <3>3. u = As(0, dctx.dictSize + n, m, TRUE)
      BY <1>1, <1>6, <2>2, <2>3, <3>2
    <3> QED BY <3>1, <3>3 DEF u
  <2>4. CASE t /\ dctx.dict # 0
    <3>1. u = As(0, dctx.tmpOut + dctx.tmpOutStart + n, InFrontOfTmpOut(m, d, end), TRUE)
      BY <1>1, <1>6, <2>2, <2>4
    <3>2. DictAfter([dict |-> 0, dictSize |-> dctx.tmpOut + dctx.tmpOutStart + n,
                     mem |-> InFrontOfTmpOut(m, d, dctx.dict + dctx.dictSize),
                     holds |-> TRUE], m, n, w)
      BY <2>1, <2>4, DictInFront
    <3> QED BY <2>2, <3>1, <3>2 DEF u
  <2>5. CASE ~t
    <3>1. u = As(0, size + n, Copied(m1, size, at, n), n < KB64)
      BY <1>1, <1>6, <2>2, <2>5
    <3>2. /\ dctx.dStage \in Decoding \ {"flushOut"}
          /\ dst.at - dst.start + n < KB64
      <4>1. dst.at - dst.start + n \in Int /\ KB64 \in Int
        <5>1. dst.at \in Nat /\ dst.start \in Nat
          BY DstIs
        <5>2. n \in Nat
          BY DEF Came
        <5> QED BY <5>1, <5>2, BlockSizes
      <4> QED BY <1>6, <2>5, <4>1
    <3>3. size = IF dctx.dict = 0 /\ dctx.dictSize + n <= dctx.maxBufferSize
                 THEN dctx.dictSize ELSE Lesser(KB64 - n, dctx.dictSize)
      BY <2>2 DEF size
    <3>4. m1 = IF dctx.dict = 0 /\ size = dctx.dictSize THEN m
               ELSE Copied(m, 0, end - size, size)
      BY <2>2 DEF m1
    <3> HIDE DEF dict, end
    <3>5. /\ n < KB64
          /\ DictAfter([dict |-> 0, dictSize |-> size + n, mem |-> Copied(m1, size, dst.at, n),
                        holds |-> TRUE], m, n, w)
      BY <2>1, <2>2, <3>2, <3>3, <3>4, DictMoves
    <3>6. (n < KB64) = TRUE
      BY <3>5
    <3> QED BY <3>1, <3>5, <3>6 DEF u
  <2> QED BY <2>3, <2>4, <2>5
<1> QED BY <1>4, <1>5, <1>6 DEF u

-----------------------------------------------------------------------------
(* Content that is given                                                     *)

WithDict(c, dict, size) == [c EXCEPT !.dict = dict, !.dictSize = size]

\* What Pass makes of context c and memory m, in the terms of the invariant.
LEMMA PassIs ==
    ASSUME Inv, pc = "run", dctx.dStage \in Decoding, NEW m, NEW n, Came(m, n),
           NEW w \in Int, w <= Window + n, w <= KB64,
           NEW t \in BOOLEAN, t <=> dctx.dStage = "flushOut",
           t => InTmpOut(m) /\ n <= dctx.tmpOutSize - dctx.tmpOutStart,
           NEW c, c \in Contexts(c.stored), SameDict(c),
           NEW u, u = Pass(c, m, dst.at, n, t)
    PROVE  /\ u.holds /\ Alike(u.mem, m) /\ (t => InTmpOut(u.mem))
           /\ u.d.dict \in Nat \cup {NULL} /\ u.d.dictSize \in Nat
           /\ u.d = WithDict(c, u.d.dict, u.d.dictSize)
           /\ dctx.frameInfo.linked =>
                 DictAfter([dict |-> u.d.dict, dictSize |-> u.d.dictSize, mem |-> u.mem,
                            holds |-> TRUE], m, n, w)
           /\ ~dctx.frameInfo.linked => u.d.dict = NULL /\ u.d.dictSize = 0
<1>1. DOMAIN m = 0..DstEnd
  BY DEF Came
<1>2. c.frameInfo = dctx.frameInfo /\ c.dict = dctx.dict /\ c.dictSize = dctx.dictSize
  BY DEF SameDict
<1>3. dctx.frameInfo.linked \in BOOLEAN
  BY ContextTypes DEF Inv, SizeInv, TypeOK
<1>4. CASE dctx.frameInfo.linked
  <2> DEFINE x == LZ4F_updateDict(c, m, dst.at, n, t)
  <2>1. DictAfter(x, m, n, w)
    BY <1>4, UpdateDict
  <2>2. u = [d |-> [c EXCEPT !.dict = x.dict, !.dictSize = x.dictSize],
             mem |-> x.mem, holds |-> x.holds]
    BY <1>2, <1>4 DEF Pass
  <2> HIDE DEF x
  <2>3. u.d = [c EXCEPT !.dict = x.dict, !.dictSize = x.dictSize] /\ u.mem = x.mem
        /\ u.holds = x.holds
    BY <2>2
  <2>4. u.d.dict = x.dict /\ u.d.dictSize = x.dictSize
    BY <2>3 DEF Contexts
  <2>5. /\ x.holds /\ DOMAIN x.mem = 0..DstEnd /\ \A a \in DstAt..DstEnd : x.mem[a] = m[a]
        /\ x.dict \in Nat /\ x.dictSize \in Nat /\ (t => InTmpOut(x.mem))
    BY <2>1 DEF DictAfter
  <2>6. DictAfter([dict |-> x.dict, dictSize |-> x.dictSize, mem |-> x.mem, holds |-> TRUE],
                  m, n, w)
    BY <2>1 DEF DictAfter
  <2> QED BY <1>4, <2>3, <2>4, <2>5, <2>6 DEF Alike, WithDict
<1>5. CASE ~dctx.frameInfo.linked
  <2>1. u = [d |-> [c EXCEPT !.dict = c.dict, !.dictSize = c.dictSize],
             mem |-> m, holds |-> TRUE]
    BY <1>2, <1>5 DEF Pass
  <2>2. u.d = [c EXCEPT !.dict = c.dict, !.dictSize = c.dictSize] /\ u.mem = m /\ u.holds = TRUE
    BY <2>1
  <2>3. u.d.dict = c.dict /\ u.d.dictSize = c.dictSize
    BY <2>2 DEF Contexts
  <2>4. dctx.dict = NULL /\ dctx.dictSize = 0
    BY <1>5 DEF Inv, SizeInv, DictInv
  <2> QED BY <1>1, <1>2, <1>5, <2>2, <2>3, <2>4 DEF Alike, WithDict
<1> QED BY <1>3, <1>4, <1>5

SameBuffers(e) ==
    /\ e.frameInfo = dctx.frameInfo /\ e.maxBlockSize = dctx.maxBlockSize
    /\ e.maxBufferSize = dctx.maxBufferSize /\ e.tmpInCapacity = dctx.tmpInCapacity
    /\ e.tmpOut = dctx.tmpOut /\ e.tmpOutSize = dctx.tmpOutSize
Counted(e, n) ==
    /\ dctx.frameInfo.contentSum => e.hashed = dctx.hashed + n
    /\ e.frameRemainingSize = IF dctx.frameInfo.contentSize # 0
                              THEN dctx.frameRemainingSize - n ELSE dctx.frameRemainingSize

\* n bytes are given, of which k are new and f were in tmpOut.
Took(e, n, k, f) == n = k + f /\ e.tmpOutStart = dctx.tmpOutStart + f

\* Content passed on is content of the frame, and the window stays at hand.
LEMMA PassStep ==
    ASSUME Inv, pc = "run", Ended, pc' # "idle", StageKeeps, Advances,
           dctx.dStage \in Decoding, NEW m, NEW n, Came(m, n),
           NEW t \in BOOLEAN, t <=> dctx.dStage = "flushOut",
           NEW k \in Nat, NEW f \in Nat, t => k = 0, ~t => f = 0,
           t => InTmpOut(m) /\ n <= dctx.tmpOutSize - dctx.tmpOutStart,
           NEW c, c \in Contexts(c.stored), SameDict(c),
           NEW u, u = Pass(c, m, dst.at, n, t),
           dst' = [dst EXCEPT !.at = @ + n], mem' = u.mem, asserts' = (asserts /\ u.holds),
           dctx' \in Contexts(dctx'.stored), SameBuffers(dctx'),
           dctx'.dict = u.d.dict, dctx'.dictSize = u.d.dictSize,
           Counted(dctx', k), Took(dctx', n, k, f),
           dctx'.dStage \in Decoding, dctx'.dStage = "flushOut" => t,
           t /\ dctx'.dStage # "flushOut" => dctx'.tmpOutStart = dctx'.tmpOutSize
    PROVE  /\ Settled' /\ Given' = Given + n /\ Given' + Pending' = Given + Pending + k
<1> DEFINE w == Window'
<1>0. n = k + f /\ dctx'.tmpOutStart = dctx.tmpOutStart + f
  BY DEF Took
<1> USE <1>0
<1>1. /\ SizeInv /\ TypeOK /\ CallInv /\ BufferInv /\ DictInv /\ ~failed /\ ReadInv /\ RemainingInv
      /\ dctx \in Contexts(dctx.stored) /\ OutputIsContent
  BY DEF Inv, SizeInv, PastInv, CallInv, TypeOK
<1>2. /\ n \in Nat /\ dst.at # NULL /\ dst.at + n <= dst.end /\ DOMAIN m = 0..DstEnd
      /\ \A a \in 0..(dst.at - 1) : m[a] = mem[a]
      /\ Holds(m, dst.at, n, Given + 1)
  BY DEF Came
<1>a. n \in Nat /\ n \in Int /\ dst.at # NULL /\ dst.at + n <= dst.end /\ NULL \notin Nat
  BY <1>2 DEF NULL
<1>3. /\ dst.at \in Nat /\ dst.start \in Nat /\ dst.end \in Nat
      /\ DstAt <= dst.start /\ dst.start <= dst.at /\ dst.at + n <= DstEnd + 1
      /\ sent \in Nat /\ Given = sent + (dst.at - dst.start) /\ Given \in Nat
      /\ DstAt \in Nat /\ DstEnd \in Nat /\ dst.end <= DstEnd + 1
  <2>1. dst.end <= DstEnd + 1
    BY <1>1, <1>2 DEF TypeOK, RoomOK
  <2> QED BY <1>1, <2>1, DstIs, GivenType, Addresses
<1>4. /\ dst'.at = dst.at + n /\ dst'.start = dst.start /\ dst'.end = dst.end
      /\ dst'.stable \in BOOLEAN /\ dst' \in [start : Int, at : Int, end : Int, stable : BOOLEAN]
  <2>1. dst \in [start : Int, at : Int, end : Int, stable : BOOLEAN]
    BY <1>1 DEF TypeOK, RoomOK
  <2> DEFINE to == dst.at + n
  <2>2. to \in Int /\ dst' = [dst EXCEPT !.at = to]
    BY <1>a, <1>3, <2>1
  <2> HIDE DEF to
  <2>3. /\ dst'.at = to /\ dst'.start = dst.start /\ dst'.end = dst.end
        /\ dst'.stable \in BOOLEAN /\ dst' \in [start : Int, at : Int, end : Int, stable : BOOLEAN]
    BY <2>1, <2>2
  <2> QED BY <2>3 DEF to
<1>5. Given' = Given + n
  BY <1>a, <1>3, <1>4 DEF Given, StageKeeps
<1>6. /\ dctx.tmpOutSize \in Nat /\ dctx.tmpOutStart \in Nat /\ dctx.tmpOutStart <= dctx.tmpOutSize
      /\ dctx.tmpOut \in Nat
      /\ dctx'.tmpOutSize = dctx.tmpOutSize /\ dctx'.tmpOutStart \in Nat
      /\ dctx'.tmpOutStart <= dctx.tmpOutSize
  <2>1. /\ dctx.tmpOutSize \in Nat /\ dctx.tmpOutStart \in Nat /\ dctx.tmpOut \in Nat
        /\ dctx.tmpOutStart <= dctx.tmpOutSize
    BY <1>1, ContextTypes DEF BufferInv
  <2> QED BY <1>2, <2>1 DEF SameBuffers
<1>7. /\ Pending = (IF t THEN dctx.tmpOutSize - dctx.tmpOutStart ELSE 0)
      /\ Pending' = Pending - f /\ Pending \in Nat /\ Pending' \in Nat
  <2>1. CASE t
    BY <1>6, <2>1 DEF Pending
  <2>2. CASE ~t
    BY <1>6, <2>2 DEF Pending
  <2> QED BY <2>1, <2>2
<1>8. /\ Window = Lesser(Given, KB64 - Pending) /\ w = Lesser(Given', KB64 - Pending')
      /\ KB64 \in Nat
  BY BlockSizes DEF Window
<1>9. w \in Int /\ w <= Window + n /\ w <= KB64 /\ Window \in Int
  BY <1>a, <1>3, <1>5, <1>7, <1>8 DEF Lesser
<1>10. /\ u.holds /\ Alike(u.mem, m) /\ (t => InTmpOut(u.mem))
       /\ dctx.frameInfo.linked =>
             DictAfter([dict |-> u.d.dict, dictSize |-> u.d.dictSize, mem |-> u.mem,
                        holds |-> TRUE], m, n, w)
       /\ ~dctx.frameInfo.linked => u.d.dict = NULL /\ u.d.dictSize = 0
  <2> HIDE DEF w
  <2> QED BY <1>9, PassIs
<1>11. TypeOK' /\ CallInv'
  <2>1. RoomOK'
    BY <1>a, <1>3, <1>4 DEF RoomOK
  <2>2. /\ ~failed /\ pc' \in {"idle", "run", "preserve"}
        /\ ret' \in [error : Errors \cup {"none"}, hint : Nat]
        /\ failed' <=> pc' = "idle"
        /\ pc' # "idle" => /\ srcStart' <= srcPtr' /\ srcPtr' <= srcEnd' /\ ~failed'
                           /\ srcEnd' <= Total' + 1
        /\ srcPtr' <= Total' + 1
        /\ stream' \in Streams /\ srcPtr' \in Nat /\ srcStart' \in Nat /\ srcEnd' \in Nat
        /\ arena' \in DstAt..(DstEnd + 1) /\ sent' \in Nat
    BY <1>1, <2>1, EndedTypes
  <2>3. DOMAIN mem' = 0..DstEnd /\ asserts' = TRUE
    BY <1>1, <1>10 DEF Alike, TypeOK
  <2>4. dst'.start = arena'
    BY <1>1, <1>2, <1>4 DEF CallInv, StageKeeps
  <2> QED BY <2>1, <2>2, <2>3, <2>4 DEF TypeOK, CallInv
<1>12. BufferInv'
  <2>1. dctx.dStage \notin Before /\ dctx'.dStage \notin Before
    BY BlockStages
  <2> QED BY <1>1, <1>6, <2>1 DEF BufferInv, SameBuffers, bufferNeeded
<1>13. dctx'.frameInfo = dctx.frameInfo /\ dctx.frameInfo.linked \in BOOLEAN
  BY <1>1, ContextTypes DEF SameBuffers
<1>14. DictInv'
  <2>1. dctx'.dStage \notin Before \cup {"init"}
    BY BlockStages
  <2>2. Stays' = dst.at + n
    BY <1>a, <1>3, <1>4 DEF Stays
  <2>3. CASE dctx.frameInfo.linked
    <3>1. /\ \/ dctx'.dict = 0 /\ dctx'.dictSize <= dctx'.maxBufferSize
             \/ DstAt <= dctx'.dict /\ dctx'.dict + dctx'.dictSize <= dst.at + n
          /\ t => (dctx'.dict = 0 => dctx'.dictSize = dctx.tmpOut + dctx.tmpOutStart + n)
      BY <1>10, <2>3 DEF DictAfter, SameBuffers
    <3>2. t => dctx.tmpOut + dctx.tmpOutStart + n = dctx'.tmpOut + dctx'.tmpOutStart
      BY <1>6, <1>7 DEF SameBuffers
    <3> QED BY <1>13, <2>1, <2>2, <2>3, <3>1, <3>2 DEF DictInv
  <2>4. CASE ~dctx.frameInfo.linked
    BY <1>10, <1>13, <2>1, <2>4 DEF DictInv
  <2> QED BY <1>13, <2>3, <2>4
<1>15. RemainingInv'
  <2>1. dctx'.dStage \notin Before
    BY BlockStages
  <2> QED BY <1>1, <1>13, <2>1 DEF RemainingInv, Counted, StageKeeps
<1>16. OutputIsContent'
  <2> SUFFICES ASSUME NEW p \in dst.start..(dst.at + n - 1)
               PROVE  mem'[p] = sent + 1 + p - dst.start
    <3>1. sent' = sent /\ dst'.start = dst.start /\ dst'.at - 1 = dst.at + n - 1
      BY <1>a, <1>3, <1>4 DEF StageKeeps
    <3> QED BY <1>a, <1>3, <1>4, <3>1 DEF OutputIsContent
  <2>1. p \in DstAt..DstEnd
    BY <1>a, <1>3
  <2>2. mem'[p] = m[p]
    BY <1>10, <2>1 DEF Alike
  <2>3. CASE p < dst.at
    <3>1. p \in 0..(dst.at - 1) /\ p \in dst.start..(dst.at - 1)
      BY <1>3, <2>3
    <3>2. m[p] = mem[p] /\ mem[p] = sent + 1 + p - dst.start
      BY <1>1, <1>2, <3>1 DEF OutputIsContent
    <3> QED BY <2>2, <3>2
  <2>4. CASE ~(p < dst.at)
    <3>1. p - dst.at \in 0..(n - 1) /\ dst.at + (p - dst.at) = p
          /\ Given + 1 + (p - dst.at) = sent + 1 + p - dst.start
      BY <1>a, <1>3, <2>4
    <3>2. m[dst.at + (p - dst.at)] = Given + 1 + (p - dst.at)
      BY <1>2, <3>1 DEF Holds
    <3> QED BY <2>2, <3>1, <3>2
  <2> QED BY <2>3, <2>4
<1>17. WindowInv'
  <2> SUFFICES ASSUME dctx.frameInfo.linked
               PROVE  /\ w <= dctx'.dictSize
                      /\ Holds(mem', dctx'.dict + dctx'.dictSize - w, w, Given' - w + 1)
    BY <1>13 DEF WindowInv
  <2>1. /\ w <= u.d.dictSize
        /\ Holds(u.mem, u.d.dict + u.d.dictSize - w, w, Given + n - w + 1)
    <3> HIDE DEF w
    <3> QED BY <1>10 DEF DictAfter
  <2> HIDE DEF w
  <2>2. Given + n - w + 1 = Given' - w + 1
    BY <1>a, <1>3, <1>5, <1>9
  <2> QED BY <2>1, <2>2
<1>18. OutInv'
  <2> SUFFICES ASSUME dctx'.dStage = "flushOut"
               PROVE  /\ dctx'.tmpOutStart <= Given'
                      /\ Holds(mem', dctx'.tmpOut, dctx'.tmpOutSize, Given' - dctx'.tmpOutStart + 1)
                      /\ dctx'.frameInfo.linked =>
                            \/ dctx'.tmpOut >= Given' - dctx'.tmpOutStart
                            \/ dctx'.tmpOut >= KB64 - dctx'.tmpOutSize
    BY DEF OutInv
  <2>1. t /\ f = n /\ dctx.dStage = "flushOut"
    BY <1>2
  <2>2. /\ dctx.tmpOutStart <= Given
        /\ dctx.frameInfo.linked =>
              \/ dctx.tmpOut >= Given - dctx.tmpOutStart
              \/ dctx.tmpOut >= KB64 - dctx.tmpOutSize
    BY <1>1, <2>1 DEF ReadInv, OutInv
  <2>3. Given' - dctx'.tmpOutStart = Given - dctx.tmpOutStart /\ dctx'.tmpOutStart <= Given'
    BY <1>a, <1>3, <1>5, <1>6, <2>1, <2>2
  <2>4. Holds(u.mem, dctx.tmpOut, dctx.tmpOutSize, Given - dctx.tmpOutStart + 1)
    BY <1>10, <2>1 DEF InTmpOut
  <2> QED BY <1>13, <2>2, <2>3, <2>4 DEF SameBuffers
<1>19. CountInv'
  <2>1. dctx'.dStage \notin Before \cup {"init"} /\ dctx.dStage \notin Before
        /\ dctx'.dStage # "storeSuffix" /\ dctx'.dStage # "getFrameHeader"
    BY BlockStages DEF Before
  <2>2. Given' + Pending' = Given + Pending + k
    BY <1>a, <1>3, <1>5, <1>7
  <2>3. /\ dctx.frameInfo.contentSum => dctx.hashed = Given + Pending
        /\ dctx.frameInfo.contentSize # 0 =>
              dctx.frameRemainingSize = dctx.frameInfo.contentSize - (Given + Pending)
    BY <1>1, <2>1 DEF ReadInv, CountInv
  <2>4. dctx.frameInfo.contentSize \in Nat
    BY <1>1, ContextTypes
  <2>5. /\ dctx.frameInfo.contentSum => dctx'.hashed = Given' + Pending'
        /\ dctx.frameInfo.contentSize # 0 =>
              dctx'.frameRemainingSize = dctx.frameInfo.contentSize - (Given' + Pending')
    BY <1>3, <1>7, <2>2, <2>3, <2>4 DEF Counted
  <2> QED BY <1>13, <2>1, <2>5 DEF CountInv
<1>20. Given' + Pending' = Given + Pending + k
  BY <1>a, <1>3, <1>5, <1>7
<1> QED BY <1>5, <1>11, <1>12, <1>14, <1>15, <1>16, <1>17, <1>18, <1>19, <1>20 DEF Settled

\* Counting content changes the count, the rest to come and nothing else.
LEMMA RegeneratedIs ==
    ASSUME dctx \in Contexts(dctx.stored), NEW d, d \in Contexts(d.stored), Kept(d, dctx),
           NEW n \in Nat
    PROVE  LET c == Regenerated(d, n)
           IN  /\ c \in Contexts(c.stored) /\ SameDict(c) /\ SameBuffers(c) /\ Counted(c, n)
               /\ c.tmpOutStart = dctx.tmpOutStart /\ c.tmpInTarget = d.tmpInTarget
               /\ c.dStage = d.dStage
<1> DEFINE hashed == IF d.frameInfo.contentSum THEN d.hashed + n ELSE d.hashed
           left == IF d.frameInfo.contentSize # 0 THEN d.frameRemainingSize - n
                   ELSE d.frameRemainingSize
           c == [d EXCEPT !.hashed = hashed, !.frameRemainingSize = left]
<1>1. Regenerated(d, n) = c
  BY DEF Regenerated, Contexts
<1>2. d.hashed \in Nat /\ d.frameRemainingSize \in Int /\ dctx.frameInfo.contentSize \in Nat
  BY ContextTypes
<1>3. d.frameInfo = dctx.frameInfo /\ d.hashed = dctx.hashed
      /\ d.frameRemainingSize = dctx.frameRemainingSize
  BY DEF Kept
<1>4. /\ hashed \in Nat /\ left \in Int
      /\ dctx.frameInfo.contentSum => hashed = dctx.hashed + n
      /\ left = IF dctx.frameInfo.contentSize # 0
                THEN dctx.frameRemainingSize - n ELSE dctx.frameRemainingSize
  BY <1>2, <1>3
<1> HIDE DEF hashed, left
<1>5. /\ c \in Contexts(c.stored) /\ SameDict(c) /\ SameBuffers(c)
      /\ c.hashed = hashed /\ c.frameRemainingSize = left
      /\ c.tmpOutStart = dctx.tmpOutStart /\ c.tmpInTarget = d.tmpInTarget
      /\ c.dStage = d.dStage
  BY <1>4 DEF Contexts, Kept, SameDict, SameBuffers
<1> HIDE DEF c
<1> QED BY <1>1, <1>4, <1>5 DEF Counted

Passed(d, m, n) == Pass(Regenerated(d, n), m, dst.at, n, FALSE)

\* The context after new content was passed on.
LEMMA PassedContext ==
    ASSUME Inv, pc = "run", dctx.dStage \in Decoding \ {"flushOut"}, NEW m, NEW n, Came(m, n),
           NEW d, d \in Contexts(d.stored), Kept(d, dctx),
           NEW u, u = Passed(d, m, n)
    PROVE  /\ u.d \in Contexts(u.d.stored) /\ SameBuffers(u.d) /\ Counted(u.d, n)
           /\ u.d.tmpOutStart = dctx.tmpOutStart /\ u.d.tmpInTarget = d.tmpInTarget
           /\ u.d.dStage = d.dStage
<1> DEFINE c == Regenerated(d, n)
<1>1. /\ c \in Contexts(c.stored) /\ SameDict(c) /\ SameBuffers(c) /\ Counted(c, n)
      /\ c.tmpOutStart = dctx.tmpOutStart /\ c.tmpInTarget = d.tmpInTarget
      /\ c.dStage = d.dStage
  BY RegeneratedIs DEF Inv, SizeInv, TypeOK, Came
<1> HIDE DEF c
<1> DEFINE w == Window + 0
<1>2. /\ w \in Int /\ w <= Window + n /\ w <= KB64
  <2>1. n \in Nat /\ KB64 \in Nat /\ Given \in Nat
    BY BlockSizes, GivenType DEF Came, Inv, SizeInv
  <2>2. Window = Lesser(Given, KB64)
    BY <2>1 DEF Window, Pending
  <2> QED BY <2>1, <2>2 DEF Lesser
<1> HIDE DEF w
<1>a. PICK t \in BOOLEAN : ~t
  OBVIOUS
<1>3. u = Pass(c, m, dst.at, n, t)
  <2>1. t = FALSE
    BY <1>a
  <2> QED BY <2>1 DEF c, Passed
<1>4. /\ u.holds /\ Alike(u.mem, m) /\ (t => InTmpOut(u.mem))
      /\ u.d.dict \in Nat \cup {NULL} /\ u.d.dictSize \in Nat
      /\ u.d = WithDict(c, u.d.dict, u.d.dictSize)
      /\ dctx.frameInfo.linked =>
            DictAfter([dict |-> u.d.dict, dictSize |-> u.d.dictSize, mem |-> u.mem,
                       holds |-> TRUE], m, n, w)
      /\ ~dctx.frameInfo.linked => u.d.dict = NULL /\ u.d.dictSize = 0
  <2>1. /\ t \in BOOLEAN /\ (t <=> dctx.dStage = "flushOut") /\ dctx.dStage \in Decoding
        /\ (t => InTmpOut(m) /\ n <= dctx.tmpOutSize - dctx.tmpOutStart)
    BY <1>a
  <2> QED BY ONLY <1>1, <1>2, <1>3, <2>1, Inv, pc = "run", Came(m, n), PassIs
<1> DEFINE x == u.d.dict  y == u.d.dictSize  e == [c EXCEPT !.dict = x, !.dictSize = y]
<1>5. u.d = e /\ x \in Nat \cup {NULL} /\ y \in Nat
  BY <1>4 DEF WithDict
<1> HIDE DEF x, y
<1>6. /\ e \in Contexts(e.stored) /\ e.tmpOutStart = c.tmpOutStart
      /\ e.tmpInTarget = c.tmpInTarget /\ e.dStage = c.dStage
      /\ e.frameInfo = c.frameInfo /\ e.maxBlockSize = c.maxBlockSize
      /\ e.maxBufferSize = c.maxBufferSize /\ e.tmpInCapacity = c.tmpInCapacity
      /\ e.tmpOut = c.tmpOut /\ e.tmpOutSize = c.tmpOutSize
      /\ e.hashed = c.hashed /\ e.frameRemainingSize = c.frameRemainingSize
  BY <1>1, <1>5 DEF Contexts
<1> HIDE DEF e
<1> QED BY <1>1, <1>5, <1>6 DEF SameBuffers, Counted

\* A stage that gives new content, straight to dst.
LEMMA GivesStep ==
    ASSUME Inv, pc = "run", Ended, pc' # "idle", StageKeeps, Advances,
           dctx.dStage \in Decoding \ {"flushOut"}, NEW m, NEW n, Came(m, n),
           NEW d, d \in Contexts(d.stored), Kept(d, dctx),
           NEW u, u = Passed(d, m, n),
           dst' = [dst EXCEPT !.at = @ + n], mem' = u.mem, asserts' = (asserts /\ u.holds),
           dctx' \in Contexts(dctx'.stored), Kept(dctx', u.d),
           dctx'.dStage \in Decoding \ {"flushOut"}
    PROVE  Settled' /\ Given' = Given + n /\ Pending' = 0 /\ dctx'.frameInfo = dctx.frameInfo
<1> DEFINE c == Regenerated(d, n)
<1>1. c \in Contexts(c.stored) /\ SameDict(c)
  BY RegeneratedIs DEF Inv, SizeInv, TypeOK, Came
<1>a. PICK t \in BOOLEAN : ~t
  OBVIOUS
<1>2. u = Pass(c, m, dst.at, n, t)
  <2>1. t = FALSE
    BY <1>a
  <2> QED BY <2>1 DEF Passed
<1>3. SameBuffers(u.d) /\ Counted(u.d, n) /\ u.d.tmpOutStart = dctx.tmpOutStart
  BY PassedContext
<1>4. /\ SameBuffers(dctx') /\ dctx'.dict = u.d.dict /\ dctx'.dictSize = u.d.dictSize
      /\ Counted(dctx', n) /\ dctx'.tmpOutStart = dctx.tmpOutStart + 0
  <2>1. dctx.tmpOutStart \in Nat
    BY ContextTypes DEF Inv, SizeInv, TypeOK
  <2>a. dctx'.tmpOutStart = u.d.tmpOutStart
    BY DEF Kept
  <2>2. dctx'.tmpOutStart = dctx.tmpOutStart + 0
    BY <1>3, <2>1, <2>a
  <2>3. SameBuffers(dctx') /\ dctx'.dict = u.d.dict /\ dctx'.dictSize = u.d.dictSize
    BY <1>3 DEF Kept, SameBuffers
  <2>4. Counted(dctx', n)
    BY <1>3 DEF Kept, Counted
  <2> QED BY <2>2, <2>3, <2>4
<1> HIDE DEF c
<1>5. n \in Nat /\ Took(dctx', n, n, 0) /\ 0 \in Nat
  BY <1>4 DEF Came, Took
<1>6. /\ (t <=> dctx.dStage = "flushOut") /\ dctx.dStage \in Decoding
      /\ dctx'.dStage \in Decoding /\ (dctx'.dStage = "flushOut" => t)
      /\ (t => InTmpOut(m) /\ n <= dctx.tmpOutSize - dctx.tmpOutStart)
      /\ (t => n = 0)
      /\ (t /\ dctx'.dStage # "flushOut" => dctx'.tmpOutStart = dctx'.tmpOutSize)
  BY <1>a
<1>7. Settled' /\ Given' = Given + n
  BY <1>1, <1>2, <1>4, <1>5, <1>6, PassStep
<1> QED BY <1>4, <1>7 DEF Pending, SameBuffers

\* The bytes of an uncompressed block are its content.
LEMMA ContentIs ==
    ASSUME stream \in Streams, NEW i \in DOMAIN stream, stream[i].k = "raw", NEW p \in Int,
           stream[i].at <= p, p < stream[i].at + stream[i].size
    PROVE  ContentAt(p) = stream[i].from + (p - stream[i].at)
<1> DEFINE In(j) == stream[j].at <= p /\ p <= EndOf(stream[j])
<1>1. /\ i \in Nat /\ DOMAIN stream \subseteq Nat
      /\ \A j \in DOMAIN stream : stream[j].at \in Nat /\ stream[j].size \in Nat
      /\ \A j, l \in DOMAIN stream : j < l => stream[j].at + stream[j].size <= stream[l].at
      /\ stream[i].from \in Nat
  BY FieldTypes
<1>2. In(i)
  BY <1>1 DEF EndOf
<1>3. ASSUME NEW j \in DOMAIN stream, In(j) PROVE j = i
  <2>1. j \in Nat /\ stream[j].at \in Nat /\ stream[j].size \in Nat
        /\ stream[i].at \in Nat /\ stream[i].size \in Nat
        /\ (i < j => stream[i].at + stream[i].size <= stream[j].at)
        /\ (j < i => stream[j].at + stream[j].size <= stream[i].at)
    BY <1>1
  <2>2. stream[j].at <= p /\ p < stream[j].at + stream[j].size
    BY <1>3, <2>1 DEF EndOf
  <2> QED BY <1>1, <2>1, <2>2
<1> HIDE DEF In
<1>4. (CHOOSE j \in DOMAIN stream : In(j)) = i
  BY <1>2, <1>3
<1>5. ContentAt(p) = stream[i].from + p - stream[i].at
  BY <1>4 DEF ContentAt, In
<1> QED BY <1>1, <1>5

\* How copyDirect goes on after n bytes, with context e.
CopyEnds(e, n) ==
    IF n = dctx.tmpInTarget
    THEN Go(IF dctx.frameInfo.blockSum
            THEN [Restore(e, 0) EXCEPT !.dStage = "getBlockChecksum"]
            ELSE [e EXCEPT !.dStage = "getBlockHeader"])
    ELSE Stop([e EXCEPT !.tmpInTarget = @ - n],
              dctx.tmpInTarget - n + BHSize + (IF dctx.frameInfo.blockSum THEN BFSize ELSE 0))
Copies(n) ==
    \/ /\ n = dctx.tmpInTarget /\ Went /\ dctx.frameInfo.blockSum
       /\ dctx'.dStage = "getBlockChecksum" /\ dctx'.tmpInSize = 0
    \/ /\ n = dctx.tmpInTarget /\ Went /\ ~dctx.frameInfo.blockSum
       /\ dctx'.dStage = "getBlockHeader"
    \/ /\ n < dctx.tmpInTarget /\ \E h \in Nat \ {0} : Stopped(h)
       /\ dctx'.dStage = "copyDirect" /\ dctx'.tmpInTarget = dctx.tmpInTarget - n

\* How copyDirect ends.
LEMMA CopyEndsSo ==
    ASSUME dctx \in Contexts(dctx.stored), NEW e, e \in Contexts(e.stored),
           e.tmpInTarget = dctx.tmpInTarget, e.dStage = "copyDirect",
           NEW n \in Nat, n <= dctx.tmpInTarget, CopyEnds(e, n)
    PROVE  /\ dctx' \in Contexts(dctx'.stored) /\ Kept(dctx', e) /\ Copies(n)
           /\ Ended /\ dctx'.dStage \in Decoding \ {"flushOut"}
<1>1. dctx.tmpInTarget \in Nat /\ dctx.frameInfo.blockSum \in BOOLEAN
      /\ BHSize \in Nat \ {0} /\ BFSize \in Nat \ {0}
  BY ContextTypes, DecoderAssumption
<1>2. CASE n = dctx.tmpInTarget /\ dctx.frameInfo.blockSum
  <2>1. Went /\ dctx' = [Restore(e, 0) EXCEPT !.dStage = "getBlockChecksum"]
    BY <1>2 DEF CopyEnds, Go, Went
  <2>2. /\ dctx' \in Contexts(dctx'.stored) /\ Kept(dctx', e)
        /\ dctx'.dStage = "getBlockChecksum" /\ dctx'.tmpInSize = 0
    BY <2>1, Restored, BlockStages
  <2> QED BY <1>2, <2>1, <2>2, BlockStages DEF Copies, Ended
<1>3. CASE n = dctx.tmpInTarget /\ ~dctx.frameInfo.blockSum
  <2>1. Went /\ dctx' = [e EXCEPT !.dStage = "getBlockHeader"]
    BY <1>3 DEF CopyEnds, Go, Went
  <2>2. /\ dctx' \in Contexts(dctx'.stored) /\ Kept(dctx', e)
        /\ dctx'.dStage = "getBlockHeader"
    BY <2>1, Restaged, BlockStages
  <2> QED BY <1>3, <2>1, <2>2, BlockStages DEF Copies, Ended
<1>4. CASE n # dctx.tmpInTarget
  <2> DEFINE h == dctx.tmpInTarget - n + BHSize + (IF dctx.frameInfo.blockSum THEN BFSize ELSE 0)
             left == dctx.tmpInTarget - n
  <2>1. left \in Nat /\ n < dctx.tmpInTarget
    BY <1>1, <1>4
  <2>2. h \in Nat \ {0}
    BY <1>1, <2>1
  <2>3. Stop([e EXCEPT !.tmpInTarget = left], h)
    BY <1>4 DEF CopyEnds, Contexts
  <2> HIDE DEF h, left
  <2>4. Stopped(h) /\ dctx' = [e EXCEPT !.tmpInTarget = left]
    BY <2>3 DEF Stop, Stopped
  <2>5. /\ dctx' \in Contexts(dctx'.stored) /\ Kept(dctx', e)
        /\ dctx'.dStage = "copyDirect" /\ dctx'.tmpInTarget = left
    BY <2>1, <2>4 DEF Contexts, Kept
  <2>6. Copies(n)
    BY <2>1, <2>2, <2>4, <2>5 DEF Copies, left
  <2>7. Ended
    BY <2>2, <2>4 DEF Ended
  <2> QED BY <2>5, <2>6, <2>7, BlockStages
<1> QED BY <1>1, <1>2, <1>3, <1>4

\* Where the input is then.
LEMMA CopyPlace ==
    ASSUME Inv, pc = "run", dctx.dStage = "copyDirect", NEW n \in Nat, n <= dctx.tmpInTarget,
           stream' = stream, srcPtr' = srcPtr + n, Given' = Given + n, Pending' = 0,
           dctx'.frameInfo = dctx.frameInfo, Copies(n)
    PROVE  TargetInv' /\ PlaceInv'
<1>1. /\ stream \in Streams /\ ~failed /\ PlaceInv /\ TypeOK /\ dctx \in Contexts(dctx.stored)
  BY DEF Inv, SizeInv, CallInv, TypeOK, ReadInv
<1>2. PICK i \in DOMAIN stream :
        /\ InFrame(i, {"raw"}) /\ stream[i].at <= srcPtr
        /\ srcPtr + dctx.tmpInTarget = stream[i].at + stream[i].size
        /\ Given + dctx.tmpInTarget + 1 = stream[i].from + stream[i].n
  BY <1>1 DEF PlaceInv, InRaw
<1>3. /\ stream[i].k = "raw" /\ Fine(i) /\ stream[i].info = dctx.frameInfo
      /\ stream[i].n = stream[i].size /\ stream[i].ok /\ ~stream[i].last
  <2>1. Whole(stream[i]) /\ Ends(stream[i])
    BY <1>1, FieldTypes
  <2>2. stream[i].k = "raw" /\ Fine(i) /\ stream[i].info = dctx.frameInfo
    BY <1>2 DEF InFrame, Reads
  <2> QED BY <2>1, <2>2 DEF Whole, Ends
<1>4. /\ srcPtr \in Nat /\ dctx.tmpInTarget \in Nat /\ Given \in Nat /\ BFSize \in Nat \ {0}
      /\ stream[i].at \in Nat /\ stream[i].size \in Nat /\ stream[i].from \in Nat
      /\ stream[i].n \in Nat
  BY <1>1, ContextTypes, FieldTypes, GivenType, DecoderAssumption DEF TypeOK
<1> DEFINE g == stream[i + 1]
<1>5. /\ i + 1 \in DOMAIN stream /\ g.at = stream[i].at + stream[i].size
      /\ Follows(stream[i], g) /\ Fine(i + 1)
  BY <1>1, <1>3, NextField, FineNext
<1>6. /\ IF dctx.frameInfo.blockSum THEN g.k = "bsum" /\ g.info = stream[i].info
         ELSE NextBlock(stream[i], g)
      /\ g.from = stream[i].from + stream[i].n
  BY <1>3, <1>5 DEF Follows
<1>7. CASE n = dctx.tmpInTarget /\ dctx'.dStage = "getBlockChecksum"
           /\ dctx'.tmpInSize = 0 /\ dctx.frameInfo.blockSum
  <2>1. InFrame(i + 1, {"bsum"})' /\ i + 1 \in DOMAIN stream'
    BY <1>3, <1>5, <1>6, <1>7 DEF InFrame, Reads, Fine
  <2>2. stream'[i + 1].from = Given' + 1 /\ srcPtr' = stream'[i + 1].at + 0
    BY <1>2, <1>4, <1>5, <1>6, <1>7
  <2>3. Collects(i + 1, BFSize)'
    BY <1>4, <1>7, <2>2 DEF Collects, StoredFrom, Stores
  <2>4. InBlockSum'
    BY <2>1, <2>2, <2>3 DEF InBlockSum
  <2> QED BY <1>7, <2>4 DEF TargetInv, PlaceInv
<1>8. CASE n = dctx.tmpInTarget /\ dctx'.dStage = "getBlockHeader" /\ ~dctx.frameInfo.blockSum
  <2>1. InFrame(i + 1, {"head", "end"})' /\ i + 1 \in DOMAIN stream'
    BY <1>3, <1>5, <1>6, <1>8 DEF InFrame, Reads, Fine, NextBlock
  <2>2. stream'[i + 1].from = Given' + Pending' + 1 /\ srcPtr' = stream'[i + 1].at
    BY <1>2, <1>4, <1>5, <1>6, <1>8
  <2>3. AtBlock'
    BY <2>1, <2>2 DEF AtBlock
  <2> QED BY <1>8, <2>3 DEF TargetInv, PlaceInv
<1>9. CASE n < dctx.tmpInTarget /\ dctx'.dStage = "copyDirect"
           /\ dctx'.tmpInTarget = dctx.tmpInTarget - n
  <2>1. InFrame(i, {"raw"})' /\ i \in DOMAIN stream'
    BY <1>2 DEF InFrame, Reads, Fine
  <2>2. /\ stream'[i].at <= srcPtr'
        /\ srcPtr' + dctx'.tmpInTarget = stream'[i].at + stream'[i].size
        /\ Given' + dctx'.tmpInTarget + 1 = stream'[i].from + stream'[i].n
    BY <1>2, <1>4, <1>9
  <2>3. InRaw'
    BY <2>1, <2>2 DEF InRaw
  <2> QED BY <1>9, <2>3 DEF TargetInv, PlaceInv
<1> QED BY <1>7, <1>8, <1>9 DEF Copies

\* Bytes of an uncompressed block are given as they come.
LEMMA CopyDirectStep ==
    ASSUME Inv, pc = "run", StageKeeps, copyDirect
    PROVE  Inv'
<1> DEFINE n == IF dst.at = NULL THEN 0 ELSE Lesser(dctx.tmpInTarget, Lesser(available, room))
           m == [p \in DOMAIN mem |-> IF p \in dst.at..(dst.at + n - 1)
                                      THEN ContentAt(srcPtr + p - dst.at) ELSE mem[p]]
           u == IF dst.at = NULL THEN [d |-> dctx, mem |-> mem, holds |-> TRUE]
                ELSE Passed(dctx, m, n)
           e == u.d
<1>1. /\ TypeOK /\ CallInv /\ stream \in Streams /\ stream' = stream /\ PlaceInv
      /\ dctx \in Contexts(dctx.stored) /\ dctx.dStage = "copyDirect" /\ ~failed
  BY DEF Inv, SizeInv, CallInv, TypeOK, StageKeeps, copyDirect, ReadInv
<1>2. /\ CopyEnds(e, n) /\ srcPtr' = srcPtr + n
      /\ dst' = [dst EXCEPT !.at = IF @ = NULL THEN @ ELSE @ + n]
      /\ mem' = u.mem /\ asserts' = (asserts /\ u.holds)
  BY DEF copyDirect, CopyEnds, Passed, Consume
<1>3. /\ srcPtr \in Nat /\ srcEnd \in Nat /\ srcPtr <= srcEnd /\ dctx.tmpInTarget \in Nat
      /\ dst.at \in Int /\ dst.end \in Int /\ dst.at <= dst.end
  BY <1>1, ContextTypes, GivenType DEF TypeOK, CallInv
<1>4. /\ n \in Nat /\ n <= dctx.tmpInTarget /\ srcPtr + n <= srcEnd
      /\ dst.at # NULL => dst.at + n <= dst.end
      /\ n < dctx.tmpInTarget /\ dst.at # NULL => srcPtr + n = srcEnd \/ dst.at + n = dst.end
  BY <1>3 DEF Lesser, available, room
<1>5. Advances
  BY <1>2, <1>3, <1>4 DEF Advances
<1>6. dctx.dStage \in Decoding \ {"flushOut"} /\ Kept(dctx, dctx)
  BY <1>1, BlockStages DEF Kept
<1>7. ASSUME e \in Contexts(e.stored), e.tmpInTarget = dctx.tmpInTarget, e.dStage = "copyDirect"
      PROVE  /\ dctx' \in Contexts(dctx'.stored) /\ Kept(dctx', e) /\ Copies(n)
             /\ Ended /\ dctx'.dStage \in Decoding \ {"flushOut"}
             /\ pc' # "idle"
  <2> HIDE DEF e, n
  <2>1. /\ dctx' \in Contexts(dctx'.stored) /\ Kept(dctx', e) /\ Copies(n)
        /\ Ended /\ dctx'.dStage \in Decoding \ {"flushOut"}
    BY <1>1, <1>2, <1>4, <1>7, CopyEndsSo
  <2> QED BY <2>1 DEF Copies, Went, Stopped
<1>8. ASSUME Settled', Given' = Given + n, Pending' = 0, dctx'.frameInfo = dctx.frameInfo,
             Copies(n), dst'.end = dst.end,
             dst.at # NULL => dst'.at = dst.at + n, dst.at = NULL => dst'.at = dst'.end
      PROVE  Inv'
  <2> HIDE DEF n
  <2>1. TargetInv' /\ PlaceInv'
    BY <1>1, <1>2, <1>4, <1>8, CopyPlace
  <2>2. CASE Went
    BY <1>8, <2>1, <2>2, GoesOn
  <2>3. ASSUME NEW h \in Nat \ {0}, Stopped(h), n < dctx.tmpInTarget, dctx'.dStage = "copyDirect"
        PROVE  Inv'
    <3>1. srcPtr' = srcEnd' \/ dst'.at = dst'.end
      BY <1>2, <1>4, <1>8, <2>3 DEF StageKeeps
    <3> QED BY <1>8, <2>1, <2>3, <3>1, StopsThere
  <2> QED BY <1>8, <2>2, <2>3 DEF Copies
<1>9. CASE dst.at = NULL
  <2>1. n = 0 /\ u = [d |-> dctx, mem |-> mem, holds |-> TRUE]
    BY <1>9
  <2>2. e = dctx /\ u.mem = mem /\ u.holds = TRUE
    BY <2>1
  <2>3. dst' = dst /\ dst.end = NULL
    <3>1. dst \in [start : Int, at : Int, end : Int, stable : BOOLEAN]
      BY <1>1 DEF TypeOK, RoomOK
    <3>2. dst' = dst
      BY <1>2, <1>9, <3>1
    <3>3. NULL < DstAt
      BY Addresses DEF NULL
    <3> QED BY <1>1, <1>3, <1>9, <3>1, <3>2, <3>3, Addresses DEF TypeOK, RoomOK, NULL
  <2>4. mem' = mem /\ asserts' = asserts
    BY <1>1, <1>2, <2>2 DEF TypeOK
  <2>5. /\ dctx' \in Contexts(dctx'.stored) /\ Kept(dctx', dctx) /\ Copies(n)
        /\ Ended /\ dctx'.dStage \in Decoding \ {"flushOut"}
    BY <1>1, <1>7, <2>2
  <2>6. Settled' /\ Given' = Given
    <3> HIDE DEF n, u, e
    <3>1. UNCHANGED <<dst, mem, asserts>> /\ dctx'.dStage # "storeSuffix"
      BY <2>3, <2>4, <2>5, BlockStages
    <3> QED BY <1>5, <1>6, <2>5, <3>1, QuietStep
  <2>7. Given' = Given + n /\ Pending' = 0 /\ dctx'.frameInfo = dctx.frameInfo
    BY <1>1, <2>1, <2>5, <2>6, GivenType DEF Pending, Kept
  <2> QED BY <1>8, <1>9, <2>3, <2>5, <2>6, <2>7
<1>10. CASE dst.at # NULL
  <2>1. u = Passed(dctx, m, n)
    BY <1>10
  <2>2. Came(m, n)
    <3>1. PICK i \in DOMAIN stream :
            /\ InFrame(i, {"raw"}) /\ stream[i].at <= srcPtr
            /\ srcPtr + dctx.tmpInTarget = stream[i].at + stream[i].size
            /\ Given + dctx.tmpInTarget + 1 = stream[i].from + stream[i].n
      BY <1>1 DEF PlaceInv, InRaw
    <3>2. stream[i].k = "raw" /\ stream[i].n = stream[i].size
      <4>1. Whole(stream[i]) /\ stream[i].k = "raw"
        BY <1>1, <3>1, FieldTypes DEF InFrame, Reads
      <4> QED BY <4>1 DEF Whole
    <3>3. /\ stream[i].at \in Nat /\ stream[i].size \in Nat /\ stream[i].from \in Nat
          /\ Given \in Nat
      BY <1>1, FieldTypes, GivenType
    <3>4. dst.at >= DstAt /\ dst.end <= DstEnd + 1 /\ DstAt \in Nat /\ DstEnd \in Nat
      BY <1>1, <1>10, Addresses, SMTT(30) DEF TypeOK, RoomOK
    <3>5. DOMAIN mem = 0..DstEnd
      BY <1>1 DEF TypeOK
    <3>6. DOMAIN m = 0..DstEnd
      BY <3>5
    <3>7. ASSUME NEW a \in 0..(dst.at - 1) PROVE m[a] = mem[a]
      <4> HIDE DEF n
      <4>1. a \in DOMAIN mem /\ a \notin dst.at..(dst.at + n - 1)
        BY <1>3, <1>4, <1>10, <3>4, <3>5
      <4> QED BY <4>1
    <3>8. ASSUME NEW j \in 0..(n - 1) PROVE m[dst.at + j] = Given + 1 + j
      <4> HIDE DEF n
      <4>1. /\ dst.at + j \in dst.at..(dst.at + n - 1) /\ dst.at + j \in 0..DstEnd
            /\ srcPtr + (dst.at + j) - dst.at = srcPtr + j
        BY <1>3, <1>4, <1>10, <3>4
      <4>2. m[dst.at + j] = ContentAt(srcPtr + (dst.at + j) - dst.at)
        BY <3>5, <4>1
      <4> DEFINE q == srcPtr + j
      <4>3. /\ q \in Int /\ stream[i].at <= q /\ q < stream[i].at + stream[i].size
            /\ stream[i].from + (q - stream[i].at) = Given + 1 + j
        BY <1>3, <1>4, <3>1, <3>2, <3>3
      <4> HIDE DEF q
      <4>4. ContentAt(q) = stream[i].from + (q - stream[i].at)
        BY <1>1, <3>2, <4>3, ContentIs
      <4> QED BY <4>1, <4>2, <4>3, <4>4 DEF q
    <3> HIDE DEF m, n
    <3> QED BY <1>4, <1>10, <3>6, <3>7, <3>8 DEF Came, Holds
  <2>3. dst' = [dst EXCEPT !.at = @ + n] /\ dst'.at = dst.at + n /\ dst'.end = dst.end
    <3> HIDE DEF n
    <3>1. dst \in [start : Int, at : Int, end : Int, stable : BOOLEAN]
      BY <1>1 DEF TypeOK, RoomOK
    <3> QED BY <1>2, <1>10, <3>1
  <2> HIDE DEF m, n
  <2>4. u = Passed(dctx, m, n) /\ e = u.d
    BY <2>1
  <2> HIDE DEF u, e
  <2>5. e \in Contexts(e.stored) /\ e.tmpInTarget = dctx.tmpInTarget /\ e.dStage = "copyDirect"
    BY <1>1, <1>6, <2>2, <2>4, PassedContext
  <2>6. /\ dctx' \in Contexts(dctx'.stored) /\ Kept(dctx', u.d) /\ Copies(n)
        /\ Ended /\ dctx'.dStage \in Decoding \ {"flushOut"} /\ pc' # "idle"
    BY <1>7, <2>4, <2>5
  <2>7. Settled' /\ Given' = Given + n /\ Pending' = 0 /\ dctx'.frameInfo = dctx.frameInfo
    BY <1>1, <1>2, <1>5, <1>6, <2>2, <2>3, <2>4, <2>6, GivesStep
  <2> QED BY <1>8, <1>10, <2>3, <2>6, <2>7
<1> QED BY <1>9, <1>10

-----------------------------------------------------------------------------
(* Compressed blocks                                                         *)

\* A block decodes to its content when the dictionary ends with the window W
\* before it, and not where the block goes.
LEMMA DecodedIs ==
    ASSUME NEW m, DOMAIN m = 0..DstEnd, NEW d, NEW f, NEW out \in Nat,
           d.maxBlockSize \in Nat, out + d.maxBlockSize <= DstEnd + 1,
           f.n \in Nat, f.n <= d.maxBlockSize, NEW g \in Nat, f.from = g + 1,
           NEW W \in Int, W = (IF d.frameInfo.linked THEN Lesser(KB64, g) ELSE 0),
           d.dictSize \in Nat, W <= d.dictSize, NEW end \in Int, end = d.dict + d.dictSize,
           Holds(m, end - W, W, g - W + 1),
           W = 0 \/ end <= out \/ out + d.maxBlockSize <= end - W
    PROVE  /\ DOMAIN Decoded(d, m, f, out) = 0..DstEnd
           /\ \A a \in 0..DstEnd : a < out \/ out + d.maxBlockSize <= a =>
                 Decoded(d, m, f, out)[a] = m[a]
           /\ Holds(Decoded(d, m, f, out), out, f.n, g + 1)
<1> DEFINE dictSize == IF d.dictSize > GB1 THEN KB64 ELSE d.dictSize
           need == IF d.frameInfo.linked THEN Lesser(KB64, f.from - 1) ELSE 0
           written == out..(out + d.maxBlockSize - 1)
           good == /\ dictSize >= need
                   /\ \A i \in 1..need : end - i \notin written /\ m[end - i] = f.from - i
           m2 == [p \in DOMAIN m |-> IF p \notin written THEN m[p]
                                     ELSE IF good /\ p < out + f.n THEN f.from + p - out ELSE Junk]
<1>1. Decoded(d, m, f, out) = m2
  BY DEF Decoded
<1>2. KB64 \in Nat /\ GB1 \in Nat /\ KB64 < GB1 /\ DstEnd \in Nat
  <2>1. KB64 \in Nat /\ GB1 \in Nat /\ GB1 > 2 * KB64
    BY DecoderAssumption
  <2> QED BY <2>1, Addresses
<1>3. need = W /\ W \in Nat /\ W <= KB64
  BY <1>2 DEF Lesser
<1>4. good
  <2>1. dictSize >= need
    BY <1>2, <1>3
  <2>2. ASSUME NEW i \in 1..need PROVE end - i \notin written /\ m[end - i] = f.from - i
    <3>0. i \in Nat /\ 1 <= i /\ i <= W /\ W \in Nat /\ f.from = g + 1 /\ g \in Nat /\ end \in Int
          /\ out \in Nat /\ d.maxBlockSize \in Nat
          /\ (end <= out \/ out + d.maxBlockSize <= end - W)
      BY <1>3
    <3>1. W - i \in 0..(W - 1) /\ (end - W) + (W - i) = end - i
          /\ (g - W + 1) + (W - i) = f.from - i
      BY ONLY <3>0
    <3>2. m[(end - W) + (W - i)] = (g - W + 1) + (W - i)
      BY <3>1 DEF Holds
    <3>3. end - i \notin written
      BY ONLY <3>0
    <3> QED BY <3>1, <3>2, <3>3
  <2> QED BY <2>1, <2>2
<1> HIDE DEF good
<1>5. Holds(m2, out, f.n, g + 1)
  <2> SUFFICES ASSUME NEW j \in 0..(f.n - 1) PROVE m2[out + j] = g + 1 + j
    BY DEF Holds
  <2>1. out + j \in written /\ out + j \in 0..DstEnd /\ out + j < out + f.n
        /\ f.from + (out + j) - out = g + 1 + j
    BY <1>2, SMTT(30)
  <2>2. m2[out + j] = f.from + (out + j) - out
    BY <1>4, <2>1
  <2> QED BY <2>1, <2>2
<1>6. ASSUME NEW a \in 0..DstEnd, a < out \/ out + d.maxBlockSize <= a
      PROVE  m2[a] = m[a]
  <2>1. a \notin written
    BY <1>6
  <2> QED BY <2>1
<1>7. DOMAIN m2 = 0..DstEnd
  OBVIOUS
<1> HIDE DEF m2
<1> QED BY <1>1, <1>5, <1>6, <1>7

\* The next block, when all of one was read and it was fine.
LEMMA AfterBlock ==
    ASSUME stream \in Streams, dctx \in Contexts(dctx.stored), Given \in Nat,
           NEW i \in DOMAIN stream, InFrame(i, {"block"}), stream[i].ok,
           stream[i].from = Given + 1, dctx.frameInfo.blockSum => stream[i + 1].ok,
           stream' = stream, srcPtr' = stream[i].at + (stream[i].size + SumSize),
           Given' + Pending' = Given + stream[i].n, Given' \in Int, Pending' \in Int,
           dctx'.frameInfo = dctx.frameInfo
    PROVE  AtBlock'
<1>1. /\ stream[i].k = "block" /\ Fine(i) /\ stream[i].info = dctx.frameInfo
      /\ ~stream[i].last
  <2>1. Ends(stream[i])
    BY FieldTypes
  <2> QED BY <2>1 DEF InFrame, Reads, Ends
<1>2. /\ i \in Nat /\ stream[i].at \in Nat /\ stream[i].size \in Nat /\ stream[i].n \in Nat
      /\ BFSize \in Nat /\ dctx.frameInfo.blockSum \in BOOLEAN
  <2>1. BFSize \in Nat
    BY DecoderAssumption
  <2>2. dctx.frameInfo.blockSum \in BOOLEAN
    BY ContextTypes
  <2>3. i \in Nat /\ stream[i].at \in Nat /\ stream[i].size \in Nat /\ stream[i].n \in Nat
    BY FieldTypes
  <2> QED BY <2>1, <2>2, <2>3
<1> DEFINE g == stream[i + 1]
<1>3. /\ i + 1 \in DOMAIN stream /\ g.at = stream[i].at + stream[i].size
      /\ Follows(stream[i], g) /\ Fine(i + 1)
  BY <1>1, NextField, FineNext
<1>4. /\ IF dctx.frameInfo.blockSum THEN g.k = "bsum" /\ g.info = stream[i].info
         ELSE NextBlock(stream[i], g)
      /\ g.from = stream[i].from + stream[i].n
  BY <1>1, <1>3 DEF Follows
<1>5. CASE ~dctx.frameInfo.blockSum
  <2>1. InFrame(i + 1, {"head", "end"})' /\ i + 1 \in DOMAIN stream'
    BY <1>1, <1>3, <1>4, <1>5 DEF InFrame, Reads, Fine, NextBlock
  <2>2. stream'[i + 1].from = Given' + Pending' + 1 /\ srcPtr' = stream'[i + 1].at
    BY <1>2, <1>3, <1>4, <1>5 DEF SumSize
  <2> QED BY <2>1, <2>2 DEF AtBlock
<1>6. CASE dctx.frameInfo.blockSum
  <2> DEFINE h == stream[(i + 1) + 1]
  <2>1. g.ok /\ g.k = "bsum" /\ g.info = dctx.frameInfo
    BY <1>1, <1>4, <1>6
  <2>2. ~g.last /\ g.size = BFSize
    <3>1. Ends(g) /\ Whole(g)
      BY <1>3, FieldTypes
    <3> QED BY <2>1, <3>1 DEF Ends, Whole
  <2>3. /\ (i + 1) + 1 \in DOMAIN stream /\ h.at = g.at + g.size
        /\ Follows(g, h) /\ Fine((i + 1) + 1)
    <3> DEFINE j == i + 1
    <3>1. j \in DOMAIN stream /\ Fine(j) /\ stream[j].ok /\ ~stream[j].last
      BY <1>3, <2>1, <2>2
    <3> HIDE DEF j
    <3>2. /\ j + 1 \in DOMAIN stream /\ stream[j + 1].at = stream[j].at + stream[j].size
          /\ Follows(stream[j], stream[j + 1]) /\ Fine(j + 1)
      BY <3>1, NextField, FineNext
    <3> QED BY <3>2 DEF j
  <2>4. NextBlock(g, h) /\ h.from = g.from
    BY <2>1, <2>2, <2>3 DEF Follows
  <2>5. InFrame((i + 1) + 1, {"head", "end"})' /\ (i + 1) + 1 \in DOMAIN stream'
    BY <2>1, <2>3, <2>4 DEF InFrame, Reads, Fine, NextBlock
  <2>6. h.from = Given' + Pending' + 1 /\ srcPtr' = h.at
    BY <1>2, <1>3, <1>4, <1>6, <2>2, <2>3, <2>4 DEF SumSize
  <2> QED BY <2>5, <2>6 DEF AtBlock
<1> QED BY <1>2, <1>5, <1>6

WithOut(c, size, out) == [c EXCEPT !.dictSize = size, !.tmpOut = out]

\* tmpOut is made behind the dictionary, or behind room for the window.
LEMMA TmpOutIs ==
    ASSUME Inv, pc = "run", dctx.dStage \in {"getCBlock", "storeCBlock"},
           NEW d, d \in Contexts(d.stored), Kept(d, dctx), NEW t, t = MakeTmpOut(d)
    PROVE  /\ t.d = WithOut(d, t.d.dictSize, t.d.tmpOut) /\ Alike(t.mem, mem)
           /\ t.d.dict = dctx.dict /\ t.d.dictSize \in Nat /\ t.d.tmpOut \in Nat
           /\ ~dctx.frameInfo.linked =>
                 t.d.dict = NULL /\ t.d.dictSize = 0 /\ t.d.tmpOut = 0
           /\ dctx.frameInfo.linked =>
                 /\ t.d.tmpOut <= 2 * KB64 /\ Window <= t.d.dictSize /\ Window <= t.d.tmpOut
                 /\ Holds(t.mem, t.d.dict + t.d.dictSize - Window, Window, Given - Window + 1)
                 /\ \/ t.d.dict = NULL /\ t.d.dictSize = 0
                    \/ t.d.dict = 0 /\ t.d.dictSize = t.d.tmpOut
                    \/ DstAt <= t.d.dict /\ t.d.dict + t.d.dictSize <= Stays
<1>1. /\ TypeOK /\ BufferInv /\ DictInv /\ ~failed /\ dctx \in Contexts(dctx.stored)
      /\ dctx.dStage \in Decoding /\ DOMAIN mem = 0..DstEnd
  BY BlockStages DEF Inv, SizeInv, TypeOK, CallInv
<1>2. /\ d.frameInfo = dctx.frameInfo /\ d.dict = dctx.dict /\ d.dictSize = dctx.dictSize
      /\ d.tmpOut = dctx.tmpOut
  BY DEF Kept
<1>3. KB64 \in Nat /\ TmpEnd \in Nat /\ KB64 <= TmpEnd
  <2>1. KB64 \in Nat /\ MaxBlock \in Nat
    BY BlockSizes
  <2> QED BY <2>1, Addresses
<1>4. dctx.dict \in Nat \cup {NULL} /\ dctx.dictSize \in Nat /\ dctx.tmpOut \in Nat
  BY <1>1, ContextTypes
<1>5. CASE ~dctx.frameInfo.linked
  <2>1. t = [d |-> d, mem |-> mem]
    BY <1>2, <1>5 DEF MakeTmpOut
  <2>2. t.d = d /\ t.mem = mem
    BY <2>1
  <2>3. d = WithOut(d, d.dictSize, d.tmpOut)
    BY DEF WithOut, Contexts
  <2>4. dctx.dict = NULL /\ dctx.dictSize = 0 /\ dctx.tmpOut = 0
    <3>1. dctx.tmpOut <= 0
      BY <1>1, <1>5 DEF BufferInv
    <3> QED BY <1>1, <1>4, <1>5, <3>1 DEF DictInv
  <2> QED BY <1>1, <1>2, <1>5, <2>2, <2>3, <2>4 DEF Alike
<1>6. CASE dctx.frameInfo.linked
  <2> DEFINE W == Window  g == Given  size == dctx.dictSize  dict == dctx.dict
  <2>1. /\ W \in Int /\ g \in Nat /\ W <= KB64 /\ W <= size
        /\ Holds(mem, dict + size - W, W, g - W + 1)
        /\ \/ size = 0
           \/ dict = 0 /\ size <= dctx.maxBufferSize
           \/ DstAt <= dict /\ dict + size <= Stays
    <3>1. Pending = 0
      BY DEF Pending
    <3> QED BY <1>1, <1>3, <1>6, <3>1, DictIs
  <2>2. \/ dict = NULL /\ size = 0
        \/ dict = 0
        \/ DstAt <= dict /\ dict + size <= Stays
    BY <1>1 DEF DictInv
  <2>3. CASE dict = 0 /\ DictTooLong(d)
    <3>1. /\ t.d = [[d EXCEPT !.dictSize = KB64] EXCEPT !.tmpOut = KB64]
          /\ t.mem = Copied(mem, 0, size - KB64, KB64)
      BY <1>2, <1>6, <2>3 DEF MakeTmpOut, Contexts
    <3>2. t.d = WithOut(d, KB64, KB64) /\ t.d.dict = 0 /\ t.d.dictSize = KB64 /\ t.d.tmpOut = KB64
      BY <1>2, <2>3, <3>1 DEF WithOut, Contexts
    <3>3. Alike(t.mem, mem)
      <4>1. 0 + KB64 <= TmpEnd /\ 0 \in Int /\ KB64 \in Int /\ size - KB64 \in Int
        BY <1>3, <1>4
      <4> QED BY <1>1, <3>1, <4>1, MovedIsLow
    <3>4. Holds(t.mem, 0 + KB64 - W, W, g - W + 1)
      <4> DEFINE from == size - KB64  b == dict + size - W  f == g - W + 1  c == 0 + KB64 - W
      <4>1. /\ from \in Int /\ b \in Int /\ f \in Int /\ c \in Int /\ b + W = from + KB64
            /\ c + W = KB64 /\ W <= W /\ f + W = f + W /\ W \in Int
        BY <1>3, <1>4, <2>1, <2>3
      <4>2. Holds(mem, b, W, f)
        BY <2>1
      <4> HIDE DEF from, b, f, c
      <4>3. Holds(Copied(mem, 0, from, KB64), c, W, f)
        BY <1>1, <1>3, <2>1, <4>1, <4>2, MovedToStart
      <4> QED BY <3>1, <4>3 DEF from, f, c
    <3> QED BY <1>2, <1>3, <1>6, <2>1, <2>3, <3>2, <3>3, <3>4
  <2>4. CASE dict = 0 /\ ~DictTooLong(d)
    <3>1. t.d = [d EXCEPT !.tmpOut = size] /\ t.mem = mem
      BY <1>2, <1>6, <2>4 DEF MakeTmpOut
    <3> HIDE DEF size
    <3>a. /\ [d EXCEPT !.tmpOut = size] = WithOut(d, d.dictSize, size)
          /\ t.d.dict = d.dict /\ t.d.dictSize = d.dictSize /\ t.d.tmpOut = size
      BY <3>1 DEF WithOut, Contexts
    <3> USE DEF size
    <3>2. t.d = WithOut(d, size, size) /\ t.d.dict = 0 /\ t.d.dictSize = size /\ t.d.tmpOut = size
      BY <1>2, <2>4, <3>1, <3>a
    <3>3. size <= 2 * KB64
      BY <1>2, <1>3, <1>4, <2>4 DEF DictTooLong
    <3> QED BY <1>1, <1>2, <1>4, <1>6, <2>1, <2>4, <3>1, <3>2, <3>3 DEF Alike
  <2>5. CASE dict # 0
    <3> DEFINE out == Lesser(size, KB64)
    <3>1. t.d = [d EXCEPT !.tmpOut = out] /\ t.mem = mem
      BY <1>2, <1>6, <2>5 DEF MakeTmpOut
    <3>2. out \in Nat /\ out <= KB64 /\ W <= out
      BY <1>3, <1>4, <2>1 DEF Lesser
    <3> HIDE DEF out
    <3>a. /\ [d EXCEPT !.tmpOut = out] = WithOut(d, d.dictSize, out)
          /\ t.d.dict = d.dict /\ t.d.dictSize = d.dictSize /\ t.d.tmpOut = out
      BY <3>1 DEF WithOut, Contexts
    <3>3. t.d = WithOut(d, size, out) /\ t.d.dict = dict /\ t.d.dictSize = size /\ t.d.tmpOut = out
      BY <1>2, <3>1, <3>a
    <3> QED BY <1>1, <1>2, <1>3, <1>4, <1>6, <2>1, <2>2, <2>5, <3>1, <3>2, <3>3, SMTT(30) DEF Alike
  <2> QED BY <2>3, <2>4, <2>5
<1> QED BY <1>5, <1>6

\* The context after a block of n bytes went to tmpOut.
LEMMA OutContext ==
    ASSUME dctx \in Contexts(dctx.stored), NEW d, d \in Contexts(d.stored), Kept(d, dctx),
           NEW size \in Nat, NEW out \in Nat, NEW e, e = WithOut(d, size, out), NEW n \in Nat,
           dctx' = [Regenerated(e, n) EXCEPT !.tmpOutSize = n, !.tmpOutStart = 0,
                                             !.dStage = "flushOut"]
    PROVE  /\ dctx' \in Contexts(dctx'.stored) /\ dctx'.dStage = "flushOut"
           /\ dctx'.frameInfo = dctx.frameInfo /\ dctx'.maxBlockSize = dctx.maxBlockSize
           /\ dctx'.maxBufferSize = dctx.maxBufferSize
           /\ dctx'.tmpInCapacity = dctx.tmpInCapacity
           /\ dctx'.dict = dctx.dict /\ dctx'.dictSize = size
           /\ dctx'.tmpOut = out /\ dctx'.tmpOutSize = n /\ dctx'.tmpOutStart = 0
           /\ Counted(dctx', n)
<1> DEFINE hashed == IF e.frameInfo.contentSum THEN e.hashed + n ELSE e.hashed
           left == IF e.frameInfo.contentSize # 0 THEN e.frameRemainingSize - n
                   ELSE e.frameRemainingSize
           c == [e EXCEPT !.hashed = hashed, !.frameRemainingSize = left]
<1>1. /\ e \in Contexts(e.stored) /\ e.dict = d.dict /\ e.dictSize = size /\ e.tmpOut = out
      /\ e.frameInfo = d.frameInfo /\ e.maxBlockSize = d.maxBlockSize
      /\ e.maxBufferSize = d.maxBufferSize /\ e.tmpInCapacity = d.tmpInCapacity
      /\ e.hashed = d.hashed /\ e.frameRemainingSize = d.frameRemainingSize
  BY DEF WithOut, Contexts
<1>2. Regenerated(e, n) = c
  BY <1>1 DEF Regenerated, Contexts
<1>3. d.hashed \in Nat /\ d.frameRemainingSize \in Int /\ dctx.frameInfo.contentSize \in Nat
  BY ContextTypes
<1>4. /\ d.frameInfo = dctx.frameInfo /\ d.hashed = dctx.hashed
      /\ d.frameRemainingSize = dctx.frameRemainingSize /\ d.maxBlockSize = dctx.maxBlockSize
      /\ d.maxBufferSize = dctx.maxBufferSize /\ d.tmpInCapacity = dctx.tmpInCapacity
      /\ d.dict = dctx.dict
  BY DEF Kept
<1>5. /\ hashed \in Nat /\ left \in Int
      /\ dctx.frameInfo.contentSum => hashed = dctx.hashed + n
      /\ left = IF dctx.frameInfo.contentSize # 0
                THEN dctx.frameRemainingSize - n ELSE dctx.frameRemainingSize
  BY <1>1, <1>3, <1>4
<1> HIDE DEF hashed, left
<1>6. /\ c \in Contexts(c.stored) /\ c.dict = e.dict /\ c.dictSize = e.dictSize
      /\ c.tmpOut = e.tmpOut /\ c.frameInfo = e.frameInfo /\ c.maxBlockSize = e.maxBlockSize
      /\ c.maxBufferSize = e.maxBufferSize /\ c.tmpInCapacity = e.tmpInCapacity
      /\ c.hashed = hashed /\ c.frameRemainingSize = left
  BY <1>1, <1>5, ZenonT(30) DEF Contexts
<1> HIDE DEF c
<1>7. dctx' = [c EXCEPT !.tmpOutSize = n, !.tmpOutStart = 0, !.dStage = "flushOut"]
  BY <1>2
<1>8. "flushOut" \in Stages
  BY BlockStages
<1>9. /\ dctx' \in Contexts(dctx'.stored) /\ dctx'.dStage = "flushOut"
      /\ dctx'.dict = c.dict /\ dctx'.dictSize = c.dictSize /\ dctx'.tmpOut = c.tmpOut
      /\ dctx'.frameInfo = c.frameInfo /\ dctx'.maxBlockSize = c.maxBlockSize
      /\ dctx'.maxBufferSize = c.maxBufferSize /\ dctx'.tmpInCapacity = c.tmpInCapacity
      /\ dctx'.hashed = c.hashed /\ dctx'.frameRemainingSize = c.frameRemainingSize
      /\ dctx'.tmpOutSize = n /\ dctx'.tmpOutStart = 0
  <2>1. c \in Contexts(c.stored)
    BY <1>6
  <2> QED BY ONLY <1>7, <1>8, <2>1, n \in Nat DEF Contexts
<1> QED BY <1>1, <1>4, <1>5, <1>6, <1>9 DEF Counted

\* A block that has no room in dst goes to tmpOut: nothing is given yet.
LEMMA ToTmpOut ==
    ASSUME Inv, pc = "run", Went, StageKeeps, Advances, UNCHANGED <<dst, asserts>>,
           dctx.dStage \in {"getCBlock", "storeCBlock"},
           NEW d, d \in Contexts(d.stored), Kept(d, dctx), NEW t, t = MakeTmpOut(d),
           NEW f, f.n \in Nat, f.n <= dctx.maxBlockSize, f.from = Given + 1,
           dctx' = [Regenerated(t.d, f.n) EXCEPT !.tmpOutSize = f.n, !.tmpOutStart = 0,
                                                 !.dStage = "flushOut"],
           mem' = Decoded(t.d, t.mem, f, t.d.tmpOut)
    PROVE  /\ Settled' /\ Given' = Given /\ Pending' = f.n
           /\ dctx'.frameInfo = dctx.frameInfo /\ dctx'.dStage = "flushOut"
<1> DEFINE e == t.d  out == t.d.tmpOut  size == t.d.dictSize  n == f.n  g == Given
           W == IF dctx.frameInfo.linked THEN Lesser(KB64, g) ELSE 0
           end == e.dict + e.dictSize
<1>1. /\ TypeOK /\ CallInv /\ BufferInv /\ DictInv /\ ~failed /\ dctx \in Contexts(dctx.stored)
      /\ dctx.dStage \in Decoding /\ DOMAIN mem = 0..DstEnd /\ RemainingInv /\ CountInv
      /\ OutputIsContent
  BY BlockStages DEF Inv, SizeInv, TypeOK, CallInv, PastInv, ReadInv
<1>2. /\ e = WithOut(d, size, out) /\ Alike(t.mem, mem)
      /\ e.dict = dctx.dict /\ size \in Nat /\ out \in Nat
      /\ ~dctx.frameInfo.linked => e.dict = NULL /\ size = 0 /\ out = 0
      /\ dctx.frameInfo.linked =>
            /\ out <= 2 * KB64 /\ Window <= size /\ Window <= out
            /\ Holds(t.mem, e.dict + size - Window, Window, g - Window + 1)
            /\ \/ e.dict = NULL /\ size = 0
               \/ e.dict = 0 /\ size = out
               \/ DstAt <= e.dict /\ e.dict + size <= Stays
  BY TmpOutIs
<1>3. /\ KB64 \in Nat /\ g \in Nat /\ Pending = 0 /\ Window = Lesser(g, KB64)
      /\ dctx.dict \in Nat \cup {NULL} /\ dctx.maxBlockSize \in Nat
  <2>1. KB64 \in Nat /\ g \in Nat /\ Pending = 0
    BY <1>1, BlockSizes, GivenType DEF Pending
  <2>2. dctx.dict \in Nat \cup {NULL} /\ dctx.maxBlockSize \in Nat
    BY <1>1, ContextTypes
  <2> QED BY <2>1, <2>2 DEF Window
<1>4. W \in Int /\ (dctx.frameInfo.linked => W = Window) /\ (~dctx.frameInfo.linked => W = 0)
      /\ W <= KB64 /\ (W = g \/ W = KB64 \/ ~dctx.frameInfo.linked)
  BY <1>3 DEF Lesser
<1>5. out + dctx.maxBlockSize <= TmpEnd /\ TmpEnd \in Nat /\ DstAt = TmpEnd + 1
      /\ DstEnd \in Nat /\ TmpEnd < DstEnd
  <2>1. dctx.maxBlockSize = blockSizes[dctx.frameInfo.blockSizeID]
        /\ dctx.frameInfo.blockSizeID \in DOMAIN blockSizes
    BY <1>1, BlockStages DEF BufferInv
  <2>2. dctx.maxBlockSize <= MaxBlock /\ MaxBlock \in Nat
    BY <2>1, BlockSizes
  <2>3. out <= 2 * KB64
    BY <1>2, <1>3
  <2> QED BY <1>2, <1>3, <2>2, <2>3, Addresses
<1>6. /\ dctx' \in Contexts(dctx'.stored) /\ dctx'.dStage = "flushOut"
      /\ dctx'.frameInfo = dctx.frameInfo /\ dctx'.maxBlockSize = dctx.maxBlockSize
      /\ dctx'.maxBufferSize = dctx.maxBufferSize
      /\ dctx'.tmpInCapacity = dctx.tmpInCapacity
      /\ dctx'.dict = dctx.dict /\ dctx'.dictSize = size
      /\ dctx'.tmpOut = out /\ dctx'.tmpOutSize = n /\ dctx'.tmpOutStart = 0
      /\ Counted(dctx', n)
  <2> HIDE DEF e, out, size, n
  <2>1. dctx' = [Regenerated(e, n) EXCEPT !.tmpOutSize = n, !.tmpOutStart = 0,
                                          !.dStage = "flushOut"]
    BY DEF e, n
  <2>2. n \in Nat /\ size \in Nat /\ out \in Nat /\ e = WithOut(d, size, out)
    BY <1>2 DEF n
  <2>3. dctx \in Contexts(dctx.stored)
    BY <1>1
  <2> QED BY ONLY <2>1, <2>2, <2>3, d \in Contexts(d.stored), Kept(d, dctx), OutContext
<1>7. end \in Int /\ end = e.dict + size /\ e.dict \in Int /\ Window \in Int
  <2>1. e.dict \in Int /\ Window \in Int
    BY <1>2, <1>3 DEF NULL, Lesser
  <2>2. e.dictSize = size
    OBVIOUS
  <2> QED BY <1>2, <2>1, <2>2
<1>8. e.frameInfo = dctx.frameInfo /\ e.maxBlockSize = dctx.maxBlockSize /\ e.dictSize = size
  BY <1>2 DEF WithOut, Contexts, Kept
<1>9. Holds(t.mem, end - W, W, g - W + 1)
  <2>1. CASE dctx.frameInfo.linked
    <3>1. Holds(t.mem, e.dict + size - Window, Window, g - Window + 1) /\ W = Window
      BY <1>2, <1>4, <2>1
    <3>2. e.dict + size - Window = end - Window
      BY <1>2, <1>7
    <3> QED BY <3>1, <3>2
  <2>2. CASE ~dctx.frameInfo.linked
    BY <1>4, <2>2 DEF Holds
  <2> QED BY <2>1, <2>2
<1>10. W <= size /\ (W = 0 \/ end <= out \/ out + dctx.maxBlockSize <= end - W)
  <2>1. CASE ~dctx.frameInfo.linked
    BY <1>2, <1>4, <2>1
  <2>2. CASE dctx.frameInfo.linked
    <3>1. W <= size
      BY <1>2, <1>4, <2>2
    <3>2. CASE size = 0
      BY <1>3, <2>2, <3>2, <3>1, <1>4, DecoderAssumption DEF Lesser
    <3>3. CASE e.dict = 0 /\ size = out
      BY <1>2, <1>7, <3>1, <3>3
    <3>4. CASE DstAt <= e.dict
      <4> HIDE DEF W, end, size, out, e
      <4>1. end = e.dict + size /\ size \in Nat /\ e.dict \in Int /\ W \in Int /\ out \in Nat
        BY <1>2, <1>4, <1>7
      <4> QED BY <1>3, <1>5, <3>1, <3>4, <4>1
    <3> QED BY <1>2, <2>2, <3>1, <3>2, <3>3, <3>4
  <2> QED BY <2>1, <2>2
<1>11. /\ DOMAIN mem' = 0..DstEnd
       /\ \A a \in 0..DstEnd : a < out \/ out + dctx.maxBlockSize <= a => mem'[a] = t.mem[a]
       /\ Holds(mem', out, n, g + 1)
  <2> DEFINE m == t.mem
  <2>1. /\ DOMAIN m = 0..DstEnd /\ out \in Nat /\ e.maxBlockSize \in Nat
        /\ out + e.maxBlockSize <= DstEnd + 1 /\ f.n <= e.maxBlockSize
        /\ W = (IF e.frameInfo.linked THEN Lesser(KB64, g) ELSE 0)
        /\ e.dictSize \in Nat /\ W <= e.dictSize /\ end = e.dict + e.dictSize
        /\ (W = 0 \/ end <= out \/ out + e.maxBlockSize <= end - W)
        /\ mem' = Decoded(e, m, f, out)
    BY <1>2, <1>3, <1>5, <1>8, <1>10 DEF Alike
  <2> HIDE DEF e, out, size, W, end, m, g
  <2>2. g \in Nat /\ f.from = g + 1
    BY <1>3 DEF g
  <2>3. Holds(m, end - W, W, g - W + 1)
    BY <1>9 DEF m
  <2>4. /\ DOMAIN Decoded(e, m, f, out) = 0..DstEnd
        /\ \A a \in 0..DstEnd : a < out \/ out + e.maxBlockSize <= a =>
                Decoded(e, m, f, out)[a] = m[a]
        /\ Holds(Decoded(e, m, f, out), out, f.n, g + 1)
    BY <1>4, <1>7, <2>1, <2>2, <2>3, DecodedIs
  <2> QED BY <1>8, <2>1, <2>4 DEF m, n
<1> HIDE DEF e, out, size, n, W, end
<1>12. n \in Nat /\ n <= dctx.maxBlockSize
  BY DEF n
<1>13. /\ Given' = g /\ Pending' = n /\ dst' = dst
  <2>1. Given' = g
    BY DEF StageKeeps, Given
  <2>2. Pending' = n
    BY <1>6, <1>12 DEF Pending
  <2> QED BY <2>1, <2>2
<1>14. TypeOK' /\ CallInv' /\ pc' = "run" /\ ~failed'
  <2>1. Ended /\ pc' = "run" /\ RoomOK'
    BY <1>1 DEF Ended, Went, TypeOK, RoomOK
  <2>2. /\ ~failed /\ pc' \in {"idle", "run", "preserve"}
        /\ ret' \in [error : Errors \cup {"none"}, hint : Nat]
        /\ failed' <=> pc' = "idle"
        /\ pc' # "idle" => /\ srcStart' <= srcPtr' /\ srcPtr' <= srcEnd' /\ ~failed'
                           /\ srcEnd' <= Total' + 1
        /\ srcPtr' <= Total' + 1
        /\ stream' \in Streams /\ srcPtr' \in Nat /\ srcStart' \in Nat /\ srcEnd' \in Nat
        /\ arena' \in DstAt..(DstEnd + 1) /\ sent' \in Nat
    BY <1>1, <2>1, EndedTypes
  <2>3. TypeOK'
    BY <1>1, <1>6, <1>11, <2>1, <2>2 DEF TypeOK
  <2>4. CallInv'
    BY <1>1, <2>1, <2>2 DEF CallInv, StageKeeps
  <2> QED BY <2>1, <2>2, <2>3, <2>4
<1>15. BufferInv'
  <2>1. /\ dctx'.dStage \in Decoding /\ bufferNeeded' = bufferNeeded
    BY <1>6, BlockStages DEF bufferNeeded
  <2>2. dctx'.tmpOut <= (IF dctx'.frameInfo.linked THEN 2 * KB64 ELSE 0)
    BY <1>2, <1>6
  <2>3. dctx'.tmpOutSize <= dctx'.maxBlockSize /\ dctx'.tmpOutStart <= dctx'.tmpOutSize
    BY <1>6, <1>12
  <2>4. dctx.dStage \notin Before
    BY <1>1, BlockStages
  <2> QED BY <1>1, <1>6, <2>1, <2>2, <2>3, <2>4 DEF BufferInv
<1>16. DictInv'
  <2>1. dctx'.dStage \notin Before \cup {"init"}
    BY <1>6, BlockStages
  <2>2. CASE ~dctx.frameInfo.linked
    BY <1>2, <1>6, <2>1, <2>2 DEF DictInv
  <2>3. CASE dctx.frameInfo.linked
    <3>1. Stays' = Stays
      BY <1>14 DEF Stays, StageKeeps
    <3>2. out <= dctx.maxBufferSize
      <4>1. dctx.maxBlockSize + 2 * KB64 <= dctx.maxBufferSize
        BY <1>1, <2>3 DEF BufferInv, bufferNeeded
      <4>2. dctx.maxBufferSize \in Nat
        BY <1>1, ContextTypes
      <4> QED BY <1>2, <1>3, <2>3, <4>1, <4>2
    <3>3. dctx.dict = e.dict
      BY <1>2
    <3>4. CASE dctx.dict = NULL /\ size = 0
      BY <1>6, <2>1, <2>3, <3>4 DEF DictInv, NULL
    <3>5. CASE dctx.dict = 0 /\ size = out
      BY <1>2, <1>6, <2>1, <2>3, <3>2, <3>5 DEF DictInv
    <3>6. CASE DstAt <= dctx.dict /\ dctx.dict + size <= Stays
      <4>1. dctx.dict # 0
        BY <1>5, <3>6
      <4> QED BY <1>6, <2>1, <2>3, <3>1, <3>6, <4>1 DEF DictInv
    <3> QED BY <1>2, <2>3, <3>3, <3>4, <3>5, <3>6
  <2> QED BY <2>2, <2>3
<1>17. RemainingInv'
  <2>1. dctx.dStage \notin Before /\ dctx'.dStage \notin Before
    BY <1>1, <1>6, BlockStages
  <2> QED BY <1>1, <1>6, <2>1 DEF RemainingInv, Counted, StageKeeps
<1>18. OutputIsContent'
  <2> SUFFICES ASSUME NEW p \in dst.start..(dst.at - 1)
               PROVE  mem'[p] = sent + 1 + p - dst.start
    BY <1>13, <1>14 DEF OutputIsContent, StageKeeps
  <2>1. p \in DstAt..DstEnd
    <3>1. \/ dst.start = NULL /\ dst.at = NULL
          \/ DstAt <= dst.start /\ dst.at <= dst.end /\ dst.end <= DstEnd + 1
      BY <1>1 DEF TypeOK, RoomOK
    <3>2. dst.at \in Int /\ dst.start \in Int /\ dst.end \in Int
      BY <1>1, GivenType
    <3> QED BY <1>5, <3>1, <3>2 DEF NULL
  <2>2. mem'[p] = t.mem[p]
    <3>1. p \in 0..DstEnd /\ out + dctx.maxBlockSize <= p
      BY <1>2, <1>3, <1>5, <2>1
    <3> QED BY <1>11, <3>1
  <2>3. t.mem[p] = mem[p]
    BY <1>2, <2>1 DEF Alike
  <2>4. mem[p] = sent + 1 + p - dst.start
    BY <1>1 DEF OutputIsContent
  <2> QED BY <2>2, <2>3, <2>4
<1>19. OutInv'
  <2>1. Holds(mem', out, n, g - 0 + 1)
    BY <1>3, <1>11
  <2>2. dctx.frameInfo.linked => out >= g - 0 \/ out >= KB64 - n
    BY <1>2, <1>3, <1>4, <1>12
  <2> QED BY <1>3, <1>6, <1>13, <2>1, <2>2 DEF OutInv
<1>20. WindowInv'
  <2> SUFFICES ASSUME dctx.frameInfo.linked
               PROVE  /\ Window' <= size
                      /\ Holds(mem', end - Window', Window', g - Window' + 1)
    <3>1. dctx.frameInfo.linked => /\ Window' <= size
                                   /\ Holds(mem', end - Window', Window', g - Window' + 1)
      OBVIOUS
    <3>2. Window' \in Int
      BY <1>3, <1>12, <1>13 DEF Window, Lesser
    <3>3. dctx'.dict + dctx'.dictSize - Window' = end - Window'
      BY <1>2, <1>6, <1>7, <3>2
    <3> QED BY <1>6, <1>13, <3>1, <3>3 DEF WindowInv
  <2> DEFINE V == Window'
  <2>1. V = Lesser(g, KB64 - n)
    BY <1>13 DEF Window
  <2>2. V \in Int /\ V <= W /\ W \in Int /\ W <= size
    BY <1>3, <1>4, <1>10, <1>12, <2>1 DEF Lesser, W
  <2> HIDE DEF V
  <2>3. V <= size
    BY <1>2, <2>2
  <2>4. Holds(mem', end - W, W, g - W + 1)
    <3>1. CASE W <= 0
      BY <1>4, <3>1 DEF Holds
    <3>2. CASE W > 0
      <4>1. \A a \in (end - W)..((end - W) + W - 1) :
               a \in 0..DstEnd /\ (a < out \/ out + dctx.maxBlockSize <= a)
        <5>1. 0 <= end - W /\ end <= DstEnd + 1
          <6>1. size > 0
            BY <1>2, <2>2, <3>2
          <6>2. CASE e.dict = 0 /\ size = out
            BY <1>2, <1>3, <1>5, <1>7, <2>2, <6>2
          <6>3. CASE DstAt <= e.dict /\ e.dict + size <= Stays
            <7>1. Stays <= DstEnd + 1 /\ Stays \in Int
              <8>1. arena \in DstAt..(DstEnd + 1)
                BY <1>1 DEF TypeOK
              <8>2. dst.at # NULL => dst.at <= dst.end /\ dst.end <= DstEnd + 1
                BY <1>1 DEF TypeOK, RoomOK
              <8>3. dst.at \in Int /\ dst.end \in Int
                BY <1>1, GivenType
              <8> QED BY <1>5, <8>1, <8>2, <8>3 DEF Stays
            <7>2. end = e.dict + size /\ size \in Nat /\ e.dict \in Int
              BY <1>2, <1>7
            <7> QED BY <1>5, <2>2, <6>3, <7>1, <7>2
          <6> QED BY <1>2, <6>1, <6>2, <6>3
        <5> QED BY <1>2, <1>3, <1>4, <1>5, <1>7, <1>10, <3>2, <5>1
      <4>2. \A a \in (end - W)..((end - W) + W - 1) : mem'[a] = t.mem[a]
        BY <1>11, <4>1
      <4>3. end - W \in Int /\ g - W + 1 \in Int /\ W \in Int
        BY <1>3, <1>4, <1>7
      <4> DEFINE at == end - W  first == g - W + 1  m == t.mem
      <4>4. at \in Int /\ first \in Int /\ \A a \in at..(at + W - 1) : mem'[a] = m[a]
        BY <4>2, <4>3
      <4>5. Holds(m, at, W, first)
        BY <1>9
      <4> HIDE DEF at, first, m
      <4>6. Holds(mem', at, W, first)
        BY ONLY <4>3, <4>4, <4>5, HoldsSame
      <4> QED BY <4>6 DEF at, first
    <3> QED BY <1>4, <3>1, <3>2
  <2>5. Holds(mem', end - V, V, g - V + 1)
    <3> DEFINE a == end - W  b == g - W + 1  c == end - V  h == g - V + 1
    <3>1. a \in Int /\ b \in Int /\ c \in Int /\ h \in Int /\ a <= c /\ c + V <= a + W
          /\ h - c = b - a
      BY <1>3, <1>7, <2>2
    <3>2. Holds(mem', a, W, b)
      BY <2>4
    <3> HIDE DEF a, b, c, h
    <3>3. Holds(mem', c, V, h)
      BY ONLY <2>2, <3>1, <3>2, HoldsIn
    <3> QED BY <3>3 DEF c, h
  <2> QED BY <2>3, <2>5 DEF V
<1>21. CountInv'
  <2>1. dctx.dStage \notin Before /\ dctx'.dStage \notin Before
    BY <1>1, <1>6, BlockStages
  <2>2. /\ dctx.frameInfo.contentSum => dctx.hashed = g + Pending
        /\ dctx.frameInfo.contentSize # 0 =>
              dctx.frameRemainingSize = dctx.frameInfo.contentSize - (g + Pending)
    BY <1>1, <2>1 DEF CountInv
  <2>3. dctx.frameInfo.contentSize \in Nat
    BY <1>1, ContextTypes
  <2>4. /\ dctx'.frameInfo.contentSum => dctx'.hashed = Given' + Pending'
        /\ dctx'.frameInfo.contentSize # 0 =>
              dctx'.frameRemainingSize = dctx'.frameInfo.contentSize - (Given' + Pending')
    BY <1>3, <1>6, <1>12, <1>13, <2>2, <2>3 DEF Counted
  <2>5. dctx'.dStage \notin (Before \cup {"init"}) /\ dctx'.dStage # "getFrameHeader"
    BY <1>6, <2>1, BlockStages DEF Before
  <2> QED BY <1>6, <2>4, <2>5 DEF CountInv
<1> QED BY <1>6, <1>13, <1>14, <1>15, <1>16, <1>17, <1>18, <1>19, <1>20, <1>21 DEF Settled, n, g

\* What is known of a block that is at hand, with its checksum.
LEMMA BlockRead ==
    ASSUME Inv, dctx.dStage \in {"getCBlock", "storeCBlock"}, stream \in Streams, ~failed,
           dctx \in Contexts(dctx.stored), NEW i \in DOMAIN stream, InFrame(i, {"block"}),
           dctx.tmpInTarget = stream[i].size + SumSize,
           NEW buf, \A j \in 0..(dctx.tmpInTarget - 1) : buf[j] = stream[i].at + j,
           NEW size, size = dctx.tmpInTarget - SumSize
    PROVE  /\ size = stream[i].size /\ Field(buf, 0, size) = stream[i] /\ stream[i].k = "block"
           /\ dctx.frameInfo.blockSum =>
                 i + 1 \in DOMAIN stream /\ (GoodSum(buf, size) <=> stream[i + 1].ok)
           /\ stream[i].ok => stream[i].n <= dctx.maxBlockSize
           /\ stream[i].n \in Nat /\ size \in Nat /\ SumSize \in Nat
<1>1. /\ stream[i].k = "block" /\ Fine(i) /\ stream[i].info = dctx.frameInfo
      /\ ~stream[i].last /\ stream[i].size > 0
  <2>1. Ends(stream[i]) /\ Whole(stream[i])
    BY FieldTypes
  <2> QED BY <2>1 DEF InFrame, Reads, Ends, Whole
<1>2. /\ i \in Nat /\ stream[i].at \in Nat /\ stream[i].size \in Nat /\ stream[i].n \in Nat
      /\ BFSize \in Nat \ {0} /\ SumSize \in Nat /\ SumSize <= BFSize
  <2>1. BFSize \in Nat \ {0}
    BY DecoderAssumption
  <2>2. i \in Nat /\ stream[i].at \in Nat /\ stream[i].size \in Nat /\ stream[i].n \in Nat
    BY FieldTypes
  <2> QED BY <2>1, <2>2 DEF SumSize
<1>3. size = stream[i].size /\ size \in Nat \ {0}
  BY <1>1, <1>2
<1>4. Field(buf, 0, size) = stream[i]
  <2>1. \A j \in 0..(size - 1) : buf[0 + j] = stream[i].at + j
    <3> SUFFICES ASSUME NEW j \in 0..(size - 1) PROVE buf[0 + j] = stream[i].at + j
      OBVIOUS
    <3>1. j \in 0..(dctx.tmpInTarget - 1) /\ 0 + j = j
      BY <1>2, <1>3
    <3> QED BY <3>1
  <2>2. 0 \in Int /\ size <= stream[i].size
    BY <1>2, <1>3
  <2> QED BY ONLY <1>3, <2>1, <2>2, i \in DOMAIN stream, stream \in Streams, FieldIs
<1>5. ASSUME dctx.frameInfo.blockSum
      PROVE  i + 1 \in DOMAIN stream /\ (GoodSum(buf, size) <=> stream[i + 1].ok)
  <2> DEFINE g == stream[i + 1]
  <2>1. /\ i + 1 \in DOMAIN stream /\ g.at = stream[i].at + stream[i].size
        /\ Follows(stream[i], g)
    BY <1>1, NextField
  <2>2. g.k = "bsum" /\ g.size = BFSize
    <3>1. Whole(g)
      BY <2>1, FieldTypes
    <3>2. g.k = "bsum"
      BY <1>1, <1>5, <2>1 DEF Follows
    <3> QED BY <3>1, <3>2 DEF Whole
  <2>3. \A j \in 0..(BFSize - 1) : buf[size + j] = g.at + j
    <3> SUFFICES ASSUME NEW j \in 0..(BFSize - 1) PROVE buf[size + j] = g.at + j
      OBVIOUS
    <3>1. SumSize = BFSize
      BY <1>5 DEF SumSize
    <3>2. size + j \in 0..(dctx.tmpInTarget - 1)
          /\ stream[i].at + (size + j) = g.at + j
      BY <1>2, <1>3, <2>1, <3>1
    <3>3. buf[size + j] = stream[i].at + (size + j)
      BY <3>2
    <3> QED BY <3>2, <3>3
  <2>4. BFSize <= g.size /\ size \in Int /\ BFSize \in Nat \ {0}
    BY <1>2, <1>3, <2>2
  <2>5. Field(buf, size, BFSize) = g
    <3> DEFINE l == i + 1
    <3>1. l \in DOMAIN stream /\ BFSize <= stream[l].size
          /\ \A j \in 0..(BFSize - 1) : buf[size + j] = stream[l].at + j
      BY <2>1, <2>3, <2>4
    <3> HIDE DEF l
    <3>2. Field(buf, size, BFSize) = stream[l]
      BY ONLY <2>4, <3>1, stream \in Streams, FieldIs
    <3> QED BY <3>2 DEF l
  <2>6. GoodSum(buf, size) <=> g.ok
    BY <2>2, <2>5 DEF GoodSum
  <2> QED BY <2>1, <2>6
<1>6. stream[i].ok => stream[i].n <= dctx.maxBlockSize
  <2>1. /\ dctx.frameInfo.blockSizeID \in DOMAIN blockSizes
        /\ dctx.maxBlockSize = blockSizes[dctx.frameInfo.blockSizeID]
    BY BlockStages DEF Inv, SizeInv, BufferInv
  <2>2. Whole(stream[i])
    BY FieldTypes
  <2> QED BY <1>1, <2>1, <2>2 DEF Whole
<1> QED BY <1>1, <1>2, <1>3, <1>4, <1>5, <1>6

\* A damaged block is an error, and nothing comes of it.
LEMMA BlockFails ==
    ASSUME Inv, pc = "run", StageKeeps, Advances, UNCHANGED <<dst, mem, asserts>>,
           dctx.dStage \in {"getCBlock", "storeCBlock"},
           NEW d0, d0 \in Contexts(d0.stored), Kept(d0, dctx), d0.dStage = dctx.dStage,
           NEW size \in Nat, size <= dctx.tmpInTarget,
           dctx' = [d0 EXCEPT !.tmpInTarget = size],
           NEW e \in Errors, Failed(e), NEW i \in DOMAIN stream, ~stream[i].ok
    PROVE  Inv'
<1>1. /\ dctx' \in Contexts(dctx'.stored) /\ Kept(dctx', dctx) /\ dctx'.dStage = d0.dStage
      /\ dctx'.tmpInTarget = size
  BY DEF Contexts, Kept
<1>2. dctx.dStage \in Decoding \ {"flushOut"} /\ dctx'.dStage \in Decoding \ {"flushOut"}
      /\ dctx'.dStage # "storeSuffix"
  BY <1>1, BlockStages
<1>3. Ended
  BY DEF Ended
<1>4. Settled'
  BY <1>1, <1>2, <1>3, QuietStep
<1>5. TargetInv'
  <2>1. dctx.tmpInTarget <= dctx.maxBlockSize + BFSize /\ dctx.tmpInTarget \in Nat
        /\ dctx.maxBlockSize \in Nat
    BY ContextTypes DEF Inv, SizeInv, TypeOK, TargetInv
  <2>2. BFSize \in Nat
    BY DecoderAssumption
  <2>3. dctx'.maxBlockSize = dctx.maxBlockSize
    BY <1>1 DEF Kept
  <2> QED BY <1>1, <2>1, <2>2, <2>3 DEF TargetInv
<1>6. \E l \in DOMAIN stream' : ~stream'[l].ok
  BY DEF StageKeeps
<1> QED BY <1>4, <1>5, <1>6, FailsThere

\* A block that has room in dst is decoded there.
LEMMA BlockCame ==
    ASSUME Inv, pc = "run", dctx.dStage \in {"getCBlock", "storeCBlock"},
           NEW d, d \in Contexts(d.stored), Kept(d, dctx),
           NEW f, f.n \in Nat, f.n <= dctx.maxBlockSize, f.from = Given + 1,
           room >= dctx.maxBlockSize, NEW m, m = Decoded(d, mem, f, dst.at)
    PROVE  Came(m, f.n) /\ dst.at \in Nat
<1> DEFINE g == Given
           W == IF dctx.frameInfo.linked THEN Lesser(KB64, g) ELSE 0
           end == dctx.dict + dctx.dictSize
           out == dst.at
<1>1. /\ TypeOK /\ BufferInv /\ DictInv /\ ~failed /\ dctx \in Contexts(dctx.stored)
      /\ dctx.dStage \in Decoding /\ DOMAIN mem = 0..DstEnd
  BY BlockStages DEF Inv, SizeInv, TypeOK, CallInv
<1>2. /\ KB64 \in Nat \ {0} /\ g \in Nat /\ Pending = 0 /\ dctx.maxBlockSize \in Nat
      /\ dctx.maxBlockSize > 0 /\ dctx.dict \in Nat \cup {NULL} /\ dctx.dictSize \in Nat
  <2>1. KB64 \in Nat \ {0} /\ g \in Nat /\ Pending = 0
    BY <1>1, BlockSizes, GivenType DEF Pending
  <2>2. dctx.maxBlockSize \in Nat /\ dctx.dict \in Nat \cup {NULL} /\ dctx.dictSize \in Nat
    BY <1>1, ContextTypes
  <2>3. dctx.frameInfo.blockSizeID \in DOMAIN blockSizes
        /\ dctx.maxBlockSize = blockSizes[dctx.frameInfo.blockSizeID]
    BY <1>1, BlockStages DEF BufferInv
  <2>4. dctx.maxBlockSize >= KB64
    BY <2>3, DecoderAssumption
  <2> QED BY <2>1, <2>2, <2>4
<1>3. /\ dst.at # NULL /\ out \in Nat /\ dst.end \in Int /\ out + dctx.maxBlockSize <= dst.end
      /\ dst.end <= DstEnd + 1 /\ DstEnd \in Nat /\ DstAt <= out
      /\ DstAt \in Nat /\ DstAt <= DstEnd
  <2>1. dst.at \in Int /\ dst.end \in Int
    BY <1>1, GivenType
  <2>2. dst.at # NULL
    <3>1. dst.end - dst.at > 0
      BY <1>2, <2>1 DEF room
    <3>2. \/ dst.at = NULL /\ dst.end = NULL
          \/ DstAt <= dst.start /\ dst.start <= dst.at
      BY <1>1 DEF TypeOK, RoomOK
    <3>3. NULL < DstAt /\ DstAt \in Int /\ dst.start \in Int
      BY <1>1, Addresses, GivenType DEF NULL
    <3> QED BY <2>1, <3>1, <3>2, <3>3 DEF NULL
  <2>3. DstAt <= dst.start /\ dst.start <= dst.at /\ dst.end <= DstEnd + 1 /\ dst.start \in Int
    BY <1>1, <2>2, GivenType DEF TypeOK, RoomOK
  <2>4. DstAt \in Nat /\ DstEnd \in Nat /\ DstAt <= DstEnd
    BY Addresses, DecoderAssumption
  <2> QED BY <1>2, <2>1, <2>2, <2>3, <2>4 DEF room
<1>4. /\ W \in Int /\ end \in Int /\ W <= dctx.dictSize
      /\ Holds(mem, end - W, W, g - W + 1)
      /\ W = 0 \/ end <= out
  <2>1. end \in Int
    BY <1>2 DEF NULL
  <2>2. CASE ~dctx.frameInfo.linked
    BY <1>2, <2>1, <2>2 DEF Holds
  <2>3. CASE dctx.frameInfo.linked
    <3>1. /\ Window \in Int /\ Window <= dctx.dictSize /\ g \in Nat
          /\ Holds(mem, end - Window, Window, g - Window + 1)
          /\ \/ dctx.dictSize = 0
             \/ dctx.dict = 0 /\ dctx.dictSize <= dctx.maxBufferSize
             \/ DstAt <= dctx.dict /\ dctx.dict + dctx.dictSize <= Stays
          /\ dctx.maxBufferSize \in Nat /\ dctx.maxBufferSize <= TmpEnd
      <4>1. /\ Window \in Int /\ Window <= dctx.dictSize
            /\ Holds(mem, dctx.dict + dctx.dictSize - Window, Window, Given - Window + 1)
            /\ \/ dctx.dictSize = 0
               \/ dctx.dict = 0 /\ dctx.dictSize <= dctx.maxBufferSize
               \/ DstAt <= dctx.dict /\ dctx.dict + dctx.dictSize <= Stays
            /\ dctx.maxBufferSize \in Nat /\ dctx.maxBufferSize <= TmpEnd
        BY <1>1, <2>3, DictIs
      <4>2. dctx.dict + dctx.dictSize - Window = end - Window
        BY <1>2, <4>1 DEF NULL
      <4> QED BY <1>2, <4>1, <4>2
    <3>2. W = Window
      BY <1>2, <2>3 DEF Window, Lesser
    <3>3. Stays = out
      BY <1>3 DEF Stays
    <3>4. W = 0 \/ end <= out
      <4>1. CASE dctx.dictSize = 0
        BY <1>2, <2>3, <3>1, <3>2, <4>1 DEF Lesser
      <4>2. CASE dctx.dict = 0 /\ dctx.dictSize <= dctx.maxBufferSize
        BY <1>2, <1>3, <3>1, <4>2, Addresses
      <4> QED BY <3>1, <3>3, <4>1, <4>2
    <3> QED BY <2>1, <3>1, <3>2, <3>4
  <2> QED BY <2>2, <2>3
<1>5. /\ d.frameInfo = dctx.frameInfo /\ d.maxBlockSize = dctx.maxBlockSize
      /\ d.dict = dctx.dict /\ d.dictSize = dctx.dictSize
  BY DEF Kept
<1>6. /\ DOMAIN m = 0..DstEnd
      /\ \A a \in 0..DstEnd : a < out \/ out + dctx.maxBlockSize <= a => m[a] = mem[a]
      /\ Holds(m, out, f.n, g + 1)
  <2>1. /\ DOMAIN mem = 0..DstEnd /\ out \in Nat /\ d.maxBlockSize \in Nat
        /\ out + d.maxBlockSize <= DstEnd + 1 /\ f.n <= d.maxBlockSize
        /\ W = (IF d.frameInfo.linked THEN Lesser(KB64, g) ELSE 0)
        /\ d.dictSize \in Nat /\ W <= d.dictSize /\ end = d.dict + d.dictSize
        /\ (W = 0 \/ end <= out \/ out + d.maxBlockSize <= end - W)
        /\ m = Decoded(d, mem, f, out) /\ W \in Int /\ end \in Int
        /\ g \in Nat /\ f.from = g + 1
    <3>1. out + d.maxBlockSize <= DstEnd + 1 /\ d.maxBlockSize \in Nat
      BY <1>2, <1>3, <1>5
    <3>2. /\ W = (IF d.frameInfo.linked THEN Lesser(KB64, g) ELSE 0)
          /\ end = d.dict + d.dictSize /\ d.dictSize \in Nat /\ f.n <= d.maxBlockSize
      BY <1>2, <1>5
    <3>3. m = Decoded(d, mem, f, out) /\ f.from = g + 1 /\ out \in Nat /\ g \in Nat
      BY <1>2, <1>3
    <3> HIDE DEF W, end, out, g
    <3> QED BY <1>1, <1>4, <1>5, <3>1, <3>2, <3>3
  <2> HIDE DEF out, W, end, g
  <2>2. Holds(mem, end - W, W, g - W + 1)
    BY <1>4
  <2>3. /\ DOMAIN Decoded(d, mem, f, out) = 0..DstEnd
        /\ \A a \in 0..DstEnd : a < out \/ out + d.maxBlockSize <= a =>
                Decoded(d, mem, f, out)[a] = mem[a]
        /\ Holds(Decoded(d, mem, f, out), out, f.n, g + 1)
    BY <2>1, <2>2, DecodedIs
  <2> QED BY <1>5, <2>1, <2>3
<1>7. \A a \in 0..(dst.at - 1) : m[a] = mem[a]
  <2> SUFFICES ASSUME NEW a \in 0..(dst.at - 1) PROVE m[a] = mem[a]
    OBVIOUS
  <2>1. a \in 0..DstEnd /\ a < out
    BY <1>2, <1>3
  <2> QED BY <1>6, <2>1
<1>8. dst.at + f.n <= dst.end
  BY <1>2, <1>3
<1> QED BY <1>3, <1>6, <1>7, <1>8 DEF Came

\* All of a block is at hand.
LEMMA DecodeBlockStep ==
    ASSUME Inv, pc = "run", StageKeeps, Advances, dctx.dStage \in {"getCBlock", "storeCBlock"},
           NEW i \in DOMAIN stream, InFrame(i, {"block"}), stream[i].from = Given + 1,
           dctx.tmpInTarget = stream[i].size + SumSize,
           NEW d0, d0 \in Contexts(d0.stored), Kept(d0, dctx), d0.dStage = dctx.dStage,
           d0.tmpInTarget = dctx.tmpInTarget,
           NEW buf, \A j \in 0..(dctx.tmpInTarget - 1) : buf[j] = stream[i].at + j,
           srcPtr' = stream[i].at + dctx.tmpInTarget, DecodeBlock(d0, buf)
    PROVE  Inv'
<1> DEFINE size == dctx.tmpInTarget - SumSize
           d == [d0 EXCEPT !.tmpInTarget = size]
           f == stream[i]
           n == f.n
           m == Decoded(d, mem, f, dst.at)
           direct == Passed(d, m, n)
           t == MakeTmpOut(d)
           sumOk == dctx.frameInfo.blockSum => GoodSum(buf, size)
<1>1. /\ TypeOK /\ CallInv /\ stream \in Streams /\ stream' = stream /\ ~failed
      /\ dctx \in Contexts(dctx.stored) /\ Given \in Nat
  BY GivenType DEF Inv, SizeInv, CallInv, TypeOK, StageKeeps
<1>2. /\ size = f.size /\ Field(buf, 0, size) = f /\ f.k = "block"
      /\ dctx.frameInfo.blockSum =>
            i + 1 \in DOMAIN stream /\ (GoodSum(buf, size) <=> stream[i + 1].ok)
      /\ f.ok => n <= dctx.maxBlockSize
      /\ n \in Nat /\ size \in Nat /\ SumSize \in Nat
  BY <1>1, BlockRead
<1>3. /\ d \in Contexts(d.stored) /\ Kept(d, dctx) /\ d.dStage = dctx.dStage
      /\ d.tmpInTarget = size /\ d.frameInfo = dctx.frameInfo
      /\ d.maxBlockSize = dctx.maxBlockSize
  <2> HIDE DEF size
  <2> QED BY <1>2 DEF Contexts, Kept
<1>4. \/ ~sumOk /\ Fail(d, "blockChecksum_invalid") /\ NoOutput
      \/ /\ ~(f.ok /\ n <= dctx.maxBlockSize)
         /\ Fail(d, "decompressionFailed") /\ NoOutput
      \/ /\ sumOk /\ f.ok /\ n <= dctx.maxBlockSize /\ room >= dctx.maxBlockSize
         /\ Go([direct.d EXCEPT !.dStage = "getBlockHeader"])
         /\ dst' = [dst EXCEPT !.at = @ + n]
         /\ mem' = direct.mem
         /\ asserts' = (asserts /\ direct.holds)
      \/ /\ sumOk /\ f.ok /\ n <= dctx.maxBlockSize
         /\ Go([Regenerated(t.d, n) EXCEPT
                       !.tmpOutSize = n, !.tmpOutStart = 0, !.dStage = "flushOut"])
         /\ mem' = Decoded(t.d, t.mem, f, t.d.tmpOut)
         /\ UNCHANGED <<dst, asserts>>
  <2>1. d0.frameInfo = dctx.frameInfo /\ d0.tmpInTarget = dctx.tmpInTarget
    BY DEF Kept
  <2>2. d0.tmpInTarget - (IF d0.frameInfo.blockSum THEN BFSize ELSE 0) = size
    BY <2>1 DEF SumSize
  <2> QED BY <1>2, <1>3, <2>2 DEF DecodeBlock, Passed
<1>5. size <= dctx.tmpInTarget
  BY <1>1, <1>2, ContextTypes
<1>6. ASSUME NEW e \in Errors, Fail(d, e), NoOutput, NEW l \in DOMAIN stream, ~stream[l].ok
      PROVE  Inv'
  <2>1. Failed(e) /\ dctx' = d /\ UNCHANGED <<dst, mem, asserts>>
    BY <1>6 DEF Fail, Failed, NoOutput
  <2> HIDE DEF size
  <2>2. dctx' = [d0 EXCEPT !.tmpInTarget = size] /\ size \in Nat /\ size <= dctx.tmpInTarget
    BY <1>2, <1>5, <2>1
  <2> QED BY <1>6, <2>1, <2>2, BlockFails
<1>7. CASE ~sumOk /\ Fail(d, "blockChecksum_invalid") /\ NoOutput
  <2>1. i + 1 \in DOMAIN stream /\ ~stream[i + 1].ok
    BY <1>2, <1>7
  <2>2. "blockChecksum_invalid" \in Errors
    BY DEF Errors
  <2> QED BY <1>6, <1>7, <2>1, <2>2
<1>8. CASE ~(f.ok /\ n <= dctx.maxBlockSize) /\ Fail(d, "decompressionFailed") /\ NoOutput
  <2>1. ~f.ok
    BY <1>2, <1>8
  <2>2. "decompressionFailed" \in Errors
    BY DEF Errors
  <2> QED BY <1>6, <1>8, <2>1, <2>2
<1>9. ASSUME sumOk, f.ok, Settled', Went, Given' + Pending' = Given + n, Given' \in Int,
             Pending' \in Int, dctx'.frameInfo = dctx.frameInfo,
             dctx'.dStage \in {"getBlockHeader", "flushOut"}
      PROVE  Inv'
  <2>1. srcPtr' = stream[i].at + (stream[i].size + SumSize)
    OBVIOUS
  <2>2. dctx.frameInfo.blockSum => stream[i + 1].ok
    BY <1>2, <1>9
  <2>3. AtBlock'
    BY <1>1, <1>9, <2>1, <2>2, AfterBlock
  <2>4. TargetInv' /\ PlaceInv'
    BY <1>9, <2>3 DEF TargetInv, PlaceInv
  <2> QED BY <1>9, <2>4, GoesOn
<1>10. CASE /\ sumOk /\ f.ok /\ n <= dctx.maxBlockSize /\ room >= dctx.maxBlockSize
            /\ Go([direct.d EXCEPT !.dStage = "getBlockHeader"])
            /\ dst' = [dst EXCEPT !.at = @ + n]
            /\ mem' = direct.mem
            /\ asserts' = (asserts /\ direct.holds)
  <2>1. Went /\ dctx' = [direct.d EXCEPT !.dStage = "getBlockHeader"]
    BY <1>10 DEF Go, Went
  <2>2. Ended /\ pc' # "idle"
    BY <2>1 DEF Ended, Went
  <2> HIDE DEF d
  <2>3. Came(m, n)
    BY <1>2, <1>3, <1>10, BlockCame
  <2>4. dctx.dStage \in Decoding \ {"flushOut"}
    BY BlockStages
  <2>5. direct.d \in Contexts(direct.d.stored)
    <3> HIDE DEF m, n
    <3>1. d \in Contexts(d.stored) /\ Kept(d, dctx)
      BY <1>3
    <3> DEFINE u == direct
    <3>2. u = Passed(d, m, n)
      OBVIOUS
    <3> HIDE DEF u
    <3>3. u.d \in Contexts(u.d.stored)
      BY <2>3, <2>4, <3>1, <3>2, PassedContext
    <3> QED BY <3>3 DEF u
  <2>6. /\ dctx' \in Contexts(dctx'.stored) /\ Kept(dctx', direct.d)
        /\ dctx'.dStage = "getBlockHeader"
    <3> DEFINE c == direct.d
    <3>1. c \in Contexts(c.stored) /\ dctx' = [c EXCEPT !.dStage = "getBlockHeader"]
          /\ "getBlockHeader" \in Stages
      BY <2>1, <2>5, BlockStages
    <3> HIDE DEF c
    <3>2. /\ dctx' \in Contexts(dctx'.stored) /\ Kept(dctx', c)
          /\ dctx'.dStage = "getBlockHeader"
      BY <3>1, Restaged
    <3> QED BY <3>2 DEF c
  <2>7. Settled' /\ Given' = Given + n /\ Pending' = 0 /\ dctx'.frameInfo = dctx.frameInfo
    <3> DEFINE u == direct
    <3>1. /\ d \in Contexts(d.stored) /\ Kept(d, dctx) /\ u = Passed(d, m, n)
          /\ dst' = [dst EXCEPT !.at = @ + n] /\ mem' = u.mem
          /\ asserts' = (asserts /\ u.holds) /\ Kept(dctx', u.d)
      BY <1>3, <1>10, <2>6
    <3>2. dctx'.dStage \in Decoding \ {"flushOut"} /\ dctx' \in Contexts(dctx'.stored)
      BY <2>6, BlockStages
    <3> HIDE DEF u, m, n
    <3> QED BY <2>2, <2>3, <2>4, <3>1, <3>2, GivesStep
  <2> QED BY <1>1, <1>2, <1>9, <1>10, <2>1, <2>6, <2>7
<1>11. CASE /\ sumOk /\ f.ok /\ n <= dctx.maxBlockSize
            /\ Go([Regenerated(t.d, n) EXCEPT
                          !.tmpOutSize = n, !.tmpOutStart = 0, !.dStage = "flushOut"])
            /\ mem' = Decoded(t.d, t.mem, f, t.d.tmpOut)
            /\ UNCHANGED <<dst, asserts>>
  <2>1. /\ Went /\ dctx' = [Regenerated(t.d, n) EXCEPT !.tmpOutSize = n, !.tmpOutStart = 0,
                                                       !.dStage = "flushOut"]
    BY <1>11 DEF Go, Went
  <2>2. /\ Settled' /\ Given' = Given /\ Pending' = n
        /\ dctx'.frameInfo = dctx.frameInfo /\ dctx'.dStage = "flushOut"
    <3> DEFINE v == t
    <3>1. /\ dctx' = [Regenerated(v.d, f.n) EXCEPT !.tmpOutSize = f.n, !.tmpOutStart = 0,
                                                   !.dStage = "flushOut"]
          /\ mem' = Decoded(v.d, v.mem, f, v.d.tmpOut) /\ v = MakeTmpOut(d)
          /\ d \in Contexts(d.stored) /\ Kept(d, dctx) /\ UNCHANGED <<dst, asserts>>
      BY <1>3, <1>11, <2>1
    <3> HIDE DEF v, d
    <3>2. f.n \in Nat /\ f.n <= dctx.maxBlockSize /\ f.from = Given + 1
      BY <1>2, <1>11
    <3> HIDE DEF f
    <3> QED BY <2>1, <3>1, <3>2, ToTmpOut DEF n
  <2> QED BY <1>1, <1>2, <1>9, <1>11, <2>1, <2>2
<1> QED BY <1>4, <1>7, <1>8, <1>10, <1>11

\* A compressed block in the input, or too little of it.
LEMMA GetCBlockStep ==
    ASSUME Inv, pc = "run", StageKeeps, getCBlock
    PROVE  Inv'
<1>1. /\ TypeOK /\ CallInv /\ PlaceInv /\ dctx.dStage = "getCBlock"
      /\ dctx \in Contexts(dctx.stored) /\ stream \in Streams
  BY DEF Inv, SizeInv, CallInv, TypeOK, getCBlock, ReadInv
<1>2. CASE available < dctx.tmpInTarget
  <2>1. /\ UNCHANGED <<dst, mem, asserts>> /\ srcPtr' = srcPtr + 0
        /\ Go([Restore(dctx, 0) EXCEPT !.dStage = "storeCBlock"])
    BY <1>2 DEF getCBlock, NoOutput, Consume
  <2> QED BY <1>1, <2>1, AwaitCBlock
<1>3. CASE ~(available < dctx.tmpInTarget)
  <2>1. DecodeBlock(dctx, Here(dctx.tmpInTarget)) /\ srcPtr' = srcPtr + dctx.tmpInTarget
    BY <1>3 DEF getCBlock, Consume
  <2>2. PICK i \in DOMAIN stream :
          /\ InFrame(i, {"block"}) /\ srcPtr = stream[i].at
          /\ dctx.tmpInTarget = stream[i].size + SumSize /\ stream[i].from = Given + 1
    BY <1>1 DEF PlaceInv, AtPacked
  <2>3. /\ srcPtr \in Nat /\ srcEnd \in Nat /\ dctx.tmpInTarget \in Nat
        /\ srcPtr + dctx.tmpInTarget <= srcEnd
    BY <1>1, <1>3, ContextTypes DEF TypeOK, available
  <2>4. Advances /\ srcPtr' = stream[i].at + dctx.tmpInTarget
    BY <2>1, <2>2, <2>3 DEF Advances
  <2> DEFINE buf == Here(dctx.tmpInTarget)
  <2>5. DecodeBlock(dctx, buf)
    BY <2>1
  <2>6. \A j \in 0..(dctx.tmpInTarget - 1) : buf[j] = stream[i].at + j
    BY <2>2, <2>3, HereIs
  <2>7. Kept(dctx, dctx) /\ dctx.dStage \in {"getCBlock", "storeCBlock"}
    BY <1>1 DEF Kept
  <2> HIDE DEF buf
  <2> QED BY <1>1, <2>2, <2>4, <2>5, <2>6, <2>7, DecodeBlockStep
<1> QED BY <1>2, <1>3

\* A compressed block, collected.
LEMMA StoreCBlockStep ==
    ASSUME Inv, pc = "run", StageKeeps, storeCBlock
    PROVE  Inv'
<1> DEFINE target == dctx.tmpInTarget
           n == Wanted(dctx, target)
           d == Store(dctx, n)
           hint == d.tmpInTarget - d.tmpInSize + BHSize +
                   (IF d.frameInfo.blockSum THEN BFSize ELSE 0)
<1>1. /\ TypeOK /\ CallInv /\ stream \in Streams /\ stream' = stream /\ PlaceInv /\ TargetInv
      /\ dctx.dStage = "storeCBlock" /\ dctx \in Contexts(dctx.stored)
      /\ srcPtr' = srcPtr + n
      /\ IF d.tmpInSize < d.tmpInTarget
         THEN Stop(d, hint) /\ UNCHANGED <<dst, mem, asserts>>
         ELSE DecodeBlock(d, d.stored)
  BY DEF Inv, SizeInv, CallInv, TypeOK, StageKeeps, storeCBlock, ReadInv, NoOutput, Consume
<1>2. PICK i \in DOMAIN stream :
        /\ InFrame(i, {"block"}) /\ Collects(i, dctx.tmpInTarget)
        /\ dctx.tmpInTarget = stream[i].size + SumSize
        /\ stream[i].from = Given + 1
  BY <1>1 DEF PlaceInv, InPacked
<1>3. /\ BHSize \in Nat \ {0} /\ BFSize \in Nat /\ target \in Nat
  <2>1. BHSize \in Nat \ {0} /\ BFSize \in Nat
    BY DecoderAssumption
  <2> QED BY <1>1, <2>1, ContextTypes
<1>4. /\ srcPtr = stream[i].at + dctx.tmpInSize /\ dctx.tmpInSize < target /\ StoredFrom(0, i)
  BY <1>2 DEF Collects
<1>5. /\ n \in Nat /\ srcPtr + n <= srcEnd /\ d \in Contexts(d.stored) /\ Kept(d, dctx)
      /\ d.dStage = dctx.dStage /\ d.tmpInTarget = target
      /\ d.tmpInSize = dctx.tmpInSize + n /\ d.tmpInSize <= target
      /\ srcPtr + n = stream[i].at + d.tmpInSize
      /\ d.tmpInSize < target => srcPtr + n = srcEnd
      /\ Stores(d, 0, i)
  <2> HIDE DEF target
  <2>1. d.tmpInTarget = dctx.tmpInTarget /\ 0 \in Nat /\ target \in Nat
    <3>1. n \in Nat /\ d.tmpInTarget = dctx.tmpInTarget
      BY <1>1, <1>3, <1>4, Collect
    <3> QED BY <1>3, <3>1
  <2> QED BY <1>1, <1>3, <1>4, <2>1, Collect DEF target
<1>6. hint \in Nat \ {0} \/ ~(d.tmpInSize < d.tmpInTarget)
  <2>1. d.tmpInSize \in Nat /\ d.tmpInTarget \in Nat /\ d.frameInfo.blockSum \in BOOLEAN
    BY <1>5, ContextTypes
  <2> HIDE DEF d
  <2> QED BY <1>3, <2>1
<1> HIDE DEF n, d, hint
<1>7. /\ srcPtr \in Nat /\ srcEnd \in Nat /\ d.tmpInSize \in Nat /\ dctx.tmpInSize \in Nat
      /\ stream[i].at \in Nat
  BY <1>1, <1>5, ContextTypes, FieldTypes DEF TypeOK
<1>8. Advances
  BY <1>1, <1>5, <1>7 DEF Advances
<1>9. CASE d.tmpInSize < target
  <2>1. Stopped(hint) /\ dctx' = d /\ hint \in Nat \ {0} /\ UNCHANGED <<dst, mem, asserts>>
    BY <1>1, <1>5, <1>6, <1>9 DEF Stop, Stopped
  <2>2. Ended
    BY <2>1 DEF Ended
  <2>3. Settled' /\ Given' = Given
    BY <1>1, <1>5, <1>8, <2>1, <2>2, QuietStep, BlockStages
  <2>4. InPacked'
    <3>1. srcPtr' = stream'[i].at + dctx'.tmpInSize /\ dctx'.tmpInSize < dctx'.tmpInTarget
      BY <1>1, <1>5, <1>9, <2>1
    <3>2. StoredFrom(0, i)'
      BY <1>1, <1>5, <2>1 DEF StoredFrom, Stores
    <3>3. InFrame(i, {"block"})' /\ i \in DOMAIN stream' /\ stream'[i].from = Given' + 1
      BY <1>1, <1>2, <1>5, <2>1, <2>3 DEF InFrame, Reads, Fine, Kept
    <3>4. dctx'.tmpInTarget = stream'[i].size + SumSize'
      BY <1>1, <1>2, <1>5, <2>1 DEF SumSize, Kept
    <3> QED BY <3>1, <3>2, <3>3, <3>4 DEF InPacked, Collects
  <2>5. TargetInv' /\ PlaceInv' /\ dctx'.dStage # "getFrameHeader"
    <3>1. dctx'.tmpInTarget <= dctx'.maxBlockSize + BFSize
      BY <1>1, <1>5, <2>1 DEF TargetInv, Kept
    <3> QED BY <1>1, <1>5, <2>1, <2>4, <3>1 DEF TargetInv, PlaceInv
  <2>6. srcPtr' = srcEnd'
    BY <1>1, <1>5, <1>9 DEF StageKeeps
  <2> QED BY <2>1, <2>3, <2>5, <2>6, StopsThere
<1>10. CASE ~(d.tmpInSize < target)
  <2>1. DecodeBlock(d, d.stored) /\ d.tmpInSize = target
    BY <1>1, <1>3, <1>5, <1>7, <1>10
  <2> DEFINE buf == d.stored
  <2>2. \A j \in 0..(dctx.tmpInTarget - 1) : buf[j] = stream[i].at + j
    BY <1>5, <2>1 DEF Stores
  <2>3. srcPtr' = stream[i].at + dctx.tmpInTarget /\ DecodeBlock(d, buf)
        /\ d.tmpInTarget = dctx.tmpInTarget /\ d.dStage = dctx.dStage
        /\ dctx.dStage \in {"getCBlock", "storeCBlock"}
    BY <1>1, <1>5, <2>1
  <2> HIDE DEF buf
  <2> QED BY <1>1, <1>2, <1>5, <1>8, <2>2, <2>3, DecodeBlockStep
<1> QED BY <1>9, <1>10

-----------------------------------------------------------------------------
(* What is left in tmpOut                                                    *)

FlushEnds(e, start) ==
    IF start = e.tmpOutSize
    THEN Go([[e EXCEPT !.tmpOutStart = start] EXCEPT !.dStage = "getBlockHeader"])
    ELSE Stop([e EXCEPT !.tmpOutStart = start], BHSize)

\* How flushOut ends.
LEMMA FlushEndsSo ==
    ASSUME NEW e, e \in Contexts(e.stored), e.dStage = "flushOut", NEW start \in Nat,
           FlushEnds(e, start)
    PROVE  /\ dctx' \in Contexts(dctx'.stored) /\ Ended
           /\ Kept(dctx', [e EXCEPT !.tmpOutStart = start])
           /\ \/ Went /\ dctx'.dStage = "getBlockHeader" /\ start = e.tmpOutSize
              \/ Stopped(BHSize) /\ dctx'.dStage = "flushOut" /\ start # e.tmpOutSize
<1> DEFINE c == [e EXCEPT !.tmpOutStart = start]
<1>1. c \in Contexts(c.stored) /\ c.dStage = "flushOut"
  BY DEF Contexts
<1>2. CASE start = e.tmpOutSize
  <2>1. Went /\ dctx' = [c EXCEPT !.dStage = "getBlockHeader"]
    BY <1>2 DEF FlushEnds, Go, Went
  <2> HIDE DEF c
  <2>2. /\ dctx' \in Contexts(dctx'.stored) /\ Kept(dctx', c)
        /\ dctx'.dStage = "getBlockHeader"
    BY <1>1, <2>1, Restaged, BlockStages
  <2> QED BY <1>2, <2>1, <2>2 DEF Ended, c
<1>3. CASE start # e.tmpOutSize
  <2>1. Stopped(BHSize) /\ dctx' = c
    BY <1>3 DEF FlushEnds, Stop, Stopped
  <2>2. BHSize \in Nat
    BY DecoderAssumption
  <2>3. Kept(dctx', c)
    BY <2>1 DEF Kept
  <2> QED BY <1>1, <1>3, <2>1, <2>2, <2>3 DEF Ended
<1> QED BY <1>2, <1>3

\* Without room nothing is flushed.
LEMMA FlushNothing ==
    ASSUME Inv, pc = "run", Ended, pc' # "idle", StageKeeps, Advances,
           UNCHANGED <<dst, mem, asserts>>, dctx.dStage = "flushOut",
           dctx' \in Contexts(dctx'.stored), Kept(dctx', dctx),
           \/ dctx'.dStage = "flushOut"
           \/ dctx'.dStage = "getBlockHeader" /\ dctx.tmpOutStart = dctx.tmpOutSize
    PROVE  Settled' /\ Given' = Given /\ Given' + Pending' = Given + Pending
<1>1. SizeInv /\ TypeOK /\ CallInv /\ ~failed /\ dctx \in Contexts(dctx.stored)
  BY DEF Inv, SizeInv, CallInv, TypeOK
<1>2. ReadInv
  BY <1>1 DEF Inv
<1>3. RoomOK' /\ Given' = Given
  BY <1>1 DEF RoomOK, TypeOK, Given, StageKeeps
<1>4. TypeOK' /\ CallInv'
  <2>1. /\ ~failed /\ pc' \in {"idle", "run", "preserve"}
        /\ ret' \in [error : Errors \cup {"none"}, hint : Nat]
        /\ failed' <=> pc' = "idle"
        /\ pc' # "idle" => /\ srcStart' <= srcPtr' /\ srcPtr' <= srcEnd' /\ ~failed'
                           /\ srcEnd' <= Total' + 1
        /\ srcPtr' <= Total' + 1
        /\ stream' \in Streams /\ srcPtr' \in Nat /\ srcStart' \in Nat /\ srcEnd' \in Nat
        /\ arena' \in DstAt..(DstEnd + 1) /\ sent' \in Nat
    BY <1>1, <1>3, EndedTypes
  <2>2. TypeOK'
    BY <1>1, <1>3, <2>1 DEF TypeOK
  <2>3. CallInv'
    BY <1>1, <2>1 DEF CallInv, StageKeeps
  <2> QED BY <2>2, <2>3
<1>5. /\ dctx.dStage \notin Before /\ dctx'.dStage \notin Before
      /\ dctx.dStage # "init" /\ dctx'.dStage # "init"
      /\ dctx'.dStage \in Decoding /\ dctx.dStage \in Decoding
      /\ dctx'.dStage # "getFrameHeader" /\ dctx'.dStage # "storeSuffix"
      /\ dctx'.dStage # "getSFrameSize"
  BY DEF Before, Decoding, InBlocks
<1>6. Pending' = Pending
  <2>1. dctx.tmpOutSize \in Nat /\ dctx.tmpOutStart \in Nat
    BY <1>1, ContextTypes
  <2> QED BY <2>1 DEF Pending, Kept
<1>7. BufferInv'
  BY <1>1, <1>5 DEF SizeInv, BufferInv, Kept, bufferNeeded
<1>8. DictInv'
  <2>1. Stays' = Stays
    BY <1>1, <1>4 DEF Stays, StageKeeps
  <2>2. ~failed'
    BY <1>4 DEF CallInv
  <2> QED BY <1>1, <1>5, <2>1, <2>2 DEF SizeInv, DictInv, Kept, Before
<1>9. RemainingInv'
  BY <1>5 DEF Inv, PastInv, RemainingInv, Kept, StageKeeps
<1>10. OutputIsContent'
  BY <1>1, <1>3 DEF Inv, OutputIsContent, StageKeeps
<1>11. Window' = Window
  BY <1>3, <1>6 DEF Window
<1>12. WindowInv'
  BY <1>2, <1>3, <1>5, <1>11 DEF ReadInv, WindowInv, Kept
<1>13. OutInv'
  BY <1>2, <1>3 DEF ReadInv, OutInv, Kept
<1>14. CountInv'
  BY <1>2, <1>3, <1>5, <1>6 DEF ReadInv, CountInv, Kept
<1> QED BY <1>3, <1>4, <1>6, <1>7, <1>8, <1>9, <1>10, <1>12, <1>13, <1>14 DEF Settled

\* What is copied from tmpOut is the content that comes next.
LEMMA FlushCame ==
    ASSUME Inv, pc = "run", dctx.dStage = "flushOut", dst.at # NULL,
           NEW n \in Nat, n <= dctx.tmpOutSize - dctx.tmpOutStart, n <= room,
           NEW m, m = Copied(mem, dst.at, dctx.tmpOut + dctx.tmpOutStart, n)
    PROVE  Came(m, n) /\ InTmpOut(m)
<1> DEFINE out == dctx.tmpOut  start == dctx.tmpOutStart  len == dctx.tmpOutSize
           g == Given  at == dst.at
<1>1. /\ TypeOK /\ BufferInv /\ ~failed /\ dctx \in Contexts(dctx.stored)
      /\ dctx.dStage \in Decoding /\ DOMAIN mem = 0..DstEnd /\ OutInv
  BY BlockStages DEF Inv, SizeInv, TypeOK, CallInv, ReadInv
<1>2. /\ out \in Nat /\ start \in Nat /\ len \in Nat /\ g \in Nat
      /\ start <= g /\ Holds(mem, out, len, g - start + 1)
  BY <1>1, ContextTypes, GivenType DEF OutInv
<1>3. out + len <= TmpEnd /\ TmpEnd \in Nat /\ DstAt = TmpEnd + 1 /\ DstEnd \in Nat
      /\ TmpEnd < DstEnd
  <2>1. dctx.maxBlockSize = blockSizes[dctx.frameInfo.blockSizeID]
        /\ dctx.frameInfo.blockSizeID \in DOMAIN blockSizes
    BY <1>1, BlockStages DEF BufferInv
  <2>2. dctx.maxBlockSize <= MaxBlock /\ MaxBlock \in Nat /\ dctx.maxBlockSize \in Nat
        /\ KB64 \in Nat
    BY <2>1, BlockSizes
  <2>3. out <= 2 * KB64 /\ len <= dctx.maxBlockSize
    BY <1>1, <1>2, <2>2 DEF BufferInv
  <2> QED BY <1>2, <2>2, <2>3, Addresses
<1>4. /\ at \in Nat /\ DstAt <= at /\ at + n <= dst.end /\ at + n <= DstEnd + 1
  <2>1. dst.at \in Int /\ dst.end \in Int /\ dst.start \in Int
    BY <1>1, GivenType
  <2>2. DstAt <= dst.start /\ dst.start <= dst.at /\ dst.end <= DstEnd + 1
    BY <1>1 DEF TypeOK, RoomOK
  <2> QED BY <1>3, <2>1, <2>2 DEF room
<1>5. Holds(m, at, n, g + 1)
  <2> DEFINE b == out + start  f == g + 1  a == out  h == g - start + 1
  <2>1. /\ b \in Int /\ f \in Int /\ a \in Int /\ h \in Int /\ len \in Int /\ n \in Int
        /\ a <= b /\ b + n <= a + len /\ f - b = h - a /\ at \in Int
        /\ b <= b /\ b + n <= b + n /\ at - b = at - b
    BY <1>2, <1>4
  <2>2. Holds(mem, a, len, h)
    BY <1>2
  <2>3. m = Copied(mem, at, b, n)
    OBVIOUS
  <2>4. at..(at + n - 1) \subseteq DOMAIN mem
    BY <1>1, <1>3, <1>4
  <2> HIDE DEF a, b, f, h, at
  <2>5. Holds(mem, b, n, f)
    BY ONLY <2>1, <2>2, HoldsIn
  <2>6. Holds(Copied(mem, at, b, n), at, n, f)
    BY ONLY <2>1, <2>4, <2>5, HoldsCopied
  <2> QED BY <2>3, <2>6 DEF f
<1>6. InTmpOut(m)
  <2> DEFINE b == out + start  h == g - start + 1
  <2>1. /\ b \in Int /\ h \in Int /\ out \in Int /\ len \in Int /\ n \in Int /\ at \in Int
        /\ out + len <= at
    BY <1>2, <1>3, <1>4
  <2>2. Holds(mem, out, len, h) /\ m = Copied(mem, at, b, n)
    BY <1>2
  <2>3. out..(out + len - 1) \subseteq DOMAIN mem
    BY <1>1, <1>2, <1>3
  <2> HIDE DEF b, h, at, out, len
  <2>4. Holds(Copied(mem, at, b, n), out, len, h)
    BY ONLY <2>1, <2>2, <2>3, HoldsElsewhere
  <2> QED BY <2>2, <2>4 DEF InTmpOut, h, out, len
<1>7. \A p \in 0..(dst.at - 1) : m[p] = mem[p]
  <2> SUFFICES ASSUME NEW p \in 0..(dst.at - 1) PROVE m[p] = mem[p]
    OBVIOUS
  <2>1. p \in DOMAIN mem /\ p \notin at..(at + n - 1)
    BY <1>1, <1>3, <1>4
  <2> QED BY <2>1 DEF Copied
<1>8. DOMAIN m = 0..DstEnd
  BY <1>1 DEF Copied
<1> QED BY <1>4, <1>5, <1>6, <1>7, <1>8 DEF Came

Flushed(m, n) == Pass(dctx, m, dst.at, n, TRUE)

\* The context after n bytes of tmpOut were passed on.
LEMMA FlushedContext ==
    ASSUME Inv, pc = "run", dctx.dStage = "flushOut", NEW m, NEW n, Came(m, n), InTmpOut(m),
           n <= dctx.tmpOutSize - dctx.tmpOutStart, NEW u, u = Flushed(m, n),
           NEW t \in BOOLEAN, t
    PROVE  /\ u = Pass(dctx, m, dst.at, n, t) /\ SameDict(dctx)
           /\ u.d \in Contexts(u.d.stored) /\ SameBuffers(u.d) /\ Counted(u.d, 0)
           /\ u.d.tmpOutStart = dctx.tmpOutStart /\ u.d.dStage = "flushOut"
<1> DEFINE w == 0 + 0
<1>1. /\ dctx \in Contexts(dctx.stored) /\ SameDict(dctx) /\ n \in Nat
      /\ dctx.dStage \in Decoding
  BY BlockStages DEF Inv, SizeInv, TypeOK, SameDict, Came
<1>2. u = Pass(dctx, m, dst.at, n, t)
  <2>1. t = TRUE
    OBVIOUS
  <2> QED BY <2>1 DEF Flushed
<1> DEFINE v == Lesser(Window + n, KB64)
<1>3. v \in Int /\ v <= Window + n /\ v <= KB64
  <2>1. dctx.tmpOutSize \in Nat /\ dctx.tmpOutStart \in Nat /\ Given \in Nat /\ KB64 \in Nat
    BY <1>1, ContextTypes, GivenType, BlockSizes DEF Inv, SizeInv
  <2>2. Window \in Int
    BY <2>1 DEF Window, Lesser, Pending
  <2> QED BY <1>1, <2>1, <2>2 DEF Lesser
<1> HIDE DEF v
<1>4. /\ u.d.dict \in Nat \cup {NULL} /\ u.d.dictSize \in Nat
      /\ u.d = WithDict(dctx, u.d.dict, u.d.dictSize)
  <2>1. /\ t \in BOOLEAN /\ (t <=> dctx.dStage = "flushOut")
        /\ (t => InTmpOut(m) /\ n <= dctx.tmpOutSize - dctx.tmpOutStart)
    OBVIOUS
  <2>2. /\ u.holds /\ Alike(u.mem, m) /\ (t => InTmpOut(u.mem))
        /\ u.d.dict \in Nat \cup {NULL} /\ u.d.dictSize \in Nat
        /\ u.d = WithDict(dctx, u.d.dict, u.d.dictSize)
        /\ dctx.frameInfo.linked =>
              DictAfter([dict |-> u.d.dict, dictSize |-> u.d.dictSize, mem |-> u.mem,
                         holds |-> TRUE], m, n, v)
        /\ ~dctx.frameInfo.linked => u.d.dict = NULL /\ u.d.dictSize = 0
    BY ONLY <1>1, <1>2, <1>3, <2>1, Inv, pc = "run", Came(m, n), PassIs
  <2> QED BY <2>2
<1> DEFINE x == u.d.dict  y == u.d.dictSize  e == [dctx EXCEPT !.dict = x, !.dictSize = y]
<1>5. u.d = e /\ x \in Nat \cup {NULL} /\ y \in Nat
  BY <1>4 DEF WithDict
<1> HIDE DEF x, y
<1>6. /\ e \in Contexts(e.stored) /\ e.tmpOutStart = dctx.tmpOutStart
      /\ e.dStage = dctx.dStage
      /\ e.frameInfo = dctx.frameInfo /\ e.maxBlockSize = dctx.maxBlockSize
      /\ e.maxBufferSize = dctx.maxBufferSize /\ e.tmpInCapacity = dctx.tmpInCapacity
      /\ e.tmpOut = dctx.tmpOut /\ e.tmpOutSize = dctx.tmpOutSize
      /\ e.hashed = dctx.hashed /\ e.frameRemainingSize = dctx.frameRemainingSize
  BY <1>1, <1>5 DEF Contexts
<1> HIDE DEF e
<1>7. Counted(e, 0)
  <2>1. dctx.hashed \in Nat /\ dctx.frameRemainingSize \in Int
    BY <1>1, ContextTypes
  <2> QED BY <1>6, <2>1 DEF Counted
<1> QED BY <1>1, <1>2, <1>5, <1>6, <1>7 DEF SameBuffers

\* A part of tmpOut was given: what is left is still there, and the window too.
LEMMA FlushedStep ==
    ASSUME Inv, pc = "run", Ended, pc' # "idle", StageKeeps, Advances,
           dctx.dStage = "flushOut", NEW m, NEW n, Came(m, n), InTmpOut(m),
           n <= dctx.tmpOutSize - dctx.tmpOutStart, NEW u, u = Flushed(m, n),
           dst' = [dst EXCEPT !.at = @ + n], mem' = u.mem, asserts' = (asserts /\ u.holds),
           dctx' \in Contexts(dctx'.stored), SameBuffers(dctx'),
           dctx'.dict = u.d.dict, dctx'.dictSize = u.d.dictSize,
           Counted(dctx', 0), dctx'.tmpOutStart = dctx.tmpOutStart + n,
           dctx'.dStage \in Decoding,
           dctx'.dStage # "flushOut" => dctx'.tmpOutStart = dctx'.tmpOutSize
    PROVE  Settled' /\ Given' = Given + n /\ Given' + Pending' = Given + Pending + 0
<1>a. PICK t \in BOOLEAN : t
  OBVIOUS
<1>1. u = Pass(dctx, m, dst.at, n, t) /\ SameDict(dctx)
  BY <1>a, FlushedContext
<1>2. /\ dctx \in Contexts(dctx.stored) /\ dctx.dStage \in Decoding
  BY BlockStages DEF Inv, SizeInv, TypeOK
<1>3. n \in Nat /\ Took(dctx', n, 0, n) /\ 0 \in Nat
  BY DEF Came, Took
<1>4. /\ (t <=> dctx.dStage = "flushOut") /\ (t => 0 = 0) /\ (~t => n = 0)
      /\ (t => InTmpOut(m) /\ n <= dctx.tmpOutSize - dctx.tmpOutStart)
      /\ (dctx'.dStage = "flushOut" => t)
      /\ (t /\ dctx'.dStage # "flushOut" => dctx'.tmpOutStart = dctx'.tmpOutSize)
  BY <1>a
<1> QED BY <1>1, <1>2, <1>3, <1>4, PassStep

\* Content in tmpOut is given as room comes.
LEMMA FlushOutStep ==
    ASSUME Inv, pc = "run", StageKeeps, flushOut
    PROVE  Inv'
<1> DEFINE n == IF dst.at = NULL THEN 0 ELSE Lesser(dctx.tmpOutSize - dctx.tmpOutStart, room)
           m == Copied(mem, dst.at, dctx.tmpOut + dctx.tmpOutStart, n)
           u == IF dst.at = NULL THEN [d |-> dctx, mem |-> mem, holds |-> TRUE]
                ELSE Flushed(m, n)
           e == u.d
           start == e.tmpOutStart + n
<1>1. /\ TypeOK /\ CallInv /\ BufferInv /\ stream \in Streams /\ stream' = stream /\ PlaceInv
      /\ dctx \in Contexts(dctx.stored) /\ dctx.dStage = "flushOut" /\ ~failed
      /\ dctx.dStage \in Decoding
  BY BlockStages DEF Inv, SizeInv, CallInv, TypeOK, StageKeeps, flushOut, ReadInv
<1>2. /\ srcPtr' = srcPtr + 0
      /\ dst' = [dst EXCEPT !.at = IF @ = NULL THEN @ ELSE @ + n]
      /\ mem' = u.mem /\ asserts' = (asserts /\ u.holds)
      /\ LET d == [e EXCEPT !.tmpOutStart = @ + n]
         IN  IF d.tmpOutStart = d.tmpOutSize
             THEN Go([d EXCEPT !.dStage = "getBlockHeader"])
             ELSE Stop(d, BHSize)
  BY DEF flushOut, Flushed, Consume
<1>3. /\ srcPtr \in Nat /\ srcEnd \in Nat /\ srcPtr <= srcEnd
      /\ dctx.tmpOutSize \in Nat /\ dctx.tmpOutStart \in Nat
      /\ dst.at \in Int /\ dst.end \in Int /\ dst.at <= dst.end /\ Given \in Nat
  BY <1>1, ContextTypes, GivenType DEF TypeOK, CallInv
<1>a. dctx.tmpOutStart <= dctx.tmpOutSize
  BY <1>1 DEF BufferInv
<1>4. /\ n \in Nat /\ n <= dctx.tmpOutSize - dctx.tmpOutStart
      /\ dst.at # NULL => n <= room /\ dst.at + n <= dst.end
      /\ dst.at # NULL /\ n # dctx.tmpOutSize - dctx.tmpOutStart => dst.at + n = dst.end
  BY <1>3, <1>a DEF Lesser, room
<1>5. Advances /\ srcPtr' = srcPtr
  BY <1>2, <1>3 DEF Advances
<1>6. ASSUME e \in Contexts(e.stored), e.dStage = "flushOut", e.tmpOutSize = dctx.tmpOutSize,
             e.tmpOutStart = dctx.tmpOutStart
      PROVE  /\ dctx' \in Contexts(dctx'.stored) /\ Ended /\ pc' # "idle"
             /\ Kept(dctx', [e EXCEPT !.tmpOutStart = start])
             /\ start = dctx.tmpOutStart + n /\ start \in Nat
             /\ \/ Went /\ dctx'.dStage = "getBlockHeader" /\ start = dctx.tmpOutSize
                \/ Stopped(BHSize) /\ dctx'.dStage = "flushOut" /\ start # dctx.tmpOutSize
  <2> HIDE DEF e, n
  <2>1. start = dctx.tmpOutStart + n /\ start \in Nat
    BY <1>3, <1>4, <1>6
  <2>2. FlushEnds(e, start)
    <3> DEFINE c == [e EXCEPT !.tmpOutStart = start]
    <3>1. [e EXCEPT !.tmpOutStart = @ + n] = c
      BY <1>6 DEF Contexts
    <3>2. c.tmpOutStart = start /\ c.tmpOutSize = e.tmpOutSize
      BY <1>6 DEF Contexts
    <3> HIDE DEF start
    <3>3. IF c.tmpOutStart = c.tmpOutSize THEN Go([c EXCEPT !.dStage = "getBlockHeader"])
          ELSE Stop(c, BHSize)
      BY <1>2, <3>1
    <3> QED BY <3>2, <3>3 DEF FlushEnds
  <2> HIDE DEF start
  <2>3. /\ dctx' \in Contexts(dctx'.stored) /\ Ended
        /\ Kept(dctx', [e EXCEPT !.tmpOutStart = start])
        /\ \/ Went /\ dctx'.dStage = "getBlockHeader" /\ start = e.tmpOutSize
           \/ Stopped(BHSize) /\ dctx'.dStage = "flushOut" /\ start # e.tmpOutSize
    BY <1>6, <2>1, <2>2, FlushEndsSo
  <2> QED BY <1>6, <2>1, <2>3 DEF Went, Stopped
<1>7. ASSUME Settled', Given' + Pending' = Given + Pending, Given' \in Int,
             dctx'.frameInfo = dctx.frameInfo,
             dst'.end = dst.end, dst.at # NULL => dst'.at = dst.at + n,
             dst.at = NULL => dst'.at = dst'.end,
             \/ Went /\ dctx'.dStage = "getBlockHeader"
             \/ /\ Stopped(BHSize) /\ dctx'.dStage = "flushOut"
                /\ n # dctx.tmpOutSize - dctx.tmpOutStart
      PROVE  Inv'
  <2> HIDE DEF n
  <2>1. AtBlock'
    <3>1. PICK i \in DOMAIN stream :
            /\ InFrame(i, {"head", "end"}) /\ srcPtr = stream[i].at
            /\ stream[i].from = Given + Pending + 1
      BY <1>1 DEF PlaceInv, AtBlock
    <3>2. InFrame(i, {"head", "end"})' /\ i \in DOMAIN stream'
      BY <1>1, <1>7, <3>1 DEF InFrame, Reads, Fine
    <3>3. srcPtr' = stream'[i].at /\ stream'[i].from = Given' + Pending' + 1
      <4>1. dctx'.tmpOutSize \in Nat /\ dctx'.tmpOutStart \in Nat
        BY <1>7, ContextTypes DEF Settled, TypeOK
      <4>2. Pending' \in Int /\ Pending \in Int
        BY <1>3, <4>1 DEF Pending
      <4>3. stream[i].from = Given + Pending + 1 /\ Given + Pending = Given' + Pending'
        BY <1>7, <3>1
      <4> QED BY <1>1, <1>3, <1>5, <1>7, <3>1, <4>2, <4>3
    <3> QED BY <3>2, <3>3 DEF AtBlock
  <2>2. TargetInv' /\ PlaceInv' /\ dctx'.dStage # "getFrameHeader"
    BY <1>7, <2>1 DEF TargetInv, PlaceInv
  <2>3. CASE Went
    BY <1>7, <2>2, <2>3, GoesOn
  <2>4. CASE Stopped(BHSize) /\ n # dctx.tmpOutSize - dctx.tmpOutStart
    <3>1. dst'.at = dst'.end
      BY <1>4, <1>7, <2>4
    <3>2. BHSize \in Nat \ {0}
      BY DecoderAssumption
    <3> QED BY <1>7, <2>2, <2>4, <3>1, <3>2, StopsThere
  <2> QED BY <1>7, <2>3, <2>4
<1>8. CASE dst.at = NULL
  <2>1. n = 0 /\ u = [d |-> dctx, mem |-> mem, holds |-> TRUE]
    BY <1>8
  <2>2. e = dctx /\ u.mem = mem /\ u.holds = TRUE
    BY <2>1
  <2>3. dst' = dst /\ dst.end = NULL
    <3>1. dst \in [start : Int, at : Int, end : Int, stable : BOOLEAN]
      BY <1>1 DEF TypeOK, RoomOK
    <3>2. dst' = dst
      BY <1>2, <1>8, <3>1
    <3>3. NULL < DstAt
      BY Addresses DEF NULL
    <3> QED BY <1>1, <1>3, <1>8, <3>1, <3>2, <3>3, Addresses, SMTT(30) DEF TypeOK, RoomOK, NULL
  <2>4. mem' = mem /\ asserts' = asserts
    BY <1>1, <1>2, <2>2 DEF TypeOK
  <2>5. /\ dctx' \in Contexts(dctx'.stored) /\ Ended /\ pc' # "idle"
        /\ Kept(dctx', [dctx EXCEPT !.tmpOutStart = dctx.tmpOutStart])
        /\ \/ Went /\ dctx'.dStage = "getBlockHeader" /\ dctx.tmpOutStart = dctx.tmpOutSize
           \/ /\ Stopped(BHSize) /\ dctx'.dStage = "flushOut"
              /\ dctx.tmpOutStart # dctx.tmpOutSize
    <3>1. /\ e \in Contexts(e.stored) /\ e.dStage = "flushOut"
          /\ e.tmpOutSize = dctx.tmpOutSize /\ e.tmpOutStart = dctx.tmpOutStart
      BY <1>1, <2>2
    <3>2. start = dctx.tmpOutStart
      BY <1>3, <2>1, <2>2
    <3>3. /\ dctx' \in Contexts(dctx'.stored) /\ Ended /\ pc' # "idle"
          /\ Kept(dctx', [e EXCEPT !.tmpOutStart = start])
          /\ \/ Went /\ dctx'.dStage = "getBlockHeader" /\ start = dctx.tmpOutSize
             \/ Stopped(BHSize) /\ dctx'.dStage = "flushOut" /\ start # dctx.tmpOutSize
      BY <1>6, <3>1
    <3> QED BY <2>2, <3>2, <3>3
  <2>6. Kept(dctx', dctx)
    <3>1. [dctx EXCEPT !.tmpOutStart = dctx.tmpOutStart] = dctx
      BY <1>1 DEF Contexts
    <3> QED BY <2>5, <3>1
  <2>7. Settled' /\ Given' = Given /\ Given' + Pending' = Given + Pending
    <3> HIDE DEF n, u, e, start
    <3>1. \/ dctx'.dStage = "flushOut"
          \/ dctx'.dStage = "getBlockHeader" /\ dctx.tmpOutStart = dctx.tmpOutSize
      BY <2>5
    <3>2. UNCHANGED <<dst, mem, asserts>>
      BY <2>3, <2>4
    <3> QED BY <1>1, <1>5, <2>5, <2>6, <3>1, <3>2, FlushNothing
  <2>8. dctx'.frameInfo = dctx.frameInfo
    BY <2>6 DEF Kept
  <2>9. \/ Went /\ dctx'.dStage = "getBlockHeader"
        \/ /\ Stopped(BHSize) /\ dctx'.dStage = "flushOut"
           /\ n # dctx.tmpOutSize - dctx.tmpOutStart
    BY <1>3, <2>1, <2>5
  <2> QED BY <1>3, <1>7, <1>8, <2>3, <2>7, <2>8, <2>9
<1>9. CASE dst.at # NULL
  <2>1. u = Flushed(m, n)
    BY <1>9
  <2>2. Came(m, n) /\ InTmpOut(m)
    <3> HIDE DEF n
    <3> DEFINE k == m
    <3>1. k = Copied(mem, dst.at, dctx.tmpOut + dctx.tmpOutStart, n)
      OBVIOUS
    <3> HIDE DEF k
    <3>2. Came(k, n) /\ InTmpOut(k)
      BY <1>1, <1>4, <1>9, <3>1, FlushCame
    <3> QED BY <3>2 DEF k
  <2>3. dst' = [dst EXCEPT !.at = @ + n] /\ dst'.at = dst.at + n /\ dst'.end = dst.end
    <3> HIDE DEF n
    <3>1. dst \in [start : Int, at : Int, end : Int, stable : BOOLEAN]
      BY <1>1 DEF TypeOK, RoomOK
    <3> QED BY <1>2, <1>9, <3>1
  <2> HIDE DEF m, n
  <2>4. u = Flushed(m, n) /\ e = u.d
    BY <2>1
  <2> HIDE DEF u
  <2>a. PICK t \in BOOLEAN : t
    OBVIOUS
  <2>5. /\ u = Pass(dctx, m, dst.at, n, t) /\ SameDict(dctx)
        /\ u.d \in Contexts(u.d.stored) /\ SameBuffers(u.d) /\ Counted(u.d, 0)
        /\ u.d.tmpOutStart = dctx.tmpOutStart /\ u.d.dStage = "flushOut"
    BY <1>1, <1>4, <2>2, <2>4, <2>a, FlushedContext
  <2>6. /\ dctx' \in Contexts(dctx'.stored) /\ Ended /\ pc' # "idle"
        /\ Kept(dctx', [e EXCEPT !.tmpOutStart = start])
        /\ start = dctx.tmpOutStart + n /\ start \in Nat
        /\ \/ Went /\ dctx'.dStage = "getBlockHeader" /\ start = dctx.tmpOutSize
           \/ Stopped(BHSize) /\ dctx'.dStage = "flushOut" /\ start # dctx.tmpOutSize
    BY <1>6, <2>5 DEF SameBuffers
  <2> HIDE DEF e, start
  <2>7. /\ SameBuffers(dctx') /\ dctx'.dict = u.d.dict /\ dctx'.dictSize = u.d.dictSize
        /\ Counted(dctx', 0) /\ dctx'.tmpOutStart = dctx.tmpOutStart + n
    <3> DEFINE c == [e EXCEPT !.tmpOutStart = start]
    <3>1. /\ c.frameInfo = e.frameInfo /\ c.maxBlockSize = e.maxBlockSize
          /\ c.maxBufferSize = e.maxBufferSize /\ c.tmpInCapacity = e.tmpInCapacity
          /\ c.tmpOut = e.tmpOut /\ c.tmpOutSize = e.tmpOutSize /\ c.dict = e.dict
          /\ c.dictSize = e.dictSize /\ c.hashed = e.hashed
          /\ c.frameRemainingSize = e.frameRemainingSize /\ c.tmpOutStart = start
      BY <2>4, <2>5 DEF Contexts
    <3> HIDE DEF c
    <3>2. Kept(dctx', c)
      BY <2>6 DEF c
    <3>3. SameBuffers(dctx') /\ dctx'.dict = u.d.dict /\ dctx'.dictSize = u.d.dictSize
      BY <2>4, <2>5, <3>1, <3>2 DEF Kept, SameBuffers
    <3>4. Counted(dctx', 0)
      BY <2>4, <2>5, <3>1, <3>2 DEF Kept, Counted
    <3>5. dctx'.tmpOutStart = dctx.tmpOutStart + n
      BY <2>6, <3>1, <3>2 DEF Kept
    <3> QED BY <3>3, <3>4, <3>5
  <2>8. /\ (t <=> dctx.dStage = "flushOut") /\ n = 0 + n /\ 0 \in Nat /\ n \in Nat
        /\ (t => 0 = 0) /\ (~t => n = 0)
        /\ (t => InTmpOut(m) /\ n <= dctx.tmpOutSize - dctx.tmpOutStart)
        /\ dctx'.dStage \in Decoding /\ (dctx'.dStage = "flushOut" => t)
        /\ (t /\ dctx'.dStage # "flushOut" => dctx'.tmpOutStart = dctx'.tmpOutSize)
    <3>1. dctx'.tmpOutSize = dctx.tmpOutSize
      BY <2>7 DEF SameBuffers
    <3>2. dctx'.dStage \in Decoding
      BY <2>6, BlockStages
    <3> QED BY <1>1, <1>4, <2>2, <2>6, <2>7, <2>a, <3>1, <3>2
  <2>9. /\ Settled' /\ Given' = Given + n /\ Given' + Pending' = Given + Pending + 0
    <3> HIDE DEF e
    <3>1. mem' = u.mem /\ asserts' = (asserts /\ u.holds)
      BY <1>2
    <3>2. Settled' /\ Given' = Given + n /\ Given' + Pending' = Given + Pending + 0
      BY <1>1, <1>4, <1>5, <2>2, <2>3, <2>4, <2>6, <2>7, <2>8, <3>1, FlushedStep
    <3> QED BY <3>2
  <2>10. /\ dctx'.frameInfo = dctx.frameInfo /\ Pending \in Int
         /\ Given' + Pending' = Given + Pending /\ Given' \in Int
    <3>1. Pending \in Int
      BY <1>3 DEF Pending
    <3>2. dctx'.frameInfo = dctx.frameInfo
      BY <2>7 DEF SameBuffers
    <3>3. Given' \in Int
      BY <1>3, <1>4, <2>9
    <3>4. Given + Pending + 0 = Given + Pending
      BY <1>3, <3>1
    <3> QED BY <2>9, <3>1, <3>2, <3>3, <3>4
  <2>11. start # dctx.tmpOutSize => n # dctx.tmpOutSize - dctx.tmpOutStart
    BY <1>3, <1>4, <2>6
  <2> QED BY <1>7, <1>9, <2>3, <2>6, <2>9, <2>10, <2>11
<1> QED BY <1>8, <1>9

-----------------------------------------------------------------------------
(* The end of the call                                                       *)

\* What is left alone of the context, and what becomes of the dictionary.
Rest ==
    /\ dctx'.frameInfo = dctx.frameInfo /\ dctx'.dStage = dctx.dStage
    /\ dctx'.frameRemainingSize = dctx.frameRemainingSize
    /\ dctx'.maxBlockSize = dctx.maxBlockSize /\ dctx'.maxBufferSize = dctx.maxBufferSize
    /\ dctx'.tmpInCapacity = dctx.tmpInCapacity /\ dctx'.stored = dctx.stored
    /\ dctx'.tmpInSize = dctx.tmpInSize /\ dctx'.tmpInTarget = dctx.tmpInTarget
    /\ dctx'.tmpOutSize = dctx.tmpOutSize /\ dctx'.tmpOutStart = dctx.tmpOutStart
    /\ dctx'.hashed = dctx.hashed
DictKept ==
    /\ dctx'.tmpOut <= 2 * KB64 /\ Window <= dctx'.dictSize
    /\ \/ dctx'.dict = NULL /\ dctx'.dictSize = 0
       \/ dctx'.dict = 0 /\ dctx'.dictSize <= dctx.maxBufferSize
       \/ DstAt <= dctx'.dict /\ dctx'.dict + dctx'.dictSize <= arena'
    /\ Holds(mem', dctx'.dict + dctx'.dictSize - Window, Window, Given - Window + 1)
    /\ dctx.dStage = "flushOut" =>
          /\ dctx'.dict = 0 => dctx'.dictSize = dctx.tmpOut + dctx.tmpOutStart
          /\ dctx'.tmpOut = dctx.tmpOut /\ InTmpOut(mem')
Preserved ==
    /\ dctx' \in Contexts(dctx'.stored) /\ Rest /\ DOMAIN mem' = 0..DstEnd
    /\ dctx.dStage \in Decoding /\ dctx.frameInfo.linked => DictKept
    /\ dctx.dStage \notin Decoding \/ ~dctx.frameInfo.linked =>
          /\ dctx'.dict = dctx.dict /\ dctx'.dictSize = dctx.dictSize
          /\ dctx'.tmpOut = dctx.tmpOut /\ mem' = mem

\* The window goes in front of the block in tmpOut.
LEMMA HistoryInFront ==
    ASSUME Inv, pc = "preserve", dctx.dStage = "flushOut", dctx.frameInfo.linked,
           mem' = InFrontOfTmpOut(mem, dctx, dctx.dict + dctx.dictSize),
           dctx' = [dctx EXCEPT !.dict = 0, !.dictSize = dctx.tmpOut + dctx.tmpOutStart]
    PROVE  Preserved
<1> DEFINE out == dctx.tmpOut
           start == dctx.tmpOutStart
           len == dctx.tmpOutSize
           W == Window
           g == Given
           size == out + start
<1>1. /\ dctx.dStage \in Decoding /\ dctx \in Contexts(dctx.stored) /\ DOMAIN mem = 0..DstEnd
      /\ ~failed /\ ReadInv
  BY BlockStages DEF Inv, SizeInv, TypeOK, CallInv
<1>2. /\ g \in Nat /\ W \in Int /\ W <= g /\ out \in Nat /\ len \in Nat
      /\ start \in Nat /\ start <= len /\ KB64 \in Nat /\ out <= 2 * KB64
      /\ out + len <= dctx.maxBufferSize /\ dctx.maxBufferSize \in Nat
      /\ Holds(mem, dctx.dict + dctx.dictSize - W, W, g - W + 1)
  BY <1>1, DictIs
<1>3. /\ W <= KB64 - (len - start)
      /\ out >= g - start \/ out >= KB64 - len
      /\ InTmpOut(mem)
  BY <1>1, DictIs DEF Pending, ReadInv, OutInv, InTmpOut
<1>4. /\ DOMAIN mem' = 0..DstEnd /\ InTmpOut(mem')
      /\ Holds(mem', out - (W - start), W - start, g - W + 1)
  <2> DEFINE m2 == InFrontOfTmpOut(mem, dctx, dctx.dict + dctx.dictSize)
  <2>1. SameDict(dctx)
    BY DEF SameDict
  <2>2. /\ DOMAIN m2 = 0..DstEnd /\ \A a \in DstAt..DstEnd : m2[a] = mem[a]
        /\ InTmpOut(m2)
        /\ Holds(m2, out - (W - start), W - start, g - W + 1)
    BY <1>1, <1>2, <1>3, <2>1, MovedInFront
  <2>3. mem' = m2
    OBVIOUS
  <2> HIDE DEF m2
  <2> QED BY <2>2, <2>3
<1>5. Holds(mem', out, len, g - start + 1)
  BY <1>4 DEF InTmpOut
<1>6. /\ size \in Nat /\ W <= size /\ size <= dctx.maxBufferSize
  BY <1>2, <1>3
<1>7. Holds(mem', 0 + size - W, W, g - W + 1)
  <2> DEFINE P == W - start
             b == out - P
             f == g - W + 1
             h == g - start + 1
             c == size - W
  <2>1. /\ b \in Int /\ P \in Int /\ f \in Int /\ out \in Int /\ len \in Int /\ h \in Int
        /\ c \in Int /\ W \in Int
        /\ out <= b + P /\ h - out = f - b /\ c + W <= out + len /\ f - c = f - b
        /\ (b <= c /\ P >= 0) \/ out <= c
    BY <1>2
  <2>2. Holds(mem', b, P, f) /\ Holds(mem', out, len, h)
    BY <1>4, <1>5
  <2>3. 0 + size - W = c
    BY <1>2
  <2> HIDE DEF P, b, f, h, c, out, len, W
  <2>4. Holds(mem', c, W, f)
    BY ONLY <2>1, <2>2, HoldsOf
  <2> QED BY <2>3, <2>4 DEF f
<1> HIDE DEF size
<1>8. dctx' = [dctx EXCEPT !.dict = 0, !.dictSize = size]
  BY DEF size
<1>9. /\ dctx' \in Contexts(dctx'.stored) /\ Rest /\ dctx'.dict = 0 /\ dctx'.dictSize = size
      /\ dctx'.tmpOut = dctx.tmpOut
  <2>1. dctx \in Contexts(dctx.stored) /\ size \in Nat
    BY <1>1, <1>6
  <2> QED BY ONLY <1>8, <2>1 DEF Contexts, Rest
<1>10. Holds(mem', dctx'.dict + dctx'.dictSize - Window, Window, Given - Window + 1)
  BY <1>7, <1>9
<1>11. DictKept
  BY <1>2, <1>4, <1>6, <1>9, <1>10 DEF DictKept, size
<1> QED BY <1>1, <1>4, <1>9, <1>11 DEF Preserved

\* The window goes to the start of tmpOutBuffer.
LEMMA HistoryToStart ==
    ASSUME Inv, pc = "preserve", dctx.dStage \in Decoding \ {"flushOut"}, dctx.frameInfo.linked,
           NEW size, size = Lesser(dctx.dictSize, KB64),
           mem' = Copied(mem, 0, dctx.dict + dctx.dictSize - size, size),
           dctx' = [dctx EXCEPT !.dict = 0, !.dictSize = size, !.tmpOut = size]
    PROVE  Preserved
<1> DEFINE W == Window
           g == Given
           end == dctx.dict + dctx.dictSize
<1>1. /\ dctx.dStage \in Decoding /\ dctx \in Contexts(dctx.stored) /\ DOMAIN mem = 0..DstEnd
      /\ ~failed
  BY BlockStages DEF Inv, SizeInv, TypeOK, CallInv
<1>2. /\ g \in Nat /\ W \in Int /\ W <= dctx.dictSize /\ W <= KB64 - Pending
      /\ KB64 \in Nat /\ dctx.dictSize \in Nat /\ dctx.dict \in Nat \cup {NULL}
      /\ dctx.maxBufferSize \in Nat /\ dctx.maxBlockSize \in Nat
      /\ dctx.maxBlockSize + 2 * KB64 <= dctx.maxBufferSize
      /\ dctx.maxBufferSize <= TmpEnd
      /\ Holds(mem, dctx.dict + dctx.dictSize - W, W, g - W + 1)
  BY <1>1, DictIs
<1>3. Pending = 0
  BY DEF Pending
<1>4. size \in Nat /\ size <= KB64 /\ W <= size /\ size <= dctx.maxBufferSize /\ size <= TmpEnd
  <2>1. size \in Nat /\ size <= KB64 /\ W <= size
    BY <1>2, <1>3 DEF Lesser
  <2> QED BY <1>2, <2>1, Addresses
<1>5. end \in Int
  BY <1>2 DEF NULL
<1>6. /\ DOMAIN mem' = 0..DstEnd /\ Holds(mem', 0 + size - W, W, g - W + 1)
  <2> DEFINE from == end - size  b == end - W  f == g - W + 1  c == 0 + size - W
  <2>1. /\ from \in Int /\ b \in Int /\ f \in Int /\ c \in Int /\ b + W = from + size
        /\ c + W = size /\ W <= W /\ W <= size /\ f + W = f + W /\ W \in Int
        /\ size \in Nat /\ size <= TmpEnd
    BY <1>2, <1>4, <1>5
  <2>2. Holds(mem, b, W, f)
    <3>1. dctx.dict + dctx.dictSize - W = end - W
      BY <1>2 DEF NULL
    <3> QED BY <1>2, <3>1
  <2>3. mem' = Copied(mem, 0, from, size)
    <3>1. dctx.dict + dctx.dictSize - size = from
      BY <1>2, <1>4 DEF NULL
    <3> QED BY <3>1
  <2> HIDE DEF from, b, f, c, W
  <2>4. Holds(Copied(mem, 0, from, size), c, W, f)
    BY <1>1, <2>1, <2>2, MovedToStart
  <2> QED BY <1>1, <2>3, <2>4, CopiedDomain DEF c, f
<1>7. /\ dctx' \in Contexts(dctx'.stored) /\ Rest /\ dctx'.dict = 0 /\ dctx'.dictSize = size
      /\ dctx'.tmpOut = size
  BY <1>1, <1>4 DEF Contexts, Rest
<1>8. Holds(mem', dctx'.dict + dctx'.dictSize - Window, Window, Given - Window + 1)
  BY <1>6, <1>7
<1>9. DictKept
  BY <1>2, <1>4, <1>7, <1>8 DEF DictKept
<1> QED BY <1>1, <1>6, <1>7, <1>9 DEF Preserved

\* Nothing is moved: there is no dictionary, or it stays where it is.
LEMMA HistoryStays ==
    ASSUME Inv, pc = "preserve", UNCHANGED <<dctx, mem>>,
           arena' = IF dst.stable /\ dst.at # NULL THEN dst.at ELSE arena,
           \/ ~dctx.frameInfo.linked \/ dctx.dict \in {0, NULL} \/ dst.stable
           \/ dctx.dStage \notin InBlocks
    PROVE  Preserved
<1>1. /\ dctx \in Contexts(dctx.stored) /\ DOMAIN mem = 0..DstEnd /\ DictInv /\ ~failed
      /\ ReadInv
  BY DEF Inv, SizeInv, TypeOK, CallInv
<1>2. dctx' = dctx /\ mem' = mem /\ Rest
  BY DEF Rest
<1>3. ASSUME dctx.dStage \in Decoding, dctx.frameInfo.linked PROVE DictKept
  <2>1. /\ dctx.tmpOut <= 2 * KB64 /\ Window <= dctx.dictSize
        /\ Holds(mem, dctx.dict + dctx.dictSize - Window, Window, Given - Window + 1)
    BY <1>3, DictIs
  <2>2. \/ dctx.dict = NULL /\ dctx.dictSize = 0
        \/ dctx.dict = 0 /\ dctx.dictSize <= dctx.maxBufferSize
        \/ DstAt <= dctx.dict /\ dctx.dict + dctx.dictSize <= Stays
    BY <1>1, <1>3 DEF DictInv
  <2>3. DstAt <= dctx.dict => Stays = arena'
    <3>1. dctx.dStage \in InBlocks
      BY <1>3 DEF Decoding
    <3>2. DstAt <= dctx.dict => dctx.dict \notin {0, NULL}
      BY Addresses DEF NULL
    <3> QED BY <1>3, <3>1, <3>2 DEF Stays
  <2>4. dctx.dStage = "flushOut" =>
           /\ dctx.dict = 0 => dctx.dictSize = dctx.tmpOut + dctx.tmpOutStart
           /\ InTmpOut(mem)
    BY <1>1, <1>3 DEF DictInv, ReadInv, OutInv, InTmpOut
  <2> QED BY <1>2, <2>1, <2>2, <2>3, <2>4 DEF DictKept
<1> QED BY <1>1, <1>2, <1>3 DEF Preserved

\* The window outlives a dst that does not stay.
LEMMA HistoryPreserved ==
    ASSUME Inv, PreserveHistory
    PROVE  Preserved
<1> DEFINE d == dctx
           end == d.dict + d.dictSize
           size == Lesser(d.dictSize, KB64)
           move == /\ d.frameInfo.linked /\ d.dict \notin {0, NULL}
                   /\ ~dst.stable /\ d.dStage \in InBlocks
<1>1. /\ pc = "preserve" /\ arena' = IF dst.stable /\ dst.at # NULL THEN dst.at ELSE arena
      /\ IF ~move THEN UNCHANGED <<dctx, mem>>
         ELSE IF d.dStage = "flushOut"
         THEN /\ mem' = InFrontOfTmpOut(mem, d, end)
              /\ dctx' = [d EXCEPT !.dict = 0, !.dictSize = d.tmpOut + d.tmpOutStart]
         ELSE /\ mem' = Copied(mem, 0, end - size, size)
              /\ dctx' = [d EXCEPT !.dict = 0, !.dictSize = size, !.tmpOut = size]
  BY DEF PreserveHistory
<1>2. CASE ~move
  BY <1>1, <1>2, HistoryStays
<1>3. CASE move /\ d.dStage = "flushOut"
  BY <1>1, <1>3, HistoryInFront
<1>4. CASE move /\ d.dStage # "flushOut"
  <2>1. d.dStage \in Decoding \ {"flushOut"}
    <3>1. d.dStage # "init"
      BY <1>4 DEF Inv, SizeInv, DictInv
    <3> QED BY <1>4, <3>1 DEF Decoding
  <2> DEFINE s == size
  <2>2. /\ mem' = Copied(mem, 0, dctx.dict + dctx.dictSize - s, s)
        /\ dctx' = [dctx EXCEPT !.dict = 0, !.dictSize = s, !.tmpOut = s]
        /\ s = Lesser(dctx.dictSize, KB64)
    <3>1. dctx.dict + dctx.dictSize - s = end - s
      <4>1. dctx \in Contexts(dctx.stored) /\ KB64 \in Nat
        BY BlockSizes DEF Inv, SizeInv, TypeOK
      <4>2. dctx.dict \in Nat \cup {NULL} /\ dctx.dictSize \in Nat
        BY <4>1, ContextTypes
      <4>3. s \in Nat
        BY <4>1, <4>2 DEF Lesser
      <4> HIDE DEF s
      <4> QED BY <4>2, <4>3 DEF NULL
    <3> QED BY <1>1, <1>4, <3>1
  <2> HIDE DEF s
  <2> QED BY <1>1, <1>4, <2>1, <2>2, HistoryToStart
<1> QED BY <1>2, <1>3, <1>4

\* A call that ends between frames has read all of one, and the next begins there.
LEMMA NextFrame ==
    ASSUME Inv, pc = "preserve", dctx.dStage = "getFrameHeader"
    PROVE  AtFrame
<1>1. stream \in Streams /\ ret.hint = 0 /\ CompleteMeansWhole /\ srcPtr \in Nat
  BY DEF Inv, SizeInv, TypeOK, PastInv, DoneInv
<1>2. PICK i \in DOMAIN stream :
        /\ EndOf(stream[i]) = srcPtr - 1 /\ stream[i].last
        /\ \A j \in 1..i : stream[j].ok
  BY <1>1 DEF CompleteMeansWhole
<1>3. /\ i \in Nat /\ DOMAIN stream = 1..Len(stream) /\ Len(stream) \in Nat
      /\ stream[i].at \in Nat /\ stream[i].size \in Nat
  BY <1>1, FieldTypes
<1>4. srcPtr = stream[i].at + stream[i].size
  BY <1>1, <1>2, <1>3 DEF EndOf
<1>5. CASE i = Len(stream)
  <2>1. srcPtr = Total + 1
    BY <1>1, <1>4, <1>5, InputEnds
  <2> QED BY <2>1 DEF AtFrame
<1>6. CASE i # Len(stream)
  <2> DEFINE l == i + 1
  <2>0. /\ i + 1 \in DOMAIN stream /\ stream[i + 1].at = stream[i].at + stream[i].size
        /\ Follows(stream[i], stream[i + 1])
    BY <1>1, <1>6, NextField
  <2>a. Begins(stream[i + 1])
    BY <1>2, <2>0 DEF Follows
  <2>1. /\ l \in DOMAIN stream /\ stream[l].at = srcPtr /\ Begins(stream[l])
    BY <1>4, <2>0, <2>a
  <2>2. Fine(l)
    BY <1>2, <1>3 DEF Fine
  <2> HIDE DEF l
  <2>3. Reads(l, {"frame", "skip"})
    BY <2>1, <2>2 DEF Reads, Begins
  <2> QED BY <2>1, <2>3 DEF AtFrame
<1> QED BY <1>5, <1>6

\* The end of a call.
LEMMA PreserveStep ==
    ASSUME Inv, PreserveHistory
    PROVE  Inv'
<1>1. /\ SizeInv /\ TypeOK /\ CallInv /\ BufferInv /\ TargetInv /\ DictInv /\ ~failed
      /\ ReadInv /\ PastInv /\ RemainingInv /\ pc = "preserve"
      /\ dctx \in Contexts(dctx.stored)
  BY DEF Inv, SizeInv, PastInv, CallInv, TypeOK, PreserveHistory
<1>2. /\ pc' = "idle" /\ arena' = (IF dst.stable /\ dst.at # NULL THEN dst.at ELSE arena)
      /\ sent' = sent + dst.at - dst.start /\ srcStart' = 1 /\ srcEnd' = 1 /\ dst' = NoRoom
      /\ stream' = stream /\ srcPtr' = srcPtr /\ ret' = ret /\ asserts' = asserts
      /\ carried' = carried
  BY DEF PreserveHistory, NoCall
<1>3. Preserved
  BY HistoryPreserved
<1>4. /\ dctx' \in Contexts(dctx'.stored) /\ Rest /\ DOMAIN mem' = 0..DstEnd
      /\ dctx.dStage \in Decoding /\ dctx.frameInfo.linked => DictKept
      /\ dctx.dStage \notin Decoding \/ ~dctx.frameInfo.linked =>
            /\ dctx'.dict = dctx.dict /\ dctx'.dictSize = dctx.dictSize
            /\ dctx'.tmpOut = dctx.tmpOut /\ mem' = mem
  BY <1>3 DEF Preserved
<1>5. /\ dctx'.frameInfo = dctx.frameInfo /\ dctx'.dStage = dctx.dStage
      /\ dctx'.frameRemainingSize = dctx.frameRemainingSize
      /\ dctx'.maxBlockSize = dctx.maxBlockSize /\ dctx'.maxBufferSize = dctx.maxBufferSize
      /\ dctx'.tmpInCapacity = dctx.tmpInCapacity /\ dctx'.stored = dctx.stored
      /\ dctx'.tmpInSize = dctx.tmpInSize /\ dctx'.tmpInTarget = dctx.tmpInTarget
      /\ dctx'.tmpOutSize = dctx.tmpOutSize /\ dctx'.tmpOutStart = dctx.tmpOutStart
      /\ dctx'.hashed = dctx.hashed
  BY <1>4 DEF Rest
<1>6. /\ dst'.start = NULL /\ dst'.at = NULL /\ dst'.end = NULL /\ dst'.stable \in BOOLEAN
      /\ dst' \in [start : Int, at : Int, end : Int, stable : BOOLEAN] /\ NULL \in Int
  BY <1>2 DEF NoRoom, NULL
<1>7. Given \in Nat /\ Given' = Given /\ sent' = Given
  <2>1. /\ Given \in Nat /\ sent \in Nat /\ dst.at \in Int /\ dst.start \in Int
        /\ Given = sent + (dst.at - dst.start)
    BY <1>1, GivenType
  <2>2. sent' = Given
    BY <1>2, <2>1
  <2>3. Given' = sent'
    BY <1>6, <2>1, <2>2 DEF Given
  <2> QED BY <2>1, <2>2, <2>3
<1>8. Pending' = Pending /\ Window' = Window
  BY <1>5, <1>7 DEF Pending, Window
<1>9. failed' = failed /\ ~failed'
  BY <1>1, <1>2 DEF failed
<1>10. TypeOK' /\ CallInv'
  <2>1. arena' \in DstAt..(DstEnd + 1)
    <3>1. dst.at \in Int /\ dst.end \in Int /\ dst.start \in Int
      BY <1>1, GivenType
    <3>2. dst.at # NULL => DstAt <= dst.at /\ dst.at <= DstEnd + 1
      <4>1. \/ dst.start = NULL /\ dst.at = NULL /\ dst.end = NULL
            \/ /\ DstAt <= dst.start /\ dst.start <= dst.at /\ dst.at <= dst.end
               /\ dst.end <= DstEnd + 1
        BY <1>1 DEF TypeOK, RoomOK
      <4>2. DstAt \in Nat /\ DstEnd \in Nat
        BY Addresses
      <4> QED BY <3>1, <4>1, <4>2
    <3>3. arena \in DstAt..(DstEnd + 1) /\ DstAt \in Nat /\ DstEnd \in Nat
      BY <1>1, Addresses DEF TypeOK
    <3> QED BY <1>2, <3>1, <3>2, <3>3
  <2>2. RoomOK'
    BY <1>6 DEF RoomOK
  <2>3. TypeOK'
    BY <1>1, <1>2, <1>4, <1>7, <2>1, <2>2 DEF TypeOK
  <2>4. CallInv'
    <3>1. Total' = Total
      BY <1>2 DEF Total
    <3> QED BY <1>1, <1>2, <1>6, <3>1 DEF CallInv
  <2> QED BY <2>3, <2>4
<1>11. BufferInv'
  <2>1. bufferNeeded' = bufferNeeded
    BY <1>5 DEF bufferNeeded
  <2>2. dctx.dStage \in Decoding =>
           dctx'.tmpOut <= (IF dctx.frameInfo.linked THEN 2 * KB64 ELSE 0)
    BY <1>1, <1>4 DEF BufferInv, DictKept
  <2> QED BY <1>1, <1>5, <2>1, <2>2 DEF BufferInv
<1>12. TargetInv'
  BY <1>1, <1>5 DEF TargetInv
<1>13. DictInv'
  <2>1. Stays' = arena'
    BY <1>2 DEF Stays
  <2>2. CASE dctx.dStage \in Decoding /\ dctx.frameInfo.linked
    <3>1. dctx'.dStage \notin Before \cup {"init"}
      BY <1>5, <2>2, BlockStages
    <3>2. DictKept
      BY <1>4, <2>2
    <3>3. /\ dctx'.dStage = "flushOut" /\ dctx'.dict = 0 =>
                dctx'.dictSize = dctx'.tmpOut + dctx'.tmpOutStart
          /\ \/ dctx'.dict = NULL /\ dctx'.dictSize = 0
             \/ dctx'.dict = 0 /\ dctx'.dictSize <= dctx'.maxBufferSize
             \/ DstAt <= dctx'.dict /\ dctx'.dict + dctx'.dictSize <= arena'
      BY <1>5, <3>2 DEF DictKept
    <3> QED BY <1>5, <2>1, <2>2, <3>1, <3>3 DEF DictInv
  <2>3. CASE ~(dctx.dStage \in Decoding /\ dctx.frameInfo.linked)
    <3>1. dctx'.dict = dctx.dict /\ dctx'.dictSize = dctx.dictSize
      BY <1>4, <2>3
    <3>2. CASE ~dctx.frameInfo.linked
      BY <1>1, <1>5, <3>1, <3>2 DEF DictInv
    <3>3. CASE dctx.dStage \notin Decoding
      <4>1. dctx.dStage # "flushOut"
        BY <3>3, BlockStages
      <4> QED BY <1>1, <1>5, <3>1, <3>3, <4>1 DEF DictInv
    <3> QED BY <2>3, <3>2, <3>3
  <2> QED BY <2>2, <2>3
<1>14. PlaceInv'
  <2>1. dctx.dStage = "getFrameHeader" => AtFrame'
    <3>1. dctx.dStage = "getFrameHeader" => AtFrame
      BY <1>1, NextFrame
    <3> QED BY <1>2, <3>1 DEF AtFrame, Reads, Fine, Total
  <2>2. dctx.dStage = "storeFrameHeader" => InHeader'
    BY <1>1, <1>2, <1>5 DEF ReadInv, PlaceInv, InHeader, Reads, Fine, Collects, StoredFrom, Stores
  <2>3. dctx.dStage = "getSFrameSize" => AtSkipSize'
    BY <1>1, <1>2, <1>5 DEF ReadInv, PlaceInv, AtSkipSize, Reads, Fine
  <2>4. dctx.dStage = "storeSFrameSize" => InSkipSize'
    BY <1>1, <1>2, <1>5 DEF ReadInv, PlaceInv, InSkipSize, Reads, Fine, StoredFrom, Stores
  <2>5. dctx.dStage = "skipSkippable" => InSkipped'
    BY <1>1, <1>2, <1>5 DEF ReadInv, PlaceInv, InSkipped, Reads, Fine
  <2>6. dctx.dStage \in {"init", "getBlockHeader", "flushOut"} => AtBlock'
    BY <1>1, <1>2, <1>5, <1>7, <1>8 DEF ReadInv, PlaceInv, AtBlock, InFrame, Reads, Fine
  <2>7. dctx.dStage = "storeBlockHeader" => InBlockHeader'
    BY <1>1, <1>2, <1>5, <1>7 DEF ReadInv, PlaceInv, InBlockHeader, InFrame, Reads, Fine,
                                   Collects, StoredFrom, Stores
  <2>8. dctx.dStage = "copyDirect" => InRaw'
    BY <1>1, <1>2, <1>5, <1>7 DEF ReadInv, PlaceInv, InRaw, InFrame, Reads, Fine
  <2>9. dctx.dStage = "getBlockChecksum" => InBlockSum'
    BY <1>1, <1>2, <1>5, <1>7 DEF ReadInv, PlaceInv, InBlockSum, InFrame, Reads, Fine,
                                   Collects, StoredFrom, Stores
  <2>10. dctx.dStage = "getCBlock" => AtPacked'
    BY <1>1, <1>2, <1>5, <1>7 DEF ReadInv, PlaceInv, AtPacked, InFrame, Reads, Fine, SumSize
  <2>11. dctx.dStage = "storeCBlock" => InPacked'
    BY <1>1, <1>2, <1>5, <1>7 DEF ReadInv, PlaceInv, InPacked, InFrame, Reads, Fine, SumSize,
                                   Collects, StoredFrom, Stores
  <2>12. dctx.dStage # "getSuffix"
    BY <1>1 DEF ReadInv, PlaceInv, AfterEnd
  <2>13. dctx.dStage = "storeSuffix" => InSuffix'
    BY <1>1, <1>2, <1>5, <1>7 DEF ReadInv, PlaceInv, InSuffix, InFrame, Reads, Fine,
                                   Collects, StoredFrom, Stores
  <2> QED BY ONLY <1>5, <2>1, <2>2, <2>3, <2>4, <2>5, <2>6, <2>7, <2>8, <2>9, <2>10, <2>11,
                  <2>12, <2>13 DEF PlaceInv
<1>15. CountInv'
  BY <1>1, <1>2, <1>5, <1>7, <1>8 DEF ReadInv, CountInv
<1>16. WindowInv'
  BY <1>4, <1>5, <1>7, <1>8 DEF WindowInv, DictKept
<1>17. OutInv'
  <2> SUFFICES ASSUME dctx.dStage = "flushOut" PROVE OutInv'
    BY <1>5 DEF OutInv
  <2>1. dctx.dStage \in Decoding
    BY BlockStages
  <2>2. dctx'.tmpOut = dctx.tmpOut /\ InTmpOut(mem')
    <3>1. InTmpOut(mem)
      BY <1>1 DEF ReadInv, OutInv, InTmpOut
    <3> QED BY <1>4, <2>1, <3>1 DEF DictKept
  <2> QED BY <1>1, <1>5, <1>7, <2>2 DEF ReadInv, OutInv, InTmpOut
<1>18. RemainingInv'
  BY <1>1, <1>2, <1>5 DEF RemainingInv
<1>19. DoneInv' /\ FailInv' /\ OutputIsContent' /\ CompleteMeansWhole' /\ Progress'
  BY <1>2, <1>9 DEF DoneInv, FailInv, OutputIsContent, CompleteMeansWhole, Progress
<1> QED BY <1>10, <1>11, <1>12, <1>13, <1>14, <1>15, <1>16, <1>17, <1>18, <1>19
        DEF Inv, SizeInv, PastInv, ReadInv

\* One turn of the loop of LZ4F_decompress.
LEMMA StageStep ==
    ASSUME Inv, Stage
    PROVE  Inv'
<1>1. pc = "run" /\ StageKeeps
  BY DEF Stage, StageKeeps
<1>2. \/ getFrameHeader \/ storeFrameHeader \/ init
      \/ getBlockHeader \/ storeBlockHeader
      \/ copyDirect \/ getBlockChecksum \/ getCBlock \/ storeCBlock \/ flushOut
      \/ getSuffix \/ storeSuffix
      \/ getSFrameSize \/ storeSFrameSize \/ skipSkippable
  BY DEF Stage
<1>3. CASE getFrameHeader \/ storeFrameHeader \/ init
  BY <1>1, <1>3, GetFrameHeaderStep, StoreFrameHeaderStep, InitStep
<1>4. CASE getBlockHeader \/ storeBlockHeader \/ copyDirect \/ getBlockChecksum
  BY <1>1, <1>4, GetBlockHeaderStep, StoreBlockHeaderStep, CopyDirectStep, GetBlockChecksumStep
<1>5. CASE getCBlock \/ storeCBlock \/ flushOut
  BY <1>1, <1>5, GetCBlockStep, StoreCBlockStep, FlushOutStep
<1>6. CASE getSuffix \/ storeSuffix
  BY <1>1, <1>6, GetSuffixStep, StoreSuffixStep
<1>7. CASE getSFrameSize \/ storeSFrameSize \/ skipSkippable
  BY <1>1, <1>7, GetSFrameSizeStep, StoreSFrameSizeStep, SkipSkippableStep
<1> QED BY <1>2, <1>3, <1>4, <1>5, <1>6, <1>7

-----------------------------------------------------------------------------
(* The caller                                                                *)

\* Memory that a new call leaves alone: tmpOutBuffer, and what was given before
\* in room that stays. It holds the dictionary and tmpOut.
LEMMA MemoryStays ==
    ASSUME TypeOK, BufferInv, DictInv, pc = "idle", ~failed, dctx.dStage \in Decoding,
           NEW m, DOMAIN m = DOMAIN mem, \A p \in DOMAIN mem : p < arena => m[p] = mem[p],
           NEW w \in Int, w <= dctx.dictSize, NEW f \in Int,
           Holds(mem, dctx.dict + dctx.dictSize - w, w, f)
    PROVE  Holds(m, dctx.dict + dctx.dictSize - w, w, f)
<1>1. /\ dctx \in Contexts(dctx.stored) /\ DOMAIN mem = 0..DstEnd
      /\ arena \in DstAt..(DstEnd + 1) /\ Stays = arena
  BY DEF TypeOK, Stays
<1>2. /\ dctx.dictSize \in Nat /\ dctx.dict \in Nat \cup {NULL} /\ dctx.maxBufferSize \in Nat
      /\ DstAt \in Nat /\ DstEnd \in Nat
  BY <1>1, ContextTypes, Addresses
<1>3. CASE w <= 0
  BY <1>3 DEF Holds
<1>4. CASE ~(w <= 0)
  <2>0. dctx.dict # NULL
    BY <1>2, <1>4, Addresses DEF DictInv, NULL
  <2> DEFINE end == dctx.dict + dctx.dictSize
  <2>1. end \in Nat /\ end <= arena
    <3>1. CASE dctx.dict = 0
      <4>1. dctx.dictSize <= dctx.maxBufferSize
        BY <1>2, <2>0, <3>1, Addresses DEF DictInv, NULL
      <4>2. dctx.maxBufferSize <= MaxBlock + 2 * KB64
        <5>1. CASE dctx.maxBufferSize = 0
          BY <5>1, BlockSizes
        <5>2. CASE dctx.maxBufferSize # 0
          <6>1. PICK id \in DOMAIN blockSizes :
                   dctx.maxBufferSize \in {blockSizes[id], blockSizes[id] + 2 * KB64}
            BY <5>2 DEF BufferInv
          <6> QED BY <6>1, BlockSizes
        <5> QED BY <5>1, <5>2
      <4>3. arena \in Nat /\ arena >= MaxBlock + 2 * KB64
        BY <1>1, <1>2, Addresses, SMTT(30)
      <4>4. MaxBlock \in Nat /\ KB64 \in Nat
        BY BlockSizes
      <4> QED BY <1>2, <3>1, <4>1, <4>2, <4>3, <4>4
    <3>2. CASE dctx.dict # 0
      <4>1. dctx.dict + dctx.dictSize <= Stays
        BY <2>0, <3>2 DEF DictInv
      <4>2. dctx.dict \in Nat
        BY <1>2, <2>0
      <4> QED BY <1>1, <1>2, <4>1, <4>2
    <3> QED BY <3>1, <3>2
  <2> HIDE DEF end
  <2>2. end - w \in Int /\ arena \in Nat /\ arena <= DstEnd + 1
    BY <1>1, <1>2, <2>1
  <2>3. end - w >= 0
    <3>1. end = dctx.dict + dctx.dictSize /\ dctx.dict \in Nat
      BY <1>2, <2>0 DEF end
    <3> QED BY <1>2, <3>1
  <2>4. dctx.dict + dctx.dictSize - w = end - w
    BY <1>2, <2>0 DEF end, NULL
  <2>5. \A a \in (end - w)..(end - w + w - 1) : a \in 0..DstEnd /\ a < arena
    BY <1>2, <2>1, <2>2, <2>3
  <2>6. \A a \in (end - w)..(end - w + w - 1) : m[a] = mem[a]
    BY <1>1, <2>5
  <2>7. Holds(mem, end - w, w, f)
    BY <2>4
  <2>8. Holds(m, end - w, w, f)
    BY <2>2, <2>6, <2>7, HoldsSame
  <2> QED BY <2>4, <2>8
<1> QED BY <1>3, <1>4

\* So it is with tmpOut.
LEMMA TmpOutStays ==
    ASSUME TypeOK, BufferInv, dctx.dStage = "flushOut",
           NEW m, DOMAIN m = DOMAIN mem, \A p \in DOMAIN mem : p < arena => m[p] = mem[p],
           NEW f \in Int, Holds(mem, dctx.tmpOut, dctx.tmpOutSize, f)
    PROVE  Holds(m, dctx.tmpOut, dctx.tmpOutSize, f)
<1>1. /\ dctx \in Contexts(dctx.stored) /\ DOMAIN mem = 0..DstEnd
      /\ arena \in DstAt..(DstEnd + 1)
  BY DEF TypeOK
<1>2. dctx.tmpOut \in Nat /\ dctx.tmpOutSize \in Nat /\ DstAt \in Nat /\ DstEnd \in Nat
      /\ DstAt <= arena /\ arena \in Nat /\ DstAt <= DstEnd
  <2>1. MaxDst \in Nat /\ DstEnd = DstAt + MaxDst /\ DstAt \in Nat
    BY Addresses
  <2> QED BY <1>1, <2>1, ContextTypes
<1>3. dctx.tmpOut + dctx.tmpOutSize <= DstAt
  <2>1. dctx.tmpOut <= 2 * KB64 /\ dctx.tmpOutSize <= MaxBlock
    <3>1. dctx.dStage \in Decoding
      BY BlockStages
    <3>2. /\ dctx.tmpOutSize <= dctx.maxBlockSize
          /\ dctx.tmpOut <= (IF dctx.frameInfo.linked THEN 2 * KB64 ELSE 0)
      BY <3>1 DEF BufferInv
    <3>3. dctx.frameInfo.blockSizeID \in DOMAIN blockSizes
          /\ dctx.maxBlockSize = blockSizes[dctx.frameInfo.blockSizeID]
      BY <3>1, BlockStages DEF BufferInv
    <3>4. dctx.maxBlockSize \in Nat /\ dctx.maxBlockSize <= MaxBlock
          /\ MaxBlock \in Nat /\ KB64 \in Nat
      BY <3>3, BlockSizes
    <3> QED BY <1>2, <3>2, <3>4
  <2>2. MaxBlock \in Nat /\ KB64 \in Nat /\ DstAt = MaxBlock + 2 * KB64 + 1
    BY BlockSizes, Addresses
  <2> QED BY <1>2, <2>1, <2>2
<1>4. \A a \in dctx.tmpOut..(dctx.tmpOut + dctx.tmpOutSize - 1) : a \in 0..DstEnd /\ a < arena
  BY <1>2, <1>3
<1>5. \A a \in dctx.tmpOut..(dctx.tmpOut + dctx.tmpOutSize - 1) : m[a] = mem[a]
  BY <1>1, <1>4
<1> QED BY <1>2, <1>5, HoldsSame

\* What a new call is given.
LEMMA CallIs ==
    ASSUME Inv, LZ4F_decompress
    PROVE  LET from == IF between THEN DstAt ELSE arena
           IN  /\ pc = "idle" /\ ~failed /\ pc' = "run" /\ ~failed' /\ ret' \in [error : Errors \cup {"none"}, hint : Nat]
               /\ RoomOK' /\ dst'.start = dst'.at
               /\ dst'.at # NULL => dst'.at = from /\ from \in Nat
               /\ srcPtr' = srcPtr /\ srcStart' = srcPtr /\ srcEnd' \in Nat
               /\ srcPtr <= srcEnd' /\ srcEnd' <= Total + 1 /\ Total' = Total
               /\ DOMAIN mem' = DOMAIN mem
               /\ ~between => \A p \in DOMAIN mem : p < arena => mem'[p] = mem[p]
               /\ arena' = from /\ from \in DstAt..(DstEnd + 1)
               /\ sent' = IF between THEN 0 ELSE sent
               /\ UNCHANGED <<stream, dctx, carried, asserts>>
<1> DEFINE from == IF between THEN DstAt ELSE arena
<1>1. /\ TypeOK /\ CallInv /\ stream \in Streams /\ pc = "idle" /\ ~failed
      /\ arena \in DstAt..(DstEnd + 1) /\ srcPtr \in Nat /\ srcPtr <= Total + 1
      /\ DOMAIN mem = 0..DstEnd /\ ret \in [error : Errors \cup {"none"}, hint : Nat]
  BY DEF Inv, SizeInv, TypeOK, CallInv, LZ4F_decompress
<1>2. PICK n \in Chunks, space \in Rooms \cup {NULL}, stable \in BOOLEAN :
         /\ from + space - 1 <= DstEnd
         /\ srcEnd' = Lesser(srcPtr + n, Total + 1)
         /\ dst' = IF space = NULL
                   THEN [NoRoom EXCEPT !.stable = stable]
                   ELSE [start |-> from, at |-> from, end |-> from + space, stable |-> stable]
         /\ mem' = [p \in DOMAIN mem |-> IF between \/ p >= from THEN Junk ELSE mem[p]]
         /\ arena' = from
         /\ sent' = IF between THEN 0 ELSE sent
  BY DEF LZ4F_decompress
<1>3. /\ srcStart' = srcPtr /\ pc' = "run" /\ ret' = [ret EXCEPT !.hint = 1]
      /\ UNCHANGED <<stream, srcPtr, dctx, carried, asserts>>
  BY DEF LZ4F_decompress
<1>4. /\ n \in Nat /\ Total \in Nat /\ DstAt \in Nat /\ DstEnd \in Nat /\ MaxDst \in Nat
      /\ DstEnd = DstAt + MaxDst
  BY <1>1, InputEnds, Addresses, DecoderAssumption
<1>5. from \in DstAt..(DstEnd + 1) /\ from \in Nat
  BY <1>1, <1>4
<1>6. ~failed' /\ ret' \in [error : Errors \cup {"none"}, hint : Nat]
  BY <1>1, <1>3 DEF failed
<1>7. srcEnd' \in Nat /\ srcPtr <= srcEnd' /\ srcEnd' <= Total + 1
  BY <1>1, <1>2, <1>4 DEF Lesser
<1>8. Total' = Total
  BY <1>3 DEF Total
<1> HIDE DEF from
<1>9. ~between => \A p \in DOMAIN mem : p < arena => mem'[p] = mem[p]
  <2> SUFFICES ASSUME ~between, NEW p \in DOMAIN mem, p < arena PROVE mem'[p] = mem[p]
    OBVIOUS
  <2>1. from = arena /\ p \in Nat /\ arena \in Nat
    BY <1>1, <1>4 DEF from
  <2> QED BY <1>2, <2>1
<1>10. DOMAIN mem' = DOMAIN mem
  BY <1>2
<1>11. RoomOK' /\ dst'.start = dst'.at /\ (dst'.at # NULL => dst'.at = from)
  <2>1. CASE space = NULL
    <3>1. dst' = [start |-> NULL, at |-> NULL, end |-> NULL, stable |-> stable]
      BY <1>2, <2>1 DEF NoRoom
    <3>2. NULL \in Int
      BY DEF NULL
    <3> QED BY <3>1, <3>2 DEF RoomOK
  <2>2. CASE space # NULL
    <3>1. space \in Nat
      BY <2>2, DecoderAssumption
    <3>2. dst' = [start |-> from, at |-> from, end |-> from + space, stable |-> stable]
      BY <1>2, <2>2
    <3>3. /\ from + space \in Int /\ from \in Int /\ DstAt <= from /\ from <= from + space
          /\ from + space <= DstEnd + 1
      BY <1>2, <1>4, <1>5, <3>1
    <3>4. /\ dst'.start = from /\ dst'.at = from /\ dst'.end = from + space
          /\ dst' \in [start : Int, at : Int, end : Int, stable : BOOLEAN]
      BY <3>2, <3>3
    <3> QED BY <3>3, <3>4 DEF RoomOK
  <2> QED BY <2>1, <2>2
<1> QED BY <1>1, <1>2, <1>3, <1>5, <1>6, <1>7, <1>8, <1>9, <1>10, <1>11 DEF from

\* A new call, for the same frame or the next.
LEMMA DecompressStep ==
    ASSUME Inv, LZ4F_decompress
    PROVE  Inv'
<1> DEFINE from == IF between THEN DstAt ELSE arena
<1>1. /\ SizeInv /\ TypeOK /\ CallInv /\ BufferInv /\ TargetInv /\ DictInv /\ RemainingInv
      /\ ReadInv /\ PlaceInv /\ CountInv /\ WindowInv /\ OutInv
      /\ dctx \in Contexts(dctx.stored) /\ pc = "idle" /\ ~failed
  BY CallIs DEF Inv, SizeInv, PastInv, ReadInv, TypeOK
<1>2. /\ pc' = "run" /\ ~failed' /\ ret' \in [error : Errors \cup {"none"}, hint : Nat]
      /\ RoomOK' /\ dst'.start = dst'.at
      /\ dst'.at # NULL => dst'.at = from /\ from \in Nat
      /\ srcPtr' = srcPtr /\ srcStart' = srcPtr /\ srcEnd' \in Nat
      /\ srcPtr <= srcEnd' /\ srcEnd' <= Total + 1 /\ Total' = Total
      /\ DOMAIN mem' = DOMAIN mem
      /\ ~between => \A p \in DOMAIN mem : p < arena => mem'[p] = mem[p]
      /\ arena' = from /\ from \in DstAt..(DstEnd + 1)
      /\ sent' = IF between THEN 0 ELSE sent
      /\ stream' = stream /\ dctx' = dctx /\ carried' = carried /\ asserts' = asserts
  BY CallIs
<1>3. between <=> dctx.dStage = "getFrameHeader"
  BY <1>1 DEF between
<1> HIDE DEF from
<1>4. TypeOK'
  <2>1. sent' \in Nat /\ srcPtr \in Nat
    BY <1>1, <1>2 DEF TypeOK
  <2> QED BY <1>1, <1>2, <2>1 DEF TypeOK
<1>5. CallInv'
  BY <1>1, <1>2 DEF CallInv, TypeOK
<1>6. Given' = sent' /\ Given = sent /\ (~between => Given' = Given)
  <2>1. dst'.at \in Int /\ dst'.start \in Int /\ sent' \in Nat
    BY <1>4 DEF TypeOK, RoomOK
  <2>2. dst.at \in Int /\ dst.start \in Int /\ sent \in Nat /\ dst.at = dst.start
    BY <1>1 DEF TypeOK, RoomOK, CallInv
  <2>3. Given' = sent'
    BY <1>2, <2>1 DEF Given
  <2>4. Given = sent
    BY <2>2 DEF Given
  <2> QED BY <1>2, <2>3, <2>4
<1>7. Pending' = Pending /\ (~between => Window' = Window)
  BY <1>2, <1>6 DEF Pending, Window
<1>8. BufferInv' /\ TargetInv' /\ RemainingInv'
  BY <1>1, <1>2 DEF BufferInv, bufferNeeded, TargetInv, RemainingInv
<1>9. DictInv'
  <2>1. CASE between
    BY <1>1, <1>2, <1>3, <2>1, BlockStages, BeforeStages DEF DictInv
  <2>2. CASE ~between
    <3>1. Stays' = arena /\ Stays = arena
      BY <1>1, <1>2, <2>2 DEF Stays, from
    <3> QED BY <1>1, <1>2, <3>1 DEF DictInv
  <2> QED BY <2>1, <2>2
<1>10. PlaceInv'
  <2>1. dctx.dStage = "getFrameHeader" => AtFrame'
    BY <1>1, <1>2 DEF PlaceInv, AtFrame, Reads, Fine
  <2>2. dctx.dStage = "storeFrameHeader" => InHeader'
    BY <1>1, <1>2 DEF PlaceInv, InHeader, Reads, Fine, Collects, StoredFrom, Stores
  <2>3. dctx.dStage = "getSFrameSize" => AtSkipSize'
    BY <1>1, <1>2 DEF PlaceInv, AtSkipSize, Reads, Fine
  <2>4. dctx.dStage = "storeSFrameSize" => InSkipSize'
    BY <1>1, <1>2 DEF PlaceInv, InSkipSize, Reads, Fine, StoredFrom, Stores
  <2>5. dctx.dStage = "skipSkippable" => InSkipped'
    BY <1>1, <1>2 DEF PlaceInv, InSkipped, Reads, Fine
  <2> DEFINE g == Given
             q == Pending
  <2>a. dctx.dStage # "getFrameHeader" => Given' = g /\ Pending' = q
    BY <1>3, <1>6, <1>7
  <2>6. dctx.dStage \in {"init", "getBlockHeader", "flushOut"} => AtBlock'
    BY <1>1, <1>2, <2>a DEF PlaceInv, AtBlock, InFrame, Reads, Fine
  <2>7. dctx.dStage = "storeBlockHeader" => InBlockHeader'
    BY <1>1, <1>2, <2>a DEF PlaceInv, InBlockHeader, InFrame, Reads, Fine,
                            Collects, StoredFrom, Stores
  <2>8. dctx.dStage = "copyDirect" => InRaw'
    BY <1>1, <1>2, <2>a DEF PlaceInv, InRaw, InFrame, Reads, Fine
  <2>9. dctx.dStage = "getBlockChecksum" => InBlockSum'
    BY <1>1, <1>2, <2>a DEF PlaceInv, InBlockSum, InFrame, Reads, Fine,
                            Collects, StoredFrom, Stores
  <2>10. dctx.dStage = "getCBlock" => AtPacked'
    BY <1>1, <1>2, <2>a DEF PlaceInv, AtPacked, InFrame, Reads, Fine, SumSize
  <2>11. dctx.dStage = "storeCBlock" => InPacked'
    BY <1>1, <1>2, <2>a DEF PlaceInv, InPacked, InFrame, Reads, Fine, SumSize,
                            Collects, StoredFrom, Stores
  <2>12. dctx.dStage # "getSuffix"
    BY <1>1 DEF PlaceInv, AfterEnd
  <2>13. dctx.dStage = "storeSuffix" => InSuffix'
    BY <1>1, <1>2, <2>a DEF PlaceInv, InSuffix, InFrame, Reads, Fine,
                            Collects, StoredFrom, Stores
  <2> QED BY ONLY <1>2, <2>1, <2>2, <2>3, <2>4, <2>5, <2>6, <2>7, <2>8, <2>9, <2>10, <2>11,
                  <2>12, <2>13 DEF PlaceInv
<1>11. CountInv'
  <2>1. CASE between
    <3>1. Given' = 0
      BY <1>2, <1>6, <2>1
    <3> QED BY <1>2, <1>3, <2>1, <3>1, BlockStages, BeforeStages DEF CountInv
  <2>2. CASE ~between
    BY <1>1, <1>2, <1>3, <1>6, <1>7, <2>2 DEF CountInv
  <2> QED BY <2>1, <2>2
<1>12. WindowInv' /\ OutInv'
  <2>1. CASE between
    BY <1>2, <1>3, <2>1, BlockStages DEF WindowInv, OutInv
  <2>2. CASE ~between
    <3>1. DOMAIN mem' = DOMAIN mem /\ \A p \in DOMAIN mem : p < arena => mem'[p] = mem[p]
      BY <1>2, <2>2
    <3>2. ASSUME dctx.dStage \in Decoding, dctx.frameInfo.linked
          PROVE  /\ Window <= dctx.dictSize
                 /\ Holds(mem', dctx.dict + dctx.dictSize - Window, Window, Given - Window + 1)
      <4>1. /\ Window <= dctx.dictSize
            /\ Holds(mem, dctx.dict + dctx.dictSize - Window, Window, Given - Window + 1)
        BY <1>1, <3>2 DEF WindowInv
      <4>2. Window \in Int /\ Given - Window + 1 \in Int
        <5>1. Given \in Nat /\ KB64 \in Nat
          BY <1>1, GivenType, BlockSizes
        <5>2. Pending \in Int
          BY <1>1, ContextTypes DEF Pending
        <5> QED BY <5>1, <5>2 DEF Window, Lesser
      <4> DEFINE w == Window
                 f == Given - Window + 1
                 m == mem'
      <4> HIDE DEF w, f, m
      <4> QED BY <1>1, <3>1, <3>2, <4>1, <4>2, MemoryStays DEF w, f, m
    <3>3. WindowInv'
      BY <1>2, <1>6, <1>7, <2>2, <3>2 DEF WindowInv
    <3>4. ASSUME dctx.dStage = "flushOut"
          PROVE  Holds(mem', dctx.tmpOut, dctx.tmpOutSize, Given - dctx.tmpOutStart + 1)
      <4>1. Holds(mem, dctx.tmpOut, dctx.tmpOutSize, Given - dctx.tmpOutStart + 1)
        BY <1>1, <3>4 DEF OutInv
      <4>2. Given - dctx.tmpOutStart + 1 \in Int
        BY <1>1, GivenType, ContextTypes
      <4> QED BY <1>1, <3>1, <3>4, <4>1, <4>2, TmpOutStays
    <3>5. OutInv'
      BY <1>1, <1>2, <1>6, <2>2, <3>4 DEF OutInv
    <3> QED BY <3>3, <3>5
  <2> QED BY <2>1, <2>2
<1>13. OutputIsContent'
  <2>1. dst'.start \in Int /\ dst'.at \in Int
    BY <1>4 DEF TypeOK, RoomOK
  <2> QED BY <1>2, <2>1 DEF OutputIsContent
<1>14. DoneInv' /\ FailInv' /\ CompleteMeansWhole' /\ Progress'
  BY <1>2 DEF DoneInv, FailInv, CompleteMeansWhole, Progress
<1> QED BY <1>2, <1>4, <1>5, <1>8, <1>9, <1>10, <1>11, <1>12, <1>13, <1>14
        DEF Inv, SizeInv, PastInv, ReadInv

\* LZ4F_getFrameInfo reads the header of the next frame.
LEMMA GetFrameInfoStep ==
    ASSUME Inv, LZ4F_getFrameInfo
    PROVE  Inv'
<1>1. /\ TypeOK /\ CallInv /\ TargetInv /\ ReadInv /\ PlaceInv /\ stream \in Streams
      /\ dctx \in Contexts(dctx.stored) /\ dctx.dStage = "getFrameHeader" /\ pc = "idle"
      /\ ~failed /\ srcPtr \in Nat /\ srcPtr <= Total + 1 /\ Total \in Nat
      /\ dctx.dStage \in Before
  BY BeforeStages, InputEnds
     DEF Inv, SizeInv, ReadInv, TypeOK, CallInv, LZ4F_getFrameInfo, between
<1>2. /\ mem' = AllJunk /\ arena' = DstAt /\ sent' = 0 /\ stream' = stream /\ dst' = dst
      /\ srcStart' = srcStart /\ srcEnd' = srcEnd /\ carried' = carried /\ asserts' = asserts
  BY DEF LZ4F_getFrameInfo, call
<1> DEFINE Left(n) == Lesser(n, Total + 1 - srcPtr)
           F(n) == IF Left(n) < knowHeaderSize THEN Other
                   ELSE Field(Here(Left(n)), 0, knowHeaderSize)
           Need(n) == IF F(n).k = "skip" THEN 8 ELSE F(n).size
<1>3. PICK n \in Chunks :
        /\ F(n) # Other /\ Left(n) >= Need(n)
        /\ LZ4F_decodeHeader(dctx, Here(Need(n)), Need(n), FALSE, 0)
  BY DEF LZ4F_getFrameInfo
<1> DEFINE left == Left(n)
           need == Need(n)
<1>4. n \in Nat /\ left \in Nat /\ left <= Total + 1 - srcPtr
  <2>1. n \in Nat
    BY DecoderAssumption
  <2> QED BY <1>1, <2>1 DEF Lesser
<1>5. left >= knowHeaderSize /\ F(n) = Field(Here(left), 0, knowHeaderSize)
  <2>1. ~(left < knowHeaderSize)
    BY <1>3
  <2> QED BY <1>4, <2>1, HeaderSizes
<1> HIDE DEF left
<1>6. PICK i \in DOMAIN stream : Reads(i, {"frame", "skip"}) /\ srcPtr = stream[i].at
  <2>1. AtFrame
    BY <1>1 DEF PlaceInv
  <2>2. srcPtr # Total + 1
    BY <1>1, <1>4, <1>5, HeaderSizes
  <2> QED BY <2>1, <2>2 DEF AtFrame
<1>7. /\ stream[i].k \in {"frame", "skip"} /\ stream[i].size \in Nat /\ stream[i].at \in Nat
      /\ minFHSize <= stream[i].size /\ (stream[i].k = "skip" => stream[i].size = 8)
  <2>1. stream[i].k \in {"frame", "skip"}
    BY <1>6 DEF Reads
  <2>2. Whole(stream[i]) /\ stream[i].size \in Nat /\ stream[i].at \in Nat
    BY <1>1, FieldTypes
  <2>3. CASE stream[i].k = "skip"
    BY <2>2, <2>3, HeaderSizes DEF Whole
  <2>4. CASE stream[i].k = "frame"
    BY <2>2, <2>4, HeaderSizes DEF Whole
  <2> QED BY <2>1, <2>2, <2>3, <2>4
<1>8. F(n) = stream[i]
  <2> DEFINE buf == Here(left)
             k == knowHeaderSize
  <2>1. \A j \in 0..(left - 1) : Here(left)[j] = stream[i].at + j
    BY <1>1, <1>4, <1>6, HereIs
  <2>2. k \in Nat \ {0} /\ k <= stream[i].size /\ k <= left
    BY <1>5, <1>7, HeaderSizes
  <2>3. \A j \in 0..(k - 1) : buf[0 + j] = stream[i].at + j
    BY <1>4, <2>1, <2>2
  <2>4. 0 \in Int /\ k <= stream[i].size
    BY <2>2
  <2>5. F(n) = Field(buf, 0, k)
    BY <1>5
  <2> HIDE DEF buf, k, F
  <2>6. Field(buf, 0, k) = stream[i]
    BY ONLY <1>1, <2>2, <2>3, <2>4, i \in DOMAIN stream, FieldIs
  <2> QED BY <2>5, <2>6
<1>9. need = stream[i].size /\ need <= left
  <2>1. need = IF F(n).k = "skip" THEN 8 ELSE F(n).size
    OBVIOUS
  <2> HIDE DEF F
  <2>2. need = stream[i].size
    BY <1>7, <1>8, <2>1
  <2>3. left >= need
    BY <1>3 DEF left
  <2> QED BY <1>4, <1>7, <2>2, <2>3
<1>10. LZ4F_decodeHeader(dctx, Here(need), need, FALSE, 0)
  BY <1>3
<1> HIDE DEF need
<1>11. Given' = 0
  <2>1. dst.at = dst.start /\ dst.at \in Int
    BY <1>1 DEF CallInv, TypeOK, RoomOK
  <2> QED BY <1>2, <2>1 DEF Given
<1>12. \A j \in 0..(need - 1) : Here(need)[j] = stream[i].at + j
  BY <1>1, <1>6, <1>7, <1>9, HereIs
<1>13. /\ Headed(dctx, dctx') /\ TargetInv'
       /\ srcPtr' \in Nat /\ srcPtr <= srcPtr' /\ srcPtr' <= stream[i].at + need
       /\ \/ Went /\ PlaceInv'
          \/ Failed("header_invalid") /\ ~stream[i].ok
  <2>1. /\ FALSE \in BOOLEAN /\ 0 \in Nat /\ need \in Nat /\ minFHSize <= need
        /\ (stream[i].k = "frame" => stream[i].size <= need) /\ Kept(dctx, dctx)
    BY <1>7, <1>9 DEF Kept
  <2> DEFINE src == Here(need)
  <2>2. LZ4F_decodeHeader(dctx, src, need, FALSE, 0)
        /\ \A j \in 0..(need - 1) : src[j] = stream[i].at + j
    BY <1>10, <1>12
  <2> HIDE DEF src
  <2> QED BY <1>1, <1>2, <1>6, <1>11, <2>1, <2>2, HeaderStep
<1>14. /\ pc' = "idle" /\ ret' \in [error : Errors \cup {"none"}, hint : Nat]
       /\ failed' => ~stream[i].ok
  <2>1. CASE Went
    BY <1>1, <2>1 DEF Went, TypeOK, failed
  <2>2. CASE Failed("header_invalid") /\ ~stream[i].ok
    BY <2>2 DEF Failed, Errors
  <2> QED BY <1>13, <2>1, <2>2
<1>15. TypeOK'
  <2>1. DOMAIN mem' = 0..DstEnd
    BY <1>2 DEF AllJunk
  <2>2. arena' \in DstAt..(DstEnd + 1)
    BY <1>2, Addresses
  <2>3. dctx' \in Contexts(dctx'.stored)
    BY <1>13 DEF Headed
  <2> QED BY <1>1, <1>2, <1>13, <1>14, <2>1, <2>2, <2>3 DEF TypeOK, RoomOK
<1>16. CallInv'
  <2>1. Total' = Total
    BY <1>2 DEF Total
  <2>2. stream[i].at + stream[i].size <= Total + 1
    BY <1>1, InputEnds
  <2>3. srcPtr' <= Total + 1
    BY <1>1, <1>7, <1>9, <1>13, <2>2
  <2> QED BY <1>1, <1>2, <1>14, <2>1, <2>3 DEF CallInv
<1>17. OutputIsContent' /\ DoneInv' /\ CompleteMeansWhole' /\ Progress'
  BY <1>14 DEF OutputIsContent, DoneInv, CompleteMeansWhole, Progress
<1>18. Settled'
  BY <1>1, <1>2, <1>11, <1>13, <1>15, <1>16, <1>17, HeadedSettles
<1>19. FailInv'
  BY <1>2, <1>14 DEF FailInv
<1>20. ~failed' => PlaceInv'
  BY <1>13 DEF Failed, failed
<1> QED BY <1>13, <1>17, <1>18, <1>19, <1>20 DEF Inv, SizeInv, PastInv, ReadInv, Settled

\* The state before a first call, or after a frame was given up.
Started ==
    /\ stream \in Streams /\ srcPtr = 1 /\ srcStart = 1 /\ srcEnd = 1 /\ dst = NoRoom
    /\ mem = AllJunk /\ pc = "idle" /\ ret = [error |-> "none", hint |-> 1]
    /\ arena = DstAt /\ sent = 0 /\ asserts = TRUE
    /\ dctx \in Contexts(dctx.stored) /\ dctx.dStage = "getFrameHeader"
    /\ dctx.dict = NULL /\ dctx.dictSize = 0
    /\ carried \in BOOLEAN /\ (~carried => dctx.frameRemainingSize = 0)
    /\ \/ dctx.maxBufferSize = 0
       \/ \E id \in DOMAIN blockSizes :
             /\ dctx.tmpInCapacity = blockSizes[id] + BFSize
             /\ dctx.maxBufferSize \in {blockSizes[id], blockSizes[id] + 2 * KB64}

\* The invariant holds then.
LEMMA StartedIsInv == Started => Inv
<1> SUFFICES ASSUME Started PROVE Inv
  OBVIOUS
<1>1. /\ stream \in Streams /\ srcPtr = 1 /\ srcStart = 1 /\ srcEnd = 1 /\ pc = "idle"
      /\ dctx.dStage = "getFrameHeader" /\ dctx.dStage \in Before
      /\ dst.start = NULL /\ dst.at = NULL /\ dst.end = NULL /\ NULL \in Int
      /\ dst \in [start : Int, at : Int, end : Int, stable : BOOLEAN]
      /\ ~failed /\ ret \in [error : Errors \cup {"none"}, hint : Nat]
  BY BeforeStages DEF Started, NoRoom, NULL, failed
<1>2. /\ dctx.dStage \notin Decoding \cup AtEnd /\ dctx.dStage # "flushOut"
      /\ dctx.dStage \notin {"init"} \cup InBlocks
  BY <1>1, BlockStages DEF InBlocks
<1>3. TypeOK
  <2>1. arena \in DstAt..(DstEnd + 1) /\ DOMAIN mem = 0..DstEnd
    BY Addresses DEF Started, AllJunk
  <2> QED BY <1>1, <2>1 DEF TypeOK, RoomOK, Started
<1>4. CallInv
  <2>1. Total \in Nat
    BY <1>1, InputEnds
  <2> QED BY <1>1, <2>1 DEF CallInv
<1>5. BufferInv /\ TargetInv /\ DictInv /\ RemainingInv
  BY <1>1, <1>2 DEF Started, BufferInv, TargetInv, DictInv, RemainingInv
<1>6. PlaceInv
  <2>1. /\ 1 \in DOMAIN stream /\ stream[1].at = 1 /\ stream[1].k \in {"frame", "skip"}
        /\ Fine(1)
    BY <1>1, FieldTypes DEF Begins, Fine
  <2>2. AtFrame
    BY <1>1, <2>1 DEF AtFrame, Reads
  <2> QED BY <1>1, <2>2 DEF PlaceInv
<1>7. CountInv /\ WindowInv /\ OutInv
  BY <1>1, <1>2 DEF CountInv, WindowInv, OutInv
<1>8. DoneInv /\ FailInv /\ OutputIsContent /\ CompleteMeansWhole /\ Progress
  BY <1>1 DEF DoneInv, FailInv, OutputIsContent, CompleteMeansWhole, Progress
<1> QED BY <1>3, <1>4, <1>5, <1>6, <1>7, <1>8 DEF Inv, SizeInv, PastInv, ReadInv

\* A new context is one that waits for a frame.
LEMMA CreatedIs ==
    LET c == LZ4F_createDecompressionContext
    IN  /\ c \in Contexts(c.stored) /\ c.dStage = "getFrameHeader" /\ c.dict = NULL
        /\ c.dictSize = 0 /\ c.frameRemainingSize = 0 /\ c.maxBufferSize = 0
<1>1. "getFrameHeader" \in Stages /\ NoFrameInfo \in FrameInfo
  BY BeforeStages DEF NoFrameInfo, FrameInfo
<1> QED BY <1>1 DEF LZ4F_createDecompressionContext, Contexts

\* A context made anew, or reset with the buffers it has.
LEMMA StartOverStep ==
    ASSUME Inv, StartOver
    PROVE  Inv'
<1>1. /\ dctx \in Contexts(dctx.stored) /\ BufferInv /\ asserts = TRUE
  BY DEF Inv, SizeInv, TypeOK
<1>2. /\ pc = "idle" /\ stream' \in Streams /\ srcPtr' = 1 /\ srcStart' = 1 /\ srcEnd' = 1
      /\ dst' = NoRoom /\ mem' = AllJunk /\ pc' = "idle" /\ arena' = DstAt /\ sent' = 0
      /\ ret' = [error |-> "none", hint |-> 1] /\ asserts' = asserts
      /\ carried' = (dctx'.frameRemainingSize # 0)
  BY DEF StartOver, NoCall
<1>3. CASE dctx' = LZ4F_createDecompressionContext
  <2>1. Started'
    BY <1>1, <1>2, <1>3, CreatedIs DEF Started
  <2> QED BY <2>1, StartedIsInv, PTL
<1>4. CASE dctx' = LZ4F_resetDecompressionContext(dctx)
  <2>1. "getFrameHeader" \in Stages
    BY BeforeStages
  <2>2. dctx' = [dctx EXCEPT !.dStage = "getFrameHeader", !.dict = NULL, !.dictSize = 0]
    BY <1>4 DEF LZ4F_resetDecompressionContext
  <2>3. /\ dctx' \in Contexts(dctx'.stored) /\ dctx'.dStage = "getFrameHeader"
        /\ dctx'.dict = NULL /\ dctx'.dictSize = 0
        /\ dctx'.frameRemainingSize = dctx.frameRemainingSize
        /\ dctx'.maxBufferSize = dctx.maxBufferSize
        /\ dctx'.tmpInCapacity = dctx.tmpInCapacity
    BY <1>1, <2>1, <2>2 DEF Contexts
  <2>4. \/ dctx'.maxBufferSize = 0
        \/ \E id \in DOMAIN blockSizes :
             /\ dctx'.tmpInCapacity = blockSizes[id] + BFSize
             /\ dctx'.maxBufferSize \in {blockSizes[id], blockSizes[id] + 2 * KB64}
    BY <1>1, <2>3 DEF BufferInv
  <2>5. Started'
    BY <1>1, <1>2, <1>4, <2>3, <2>4 DEF Started
  <2> QED BY <2>5, StartedIsInv, PTL
<1> QED BY <1>3, <1>4 DEF StartOver

\* The invariant holds at first.
LEMMA InitIsInv == Init => Inv
<1> SUFFICES ASSUME Init PROVE Inv
  OBVIOUS
<1>1. Started
  BY CreatedIs DEF Init, Started
<1> QED BY <1>1, StartedIsInv

\* A step that changes nothing.
LEMMA NothingStep ==
    ASSUME Inv, UNCHANGED vars
    PROVE  Inv'
<1>1. /\ stream' = stream /\ srcPtr' = srcPtr /\ srcStart' = srcStart /\ srcEnd' = srcEnd
      /\ dst' = dst /\ dctx' = dctx /\ mem' = mem /\ pc' = pc /\ ret' = ret /\ arena' = arena
      /\ sent' = sent /\ carried' = carried /\ asserts' = asserts
  BY DEF vars, call
<1>2. Total' = Total /\ Given' = Given /\ Pending' = Pending /\ Window' = Window
      /\ failed' = failed /\ Stays' = Stays /\ bufferNeeded' = bufferNeeded /\ SumSize' = SumSize
  BY <1>1 DEF Total, Given, Pending, Window, failed, Stays, bufferNeeded, SumSize
<1>3. TypeOK' /\ CallInv' /\ BufferInv' /\ TargetInv' /\ DictInv'
  BY <1>1, <1>2 DEF Inv, SizeInv, TypeOK, RoomOK, CallInv, BufferInv, TargetInv, DictInv
<1>4. PastInv'
  BY <1>1, <1>2 DEF Inv, PastInv, RemainingInv, DoneInv, FailInv
<1>5. OutputIsContent' /\ CompleteMeansWhole' /\ Progress'
  BY <1>1, <1>2 DEF Inv, OutputIsContent, CompleteMeansWhole, Progress
<1>6. ASSUME ReadInv PROVE ReadInv'
  <2>1. CountInv' /\ WindowInv' /\ OutInv'
    BY <1>1, <1>2, <1>6 DEF ReadInv, CountInv, WindowInv, OutInv
  <2>2. PlaceInv'
    BY <1>1, <1>2, <1>6
       DEF ReadInv, PlaceInv, AtFrame, InHeader, AtSkipSize, InSkipSize, InSkipped, AtBlock,
           InBlockHeader, InRaw, InBlockSum, AtPacked, InPacked, AfterEnd, InSuffix, InFrame,
           Reads, Fine, Collects, StoredFrom, Stores
  <2> QED BY <2>1, <2>2 DEF ReadInv
<1> QED BY <1>2, <1>3, <1>4, <1>5, <1>6 DEF Inv, SizeInv

-----------------------------------------------------------------------------
(* The theorems                                                              *)

\* The invariant: what is read, what memory holds and what the context says go
\* together at every stage of LZ4F_decompress, LZ4F_getFrameInfo and a reset.
THEOREM DecoderInvariant == Spec => []Inv
<1>1. Inv /\ [Next]_vars => Inv'
  <2> SUFFICES ASSUME Inv, [Next]_vars PROVE Inv'
    OBVIOUS
  <2>1. CASE Stage BY <2>1, StageStep
  <2>2. CASE PreserveHistory BY <2>2, PreserveStep
  <2>3. CASE LZ4F_decompress BY <2>3, DecompressStep
  <2>4. CASE LZ4F_getFrameInfo BY <2>4, GetFrameInfoStep
  <2>5. CASE StartOver BY <2>5, StartOverStep
  <2>6. CASE UNCHANGED vars BY <2>6, NothingStep
  <2> QED BY <2>1, <2>2, <2>3, <2>4, <2>5, <2>6 DEF Next
<1> QED BY <1>1, InitIsInv, PTL DEF Spec

\* The content a call gives is that of the frame, in order and from where the
\* last call ended, however input and room are cut.
THEOREM DecoderOutputIsContent == Spec => []OutputIsContent
<1>1. Inv => OutputIsContent
  BY DEF Inv
<1> QED BY <1>1, DecoderInvariant, PTL

\* No write of LZ4F_decompress leaves header, tmpIn or tmpOutBuffer, also when
\* they were made for another frame, and the asserts of LZ4F_updateDict hold.
THEOREM DecoderBuffersFit == Spec => []BuffersFit
<1>1. Inv => BuffersFit
  <2> SUFFICES ASSUME Inv PROVE BuffersFit
    OBVIOUS
  <2>1. /\ TypeOK /\ BufferInv /\ TargetInv /\ DictInv /\ dctx \in Contexts(dctx.stored)
        /\ asserts = TRUE
    BY DEF Inv, SizeInv, TypeOK
  <2>2. ASSUME dctx.dStage \in Decoding
        PROVE  /\ dctx.maxBlockSize + BFSize <= dctx.tmpInCapacity
               /\ dctx.tmpOut + dctx.tmpOutSize <= dctx.maxBufferSize
               /\ dctx.tmpOut + dctx.maxBlockSize <= dctx.maxBufferSize
               /\ dctx.dict = 0 => dctx.dictSize <= dctx.maxBufferSize
    <3> DEFINE max == dctx.maxBlockSize
               id == dctx.frameInfo.blockSizeID
    <3>1. /\ id \in DOMAIN blockSizes /\ max = blockSizes[id]
          /\ bufferNeeded <= dctx.maxBufferSize
          /\ dctx.tmpOutSize <= max
          /\ dctx.tmpOut <= (IF dctx.frameInfo.linked THEN 2 * KB64 ELSE 0)
      BY <2>1, <2>2, BlockStages DEF BufferInv
    <3>2. /\ max \in Nat /\ max >= KB64 /\ KB64 \in Nat \ {0} /\ dctx.tmpOut \in Nat
          /\ dctx.tmpOutSize \in Nat /\ dctx.maxBufferSize \in Nat /\ BFSize \in Nat
      <4>1. BFSize \in Nat
        BY DecoderAssumption
      <4> QED BY <2>1, <3>1, <4>1, BlockSizes, ContextTypes
    <3>3. bufferNeeded = max + (IF dctx.frameInfo.linked THEN 2 * KB64 ELSE 0)
      BY DEF bufferNeeded
    <3> HIDE DEF max, id
    <3>4. dctx.tmpOut + max <= dctx.maxBufferSize
          /\ dctx.tmpOut + dctx.tmpOutSize <= dctx.maxBufferSize
      BY <3>1, <3>2, <3>3
    <3>5. max + BFSize <= dctx.tmpInCapacity
      <4>1. dctx.maxBufferSize # 0 /\ max <= dctx.maxBufferSize
        BY <3>1, <3>2, <3>3
      <4>2. PICK j \in DOMAIN blockSizes :
              /\ dctx.tmpInCapacity = blockSizes[j] + BFSize
              /\ dctx.maxBufferSize \in {blockSizes[j], blockSizes[j] + 2 * KB64}
        BY <2>1, <4>1 DEF BufferInv
      <4>3. blockSizes[id] <= blockSizes[j]
        BY <3>1, <4>1, <4>2, TmpInFits
      <4>4. blockSizes[j] \in Nat
        BY BlockSizes
      <4> QED BY <3>1, <3>2, <4>2, <4>3, <4>4
    <3>6. dctx.dict = 0 => dctx.dictSize <= dctx.maxBufferSize
      BY <2>1, <2>2, <3>2, Addresses DEF DictInv, NULL
    <3> QED BY <3>4, <3>5, <3>6 DEF max
  <2>3. dctx.dStage = "storeCBlock" => dctx.tmpInTarget <= dctx.tmpInCapacity
    <3> SUFFICES ASSUME dctx.dStage = "storeCBlock"
                 PROVE  dctx.tmpInTarget <= dctx.tmpInCapacity
      OBVIOUS
    <3>1. dctx.tmpInTarget <= dctx.maxBlockSize + BFSize
      BY <2>1 DEF TargetInv
    <3>2. dctx.maxBlockSize + BFSize <= dctx.tmpInCapacity
      BY <2>2, BlockStages
    <3>3. /\ dctx.maxBlockSize \in Nat /\ dctx.tmpInTarget \in Nat /\ dctx.tmpInCapacity \in Nat
      BY <2>1, ContextTypes
    <3>4. BFSize \in Nat
      BY DecoderAssumption
    <3> QED BY <3>1, <3>2, <3>3, <3>4
  <2>4. dctx.dStage \in {"storeFrameHeader", "storeSFrameSize"} => dctx.tmpInTarget <= maxFHSize
    BY <2>1 DEF TargetInv
  <2> QED BY <2>1, <2>2, <2>3, <2>4 DEF BuffersFit, Decoding
<1> QED BY <1>1, DecoderInvariant, PTL

\* LZ4F_decompress returns 0 only for a frame that was read to its end, with
\* every checksum right and all of its content given.
THEOREM DecoderCompleteMeansWhole == Spec => []CompleteMeansWhole
<1>1. Inv => CompleteMeansWhole
  BY DEF Inv
<1> QED BY <1>1, DecoderInvariant, PTL

\* A call of LZ4F_decompress that has input and room takes or gives a byte.
THEOREM DecoderProgress == Spec => []Progress
<1>1. Inv => Progress
  BY DEF Inv
<1> QED BY <1>1, DecoderInvariant, PTL

\* A frame that is not damaged is refused only for lack of memory, whatever the
\* context decoded before, and after a reset as well, unless it announces no size
\* and the reset left what a sized frame still missed.
THEOREM DecoderGoodFrameAccepted == Spec => []GoodFrameAccepted
<1>1. Inv => GoodFrameAccepted
  BY DEF Inv, PastInv, FailInv, GoodFrameAccepted
<1> QED BY <1>1, DecoderInvariant, PTL

=============================================================================
