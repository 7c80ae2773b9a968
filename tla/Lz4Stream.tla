------------------------------ MODULE Lz4Stream ------------------------------
(***************************************************************************)
(* The streaming LZ4 log of firmware_src/modules/lz4stream/lib/lz4file.c:  *)
(* lz4open, lz4write, lz4close on one lz4streamfile, the part of lz4frame.c*)
(* they drive (the compression context and its stage), and the FAT card    *)
(* underneath (open handles, what a file holds after a loss of power).     *)
(*                                                                         *)
(* Bytes are tokens: a piece of data given to one lz4write call is one     *)
(* token of size Size[d]; a frame is Header, data tokens, EndMark.         *)
(* Compression keeps the tokens and their order.                           *)
(*                                                                         *)
(* The card keeps, of an open file, what was there at the last fs_sync:    *)
(* FAT updates the length of a file only then.                             *)
(***************************************************************************)
EXTENDS Naturals, FiniteSets, SequencesExt

CONSTANTS
    Names,      \* values of lz4id->filename
    Data,       \* pieces of data given to lz4write
    Size,       \* Size[d] = strlen(d)
    CHUNKSIZE,  \* lz4file.h:19, capacity of srcbuf
    REUSE,      \* lz4id->reuseContext
    Faults,     \* the card may fail: subset of {"open", "begin", "write"}
    NFILES,     \* files the FAT layer can have open at once
    MAXWRITES,  \* bound: pieces written to one log
    Header,     \* frame header
    EndMark,    \* end mark of a frame
    Torn,       \* a block or mark of which only a part was stored
    Remains,       \* remains of an older, longer file under the same name
    NoFile      \* no such file on the card

Marks  == {Header, EndMark, Torn, Remains}
Tokens == Data \cup Marks

ASSUME SizeAssumption ==
    /\ CHUNKSIZE \in Nat \ {0}
    /\ Size \in [Data -> 1..(CHUNKSIZE - 1)]    \* the assert at lz4file.c:147

ASSUME TokensAssumption ==
    /\ Marks \cap Data = {}
    /\ Cardinality(Marks) = 4
    /\ NoFile \notin Seq(Tokens)

ASSUME BoundsAssumption ==
    /\ REUSE \in BOOLEAN
    /\ Faults \subseteq {"open", "begin", "write"}
    /\ NFILES \in Nat \ {0}
    /\ MAXWRITES \in Nat

VARIABLES
    disk,       \* disk[n].tmp, disk[n].lz4: what the card keeps
    filename,   \* lz4id->filename, {} or {n}
    ctx,        \* lz4id->ctx: "null", "live", or "freed" (dangling)
    cStage,     \* stage of the compression context: 1 after compressBegin
    srcbuf,     \* lz4id->srcbuf, the pieces waiting to be compressed
    nsrcdata,   \* lz4id->nsrcdata
    isOpen,     \* lz4id->isOpen
    front,      \* what was written through lz4id->fid since lz4open
    tail,       \* <<Remains>> while older content extends beyond front
    handles,    \* files open in the FAT layer
    pc,         \* progress inside lz4close, or "aborted" by an assert
    given       \* history: the pieces lz4write accepted since lz4open

lz4id == <<filename, ctx, cStage, srcbuf, nsrcdata, isOpen>>
vars  == <<disk, lz4id, front, tail, handles, pc, given>>

File == Seq(Tokens) \cup {NoFile}

TypeOK ==
    /\ disk \in [Names -> [tmp : File, lz4 : File]]
    /\ filename \in SUBSET Names
    /\ ctx \in {"null", "live", "freed"}
    /\ cStage \in {0, 1}
    /\ srcbuf \in Seq(Data)
    /\ nsrcdata \in Nat
    /\ isOpen \in BOOLEAN
    /\ front \in Seq(Tokens)
    /\ tail \in Seq({Remains})
    /\ handles \in 0..NFILES
    /\ pc \in {"idle", "flushed", "ended", "unlinked", "aborted"}
    /\ given \in Seq(Data)

-----------------------------------------------------------------------------
(* An empty card, and RAM as init_lz4stream leaves it on every boot.       *)
Init ==
    /\ disk = [n \in Names |-> [tmp |-> NoFile, lz4 |-> NoFile]]
    /\ filename = {} /\ ctx = "null" /\ cStage = 0
    /\ srcbuf = <<>> /\ nsrcdata = 0 /\ isOpen = FALSE
    /\ front = <<>> /\ tail = <<>> /\ handles = 0
    /\ pc = "idle" /\ given = <<>>

(* What fs_write may leave behind the tokens already written: all of them, *)
(* or on a failing or full card none or a part. lz4file.c ignores which.   *)
StoredAtStart(written, tokens) == {tokens}          \* mutant: file not positioned
Stored(written, tokens) ==
    {written \o tokens} \cup
    (IF "write" \in Faults THEN {written, Append(written, Torn)} ELSE {})

(* Writing over the front of an older file may or may not have covered it. *)
Covered(rest) == {rest, <<>>}

(* A handle of the FAT layer is left for fs_open.                          *)
HandleLeft == handles < NFILES

(* lz4open has a context allocated only if lz4id->ctx is NULL,             *)
ContextForOpen == IF ctx = "null" THEN "live" ELSE ctx

(* and begins a new frame with it, whatever the context was used for.      *)
CompressBeginOnce == cStage' = IF ctx = "null" THEN 1 ELSE cStage   \* mutant
CompressBegin == cStage' = 1

-----------------------------------------------------------------------------
(* lz4open                                                                 *)

OpenSucceeds(n) ==
    /\ pc = "idle" /\ ~isOpen /\ HandleLeft
    /\ front' \in Stored(<<>>, <<Header>>)
    /\ LET older == disk[n].tmp
       IN /\ disk' = [disk EXCEPT ![n].tmp =
                        IF older = NoFile THEN <<>> ELSE older]
          /\ tail' \in IF older \in {NoFile, <<>>} THEN {<<>>} ELSE Covered(<<Remains>>)
    /\ filename' = {n}
    /\ ctx' = ContextForOpen
    /\ CompressBegin
    /\ isOpen' = TRUE
    /\ handles' = handles + 1
    /\ given' = <<>>
    /\ UNCHANGED <<srcbuf, nsrcdata, pc>>

(* fs_open fails, because the card does or because no handle is left.      *)
(* k_free is then given the static lz4streamfile: the outcomes are that    *)
(* nothing visible happens (here) and a reset (PowerLoss).                 *)
OpenFindsNoFile(n) ==
    /\ pc = "idle" /\ ~isOpen
    /\ "open" \in Faults \/ ~HandleLeft
    /\ filename' = {n}
    /\ UNCHANGED <<disk, ctx, cStage, srcbuf, nsrcdata, isOpen,
                   front, tail, handles, pc, given>>

(* LZ4F_compressBegin cannot allocate (cStage keeps its value) or writing  *)
(* the header fails with an error: lz4open returns with the file created   *)
(* and its handle open.                                                    *)
OpenFailsOnHeader(n) ==
    /\ pc = "idle" /\ ~isOpen /\ HandleLeft
    /\ "begin" \in Faults
    /\ disk' = [disk EXCEPT ![n].tmp = IF @ = NoFile THEN <<>> ELSE @]
    /\ filename' = {n}
    /\ ctx' = ContextForOpen
    /\ UNCHANGED cStage \/ CompressBegin
    /\ handles' = handles + 1
    /\ UNCHANGED <<srcbuf, nsrcdata, isOpen, front, tail, pc, given>>

-----------------------------------------------------------------------------
(* lz4write                                                                *)

(* fs_write of tokens and fs_sync: the file now keeps what was stored.     *)
WriteWithoutSync(tokens) ==                         \* mutant: no fs_sync
    front' \in Stored(front, tokens) /\ UNCHANGED <<disk, tail>>
WriteAndSync(tokens) ==
    \E stored \in Stored(front, tokens), rest \in Covered(tail) :
        /\ front' = stored
        /\ tail'  = rest
        /\ disk'  = [n \in Names |->
                       IF n \in filename
                       THEN [disk[n] EXCEPT !.tmp = stored \o rest]
                       ELSE disk[n]]

(* LZ4F_compressUpdate wants a context that compressBegin prepared; its    *)
(* error code, taken as a length, fails the assert at lz4file.c:135.       *)
CompressSrcbuf(continue) ==
    /\ WriteAndSync(IF cStage = 1 THEN srcbuf ELSE <<>>)
    /\ pc' = IF cStage = 1 THEN continue ELSE "aborted"

(* The buffer is compressed first when the new piece does not fit,         *)
NeedsFlushTooLate(d) == CHUNKSIZE + 1 < Size[d] + nsrcdata   \* mutant: off by one
NeedsFlush(d) == CHUNKSIZE < Size[d] + nsrcdata

(* or, for lz4write(NULL), when anything is pending.                       *)
PendingIgnored == FALSE                             \* mutant: just end the frame
Pending == nsrcdata > 0

(* lz4write with data. Its callers (main.c:137, 253) see to it that the    *)
(* log is open.                                                            *)
Write(d) ==
    /\ pc = "idle" /\ isOpen /\ Len(given) < MAXWRITES
    /\ \/ /\ NeedsFlush(d)
          /\ CompressSrcbuf("idle")
          /\ srcbuf' = <<d>>
          /\ nsrcdata' = Size[d]
       \/ /\ ~NeedsFlush(d)
          /\ srcbuf' = Append(srcbuf, d)
          /\ nsrcdata' = nsrcdata + Size[d]
          /\ UNCHANGED <<disk, front, tail, pc>>
    /\ given' = Append(given, d)
    /\ UNCHANGED <<filename, ctx, cStage, isOpen, handles>>

-----------------------------------------------------------------------------
(* lz4close refuses a log that is not open. It calls lz4write(NULL), which *)
(* compresses what is pending,                                             *)
AlwaysClosable == TRUE                              \* mutant: not refused
Closable       == isOpen

CloseFlush ==
    /\ pc = "idle" /\ Closable /\ Pending
    /\ CompressSrcbuf("flushed")
    /\ srcbuf' = <<>>
    /\ nsrcdata' = 0
    /\ UNCHANGED <<filename, ctx, cStage, isOpen, handles, given>>

(* ends the frame and syncs; the file is closed; the context is freed (and *)
(* lz4id->ctx left pointing at it) unless it is to be reused.              *)
NoEndMark == <<>>                                   \* mutant: frame not ended
FrameEnd  == <<EndMark>>

CloseEnd ==
    /\ \/ pc = "flushed"
       \/ pc = "idle" /\ Closable /\ ~Pending
    /\ WriteAndSync(FrameEnd)
    /\ cStage' = 0
    /\ ctx' = IF REUSE THEN ctx ELSE "freed"
    /\ handles' = handles - 1
    /\ pc' = "ended"
    /\ UNCHANGED <<filename, srcbuf, nsrcdata, isOpen, given>>

(* fs_rename first removes an existing target, then moves the entry; the   *)
(* log counts as closed after that.                                        *)
RenameUnlink ==
    /\ pc = "ended"
    /\ \E n \in filename :
          /\ disk[n].lz4 # NoFile
          /\ disk' = [disk EXCEPT ![n].lz4 = NoFile]
    /\ pc' = "unlinked"
    /\ UNCHANGED <<lz4id, front, tail, handles, given>>

RenameMove ==
    /\ \/ pc = "unlinked"
       \/ pc = "ended" /\ \A n \in filename : disk[n].lz4 = NoFile
    /\ \E n \in filename :
          disk' = [disk EXCEPT ![n] = [tmp |-> NoFile, lz4 |-> disk[n].tmp]]
    /\ isOpen' = FALSE
    /\ filename' = {}
    /\ pc' = "idle"
    /\ front' = <<>> /\ tail' = <<>> /\ given' = <<>>
    /\ UNCHANGED <<ctx, cStage, srcbuf, nsrcdata, handles>>

-----------------------------------------------------------------------------
(* The battery runs out, the reset button is pressed, an assert or a fault *)
(* resets the board: RAM is lost and init_lz4stream runs again.            *)
PowerLoss ==
    /\ filename' = {} /\ ctx' = "null" /\ cStage' = 0
    /\ srcbuf' = <<>> /\ nsrcdata' = 0 /\ isOpen' = FALSE
    /\ front' = <<>> /\ tail' = <<>> /\ handles' = 0
    /\ pc' = "idle" /\ given' = <<>>
    /\ UNCHANGED disk

Next ==
    \/ \E n \in Names : OpenSucceeds(n) \/ OpenFindsNoFile(n) \/ OpenFailsOnHeader(n)
    \/ \E d \in Data : Write(d)
    \/ CloseFlush \/ CloseEnd \/ RenameUnlink \/ RenameMove
    \/ PowerLoss

Spec == Init /\ [][Next]_vars

-----------------------------------------------------------------------------
(* Properties                                                              *)

\* The log is open for data: between lz4open and the end of its frame.
Accepting == isOpen /\ pc \in {"idle", "flushed"}

\* While a log is open, what was stored followed by what is buffered is the
\* header and every piece lz4write accepted since lz4open, in order: no flush
\* drops, repeats or reorders a piece, and nothing of an earlier log is left
\* in the buffer or in the reused context (cards that do not fail a write).
NothingLost == Accepting => front \o srcbuf = <<Header>> \o given

\* srcbuf never overflows: the memcpy of lz4file.c:148 stays inside it, for
\* every order of pieces and across logs that share the buffer, and nsrcdata
\* is the number of bytes in it.
SizeOf(pieces) ==
    LET size[n \in 0..Len(pieces)] ==
            IF n = 0 THEN 0 ELSE size[n - 1] + Size[pieces[n]]
    IN  size[Len(pieces)]
BufferFits == nsrcdata = SizeOf(srcbuf) /\ nsrcdata <= CHUNKSIZE

\* However power is lost, the card holds all but at most CHUNKSIZE bytes of
\* what was written to the open log, as one prefix: lz4write syncs each flush.
CrashLosesAtMostOneChunk ==
    \A n \in filename : isOpen /\ pc # "unlinked" =>
        \E k \in 0..Len(given) :
            /\ SizeOf(SubSeq(given, k + 1, Len(given))) <= CHUNKSIZE
            /\ k > 0 => IsPrefix(<<Header>> \o SubSeq(given, 1, k), disk[n].tmp)

\* A file that has its final name holds a complete frame, whatever crashes
\* and failed opens came before: only frames that were ended are renamed
\* ("append .tmp to path for a file which is not finalized", lz4file.c:75).
CompleteFrame(f) ==
    /\ f # <<>> /\ Head(f) = Header
    /\ \E end \in 2..Len(f) :
          f[end] = EndMark /\ \A i \in 2..(end - 1) : f[i] \in Data
FinalIsComplete ==
    \A n \in Names : disk[n].lz4 # NoFile => CompleteFrame(disk[n].lz4)

\* Data is only ever compressed with a context that compressBegin prepared
\* for this log: the error codes that would fail the asserts of lz4write
\* cannot occur, however opens fail and logs follow one another.
ContextReady == pc # "aborted" /\ (Accepting => cStage = 1 /\ ctx = "live")

-----------------------------------------------------------------------------
(* Refinement: the finished logs are the data between Header and EndMark   *)
(* of the files that have their final name.                                *)
Body(f) ==
    LET end == CHOOSE i \in 1..Len(f) :
                 f[i] = EndMark /\ \A j \in 1..(i - 1) : f[j] # EndMark
    IN SubSeq(f, 2, end - 1)

Logs == [n \in Names |->
           IF disk[n].lz4 = NoFile THEN NoFile ELSE Body(disk[n].lz4)]

Current == IF isOpen THEN {[name |-> n, data |-> given] : n \in filename} ELSE {}

Log == INSTANCE LogFile WITH logs <- Logs, current <- Current

\* The stream keeps the promises of LogFile: a finished log is exactly what
\* was written to it, a crash loses only the open one, and a finished one is
\* only removed to make room for a new log of its name.
ImplementsLogFile == Log!Spec
==============================================================================
