--------------------------- MODULE Lz4StreamProofs ---------------------------
(***************************************************************************)
(* What holds of Lz4Stream for every set of names and pieces, every        *)
(* CHUNKSIZE, every bound and any number of logs and power losses.         *)
(***************************************************************************)
EXTENDS Lz4Stream, FiniteSetTheorems, WellFoundedInduction, TLAPS

-----------------------------------------------------------------------------
(* Type correctness. handles stays a number because an open log    *)
(* holds a handle until its frame is ended.                                *)

OpenHoldsHandle ==
    /\ pc \in {"flushed", "ended", "unlinked", "aborted"} => isOpen
    /\ Accepting => handles >= 1

TypeInv == TypeOK /\ OpenHoldsHandle

LEMMA StoredType ==
    ASSUME NEW written \in Seq(Tokens), NEW tokens \in Seq(Tokens),
           NEW s \in Stored(written, tokens)
    PROVE  s \in Seq(Tokens)
  <1>1. Torn \in Tokens
    BY DEF Tokens, Marks
  <1>2. s \in {written \o tokens, written, Append(written, Torn)}
    BY DEF Stored
  <1>3. written \o tokens \in Seq(Tokens) /\ Append(written, Torn) \in Seq(Tokens)
    BY <1>1
  <1> QED BY <1>2, <1>3

LEMMA SyncType ==
    ASSUME TypeOK, NEW tokens \in Seq(Tokens), WriteAndSync(tokens)
    PROVE  /\ front' \in Seq(Tokens)
           /\ tail' \in Seq({Remains})
           /\ disk' \in [Names -> [tmp : File, lz4 : File]]
  <1>1. PICK stored \in Stored(front, tokens), rest \in Covered(tail) :
          /\ front' = stored
          /\ tail'  = rest
          /\ disk'  = [n \in Names |->
                         IF n \in filename
                         THEN [disk[n] EXCEPT !.tmp = stored \o rest]
                         ELSE disk[n]]
    BY DEF WriteAndSync
  <1>2. stored \in Seq(Tokens)
    BY StoredType DEF TypeOK
  <1>3. rest \in Seq({Remains})
    BY <<>> \in Seq({Remains}) DEF Covered, TypeOK
  <1>4. rest \in Seq(Tokens)
    BY <1>3 DEF Tokens, Marks
  <1>5. stored \o rest \in File
    BY <1>2, <1>4 DEF File
  <1>6. disk' \in [Names -> [tmp : File, lz4 : File]]
    BY <1>1, <1>5 DEF TypeOK
  <1> QED BY <1>1, <1>2, <1>3, <1>6

LEMMA TypeInit == Init => TypeInv
  <1> SUFFICES ASSUME Init PROVE TypeInv
    OBVIOUS
  <1>1. NoFile \in File
    BY DEF File
  <1>2. <<>> \in Seq(Data) /\ <<>> \in Seq(Tokens) /\ <<>> \in Seq({Remains})
    OBVIOUS
  <1>3. 0 \in 0..NFILES
    BY BoundsAssumption
  <1>4. disk \in [Names -> [tmp : File, lz4 : File]]
    BY <1>1 DEF Init
  <1> QED BY <1>1, <1>2, <1>3, <1>4 DEF Init, TypeInv, TypeOK, OpenHoldsHandle, Accepting

LEMMA TypeStep == TypeInv /\ [Next]_vars => TypeInv'
  <1> SUFFICES ASSUME TypeInv, [Next]_vars PROVE TypeInv'
    OBVIOUS
  <1> USE DEF TypeInv, OpenHoldsHandle, Accepting
  <1>0. /\ TypeOK
        /\ Data \subseteq Tokens /\ {Header, EndMark} \subseteq Tokens
        /\ NFILES \in Nat \ {0} /\ CHUNKSIZE \in Nat \ {0}
        /\ Size \in [Data -> 1..(CHUNKSIZE - 1)]
        /\ <<>> \in File /\ NoFile \in File
        /\ <<>> \in Seq(Data) /\ <<>> \in Seq(Tokens) /\ <<>> \in Seq({Remains})
    BY BoundsAssumption, SizeAssumption DEF Tokens, Marks, File
  <1>1. ASSUME NEW n \in Names, OpenSucceeds(n) PROVE TypeInv'
    <2>1. front' \in Seq(Tokens)
      BY <1>0, <1>1, StoredType, <<>> \in Seq(Tokens), <<Header>> \in Seq(Tokens)
         DEF OpenSucceeds
    <2>2. disk' \in [Names -> [tmp : File, lz4 : File]]
      BY <1>0, <1>1 DEF OpenSucceeds, TypeOK
    <2>3. tail' \in Seq({Remains})
      BY <1>1, <<>> \in Seq({Remains}), <<Remains>> \in Seq({Remains})
         DEF OpenSucceeds, Covered
    <2>4. ctx' \in {"null", "live", "freed"} /\ cStage' \in {0, 1}
      BY <1>0, <1>1 DEF OpenSucceeds, ContextForOpen, CompressBegin, TypeOK
    <2>5. handles' \in 0..NFILES /\ handles' >= 1
      BY <1>0, <1>1 DEF OpenSucceeds, HandleLeft, TypeOK
    <2> QED BY <1>0, <1>1, <2>1, <2>2, <2>3, <2>4, <2>5 DEF OpenSucceeds, TypeOK
  <1>2. ASSUME NEW n \in Names, OpenFindsNoFile(n) PROVE TypeInv'
    BY <1>0, <1>2 DEF OpenFindsNoFile, TypeOK
  <1>3. ASSUME NEW n \in Names, OpenFailsOnHeader(n) PROVE TypeInv'
    <2>1. disk' \in [Names -> [tmp : File, lz4 : File]]
      BY <1>0, <1>3 DEF OpenFailsOnHeader, TypeOK
    <2>2. handles' \in 0..NFILES
      BY <1>0, <1>3 DEF OpenFailsOnHeader, HandleLeft, TypeOK
    <2> QED BY <1>0, <1>3, <2>1, <2>2
            DEF OpenFailsOnHeader, ContextForOpen, CompressBegin, TypeOK
  <1>4. ASSUME CompressSrcbuf("idle") \/ CompressSrcbuf("flushed"),
               pc = "idle", isOpen
        PROVE  /\ front' \in Seq(Tokens)
               /\ tail' \in Seq({Remains})
               /\ disk' \in [Names -> [tmp : File, lz4 : File]]
               /\ pc' \in {"idle", "flushed", "aborted"}
    <2>1. srcbuf \in Seq(Tokens) /\ <<>> \in Seq(Tokens)
      BY <1>0 DEF TypeOK
    <2>2. \E tokens \in Seq(Tokens) : WriteAndSync(tokens)
      BY <1>4, <2>1 DEF CompressSrcbuf
    <2> QED BY <1>0, <1>4, <2>2, SyncType DEF CompressSrcbuf
  <1>5. ASSUME NEW d \in Data, Write(d) PROVE TypeInv'
    <2>1. given' \in Seq(Data) /\ Size[d] \in Nat /\ <<d>> \in Seq(Data)
      BY <1>0, <1>5 DEF Write, TypeOK
    <2>2. CASE NeedsFlush(d) /\ CompressSrcbuf("idle") /\ srcbuf' = <<d>> /\ nsrcdata' = Size[d]
      <3>1. pc' \in {"idle", "aborted"}
        BY <2>2 DEF CompressSrcbuf
      <3>2. /\ front' \in Seq(Tokens)
            /\ tail' \in Seq({Remains})
            /\ disk' \in [Names -> [tmp : File, lz4 : File]]
        BY <1>4, <1>5, <2>2 DEF Write
      <3> QED BY <1>0, <1>5, <2>1, <2>2, <3>1, <3>2 DEF Write, TypeOK
    <2>3. CASE ~NeedsFlush(d)
      <3>0. srcbuf' = Append(srcbuf, d) /\ nsrcdata' = nsrcdata + Size[d]
        BY <1>5, <2>3 DEF Write
      <3>1. srcbuf' \in Seq(Data) /\ nsrcdata' \in Nat
        BY <1>0, <2>1, <3>0 DEF TypeOK
      <3> QED BY <1>0, <1>5, <2>1, <2>3, <3>1 DEF Write, TypeOK
    <2> QED BY <1>5, <2>2, <2>3 DEF Write
  <1>6. CASE CloseFlush
    <2>1. /\ front' \in Seq(Tokens)
          /\ tail' \in Seq({Remains})
          /\ disk' \in [Names -> [tmp : File, lz4 : File]]
          /\ pc' \in {"idle", "flushed", "aborted"}
      BY <1>4, <1>6 DEF CloseFlush, Closable
    <2> QED BY <1>0, <1>6, <2>1 DEF CloseFlush, Closable, TypeOK
  <1>7. CASE CloseEnd
    <2>1. FrameEnd \in Seq(Tokens)
      BY <1>0 DEF FrameEnd
    <2>2. /\ front' \in Seq(Tokens)
          /\ tail' \in Seq({Remains})
          /\ disk' \in [Names -> [tmp : File, lz4 : File]]
      BY <1>0, <1>7, <2>1, SyncType DEF CloseEnd
    <2>3. handles' \in 0..NFILES /\ isOpen
      BY <1>0, <1>7 DEF CloseEnd, Closable, TypeOK
    <2> QED BY <1>0, <1>7, <2>2, <2>3 DEF CloseEnd, TypeOK
  <1>8. CASE RenameUnlink
    <2>1. disk' \in [Names -> [tmp : File, lz4 : File]]
      BY <1>0, <1>8 DEF RenameUnlink, TypeOK
    <2> QED BY <1>0, <1>8, <2>1 DEF RenameUnlink, TypeOK, lz4id
  <1>9. CASE RenameMove
    <2>1. disk' \in [Names -> [tmp : File, lz4 : File]]
      BY <1>0, <1>9 DEF RenameMove, TypeOK
    <2> QED BY <1>0, <1>9, <2>1 DEF RenameMove, TypeOK
  <1>10. CASE PowerLoss
    <2>1. 0 \in 0..NFILES
      BY <1>0
    <2> QED BY <1>0, <1>10, <2>1 DEF PowerLoss, TypeOK
  <1>11. CASE UNCHANGED vars
    BY <1>0, <1>11 DEF vars, lz4id, TypeOK
  <1> QED BY <1>1, <1>2, <1>3, <1>5, <1>6, <1>7, <1>8, <1>9, <1>10, <1>11 DEF Next

\* The variables keep their types, and the count of open files stays between
\* 0 and the size of the pool (lz4open and lz4close balance it).
THEOREM TypeCorrect == Spec => []TypeOK
  <1>1. TypeInv => TypeOK
    BY DEF TypeInv
  <1> QED BY <1>1, TypeInit, TypeStep, PTL DEF Spec

-----------------------------------------------------------------------------
(* Nothing accepted is lost while a log is open. The invariant has to say  *)
(* where the buffer is empty: a piece left behind by one log would appear  *)
(* in the next, which lz4open does not prevent (it does not reset nsrcdata)*)
(* but lz4close does.                                                      *)

BufferInv ==
    /\ nsrcdata <= CHUNKSIZE
    /\ nsrcdata = 0 => srcbuf = <<>>
    /\ pc = "flushed" => nsrcdata = 0
    /\ ~Accepting => nsrcdata = 0 \/ pc = "aborted"

LostInv == TypeInv /\ BufferInv /\ NothingLost

LEMMA SyncStoresAll ==
    ASSUME "write" \notin Faults, TypeOK, NEW tokens, WriteAndSync(tokens)
    PROVE  /\ front' = front \o tokens
           /\ \E rest \in Covered(tail) :
                \A n \in filename : disk'[n].tmp = front' \o rest
           /\ \A n \in Names : disk'[n].lz4 = disk[n].lz4
  <1>1. PICK stored \in Stored(front, tokens), rest \in Covered(tail) :
          /\ front' = stored
          /\ disk'  = [n \in Names |->
                         IF n \in filename
                         THEN [disk[n] EXCEPT !.tmp = stored \o rest]
                         ELSE disk[n]]
    BY DEF WriteAndSync
  <1>2. stored = front \o tokens
    BY DEF Stored
  <1>3. \A n \in filename : disk'[n].tmp = stored \o rest
    BY <1>1 DEF TypeOK
  <1>4. \A n \in Names : disk'[n].lz4 = disk[n].lz4
    BY <1>1 DEF TypeOK
  <1> QED BY <1>1, <1>2, <1>3, <1>4

LEMMA LostStep ==
    ASSUME "write" \notin Faults, LostInv, TypeInv', [Next]_vars
    PROVE  BufferInv' /\ NothingLost'
  <1> USE DEF Accepting, BufferInv, NothingLost
  <1>0. /\ LostInv /\ TypeInv /\ TypeOK /\ OpenHoldsHandle
        /\ CHUNKSIZE \in Nat \ {0} /\ Size \in [Data -> 1..(CHUNKSIZE - 1)]
        /\ nsrcdata \in Nat /\ srcbuf \in Seq(Data) /\ given \in Seq(Data)
        /\ front \in Seq(Tokens) /\ Data \subseteq Tokens /\ Header \in Tokens
    BY SizeAssumption DEF LostInv, TypeInv, TypeOK, Tokens, Marks
  <1>1. ASSUME NEW n \in Names, OpenSucceeds(n) PROVE BufferInv' /\ NothingLost'
    <2>1. front' = <<Header>> /\ given' = <<>>
      BY <1>1, <<>> \o <<Header>> = <<Header>> DEF OpenSucceeds, Stored
    <2>2. srcbuf' = <<>> /\ nsrcdata' = 0 /\ pc' = "idle"
      BY <1>0, <1>1 DEF OpenSucceeds, LostInv
    <2> QED BY <1>0, <2>1, <2>2
  <1>2. ASSUME NEW n \in Names, OpenFindsNoFile(n) PROVE BufferInv' /\ NothingLost'
    BY <1>0, <1>2 DEF OpenFindsNoFile, LostInv
  <1>3. ASSUME NEW n \in Names, OpenFailsOnHeader(n) PROVE BufferInv' /\ NothingLost'
    BY <1>0, <1>3 DEF OpenFailsOnHeader, LostInv
  <1>4. ASSUME NEW d \in Data, Write(d) PROVE BufferInv' /\ NothingLost'
    <2>1. /\ given' = Append(given, d) /\ isOpen /\ isOpen' = isOpen /\ pc = "idle"
          /\ Size[d] \in 1..(CHUNKSIZE - 1)
          /\ front \o srcbuf = <<Header>> \o given
      BY <1>0, <1>4 DEF Write, LostInv
    <2>2. (front \o srcbuf) \o <<d>> = <<Header>> \o Append(given, d)
      BY <1>0, <2>1
    <2>3. CASE NeedsFlush(d) /\ CompressSrcbuf("idle") /\ srcbuf' = <<d>> /\ nsrcdata' = Size[d]
      <3>1. CASE cStage = 1
        <4>1. front' = front \o srcbuf
          BY <1>0, <2>3, <3>1, SyncStoresAll DEF CompressSrcbuf
        <4>2. pc' = "idle"
          BY <2>3, <3>1 DEF CompressSrcbuf
        <4> QED BY <1>0, <2>1, <2>2, <2>3, <4>1, <4>2
      <3>2. CASE cStage # 1
        <4>1. pc' = "aborted"
          BY <2>3, <3>2 DEF CompressSrcbuf
        <4> QED BY <1>0, <2>1, <2>3, <4>1
      <3> QED BY <3>1, <3>2
    <2>4. CASE /\ ~NeedsFlush(d) /\ srcbuf' = Append(srcbuf, d)
               /\ nsrcdata' = nsrcdata + Size[d]
               /\ UNCHANGED <<disk, front, tail, pc>>
      <3>1. front' \o srcbuf' = (front \o srcbuf) \o <<d>>
        BY <1>0, <2>4, SMTT(30)
      <3>2. nsrcdata' <= CHUNKSIZE /\ nsrcdata' # 0
        BY <1>0, <2>1, <2>4 DEF NeedsFlush
      <3> QED BY <1>0, <2>1, <2>2, <2>4, <3>1, <3>2
    <2> QED BY <1>4, <2>3, <2>4 DEF Write
  <1>5. CASE CloseFlush
    <2>1. srcbuf' = <<>> /\ nsrcdata' = 0 /\ given' = given /\ isOpen /\ pc = "idle"
      BY <1>5 DEF CloseFlush, Closable
    <2>2. CASE cStage = 1
      <3>1. front' = front \o srcbuf
        BY <1>0, <1>5, <2>2, SyncStoresAll DEF CloseFlush, CompressSrcbuf
      <3>2. front' = <<Header>> \o given
        BY <1>0, <2>1, <3>1 DEF LostInv
      <3>3. front' \o <<>> = front'
        BY <1>0, <3>1
      <3> QED BY <1>0, <2>1, <3>2, <3>3
    <2>3. CASE cStage # 1
      <3>1. pc' = "aborted"
        BY <1>5, <2>3 DEF CloseFlush, CompressSrcbuf
      <3> QED BY <1>0, <2>1, <3>1
    <2> QED BY <2>2, <2>3
  <1>6. CASE CloseEnd
    <2>1. nsrcdata = 0
      BY <1>0, <1>6 DEF CloseEnd, Pending, LostInv
    <2> QED BY <1>0, <1>6, <2>1 DEF CloseEnd, LostInv
  <1>7. CASE RenameUnlink
    BY <1>0, <1>7 DEF RenameUnlink, lz4id, LostInv
  <1>8. CASE RenameMove
    BY <1>0, <1>8 DEF RenameMove, LostInv
  <1>9. CASE PowerLoss
    BY <1>0, <1>9 DEF PowerLoss
  <1>10. CASE UNCHANGED vars
    BY <1>0, <1>10 DEF vars, lz4id, LostInv
  <1> QED BY <1>1, <1>2, <1>3, <1>4, <1>5, <1>6, <1>7, <1>8, <1>9, <1>10 DEF Next

\* On a card that stores what it is given, no order of pieces, flushes, logs,
\* failed opens and power losses drops, repeats or reorders a piece of the
\* open log; and srcbuf never holds more than CHUNKSIZE bytes.
THEOREM NothingIsLost ==
    ASSUME "write" \notin Faults
    PROVE  Spec => [](NothingLost /\ nsrcdata <= CHUNKSIZE)
  <1>1. Init => LostInv
    BY TypeInit, SizeAssumption DEF Init, LostInv, BufferInv, NothingLost, Accepting
  <1>2. LostInv /\ [Next]_vars => LostInv'
    BY TypeStep, LostStep DEF LostInv
  <1>3. LostInv => NothingLost /\ nsrcdata <= CHUNKSIZE
    BY DEF LostInv, BufferInv
  <1> QED BY <1>1, <1>2, <1>3, PTL DEF Spec
-----------------------------------------------------------------------------
(* A final name means a complete frame. Between the end mark and the rename*)
(* the temporary file is complete; nothing else is ever renamed.           *)

FinalInv ==
    /\ pc \in {"ended", "unlinked"} => \A n \in filename : CompleteFrame(disk[n].tmp)
    /\ FinalIsComplete

LEMMA FrameOfPieces ==
    ASSUME NEW pieces \in Seq(Data), NEW rest \in Seq({Remains})
    PROVE  CompleteFrame((<<Header>> \o pieces \o <<EndMark>>) \o rest)
  <1> DEFINE f   == (<<Header>> \o pieces \o <<EndMark>>) \o rest
             end == Len(pieces) + 2
  <1>0. <<Header>> \in Seq({Header}) /\ <<EndMark>> \in Seq({EndMark}) /\ Len(pieces) \in Nat
    OBVIOUS
  <1>1. f # <<>> /\ Head(f) = Header /\ end \in 2..Len(f)
    BY <1>0
  <1>2. f[end] = EndMark
    BY <1>0
  <1>3. ASSUME NEW i \in 2..(end - 1) PROVE f[i] \in Data
    <2>1. f[i] = pieces[i - 1] /\ i - 1 \in 1..Len(pieces)
      BY <1>0
    <2> QED BY <2>1
  <1>4. \A i \in 2..(end - 1) : f[i] \in Data
    BY <1>3
  <1> QED BY <1>1, <1>2, <1>4 DEF CompleteFrame

LEMMA FinalStep ==
    ASSUME "write" \notin Faults, LostInv, FinalInv, [Next]_vars
    PROVE  FinalInv'
  <1> USE DEF FinalInv, FinalIsComplete
  <1>0. TypeOK /\ NoFile \notin Seq(Tokens)
    BY TokensAssumption DEF LostInv, TypeInv
  <1>1. ASSUME NEW n \in Names, OpenSucceeds(n) PROVE FinalInv'
    <2>1. \A m \in Names : disk'[m].lz4 = disk[m].lz4
      BY <1>0, <1>1 DEF OpenSucceeds, TypeOK
    <2> QED BY <1>1, <2>1 DEF OpenSucceeds
  <1>2. ASSUME NEW n \in Names, OpenFindsNoFile(n) PROVE FinalInv'
    BY <1>2 DEF OpenFindsNoFile
  <1>3. ASSUME NEW n \in Names, OpenFailsOnHeader(n) PROVE FinalInv'
    <2>1. \A m \in Names : disk'[m].lz4 = disk[m].lz4
      BY <1>0, <1>3 DEF OpenFailsOnHeader, TypeOK
    <2> QED BY <1>3, <2>1 DEF OpenFailsOnHeader
  <1>4. ASSUME CompressSrcbuf("idle") \/ CompressSrcbuf("flushed") PROVE FinalInv'
    <2>1. \A m \in Names : disk'[m].lz4 = disk[m].lz4
      BY <1>0, <1>4, SyncStoresAll DEF CompressSrcbuf
    <2> QED BY <1>4, <2>1 DEF CompressSrcbuf
  <1>5. ASSUME NEW d \in Data, Write(d) PROVE FinalInv'
    BY <1>4, <1>5 DEF Write
  <1>6. CASE CloseFlush
    BY <1>4, <1>6 DEF CloseFlush
  <1>7. CASE CloseEnd
    <2>1. srcbuf = <<>> /\ Accepting
      BY <1>7 DEF CloseEnd, Closable, Pending, LostInv, BufferInv, Accepting, TypeInv, OpenHoldsHandle, TypeOK
    <2>2. front = <<Header>> \o given /\ given \in Seq(Data)
      <3>1. front \o <<>> = front
        BY <1>0 DEF TypeOK
      <3> QED BY <1>0, <2>1, <3>1 DEF LostInv, NothingLost, TypeOK
    <2>3. /\ front' = <<Header>> \o given \o <<EndMark>>
          /\ \A m \in Names : disk'[m].lz4 = disk[m].lz4
      BY <1>0, <1>7, <2>2, SyncStoresAll DEF CloseEnd, FrameEnd
    <2>4. PICK rest \in Covered(tail) : \A n \in filename : disk'[n].tmp = front' \o rest
      BY <1>0, <1>7, SyncStoresAll DEF CloseEnd
    <2>5. rest \in Seq({Remains})
      BY <1>0, <2>4, <<>> \in Seq({Remains}) DEF Covered, TypeOK
    <2>6. CompleteFrame(front' \o rest)
      BY <2>2, <2>3, <2>5, FrameOfPieces
    <2> QED BY <1>7, <2>3, <2>4, <2>6 DEF CloseEnd
  <1>8. CASE RenameUnlink
    <2>1. \A m \in Names : disk'[m].tmp = disk[m].tmp /\ disk'[m].lz4 \in {disk[m].lz4, NoFile}
      BY <1>0, <1>8 DEF RenameUnlink, TypeOK
    <2> QED BY <1>0, <1>8, <2>1 DEF RenameUnlink, lz4id, TypeOK
  <1>9. CASE RenameMove
    <2>1. PICK n \in filename :
            disk' = [disk EXCEPT ![n] = [tmp |-> NoFile, lz4 |-> disk[n].tmp]]
      BY <1>9 DEF RenameMove
    <2>2. CompleteFrame(disk[n].tmp)
      BY <1>9, <2>1 DEF RenameMove
    <2>3. \A m \in Names : disk'[m].lz4 = IF m = n THEN disk[n].tmp ELSE disk[m].lz4
      BY <1>0, <2>1 DEF TypeOK
    <2> QED BY <1>9, <2>2, <2>3 DEF RenameMove
  <1>10. CASE PowerLoss
    BY <1>10 DEF PowerLoss
  <1>11. CASE UNCHANGED vars
    BY <1>11 DEF vars, lz4id
  <1> QED BY <1>1, <1>2, <1>3, <1>5, <1>6, <1>7, <1>8, <1>9, <1>10, <1>11 DEF Next

\* On a card that stores what it is given, a file that carries its final name
\* is a complete frame of data pieces, whatever power losses and failed opens
\* happened and whatever an older temporary file of that name contained.
THEOREM FinalNameMeansComplete ==
    ASSUME "write" \notin Faults
    PROVE  Spec => []FinalIsComplete
  <1>1. Init => LostInv /\ FinalInv
    BY TypeInit, SizeAssumption
       DEF Init, LostInv, BufferInv, NothingLost, Accepting, FinalInv, FinalIsComplete
  <1>2. LostInv /\ FinalInv /\ [Next]_vars => (LostInv /\ FinalInv)'
    BY TypeStep, LostStep, FinalStep DEF LostInv
  <1>3. FinalInv => FinalIsComplete
    BY DEF FinalInv
  <1> QED BY <1>1, <1>2, <1>3, PTL DEF Spec

-----------------------------------------------------------------------------
(* The asserts of lz4write never fail when the context is reused.          *)

ContextInv ==
    /\ OpenHoldsHandle
    /\ ContextReady
    /\ ctx # "freed"

\* With reuseContext, as main.c:206 asks for, data is only ever compressed
\* with a live context that compressBegin prepared for this log.
THEOREM ContextAlwaysReady ==
    ASSUME REUSE
    PROVE  Spec => []ContextReady
  <1> USE DEF ContextInv, ContextReady, OpenHoldsHandle, Accepting
  <1>1. Init => TypeInv /\ ContextInv
    BY TypeInit DEF Init
  <1>2. ASSUME TypeInv, ContextInv, [Next]_vars PROVE ContextInv'
    <2>0. TypeInv' /\ TypeOK
      BY <1>2, TypeStep DEF TypeInv
    <2>1. ASSUME NEW n \in Names,
                 OpenSucceeds(n) \/ OpenFindsNoFile(n) \/ OpenFailsOnHeader(n)
          PROVE  ContextInv'
      BY <1>2, <2>0, <2>1
         DEF OpenSucceeds, OpenFindsNoFile, OpenFailsOnHeader, ContextForOpen,
             CompressBegin, TypeInv, TypeOK
    <2>2. ASSUME NEW d \in Data, Write(d) PROVE ContextInv'
      BY <1>2, <2>0, <2>2 DEF Write, CompressSrcbuf, TypeInv
    <2>3. CASE CloseFlush
      BY <1>2, <2>0, <2>3 DEF CloseFlush, CompressSrcbuf, TypeInv
    <2>4. CASE CloseEnd
      BY <1>2, <2>0, <2>4 DEF CloseEnd, TypeInv
    <2>5. CASE RenameUnlink \/ RenameMove
      BY <1>2, <2>0, <2>5 DEF RenameUnlink, RenameMove, lz4id, TypeInv
    <2>6. CASE PowerLoss
      BY <2>0, <2>6 DEF PowerLoss, TypeInv
    <2>7. CASE UNCHANGED vars
      BY <1>2, <2>0, <2>7 DEF vars, lz4id, TypeInv
    <2> QED BY <1>2, <2>1, <2>2, <2>3, <2>4, <2>5, <2>6, <2>7 DEF Next
  <1>3. ContextInv => ContextReady
    OBVIOUS
  <1> QED BY <1>1, <1>2, <1>3, TypeStep, PTL DEF Spec
-----------------------------------------------------------------------------
(* Refinement of LogFile. An open log has one name; from the end of its    *)
(* frame to the rename, its temporary file holds the frame of what was     *)
(* given, then whatever an older file left beyond it, which Body ignores.  *)

FrameInv ==
    /\ isOpen => \E n \in Names : filename = {n}
    /\ pc \in {"ended", "unlinked"} =>
          \E rest \in Seq({Remains}) : \A n \in filename :
              disk[n].tmp = (<<Header>> \o given \o <<EndMark>>) \o rest

LEMMA HeaderIsNotEndMark == Header # EndMark
  <1> SUFFICES ASSUME Header = EndMark PROVE FALSE
    OBVIOUS
  <1>1. ASSUME NEW S, IsFiniteSet(S), NEW x, NEW n \in Nat, Cardinality(S) <= n
        PROVE  IsFiniteSet(S \cup {x}) /\ Cardinality(S \cup {x}) <= n + 1
    BY <1>1, FS_AddElement, FS_CardinalityType, SMTT(30)
  <1>2. IsFiniteSet({Remains}) /\ Cardinality({Remains}) <= 1
    BY FS_Singleton, Cardinality({Remains}) = 1
  <1>3. IsFiniteSet({Remains} \cup {Torn}) /\ Cardinality({Remains} \cup {Torn}) <= 1 + 1
    BY <1>1, <1>2
  <1>4. Cardinality(({Remains} \cup {Torn}) \cup {EndMark}) <= (1 + 1) + 1
    BY <1>1, <1>3
  <1>5. Marks = ({Remains} \cup {Torn}) \cup {EndMark}
    BY DEF Marks
  <1> QED BY <1>4, <1>5, TokensAssumption

\* The data of a frame is what was put between its header and its end mark,
\* whatever lies beyond the end mark.
LEMMA BodyOfFrame ==
    ASSUME NEW pieces \in Seq(Data), NEW rest \in Seq({Remains})
    PROVE  Body((<<Header>> \o pieces \o <<EndMark>>) \o rest) = pieces
  <1> DEFINE f    == (<<Header>> \o pieces \o <<EndMark>>) \o rest
             end  == Len(pieces) + 2
             IsEnd(i) == f[i] = EndMark /\ \A j \in 1..(i - 1) : f[j] # EndMark
  <1>0. /\ <<Header>> \in Seq({Header}) /\ <<EndMark>> \in Seq({EndMark})
        /\ Len(pieces) \in Nat /\ Len(f) \in Nat /\ end \in 1..Len(f)
    OBVIOUS
  <1>1. f[end] = EndMark
    BY <1>0
  <1>2. ASSUME NEW j \in 1..(end - 1) PROVE f[j] # EndMark
    <2>1. CASE j = 1
      BY <1>0, <2>1, HeaderIsNotEndMark
    <2>2. CASE j # 1
      <3>1. f[j] = pieces[j - 1] /\ j - 1 \in 1..Len(pieces)
        BY <1>0, <2>2
      <3>2. EndMark \notin Data
        BY TokensAssumption DEF Marks
      <3> QED BY <3>1, <3>2
    <2> QED BY <2>1, <2>2
  <1>3. IsEnd(end)
    BY <1>1, <1>2
  <1>4. ASSUME NEW i \in 1..Len(f), IsEnd(i) PROVE i = end
    <2>1. ~(i < end)
      BY <1>0, <1>2, <1>4
    <2>2. ~(end < i)
      BY <1>0, <1>1, <1>4
    <2> QED BY <1>0, <2>1, <2>2
  <1>5. (CHOOSE i \in 1..Len(f) : IsEnd(i)) = end
    BY <1>0, <1>3, <1>4
  <1>6. Body(f) = SubSeq(f, 2, end - 1)
    BY <1>5 DEF Body
  <1>7. SubSeq(f, 2, end - 1) = pieces
    <2>1. f \in Seq(Tokens)
      BY DEF Tokens, Marks
    <2>2. 2 \in 1..(Len(f) + 1) /\ end - 1 \in 1..Len(f)
      BY <1>0
    <2>3. SubSeq(f, 2, end - 1) \in Seq(Tokens) /\ Len(SubSeq(f, 2, end - 1)) = Len(pieces)
      BY <1>0, <2>1, <2>2
    <2>4. ASSUME NEW k \in 1..Len(pieces) PROVE SubSeq(f, 2, end - 1)[k] = pieces[k]
      <3>1. SubSeq(f, 2, end - 1)[k] = f[k + 1]
        BY <1>0, <2>1, <2>2
      <3>2. f[k + 1] = pieces[k]
        BY <1>0
      <3> QED BY <3>1, <3>2
    <2> QED BY <2>3, <2>4
  <1> QED BY <1>6, <1>7

LEMMA FrameStep ==
    ASSUME "write" \notin Faults, LostInv, FrameInv, [Next]_vars
    PROVE  FrameInv'
  <1> USE DEF FrameInv
  <1>0. TypeOK /\ OpenHoldsHandle
    BY DEF LostInv, TypeInv
  <1>1. ASSUME NEW n \in Names,
               OpenSucceeds(n) \/ OpenFindsNoFile(n) \/ OpenFailsOnHeader(n)
        PROVE  FrameInv'
    BY <1>1 DEF OpenSucceeds, OpenFindsNoFile, OpenFailsOnHeader
  <1>2. ASSUME NEW d \in Data, Write(d) PROVE FrameInv'
    BY <1>2 DEF Write, CompressSrcbuf
  <1>3. CASE CloseFlush
    BY <1>3 DEF CloseFlush, CompressSrcbuf
  <1>4. CASE CloseEnd
    <2>1. front = <<Header>> \o given
      <3>1. srcbuf = <<>> /\ Accepting
        BY <1>0, <1>4 DEF CloseEnd, Closable, Pending, LostInv, BufferInv,
                          Accepting, OpenHoldsHandle, TypeOK
      <3>2. front \o <<>> = front
        BY <1>0 DEF TypeOK
      <3> QED BY <3>1, <3>2 DEF LostInv, NothingLost
    <2>2. front' = <<Header>> \o given \o <<EndMark>>
      BY <1>0, <1>4, <2>1, SyncStoresAll DEF CloseEnd, FrameEnd
    <2>3. PICK rest \in Covered(tail) : \A n \in filename : disk'[n].tmp = front' \o rest
      BY <1>0, <1>4, SyncStoresAll DEF CloseEnd
    <2>4. rest \in Seq({Remains})
      BY <1>0, <2>3, <<>> \in Seq({Remains}) DEF Covered, TypeOK
    <2> QED BY <1>4, <2>2, <2>3, <2>4 DEF CloseEnd
  <1>5. CASE RenameUnlink
    <2>1. \A n \in Names : disk'[n].tmp = disk[n].tmp
      BY <1>0, <1>5 DEF RenameUnlink, TypeOK
    <2>2. filename \subseteq Names
      BY <1>0 DEF TypeOK
    <2> QED BY <1>5, <2>1, <2>2 DEF RenameUnlink, lz4id
  <1>6. CASE RenameMove \/ PowerLoss
    BY <1>6 DEF RenameMove, PowerLoss
  <1>7. CASE UNCHANGED vars
    BY <1>7 DEF vars, lz4id
  <1> QED BY <1>1, <1>2, <1>3, <1>4, <1>5, <1>6, <1>7 DEF Next

\* An action that keeps the files with a final name keeps the finished logs.
LEMMA LogsKept ==
    ASSUME \A n \in Names : disk'[n].lz4 = disk[n].lz4
    PROVE  Logs' = Logs
  BY DEF Logs

LEMMA RefinementStep ==
    ASSUME "write" \notin Faults, LostInv, FrameInv, [Next]_vars
    PROVE  [Log!Next]_Log!vars
  <1>0. TypeOK /\ OpenHoldsHandle
    BY DEF LostInv, TypeInv
  <1>1. ASSUME NEW n \in Names, OpenSucceeds(n) PROVE Log!Open(n)
    <2>1. Logs' = Logs
      BY <1>0, <1>1, LogsKept DEF OpenSucceeds, TypeOK
    <2>2. Current = {} /\ Current' = {[name |-> n, data |-> <<>>]}
      BY <1>1 DEF OpenSucceeds, Current
    <2> QED BY <2>1, <2>2 DEF Log!Open
  <1>2. ASSUME NEW n \in Names, OpenFindsNoFile(n) \/ OpenFailsOnHeader(n)
        PROVE  UNCHANGED Log!vars
    <2>1. Logs' = Logs
      <3>1. CASE OpenFindsNoFile(n)
        BY <3>1, LogsKept DEF OpenFindsNoFile
      <3>2. CASE OpenFailsOnHeader(n)
        <4>1. \A m \in Names : disk'[m].lz4 = disk[m].lz4
          BY <1>0, <3>2 DEF OpenFailsOnHeader, TypeOK
        <4> QED BY <4>1, LogsKept
      <3> QED BY <1>2, <3>1, <3>2
    <2>2. Current = {} /\ Current' = {}
      BY <1>2 DEF OpenFindsNoFile, OpenFailsOnHeader, Current
    <2> QED BY <2>1, <2>2 DEF Log!vars
  <1>3. ASSUME NEW d \in Data, Write(d) PROVE Log!Append1(d)
    <2>1. Logs' = Logs
      <3>1. CASE CompressSrcbuf("idle")
        BY <1>0, <3>1, SyncStoresAll, LogsKept DEF CompressSrcbuf
      <3>2. CASE UNCHANGED disk
        BY <3>2, LogsKept
      <3> QED BY <1>3, <3>1, <3>2 DEF Write
    <2>2. PICK n \in Names : filename = {n}
      BY <1>3 DEF Write, FrameInv
    <2>3. Current = {[name |-> n, data |-> given]}
      BY <1>3, <2>2 DEF Write, Current
    <2>4. Current' = {[name |-> n, data |-> Append(given, d)]}
      BY <1>3, <2>2 DEF Write, Current
    <2> QED BY <2>1, <2>3, <2>4 DEF Log!Append1
  <1>4. CASE CloseFlush \/ CloseEnd
    <2>1. Logs' = Logs
      BY <1>0, <1>4, SyncStoresAll, LogsKept DEF CloseFlush, CloseEnd, CompressSrcbuf
    <2>2. Current' = Current
      <3>1. UNCHANGED <<isOpen, filename, given>>
        BY <1>4 DEF CloseFlush, CloseEnd
      <3> QED BY <3>1 DEF Current
    <2> QED BY <2>1, <2>2 DEF Log!vars
  <1>5. CASE RenameUnlink
    <2>1. PICK n \in Names : filename = {n}
      BY <1>0, <1>5 DEF RenameUnlink, FrameInv, OpenHoldsHandle
    <2>2. Current = {[name |-> n, data |-> given]} /\ Current' = Current
      BY <1>0, <1>5, <2>1 DEF RenameUnlink, Current, OpenHoldsHandle, lz4id
    <2>3. disk' = [disk EXCEPT ![n].lz4 = NoFile]
      BY <1>5, <2>1 DEF RenameUnlink
    <2>4. \A m \in Names : disk'[m].lz4 = IF m = n THEN NoFile ELSE disk[m].lz4
      BY <1>0, <2>3 DEF TypeOK
    <2>5. Logs' = [Logs EXCEPT ![n] = NoFile]
      BY <2>4 DEF Logs
    <2> DEFINE c == [name |-> n, data |-> given]
    <2>6. c \in Current /\ Logs' = [Logs EXCEPT ![c.name] = NoFile]
      BY <2>2, <2>5
    <2> QED BY <2>2, <2>6 DEF Log!Next, Log!Supersede
  <1>6. CASE RenameMove
    <2>1. PICK n \in filename :
            disk' = [disk EXCEPT ![n] = [tmp |-> NoFile, lz4 |-> disk[n].tmp]]
      BY <1>6 DEF RenameMove
    <2>2. /\ n \in Names /\ isOpen /\ pc \in {"ended", "unlinked"}
          /\ given \in Seq(Data)
      BY <1>0, <1>6, <2>1 DEF RenameMove, OpenHoldsHandle, TypeOK
    <2>3. Current = {[name |-> n, data |-> given]} /\ Current' = {}
      BY <1>6, <2>1, <2>2 DEF RenameMove, Current, FrameInv
    <2>4. PICK rest \in Seq({Remains}) :
            disk[n].tmp = (<<Header>> \o given \o <<EndMark>>) \o rest
      BY <2>1, <2>2 DEF FrameInv
    <2>5. Body(disk[n].tmp) = given
      BY <2>2, <2>4, BodyOfFrame
    <2>6. disk[n].tmp # NoFile
      <3>1. (<<Header>> \o given \o <<EndMark>>) \o rest \in Seq(Tokens)
        BY <2>2 DEF Tokens, Marks
      <3> QED BY <2>4, <3>1, TokensAssumption
    <2>7. \A m \in Names : disk'[m].lz4 = IF m = n THEN disk[n].tmp ELSE disk[m].lz4
      BY <1>0, <2>1, <2>2 DEF TypeOK
    <2>8. Logs' = [Logs EXCEPT ![n] = given]
      BY <2>5, <2>6, <2>7 DEF Logs
    <2> DEFINE c == [name |-> n, data |-> given]
    <2>9. c.name = n /\ c.data = given
      OBVIOUS
    <2>10. c \in Current /\ Logs' = [Logs EXCEPT ![c.name] = c.data]
      BY <2>3, <2>8, <2>9
    <2> QED BY <2>3, <2>10 DEF Log!Next, Log!Finish
  <1>7. CASE PowerLoss
    <2>1. Logs' = Logs /\ Current' = {}
      BY <1>7, LogsKept DEF PowerLoss, Current
    <2>2. CASE Current = {}
      BY <2>1, <2>2 DEF Log!vars
    <2>3. CASE Current # {}
      BY <2>1, <2>3 DEF Log!Next, Log!Lose
    <2> QED BY <2>2, <2>3
  <1>8. CASE UNCHANGED vars
    BY <1>8, LogsKept DEF vars, lz4id, Log!vars, Current
  <1> QED BY <1>1, <1>2, <1>3, <1>4, <1>5, <1>6, <1>7, <1>8 DEF Next, Log!Next

\* lz4open, lz4write and lz4close with all their flushes, the temporary name
\* and the two steps of the rename behave as a log that is either finished
\* and then exactly what was written to it, or vanishes as a whole: on a card
\* that stores what it is given, under failing opens and headers, older files
\* of the same name and power losses between any two steps.
THEOREM StreamImplementsLogFile ==
    ASSUME "write" \notin Faults
    PROVE  Spec => ImplementsLogFile
  <1>1. Init => LostInv /\ FrameInv /\ Log!Init
    <2> SUFFICES ASSUME Init PROVE LostInv /\ FrameInv /\ Log!Init
      OBVIOUS
    <2>1. LostInv /\ FrameInv
      BY TypeInit, SizeAssumption
         DEF Init, LostInv, BufferInv, NothingLost, Accepting, FrameInv
    <2>2. Logs = [n \in Names |-> NoFile] /\ Current = {}
      BY DEF Init, Logs, Current
    <2> QED BY <2>1, <2>2 DEF Log!Init
  <1>2. LostInv /\ FrameInv /\ [Next]_vars => (LostInv /\ FrameInv)'
    BY TypeStep, LostStep, FrameStep DEF LostInv
  <1>3. LostInv /\ FrameInv /\ [Next]_vars => [Log!Next]_Log!vars
    BY RefinementStep
  <1> QED BY <1>1, <1>2, <1>3, PTL DEF Spec, ImplementsLogFile, Log!Spec
-----------------------------------------------------------------------------
(* The size of a sequence of pieces, by induction on its length.           *)

\* A set of naturals that is not empty has a least element.
LEMMA LeastNatural ==
    ASSUME NEW T, T \subseteq Nat, T # {}
    PROVE  \E m \in T : \A k \in T : m <= k
  <1>1. IsWellFoundedOn(OpToRel(<, Nat), Nat)
    BY NatLessThanWellFounded
  <1>2. PICK m \in T : \A k \in T : ~(<<k, m>> \in OpToRel(<, Nat))
    BY <1>1, WFMin
  <1>3. \A k \in T : ~(k < m)
    BY <1>2 DEF OpToRel
  <1> QED BY <1>3

\* Induction, for a property given as the set of numbers that have it.
LEMMA SetInduction ==
    ASSUME NEW P, 0 \in P, \A n \in Nat : n \in P => n + 1 \in P
    PROVE  Nat \subseteq P
  <1> SUFFICES ASSUME Nat \ P # {} PROVE FALSE
    OBVIOUS
  <1>1. PICK m \in Nat \ P : \A k \in Nat \ P : m <= k
    BY LeastNatural
  <1>2. m # 0
    BY <1>1
  <1>3. m - 1 \in Nat /\ ~(m <= m - 1)
    BY <1>2
  <1>4. m - 1 \in P
    BY <1>1, <1>3
  <1>5. (m - 1) + 1 \in P
    BY <1>3, <1>4
  <1> QED BY <1>5

\* f[n] is the size of the first n pieces.
Sums(f, s) == f = [n \in 0..Len(s) |-> IF n = 0 THEN 0 ELSE f[n - 1] + Size[s[n]]]

\* The recursion of SizeOf defines a function,
LEMMA SumsExist ==
    ASSUME NEW s \in Seq(Data)
    PROVE  \E f \in [0..Len(s) -> Nat] : Sums(f, s)
  <1> DEFINE UpTo(f, k) == \A n \in 0..k :
                              f[n] = IF n = 0 THEN 0 ELSE f[n - 1] + Size[s[n]]
             P == {k \in Nat : k <= Len(s) => \E f \in [0..k -> Nat] : UpTo(f, k)}
  <1>0. Len(s) \in Nat /\ \A n \in 1..Len(s) : Size[s[n]] \in Nat
    BY SizeAssumption
  <1>1. 0 \in P
    <2>1. [n \in 0..0 |-> 0] \in [0..0 -> Nat] /\ UpTo([n \in 0..0 |-> 0], 0)
      OBVIOUS
    <2> QED BY <2>1
  <1>2. ASSUME NEW k \in Nat, k \in P PROVE k + 1 \in P
    <2> SUFFICES k + 1 <= Len(s) => \E f \in [0..(k + 1) -> Nat] : UpTo(f, k + 1)
      BY k + 1 \in Nat
    <2> HAVE k + 1 <= Len(s)
    <2>1. PICK f \in [0..k -> Nat] : UpTo(f, k)
      BY <1>0, <1>2
    <2> DEFINE g == [n \in 0..(k + 1) |-> IF n <= k THEN f[n] ELSE f[k] + Size[s[k + 1]]]
    <2>2. Size[s[k + 1]] \in Nat /\ f[k] \in Nat
      BY <1>0
    <2>3. g \in [0..(k + 1) -> Nat]
      BY <2>2
    <2>4. ASSUME NEW n \in 0..(k + 1)
          PROVE  g[n] = IF n = 0 THEN 0 ELSE g[n - 1] + Size[s[n]]
      <3>1. CASE n <= k
        <4>1. g[n] = f[n] /\ (n # 0 => g[n - 1] = f[n - 1])
          BY <3>1
        <4> QED BY <2>1, <3>1, <4>1
      <3>2. CASE n = k + 1
        BY <3>2
      <3> QED BY <3>1, <3>2
    <2>5. UpTo(g, k + 1)
      BY <2>4
    <2> QED BY <2>3, <2>5
  <1>3. Len(s) \in P
    <2> HIDE DEF P
    <2> QED BY <1>0, <1>1, <1>2, SetInduction
  <1>4. PICK f \in [0..Len(s) -> Nat] : UpTo(f, Len(s))
    BY <1>0, <1>3
  <1>5. f = [n \in 0..Len(s) |-> f[n]]
    OBVIOUS
  <1>6. Sums(f, s)
    BY <1>4, <1>5 DEF Sums
  <1> QED BY <1>6

\* whose value at m depends on the first m pieces only.
LEMMA SumsAgree ==
    ASSUME NEW s \in Seq(Data), NEW t \in Seq(Data), NEW f, NEW g, NEW m \in Nat,
           Sums(f, s), Sums(g, t), m <= Len(s), m <= Len(t),
           \A n \in 1..m : s[n] = t[n]
    PROVE  f[m] = g[m]
  <1> DEFINE P == {k \in Nat : k <= m => f[k] = g[k]}
  <1>0. Len(s) \in Nat /\ Len(t) \in Nat
    OBVIOUS
  <1>1. /\ \A n \in 0..Len(s) : f[n] = IF n = 0 THEN 0 ELSE f[n - 1] + Size[s[n]]
        /\ \A n \in 0..Len(t) : g[n] = IF n = 0 THEN 0 ELSE g[n - 1] + Size[t[n]]
    BY DEF Sums
  <1>2. 0 \in P
    BY <1>0, <1>1
  <1>3. ASSUME NEW k \in Nat, k \in P PROVE k + 1 \in P
    <2> SUFFICES ASSUME k + 1 <= m PROVE f[k + 1] = g[k + 1]
      OBVIOUS
    <2>1. f[k + 1] = f[k] + Size[s[k + 1]] /\ g[k + 1] = g[k] + Size[t[k + 1]]
      BY <1>0, <1>1
    <2> QED BY <1>3, <2>1
  <1>4. m \in P
    <2> HIDE DEF P
    <2> QED BY <1>2, <1>3, SetInduction
  <1> QED BY <1>4

LEMMA SizeIsSum ==
    ASSUME NEW s \in Seq(Data)
    PROVE  \E f \in [0..Len(s) -> Nat] : Sums(f, s) /\ SizeOf(s) = f[Len(s)]
  <1> DEFINE f == CHOOSE f : f = [n \in 0..Len(s) |-> IF n = 0 THEN 0 ELSE f[n - 1] + Size[s[n]]]
  <1>1. PICK g \in [0..Len(s) -> Nat] : Sums(g, s)
    BY SumsExist
  <1>2. Sums(f, s)
    BY <1>1 DEF Sums
  <1>3. SizeOf(s) = f[Len(s)]
    BY DEF SizeOf
  <1> HIDE DEF f
  <1>4. g[Len(s)] = f[Len(s)]
    BY <1>1, <1>2, SumsAgree, Len(s) \in Nat
  <1> QED BY <1>1, <1>3, <1>4

LEMMA SizeOfEmpty == SizeOf(<<>>) = 0
  <1>1. PICK f \in [0..Len(<<>>) -> Nat] : Sums(f, <<>>) /\ SizeOf(<<>>) = f[Len(<<>>)]
    BY SizeIsSum, <<>> \in Seq(Data)
  <1>2. Len(<<>>) = 0
    OBVIOUS
  <1> QED BY <1>1, <1>2 DEF Sums

\* A piece adds its size, whatever comes before it.
LEMMA SizeOfAppend ==
    ASSUME NEW s \in Seq(Data), NEW d \in Data
    PROVE  SizeOf(Append(s, d)) = SizeOf(s) + Size[d]
  <1> DEFINE t == Append(s, d)
  <1>0. /\ t \in Seq(Data) /\ Len(s) \in Nat /\ Len(t) = Len(s) + 1
        /\ t[Len(t)] = d /\ \A n \in 1..Len(s) : s[n] = t[n]
        /\ Len(s) <= Len(s) /\ Len(s) <= Len(t)
    OBVIOUS
  <1> HIDE DEF t
  <1>1. PICK f \in [0..Len(s) -> Nat] : Sums(f, s) /\ SizeOf(s) = f[Len(s)]
    BY SizeIsSum
  <1>2. PICK g \in [0..Len(t) -> Nat] : Sums(g, t) /\ SizeOf(t) = g[Len(t)]
    BY <1>0, SizeIsSum
  <1>3. f[Len(s)] = g[Len(s)]
    <2>1. Sums(f, s) /\ Sums(g, t)
      BY <1>1, <1>2
    <2>2. t \in Seq(Data) /\ Len(s) \in Nat /\ Len(s) <= Len(s) /\ Len(s) <= Len(t)
      BY <1>0
    <2>3. \A n \in 1..Len(s) : s[n] = t[n]
      BY <1>0
    <2> QED BY ONLY <2>1, <2>2, <2>3, s \in Seq(Data), SumsAgree, SMTT(30)
  <1>4. g[Len(t)] = g[Len(t) - 1] + Size[t[Len(t)]]
    BY <1>0, <1>2 DEF Sums
  <1>5. SizeOf(t) = SizeOf(s) + Size[d]
    BY <1>0, <1>1, <1>2, <1>3, <1>4
  <1> QED BY <1>5 DEF t

-----------------------------------------------------------------------------
(* srcbuf never overflows, on any card: nsrcdata counts its bytes.         *)

LEMMA FitsStep ==
    ASSUME TypeInv, BufferFits, [Next]_vars
    PROVE  BufferFits'
  <1> USE DEF BufferFits
  <1>0. /\ CHUNKSIZE \in Nat \ {0} /\ Size \in [Data -> 1..(CHUNKSIZE - 1)]
        /\ srcbuf \in Seq(Data) /\ nsrcdata \in Nat
    BY SizeAssumption DEF TypeInv, TypeOK
  <1>1. ASSUME NEW n \in Names,
               OpenSucceeds(n) \/ OpenFindsNoFile(n) \/ OpenFailsOnHeader(n)
        PROVE  BufferFits'
    BY <1>1 DEF OpenSucceeds, OpenFindsNoFile, OpenFailsOnHeader
  <1>2. ASSUME NEW d \in Data, Write(d) PROVE BufferFits'
    <2>1. Size[d] \in 1..(CHUNKSIZE - 1)
      BY <1>0
    <2>2. CASE srcbuf' = <<d>> /\ nsrcdata' = Size[d]
      <3>1. SizeOf(Append(<<>>, d)) = SizeOf(<<>>) + Size[d]
        BY SizeOfAppend, <<>> \in Seq(Data)
      <3>2. Append(<<>>, d) = <<d>>
        OBVIOUS
      <3> QED BY <1>0, <2>1, <2>2, <3>1, <3>2, SizeOfEmpty
    <2>3. CASE /\ ~NeedsFlush(d) /\ srcbuf' = Append(srcbuf, d)
               /\ nsrcdata' = nsrcdata + Size[d]
      <3>1. SizeOf(srcbuf') = SizeOf(srcbuf) + Size[d]
        BY <1>0, <2>3, SizeOfAppend
      <3>2. nsrcdata' <= CHUNKSIZE
        BY <1>0, <2>1, <2>3 DEF NeedsFlush
      <3> QED BY <2>3, <3>1, <3>2
    <2> QED BY <1>2, <2>2, <2>3 DEF Write
  <1>3. CASE CloseFlush \/ PowerLoss
    BY <1>0, <1>3, SizeOfEmpty DEF CloseFlush, PowerLoss
  <1>4. CASE CloseEnd \/ RenameUnlink \/ RenameMove \/ UNCHANGED vars
    BY <1>4 DEF CloseEnd, RenameUnlink, RenameMove, vars, lz4id
  <1> QED BY <1>1, <1>2, <1>3, <1>4 DEF Next

\* No order of pieces, and no log that shares the buffer with an earlier one,
\* makes the memcpy of lz4write leave srcbuf: nsrcdata is the number of bytes
\* in it and at most CHUNKSIZE, also on a card that fails.
THEOREM BufferAlwaysFits == Spec => []BufferFits
  <1>1. Init => TypeInv /\ BufferFits
    BY TypeInit, SizeOfEmpty, SizeAssumption DEF Init, BufferFits
  <1>2. TypeInv /\ BufferFits /\ [Next]_vars => (TypeInv /\ BufferFits)'
    BY TypeStep, FitsStep
  <1> QED BY <1>1, <1>2, PTL DEF Spec

-----------------------------------------------------------------------------
(* A crash loses what is in srcbuf, at most: the other pieces are on the   *)
(* card, behind the header.                                                *)

StoredInv ==
    isOpen /\ pc # "unlinked" =>
        \E stored \in Seq(Data) :
            /\ given = stored \o srcbuf
            /\ pc # "ended" => front = <<Header>> \o stored
            /\ stored # <<>> =>
                  \A n \in filename : IsPrefix(<<Header>> \o stored, disk[n].tmp)

LEMMA PrefixOfLonger ==
    ASSUME NEW s \in Seq(Tokens), NEW t \in Seq(Tokens)
    PROVE  IsPrefix(s, s \o t)
  <1>1. Len(s) \in Nat /\ Len(t) \in Nat /\ Len(s \o t) = Len(s) + Len(t)
    OBVIOUS
  <1>2. \A n \in 1..Len(s) : (s \o t)[n] = s[n]
    OBVIOUS
  <1>3. SubSeq(s, 1, Len(s)) = SubSeq(s \o t, 1, Len(s))
    BY <1>1, <1>2
  <1> QED BY <1>1, <1>3 DEF IsPrefix

LEMMA AppendIsConcat ==
    ASSUME NEW S, NEW s \in Seq(S), NEW e \in S
    PROVE  Append(s, e) = s \o <<e>>
  OBVIOUS

LEMMA CoveredType ==
    ASSUME NEW old \in Seq({Remains}), NEW rest \in Covered(old)
    PROVE  rest \in Seq(Tokens)
  <1>1. rest \in Seq({Remains})
    BY <<>> \in Seq({Remains}) DEF Covered
  <1> QED BY <1>1 DEF Tokens, Marks

LEMMA StoredStep ==
    ASSUME "write" \notin Faults, LostInv, ContextReady, StoredInv, [Next]_vars
    PROVE  StoredInv'
  <1> USE DEF StoredInv
  <1>0. /\ TypeOK /\ OpenHoldsHandle /\ filename \subseteq Names
        /\ srcbuf \in Seq(Data) /\ given \in Seq(Data) /\ tail \in Seq({Remains})
        /\ Seq(Data) \subseteq Seq(Tokens) /\ <<Header>> \in Seq(Tokens)
        /\ <<EndMark>> \in Seq(Tokens)
    BY DEF LostInv, TypeInv, TypeOK, Tokens, Marks
  <1>1. ASSUME NEW n \in Names, OpenSucceeds(n) PROVE StoredInv'
    <2>1. srcbuf' = <<>> /\ given' = <<>> /\ front' = <<Header>>
      BY <1>0, <1>1, <<>> \o <<Header>> = <<Header>>
         DEF OpenSucceeds, Stored, LostInv, BufferInv, Accepting
    <2>2. given' = <<>> \o srcbuf' /\ front' = <<Header>> \o <<>> /\ <<>> \in Seq(Data)
      BY <2>1
    <2> QED BY <2>2
  <1>2. ASSUME NEW n \in Names, OpenFindsNoFile(n) \/ OpenFailsOnHeader(n) PROVE StoredInv'
    BY <1>2 DEF OpenFindsNoFile, OpenFailsOnHeader
  \* Compressing srcbuf moves all of it to the card.
  <1>3. ASSUME isOpen, pc = "idle", filename' = filename,
               CompressSrcbuf("idle") \/ CompressSrcbuf("flushed")
        PROVE  /\ front' = <<Header>> \o given
               /\ \A n \in filename : IsPrefix(<<Header>> \o given, disk'[n].tmp)
    <2>1. cStage = 1
      BY <1>3 DEF ContextReady, Accepting
    <2>2. WriteAndSync(srcbuf)
      BY <1>3, <2>1 DEF CompressSrcbuf
    <2>3. front' = front \o srcbuf
      BY <1>0, <2>2, SyncStoresAll
    <2>4. front' = <<Header>> \o given
      BY <1>3, <2>3 DEF LostInv, NothingLost, Accepting
    <2>5. PICK rest \in Covered(tail) : \A n \in filename : disk'[n].tmp = front' \o rest
      BY <1>0, <2>2, SyncStoresAll
    <2>6. rest \in Seq(Tokens)
      BY <1>0, <2>5, CoveredType
    <2>7. IsPrefix(<<Header>> \o given, (<<Header>> \o given) \o rest)
      <3>1. <<Header>> \o given \in Seq(Tokens)
        BY <1>0
      <3> QED BY <2>6, <3>1, PrefixOfLonger
    <2> QED BY <2>4, <2>5, <2>7
  <1>4. ASSUME NEW d \in Data, Write(d) PROVE StoredInv'
    <2>1. given' = Append(given, d) /\ isOpen /\ pc = "idle" /\ filename' = filename
      BY <1>4 DEF Write
    <2>2. CASE CompressSrcbuf("idle") /\ srcbuf' = <<d>>
      <3>1. given' = given \o srcbuf'
        BY <1>0, <2>1, <2>2
      <3> QED BY <1>0, <1>3, <2>1, <2>2, <3>1
    <2>3. CASE srcbuf' = Append(srcbuf, d) /\ UNCHANGED <<disk, front, pc>>
      <3>1. PICK stored \in Seq(Data) :
              /\ given = stored \o srcbuf
              /\ front = <<Header>> \o stored
              /\ stored # <<>> =>
                    \A n \in filename : IsPrefix(<<Header>> \o stored, disk[n].tmp)
        BY <2>1
      <3>2. given' = stored \o srcbuf'
        <4>1. Append(stored \o srcbuf, d) = (stored \o srcbuf) \o <<d>>
          <5>1. stored \o srcbuf \in Seq(Data)
            BY <1>0
          <5> QED BY <5>1, AppendIsConcat
        <4>2. Append(srcbuf, d) = srcbuf \o <<d>>
          BY <1>0, AppendIsConcat
        <4>3. (stored \o srcbuf) \o <<d>> = stored \o (srcbuf \o <<d>>)
          BY <1>0, <<d>> \in Seq(Data)
        <4> QED BY <2>1, <2>3, <3>1, <4>1, <4>2, <4>3
      <3> QED BY <2>1, <2>3, <3>1, <3>2
    <2> QED BY <1>4, <2>2, <2>3 DEF Write
  <1>5. CASE CloseFlush
    <2>1. srcbuf' = <<>> /\ given' = given /\ filename' = filename /\ isOpen /\ pc = "idle"
      BY <1>5 DEF CloseFlush, Closable
    <2>2. given' = given \o srcbuf'
      BY <1>0, <2>1
    <2>3. CompressSrcbuf("flushed")
      BY <1>5 DEF CloseFlush
    <2> QED BY <1>0, <1>3, <2>1, <2>2, <2>3
  <1>6. CASE CloseEnd
    <2>1. /\ srcbuf = <<>> /\ isOpen /\ pc \in {"idle", "flushed"}
          /\ UNCHANGED <<srcbuf, given, filename>> /\ pc' = "ended"
          /\ WriteAndSync(<<EndMark>>)
      BY <1>0, <1>6 DEF CloseEnd, FrameEnd, Closable, Pending, LostInv, BufferInv,
                        OpenHoldsHandle, TypeOK
    <2>2. PICK stored \in Seq(Data) : given = stored \o srcbuf /\ front = <<Header>> \o stored
      BY <2>1
    <2>3. front' = (<<Header>> \o stored) \o <<EndMark>>
      BY <1>0, <2>1, <2>2, SyncStoresAll
    <2>4. PICK rest \in Covered(tail) : \A n \in filename : disk'[n].tmp = front' \o rest
      BY <1>0, <2>1, SyncStoresAll
    <2>5. rest \in Seq(Tokens)
      BY <1>0, <2>4, CoveredType
    <2>6. front' \o rest = (<<Header>> \o stored) \o (<<EndMark>> \o rest)
      BY <1>0, <2>3, <2>5
    <2>7. <<Header>> \o stored \in Seq(Tokens) /\ <<EndMark>> \o rest \in Seq(Tokens)
      BY <1>0, <2>5
    <2>8. \A n \in filename : IsPrefix(<<Header>> \o stored, disk'[n].tmp)
      BY <2>4, <2>6, <2>7, PrefixOfLonger
    <2> QED BY <2>1, <2>2, <2>8
  <1>7. CASE RenameUnlink \/ RenameMove \/ PowerLoss
    BY <1>7 DEF RenameUnlink, RenameMove, PowerLoss
  <1>8. CASE UNCHANGED vars
    BY <1>8 DEF vars, lz4id
  <1> QED BY <1>1, <1>2, <1>4, <1>5, <1>6, <1>7, <1>8 DEF Next

LEMMA StoredMeansLossIsBounded ==
    ASSUME TypeOK, BufferFits, StoredInv
    PROVE  CrashLosesAtMostOneChunk
  <1> SUFFICES ASSUME NEW n \in filename, isOpen, pc # "unlinked"
               PROVE  \E k \in 0..Len(given) :
                         /\ SizeOf(SubSeq(given, k + 1, Len(given))) <= CHUNKSIZE
                         /\ k > 0 => IsPrefix(<<Header>> \o SubSeq(given, 1, k), disk[n].tmp)
    BY DEF CrashLosesAtMostOneChunk
  <1>1. PICK stored \in Seq(Data) :
          /\ given = stored \o srcbuf
          /\ stored # <<>> => IsPrefix(<<Header>> \o stored, disk[n].tmp)
    BY DEF StoredInv
  <1> DEFINE k == Len(stored)
  <1>2. srcbuf \in Seq(Data) /\ k \in Nat /\ Len(srcbuf) \in Nat
    BY DEF TypeOK
  <1>3. Len(given) = k + Len(srcbuf) /\ k \in 0..Len(given)
    BY <1>1, <1>2
  <1>4. SubSeq(given, k + 1, Len(given)) = srcbuf
    BY <1>1, <1>2, <1>3
  <1>5. SubSeq(given, 1, k) = stored
    BY <1>1, <1>2, <1>3
  <1>6. k > 0 => stored # <<>>
    OBVIOUS
  <1> QED BY <1>1, <1>3, <1>4, <1>5, <1>6 DEF BufferFits

\* With the context reused, as main.c:206 asks for, and on a card that stores
\* what it is given: whenever power is lost while a log is open, the card holds
\* one prefix of what was written to it, short of at most CHUNKSIZE bytes.
THEOREM CrashLossIsBounded ==
    ASSUME REUSE, "write" \notin Faults
    PROVE  Spec => []CrashLosesAtMostOneChunk
  <1>1. Init => LostInv /\ BufferFits /\ StoredInv
    BY TypeInit, SizeOfEmpty, SizeAssumption
       DEF Init, LostInv, BufferInv, NothingLost, Accepting, BufferFits, StoredInv
  <1>2. LostInv /\ BufferFits /\ StoredInv /\ ContextReady /\ [Next]_vars
            => (LostInv /\ BufferFits /\ StoredInv)'
    BY TypeStep, LostStep, FitsStep, StoredStep DEF LostInv
  <1>3. LostInv /\ BufferFits /\ StoredInv => CrashLosesAtMostOneChunk
    BY StoredMeansLossIsBounded DEF LostInv, TypeInv
  <1>4. Spec => []ContextReady
    BY ContextAlwaysReady
  <1> QED BY <1>1, <1>2, <1>3, <1>4, PTL DEF Spec
==============================================================================
