---------------------------- MODULE SdHelpersProofs ----------------------------
(* Theorems about SdHelpers: for files and buffers of any length, and for      *)
(* directories of any size with any names.                                     *)
EXTENDS SdHelpers, WellFoundedInduction, TLAPS

-----------------------------------------------------------------------------
(* Reading a file.                                                           *)

\* A set of naturals that is not empty has a least element.
LEMMA LeastNatural ==
    ASSUME NEW T, T \subseteq Nat, T # {}
    PROVE  \E m \in T : \A k \in T : m <= k
<1>1. IsWellFoundedOn(OpToRel(<, Nat), Nat)
  BY NatLessThanWellFounded
<1>2. PICK m \in T : \A k \in T : ~(<<k, m>> \in OpToRel(<, Nat))
  BY <1>1, WFMin
<1>3. \A k \in T : ~(k < m)
  BY <1>2 DEF OpToRel
<1> QED BY <1>3

\* The string fs_gets returns of a full buffer has a character, and no more
\* than the buffer.
LEMMA LineInBuffer ==
    ASSUME NEW buffer \in Seq(Chars), Len(buffer) = bufsz
    PROVE  LineLength(buffer) \in 1..bufsz
<1> DEFINE ends == {i \in DOMAIN buffer : buffer[i] \in {Newline, Nul}}
           end  == CHOOSE i \in ends : \A j \in ends : i <= j
<1>0. bufsz \in Nat \ {0} /\ DOMAIN buffer = 1..bufsz
  BY HelpersAssumption
<1>1. CASE ends = {} \/ buffer[end] = Nul
  <2>1. LineLength(buffer) = bufsz BY <1>1 DEF LineLength
  <2> QED BY <1>0, <2>1
<1>2. CASE ~(ends = {} \/ buffer[end] = Nul)
  <2>1. ends \subseteq Nat /\ ends # {} BY <1>0, <1>2
  <2>2. \E i \in ends : \A j \in ends : i <= j BY <2>1, LeastNatural
  <2>3. end \in ends BY <2>2
  <2>4. LineLength(buffer) = end BY <1>2 DEF LineLength
  <2> QED BY <1>0, <2>3, <2>4
<1> QED BY <1>1, <1>2

\* What was returned so far is what comes before pos; a file that is shorter
\* than the buffer is returned in one piece.
ReadInv ==
    /\ content \in Seq(Chars) /\ pos \in 0..Len(content)
    /\ ret \in Int
    /\ ret >= 0 => pieces = SubSeq(content, 1, pos)
    /\ ret = 0 => pos = 0
    /\ ret > 0 /\ Len(content) < bufsz =>
          pos = Len(content) /\ line = content /\ terminated

\* Two pieces that follow one another in the file.
LEMMA PiecesJoin ==
    ASSUME NEW file \in Seq(Chars), NEW p \in 0..Len(file), NEW n \in Nat, p + n <= Len(file)
    PROVE  SubSeq(file, 1, p) \o SubSeq(file, p + 1, p + n) = SubSeq(file, 1, p + n)
<1> DEFINE a == SubSeq(file, 1, p)
           b == SubSeq(file, p + 1, p + n)
           c == SubSeq(file, 1, p + n)
<1>1. a \in Seq(Chars) /\ b \in Seq(Chars) /\ c \in Seq(Chars)
  OBVIOUS
<1>2. Len(a) = p /\ Len(b) = n /\ Len(c) = p + n
  OBVIOUS
<1>3. \A i \in 1..(p + n) : (a \o b)[i] = c[i]
  <2>1. ASSUME NEW i \in 1..(p + n) PROVE (a \o b)[i] = c[i]
    <3>1. CASE i <= p
      BY <1>1, <1>2, <3>1
    <3>2. CASE i > p
      <4>1. (a \o b)[i] = b[i - p] BY <1>1, <1>2, <3>2
      <4>2. b[i - p] = file[i] BY <3>2
      <4> QED BY <4>1, <4>2
    <3> QED BY <3>1, <3>2
  <2> QED BY <2>1
<1> QED BY <1>1, <1>2, <1>3

\* fs_gets returns n of nread characters from pos on, and goes back to behind
\* them.
LEMMA GotStep ==
    ASSUME ReadInv, ret >= 0, UNCHANGED content, NEW nread \in Nat, pos + nread <= Len(content),
           NEW n \in 1..nread, NEW seek \in Int, nread + seek = n,
           Got(n, SubSeq(content, pos + 1, pos + nread), seek),
           n = bufsz \/ n < bufsz,
           Len(content) < bufsz => pos = 0 /\ n = Len(content) /\ terminated'
    PROVE  ReadInv'
<1> DEFINE buffer == SubSeq(content, pos + 1, pos + nread)
<1>0. content \in Seq(Chars) /\ pos \in 0..Len(content) /\ pieces = SubSeq(content, 1, pos)
  BY DEF ReadInv
<1>1. buffer \in Seq(Chars) /\ Len(buffer) = nread
  BY <1>0
<1>2. pos' = pos + n /\ ret' = n /\ line' = SubSeq(buffer, 1, n) /\ pieces' = pieces \o line'
  BY <1>0, <1>1 DEF Got
<1>3. line' = SubSeq(content, pos + 1, pos + n)
  BY <1>0, <1>2
<1>4. pieces' = SubSeq(content, 1, pos')
  BY <1>0, <1>2, <1>3, PiecesJoin
<1>5. Len(content) < bufsz => pos' = Len(content) /\ line' = content
  BY <1>0, <1>2, <1>3
<1> QED BY <1>0, <1>2, <1>4, <1>5 DEF ReadInv

LEMMA ReadStep == ReadInv /\ [Next]_vars => ReadInv'
<1> SUFFICES ASSUME ReadInv, [Next]_vars PROVE ReadInv'
  OBVIOUS
<1>0. bufsz \in Nat \ {0} BY HelpersAssumption
<1>1. CASE Open
  <2>1. content' \in Seq(Chars) /\ ret' = 0 /\ pos' = 0 /\ pieces' = <<>>
    BY <1>1, HelpersAssumption DEF Open, Closed
  <2>2. SubSeq(content', 1, 0) = <<>> /\ Len(content') \in Nat BY <2>1
  <2> QED BY <2>1, <2>2 DEF ReadInv
<1>2. CASE Close
  BY <1>2 DEF Close, ReadInv
<1>3. CASE fs_gets
  <2> DEFINE nread  == Lesser(bufsz, Len(content) - pos)
             buffer == SubSeq(content, pos + 1, pos + nread)
             slen   == LineLength(buffer)
  <2>0. /\ content \in Seq(Chars) /\ pos \in 0..Len(content) /\ Len(content) \in Nat
        /\ UNCHANGED content /\ ret >= 0 /\ ret \in Int
    BY <1>3 DEF fs_gets, ReadInv
  <2>1. nread \in 0..bufsz /\ pos + nread <= Len(content)
    BY <1>0, <2>0 DEF Lesser
  <2>2. Len(content) < bufsz => nread = Len(content) - pos
    BY <1>0, <2>0 DEF Lesser
  <2>3. Len(content) < bufsz /\ nread > 0 => pos = 0
    <3>1. ret > 0 /\ Len(content) < bufsz => pos = Len(content) BY DEF ReadInv
    <3>2. ret = 0 => pos = 0 BY DEF ReadInv
    <3> QED BY <2>0, <2>2, <3>1, <3>2
  <2>4. nread = bufsz => slen \in 1..bufsz
    <3>1. buffer \in Seq(Chars) /\ Len(buffer) = nread BY <2>0, <2>1
    <3> QED BY <3>1, LineInBuffer
  <2> HIDE DEF nread, slen
  <2>5. CASE nread \in 1..(bufsz - 1) /\ Got(nread, buffer, 0) /\ terminated' = TRUE
    <3>1. Len(content) < bufsz => pos = 0 /\ nread = Len(content) /\ terminated'
      BY <1>0, <2>0, <2>2, <2>3, <2>5
    <3>2. nread \in 1..nread /\ nread + 0 = nread /\ nread < bufsz /\ nread \in Nat
      BY <1>0, <2>5
    <3> QED BY <2>0, <2>1, <2>5, <3>1, <3>2, GotStep
  <2>6. CASE nread = bufsz /\ slen < bufsz /\ Got(slen, buffer, SeekBack(slen))
    <3>1. SeekBack(slen) \in Int /\ nread + SeekBack(slen) = slen
      BY <1>0, <2>4, <2>6 DEF SeekBack
    <3>2. ~(Len(content) < bufsz)
      BY <1>0, <2>0, <2>1, <2>6
    <3> QED BY <1>0, <2>0, <2>1, <2>4, <2>6, <3>1, <3>2, GotStep
  <2>7. CASE nread = bufsz /\ slen = bufsz /\ Got(bufsz, buffer, 0)
    <3>1. ~(Len(content) < bufsz)
      BY <1>0, <2>0, <2>1, <2>7
    <3> QED BY <1>0, <2>0, <2>1, <2>7, <3>1, GotStep
  <2>8. CASE ret' = 0 - 2 /\ pos' = pos + nread /\ UNCHANGED <<line, pieces>>
    BY <2>0, <2>1, <2>8 DEF ReadInv
  <2>9. CASE ret' = 0 - 1 /\ UNCHANGED <<pos, line, terminated, pieces>>
    BY <2>0, <2>9 DEF ReadInv
  <2> QED BY <1>3, <2>5, <2>6, <2>7, <2>8, <2>9 DEF fs_gets, nread, slen
<1>4. CASE UNCHANGED reading
  BY <1>4 DEF reading, ReadInv
<1> QED BY <1>1, <1>2, <1>3, <1>4
        DEF Next, vars, lsdir_init, lsdir_next, NotUploaded, Rename, lsdir_close

\* Whatever file and buffer: the pieces of fs_gets make up the file as far as
\* it was read, no character lost or repeated by the seek behind a newline, and
\* a file that is shorter than the buffer comes as one string that ends.
THEOREM PiecesAreTheFile == Spec => []PiecesMakeTheFile
<1>1. Init => ReadInv
  BY DEF Init, Closed, ReadInv
<1>2. ReadInv => PiecesMakeTheFile
  BY DEF ReadInv, PiecesMakeTheFile
<1> QED BY <1>1, <1>2, ReadStep, PTL DEF Spec

-----------------------------------------------------------------------------
(* Listing a directory.                                                      *)

LEMMA Concatenated ==
    ASSUME NEW s \in Seq(Chars), NEW t \in Seq(Chars)
    PROVE  /\ s \o t \in Seq(Chars) /\ Len(s \o t) = Len(s) + Len(t)
           /\ \A i \in 1..Len(s) : (s \o t)[i] = s[i]
           /\ \A i \in 1..Len(t) : (s \o t)[Len(s) + i] = t[i]
OBVIOUS

LEMMA LastCharacters ==
    ASSUME NEW s \in Seq(Chars), NEW t \in Seq(Chars), Len(t) <= Len(s)
    PROVE  SubSeq(s, Len(s) - Len(t) + 1, Len(s)) = t
             <=> \A k \in 1..Len(t) : s[Len(s) - Len(t) + k] = t[k]
<1> DEFINE last == SubSeq(s, Len(s) - Len(t) + 1, Len(s))
<1>1. Len(s) \in Nat /\ Len(t) \in Nat
  OBVIOUS
<1>2. last \in Seq(Chars) /\ Len(last) = Len(t)
  BY <1>1
<1>3. \A k \in 1..Len(t) : last[k] = s[Len(s) - Len(t) + k]
  BY <1>1
<1> HIDE DEF last
<1>4. last = t <=> \A k \in 1..Len(t) : last[k] = t[k]
  BY <1>1, <1>2
<1>5. last = t <=> \A k \in 1..Len(t) : s[Len(s) - Len(t) + k] = t[k]
  BY <1>3, <1>4
<1> QED BY <1>5 DEF last

\* The comparison of lsdir_next, which reads bytes before a name that is short,
\* finds the names that end with the suffix, and no others.
LEMMA EndsMeans ==
    ASSUME NEW name \in Seq(Chars)
    PROVE  Ends(name) <=>
             /\ Len(suffix) <= Len(name)
             /\ \A k \in 1..Len(suffix) : name[Len(name) - Len(suffix) + k] = suffix[k]
<1> DEFINE s == Reverse(suffix)
           t == Reverse(name)
           m == Len(suffix)
           n == Len(name)
<1>0. m \in Nat /\ n \in Nat /\ suffix \in Seq(Chars)
  BY NamesAssumption
<1>1. /\ s \in Seq(Chars) /\ Len(s) = m /\ \A i \in 1..m : s[i] = suffix[m - i + 1]
      /\ t \in Seq(Chars) /\ Len(t) = n /\ \A i \in 1..n : t[i] = name[n - i + 1]
  BY <1>0 DEF Reverse
<1> HIDE DEF s, t
<1>2. Ends(name) <=> m <= n /\ SubSeq(s, 1, m) = SubSeq(t, 1, m)
  BY <1>1 DEF Ends, IsSuffix, IsPrefix, s, t
<1>3. ASSUME m <= n
      PROVE  SubSeq(s, 1, m) = SubSeq(t, 1, m) <=> \A i \in 1..m : s[i] = t[i]
  <2>1. /\ SubSeq(s, 1, m) \in Seq(Chars) /\ Len(SubSeq(s, 1, m)) = m
        /\ SubSeq(t, 1, m) \in Seq(Chars) /\ Len(SubSeq(t, 1, m)) = m
        /\ \A i \in 1..m : SubSeq(s, 1, m)[i] = s[i] /\ SubSeq(t, 1, m)[i] = t[i]
    BY <1>0, <1>1, <1>3
  <2> QED BY <1>0, <2>1
<1>4. ASSUME m <= n
      PROVE  (\A i \in 1..m : s[i] = t[i]) <=> (\A k \in 1..m : name[n - m + k] = suffix[k])
  <2>1. ASSUME \A i \in 1..m : s[i] = t[i], NEW k \in 1..m PROVE name[n - m + k] = suffix[k]
    <3>1. m - k + 1 \in 1..m /\ m - k + 1 \in 1..n BY <1>0, <1>4
    <3>2. s[m - k + 1] = suffix[m - (m - k + 1) + 1] BY <1>1, <3>1
    <3>3. t[m - k + 1] = name[n - (m - k + 1) + 1] BY <1>1, <3>1
    <3>4. m - (m - k + 1) + 1 = k /\ n - (m - k + 1) + 1 = n - m + k BY <1>0
    <3> QED BY <2>1, <3>1, <3>2, <3>3, <3>4
  <2>2. ASSUME \A k \in 1..m : name[n - m + k] = suffix[k], NEW i \in 1..m PROVE s[i] = t[i]
    <3>1. m - i + 1 \in 1..m /\ i \in 1..n /\ n - m + (m - i + 1) = n - i + 1
      BY <1>0, <1>4
    <3>2. name[n - m + (m - i + 1)] = suffix[m - i + 1] BY <2>2, <3>1
    <3> QED BY <1>1, <3>1, <3>2
  <2> QED BY <2>1, <2>2
<1> QED BY <1>2, <1>3, <1>4

LEMMA MatchesMeansEnds ==
    ASSUME NEW entry \in Entry
    PROVE  Matches(entry) <=> Ends(entry.name)
<1> DEFINE name  == entry.name
           bytes == TypeOfFile \o name
           m == Len(suffix)
           n == Len(name)
<1>0. /\ name \in Seq(Chars) /\ n \in Nat /\ m \in 1..4 /\ suffix \in Seq(Chars)
      /\ \A i \in 1..m : suffix[i] # Nul
  BY HelpersAssumption, NamesAssumption DEF Entry, Range
<1>a. /\ TypeOfFile \in Seq(Chars) /\ Len(TypeOfFile) = 4
      /\ \A i \in 1..4 : TypeOfFile[i] = Nul
  BY HelpersAssumption DEF TypeOfFile
<1> HIDE DEF name
<1>b. name \in Seq(Chars) /\ n = Len(name) /\ n \in Nat
  BY <1>0
<1>c. /\ bytes \in Seq(Chars)
      /\ Len(bytes) = Len(TypeOfFile) + Len(name)
      /\ \A i \in 1..Len(TypeOfFile) : bytes[i] = TypeOfFile[i]
      /\ \A i \in 1..Len(name) : bytes[Len(TypeOfFile) + i] = name[i]
  BY <1>a, <1>b, Concatenated
<1> HIDE DEF bytes
<1>1. bytes \in Seq(Chars) /\ Len(bytes) = n + 4
  BY <1>a, <1>b, <1>c
<1>2. /\ \A i \in 1..4 : bytes[i] = Nul
      /\ \A i \in 1..n : bytes[4 + i] = name[i]
  BY <1>a, <1>b, <1>c
<1>3. m <= Len(bytes)
  BY <1>0, <1>1
<1>d. SubSeq(bytes, Len(bytes) - m + 1, Len(bytes)) = suffix
        <=> \A k \in 1..m : bytes[Len(bytes) - m + k] = suffix[k]
  BY <1>0, <1>1, <1>3, LastCharacters
<1>4. SubSeq(bytes, Len(bytes) - m + 1, Len(bytes)) = suffix
        <=> \A k \in 1..m : bytes[n + 4 - m + k] = suffix[k]
  BY <1>1, <1>d
<1>5. ASSUME \A k \in 1..m : bytes[n + 4 - m + k] = suffix[k]
      PROVE  m <= n /\ \A k \in 1..m : name[n - m + k] = suffix[k]
  <2>1. m <= n
    <3> SUFFICES ASSUME m > n PROVE FALSE
      BY <1>0
    <3>1. 1 \in 1..m /\ n + 4 - m + 1 \in 1..4 BY <1>0
    <3> QED BY <1>0, <1>2, <1>5, <3>1
  <2>2. ASSUME NEW k \in 1..m PROVE name[n - m + k] = suffix[k]
    <3>1. n - m + k \in 1..n /\ 4 + (n - m + k) = n + 4 - m + k BY <1>0, <2>1
    <3> QED BY <1>2, <1>5, <3>1
  <2> QED BY <2>1, <2>2
<1>6. ASSUME m <= n, \A k \in 1..m : name[n - m + k] = suffix[k], NEW k \in 1..m
      PROVE  bytes[n + 4 - m + k] = suffix[k]
  <2>1. n - m + k \in 1..n /\ 4 + (n - m + k) = n + 4 - m + k BY <1>0, <1>6
  <2> QED BY <1>2, <1>6, <2>1
<1>7. Matches(entry) <=> SubSeq(bytes, Len(bytes) - m + 1, Len(bytes)) = suffix
  BY DEF Matches, bytes, name
<1>8. Ends(name) <=> m <= n /\ \A k \in 1..m : name[n - m + k] = suffix[k]
  BY <1>0, EndsMeans
<1> QED BY <1>4, <1>5, <1>6, <1>7, <1>8 DEF name

\* A file that was uploaded is no log any more.
LEMMA UploadedIsNoLog ==
    ASSUME NEW name \in Seq(Chars)
    PROVE  name \o Uploaded \in Seq(Chars) /\ ~Ends(name \o Uploaded)
<1> DEFINE new == name \o Uploaded
<1>1. /\ Len(suffix) \in 1..4 /\ Len(Uploaded) \in Nat \ {0} /\ Len(name) \in Nat
      /\ Uploaded \in Seq(Chars)
  BY NamesAssumption
<1>2. new \in Seq(Chars) /\ Len(new) = Len(name) + Len(Uploaded)
  BY <1>1, Concatenated
<1>3. new[Len(new)] = Uploaded[Len(Uploaded)]
  BY <1>1, <1>2, Concatenated
<1> HIDE DEF new
<1>a. Len(new) \in Nat
  BY <1>2
<1>b. \A a \in 1..4, b \in Nat : a \in 1..a /\ b - a + a = b
  OBVIOUS
<1>4. Len(suffix) \in 1..Len(suffix) /\ Len(new) - Len(suffix) + Len(suffix) = Len(new)
  BY <1>1, <1>a, <1>b
<1>5. Ends(new) => new[Len(new)] = suffix[Len(suffix)]
  BY <1>2, <1>4, EndsMeans
<1> QED BY <1>2, <1>3, <1>5, NamesAssumption DEF new

\* A log of the directory: lsdir_next returns its name when it comes to slot i.
LogAt(i) == slots[i] # Free /\ ~slots[i].dir /\ Ends(slots[i].name)
Ahead == {i \in (at + 1)..Len(slots) : LogAt(i)}

\* Every log that was in the directory is behind the slot read last and was
\* listed, or is in a slot ahead and was not. What Rename puts into a slot ahead
\* is no log, so it makes no difference to this.
ListInv ==
    /\ slots \in Seq(Entry \cup {Free}) /\ at \in 0..Len(slots)
    /\ listed \in Seq(Seq(Chars)) /\ IsInjective(listed)
    /\ path # <<>> => at >= 1 /\ slots[at] # Free /\ slots[at].name = path
    /\ \A i, j \in Ahead : slots[i].name = slots[j].name => i = j
    /\ \A i \in Ahead : slots[i].name \notin Range(listed)
    /\ logs = Range(listed) \cup {slots[i].name : i \in Ahead}

LEMMA ListInit == NotListing => ListInv
<1> SUFFICES ASSUME NotListing PROVE ListInv
  OBVIOUS
<1>1. slots = <<>> /\ at = 0 /\ path = <<>> /\ logs = {} /\ listed = <<>>
  BY DEF NotListing
<1>2. Ahead = {} /\ Range(listed) = {}
  BY <1>1 DEF Ahead, Range
<1>3. IsInjective(listed)
  BY <1>1 DEF IsInjective
<1> QED BY <1>1, <1>2, <1>3 DEF ListInv

\* lsdir_init finds all the logs ahead.
LEMMA InitStep == ListInv /\ lsdir_init => ListInv'
<1> SUFFICES ASSUME ListInv, lsdir_init PROVE ListInv'
  OBVIOUS
<1>1. slots' \in Directories /\ logs' = Logs(slots')
      /\ at' = 0 /\ path' = <<>> /\ listed' = <<>>
  BY DEF lsdir_init, NotListing
<1>2. slots' \in Seq(Entry \cup {Free}) /\ DOMAIN slots' = 1..Len(slots')
      /\ Len(slots') \in Nat
  BY <1>1, NamesAssumption
<1>3. Ahead' = {i \in DOMAIN slots' : LogAt(i)'}
  BY <1>1, <1>2 DEF Ahead
<1>4. logs' = {slots'[i].name : i \in Ahead'}
  BY <1>1, <1>3 DEF Logs, LogAt
<1>5. \A i, j \in Ahead' : slots'[i].name = slots'[j].name => i = j
  BY <1>1, <1>3, NamesAssumption DEF LogAt
<1>6. Range(listed') = {} /\ IsInjective(listed')
  BY <1>1 DEF Range, IsInjective
<1> QED BY <1>1, <1>2, <1>4, <1>5, <1>6 DEF ListInv

\* lsdir_next lists the log of its slot, which is no longer ahead.
LEMMA RoundStep ==
    ASSUME ListInv, at < Len(slots), at' = at + 1, path = <<>>,
           LET entry == slots[at']
           IN  IF entry # Free /\ ~entry.dir /\ Matches(entry)
               THEN path' = entry.name /\ listed' = Append(listed, entry.name)
               ELSE UNCHANGED <<path, listed>>,
           UNCHANGED <<slots, logs>>
    PROVE  ListInv'
<1> DEFINE n == at + 1
           entry == slots[n]
<1>0. /\ at \in Nat /\ Len(slots) \in Nat /\ at < Len(slots) /\ n \in 1..Len(slots)
      /\ at' = n /\ slots' = slots /\ logs' = logs /\ entry \in Entry \cup {Free}
  BY DEF ListInv
<1>1. entry \in Entry => entry.name \in Seq(Chars)
  BY DEF Entry
<1>2. entry # Free => (Matches(entry) <=> Ends(entry.name))
  BY <1>0, MatchesMeansEnds
<1>3. Ahead' = Ahead \ {n}
  BY <1>0 DEF Ahead, LogAt
<1>4. CASE LogAt(n)
  <2>1. path' = entry.name /\ listed' = Append(listed, entry.name)
    BY <1>0, <1>2, <1>4 DEF LogAt
  <2>2. n \in Ahead
    BY <1>0, <1>4 DEF Ahead
  <2>3. entry.name \in Seq(Chars) /\ entry.name \notin Range(listed)
    BY <1>0, <1>1, <1>4, <2>2 DEF LogAt, ListInv
  <2>4. /\ listed' \in Seq(Seq(Chars)) /\ IsInjective(listed')
        /\ Range(listed') = Range(listed) \cup {entry.name}
    <3>1. /\ listed' \in Seq(Seq(Chars)) /\ Len(listed') = Len(listed) + 1
          /\ Len(listed) \in Nat /\ DOMAIN listed = 1..Len(listed)
          /\ DOMAIN listed' = 1..(Len(listed) + 1)
          /\ \A i \in 1..Len(listed) : listed'[i] = listed[i]
          /\ listed'[Len(listed) + 1] = entry.name
      BY <2>1, <2>3 DEF ListInv
    <3>2. \A i \in 1..(Len(listed) + 1) : i \in 1..Len(listed) \/ i = Len(listed) + 1
      BY <3>1
    <3>3. \A i \in 1..Len(listed) : listed[i] # entry.name
      BY <2>3, <3>1 DEF Range
    <3>4. IsInjective(listed')
      BY <3>1, <3>2, <3>3 DEF IsInjective, ListInv
    <3>5. Range(listed') = Range(listed) \cup {entry.name}
      BY <3>1, <3>2 DEF Range
    <3> QED BY <3>1, <3>4, <3>5
  <2>5. \A i \in Ahead' : slots[i].name # entry.name
    BY <1>3, <2>2 DEF ListInv
  <2>6. \A i, j \in Ahead' : slots[i].name = slots[j].name => i = j
    BY <1>3 DEF ListInv
  <2>7. \A i \in Ahead' : slots[i].name \notin Range(listed')
    BY <1>3, <2>4, <2>5 DEF ListInv
  <2>8. logs' = Range(listed') \cup {slots'[i].name : i \in Ahead'}
    BY <1>0, <1>3, <2>2, <2>4 DEF ListInv
  <2>9. entry # Free /\ at' >= 1 /\ at' \in 0..Len(slots')
    BY <1>0, <1>4 DEF LogAt
  <2> QED BY <1>0, <2>1, <2>4, <2>6, <2>7, <2>8, <2>9 DEF ListInv
<1>5. CASE ~LogAt(n)
  <2>1. path' = path /\ listed' = listed /\ path = <<>>
    BY <1>0, <1>2, <1>5 DEF LogAt
  <2>2. n \notin Ahead
    BY <1>5 DEF Ahead
  <2> QED BY <1>0, <1>3, <2>1, <2>2 DEF ListInv
<1> QED BY <1>4, <1>5

LEMMA NextStep == ListInv /\ lsdir_next => ListInv'
<1> SUFFICES ASSUME ListInv, lsdir_next PROVE ListInv'
  OBVIOUS
<1>1. CASE failed' = TRUE /\ UNCHANGED <<at, path, listed>>
  BY <1>1 DEF lsdir_next, ListInv, Ahead, LogAt
<1>2. CASE ~(failed' = TRUE /\ UNCHANGED <<at, path, listed>>)
  BY <1>2, RoundStep DEF lsdir_next
<1> QED BY <1>1, <1>2

\* What a log is renamed to is no log, in whatever slot it is put.
LEMMA RenameStep == ListInv /\ Rename => ListInv'
<1> SUFFICES ASSUME ListInv, Rename PROVE ListInv'
  OBVIOUS
<1> DEFINE renamed == [slots[at] EXCEPT !.name = @ \o Uploaded]
           grown(i) == IF i > Len(slots) THEN Append(slots, renamed)
                       ELSE [slots EXCEPT ![i] = renamed]
<1>0. /\ path # <<>> /\ path' = <<>> /\ at' = at /\ logs' = logs /\ listed' = listed
      /\ at \in 1..Len(slots) /\ Len(slots) \in Nat /\ slots[at] \in Entry
      /\ DOMAIN slots = 1..Len(slots)
  BY DEF ListInv, Rename
<1>1. PICK i \in {j \in DOMAIN slots : slots[j] = Free} \cup {Len(slots) + 1} :
        slots' = [grown(i) EXCEPT ![at] = Free]
  BY DEF Rename
<1>2. /\ renamed \in Entry /\ renamed.name = slots[at].name \o Uploaded
      /\ slots[at].name \in Seq(Chars) /\ ~Ends(renamed.name)
  BY <1>0, UploadedIsNoLog DEF Entry
<1> HIDE DEF renamed
<1>3. i \in 1..(Len(slots) + 1) /\ i # at
  BY <1>0, NamesAssumption DEF ListInv
<1>4. /\ grown(i) \in Seq(Entry \cup {Free}) /\ at \in DOMAIN grown(i)
      /\ grown(i)[i] = renamed
      /\ \/ Len(grown(i)) = Len(slots) /\ i <= Len(slots)
         \/ Len(grown(i)) = Len(slots) + 1 /\ i = Len(slots) + 1
      /\ \A j \in 1..Len(slots) : j # i => grown(i)[j] = slots[j]
  <2>0. slots \in Seq(Entry \cup {Free}) /\ renamed \in Entry \cup {Free}
    BY <1>2 DEF ListInv
  <2>1. CASE i > Len(slots)
    <3>1. grown(i) = Append(slots, renamed) /\ i = Len(slots) + 1
      BY <1>0, <1>3, <2>1
    <3> HIDE DEF grown
    <3>2. /\ grown(i) \in Seq(Entry \cup {Free}) /\ Len(grown(i)) = Len(slots) + 1
          /\ grown(i)[Len(slots) + 1] = renamed
          /\ \A j \in 1..Len(slots) : grown(i)[j] = slots[j]
      BY <2>0, <3>1
    <3> QED BY <1>0, <3>1, <3>2
  <2>2. CASE ~(i > Len(slots))
    <3>1. grown(i) = [slots EXCEPT ![i] = renamed] /\ i \in 1..Len(slots)
      BY <1>0, <1>3, <2>2
    <3> HIDE DEF grown
    <3>2. /\ grown(i) \in Seq(Entry \cup {Free}) /\ Len(grown(i)) = Len(slots)
          /\ DOMAIN grown(i) = 1..Len(slots) /\ grown(i)[i] = renamed
          /\ \A j \in 1..Len(slots) : j # i => grown(i)[j] = slots[j]
      BY <2>0, <3>1
    <3>3. at \in DOMAIN grown(i)
      BY <1>0, <3>2
    <3>4. i <= Len(slots)
      BY <1>0, <3>1
    <3> QED BY <3>2, <3>3, <3>4, Zenon
  <2> QED BY <2>1, <2>2
<1> HIDE DEF grown
<1>5. /\ slots' \in Seq(Entry \cup {Free}) /\ Len(slots') = Len(grown(i))
      /\ slots'[i] = renamed /\ slots'[at] = Free
      /\ \A j \in 1..Len(slots) : j # i /\ j # at => slots'[j] = slots[j]
  BY <1>1, <1>3, <1>4
<1>6. i \notin Ahead /\ i \notin Ahead' /\ at \notin Ahead
  <2>1. i \notin Ahead
    BY <1>0, <1>1, <1>3 DEF Ahead, LogAt
  <2>2. i \notin Ahead'
    BY <1>2, <1>5 DEF Ahead, LogAt
  <2> QED BY <1>0, <2>1, <2>2 DEF Ahead
<1>7. Ahead' = Ahead
  <2>1. ASSUME NEW j \in Ahead PROVE j \in Ahead'
    <3>1. j \in (at + 1)..Len(slots) /\ j # i /\ j # at /\ LogAt(j)
      BY <1>6 DEF Ahead
    <3>2. slots'[j] = slots[j] /\ j \in (at + 1)..Len(slots')
      BY <1>0, <1>4, <1>5, <3>1
    <3> QED BY <1>0, <3>1, <3>2 DEF Ahead, LogAt
  <2>2. ASSUME NEW j \in Ahead' PROVE j \in Ahead
    <3>1. j \in (at + 1)..Len(slots') /\ j # i /\ j # at /\ LogAt(j)'
      BY <1>0, <1>6 DEF Ahead
    <3>2. j \in (at + 1)..Len(slots)
      BY <1>0, <1>3, <1>4, <1>5, <3>1
    <3>3. slots'[j] = slots[j]
      BY <1>0, <1>5, <3>1, <3>2
    <3> QED BY <3>1, <3>2, <3>3 DEF Ahead, LogAt
  <2> QED BY <2>1, <2>2
<1>8. \A j \in Ahead : slots'[j] = slots[j]
  BY <1>0, <1>5, <1>6 DEF Ahead
<1>9. at' \in 0..Len(slots')
  BY <1>0, <1>4, <1>5
<1>10. logs' = Range(listed') \cup {slots'[j].name : j \in Ahead'}
  <2>1. {slots'[j].name : j \in Ahead'} = {slots[j].name : j \in Ahead}
    BY <1>7, <1>8
  <2> QED BY <1>0, <2>1 DEF ListInv
<1>11. \A j, k \in Ahead' : slots'[j].name = slots'[k].name => j = k
  BY <1>7, <1>8 DEF ListInv
<1>12. \A j \in Ahead' : slots'[j].name \notin Range(listed')
  BY <1>0, <1>7, <1>8 DEF ListInv
<1>13. listed' \in Seq(Seq(Chars)) /\ IsInjective(listed')
  BY <1>0 DEF ListInv
<1> QED BY <1>0, <1>5, <1>9, <1>10, <1>11, <1>12, <1>13 DEF ListInv

LEMMA ListStep == ListInv /\ [Next]_vars => ListInv'
<1> SUFFICES ASSUME ListInv, [Next]_vars PROVE ListInv'
  OBVIOUS
<1>1. CASE UNCHANGED listing
  BY <1>1 DEF ListInv, Ahead, LogAt, listing
<1>2. CASE Open \/ fs_gets \/ Close \/ UNCHANGED vars
  <2>1. UNCHANGED listing BY <1>2 DEF Open, fs_gets, Close, vars
  <2> QED BY <1>1, <2>1
<1>3. CASE lsdir_init BY <1>3, InitStep
<1>4. CASE lsdir_next BY <1>4, NextStep
<1>5. CASE Rename BY <1>5, RenameStep
<1>6. CASE NotUploaded
  BY <1>6 DEF NotUploaded, ListInv, Ahead, LogAt
<1>7. CASE lsdir_close
  <2>1. NotListing' BY <1>7 DEF lsdir_close, NotListing
  <2>2. NotListing' => ListInv' BY ListInit, PTL
  <2> QED BY <2>1, <2>2
<1> QED BY <1>2, <1>3, <1>4, <1>5, <1>6, <1>7 DEF Next

\* sync_files gets no log twice and nothing else than logs, and once the whole
\* directory was read every log that was in it, although the files it was given
\* get new names in slots it has yet to read: for every directory, suffix and
\* order of the free slots, and wherever fs_readdir fails (lsdir_init,
\* lsdir_next and fs_rename, featherw_datalogger.c and main.c).
THEOREM ListsEveryLogOnce == Spec => []EveryLogOnce
<1>1. Init => ListInv
  BY ListInit DEF Init
<1>2. ListInv => EveryLogOnce
  <2> SUFFICES ASSUME ListInv PROVE EveryLogOnce
    OBVIOUS
  <2>1. at = Len(slots) => Ahead = {}
    BY DEF ListInv, Ahead
  <2> QED BY <2>1 DEF ListInv, EveryLogOnce
<1> QED BY <1>1, <1>2, ListStep, PTL DEF Spec

=============================================================================
