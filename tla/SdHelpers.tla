------------------------------ MODULE SdHelpers ------------------------------
(* What read_config and sync_files build on (featherw_datalogger.c): fs_gets,  *)
(* which reads a file in pieces, and lsdir_init and lsdir_next, which list the *)
(* logs of a directory while the files listed are being renamed.               *)
(*                                                                             *)
(* A directory is a sequence of slots, as FatFs keeps it. In struct fs_dirent  *)
(* the type comes right before the name, zero for a file: lsdir_next looks at  *)
(* its bytes when the name is shorter than the suffix.                         *)
EXTENDS Integers, SequencesExt

CONSTANTS
    bufsz,              \* of fs_gets: JSONBUFLEN
    Chars, Newline, Nul,
    Contents,           \* files to read, sequences of characters
    suffix,             \* endswith of lsdir_next: ".lz4"
    Uploaded,           \* what sync_files adds to it: "_ok"
    Free,               \* a slot that holds no entry
    Directories         \* directories to list

Entry == [dir : BOOLEAN, name : Seq(Chars)]

ASSUME HelpersAssumption ==
    /\ bufsz \in Nat \ {0}
    /\ {Newline, Nul} \subseteq Chars /\ Contents \subseteq Seq(Chars)

\* A directory names each file once. A new name of sync_files is not that of a
\* log: "_ok" (main.c:80) does not end with the last character of ".lz4".
ASSUME NamesAssumption ==
    /\ Free \notin Entry /\ Directories \subseteq Seq(Entry \cup {Free})
    /\ \A d \in Directories : \A i, j \in DOMAIN d :
          d[i] # Free /\ d[j] # Free /\ d[i].name = d[j].name => i = j
    /\ \A d \in Directories : \A i \in DOMAIN d : d[i] # Free => d[i].name # <<>>
    /\ suffix \in Seq(Chars) /\ Len(suffix) \in 1..4 /\ Nul \notin Range(suffix)
    /\ Uploaded \in Seq(Chars) /\ Uploaded # <<>>
    /\ Uploaded[Len(Uploaded)] # suffix[Len(suffix)]

VARIABLES
    content, pos,       \* the file and the position in it
    line, terminated,   \* the string fs_gets left in linebuffer
    ret,                \* what it returned
    pieces,             \* history: what it returned before, put together
    slots, at,          \* the directory and the slot read last
    path,               \* what lsdir_next returned: <<>>, or the name
    failed,             \* fs_readdir has failed
    logs, listed        \* history: the logs there were, those returned

reading == <<content, pos, line, terminated, ret, pieces>>
listing == <<slots, at, path, failed, logs, listed>>
vars == <<reading, listing>>

Lesser(a, b) == IF a < b THEN a ELSE b

Closed ==
    /\ content = <<>> /\ pos = 0 /\ ret = 0 - 1
    /\ line = <<>> /\ terminated = FALSE /\ pieces = <<>>
NotListing ==
    /\ slots = <<>> /\ at = 0 /\ path = <<>> /\ failed = FALSE
    /\ logs = {} /\ listed = <<>>

Init == Closed /\ NotListing

-----------------------------------------------------------------------------
(* fs_gets                                                                   *)

Open ==
    /\ Closed /\ NotListing
    /\ content' \in Contents /\ ret' = 0
    /\ UNCHANGED <<pos, line, terminated, pieces, listing>>

Close ==
    /\ ~Closed
    /\ content' = <<>> /\ pos' = 0 /\ ret' = 0 - 1
    /\ line' = <<>> /\ terminated' = FALSE /\ pieces' = <<>>
    /\ UNCHANGED listing

\* strchr: up to the first newline, unless a NUL comes before. In a buffer with
\* neither it goes on behind the buffer, and whatever it finds there, the whole
\* buffer is returned.
LineLength(buffer) ==
    LET ends == {i \in DOMAIN buffer : buffer[i] \in {Newline, Nul}}
        end  == CHOOSE i \in ends : \A j \in ends : i <= j
    IN  IF ends = {} \/ buffer[end] = Nul THEN bufsz ELSE end

NoSeek(slen)   == 0                                      \* mutant
SeekBack(slen) == slen - bufsz

Got(n, buffer, seek) ==
    /\ line' = SubSeq(buffer, 1, n) /\ ret' = n
    /\ pos' = pos + Len(buffer) + seek
    /\ pieces' = pieces \o line'

fs_gets ==
    /\ ret >= 0
    /\ LET nread  == Lesser(bufsz, Len(content) - pos)
           buffer == SubSeq(content, pos + 1, pos + nread)
           slen   == LineLength(buffer)
       IN  \/ /\ nread \in 1..(bufsz - 1)
              /\ Got(nread, buffer, 0) /\ terminated' = TRUE
           \/ /\ nread = bufsz /\ slen < bufsz
              /\ \/ Got(slen, buffer, SeekBack(slen))
                 \/ /\ ret' = 0 - 2                      \* fs_seek fails
                    /\ pos' = pos + nread
                    /\ UNCHANGED <<line, pieces>>
              /\ terminated' = TRUE
           \/ /\ nread = bufsz /\ slen = bufsz
              /\ Got(bufsz, buffer, 0) /\ terminated' = FALSE
           \/ /\ ret' = 0 - 1                  \* the end, or fs_read fails
              /\ UNCHANGED <<pos, line, terminated, pieces>>
    /\ UNCHANGED <<content, listing>>

-----------------------------------------------------------------------------
(* The listing of sync_files                                                 *)

Ends(name) == IsSuffix(suffix, name)
Logs(d) == {d[i].name : i \in {j \in DOMAIN d : d[j] # Free /\ ~d[j].dir /\ Ends(d[j].name)}}

lsdir_init ==
    /\ Closed /\ NotListing
    /\ slots' \in Directories \ {<<>>}
    /\ logs' = Logs(slots')
    /\ UNCHANGED <<at, path, failed, listed, reading>>

lsdir_close ==
    /\ at = Len(slots) \/ failed
    /\ path = <<>> /\ ~NotListing
    /\ slots' = <<>> /\ at' = 0 /\ failed' = FALSE /\ logs' = {} /\ listed' = <<>>
    /\ UNCHANGED <<path, reading>>

\* strcmp from as many bytes before the end of the name as the suffix has.
MatchesAnywhere(entry) == \E i \in DOMAIN entry.name :   \* mutant: strstr
    IsPrefix(suffix, SubSeq(entry.name, i, Len(entry.name)))
TypeOfFile == <<Nul, Nul, Nul, Nul>>
Matches(entry) ==
    LET bytes == TypeOfFile \o entry.name
    IN  SubSeq(bytes, Len(bytes) - Len(suffix) + 1, Len(bytes)) = suffix

\* One round of the loop: fs_readdir passes over free slots. When it fails,
\* lsdir_next returns what it does at the end, and the listing stops there.
lsdir_next ==
    /\ path = <<>> /\ ~NotListing /\ ~failed
    /\ \/ /\ at < Len(slots)
          /\ at' = at + 1
          /\ LET entry == slots[at']
             IN  IF entry # Free /\ ~entry.dir /\ Matches(entry)
                 THEN path' = entry.name /\ listed' = Append(listed, entry.name)
                 ELSE UNCHANGED <<path, listed>>
          /\ UNCHANGED failed
       \/ failed' = TRUE /\ UNCHANGED <<at, path, listed>>
    /\ UNCHANGED <<slots, logs, reading>>

\* The file is not uploaded, ...
NotUploaded ==
    /\ path # <<>>
    /\ path' = <<>>
    /\ UNCHANGED <<slots, at, failed, logs, listed, reading>>

\* ... or it is, and fs_rename makes its new entry in a free slot, or behind
\* the last, and frees the old one.
Rename ==
    /\ path # <<>>
    /\ path' = <<>>
    /\ \E i \in {j \in DOMAIN slots : slots[j] = Free} \cup {Len(slots) + 1} :
          LET renamed == [slots[at] EXCEPT !.name = @ \o Uploaded]
              grown   == IF i > Len(slots) THEN Append(slots, renamed)
                         ELSE [slots EXCEPT ![i] = renamed]
          IN  slots' = [grown EXCEPT ![at] = Free]
    /\ UNCHANGED <<at, failed, logs, listed, reading>>

Next ==
    \/ Open \/ fs_gets \/ Close
    \/ lsdir_init \/ lsdir_next \/ NotUploaded \/ Rename \/ lsdir_close

Spec == Init /\ [][Next]_vars

-----------------------------------------------------------------------------
(* Properties                                                                *)

\* Whatever the lengths of the lines and of the buffer: the pieces fs_gets
\* returns make up the file, none lost by the fs_seek and none twice, and a file
\* shorter than the buffer comes as one string that ends, which is what
\* read_config gives to the JSON parser (config.c:87-95).
PiecesMakeTheFile ==
    ret >= 0 =>
        /\ pieces = SubSeq(content, 1, pos)
        /\ ret > 0 /\ Len(content) < bufsz => line = content /\ terminated

\* sync_files gets no log twice and nothing else than logs, and every log that
\* was in the directory once all of it was read, although files it was given
\* get new names, in slots it has yet to read, and some names are shorter than
\* the suffix. When fs_readdir fails, the logs ahead wait for the next time.
EveryLogOnce ==
    /\ IsInjective(listed) /\ Range(listed) \subseteq logs
    /\ at = Len(slots) => Range(listed) = logs
=============================================================================
