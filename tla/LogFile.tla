------------------------------- MODULE LogFile -------------------------------
(***************************************************************************)
(* What a log stream promises its user, whatever happens below it:         *)
(*                                                                         *)
(*   - a finished log holds exactly the data that was written to it, in    *)
(*     the order it was written;                                           *)
(*   - it never changes again, except that finishing another log of the    *)
(*     same name removes it and then takes its place;                      *)
(*   - a log that was not finished may vanish as a whole (power loss), a   *)
(*     finished one may not.                                               *)
(*                                                                         *)
(* Lz4Stream implements this module on a FAT card, with a bounded RAM      *)
(* buffer, a temporary name and a rename.                                  *)
(***************************************************************************)
EXTENDS Sequences

CONSTANTS
    Names,      \* names a log may be given
    Data,       \* the pieces of data that may be written
    NoFile      \* the absence of a log

VARIABLES
    logs,       \* logs[n]: data of the finished log n, or NoFile
    current     \* the log being written: {} or {[name, data]}

vars == <<logs, current>>

TypeOK ==
    /\ logs \in [Names -> Seq(Data) \cup {NoFile}]
    /\ current \in SUBSET [name : Names, data : Seq(Data)]

Init ==
    /\ logs \in [Names -> {NoFile}]
    /\ current = {}

Open(n) ==
    /\ current = {}
    /\ current' = {[name |-> n, data |-> <<>>]}
    /\ UNCHANGED logs

Append1(d) ==
    /\ \E c \in current :
          current' = {[name |-> c.name, data |-> Append(c.data, d)]}
    /\ UNCHANGED logs

\* A finished log of the same name is removed before the new one appears.
Supersede ==
    /\ \E c \in current : logs' = [logs EXCEPT ![c.name] = NoFile]
    /\ UNCHANGED current

Finish ==
    /\ \E c \in current : logs' = [logs EXCEPT ![c.name] = c.data]
    /\ current' = {}

\* Power loss: only the unfinished log is lost.
Lose ==
    /\ current # {}
    /\ current' = {}
    /\ UNCHANGED logs

Next ==
    \/ \E n \in Names : Open(n)
    \/ \E d \in Data : Append1(d)
    \/ Supersede
    \/ Finish
    \/ Lose

Spec == Init /\ [][Next]_vars
==============================================================================
