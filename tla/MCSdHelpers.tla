---------------------------- MODULE MCSdHelpers ----------------------------
(* SdHelpers for TLC: files of up to five characters read through three, and *)
(* directories of three slots.                                               *)
EXTENDS SdHelpers

MCContents == UNION {[1..n -> {"x", Newline, Nul}] : n \in 0..5}

MCChars == {"x", "a", "b", "d", "t", ".", "l", "z", "4", "_", Newline, Nul}
File(name) == [dir |-> FALSE, name |-> name]
lz4 == <<".", "l", "z", "4">>
Renamed == <<"_">>
Entries == {File(<<"a">> \o lz4), File(<<"b">> \o lz4), File(lz4),
            [dir |-> TRUE, name |-> <<"d">> \o lz4], File(<<"a">> \o lz4 \o <<"t">>),
            File(<<"l", "z", "4">>), File(<<"4">>)}
MCDirectories ==
    {d \in [1..3 -> Entries \cup {Free}] :
        \A i, j \in 1..3 : i < j /\ d[i] = d[j] => d[i] = Free}
============================================================================
