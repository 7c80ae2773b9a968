-------------------------- MODULE MCLz4FrameDecoder --------------------------
(* Lz4FrameDecoder for TLC: a window of two bytes, blocks of two and of eight. *)
EXTENDS Lz4FrameDecoder

MCBlockSizes == (4 :> 2) @@ (5 :> 8)

Field0 == [k |-> "other", size |-> 0, ok |-> TRUE, last |-> FALSE, raw |-> FALSE,
           n |-> 0, from |-> 0]
\* Blocks of n bytes from the given position on, of one byte when compressed.
Raw(n, from) ==
    <<[Field0 EXCEPT !.k = "head", !.size = 4, !.n = n, !.raw = TRUE, !.from = from],
      [Field0 EXCEPT !.k = "raw", !.size = n, !.n = n, !.from = from]>>
Packed(n, from, ok) ==
    <<[Field0 EXCEPT !.k = "head", !.size = 4, !.n = 1, !.from = from],
      [Field0 EXCEPT !.k = "block", !.size = 1, !.n = n, !.ok = ok, !.from = from]>>
Good(n, from) == Packed(n, from, TRUE)
Sum(from, ok) == <<[Field0 EXCEPT !.k = "bsum", !.size = 4, !.ok = ok, !.from = from]>>
\* A frame: header, blocks, end mark and, if asked for, checksum.
Frame(id, linked, sums, sized, blocks, total, ok) ==
    LET info == [blockSizeID |-> id, linked |-> linked, blockSum |-> sums,
                 contentSum |-> sums, sized |-> sized,
                 contentSize |-> IF sized THEN total ELSE 0]
        mark == [Field0 EXCEPT !.size = 4, !.n = total, !.from = total + 1]
        all  == <<[Field0 EXCEPT !.k = "frame", !.size = IF sized THEN 15 ELSE 7, !.from = 1]>>
                \o blocks \o <<[mark EXCEPT !.k = "end", !.last = ~sums]>>
                \o (IF sums THEN <<[mark EXCEPT !.k = "sum", !.ok = ok, !.last = TRUE]>>
                    ELSE <<>>)
    IN  [i \in DOMAIN all |-> all[i] @@ [info |-> info]]
Skip(n) ==
    LET all == <<[Field0 EXCEPT !.k = "skip", !.size = 8, !.n = n],
                 [Field0 EXCEPT !.k = "skipped", !.size = n, !.last = TRUE]>>
    IN  [i \in DOMAIN all |-> all[i] @@ [info |-> NoFrameInfo]]

Linked == Frame(4, TRUE, FALSE, FALSE,
    Good(2, 1) \o Good(2, 3) \o Good(2, 5) \o Raw(1, 7) \o Good(1, 8), 8, TRUE)
LinkedBig == Frame(5, TRUE, FALSE, FALSE, Good(4, 1) \o Good(2, 5), 6, TRUE)
Separate(ok) == Frame(5, FALSE, TRUE, FALSE,
    Packed(3, 1, TRUE) \o Sum(4, ok) \o Raw(1, 4) \o Sum(5, TRUE), 4, TRUE)
Sized(ok) == Frame(4, TRUE, TRUE, TRUE, Good(2, 1) \o Sum(3, TRUE), 2, ok)
\* Fields at their places.
Placed(fields) ==
    [i \in DOMAIN fields |-> fields[i] @@
        [at |-> FoldLeft(LAMBDA total, f : total + f.size, 1, SubSeq(fields, 1, i - 1))]]
MCStreams == {Placed(fields) : fields \in
    {Linked, LinkedBig, Separate(TRUE), Separate(FALSE), Sized(TRUE) \o Skip(2), Sized(FALSE)}}
=============================================================================
