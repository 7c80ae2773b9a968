---------------------------- MODULE MCLz4RoundTrip ----------------------------
(* Lz4RoundTrip for TLC: bytes 0 and 1, matches of two bytes, a window of 12. *)
EXTENDS Lz4RoundTrip, TLC

Bytes == {0, 1}
\* equal bytes collide, and so do bytes that start alike
HashOf == [w \in [1..2 -> 0..2] |-> IF w[1] = w[2] THEN 0 ELSE w[1] + 1]
Of(n) == [1..n -> Bytes]
Runs(n) == {[i \in 1..n |-> IF i <= j THEN b ELSE IF i <= k THEN 1 - b ELSE b] :
               b \in Bytes, j \in 1..n, k \in {3, n}}
\* Found late and extended back over positions already in the table.
Late == <<0, 1, 1, 0, 0, 2, 0, 1, 1, 1, 0, 0, 2, 0, 1, 1, 1, 0, 0, 2>>
\* Repeats itself only behind its second byte, where a shorter dictionary ends.
Repeats == <<2, 1, 0, 0, 0, 0, 0, 0>>
Turns == <<
    {<<0, 0, 0, 1, 0, 0, 0>>, <<1, 1, 0, 1, 0>>, <<0, 1, 0, 0, 1, 0, 0, 1>>, <<0, 1>>},
    {<<0, 0, 0, 0, 0>>, <<0, 1, 0, 0, 1, 0, 0>>, Repeats},
    {<<0, 1, 0, 1, 0, 1, 0>>, <<1, 1, 0, 1, 1>>, <<0, 1, 0, 0, 1, 0, 0, 1>>} >>

MCBlocks(k, n) ==
    CASE k # "one"          -> Turns[n]
      [] k = "one" /\ n = 1 -> Of(8) \cup Runs(11) \cup Runs(16) \cup {Late, <<>>}
      [] k = "one" /\ n = 2 -> {<<0, 0, 1, 0, 0>>}
      [] OTHER               -> {}
MCCaps(k, n) ==
    CASE k = "one"  -> {0, Greater(n, 4) - 4, Greater(n, 1) - 1, LZ4_compressBound(n)}
      [] k = "ring" -> {LZ4_compressBound(n)}
      [] OTHER      -> {n - 1}
Learned == <<0, 1, 1, 0, 0>>
=============================================================================
