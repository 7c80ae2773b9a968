---------------------------- MODULE MCLz4Stream ----------------------------
(* Lz4Stream for TLC: pieces of two sizes, in a buffer that one of the     *)
(* pairs fills exactly and the others overflow.                            *)
EXTENDS Lz4Stream, TLC

CONSTANTS a, b, n1

OneName == {n1}
AB      == {a, b}
Sizes   == [d \in Data |-> IF d = a THEN 2 ELSE 3]
=============================================================================
