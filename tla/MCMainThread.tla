----------------------------- MODULE MCMainThread -----------------------------
(* MainThread for TLC: two certificates of the user's, and one block more   *)
(* than the sentences should ever need.                                     *)
EXTENDS MainThread

CONSTANTS own, other, f1, f2, f3, f4, f5, f6

TwoCerts  == {own, other}
SixFrames == {f1, f2, f3, f4, f5, f6}
===============================================================================
