--------------------------- MODULE MCUploadClient ----------------------------
(* UploadClient for TLC.                                                   *)
EXTENDS UploadClient

CONSTANTS f1, f2, e1

TwoFiles  == {f1, f2}
WithEmpty == {f1, f2, e1}
OneEmpty  == {e1}
NoneEmpty == {}

OnlyRefused == {{"refuse"}}

(* Every trouble alone, with each other one, and with all but one. Troubles *)
(* only add steps, so for an invariant a set also shows what its subsets do,*)
(* and the last three are the most that one of them leaves room for.        *)
MCFaultSets ==
    {{t, u} : t, u \in Troubles}
    \cup {{}, Troubles} \cup {Troubles \ {t} : t \in Troubles}
    \cup {Troubles \ {"refuse", "send", "hangup", "card"},
          Troubles \ {"lost", "close"},
          Troubles \ {"modem", "late", "unsteady"}}
=============================================================================
