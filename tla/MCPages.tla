------------------------------ MODULE MCPages ------------------------------
(* Small instances of PageClient for TLC.                                   *)
EXTENDS PageClient

\* A file that is uploaded as it is, one that has to shrink, and one that is refused.
Sizes == [f \in {"f1", "f2", "f3"} |-> IF f = "f1" THEN 1 ELSE IF f = "f2" THEN 3 ELSE 4]
=============================================================================
