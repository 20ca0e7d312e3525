----------------------------- MODULE MCSession -----------------------------
(* Small instances of Session for TLC.                                      *)
EXTENDS Session, TLC

CONSTANTS t1, t2,   \* tabs
          q1, q2    \* a call of each

OneEach  == [q \in {q1, q2} |-> IF q = q2 THEN t2 ELSE t1]
=============================================================================
