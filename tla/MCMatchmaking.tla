--------------------------- MODULE MCMatchmaking ---------------------------
(* Small instances of Matchmaking for TLC.                                  *)
EXTENDS Matchmaking, TLC

CONSTANTS a, b, c,      \* users
          ta, tb, tc,   \* a request slot of each
          ta2           \* a second tab of a

ThreeTabs == [q \in {ta, tb, tc} |-> CASE q = ta -> a [] q = tb -> b [] q = tc -> c]
TwoTabs   == [q \in {ta, tb} |-> IF q = ta THEN a ELSE b]
\* A permutation of the users carries their tabs along.
Rename(pu) == [x \in {a, b, c, ta, tb, tc} |->
                 IF x \in {a, b, c} THEN pu[x]
                 ELSE LET u == pu[ThreeTabs[x]]
                      IN  CASE u = a -> ta [] u = b -> tb [] u = c -> tc]
Symmetry == {Rename(pu) : pu \in Permutations({a, b, c})}

TabsOfA   == [q \in {ta, ta2, tb} |-> IF q = tb THEN b ELSE a]
=============================================================================
