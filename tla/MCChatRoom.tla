----------------------------- MODULE MCChatRoom -----------------------------
(* Small instances of ChatRoom for TLC.                                     *)
EXTENDS ChatRoom, TLC

CONSTANTS a, b,         \* the participants
          a1, a2, a3,   \* sockets of a, b1 one of b
          b1

Reloads  == [s \in {a1, a2, b1} |-> IF s = b1 THEN b ELSE a]
Tabs     == [s \in {a1, a2, a3} |-> a]
OneEach  == [s \in {a1, b1} |-> IF s = b1 THEN b ELSE a]
TwoTabs  == [s \in {a1, a2} |-> a]
Symmetry == Permutations({a1, a2})
TabSymmetry == Permutations({a1, a2, a3})
=============================================================================
