------------------------------ MODULE Pairing ------------------------------
(***************************************************************************)
(* What matchmaking promises, whatever locks, scripts and markers it is    *)
(* built from: at most one user waits to be found, a user is in one match  *)
(* at a time, and a match ends in one room or in none. Matchmaking is      *)
(* shown to implement it.                                                  *)
(***************************************************************************)
EXTENDS Naturals, Sequences

CONSTANT Users

VARIABLES
    waiting,    \* users that can be found
    couples,    \* matches being made: <<who found, who was found>>
    met         \* the couples that were given a room, in order

vars == <<waiting, couples, met>>

Engaged == UNION {{c[1], c[2]} : c \in couples}

Init ==
    /\ waiting = {}
    /\ couples = {}
    /\ met = <<>>

\* Whoever starts to wait has found nobody else waiting.
Wait(u) ==
    /\ u \notin Engaged
    /\ waiting \subseteq {u}
    /\ waiting' = {u}
    /\ UNCHANGED <<couples, met>>

Leave(u) ==
    /\ waiting' = waiting \ {u}
    /\ UNCHANGED <<couples, met>>

Pair(u, v) ==
    /\ u \notin Engaged
    /\ v \in waiting \ {u}
    /\ waiting' = waiting \ {u, v}
    /\ couples' = couples \cup {<<u, v>>}
    /\ UNCHANGED met

Meet(c) ==
    /\ couples' = couples \ {c}
    /\ met' = Append(met, c)
    /\ UNCHANGED waiting

Part(c) ==
    /\ couples' = couples \ {c}
    /\ UNCHANGED <<waiting, met>>

Next ==
    \/ \E u \in Users : Wait(u) \/ Leave(u)
    \/ \E u, v \in Users : Pair(u, v)
    \/ \E c \in couples : Meet(c) \/ Part(c)

Spec == Init /\ [][Next]_vars

-----------------------------------------------------------------------------
\* A user is in one match at a time, with somebody else, and cannot be found
\* while in it (what start_chat's reservations are for).
OneMatchEach ==
    /\ couples \subseteq Users \X Users
    /\ waiting \cap Engaged = {}
    /\ \A c \in couples : c[1] # c[2]
    /\ \A c, d \in couples : c # d => {c[1], c[2]} \cap {d[1], d[2]} = {}
=============================================================================
