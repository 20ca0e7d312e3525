------------------------- MODULE MatchmakingProofs -------------------------
(***************************************************************************)
(* Theorems about Matchmaking, for any number of users, tabs and rooms.    *)
(***************************************************************************)
EXTENDS Matchmaking, SequenceTheorems, TLAPS

(* Taking a user out of the waiting list. *)

\* Removing a user from a list without duplicates yields a list without
\* duplicates that holds the other users, and is no longer than before.
LEMMA LremProperties ==
    ASSUME NEW S, NEW s \in Seq(S), NEW u,
           \A i, j \in DOMAIN s : s[i] = s[j] => i = j
    PROVE  /\ Lrem(s, u) \in Seq(S)
           /\ Len(Lrem(s, u)) <= Len(s)
           /\ Range(Lrem(s, u)) = Range(s) \ {u}
           /\ \A i, j \in DOMAIN Lrem(s, u) : Lrem(s, u)[i] = Lrem(s, u)[j] => i = j
<1>0. DOMAIN s = 1 .. Len(s) /\ Len(s) \in Nat
  BY LenProperties
<1>1. CASE u \notin Range(s)
  BY <1>1, <1>0 DEF Lrem
<1>2. CASE u \in Range(s)
  <2> DEFINE k == CHOOSE i \in DOMAIN s : s[i] = u
             t == [j \in 1 .. Len(s) - 1 |-> s[IF j < k THEN j ELSE j + 1]]
  <2>1. k \in DOMAIN s /\ s[k] = u
    BY <1>2 DEF Range
  <2>2. Lrem(s, u) = t
    BY <1>2 DEF Lrem
  <2> HIDE DEF k
  <2>3. Len(s) - 1 \in Nat
    BY <2>1, <1>0
  <2>4. t \in [1 .. Len(s) - 1 -> S]
    BY <2>1, <1>0, ElementOfSeq
  <2>5. t \in Seq(S) /\ Len(t) = Len(s) - 1
    BY <2>3, <2>4, IsASeq, LenProperties
  <2>6. Range(t) \subseteq Range(s) \ {u}
    BY <2>1, <1>0 DEF Range
  <2>7. ASSUME NEW v \in Range(s) \ {u} PROVE v \in Range(t)
    <3>1. PICK i \in DOMAIN s : s[i] = v
      BY DEF Range
    <3>2. i # k
      BY <3>1, <2>1
    <3>3. CASE i < k
      <4>1. i \in 1 .. Len(s) - 1 /\ t[i] = v
        BY <3>1, <3>3, <2>1, <1>0
      <4> QED BY <4>1 DEF Range
    <3>4. CASE i > k
      <4>1. i - 1 \in 1 .. Len(s) - 1 /\ t[i - 1] = v
        BY <3>1, <3>4, <2>1, <1>0
      <4> QED BY <4>1 DEF Range
    <3> QED BY <3>2, <3>3, <3>4, <2>1, <1>0
  <2>8. \A i, j \in DOMAIN t : t[i] = t[j] => i = j
    BY <2>1, <1>0
  <2>9. Range(t) = Range(s) \ {u}
    BY <2>6, <2>7
  <2> HIDE DEF t
  <2> QED BY <2>2, <2>5, <2>8, <2>9, <1>0
<1> QED BY <1>1, <1>2

\* With at most one entry in the list, removing a user leaves the list or
\* nothing, and popping up to any position leaves nothing.
LEMMA ShortQueue ==
    ASSUME NEW s \in Seq(Users), Len(s) <= 1, NEW u
    PROVE  /\ Lrem(s, u) \in Seq(Users)
           /\ Len(Lrem(s, u)) <= 1
           /\ Range(Lrem(s, u)) = Range(s) \ {u}
           /\ \A k \in DOMAIN Lrem(s, u) :
                 /\ k = 1
                 /\ Range(Lrem(s, u)) = {Lrem(s, u)[k]}
                 /\ SubSeq(Lrem(s, u), k + 1, Len(Lrem(s, u))) = << >>
<1>1. DOMAIN s = 1 .. Len(s) /\ Len(s) \in Nat
  BY LenProperties
<1>2. \A i, j \in DOMAIN s : s[i] = s[j] => i = j
  BY <1>1
<1> DEFINE t == Lrem(s, u)
<1>3. t \in Seq(Users) /\ Len(t) <= Len(s) /\ Range(t) = Range(s) \ {u}
  BY <1>2, LremProperties
<1> HIDE DEF t
<1>4. DOMAIN t = 1 .. Len(t) /\ Len(t) \in Nat
  BY <1>3, LenProperties
<1>5. ASSUME NEW k \in DOMAIN t
      PROVE  k = 1 /\ Range(t) = {t[k]} /\ SubSeq(t, k + 1, Len(t)) = << >>
  <2>1. k = 1 /\ Len(t) = 1
    BY <1>1, <1>3, <1>4
  <2>2. Range(t) = {t[k]}
    BY <2>1, <1>4 DEF Range
  <2>3. SubSeq(t, k + 1, Len(t)) = << >>
    BY <2>1, <1>3, SubSeqEmpty
  <2> QED BY <2>1, <2>2, <2>3
<1> QED BY <1>1, <1>3, <1>4, <1>5 DEF t

-----------------------------------------------------------------------------
(* The type invariant.                                                      *)

USE ConstantsAssumption

\* LREM yields a list of users, whatever the list held.
LEMMA LremTyped ==
    ASSUME NEW s \in Seq(Users), NEW u
    PROVE  Lrem(s, u) \in Seq(Users)
<1>0. DOMAIN s = 1 .. Len(s) /\ Len(s) \in Nat
  BY LenProperties
<1>1. CASE u \notin Range(s)
  BY <1>1 DEF Lrem
<1>2. CASE u \in Range(s)
  <2> DEFINE k == CHOOSE i \in DOMAIN s : s[i] = u
             t == [j \in 1 .. Len(s) - 1 |-> s[IF j < k THEN j ELSE j + 1]]
  <2>1. k \in 1 .. Len(s)
    BY <1>0, <1>2 DEF Range
  <2>2. Lrem(s, u) = t
    BY <1>2 DEF Lrem
  <2> HIDE DEF k
  <2>3. t \in [1 .. Len(s) - 1 -> Users] /\ Len(s) - 1 \in Nat
    BY <2>1, <1>0, ElementOfSeq
  <2> QED BY <2>2, <2>3, SeqDef
<1> QED BY <1>1, <1>2

\* A table of rooms stays one, with the same rows, when one row is replaced by
\* a row of the same type.
LEMMA RowUpdate ==
    ASSUME NEW s \in Seq(Room), NEW r, NEW e, r \in DOMAIN s => e \in Room
    PROVE  /\ [s EXCEPT ![r] = e] \in Seq(Room)
           /\ DOMAIN [s EXCEPT ![r] = e] = DOMAIN s
<1>1. CASE r \in DOMAIN s
  BY <1>1, ExceptSeq, LenProperties
<1>2. CASE r \notin DOMAIN s
  <2>1. [s EXCEPT ![r] = e] = s
    BY <1>2, LenProperties
  <2> QED BY <2>1
<1> QED BY <1>1, <1>2

\* Ending a room, with or without its seats, keeps the table typed.
LEMMA EndedTyped ==
    ASSUME rooms \in Seq(Room), NEW r
    PROVE  /\ Ended(r) \in Seq(Room)
           /\ DOMAIN Ended(r) = DOMAIN rooms
           /\ [Ended(r) EXCEPT ![r].seated = {}] \in Seq(Room)
           /\ DOMAIN [Ended(r) EXCEPT ![r].seated = {}] = DOMAIN rooms
<1>1. ASSUME r \in DOMAIN rooms PROVE rooms[r] \in Room
  BY <1>1, LenProperties
<1>2. ASSUME r \in DOMAIN rooms PROVE [rooms[r] EXCEPT !.status = "ended"] \in Room
  BY <1>1, <1>2 DEF Room
<1>3. Ended(r) \in Seq(Room) /\ DOMAIN Ended(r) = DOMAIN rooms
  BY <1>2, RowUpdate DEF Ended
<1>4. ASSUME r \in DOMAIN Ended(r)
      PROVE  [Ended(r)[r] EXCEPT !.seated = {}] \in Room
  <2>1. Ended(r)[r] \in Room
    BY <1>3, <1>4, LenProperties
  <2> QED BY <2>1 DEF Room
<1>5. /\ [Ended(r) EXCEPT ![r].seated = {}] \in Seq(Room)
      /\ DOMAIN [Ended(r) EXCEPT ![r].seated = {}] = DOMAIN Ended(r)
  BY <1>3, <1>4, RowUpdate
<1> QED BY <1>3, <1>5

\* Every variable keeps its type: the keys, the rows and each request's local
\* variables, rooms named by target and batch being rows that exist.
THEOREM TypeCorrect == Spec => []TypeOK
<1>1. Init => TypeOK
  BY EmptySeq DEF Init, TypeOK, Processes
<1>2. ASSUME TypeOK, [Next]_vars PROVE TypeOK'
  <2> USE <1>2 DEF TypeOK, Goto, Processes, redis, clients
  <2>0. DOMAIN rooms = 1 .. Len(rooms) /\ Len(rooms) \in Nat
    BY LenProperties
  <2>1. ASSUME NEW q \in Requests, StartChat(q) PROVE TypeOK'
    BY <2>1 DEF StartChat
  <2>2. ASSUME NEW q \in Requests, AcquireLock(q) PROVE TypeOK'
    BY <2>2 DEF AcquireLock
  <2>3. ASSUME NEW q \in Requests, LockBusy(q) PROVE TypeOK'
    BY <2>3 DEF LockBusy
  <2>4. ASSUME NEW q \in Requests, FindActiveRoom(q) PROVE TypeOK'
    BY <2>4 DEF FindActiveRoom
  <2>5. ASSUME NEW q \in Requests, CheckDeadline(q) PROVE TypeOK'
    BY <2>5 DEF CheckDeadline
  <2>6. ASSUME NEW q \in Requests, EndExpired(q) PROVE TypeOK'
    <3>1. rooms' \in Seq(Room) /\ DOMAIN rooms' = DOMAIN rooms
      <4> DEFINE done == [Ended(target[q]) EXCEPT ![target[q]].seated = {}]
      <4>1. done \in Seq(Room) /\ DOMAIN done = DOMAIN rooms
        BY EndedTyped
      <4>2. rooms' = done \/ rooms' = rooms
        BY <2>6 DEF EndExpired
      <4> HIDE DEF done
      <4> QED BY <4>1, <4>2
    <3>2. pc' \in [Processes -> {"find", "release"} \cup {pc[p] : p \in Processes}]
      BY <2>6 DEF EndExpired
    <3>3. partner' \in [Requests -> Users \cup {NoUser}]
      BY <2>6 DEF EndExpired
    <3>4. target' \in [Processes -> {0} \cup DOMAIN rooms]
      BY <2>6 DEF EndExpired
    <3> QED BY <2>6, <3>1, <3>2, <3>3, <3>4 DEF EndExpired
  <2>7. ASSUME NEW q \in Requests, ClaimPending(q) PROVE TypeOK'
    BY <2>7 DEF ClaimPending
  <2>8. ASSUME NEW q \in Requests, ClaimPartner(q) PROVE TypeOK'
    <3>1. Lrem(queue, Owner[q]) \in Seq(Users)
      BY LremTyped
    <3>2. PICK k \in DOMAIN Lrem(queue, Owner[q]) :
             /\ queue' = SubSeq(Lrem(queue, Owner[q]), k + 1, Len(Lrem(queue, Owner[q])))
             /\ waiting' = waiting \ ({Owner[q]} \cup {Lrem(queue, Owner[q])[i] : i \in 1 .. k})
             /\ alive' = (alive \ {Owner[q]}) \ {Lrem(queue, Owner[q])[k]}
             /\ pending' = [pending EXCEPT ![Lrem(queue, Owner[q])[k]] = Owner[q]]
             /\ partner' = [partner EXCEPT ![q] = Lrem(queue, Owner[q])[k]]
      BY <2>8 DEF ClaimPartner
    <3>3. Lrem(queue, Owner[q])[k] \in Users
      BY <3>1, LenProperties, ElementOfSeq
    <3>4. queue' \in Seq(Users)
      BY <3>1, <3>2, LenProperties, SubSeqProperties
    <3> QED BY <2>8, <3>2, <3>3, <3>4 DEF ClaimPartner
  <2>9. ASSUME NEW q \in Requests, JoinQueue(q) PROVE TypeOK'
    <3>1. <<Owner[q]>> \in Seq(Users)
      OBVIOUS
    <3> QED BY <2>9, <3>1 DEF JoinQueue
  <2>10. ASSUME NEW q \in Requests, LookUpPartner(q) PROVE TypeOK'
    BY <2>10 DEF LookUpPartner
  <2>11. ASSUME NEW q \in Requests, DiscardPartner(q) PROVE TypeOK'
    BY <2>11 DEF DiscardPartner
  <2>12. ASSUME NEW q \in Requests, CreateRoom(q) PROVE TypeOK'
    <3> DEFINE row == [one |-> partner[q], two |-> Owner[q], status |-> "active",
                       window |-> "young", seated |-> {}]
    <3>1. CASE CanInsert(q) /\ rooms' = Append(rooms, row)
               /\ target' = [target EXCEPT ![q] = Len(rooms) + 1]
      <4>1. row \in Room
        BY <3>1 DEF CanInsert, Room
      <4>2. /\ rooms' \in Seq(Room)
            /\ DOMAIN rooms' = 1 .. Len(rooms) + 1
        BY <3>1, <4>1, AppendProperties, LenProperties
      <4> QED BY <2>12, <3>1, <4>2, <2>0 DEF CreateRoom
    <3>2. CASE UNCHANGED <<rooms, target>>
      BY <2>12, <3>2 DEF CreateRoom
    <3> QED BY <2>12, <3>1, <3>2 DEF CreateRoom
  <2>13. ASSUME NEW q \in Requests, ClearPending(q) PROVE TypeOK'
    BY <2>13 DEF ClearPending
  <2>14. ASSUME NEW q \in Requests, ReleaseLock(q) PROVE TypeOK'
    <3>1. lock' \in [Users -> Requests \cup {NoRequest}]
      BY <2>14 DEF ReleaseLock
    <3>2. searching' \subseteq Users /\ given' \subseteq Users
      BY <2>14 DEF ReleaseLock
    <3> QED BY <2>14, <3>1, <3>2 DEF ReleaseLock
  <2>15. ASSUME NEW q \in Requests, CancelSearch(q) PROVE TypeOK'
    BY <2>15 DEF CancelSearch
  <2>16. ASSUME NEW q \in Requests, LeaveQueue(q) PROVE TypeOK'
    BY <2>16, LremTyped DEF LeaveQueue
  <2>17. ASSUME NEW q \in Requests, FindUnjoined(q) PROVE TypeOK'
    BY <2>17 DEF FindUnjoined
  <2>18. ASSUME NEW q \in Requests, CheckSeat(q) PROVE TypeOK'
    BY <2>18 DEF CheckSeat
  <2>19. ASSUME NEW q \in Requests, EndUnjoined(q) PROVE TypeOK'
    BY <2>19, EndedTyped DEF EndUnjoined
  <2>20. ASSUME ReapStart PROVE TypeOK'
    BY <2>20 DEF ReapStart
  <2>21. ASSUME ReapNext PROVE TypeOK'
    BY <2>21 DEF ReapNext
  <2>22. ASSUME ReapCheck PROVE TypeOK'
    BY <2>22 DEF ReapCheck
  <2>23. ASSUME ReapEnd PROVE TypeOK'
    <3>1. rooms' \in Seq(Room) /\ DOMAIN rooms' = DOMAIN rooms
      <4> DEFINE done == [Ended(target[Reaper]) EXCEPT ![target[Reaper]].seated = {}]
      <4>1. done \in Seq(Room) /\ DOMAIN done = DOMAIN rooms
        BY EndedTyped
      <4>2. rooms' = done \/ rooms' = rooms
        BY <2>23 DEF ReapEnd
      <4> HIDE DEF done
      <4> QED BY <4>1, <4>2
    <3>2. pc' \in [Processes -> {"next", "idle"} \cup {pc[p] : p \in Processes}]
      BY <2>23 DEF ReapEnd
    <3>3. target' \in [Processes -> {0} \cup DOMAIN rooms]
      BY <2>23 DEF ReapEnd
    <3> QED BY <2>23, <3>1, <3>2, <3>3 DEF ReapEnd
  <2>24. ASSUME NEW u \in Users, BeginSearch(u) PROVE TypeOK'
    BY <2>24 DEF BeginSearch
  <2>25. ASSUME NEW u \in Users, Vanish(u) PROVE TypeOK'
    BY <2>25 DEF Vanish
  <2>26. ASSUME NEW u \in Users, AliveExpires(u) PROVE TypeOK'
    BY <2>26 DEF AliveExpires
  <2>27. ASSUME NEW u \in Users, PendingExpires(u) PROVE TypeOK'
    BY <2>27 DEF PendingExpires
  <2>28. ASSUME NEW u \in Users, LockExpires(u) PROVE TypeOK'
    BY <2>28 DEF LockExpires
  <2>29. ASSUME NEW u \in Users, DeleteAccount(u) PROVE TypeOK'
    <3>1. ASSUME NEW r \in DOMAIN rooms
          PROVE  (IF u \in Members(r) THEN [rooms[r] EXCEPT !.status = "deleted"]
                  ELSE rooms[r]) \in Room
      <4>1. rooms[r] \in Room
        BY LenProperties
      <4> QED BY <4>1 DEF Room
    <3>2. rooms' \in [1 .. Len(rooms) -> Room]
      BY <2>29, <2>0, <3>1 DEF DeleteAccount
    <3>3. rooms' \in Seq(Room) /\ DOMAIN rooms' = DOMAIN rooms
      <4> DEFINE n == Len(rooms)
      <4>1. n \in Nat /\ rooms' \in [1 .. n -> Room] /\ DOMAIN rooms = 1 .. n
        BY <2>0, <3>2
      <4> HIDE DEF n
      <4>2. rooms' \in UNION {[1 .. m -> Room] : m \in Nat}
        BY <4>1
      <4> QED BY <4>1, <4>2, SeqDef
    <3> QED BY <2>29, <3>3 DEF DeleteAccount
  <2>30. ASSUME NEW r \in DOMAIN rooms, NEW u \in Users, TakeSeat(r, u) PROVE TypeOK'
    <3>0. rooms[r] \in Room
      BY LenProperties
    <3>1. [rooms[r] EXCEPT !.seated = @ \cup {u}] \in Room
      BY <3>0 DEF Room
    <3> QED BY <2>30, <3>1, RowUpdate DEF TakeSeat
  <2>31. ASSUME NEW r \in DOMAIN rooms, PostMessage(r) PROVE TypeOK'
    <3>0. rooms[r] \in Room
      BY LenProperties
    <3>1. [rooms[r] EXCEPT !.window = "renewed"] \in Room
      BY <3>0 DEF Room
    <3> QED BY <2>31, <3>1, RowUpdate DEF PostMessage
  <2>32. ASSUME NEW r \in DOMAIN rooms, PassDeadline(r) PROVE TypeOK'
    <3>0. rooms[r] \in Room
      BY LenProperties
    <3>1. [rooms[r] EXCEPT !.window = "overdue"] \in Room
      BY <3>0 DEF Room
    <3> QED BY <2>32, <3>1, RowUpdate DEF PassDeadline
  <2>33. ASSUME NEW r \in DOMAIN rooms, EndRoom(r) PROVE TypeOK'
    BY <2>33, EndedTyped DEF EndRoom
  <2>34. ASSUME NEW p \in Processes, Crash(p) PROVE TypeOK'
    BY <2>34 DEF Crash
  <2>35. CASE UNCHANGED vars
    BY <2>35 DEF vars
  <2> QED
    BY <1>2, <2>1, <2>2, <2>3, <2>4, <2>5, <2>6, <2>7, <2>8, <2>9, <2>10, <2>11, <2>12, <2>13, <2>14, <2>15, <2>16, <2>17, <2>18, <2>19, <2>20, <2>21, <2>22, <2>23, <2>24, <2>25, <2>26, <2>27, <2>28, <2>29, <2>30, <2>31, <2>32, <2>33, <2>34, <2>35
    DEF Next, StartStep, CancelStep, ReapStep, Environment
<1> QED BY <1>1, <1>2, PTL DEF Spec
-----------------------------------------------------------------------------
(* The queue and the reservations.                                          *)

\* What the claim script does when it returns a partner: with at most one
\* entry in the list, that entry is the partner, and the list is left empty.
LEMMA ClaimEffect ==
    ASSUME TypeOK, QueueInv, NEW q \in Requests, ClaimPartner(q)
    PROVE  /\ pc[q] = "claim" /\ pending[Owner[q]] = NoUser
           /\ pc' = [pc EXCEPT ![q] = "lookup"]
           /\ queue' = << >> /\ waiting' = {} /\ alive' = {}
           /\ UNCHANGED <<lock, rooms>>
           /\ \E c \in Range(queue) \ {Owner[q]} :
                 /\ c \in alive /\ alive \subseteq {Owner[q], c}
                 /\ pending' = [pending EXCEPT ![c] = Owner[q]]
                 /\ partner' = [partner EXCEPT ![q] = c]
<1> DEFINE others == Lrem(queue, Owner[q])
<1>1. PICK k \in DOMAIN others :
         /\ queue' = SubSeq(others, k + 1, Len(others))
         /\ waiting' = waiting \ ({Owner[q]} \cup {others[i] : i \in 1 .. k})
         /\ alive' = (alive \ {Owner[q]}) \ {others[k]}
         /\ pending' = [pending EXCEPT ![others[k]] = Owner[q]]
         /\ partner' = [partner EXCEPT ![q] = others[k]]
         /\ others[k] \in alive
  BY DEF ClaimPartner
<1>2. /\ Range(others) = Range(queue) \ {Owner[q]}
      /\ k = 1
      /\ Range(others) = {others[k]}
      /\ queue' = << >>
  BY <1>1, ShortQueue DEF TypeOK, QueueInv, QueueHoldsOneSearcher
<1> HIDE DEF others
<1>3. others[k] \in {others[i] : i \in 1 .. k}
  BY <1>2
<1>4. Range(queue) \subseteq {Owner[q], others[k]}
  BY <1>2
<1>5. waiting' = {} /\ alive' = {} /\ alive \subseteq {Owner[q], others[k]}
  BY <1>1, <1>3, <1>4 DEF QueueInv
<1> QED BY <1>1, <1>2, <1>5 DEF ClaimPartner, Goto

\* What it does when it finds nobody: the caller is the only entry.
LEMMA JoinEffect ==
    ASSUME TypeOK, QueueInv, NEW q \in Requests, JoinQueue(q)
    PROVE  /\ pc[q] = "claim" /\ pending[Owner[q]] = NoUser
           /\ pc' = [pc EXCEPT ![q] = "release"]
           /\ queue' = <<Owner[q]>> /\ waiting' = {Owner[q]} /\ alive' = {Owner[q]}
           /\ alive \subseteq {Owner[q]}
           /\ UNCHANGED <<pending, lock, rooms, partner>>
<1> DEFINE others == Lrem(queue, Owner[q])
<1>1. Range(others) = Range(queue) \ {Owner[q]}
  BY ShortQueue DEF TypeOK, QueueInv, QueueHoldsOneSearcher
<1>2. /\ waiting' = (waiting \ Range(others)) \cup {Owner[q]}
      /\ alive' = alive \cup {Owner[q]}
      /\ Range(others) \cap (alive \ {Owner[q]}) = {}
  BY DEF JoinQueue
<1> HIDE DEF others
<1>3. waiting' = {Owner[q]} /\ alive' = {Owner[q]} /\ alive \subseteq {Owner[q]}
  BY <1>1, <1>2 DEF QueueInv
<1> QED BY <1>3 DEF JoinQueue, Goto

\* Which steps write the queue, and which write the reservations.
LEMMA QueueFrame ==
    ASSUME TypeOK, [Next]_vars
    PROVE  \/ \E q \in Requests : ClaimPartner(q)
           \/ /\ \/ \E q \in Requests : JoinQueue(q) \/ LeaveQueue(q)
                 \/ \E u \in Users : AliveExpires(u)
              /\ UNCHANGED pending
           \/ /\ UNCHANGED <<queue, waiting, alive>>
              /\ \A u \in Users : pending'[u] \in {pending[u], NoUser}
<1> USE DEF redis, TypeOK
<1>1. CASE UNCHANGED vars
  BY <1>1 DEF vars
<1>2. ASSUME NEW q \in Requests,
             \/ StartChat(q) \/ AcquireLock(q) \/ LockBusy(q) \/ FindActiveRoom(q)
             \/ CheckDeadline(q) \/ EndExpired(q) \/ ClaimPending(q)
             \/ LookUpPartner(q) \/ CreateRoom(q) \/ ReleaseLock(q)
             \/ CancelSearch(q) \/ FindUnjoined(q) \/ CheckSeat(q) \/ EndUnjoined(q)
      PROVE  UNCHANGED <<queue, waiting, alive, pending>>
  BY <1>2 DEF StartChat, AcquireLock, LockBusy, FindActiveRoom, CheckDeadline,
       EndExpired, ClaimPending, LookUpPartner, CreateRoom, ReleaseLock,
       CancelSearch, FindUnjoined, CheckSeat, EndUnjoined
<1>3. ASSUME NEW q \in Requests, DiscardPartner(q) \/ ClearPending(q)
      PROVE  /\ UNCHANGED <<queue, waiting, alive>>
             /\ \A u \in Users : pending'[u] \in {pending[u], NoUser}
  BY <1>3 DEF DiscardPartner, ClearPending
<1>4. ASSUME ReapStep PROVE UNCHANGED <<queue, waiting, alive, pending>>
  BY <1>4 DEF ReapStep, ReapStart, ReapNext, ReapCheck, ReapEnd
<1>5. ASSUME Environment
      PROVE  \/ \E u \in Users : AliveExpires(u)
             \/ /\ UNCHANGED <<queue, waiting, alive>>
                /\ \A u \in Users : pending'[u] \in {pending[u], NoUser}
  BY <1>5 DEF Environment, BeginSearch, Vanish, PendingExpires, LockExpires,
       DeleteAccount, TakeSeat, PostMessage, PassDeadline, EndRoom, Crash
<1>6. ASSUME \E q \in Requests : JoinQueue(q) \/ LeaveQueue(q) PROVE UNCHANGED pending
  BY <1>6 DEF JoinQueue, LeaveQueue
<1>7. ASSUME \E u \in Users : AliveExpires(u) PROVE UNCHANGED pending
  BY <1>7 DEF AliveExpires
<1> QED BY <1>1, <1>2, <1>3, <1>4, <1>5, <1>6, <1>7 DEF Next, StartStep, CancelStep

\* No step makes the list, the set and the markers disagree, queues a second
\* user, or leaves a reserved user in the queue.
LEMMA QueueStep ==
    ASSUME TypeOK, QueueInv, ReservedNotQueued, [Next]_vars
    PROVE  QueueInv' /\ ReservedNotQueued'
<1>1. ASSUME NEW q \in Requests, ClaimPartner(q)
      PROVE  QueueInv' /\ ReservedNotQueued'
  <2>1. Range(<< >>) = {} /\ Len(<< >>) = 0
    BY DEF Range
  <2>2. queue' = << >> /\ waiting' = {} /\ alive' = {}
    BY <1>1, ClaimEffect
  <2>3. Range(queue') = {} /\ Len(queue') = 0
    BY <2>1, <2>2
  <2> QED BY <2>2, <2>3 DEF QueueInv, QueueHoldsOneSearcher, ReservedNotQueued
<1>2. ASSUME NEW q \in Requests, JoinQueue(q)
      PROVE  QueueInv' /\ ReservedNotQueued'
  <2>1. Range(<<Owner[q]>>) = {Owner[q]} /\ Len(<<Owner[q]>>) = 1
    BY DEF Range
  <2>2. /\ queue' = <<Owner[q]>> /\ waiting' = {Owner[q]} /\ alive' = {Owner[q]}
        /\ UNCHANGED pending /\ pending[Owner[q]] = NoUser
    BY <1>2, JoinEffect
  <2>3. Range(queue') = {Owner[q]} /\ Len(queue') = 1
    BY <2>1, <2>2
  <2> QED BY <2>2, <2>3 DEF QueueInv, QueueHoldsOneSearcher, ReservedNotQueued
<1>3. ASSUME NEW q \in Requests, LeaveQueue(q)
      PROVE  QueueInv' /\ ReservedNotQueued'
  <2>1. /\ Range(queue') = Range(queue) \ {Owner[q]}
        /\ Len(queue') <= 1
    BY <1>3, ShortQueue DEF LeaveQueue, TypeOK, QueueInv, QueueHoldsOneSearcher
  <2> QED BY <1>3, <2>1 DEF LeaveQueue, QueueInv, QueueHoldsOneSearcher, ReservedNotQueued
<1>4. ASSUME NEW u \in Users, AliveExpires(u)
      PROVE  QueueInv' /\ ReservedNotQueued'
  BY <1>4 DEF AliveExpires, QueueInv, QueueHoldsOneSearcher, ReservedNotQueued
<1>5. ASSUME UNCHANGED <<queue, waiting, alive>>,
             \A u \in Users : pending'[u] \in {pending[u], NoUser}
      PROVE  QueueInv' /\ ReservedNotQueued'
  BY <1>5 DEF QueueInv, QueueHoldsOneSearcher, ReservedNotQueued
<1> QED BY <1>1, <1>2, <1>3, <1>4, <1>5, QueueFrame

\* Redis starts empty.
LEMMA QueueInit == Init => QueueInv /\ ReservedNotQueued
<1>1. Range(<< >>) = {} /\ Len(<< >>) = 0
  BY DEF Range
<1> QED BY <1>1 DEF Init, QueueInv, QueueHoldsOneSearcher, ReservedNotQueued

\* The list, the set and the markers agree, the list never holds a second
\* entry, and no reserved user can be popped, in every behaviour: expiries,
\* crashes and cancels included.
THEOREM QueueSafe ==
    Spec => [](QueueConsistent /\ QueueHoldsOneSearcher /\ ReservedNotQueued)
<1>1. TypeOK /\ QueueInv /\ ReservedNotQueued /\ [Next]_vars
        => QueueInv' /\ ReservedNotQueued'
  BY QueueStep
<1>2. TypeOK /\ QueueInv => QueueConsistent /\ QueueHoldsOneSearcher
  BY LenProperties DEF TypeOK, QueueInv, QueueConsistent, NoDuplicates, QueueHoldsOneSearcher
<1> QED BY <1>1, <1>2, QueueInit, TypeCorrect, PTL DEF Spec

-----------------------------------------------------------------------------
(* The claims in flight.                                                    *)

\* A lock is held until its holder releases it: LockExpires only frees locks
\* whose holder is no longer inside the locked part of start_chat.
LEMMA LockStep ==
    ASSUME TypeOK, LockInv, [Next]_vars, "slow" \notin Events
    PROVE  LockInv'
<1> USE DEF TypeOK, LockInv, Locked, Goto, Processes, redis
<1>1. ASSUME NEW q \in Requests, StartChat(q) PROVE LockInv'
  BY <1>1 DEF StartChat
<1>2. ASSUME NEW q \in Requests, AcquireLock(q) PROVE LockInv'
  BY <1>2 DEF AcquireLock
<1>3. ASSUME NEW q \in Requests, LockBusy(q) PROVE LockInv'
  BY <1>3 DEF LockBusy
<1>4. ASSUME NEW q \in Requests, FindActiveRoom(q) PROVE LockInv'
  BY <1>4 DEF FindActiveRoom
<1>5. ASSUME NEW q \in Requests, CheckDeadline(q) PROVE LockInv'
  BY <1>5 DEF CheckDeadline
<1>6. ASSUME NEW q \in Requests, EndExpired(q) PROVE LockInv'
  BY <1>6 DEF EndExpired
<1>7. ASSUME NEW q \in Requests, ClaimPending(q) PROVE LockInv'
  BY <1>7 DEF ClaimPending
<1>8. ASSUME NEW q \in Requests, ClaimPartner(q) PROVE LockInv'
  BY <1>8 DEF ClaimPartner
<1>9. ASSUME NEW q \in Requests, JoinQueue(q) PROVE LockInv'
  BY <1>9 DEF JoinQueue
<1>10. ASSUME NEW q \in Requests, LookUpPartner(q) PROVE LockInv'
  BY <1>10 DEF LookUpPartner
<1>11. ASSUME NEW q \in Requests, DiscardPartner(q) PROVE LockInv'
  BY <1>11 DEF DiscardPartner
<1>12. ASSUME NEW q \in Requests, CreateRoom(q) PROVE LockInv'
  BY <1>12 DEF CreateRoom
<1>13. ASSUME NEW q \in Requests, ClearPending(q) PROVE LockInv'
  BY <1>13 DEF ClearPending
<1>14. ASSUME NEW q \in Requests, ReleaseLock(q) PROVE LockInv'
  BY <1>14 DEF ReleaseLock
<1>15. ASSUME NEW q \in Requests, CancelSearch(q) PROVE LockInv'
  BY <1>15 DEF CancelSearch
<1>16. ASSUME NEW q \in Requests, LeaveQueue(q) PROVE LockInv'
  BY <1>16 DEF LeaveQueue
<1>17. ASSUME NEW q \in Requests, FindUnjoined(q) PROVE LockInv'
  BY <1>17 DEF FindUnjoined
<1>18. ASSUME NEW q \in Requests, CheckSeat(q) PROVE LockInv'
  BY <1>18 DEF CheckSeat
<1>19. ASSUME NEW q \in Requests, EndUnjoined(q) PROVE LockInv'
  BY <1>19 DEF EndUnjoined
<1>20. ASSUME ReapStep PROVE LockInv'
  BY <1>20 DEF ReapStep, ReapStart, ReapNext, ReapCheck, ReapEnd
<1>21. ASSUME NEW u \in Users, LockExpires(u) PROVE LockInv'
  BY <1>21 DEF LockExpires
<1>22. ASSUME NEW p \in Processes, Crash(p) PROVE LockInv'
  BY <1>22 DEF Crash
<1>23. ASSUME NEW u \in Users,
             \/ BeginSearch(u) \/ Vanish(u) \/ AliveExpires(u) \/ PendingExpires(u)
             \/ DeleteAccount(u)
      PROVE  LockInv'
  BY <1>23 DEF BeginSearch, Vanish, AliveExpires, PendingExpires, DeleteAccount
<1>24. ASSUME NEW r \in DOMAIN rooms,
             \/ \E u \in Users : TakeSeat(r, u)
             \/ PostMessage(r) \/ PassDeadline(r) \/ EndRoom(r)
      PROVE  LockInv'
  BY <1>24 DEF TakeSeat, PostMessage, PassDeadline, EndRoom
<1>25. CASE UNCHANGED vars
  BY <1>25 DEF vars
<1> QED
  BY <1>1, <1>2, <1>3, <1>4, <1>5, <1>6, <1>7, <1>8, <1>9, <1>10, <1>11, <1>12, <1>13, <1>14, <1>15, <1>16, <1>17, <1>18, <1>19, <1>20, <1>21, <1>22, <1>23, <1>24, <1>25
  DEF Next, StartStep, CancelStep, Environment

\* Two claims in flight have different owners, and different partners.
LEMMA ClaimsDiffer ==
    ASSUME TypeOK, LockInv, ClaimInv,
           NEW p \in Requests, NEW q \in Requests, p # q, Claiming(p), Claiming(q)
    PROVE  /\ Owner[p] # Owner[q]
           /\ partner[p] # partner[q]
           /\ partner[p] # Owner[q]
<1>1. Locked(p) /\ Locked(q)
  BY DEF ClaimInv, Locked
<1>2. Owner[p] # Owner[q]
  BY <1>1 DEF LockInv
<1> QED BY <1>2 DEF ClaimInv, TypeOK

\* Every step keeps the claims backed: a claim starts with the reservation of
\* a queued user by an unreserved one, and only its owner ends it, as long as
\* no reservation expires under a claimer at work.
LEMMA ClaimStep ==
    ASSUME TypeOK, QueueInv, ReservedNotQueued, LockInv, ClaimInv,
           [Next]_vars, "slow" \notin Events
    PROVE  ClaimInv'
<1> USE DEF TypeOK, Goto, Processes, redis, Claiming
<1>1. ASSUME NEW q \in Requests,
             \/ StartChat(q) \/ AcquireLock(q) \/ LockBusy(q) \/ ClaimPending(q)
             \/ ReleaseLock(q) \/ CancelSearch(q) \/ FindUnjoined(q)
             \/ CheckSeat(q) \/ EndUnjoined(q)
      PROVE  ClaimInv'
  <2>1. UNCHANGED <<queue, pending, partner>> /\ ~ Claiming(q)
    BY <1>1 DEF StartChat, AcquireLock, LockBusy, ClaimPending, ReleaseLock,
         CancelSearch, FindUnjoined, CheckSeat, EndUnjoined, ClaimInv
  <2>2. \A p \in Requests : p # q => pc'[p] = pc[p]
    BY <1>1 DEF StartChat, AcquireLock, LockBusy, ClaimPending, ReleaseLock,
         CancelSearch, FindUnjoined, CheckSeat, EndUnjoined
  <2> QED BY <2>1, <2>2 DEF ClaimInv
<1>2. ASSUME NEW q \in Requests,
             FindActiveRoom(q) \/ CheckDeadline(q) \/ LookUpPartner(q) \/ CreateRoom(q)
      PROVE  ClaimInv'
  <2>1. UNCHANGED <<queue, pending, partner>>
    BY <1>2 DEF FindActiveRoom, CheckDeadline, LookUpPartner, CreateRoom
  <2>2. \A p \in Requests : p # q => pc'[p] = pc[p]
    BY <1>2 DEF FindActiveRoom, CheckDeadline, LookUpPartner, CreateRoom
  <2>3. Claiming(q) => pc'[q] \in {"create", "deadline", "end", "discard", "find", "clear"}
    BY <1>2 DEF FindActiveRoom, CheckDeadline, LookUpPartner, CreateRoom
  <2> QED BY <2>1, <2>2, <2>3 DEF ClaimInv
<1>3. ASSUME NEW q \in Requests, EndExpired(q) PROVE ClaimInv'
  <2>1. UNCHANGED <<queue, pending>>
    BY <1>3 DEF EndExpired
  <2>2. \A p \in Requests : p # q => pc'[p] = pc[p] /\ partner'[p] = partner[p]
    BY <1>3 DEF EndExpired
  <2>3. (pc'[q] = "find" /\ partner'[q] = partner[q]) \/ partner'[q] = NoUser
    BY <1>3 DEF EndExpired
  <2> QED BY <2>1, <2>2, <2>3 DEF ClaimInv
<1>4. ASSUME NEW q \in Requests, ClaimPartner(q) PROVE ClaimInv'
  <2>1. PICK c \in Range(queue) \ {Owner[q]} :
           /\ pending' = [pending EXCEPT ![c] = Owner[q]]
           /\ partner' = [partner EXCEPT ![q] = c]
    BY <1>4, ClaimEffect
  <2>2. /\ pending[Owner[q]] = NoUser
        /\ queue' = << >>
        /\ pc' = [pc EXCEPT ![q] = "lookup"]
    BY <1>4, ClaimEffect
  <2>3. c \in Users /\ pending[c] = NoUser
    BY QueueInv DEF QueueInv, ReservedNotQueued
  <2>4. Range(queue') = {}
    BY <2>2 DEF Range
  <2>5. ASSUME NEW p \in Requests, p # q, Claiming(p)'
        PROVE  /\ pc'[p] = pc[p] /\ partner'[p] = partner[p] /\ Claiming(p)
               /\ partner[p] # c /\ Owner[p] # c
    BY <2>1, <2>2, <2>3, <2>5 DEF ClaimInv
  <2>6. /\ pc'[q] = "lookup" /\ partner'[q] = c /\ pending'[c] = Owner[q]
        /\ pending'[Owner[q]] = NoUser
    BY <2>1, <2>2, <2>3
  <2>7. ASSUME NEW p \in Requests, p # q, Claiming(p)'
        PROVE  /\ pending'[partner'[p]] = Owner[p]
               /\ pending'[Owner[p]] = NoUser
               /\ partner'[p] # Owner[p]
               /\ pc'[p] \in {"lookup", "find", "deadline", "end", "discard", "create", "clear"}
    BY <2>1, <2>3, <2>5, <2>7 DEF ClaimInv
  <2> QED BY <2>1, <2>4, <2>6, <2>7 DEF ClaimInv
<1>5. ASSUME NEW q \in Requests, JoinQueue(q) PROVE ClaimInv'
  <2>1. /\ queue' = <<Owner[q]>> /\ pc[q] = "claim"
        /\ pc' = [pc EXCEPT ![q] = "release"]
        /\ UNCHANGED <<pending, partner>>
    BY <1>5, JoinEffect
  <2>2. Range(queue') = {Owner[q]}
    BY <2>1 DEF Range
  <2>3. ~ Claiming(q) /\ Locked(q)
    BY <2>1 DEF ClaimInv, Locked
  <2>4. ASSUME NEW p \in Requests, Claiming(p) PROVE p # q /\ Owner[p] # Owner[q]
    <3>1. Locked(p)
      BY <2>4 DEF ClaimInv, Locked
    <3> QED BY <2>3, <2>4, <3>1 DEF LockInv
  <2> QED BY <2>1, <2>2, <2>4 DEF ClaimInv
<1>6. ASSUME NEW q \in Requests, DiscardPartner(q) \/ ClearPending(q) PROVE ClaimInv'
  <2>1. /\ pending' = [pending EXCEPT ![partner[q]] = NoUser]
        /\ partner' = [partner EXCEPT ![q] = NoUser]
        /\ UNCHANGED queue
    BY <1>6 DEF DiscardPartner, ClearPending
  <2>2. \A p \in Requests : p # q => pc'[p] = pc[p]
    BY <1>6 DEF DiscardPartner, ClearPending
  <2>3. ASSUME NEW p \in Requests, Claiming(p)'
        PROVE  p # q /\ Claiming(p) /\ partner'[p] = partner[p] /\ partner[p] # partner[q]
    <3>1. p # q /\ Claiming(p) /\ partner'[p] = partner[p]
      BY <2>1, <2>3
    <3> QED BY <3>1, ClaimsDiffer
  <2>4. ASSUME NEW p \in Requests, Claiming(p)'
        PROVE  pending'[partner'[p]] = Owner[p] /\ pending'[Owner[p]] = NoUser
    BY <2>1, <2>3, <2>4 DEF ClaimInv
  <2> QED BY <2>1, <2>2, <2>3, <2>4 DEF ClaimInv
<1>7. ASSUME NEW q \in Requests, LeaveQueue(q) PROVE ClaimInv'
  <2>1. Range(queue') \subseteq Range(queue)
    BY <1>7, ShortQueue DEF LeaveQueue, QueueInv, QueueHoldsOneSearcher
  <2> QED BY <1>7, <2>1 DEF LeaveQueue, ClaimInv
<1>8. ASSUME ReapStep PROVE ClaimInv'
  <2>1. UNCHANGED <<queue, pending, partner>> /\ \A p \in Requests : pc'[p] = pc[p]
    BY <1>8 DEF ReapStep, ReapStart, ReapNext, ReapCheck, ReapEnd
  <2> QED BY <2>1 DEF ClaimInv
<1>9. ASSUME NEW u \in Users,
             \/ BeginSearch(u) \/ Vanish(u) \/ AliveExpires(u) \/ LockExpires(u)
             \/ DeleteAccount(u)
      PROVE  ClaimInv'
  BY <1>9 DEF BeginSearch, Vanish, AliveExpires, LockExpires, DeleteAccount, ClaimInv
<1>10. ASSUME NEW u \in Users, PendingExpires(u) PROVE ClaimInv'
  BY <1>10 DEF PendingExpires, ClaimInv
<1>11. ASSUME NEW r \in DOMAIN rooms,
              \/ \E u \in Users : TakeSeat(r, u)
              \/ PostMessage(r) \/ PassDeadline(r) \/ EndRoom(r)
       PROVE  ClaimInv'
  BY <1>11 DEF TakeSeat, PostMessage, PassDeadline, EndRoom, ClaimInv
<1>12. ASSUME NEW p \in Processes, Crash(p) PROVE ClaimInv'
  <2>1. UNCHANGED <<queue, pending>>
    BY <1>12 DEF Crash
  <2>2. ASSUME NEW q \in Requests, q = p PROVE partner'[q] = NoUser
    BY <1>12, <2>2 DEF Crash
  <2>3. ASSUME NEW q \in Requests, q # p
        PROVE  partner'[q] = partner[q] /\ pc'[q] = pc[q]
    BY <1>12, <2>3 DEF Crash
  <2> QED BY <2>1, <2>2, <2>3 DEF ClaimInv
<1>13. CASE UNCHANGED vars
  BY <1>13 DEF vars, ClaimInv
<1> QED
  BY <1>1, <1>2, <1>3, <1>4, <1>5, <1>6, <1>7, <1>8, <1>9, <1>10, <1>11, <1>12, <1>13
  DEF Next, StartStep, CancelStep, Environment

-----------------------------------------------------------------------------
(* The rooms of a claimed partner.                                          *)

\* Rows that keep their participants and are not revived give nobody a room.
LEMMA RowsKept ==
    ASSUME DOMAIN rooms' = DOMAIN rooms,
           \A r \in DOMAIN rooms :
              /\ rooms'[r].one = rooms[r].one /\ rooms'[r].two = rooms[r].two
              /\ rooms'[r].status = "active" => rooms[r].status = "active"
    PROVE  \A u \in Users : ActiveRooms(u)' \subseteq ActiveRooms(u)
BY DEF ActiveRooms, Members

\* Nobody gets a room but by the INSERT of start_chat, and no row changes its
\* participants.
LEMMA OnlyCreateRoomAdds ==
    ASSUME TypeOK, [Next]_vars, ~ \E q \in Requests : CreateRoom(q)
    PROVE  /\ DOMAIN rooms' = DOMAIN rooms
           /\ \A u \in Users : ActiveRooms(u)' \subseteq ActiveRooms(u)
           /\ Met' = Met
<1> DEFINE NoneAdded == /\ DOMAIN rooms' = DOMAIN rooms
                        /\ \A u \in Users : ActiveRooms(u)' \subseteq ActiveRooms(u)
                        /\ Met' = Met
<1> USE DEF TypeOK, Room
<1>1. CASE UNCHANGED rooms
  BY <1>1 DEF ActiveRooms, Members, Met
<1> DEFINE RowsStay ==
       /\ DOMAIN rooms' = DOMAIN rooms
       /\ \A r \in DOMAIN rooms :
             /\ rooms'[r].one = rooms[r].one /\ rooms'[r].two = rooms[r].two
             /\ rooms'[r].status = "active" => rooms[r].status = "active"
<1>0. /\ \A r : DOMAIN Ended(r) = DOMAIN rooms
      /\ \A r : \A x \in DOMAIN rooms :
            /\ Ended(r)[x].one = rooms[x].one /\ Ended(r)[x].two = rooms[x].two
            /\ Ended(r)[x].status = "active" => rooms[x].status = "active"
  BY DEF Ended
<1>2. ASSUME NEW r, rooms' = Ended(r) \/ rooms' = [Ended(r) EXCEPT ![r].seated = {}]
      PROVE  RowsStay
  <2> HIDE DEF TypeOK
  <2>1. CASE rooms' = Ended(r)
    BY <1>0, <2>1
  <2>2. CASE rooms' = [Ended(r) EXCEPT ![r].seated = {}]
    <3>1. DOMAIN rooms' = DOMAIN rooms
      BY <1>0, <2>2
    <3>2. ASSUME NEW x \in DOMAIN rooms
          PROVE  /\ rooms'[x].one = Ended(r)[x].one /\ rooms'[x].two = Ended(r)[x].two
                 /\ rooms'[x].status = Ended(r)[x].status
      BY <1>0, <2>2, <3>2
    <3> QED BY <1>0, <3>1, <3>2
  <2> QED BY <1>2, <2>1, <2>2
<1>3. ASSUME NEW q \in Requests, EndExpired(q) \/ EndUnjoined(q)
      PROVE  RowsStay \/ UNCHANGED rooms
  BY <1>3, <1>2 DEF EndExpired, EndUnjoined
<1>12. ASSUME ReapEnd PROVE RowsStay \/ UNCHANGED rooms
  BY <1>12, <1>2 DEF ReapEnd
<1>13. ASSUME NEW r \in DOMAIN rooms, EndRoom(r) PROVE RowsStay
  BY <1>13, <1>2 DEF EndRoom
<1>4. ASSUME NEW r \in DOMAIN rooms,
             \/ \E u \in Users : TakeSeat(r, u)
             \/ PostMessage(r) \/ PassDeadline(r)
      PROVE  RowsStay
  <2>1. CASE \E u \in Users : TakeSeat(r, u)
    BY <2>1 DEF TakeSeat
  <2>2. CASE PostMessage(r) \/ PassDeadline(r)
    <3>1. PICK w : rooms' = [rooms EXCEPT ![r].window = w]
      BY <2>2 DEF PostMessage, PassDeadline
    <3> QED BY <3>1
  <2> QED BY <1>4, <2>1, <2>2
<1>5. ASSUME NEW v \in Users, DeleteAccount(v) PROVE RowsStay
  BY <1>5 DEF DeleteAccount
<1>11. RowsStay => NoneAdded
  BY RowsKept DEF Met
<1> HIDE DEF RowsStay
<1>6. ASSUME NEW q \in Requests,
             \/ StartChat(q) \/ AcquireLock(q) \/ LockBusy(q) \/ FindActiveRoom(q)
             \/ CheckDeadline(q) \/ ClaimPending(q) \/ ClaimPartner(q) \/ JoinQueue(q)
             \/ LookUpPartner(q) \/ DiscardPartner(q) \/ ClearPending(q)
             \/ ReleaseLock(q) \/ CancelSearch(q) \/ LeaveQueue(q)
             \/ FindUnjoined(q) \/ CheckSeat(q)
      PROVE  UNCHANGED rooms
  BY <1>6 DEF StartChat, AcquireLock, LockBusy, FindActiveRoom, CheckDeadline,
       ClaimPending, ClaimPartner, JoinQueue, LookUpPartner, DiscardPartner,
       ClearPending, ReleaseLock, CancelSearch, LeaveQueue, FindUnjoined, CheckSeat
<1>7. ASSUME ReapStart \/ ReapNext \/ ReapCheck PROVE UNCHANGED rooms
  BY <1>7 DEF ReapStart, ReapNext, ReapCheck
<1>8. ASSUME NEW u \in Users,
             \/ BeginSearch(u) \/ Vanish(u) \/ AliveExpires(u)
             \/ PendingExpires(u) \/ LockExpires(u)
      PROVE  UNCHANGED rooms
  BY <1>8 DEF BeginSearch, Vanish, AliveExpires, PendingExpires, LockExpires
<1>9. ASSUME NEW p \in Processes, Crash(p) PROVE UNCHANGED rooms
  BY <1>9 DEF Crash
<1>10. CASE UNCHANGED vars
  BY <1>1, <1>10 DEF vars
<1> QED
  BY <1>1, <1>2, <1>3, <1>4, <1>5, <1>6, <1>7, <1>8, <1>9, <1>10, <1>11,
     <1>12, <1>13
  DEF Next, StartStep, CancelStep, ReapStep, Environment

\* A request enters its INSERT only by finding its partner free, and it keeps
\* that partner until it leaves it.
LEMMA EnterCreate ==
    ASSUME TypeOK, [Next]_vars, NEW q \in Requests, pc'[q] = "create"
    PROVE  \/ /\ FindActiveRoom(q)
              /\ Claiming(q) /\ partner'[q] = partner[q]
              /\ ActiveRooms(partner[q]) = {}
           \/ /\ pc[q] = "create"
              /\ partner'[q] = partner[q]
<1> USE DEF TypeOK, Goto, Processes, Claiming
<1> SUFFICES ASSUME ~ (pc[q] = "create" /\ partner'[q] = partner[q])
             PROVE  /\ FindActiveRoom(q)
                    /\ Claiming(q) /\ partner'[q] = partner[q]
                    /\ ActiveRooms(partner[q]) = {}
  OBVIOUS
<1>1. ASSUME FindActiveRoom(q)
      PROVE  Claiming(q) /\ partner'[q] = partner[q] /\ ActiveRooms(partner[q]) = {}
  BY <1>1 DEF FindActiveRoom, Subject
<1>2. ASSUME NEW p \in Requests,
             \/ StartChat(p) \/ AcquireLock(p) \/ LockBusy(p) \/ CheckDeadline(p)
             \/ EndExpired(p) \/ ClaimPending(p) \/ ClaimPartner(p) \/ JoinQueue(p)
      PROVE  FALSE
  BY <1>2 DEF StartChat, AcquireLock, LockBusy, CheckDeadline, EndExpired,
       ClaimPending, ClaimPartner, JoinQueue
<1>3. ASSUME NEW p \in Requests,
             \/ LookUpPartner(p) \/ DiscardPartner(p) \/ CreateRoom(p)
             \/ ClearPending(p) \/ ReleaseLock(p)
      PROVE  FALSE
  BY <1>3 DEF LookUpPartner, DiscardPartner, CreateRoom, ClearPending, ReleaseLock
<1>4. ASSUME NEW p \in Requests,
             \/ CancelSearch(p) \/ LeaveQueue(p) \/ FindUnjoined(p)
             \/ CheckSeat(p) \/ EndUnjoined(p)
      PROVE  FALSE
  BY <1>4 DEF CancelSearch, LeaveQueue, FindUnjoined, CheckSeat, EndUnjoined
<1>5. ASSUME NEW p \in Requests, FindActiveRoom(p), p # q PROVE FALSE
  BY <1>5 DEF FindActiveRoom
<1>6. ASSUME ReapStep PROVE FALSE
  BY <1>6 DEF ReapStep, ReapStart, ReapNext, ReapCheck, ReapEnd
<1>7. ASSUME NEW u \in Users,
             \/ BeginSearch(u) \/ Vanish(u) \/ AliveExpires(u) \/ PendingExpires(u)
             \/ LockExpires(u) \/ DeleteAccount(u)
      PROVE  FALSE
  BY <1>7 DEF BeginSearch, Vanish, AliveExpires, PendingExpires, LockExpires,
       DeleteAccount
<1>8. ASSUME NEW r \in DOMAIN rooms,
             \/ \E u \in Users : TakeSeat(r, u)
             \/ PostMessage(r) \/ PassDeadline(r) \/ EndRoom(r)
      PROVE  FALSE
  BY <1>8 DEF TakeSeat, PostMessage, PassDeadline, EndRoom
<1>9. ASSUME NEW p \in Processes, Crash(p) PROVE FALSE
  <2>1. p # q
    BY <1>9 DEF Crash
  <2> QED BY <1>9, <2>1 DEF Crash
<1>10. CASE UNCHANGED vars
  BY <1>10 DEF vars
<1> QED
  BY <1>1, <1>2, <1>3, <1>4, <1>5, <1>6, <1>7, <1>8, <1>9, <1>10
  DEF Next, StartStep, CancelStep, Environment

\* A partner found free stays free until the INSERT: no other request can be
\* about to seat them.
LEMMA FreeStep ==
    ASSUME TypeOK, LockInv, ClaimInv, FreeInv, [Next]_vars
    PROVE  FreeInv'
<1> SUFFICES ASSUME NEW q \in Requests, pc'[q] = "create"
             PROVE  (Claiming(q) /\ ActiveRooms(partner[q]) = {})'
  BY DEF FreeInv
<1>1. /\ Claiming(q) /\ partner'[q] = partner[q]
      /\ ActiveRooms(partner[q]) = {}
  BY EnterCreate DEF FreeInv
<1>2. partner[q] \in Users
  BY <1>1 DEF Claiming, TypeOK
<1>3. CASE ~ \E p \in Requests : CreateRoom(p)
  BY <1>1, <1>2, <1>3, OnlyCreateRoomAdds DEF Claiming, ActiveRooms, Members
<1>4. ASSUME NEW p \in Requests, CreateRoom(p)
      PROVE  ActiveRooms(partner[q])' = {}
  <2>1. p # q /\ Claiming(p)
    BY <1>4 DEF CreateRoom, Goto, TypeOK, Processes, FreeInv
  <2>2. partner[q] \notin {Owner[p], partner[p]}
    BY <1>1, <2>1, ClaimsDiffer
  <2>3. CASE UNCHANGED rooms
    BY <1>1, <2>3 DEF ActiveRooms, Members
  <2>4. CASE rooms # rooms'
    <3>1. rooms' = Append(rooms, [one |-> partner[p], two |-> Owner[p],
                                  status |-> "active", window |-> "young",
                                  seated |-> {}])
      BY <1>4, <2>4 DEF CreateRoom
    <3>2. /\ DOMAIN rooms' = DOMAIN rooms \cup {Len(rooms) + 1}
          /\ \A r \in DOMAIN rooms : rooms'[r] = rooms[r]
          /\ rooms'[Len(rooms) + 1].one = partner[p]
          /\ rooms'[Len(rooms) + 1].two = Owner[p]
      BY <3>1 DEF TypeOK
    <3> QED BY <1>1, <2>2, <3>2 DEF ActiveRooms, Members
  <2> QED BY <2>3, <2>4
<1> QED BY <1>1, <1>3, <1>4 DEF Claiming

-----------------------------------------------------------------------------
(* What follows for every run of start_chat.                                *)

\* The invariant the code maintains holds in every behaviour: the queue and
\* its mirrors whatever happens, the locks, claims and free partners as long
\* as no key expires under a request at work.
THEOREM Inductive == Spec => []IInv
<1>1. Init => IInv
  BY QueueInit DEF Init, IInv, LockInv, ClaimInv, FreeInv, Locked, Claiming, Processes
<1>2. TypeOK /\ IInv /\ [Next]_vars => IInv'
  <2> SUFFICES ASSUME TypeOK, IInv, [Next]_vars PROVE IInv'
    OBVIOUS
  <2>1. QueueInv' /\ ReservedNotQueued'
    BY QueueStep DEF IInv
  <2>2. ASSUME "slow" \notin Events PROVE LockInv' /\ ClaimInv' /\ FreeInv'
    BY <2>2, LockStep, ClaimStep, FreeStep DEF IInv
  <2> QED BY <2>1, <2>2 DEF IInv
<1> QED BY <1>1, <1>2, TypeCorrect, PTL DEF Spec

\* The matches in flight are disjoint couples, none of them claimable, for any
\* number of users and tabs and wherever workers crash.
THEOREM ClaimsAreDisjoint == Spec => []ClaimsDisjoint
<1>1. TypeOK /\ IInv => ClaimsDisjoint
  <2> SUFFICES ASSUME TypeOK, IInv, "slow" \notin Events,
                      NEW q \in Requests, Claiming(q)
               PROVE  /\ partner[q] # Owner[q]
                      /\ Couple(q) \cap Range(queue) = {}
                      /\ \A p \in Requests \ {q} :
                            Claiming(p) => Couple(p) \cap Couple(q) = {}
    BY DEF ClaimsDisjoint
  <2>1. partner[q] \in Users
    BY DEF TypeOK, Claiming
  <2>2. partner[q] # Owner[q] /\ Couple(q) \cap Range(queue) = {}
    BY <2>1 DEF IInv, ClaimInv, ReservedNotQueued, Couple
  <2>3. ASSUME NEW p \in Requests \ {q}, Claiming(p)
        PROVE  Couple(p) \cap Couple(q) = {}
    BY <2>3, ClaimsDiffer DEF IInv, Couple
  <2> QED BY <2>2, <2>3
<1> QED BY <1>1, Inductive, TypeCorrect, PTL

\* The waiter of a new room is in no other room when the row is inserted, for
\* any number of users and tabs and wherever workers crash.
THEOREM WaiterIsFree == Spec => WaiterFree
<1> DEFINE Fresh == "slow" \notin Events =>
        \A r \in DOMAIN rooms' \ DOMAIN rooms : ActiveRooms(rooms'[r].one) = {}
<1>1. TypeOK /\ IInv /\ [Next]_vars => [Fresh]_rooms
  <2> SUFFICES ASSUME TypeOK, IInv, [Next]_vars, "slow" \notin Events,
                      NEW r \in DOMAIN rooms' \ DOMAIN rooms
               PROVE  ActiveRooms(rooms'[r].one) = {}
    OBVIOUS
  <2>1. PICK q \in Requests : CreateRoom(q)
    BY OnlyCreateRoomAdds
  <2>2. rooms' = Append(rooms, [one |-> partner[q], two |-> Owner[q],
                                status |-> "active", window |-> "young",
                                seated |-> {}])
    BY <2>1 DEF CreateRoom
  <2>3. rooms'[r].one = partner[q]
    BY <2>2 DEF TypeOK
  <2> QED BY <2>1, <2>3 DEF IInv, FreeInv, CreateRoom
<1> QED BY <1>1, Inductive, TypeCorrect, PTL DEF Spec, WaiterFree

-----------------------------------------------------------------------------
(* Reservations and their claimers.                                         *)

\* Rows disappear only with the account of a participant.
NoneDeleted == "delete" \notin Events => \A r \in DOMAIN rooms : rooms[r].status # "deleted"

\* A request that looks at the deadline of a room, or ends it, holds a row.
TargetHeld == \A q \in Requests : pc[q] \in {"deadline", "end"} => target[q] \in DOMAIN rooms

\* Only DeleteAccount makes rows disappear.
LEMMA NoneDeletedStep ==
    ASSUME TypeOK, NoneDeleted, [Next]_vars
    PROVE  NoneDeleted'
<1> SUFFICES ASSUME "delete" \notin Events PROVE NoneDeleted'
  BY DEF NoneDeleted
<1> USE DEF TypeOK, NoneDeleted
<1>1. CASE UNCHANGED rooms
  BY <1>1
<1>2. ASSUME NEW r, rooms' = Ended(r) \/ rooms' = [Ended(r) EXCEPT ![r].seated = {}]
      PROVE  NoneDeleted'
  <2>1. /\ DOMAIN rooms' = DOMAIN rooms
        /\ \A x \in DOMAIN rooms : rooms'[x].status \in {rooms[x].status, "ended"}
    <3>1. /\ DOMAIN Ended(r) = DOMAIN rooms
          /\ \A x \in DOMAIN rooms : Ended(r)[x] \in {rooms[x], [rooms[x] EXCEPT !.status = "ended"]}
      BY DEF Ended
    <3>2. \A x \in DOMAIN rooms : rooms[x] \in Room
      BY LenProperties
    <3>3. /\ DOMAIN rooms' = DOMAIN rooms
          /\ \A x \in DOMAIN rooms : rooms'[x] \in {Ended(r)[x], [Ended(r)[x] EXCEPT !.seated = {}]}
      BY <1>2, <3>1
    <3> QED BY <3>1, <3>2, <3>3 DEF Room
  <2> QED BY <2>1
<1>3. ASSUME NEW q \in Requests, EndExpired(q) \/ EndUnjoined(q) PROVE NoneDeleted'
  BY <1>1, <1>2, <1>3 DEF EndExpired, EndUnjoined
<1>4. ASSUME ReapEnd PROVE NoneDeleted'
  BY <1>1, <1>2, <1>4 DEF ReapEnd
<1>5. ASSUME NEW r \in DOMAIN rooms, EndRoom(r) PROVE NoneDeleted'
  BY <1>2, <1>5 DEF EndRoom
<1>6. ASSUME NEW r \in DOMAIN rooms,
             \/ \E u \in Users : TakeSeat(r, u)
             \/ PostMessage(r) \/ PassDeadline(r)
      PROVE  NoneDeleted'
  <2>1. \E f \in {"seated", "window"} : \E e :
           rooms' = [rooms EXCEPT ![r] = [rooms[r] EXCEPT ![f] = e]]
    BY <1>6 DEF TakeSeat, PostMessage, PassDeadline
  <2>2. rooms[r] \in Room
    BY LenProperties
  <2> QED BY <2>1, <2>2 DEF Room
<1>7. ASSUME NEW q \in Requests, CreateRoom(q) PROVE NoneDeleted'
  <2>1. CASE rooms' # rooms
    <3>1. rooms' = Append(rooms, [one |-> partner[q], two |-> Owner[q],
                                  status |-> "active", window |-> "young",
                                  seated |-> {}])
      BY <1>7, <2>1 DEF CreateRoom
    <3>2. /\ DOMAIN rooms' = DOMAIN rooms \cup {Len(rooms) + 1}
          /\ \A r \in DOMAIN rooms : rooms'[r] = rooms[r]
          /\ rooms'[Len(rooms) + 1].status = "active"
      BY <3>1
    <3> QED BY <3>2
  <2> QED BY <1>1, <2>1
<1>8. ASSUME NEW u \in Users, DeleteAccount(u) PROVE FALSE
  BY <1>8 DEF DeleteAccount
<1>9. ASSUME NEW q \in Requests,
             \/ StartChat(q) \/ AcquireLock(q) \/ LockBusy(q) \/ FindActiveRoom(q)
             \/ CheckDeadline(q) \/ ClaimPending(q) \/ ClaimPartner(q) \/ JoinQueue(q)
             \/ LookUpPartner(q) \/ DiscardPartner(q) \/ ClearPending(q)
             \/ ReleaseLock(q) \/ CancelSearch(q) \/ LeaveQueue(q)
             \/ FindUnjoined(q) \/ CheckSeat(q)
      PROVE  UNCHANGED rooms
  BY <1>9 DEF StartChat, AcquireLock, LockBusy, FindActiveRoom, CheckDeadline,
       ClaimPending, ClaimPartner, JoinQueue, LookUpPartner, DiscardPartner,
       ClearPending, ReleaseLock, CancelSearch, LeaveQueue, FindUnjoined, CheckSeat
<1>10. ASSUME NEW u \in Users,
              \/ BeginSearch(u) \/ Vanish(u) \/ AliveExpires(u)
              \/ PendingExpires(u) \/ LockExpires(u)
       PROVE  UNCHANGED rooms
  BY <1>10 DEF BeginSearch, Vanish, AliveExpires, PendingExpires, LockExpires
<1>11. ASSUME \/ ReapStart \/ ReapNext \/ ReapCheck
              \/ \E p \in Processes : Crash(p)
              \/ UNCHANGED vars
       PROVE  UNCHANGED rooms
  BY <1>11 DEF ReapStart, ReapNext, ReapCheck, Crash, vars
<1> HIDE DEF NoneDeleted
<1> QED
  BY <1>1, <1>3, <1>4, <1>5, <1>6, <1>7, <1>8, <1>9, <1>10, <1>11
  DEF Next, StartStep, CancelStep, ReapStep, Environment

\* The room a request looks at is set before it is looked at, and rows are
\* never removed from the table.
LEMMA TargetHeldStep ==
    ASSUME TypeOK, TargetHeld, [Next]_vars
    PROVE  TargetHeld'
<1> USE DEF TypeOK, TargetHeld, Goto, Processes
<1>0. DOMAIN rooms \subseteq DOMAIN rooms'
  <2>1. ASSUME NEW q \in Requests, CreateRoom(q) PROVE DOMAIN rooms \subseteq DOMAIN rooms'
    BY <2>1, LenProperties DEF CreateRoom
  <2> QED BY <2>1, OnlyCreateRoomAdds
<1> SUFFICES ASSUME NEW q \in Requests, pc'[q] \in {"deadline", "end"}
             PROVE  target'[q] \in DOMAIN rooms
  BY <1>0
<1>1. ASSUME NEW p \in Requests, FindActiveRoom(p) PROVE target'[q] \in DOMAIN rooms
  BY <1>1 DEF FindActiveRoom, IsNewest
<1>2. ASSUME NEW p \in Requests,
             \/ StartChat(p) \/ AcquireLock(p) \/ LockBusy(p) \/ CheckDeadline(p)
             \/ EndExpired(p) \/ ClaimPending(p) \/ ClaimPartner(p) \/ JoinQueue(p)
      PROVE  target'[q] \in DOMAIN rooms
  BY <1>2 DEF StartChat, AcquireLock, LockBusy, CheckDeadline, EndExpired,
       ClaimPending, ClaimPartner, JoinQueue
<1>3. ASSUME NEW p \in Requests,
             \/ LookUpPartner(p) \/ DiscardPartner(p) \/ CreateRoom(p)
             \/ ClearPending(p) \/ ReleaseLock(p)
      PROVE  target'[q] \in DOMAIN rooms
  BY <1>3 DEF LookUpPartner, DiscardPartner, CreateRoom, ClearPending, ReleaseLock
<1>4. ASSUME NEW p \in Requests,
             \/ CancelSearch(p) \/ LeaveQueue(p) \/ FindUnjoined(p)
             \/ CheckSeat(p) \/ EndUnjoined(p)
      PROVE  target'[q] \in DOMAIN rooms
  BY <1>4 DEF CancelSearch, LeaveQueue, FindUnjoined, CheckSeat, EndUnjoined
<1>5. ASSUME ReapStep PROVE target'[q] \in DOMAIN rooms
  BY <1>5 DEF ReapStep, ReapStart, ReapNext, ReapCheck, ReapEnd
<1>6. ASSUME NEW u \in Users,
             \/ BeginSearch(u) \/ Vanish(u) \/ AliveExpires(u) \/ PendingExpires(u)
             \/ LockExpires(u) \/ DeleteAccount(u)
      PROVE  target'[q] \in DOMAIN rooms
  BY <1>6 DEF BeginSearch, Vanish, AliveExpires, PendingExpires, LockExpires,
       DeleteAccount
<1>7. ASSUME NEW r \in DOMAIN rooms,
             \/ \E u \in Users : TakeSeat(r, u)
             \/ PostMessage(r) \/ PassDeadline(r) \/ EndRoom(r)
      PROVE  target'[q] \in DOMAIN rooms
  BY <1>7 DEF TakeSeat, PostMessage, PassDeadline, EndRoom
<1>8. ASSUME NEW p \in Processes, Crash(p) PROVE target'[q] \in DOMAIN rooms
  BY <1>8 DEF Crash
<1>9. CASE UNCHANGED vars
  BY <1>9 DEF vars
<1> QED
  BY <1>1, <1>2, <1>3, <1>4, <1>5, <1>6, <1>7, <1>8, <1>9
  DEF Next, StartStep, CancelStep, Environment

\* Whoever drops a claim drops its reservation with it, or has crashed, or has
\* run into a deleted row.
LEMMA ClaimerStep ==
    ASSUME TypeOK, IInv, NoneDeleted, TargetHeld, ReservationHasClaimer, [Next]_vars
    PROVE  ReservationHasClaimer'
<1> SUFFICES ASSUME {"crash", "slow", "delete"} \cap Events = {},
                    NEW u \in Users, pending'[u] # NoUser
             PROVE  \E q \in Requests : partner'[q] = u /\ Owner[q] = pending'[u]
  BY DEF ReservationHasClaimer
<1> USE DEF IInv, Goto, Processes
<1> DEFINE Claimed == \E q \in Requests : partner'[q] = u /\ Owner[q] = pending'[u]
<1>0. pending[u] # NoUser => \E q \in Requests : partner[q] = u /\ Owner[q] = pending[u]
  BY DEF ReservationHasClaimer
<1>1. ASSUME NEW q \in Requests, ClaimPartner(q) PROVE Claimed
  <2>1. PICK c \in Range(queue) \ {Owner[q]} :
           /\ pending' = [pending EXCEPT ![c] = Owner[q]]
           /\ partner' = [partner EXCEPT ![q] = c]
    BY <1>1, ClaimEffect
  <2>2. ~ Claiming(q)
    BY <1>1, ClaimEffect DEF ClaimInv
  <2>3. CASE u = c
    BY <2>1, <2>3 DEF TypeOK
  <2>4. CASE u # c
    <3>1. pending'[u] = pending[u] /\ pending[u] # NoUser
      BY <2>1, <2>4 DEF TypeOK
    <3>2. PICK p \in Requests : partner[p] = u /\ Owner[p] = pending[u]
      BY <1>0, <3>1
    <3>3. p # q
      BY <2>2, <3>2 DEF Claiming
    <3> QED BY <2>1, <3>1, <3>2, <3>3 DEF TypeOK
  <2> QED BY <2>3, <2>4
<1>2. ASSUME NEW q \in Requests, DiscardPartner(q) \/ ClearPending(q) PROVE Claimed
  <2>1. /\ pending' = [pending EXCEPT ![partner[q]] = NoUser]
        /\ partner' = [partner EXCEPT ![q] = NoUser]
    BY <1>2 DEF DiscardPartner, ClearPending
  <2>2. u # partner[q] /\ pending'[u] = pending[u]
    BY <2>1 DEF TypeOK
  <2>3. PICK p \in Requests : partner[p] = u /\ Owner[p] = pending[u]
    BY <1>0, <2>2
  <2> QED BY <2>1, <2>2, <2>3 DEF TypeOK
<1>3. ASSUME NEW q \in Requests, EndExpired(q) PROVE UNCHANGED <<pending, partner>>
  <2>1. target[q] \in DOMAIN rooms
    BY <1>3 DEF EndExpired, TargetHeld
  <2>2. rooms[target[q]].status # "deleted"
    BY <2>1 DEF NoneDeleted
  <2> QED BY <1>3, <2>2 DEF EndExpired, redis
<1>4. ASSUME NEW v \in Users, PendingExpires(v) PROVE Claimed
  <2>1. pending'[u] = pending[u] /\ UNCHANGED partner
    BY <1>4 DEF PendingExpires, TypeOK
  <2> QED BY <1>0, <2>1
<1>5. ASSUME NEW q \in Requests,
             \/ StartChat(q) \/ AcquireLock(q) \/ LockBusy(q) \/ FindActiveRoom(q)
             \/ CheckDeadline(q) \/ ClaimPending(q) \/ JoinQueue(q)
             \/ LookUpPartner(q) \/ CreateRoom(q) \/ ReleaseLock(q)
             \/ CancelSearch(q) \/ LeaveQueue(q) \/ FindUnjoined(q)
             \/ CheckSeat(q) \/ EndUnjoined(q)
      PROVE  UNCHANGED <<pending, partner>>
  BY <1>5 DEF StartChat, AcquireLock, LockBusy, FindActiveRoom, CheckDeadline,
       ClaimPending, JoinQueue, LookUpPartner, CreateRoom, ReleaseLock,
       CancelSearch, LeaveQueue, FindUnjoined, CheckSeat, EndUnjoined, redis
<1>6. ASSUME ReapStep PROVE UNCHANGED <<pending, partner>>
  BY <1>6 DEF ReapStep, ReapStart, ReapNext, ReapCheck, ReapEnd, redis
<1>7. ASSUME NEW v \in Users,
             \/ BeginSearch(v) \/ Vanish(v) \/ AliveExpires(v) \/ LockExpires(v)
             \/ DeleteAccount(v)
      PROVE  UNCHANGED <<pending, partner>>
  BY <1>7 DEF BeginSearch, Vanish, AliveExpires, LockExpires, DeleteAccount, redis
<1>8. ASSUME NEW r \in DOMAIN rooms,
             \/ \E v \in Users : TakeSeat(r, v)
             \/ PostMessage(r) \/ PassDeadline(r) \/ EndRoom(r)
      PROVE  UNCHANGED <<pending, partner>>
  BY <1>8 DEF TakeSeat, PostMessage, PassDeadline, EndRoom, redis
<1>9. ASSUME NEW p \in Processes, Crash(p) PROVE FALSE
  BY <1>9 DEF Crash
<1>10. CASE UNCHANGED vars
  BY <1>0, <1>10 DEF vars, redis
<1>11. ASSUME UNCHANGED <<pending, partner>> PROVE Claimed
  BY <1>0, <1>11
<1> QED
  BY <1>1, <1>2, <1>3, <1>4, <1>5, <1>6, <1>7, <1>8, <1>9, <1>10, <1>11
  DEF Next, StartStep, CancelStep, Environment

\* No path of start_chat forgets a reservation, for any number of users and
\* tabs: as long as no worker dies, no key expires under a request at work and
\* no account is deleted, every reservation has the request that will drop it.
THEOREM ReservationsAreClaimed == Spec => []ReservationHasClaimer
<1>1. Init => NoneDeleted /\ TargetHeld /\ ReservationHasClaimer
  BY DEF Init, NoneDeleted, TargetHeld, ReservationHasClaimer, Processes
<1>2. TypeOK /\ IInv /\ NoneDeleted /\ TargetHeld /\ ReservationHasClaimer /\ [Next]_vars
        => NoneDeleted' /\ TargetHeld' /\ ReservationHasClaimer'
  BY NoneDeletedStep, TargetHeldStep, ClaimerStep
<1> QED BY <1>1, <1>2, Inductive, TypeCorrect, PTL DEF Spec

-----------------------------------------------------------------------------
(* Matchmaking implements Pairing, for any number of users, tabs and rooms.  *)

USE ConstantsAssumption

\* Users of a claim in flight are engaged, and nobody else is.
LEMMA EngagedUsers ==
    ASSUME TypeOK, NEW u \in Promise!Engaged
    PROVE  \E q \in InFlight : u \in {Owner[q], partner[q]}
BY DEF Promise!Engaged, Couples

\* An unreserved user whose lock is held by a request without a claim is in no
\* match.
LEMMA NotEngaged ==
    ASSUME TypeOK, LockInv, ClaimInv, NEW q \in Requests,
           Locked(q), ~ Claiming(q), pending[Owner[q]] = NoUser
    PROVE  Owner[q] \notin Promise!Engaged
<1> SUFFICES ASSUME Owner[q] \in Promise!Engaged PROVE FALSE
  OBVIOUS
<1>1. PICK p \in InFlight : Owner[q] \in {Owner[p], partner[p]}
  BY EngagedUsers
<1>2. p \in Requests /\ Claiming(p) /\ Locked(p)
  BY DEF InFlight, ClaimInv, Locked
<1>3. Owner[p] # Owner[q]
  BY <1>2 DEF LockInv
<1>4. pending[partner[p]] # NoUser
  BY <1>2 DEF ClaimInv, TypeOK
<1> QED BY <1>1, <1>3, <1>4

\* The matches in flight do not change when no request takes or leaves one.
LEMMA CouplesKept ==
    ASSUME UNCHANGED partner,
           \A q \in Requests : Claiming(q) => (pc'[q] = "clear" <=> pc[q] = "clear")
    PROVE  Couples' = Couples
<1>1. InFlight' = InFlight
  BY DEF InFlight, Claiming
<1> QED BY <1>1 DEF Couples

\* When one request leaves its match and the others keep theirs, that match, if
\* it was in flight, is the one that disappears.
LEMMA CoupleLeft ==
    ASSUME TypeOK, LockInv, ClaimInv, NEW q \in Requests,
           \A p \in Requests \ {q} : partner'[p] = partner[p] /\ pc'[p] = pc[p],
           q \notin InFlight'
    PROVE  /\ q \notin InFlight => Couples' = Couples
           /\ q \in InFlight => /\ <<Owner[q], partner[q]>> \in Couples
                                /\ Couples' = Couples \ {<<Owner[q], partner[q]>>}
<1>1. InFlight' = InFlight \ {q}
  BY DEF InFlight, Claiming
<1>2. \A p \in InFlight \ {q} : partner'[p] = partner[p]
  BY DEF InFlight
<1>3. CASE q \notin InFlight
  BY <1>1, <1>2, <1>3 DEF Couples
<1>4. CASE q \in InFlight
  <2>1. \A p \in InFlight \ {q} : Owner[p] # Owner[q]
    BY <1>4, ClaimsDiffer DEF InFlight
  <2> QED BY <1>1, <1>2, <1>4, <2>1 DEF Couples
<1> QED BY <1>3, <1>4

\* An INSERT appends the couple of its request to those that have met.
LEMMA MetGrows ==
    ASSUME TypeOK, NEW q \in Requests, CreateRoom(q), rooms' # rooms
    PROVE  Met' = Append(Met, <<Owner[q], partner[q]>>)
<1> DEFINE new == [one |-> partner[q], two |-> Owner[q], status |-> "active",
                   window |-> "young", seated |-> {}]
           c   == <<Owner[q], partner[q]>>
<1>1. rooms' = Append(rooms, new)
  BY DEF CreateRoom
<1>2. DOMAIN rooms = 1 .. Len(rooms) /\ Len(rooms) \in Nat
  BY LenProperties DEF TypeOK
<1>3. /\ DOMAIN rooms' = 1 .. Len(rooms) + 1
      /\ \A r \in 1 .. Len(rooms) : rooms'[r] = rooms[r]
      /\ rooms'[Len(rooms) + 1] = new
  <2> HIDE DEF new
  <2>1. rooms \in Seq(Room \cup {new})
    BY SeqMonotonic DEF TypeOK
  <2>2. /\ Len(rooms') = Len(rooms) + 1 /\ rooms' \in Seq(Room \cup {new})
        /\ \A r \in 1 .. Len(rooms) : rooms'[r] = rooms[r]
        /\ rooms'[Len(rooms) + 1] = new
    BY <1>1, <2>1, AppendProperties
  <2> QED BY <2>2, LenProperties
<1>4. Met \in Seq({Met[r] : r \in DOMAIN rooms}) /\ Len(Met) = Len(rooms)
  <2>1. Met \in [1 .. Len(rooms) -> {Met[r] : r \in DOMAIN rooms}]
    BY <1>2 DEF Met
  <2> QED BY <1>2, <2>1, IsASeq, LenProperties
<1>5. Append(Met, c) = [r \in 1 .. Len(rooms) + 1 |->
                           IF r = Len(rooms) + 1 THEN c ELSE Met[r]]
  BY <1>2, <1>4
<1>6. \A r \in 1 .. Len(rooms) + 1 :
         <<rooms'[r].two, rooms'[r].one>> = IF r = Len(rooms) + 1 THEN c ELSE Met[r]
  BY <1>2, <1>3 DEF Met
<1>7. Met' = [r \in 1 .. Len(rooms) + 1 |-> <<rooms'[r].two, rooms'[r].one>>]
  BY <1>3 DEF Met
<1> QED BY <1>5, <1>6, <1>7

\* Steps that write neither the markers nor the claims are invisible in Pairing.
LEMMA Stutter ==
    ASSUME TypeOK, [Next]_vars, ~ \E q \in Requests : CreateRoom(q),
           UNCHANGED <<alive, partner>>,
           \A q \in Requests : Claiming(q) => (pc'[q] = "clear" <=> pc[q] = "clear")
    PROVE  UNCHANGED Promise!vars
<1>1. Couples' = Couples
  BY CouplesKept
<1>2. Met' = Met
  BY OnlyCreateRoomAdds
<1> QED BY <1>1, <1>2 DEF Promise!vars

\* Leaving a match without a room parts the couple, if it was still in flight.
LEMMA Parting ==
    ASSUME TypeOK, LockInv, ClaimInv, NEW q \in Requests, UNCHANGED <<alive, Met>>,
           \A p \in Requests \ {q} : partner'[p] = partner[p] /\ pc'[p] = pc[p],
           q \notin InFlight'
    PROVE  [Promise!Next]_(Promise!vars)
<1>1. CASE q \notin InFlight
  BY <1>1, CoupleLeft DEF Promise!vars
<1>2. CASE q \in InFlight
  <2>1. PICK c \in Couples : Couples' = Couples \ {c}
    BY <1>2, CoupleLeft
  <2>2. Promise!Part(c)
    BY <2>1 DEF Promise!Part
  <2> QED BY <2>2 DEF Promise!Next
<1> QED BY <1>1, <1>2

\* Every step of Matchmaking is a step of Pairing, or invisible in it.
LEMMA RefinementStep ==
    ASSUME TypeOK, IInv, [Next]_vars, "slow" \notin Events
    PROVE  [Promise!Next]_(Promise!vars)
<1> USE DEF redis, Goto, IInv
<1> DEFINE Goal == [Promise!Next]_(Promise!vars)
<1>1. ASSUME NEW q \in Requests, JoinQueue(q) PROVE Goal
  <2>1. /\ pc[q] = "claim" /\ pending[Owner[q]] = NoUser
        /\ pc' = [pc EXCEPT ![q] = "release"]
        /\ alive' = {Owner[q]} /\ alive \subseteq {Owner[q]}
        /\ UNCHANGED <<rooms, partner>>
    BY <1>1, JoinEffect
  <2>2. Locked(q) /\ ~ Claiming(q)
    BY <2>1 DEF Locked, ClaimInv
  <2>3. Couples' = Couples
    BY <2>1, <2>2, CouplesKept DEF TypeOK, Processes
  <2>4. Owner[q] \notin Promise!Engaged
    BY <2>1, <2>2, NotEngaged
  <2>5. Promise!Wait(Owner[q])
    BY <2>1, <2>3, <2>4 DEF Promise!Wait, Met
  <2> QED BY <2>5 DEF Promise!Next
<1>2. ASSUME NEW q \in Requests, ClaimPartner(q) PROVE Goal
  <2>1. PICK c \in Range(queue) \ {Owner[q]} :
           /\ c \in alive /\ alive \subseteq {Owner[q], c}
           /\ pending' = [pending EXCEPT ![c] = Owner[q]]
           /\ partner' = [partner EXCEPT ![q] = c]
    BY <1>2, ClaimEffect
  <2>2. /\ pc[q] = "claim" /\ pending[Owner[q]] = NoUser
        /\ pc' = [pc EXCEPT ![q] = "lookup"] /\ alive' = {} /\ UNCHANGED rooms
    BY <1>2, ClaimEffect
  <2>3. Locked(q) /\ ~ Claiming(q)
    BY <2>2 DEF Locked, ClaimInv
  <2>4. c \in Users
    BY <2>1 DEF TypeOK
  <2>5. InFlight' = InFlight \cup {q} /\ q \notin InFlight
    BY <2>1, <2>2, <2>3, <2>4 DEF InFlight, Claiming, TypeOK, Processes
  <2>6. \A p \in InFlight : partner'[p] = partner[p]
    BY <2>1, <2>5 DEF InFlight, TypeOK
  <2>7. partner'[q] = c
    BY <2>1 DEF TypeOK
  <2>8. Couples' = Couples \cup {<<Owner[q], c>>}
    BY <2>5, <2>6, <2>7 DEF Couples
  <2>9. Owner[q] \notin Promise!Engaged
    BY <2>2, <2>3, NotEngaged
  <2>10. Promise!Pair(Owner[q], c)
    BY <2>1, <2>2, <2>8, <2>9 DEF Promise!Pair, Met
  <2> QED BY <2>4, <2>10 DEF Promise!Next
<1>3. ASSUME NEW q \in Requests, CreateRoom(q) PROVE Goal
  <2>1. /\ pc[q] = "create" /\ pc' = [pc EXCEPT ![q] = "clear"]
        /\ UNCHANGED <<alive, partner>>
    BY <1>3 DEF CreateRoom
  <2>2. q \notin InFlight' /\ q \in InFlight
    BY <2>1 DEF InFlight, TypeOK, Processes, FreeInv
  <2>3. \A p \in Requests \ {q} : partner'[p] = partner[p] /\ pc'[p] = pc[p]
    BY <2>1 DEF TypeOK, Processes
  <2>4. CASE UNCHANGED rooms
    BY <2>1, <2>2, <2>3, <2>4, Parting DEF Met
  <2>5. CASE rooms' # rooms
    <3>1. /\ <<Owner[q], partner[q]>> \in Couples
          /\ Couples' = Couples \ {<<Owner[q], partner[q]>>}
      BY <2>2, <2>3, CoupleLeft
    <3>2. Promise!Meet(<<Owner[q], partner[q]>>)
      BY <1>3, <2>1, <2>5, <3>1, MetGrows DEF Promise!Meet
    <3> QED BY <3>1, <3>2 DEF Promise!Next
  <2> QED BY <2>4, <2>5
<1> SUFFICES ASSUME ~ \E q \in Requests : CreateRoom(q) PROVE Goal
  BY <1>3
<1>4. Met' = Met
  BY OnlyCreateRoomAdds
<1>5. ASSUME NEW q \in Requests,
             EndExpired(q) \/ DiscardPartner(q) \/ ClearPending(q)
      PROVE  Goal
  <2>1. /\ \A p \in Requests \ {q} : partner'[p] = partner[p] /\ pc'[p] = pc[p]
        /\ UNCHANGED alive
    BY <1>5 DEF EndExpired, DiscardPartner, ClearPending, TypeOK, Processes
  <2>2. CASE partner'[q] = NoUser
    BY <1>4, <2>1, <2>2, Parting DEF InFlight, Claiming
  <2>3. CASE partner'[q] # NoUser
    <3>1. pc[q] # "clear" /\ pc'[q] # "clear" /\ UNCHANGED partner
      BY <1>5, <2>3 DEF EndExpired, DiscardPartner, ClearPending, TypeOK, Processes
    <3> QED BY <2>1, <3>1, Stutter
  <2> QED BY <2>2, <2>3
<1>6. ASSUME NEW q \in Requests, LeaveQueue(q) PROVE Goal
  <2>1. /\ alive' = alive \ {Owner[q]} /\ UNCHANGED partner
        /\ pc' = [pc EXCEPT ![q] = "findUnjoined"] /\ pc[q] = "leave"
    BY <1>6 DEF LeaveQueue
  <2>2. Couples' = Couples
    BY <2>1, CouplesKept DEF TypeOK, Processes
  <2>3. Promise!Leave(Owner[q])
    BY <1>4, <2>1, <2>2 DEF Promise!Leave
  <2> QED BY <2>3 DEF Promise!Next
<1>7. ASSUME NEW u \in Users, AliveExpires(u) PROVE Goal
  <2>1. alive' = alive \ {u} /\ UNCHANGED <<partner, pc>>
    BY <1>7 DEF AliveExpires
  <2>2. Couples' = Couples
    BY <2>1, CouplesKept
  <2>3. Promise!Leave(u)
    BY <1>4, <2>1, <2>2 DEF Promise!Leave
  <2> QED BY <2>3 DEF Promise!Next
<1>8. ASSUME NEW p \in Processes, Crash(p) PROVE Goal
  <2>1. /\ UNCHANGED alive
        /\ partner' = [q \in Requests |-> IF q = p THEN NoUser ELSE partner[q]]
        /\ pc' = [pc EXCEPT ![p] = "idle"]
    BY <1>8 DEF Crash
  <2>2. CASE p \in Requests
    <3>1. p \notin InFlight'
      BY <2>1, <2>2 DEF InFlight, Claiming
    <3>2. \A q \in Requests \ {p} : partner'[q] = partner[q] /\ pc'[q] = pc[q]
      BY <2>1 DEF TypeOK, Processes
    <3> QED BY <1>4, <2>1, <2>2, <3>1, <3>2, Parting
  <2>3. CASE p \notin Requests
    <3>1. UNCHANGED partner /\ \A q \in Requests : pc'[q] = pc[q]
      BY <2>1, <2>3 DEF TypeOK, Processes
    <3> QED BY <2>1, <3>1, Stutter
  <2> QED BY <2>2, <2>3
<1>9. ASSUME NEW q \in Requests,
             \/ StartChat(q) \/ AcquireLock(q) \/ LockBusy(q) \/ FindActiveRoom(q)
             \/ CheckDeadline(q) \/ ClaimPending(q) \/ LookUpPartner(q)
             \/ ReleaseLock(q) \/ CancelSearch(q) \/ FindUnjoined(q)
             \/ CheckSeat(q) \/ EndUnjoined(q)
      PROVE  Goal
  <2>1. /\ UNCHANGED <<alive, partner>>
        /\ \A p \in Requests : pc'[p] = "clear" <=> pc[p] = "clear"
    BY <1>9 DEF StartChat, AcquireLock, LockBusy, FindActiveRoom, CheckDeadline,
         ClaimPending, LookUpPartner, ReleaseLock, CancelSearch, FindUnjoined,
         CheckSeat, EndUnjoined, TypeOK, Processes
  <2> QED BY <2>1, Stutter
<1>10. ASSUME ReapStep PROVE Goal
  <2>1. UNCHANGED <<alive, partner>> /\ \A p \in Requests : pc'[p] = pc[p]
    BY <1>10 DEF ReapStep, ReapStart, ReapNext, ReapCheck, ReapEnd, TypeOK, Processes
  <2> QED BY <2>1, Stutter
<1>11. ASSUME NEW u \in Users,
              \/ BeginSearch(u) \/ Vanish(u) \/ PendingExpires(u) \/ LockExpires(u)
              \/ DeleteAccount(u)
       PROVE  Goal
  <2>1. UNCHANGED <<alive, partner, pc>>
    BY <1>11 DEF BeginSearch, Vanish, PendingExpires, LockExpires, DeleteAccount
  <2> QED BY <2>1, Stutter
<1>12. ASSUME NEW r \in DOMAIN rooms,
              \/ \E u \in Users : TakeSeat(r, u)
              \/ PostMessage(r) \/ PassDeadline(r) \/ EndRoom(r)
       PROVE  Goal
  <2>1. UNCHANGED <<alive, partner, pc>>
    BY <1>12 DEF TakeSeat, PostMessage, PassDeadline, EndRoom
  <2> QED BY <2>1, Stutter
<1>13. CASE UNCHANGED vars
  <2>1. UNCHANGED <<alive, partner, pc>>
    BY <1>13 DEF vars
  <2> QED BY <2>1, Stutter
<1> QED
  BY <1>1, <1>2, <1>5, <1>6, <1>7, <1>8, <1>9, <1>10, <1>11, <1>12, <1>13
  DEF Next, StartStep, CancelStep, Environment

\* Redis starts empty, and so does Pairing.
LEMMA RefinementInit == Init => Promise!Init
<1> SUFFICES ASSUME Init PROVE Promise!Init
  OBVIOUS
<1>1. alive = {} /\ Couples = {}
  BY DEF Init, Couples, InFlight, Claiming
<1>2. Met = << >>
  BY DEF Init, Met
<1> QED BY <1>1, <1>2 DEF Promise!Init

\* As long as no key expires under a request at work, the locks, the script
\* and the reservations implement Pairing, whatever users, tabs, cancels,
\* deletions and crashes interleave.
THEOREM ImplementsPairing ==
    ASSUME "slow" \notin Events
    PROVE  Spec => PromiseKept
<1>1. TypeOK /\ IInv /\ [Next]_vars => [Promise!Next]_(Promise!vars)
  BY RefinementStep
<1> QED BY <1>1, RefinementInit, Inductive, TypeCorrect, PTL DEF Spec, PromiseKept, Promise!Spec

\* A step of Pairing keeps everybody in one match at a time, and out of the
\* users that can be found while in it.
LEMMA MatchStep ==
    ASSUME Promise!OneMatchEach, [Promise!Next]_(Promise!vars)
    PROVE  Promise!OneMatchEach'
<1> USE DEF Promise!OneMatchEach, Promise!Engaged
<1>1. ASSUME NEW u \in Users, Promise!Wait(u) PROVE Promise!OneMatchEach'
  BY <1>1 DEF Promise!Wait
<1>2. ASSUME NEW u \in Users, Promise!Leave(u) PROVE Promise!OneMatchEach'
  BY <1>2 DEF Promise!Leave
<1>3. ASSUME NEW u \in Users, NEW v \in Users, Promise!Pair(u, v) PROVE Promise!OneMatchEach'
  <2>1. v \notin Promise!Engaged /\ u \notin Promise!Engaged /\ u # v
    BY <1>3 DEF Promise!Pair
  <2>2. /\ Couples' = Couples \cup {<<u, v>>}
        /\ alive' = alive \ {u, v}
    BY <1>3 DEF Promise!Pair
  <2>3. \A c \in Couples : {c[1], c[2]} \cap {u, v} = {}
    BY <2>1
  <2>4. ASSUME NEW x \in Promise!Engaged' PROVE x \in Promise!Engaged \cup {u, v}
    <3>1. PICK c \in Couples' : x \in {c[1], c[2]}
      OBVIOUS
    <3>2. CASE c \in Couples
      BY <3>1, <3>2
    <3>3. CASE c = <<u, v>>
      BY <3>1, <3>3
    <3> QED BY <2>2, <3>2, <3>3
  <2> QED BY <2>1, <2>2, <2>3, <2>4
<1>4. ASSUME NEW c \in Couples, Promise!Meet(c) \/ Promise!Part(c) PROVE Promise!OneMatchEach'
  BY <1>4 DEF Promise!Meet, Promise!Part
<1>5. CASE UNCHANGED Promise!vars
  BY <1>5 DEF Promise!vars
<1> QED BY <1>1, <1>2, <1>3, <1>4, <1>5 DEF Promise!Next

\* In Pairing a user is in one match at a time, with somebody else, and cannot be
\* found while in it.
LEMMA PairingIsSound == Promise!Spec => []Promise!OneMatchEach
<1>1. Promise!Init => Promise!OneMatchEach
  BY DEF Promise!Init, Promise!OneMatchEach, Promise!Engaged
<1> QED BY <1>1, MatchStep, PTL DEF Promise!Spec

\* Two matches of start_chat never share a user, and nobody who is being matched
\* can be found by a third (what its reservations are for), as long as no key
\* expires under a request at work.
THEOREM MatchesAreExclusive ==
    ASSUME "slow" \notin Events
    PROVE  Spec => []Promise!OneMatchEach
<1>1. Spec => Promise!Spec
  BY ImplementsPairing DEF PromiseKept
<1> QED BY <1>1, PairingIsSound, PTL
=============================================================================
