--------------------------- MODULE ChatRoomProofs ---------------------------
(***************************************************************************)
(* Theorems about ChatRoom, for any number of participants and sockets.    *)
(***************************************************************************)
EXTENDS ChatRoom, SequenceTheorems, TLAPS

USE RoomAssumption DEF RoomAssumption

-----------------------------------------------------------------------------
(* The type invariant.                                                      *)

Kinds == {"replaced", "message", "skipped", "timeout", "ended"}

\* Sending an event to the group leaves every consumer a list of events.
LEMMA BroadcastTyped ==
    ASSUME inbox \in [Sockets -> Seq(Kinds)], NEW e \in Kinds, Broadcast(e)
    PROVE  inbox' \in [Sockets -> Seq(Kinds)]
<1>1. \A s \in Sockets : Append(inbox[s], e) \in Seq(Kinds)
  BY AppendProperties
<1> QED BY <1>1 DEF Broadcast

\* Every variable keeps its type, whatever the sockets, the watchdogs, the
\* reaper and the end endpoint do.
THEOREM RoomTypeCorrect == Spec => []TypeOK
<1> USE DEF Kinds
<1>1. Init => TypeOK
  <2>1. Init => inbox \in [Sockets -> Seq(Kinds)]
    BY EmptySeq DEF Init
  <2>2. Init => idleKey \in BOOLEAN
    BY DEF Init
  <2> QED BY <2>1, <2>2 DEF Init, TypeOK
<1>2. ASSUME TypeOK, [Next]_vars PROVE TypeOK'
  <2> USE <1>2 DEF TypeOK, Goto, row, redis, layer, tasks
  <2>1. ASSUME NEW s \in Sockets, ClaimSeat(s) PROVE TypeOK'
    <3>1. CASE /\ seat' = [seat EXCEPT ![UserOf[s]] = s]
               /\ pc' = [pc EXCEPT ![s] = "read"]
      BY <2>1, <3>1 DEF ClaimSeat
    <3>2. CASE UNCHANGED seat /\ pc' = [pc EXCEPT ![s] = "takeover"]
      BY <2>1, <3>2 DEF ClaimSeat
    <3> QED BY <2>1, <3>1, <3>2 DEF ClaimSeat
  <2>2. ASSUME NEW s \in Sockets, ConnectStep(s) PROVE TypeOK'
    <3>1. CASE TakeOverSeat(s)
      BY <3>1 DEF TakeOverSeat, Held
    <3>2. CASE NotifyReplaced(s)
      <4>1. \A t \in Sockets : Append(inbox[t], "replaced") \in Seq(Kinds)
        BY AppendProperties
      <4> QED BY <3>2, <4>1 DEF NotifyReplaced
    <3>3. CASE ReadRoom(s)
      BY <3>3 DEF ReadRoom
    <3>4. CASE Refuse(s)
      BY <3>4, EmptySeq DEF Refuse, SeatReleased
    <3>5. CASE JoinGroup(s)
      BY <3>5 DEF JoinGroup
    <3>6. CASE Accept(s)
      BY <3>6 DEF Accept
    <3> QED BY <2>2, <3>1, <3>2, <3>3, <3>4, <3>5, <3>6 DEF ConnectStep
  <2>3. ASSUME NEW s \in Sockets, Deliver(s) PROVE TypeOK'
    <3>1. inbox' \in [Sockets -> Seq(Kinds)]
      <4>1. Tail(inbox[s]) \in Seq(Kinds)
        BY <2>3, HeadTailProperties DEF Deliver
      <4> QED BY <2>3, <4>1 DEF Deliver
    <3> QED BY <2>3, <3>1 DEF Deliver
  <2>4. ASSUME NEW s \in Sockets, ReceiveMessage(s) \/ ReceiveOther(s) \/ ReceiveSkip(s)
        PROVE  TypeOK'
    BY <2>4 DEF ReceiveMessage, ReceiveOther, ReceiveSkip, EnsureActive
  <2>5. ASSUME NEW s \in Sockets, MessageStep(s) PROVE TypeOK'
    <3>1. CASE ValidateMessage(s)
      BY <3>1 DEF ValidateMessage
    <3>2. CASE InsertMessage(s)
      BY <3>2 DEF InsertMessage
    <3>3. CASE BroadcastMessage(s)
      BY <3>3, BroadcastTyped DEF BroadcastMessage
    <3> QED BY <2>5, <3>1, <3>2, <3>3 DEF MessageStep
  <2>6. ASSUME NEW s \in Sockets, SkipStep(s) PROVE TypeOK'
    <3>1. CASE SkipChat(s)
      BY <3>1 DEF SkipChat, EndRow
    <3>2. CASE BroadcastSkip(s)
      BY <3>2, BroadcastTyped DEF BroadcastSkip
    <3> QED BY <2>6, <3>1, <3>2 DEF SkipStep
  <2>7. ASSUME NEW s \in Sockets, DisconnectStep(s) PROVE TypeOK'
    <3>1. CASE Disconnect(s)
      BY <3>1 DEF Disconnect
    <3>2. CASE ReleaseSeat(s)
      BY <3>2 DEF ReleaseSeat, SeatReleased
    <3>3. CASE TearDown(s)
      BY <3>3 DEF TearDown, EndRow
    <3>4. CASE Announce(s)
      BY <3>4, BroadcastTyped DEF Announce
    <3>5. CASE LeaveGroup(s)
      BY <3>5, EmptySeq DEF LeaveGroup
    <3> QED BY <2>7, <3>1, <3>2, <3>3, <3>4, <3>5 DEF DisconnectStep
  <2>8. ASSUME NEW s \in Sockets, WatchdogStep(s) PROVE TypeOK'
    <3>1. CASE WatchdogClaim(s)
      BY <3>1 DEF WatchdogClaim
    <3>2. CASE WatchdogEnd(s)
      BY <3>2 DEF WatchdogEnd, EndRow
    <3>3. CASE WatchdogTell(s)
      BY <3>3, BroadcastTyped DEF WatchdogTell
    <3> QED BY <2>8, <3>1, <3>2, <3>3 DEF WatchdogStep
  <2>9. ASSUME ReaperStep PROVE TypeOK'
    <3>1. CASE ReapCheck
      BY <3>1 DEF ReapCheck
    <3>2. CASE ReapEnd
      BY <3>2 DEF ReapEnd, EndRow
    <3>3. CASE ReapSeats
      BY <3>3 DEF ReapSeats
    <3>4. CASE ReapTell
      BY <3>4, BroadcastTyped DEF ReapTell
    <3> QED BY <2>9, <3>1, <3>2, <3>3, <3>4 DEF ReaperStep
  <2>10. ASSUME EndChatRead \/ ApiStep PROVE TypeOK'
    <3>1. CASE EndChatRead
      BY <3>1 DEF EndChatRead
    <3>2. CASE EndChatWrite
      BY <3>2 DEF EndChatWrite, EndRow
    <3>3. CASE EndChatTell
      BY <3>3, BroadcastTyped DEF EndChatTell
    <3> QED BY <2>10, <3>1, <3>2, <3>3 DEF ApiStep
  <2>11. ASSUME NEW s \in Sockets, ClientCloses(s) \/ CrashConsumer(s) PROVE TypeOK'
    <3>1. CASE ClientCloses(s)
      BY <3>1 DEF ClientCloses
    <3>2. CASE CrashConsumer(s)
      BY <3>2, EmptySeq DEF CrashConsumer
    <3> QED BY <2>11, <3>1, <3>2
  <2>12. CASE CrashReaper
    BY <2>12 DEF CrashReaper
  <2>13. CASE Tick
    <3>1. idleKey' = FALSE
      BY <2>13 DEF Tick
    <3>2. quiet' \in 0 .. IdleTicks
      BY <2>13 DEF Tick
    <3>3. left' \in [Sockets -> 0 .. IdleTicks]
      BY <2>13 DEF Tick
    <3> QED BY <2>13, <3>1, <3>2, <3>3 DEF Tick
  <2>14. CASE IdleKeyExpires
    <3>1. idleKey' \in BOOLEAN
      BY <2>14 DEF IdleKeyExpires
    <3> QED BY <2>14, <3>1 DEF IdleKeyExpires
  <2>15. CASE UNCHANGED vars
    BY <2>15 DEF vars
  <2> QED
    BY <1>2, <2>1, <2>2, <2>3, <2>4, <2>5, <2>6, <2>7, <2>8, <2>9, <2>10, <2>11,
       <2>12, <2>13, <2>14, <2>15
    DEF Next, ConsumerStep
<1> QED BY <1>1, <1>2, PTL DEF Spec

-----------------------------------------------------------------------------
(* Seats.                                                                   *)

\* A socket that gives its seat back, if it has it, is no owner afterwards,
\* and no other seat changes.
LEMMA ReleaseEffect ==
    ASSUME TypeOK, SeatInv, NEW s \in Sockets
    PROVE  /\ SeatReleased(s) \in [Users -> Sockets \cup {NoSocket}]
           /\ \A u \in Users : SeatReleased(s)[u] # s
           /\ \A u \in Users : SeatReleased(s)[u] # seat[u]
                                 => seat[u] = s /\ SeatReleased(s)[u] = NoSocket
BY DEF TypeOK, SeatInv, SeatReleased

\* No step leaves a seat with a socket that is not its user's, has not claimed
\* it, or is past the point where it gives it back.
LEMMA SeatStep ==
    ASSUME TypeOK, SeatInv, [Next]_vars
    PROVE  SeatInv'
<1> USE DEF TypeOK, Goto, row, redis, layer, tasks
<1> DEFINE Past == {"new", "takeover", "teardown", "announce", "leave"}
<1>1. ASSUME NEW s \in Sockets, pc' = pc \/ pc' = [pc EXCEPT ![s] = pc'[s]],
             pc[s] \in Past \/ pc'[s] \notin Past \cup {"closed"},
             UNCHANGED seat
      PROVE  SeatInv'
  BY <1>1 DEF SeatInv
<1>2. ASSUME NEW s \in Sockets, ClaimSeat(s) PROVE SeatInv'
  <2>1. CASE /\ Held(s) = NoSocket /\ seat' = [seat EXCEPT ![UserOf[s]] = s]
             /\ pc' = [pc EXCEPT ![s] = "read"]
    BY <2>1 DEF SeatInv
  <2>2. CASE UNCHANGED seat /\ pc[s] = "new" /\ pc' = [pc EXCEPT ![s] = "takeover"]
    BY <2>2 DEF SeatInv
  <2> QED BY <1>2, <2>1, <2>2 DEF ClaimSeat
<1>3. ASSUME NEW s \in Sockets, TakeOverSeat(s) PROVE SeatInv'
  BY <1>3 DEF TakeOverSeat, SeatInv
<1>4. ASSUME NEW s \in Sockets, Refuse(s) \/ ReleaseSeat(s) PROVE SeatInv'
  <2>1. /\ seat' = SeatReleased(s)
        /\ \A t \in Sockets \ {s} : pc'[t] = pc[t]
    BY <1>4 DEF Refuse, ReleaseSeat
  <2>2. ASSUME NEW u \in Users, seat'[u] # NoSocket
        PROVE  seat'[u] = seat[u] /\ seat[u] \in Sockets \ {s}
    BY <2>1, <2>2, ReleaseEffect
  <2> QED BY <2>1, <2>2 DEF SeatInv
<1>5. ASSUME NEW s \in Sockets,
             \/ NotifyReplaced(s) \/ ReadRoom(s) \/ JoinGroup(s) \/ Accept(s)
             \/ MessageStep(s) \/ SkipStep(s) \/ Disconnect(s) \/ TearDown(s)
             \/ Announce(s) \/ Deliver(s)
      PROVE  SeatInv'
  <2>1. /\ pc' = pc \/ pc' = [pc EXCEPT ![s] = pc'[s]]
        /\ pc[s] \in Past \/ pc'[s] \notin Past \cup {"closed"}
        /\ UNCHANGED seat
    BY <1>5 DEF NotifyReplaced, ReadRoom, JoinGroup, Accept, MessageStep,
         ValidateMessage, InsertMessage, BroadcastMessage, SkipStep, SkipChat,
         BroadcastSkip, Disconnect, TearDown, Announce, Deliver
  <2> QED BY <1>1, <2>1
<1>6. ASSUME NEW s \in Sockets, ReceiveMessage(s) \/ ReceiveOther(s) \/ ReceiveSkip(s)
      PROVE  SeatInv'
  BY <1>6 DEF ReceiveMessage, ReceiveOther, ReceiveSkip, EnsureActive, SeatInv
<1>7. ASSUME NEW s \in Sockets, LeaveGroup(s) PROVE SeatInv'
  BY <1>7 DEF LeaveGroup, SeatInv
<1>8. ASSUME NEW s \in Sockets, CrashConsumer(s) PROVE SeatInv'
  BY <1>8 DEF CrashConsumer, SeatInv
<1>9. ASSUME NEW s \in Sockets, WatchdogStep(s) \/ ClientCloses(s) PROVE SeatInv'
  BY <1>9 DEF WatchdogStep, WatchdogClaim, WatchdogEnd, WatchdogTell, ClientCloses, SeatInv
<1>10. ASSUME ReaperStep \/ CrashReaper PROVE SeatInv'
  BY <1>10 DEF ReaperStep, ReapCheck, ReapEnd, ReapSeats, ReapTell, CrashReaper, SeatInv
<1>11. ASSUME EndChatRead \/ ApiStep \/ Tick \/ IdleKeyExpires PROVE SeatInv'
  BY <1>11 DEF EndChatRead, ApiStep, EndChatWrite, EndChatTell, Tick,
       IdleKeyExpires, SeatInv
<1>12. CASE UNCHANGED vars
  BY <1>12 DEF vars, SeatInv
<1> QED
  BY <1>2, <1>3, <1>4, <1>5, <1>6, <1>7, <1>8, <1>9, <1>10, <1>11, <1>12
  DEF Next, ConsumerStep, ConnectStep, DisconnectStep

\* A replaced socket stays without a seat: the keys it could claim are behind
\* it, and it gives back only a seat that is its own.
LEMMA VictimStep ==
    ASSUME TypeOK, SeatInv, VictimInv, [Next]_vars
    PROVE  VictimInv'
<1> USE DEF TypeOK, Goto, row, redis, layer, tasks, Held
<1>1. ASSUME NEW s \in Sockets, UNCHANGED <<seat, victim>>,
             pc' = pc \/ pc' = [pc EXCEPT ![s] = pc'[s]],
             \/ pc[s] \in {"new", "takeover", "teardown", "announce"}
             \/ pc'[s] \notin {"new", "takeover", "teardown", "announce"}
      PROVE  VictimInv'
  BY <1>1 DEF VictimInv
<1>2. ASSUME NEW s \in Sockets, ClaimSeat(s) PROVE VictimInv'
  <2>1. CASE /\ pc[s] = "new" /\ seat' = [seat EXCEPT ![UserOf[s]] = s]
             /\ pc' = [pc EXCEPT ![s] = "read"] /\ UNCHANGED victim
    BY <2>1 DEF VictimInv
  <2>2. CASE pc[s] = "new" /\ pc' = [pc EXCEPT ![s] = "takeover"] /\ UNCHANGED <<seat, victim>>
    BY <2>2 DEF VictimInv
  <2> QED BY <1>2, <2>1, <2>2 DEF ClaimSeat
<1>3. ASSUME NEW s \in Sockets, TakeOverSeat(s) PROVE VictimInv'
  <2>1. /\ pc[s] = "takeover" /\ victim' = [victim EXCEPT ![s] = Held(s)]
        /\ seat' = [seat EXCEPT ![UserOf[s]] = s]
        /\ pc' = [pc EXCEPT ![s] = "notify"]
    BY <1>3 DEF TakeOverSeat
  <2>2. ASSUME Held(s) \in Sockets
        PROVE  /\ UserOf[Held(s)] = UserOf[s] /\ Held(s) # s
               /\ pc[Held(s)] \notin {"new", "takeover", "teardown", "announce"}
    BY <2>1, <2>2 DEF SeatInv
  <2>3. ASSUME NEW v \in Sockets, v # s, Held(v) # v PROVE seat'[UserOf[v]] # v
    BY <2>1, <2>3
  <2>4. ASSUME NEW v \in Sockets, NEW t \in Sockets, victim'[t] = v
        PROVE  /\ seat'[UserOf[v]] # v
               /\ pc'[v] \notin {"new", "takeover", "teardown", "announce"}
    <3>1. CASE t = s
      BY <2>1, <2>2, <2>4, <3>1
    <3>2. CASE t # s
      BY <2>1, <2>3, <2>4, <3>2 DEF VictimInv
    <3> QED BY <3>1, <3>2
  <2> QED BY <2>4 DEF VictimInv
<1>4. ASSUME NEW s \in Sockets, Refuse(s) PROVE VictimInv'
  <2>1. /\ seat' = SeatReleased(s) /\ UNCHANGED victim
        /\ pc' = [pc EXCEPT ![s] = "closed"]
    BY <1>4 DEF Refuse
  <2> QED BY <2>1, ReleaseEffect DEF VictimInv
<1>5. ASSUME NEW s \in Sockets, ReleaseSeat(s) PROVE VictimInv'
  <2>1. /\ seat' = SeatReleased(s) /\ UNCHANGED victim
        /\ pc' = [pc EXCEPT ![s] = IF Held(s) = s THEN "teardown" ELSE "leave"]
    BY <1>5 DEF ReleaseSeat
  <2> QED BY <2>1, ReleaseEffect DEF VictimInv
<1>6. ASSUME NEW s \in Sockets,
             \/ NotifyReplaced(s) \/ ReadRoom(s) \/ JoinGroup(s) \/ Accept(s)
             \/ MessageStep(s) \/ SkipStep(s) \/ Disconnect(s) \/ TearDown(s)
             \/ Announce(s) \/ LeaveGroup(s) \/ Deliver(s) \/ CrashConsumer(s)
      PROVE  VictimInv'
  <2>1. /\ UNCHANGED <<seat, victim>>
        /\ pc' = pc \/ pc' = [pc EXCEPT ![s] = pc'[s]]
        /\ \/ pc[s] \in {"new", "takeover", "teardown", "announce"}
           \/ pc'[s] \notin {"new", "takeover", "teardown", "announce"}
    BY <1>6 DEF NotifyReplaced, ReadRoom, JoinGroup, Accept, MessageStep,
         ValidateMessage, InsertMessage, BroadcastMessage, SkipStep, SkipChat,
         BroadcastSkip, Disconnect, TearDown, Announce, LeaveGroup, Deliver,
         CrashConsumer
  <2> QED BY <1>1, <2>1
<1>7. ASSUME NEW s \in Sockets, ReceiveMessage(s) \/ ReceiveOther(s) \/ ReceiveSkip(s)
      PROVE  VictimInv'
  BY <1>7 DEF ReceiveMessage, ReceiveOther, ReceiveSkip, EnsureActive, VictimInv
<1>8. ASSUME NEW s \in Sockets, WatchdogStep(s) \/ ClientCloses(s) PROVE VictimInv'
  BY <1>8 DEF WatchdogStep, WatchdogClaim, WatchdogEnd, WatchdogTell, ClientCloses,
       VictimInv
<1>9. ASSUME ReaperStep \/ CrashReaper PROVE VictimInv'
  BY <1>9 DEF ReaperStep, ReapCheck, ReapEnd, ReapSeats, ReapTell, CrashReaper,
       VictimInv
<1>10. ASSUME EndChatRead \/ ApiStep \/ Tick \/ IdleKeyExpires PROVE VictimInv'
  BY <1>10 DEF EndChatRead, ApiStep, EndChatWrite, EndChatTell, Tick,
       IdleKeyExpires, VictimInv
<1>11. CASE UNCHANGED vars
  BY <1>11 DEF vars, VictimInv
<1> QED
  BY <1>2, <1>3, <1>4, <1>5, <1>6, <1>7, <1>8, <1>9, <1>10, <1>11
  DEF Next, ConsumerStep, ConnectStep, DisconnectStep

-----------------------------------------------------------------------------
(* Watchdogs.                                                               *)

\* The key that a watchdog sets before it works is there until it is done: no
\* second one starts.
LEMMA WatchStep ==
    ASSUME TypeOK, WatchInv, [Next]_vars
    PROVE  WatchInv'
<1> USE DEF TypeOK, row, redis, layer, tasks
<1> DEFINE Works(w) == w \in {"end", "tell"}
<1>1. ASSUME UNCHANGED idleKey,
             \A s \in Sockets : Works(watchdog'[s]) => Works(watchdog[s])
      PROVE  WatchInv'
  BY <1>1 DEF WatchInv
<1>2. ASSUME NEW s \in Sockets, WatchdogClaim(s) PROVE WatchInv'
  <2>1. CASE idleKey
    <3>1. watchdog' = [watchdog EXCEPT ![s] = "off"] /\ idleKey' = TRUE
      BY <1>2, <2>1 DEF WatchdogClaim
    <3> QED BY <3>1 DEF WatchInv
  <2>2. CASE ~ idleKey
    <3>1. watchdog' = [watchdog EXCEPT ![s] = "end"] /\ idleKey' = TRUE
      BY <1>2, <2>2 DEF WatchdogClaim
    <3> QED BY <2>2, <3>1 DEF WatchInv
  <2> QED BY <2>1, <2>2
<1>3. ASSUME NEW s \in Sockets,
             \/ WatchdogEnd(s) \/ WatchdogTell(s) \/ Accept(s) \/ Disconnect(s)
             \/ CrashConsumer(s)
      PROVE  WatchInv'
  <2>1. UNCHANGED idleKey
    BY <1>3 DEF WatchdogEnd, WatchdogTell, Accept, Disconnect, CrashConsumer
  <2>2. \A t \in Sockets : Works(watchdog'[t]) => Works(watchdog[t])
    BY <1>3 DEF WatchdogEnd, WatchdogTell, Accept, Disconnect, CrashConsumer
  <2> QED BY <1>1, <2>1, <2>2
<1>4. ASSUME Tick \/ IdleKeyExpires PROVE WatchInv'
  BY <1>4 DEF Tick, IdleKeyExpires, WatchInv
<1>5. ASSUME NEW s \in Sockets,
             \/ ClaimSeat(s) \/ TakeOverSeat(s) \/ NotifyReplaced(s) \/ ReadRoom(s)
             \/ Refuse(s) \/ JoinGroup(s) \/ MessageStep(s) \/ SkipStep(s)
             \/ ReleaseSeat(s) \/ TearDown(s) \/ Announce(s) \/ LeaveGroup(s)
             \/ Deliver(s) \/ ReceiveMessage(s) \/ ReceiveOther(s)
             \/ ReceiveSkip(s) \/ ClientCloses(s)
      PROVE  UNCHANGED <<idleKey, watchdog>>
  BY <1>5 DEF ClaimSeat, TakeOverSeat, NotifyReplaced, ReadRoom, Refuse, JoinGroup,
       MessageStep, ValidateMessage, InsertMessage, BroadcastMessage, SkipStep,
       SkipChat, BroadcastSkip, ReleaseSeat, TearDown, Announce, LeaveGroup,
       Deliver, ReceiveMessage, ReceiveOther, ReceiveSkip, EnsureActive, ClientCloses
<1>6. ASSUME ReaperStep \/ CrashReaper \/ EndChatRead \/ ApiStep
      PROVE  UNCHANGED <<idleKey, watchdog>>
  BY <1>6 DEF ReaperStep, ReapCheck, ReapEnd, ReapSeats, ReapTell, CrashReaper,
       EndChatRead, ApiStep, EndChatWrite, EndChatTell
<1>7. CASE UNCHANGED vars
  BY <1>1, <1>7 DEF vars
<1>8. ASSUME UNCHANGED <<idleKey, watchdog>> PROVE WatchInv'
  BY <1>1, <1>8
<1> QED
  BY <1>2, <1>3, <1>4, <1>5, <1>6, <1>7, <1>8
  DEF Next, ConsumerStep, ConnectStep, DisconnectStep, WatchdogStep

-----------------------------------------------------------------------------
(* Replacement notices.                                                     *)

\* A socket that is closing stays so while its consumer runs: events are added
\* behind those on their way.
LEMMA BroadcastKeepsClosing ==
    ASSUME TypeOK, UNCHANGED hangup, NEW e \in Kinds, Broadcast(e),
           NEW s \in Sockets, Closing(s)
    PROVE  Closing(s)'
<1>1. inbox'[s] = inbox[s]
  BY DEF Broadcast, TypeOK
<1> QED BY <1>1 DEF Closing

\* Taking the first event delivers it, or leaves the others on their way.
LEMMA DeliverKeepsClosing ==
    ASSUME TypeOK, NEW t \in Sockets, Deliver(t), NEW s \in Sockets, Closing(s)
    PROVE  Closing(s)'
<1> USE DEF TypeOK
<1>1. CASE s # t \/ s \in hangup
  BY <1>1 DEF Deliver, Closing
<1>2. CASE s = t /\ s \notin hangup
  <2>1. PICK i \in DOMAIN inbox[s] : inbox[s][i] # "message"
    BY <1>2 DEF Closing
  <2>2. inbox[s] \in Seq(Kinds) /\ inbox[s] # <<>> /\ inbox'[s] = Tail(inbox[s])
    BY <1>2 DEF Deliver, Kinds
  <2>3. CASE Head(inbox[s]) # "message"
    BY <1>2, <2>3 DEF Deliver, Closing
  <2>4. CASE Head(inbox[s]) = "message"
    <3>1. i # 1 /\ i \in 1 .. Len(inbox[s])
      BY <2>1, <2>2, <2>4, LenProperties
    <3>2. i - 1 \in DOMAIN Tail(inbox[s]) /\ Tail(inbox[s])[i - 1] = inbox[s][i]
      BY <2>2, <3>1, HeadTailProperties
    <3> QED BY <2>1, <2>2, <3>2 DEF Closing
  <2> QED BY <2>3, <2>4
<1> QED BY <1>1, <1>2

\* The room is never revived, and the reaper tells and frees the seats of ended
\* rooms only.
LEMMA ReaperStepsInEndedRoom ==
    ASSUME TypeOK, reaper \in {"seats", "tell"} => status = "ended", [Next]_vars
    PROVE  /\ (reaper \in {"seats", "tell"} => status = "ended")'
           /\ status' = "active" => status = "active"
<1> USE DEF TypeOK, row
<1>1. ASSUME UNCHANGED reaper, status' = status \/ \E c : EndRow(c)
      PROVE  /\ (reaper \in {"seats", "tell"} => status = "ended")'
             /\ status' = "active" => status = "active"
  BY <1>1 DEF EndRow
<1>2. ASSUME NEW s \in Sockets,
             \/ ClaimSeat(s) \/ ConnectStep(s) \/ MessageStep(s) \/ SkipStep(s)
             \/ DisconnectStep(s) \/ Deliver(s) \/ WatchdogStep(s)
      PROVE  UNCHANGED reaper /\ (status' = status \/ \E c : EndRow(c))
  BY <1>2 DEF ClaimSeat, ConnectStep, TakeOverSeat, NotifyReplaced, ReadRoom, Refuse,
       JoinGroup, Accept, MessageStep, ValidateMessage, InsertMessage,
       BroadcastMessage, SkipStep, SkipChat, BroadcastSkip, DisconnectStep,
       Disconnect, ReleaseSeat, TearDown, Announce, LeaveGroup, Deliver,
       WatchdogStep, WatchdogClaim, WatchdogEnd, WatchdogTell
<1>3. ASSUME NEW s \in Sockets,
             \/ ReceiveMessage(s) \/ ReceiveOther(s) \/ ReceiveSkip(s)
             \/ ClientCloses(s) \/ CrashConsumer(s)
      PROVE  UNCHANGED <<reaper, status>>
  BY <1>3 DEF ReceiveMessage, ReceiveOther, ReceiveSkip, EnsureActive, ClientCloses,
       CrashConsumer
<1>4. ASSUME EndChatRead \/ ApiStep \/ Tick \/ IdleKeyExpires
      PROVE  UNCHANGED reaper /\ (status' = status \/ \E c : EndRow(c))
  BY <1>4 DEF EndChatRead, ApiStep, EndChatWrite, EndChatTell, Tick, IdleKeyExpires
<1>5. ASSUME ReaperStep \/ CrashReaper
      PROVE  /\ (reaper \in {"seats", "tell"} => status = "ended")'
             /\ status' = "active" => status = "active"
  BY <1>5 DEF ReaperStep, ReapCheck, ReapEnd, ReapSeats, ReapTell, CrashReaper, EndRow
<1>6. CASE UNCHANGED vars
  BY <1>6 DEF vars
<1> QED
  BY <1>1, <1>2, <1>3, <1>4, <1>5, <1>6 DEF Next, ConsumerStep

\* No notice is lost on the way from the takeover to the socket it replaced,
\* and nobody loses the seat of a live room in any other way.
LEMMA NoticeStep ==
    ASSUME TypeOK, SeatInv, NoticeInv, [Next]_vars
    PROVE  NoticeInv'
<1> USE DEF TypeOK, Goto, row, redis, layer, tasks
<1> DEFINE Told(s) == \/ Closing(s)
                      \/ \E t \in Sockets : victim[t] = s /\ pc[t] = "notify"
           Fine(s) == Engaged(s) /\ Held(s) # s => Told(s)
<1>0. /\ (reaper \in {"seats", "tell"} => status = "ended")'
      /\ status' = "active" => status = "active"
  BY ReaperStepsInEndedRoom DEF NoticeInv
<1> SUFFICES ASSUME "crash" \notin Events, status' = "active", NEW v \in Sockets,
                    Engaged(v)', Held(v)' # v
             PROVE  Told(v)'
  BY <1>0 DEF NoticeInv
<1>1. \A s \in Sockets : Fine(s)
  BY <1>0 DEF NoticeInv
<1>2. ASSUME UNCHANGED <<seat, victim>>, Engaged(v),
             \A t \in Sockets : pc[t] = "notify" => pc'[t] = "notify",
             Closing(v) => Closing(v)'
      PROVE  Told(v)'
  BY <1>1, <1>2 DEF Held
<1>3. ASSUME NEW s \in Sockets, ClaimSeat(s) PROVE Told(v)'
  <2>1. /\ pc[s] = "new" /\ UNCHANGED <<victim, inbox, hangup>>
        /\ \A t \in Sockets \ {s} : pc'[t] = pc[t]
    BY <1>3 DEF ClaimSeat
  <2>2. v # s /\ Held(v) # v
    BY <1>3 DEF ClaimSeat, Held, Engaged, Serving
  <2>3. Told(v)
    BY <1>1, <2>1, <2>2 DEF Engaged, Serving
  <2> QED BY <2>1, <2>3 DEF Closing
<1>4. ASSUME NEW s \in Sockets, TakeOverSeat(s) PROVE Told(v)'
  <2>1. /\ pc[s] = "takeover" /\ victim' = [victim EXCEPT ![s] = Held(s)]
        /\ seat' = [seat EXCEPT ![UserOf[s]] = s]
        /\ pc' = [pc EXCEPT ![s] = "notify"] /\ UNCHANGED <<inbox, hangup>>
    BY <1>4 DEF TakeOverSeat
  <2>2. v # s
    BY <2>1 DEF Held
  <2>3. CASE Held(s) = v
    BY <2>1, <2>3
  <2>4. CASE Held(s) # v
    <3>1. Held(v) # v
      BY <2>1, <2>2, <2>4 DEF Held
    <3>2. Told(v)
      BY <1>1, <2>1, <2>2, <3>1 DEF Engaged, Serving
    <3>3. \A t \in Sockets : pc[t] = "notify" => t # s
      BY <2>1
    <3> QED BY <2>1, <3>2, <3>3 DEF Closing
  <2> QED BY <2>3, <2>4
<1>5. ASSUME NEW s \in Sockets, NotifyReplaced(s) PROVE Told(v)'
  <2>1. /\ UNCHANGED <<seat, victim, hangup>>
        /\ pc[s] = "notify" /\ pc' = [pc EXCEPT ![s] = "read"]
        /\ inbox' = [t \in Sockets |->
                        IF t = victim[s] /\ pc[t] # "closed" /\ ~ Closing(t)
                        THEN Append(inbox[t], "replaced") ELSE inbox[t]]
    BY <1>5 DEF NotifyReplaced
  <2>2. Engaged(v) /\ Held(v) # v /\ pc[v] # "closed"
    BY <2>1 DEF Engaged, Serving, Held
  <2>3. CASE Closing(v)
    <3>1. inbox'[v] = inbox[v]
      BY <2>1, <2>3
    <3> QED BY <2>1, <2>3, <3>1 DEF Closing
  <2>4. CASE ~ Closing(v) /\ victim[s] = v
    <3>1. inbox'[v] = Append(inbox[v], "replaced") /\ inbox[v] \in Seq(Kinds)
      BY <2>1, <2>2, <2>4 DEF Kinds
    <3>2. /\ Len(inbox[v]) + 1 \in DOMAIN inbox'[v]
          /\ inbox'[v][Len(inbox[v]) + 1] = "replaced"
      BY <3>1, AppendProperties, LenProperties
    <3> QED BY <3>2 DEF Closing
  <2>5. CASE ~ Closing(v) /\ victim[s] # v
    <3>1. PICK t \in Sockets : victim[t] = v /\ pc[t] = "notify"
      BY <1>1, <2>2, <2>5
    <3> QED BY <2>1, <2>5, <3>1
  <2> QED BY <2>3, <2>4, <2>5
<1>6. ASSUME NEW s \in Sockets, Refuse(s) \/ ReleaseSeat(s) \/ LeaveGroup(s)
      PROVE  Told(v)'
  <2>1. /\ pc[s] \in {"refuse", "release", "leave"}
        /\ pc'[s] \in {"teardown", "leave", "closed"}
        /\ \A t \in Sockets \ {s} : pc'[t] = pc[t] /\ inbox'[t] = inbox[t]
        /\ UNCHANGED <<victim, hangup>>
    BY <1>6 DEF Refuse, ReleaseSeat, LeaveGroup
  <2>2. v # s
    BY <2>1 DEF Engaged, Serving
  <2>3. Held(v) # v
    BY <1>6, <2>2, ReleaseEffect DEF Refuse, ReleaseSeat, LeaveGroup, Held
  <2>4. Told(v)
    BY <1>1, <2>1, <2>2, <2>3 DEF Engaged, Serving
  <2>5. \A t \in Sockets : pc[t] = "notify" => pc'[t] = "notify"
    BY <2>1
  <2>6. inbox'[v] = inbox[v] /\ (Closing(v) => Closing(v)')
    BY <2>1, <2>2 DEF Closing
  <2> QED BY <2>1, <2>4, <2>5, <2>6
<1>7. ASSUME NEW s \in Sockets,
             \/ ReadRoom(s) \/ JoinGroup(s) \/ Accept(s) \/ ValidateMessage(s)
             \/ InsertMessage(s) \/ SkipChat(s) \/ Disconnect(s) \/ TearDown(s)
      PROVE  Told(v)'
  <2>1. /\ UNCHANGED <<seat, victim, inbox, hangup>>
        /\ \A t \in Sockets \ {s} : pc'[t] = pc[t]
        /\ pc[s] # "notify"
        /\ Engaged(s)' => Engaged(s)
    BY <1>7 DEF ReadRoom, JoinGroup, Accept, ValidateMessage, InsertMessage, SkipChat,
         Disconnect, TearDown, Engaged, Serving
  <2>2. Engaged(v)
    BY <2>1 DEF Engaged, Serving
  <2> QED BY <1>2, <2>1, <2>2 DEF Closing
<1>8. ASSUME NEW s \in Sockets, ReceiveMessage(s) \/ ReceiveOther(s) \/ ReceiveSkip(s)
      PROVE  Told(v)'
  <2>1. /\ UNCHANGED <<seat, victim, inbox>> /\ hangup \subseteq hangup'
        /\ \A t \in Sockets \ {s} : pc'[t] = pc[t]
        /\ pc[s] = "ready"
    BY <1>8 DEF ReceiveMessage, ReceiveOther, ReceiveSkip, EnsureActive, CanReceive
  <2>2. Engaged(v)
    BY <2>1 DEF Engaged, Serving
  <2> QED BY <1>2, <2>1, <2>2 DEF Closing
<1>9. ASSUME NEW s \in Sockets, BroadcastMessage(s) \/ BroadcastSkip(s) \/ Announce(s)
      PROVE  Told(v)'
  <2>1. /\ UNCHANGED <<seat, victim, hangup>>
        /\ \A t \in Sockets \ {s} : pc'[t] = pc[t]
        /\ pc[s] # "notify"
        /\ Engaged(s)' => Engaged(s)
    BY <1>9 DEF BroadcastMessage, BroadcastSkip, Announce, Engaged, Serving
  <2>2. \E e \in Kinds : Broadcast(e)
    BY <1>9 DEF BroadcastMessage, BroadcastSkip, Announce, Kinds
  <2>3. Engaged(v) /\ (Closing(v) => Closing(v)')
    BY <2>1, <2>2, BroadcastKeepsClosing DEF Engaged, Serving
  <2> QED BY <1>2, <2>1, <2>3
<1>10. ASSUME NEW s \in Sockets, Deliver(s) PROVE Told(v)'
  <2>1. UNCHANGED <<seat, victim, pc>>
    BY <1>10 DEF Deliver
  <2>2. Engaged(v)
    BY <2>1 DEF Engaged, Serving
  <2> QED BY <1>2, <1>10, <2>1, <2>2, DeliverKeepsClosing
<1>11. ASSUME NEW s \in Sockets,
              WatchdogClaim(s) \/ WatchdogEnd(s) \/ ClientCloses(s)
       PROVE  Told(v)'
  <2>1. UNCHANGED <<seat, victim, pc, inbox>> /\ hangup \subseteq hangup'
    BY <1>11 DEF WatchdogClaim, WatchdogEnd, ClientCloses
  <2> QED BY <1>2, <2>1 DEF Engaged, Serving, Closing
<1>12. ASSUME NEW s \in Sockets, CrashConsumer(s) PROVE Told(v)'
  BY <1>12 DEF CrashConsumer
<1>13. ASSUME ReapTell \/ EndChatTell \/ \E s \in Sockets : WatchdogTell(s)
       PROVE  Told(v)'
  <2>1. UNCHANGED <<seat, victim, pc, hangup>>
    BY <1>13 DEF ReapTell, EndChatTell, WatchdogTell
  <2>2. \E e \in Kinds : Broadcast(e)
    BY <1>13 DEF ReapTell, EndChatTell, WatchdogTell, Kinds
  <2>3. Closing(v) => Closing(v)'
    BY <2>1, <2>2, BroadcastKeepsClosing
  <2> QED BY <1>2, <2>1, <2>3 DEF Engaged, Serving
<1>14. ASSUME ReapSeats PROVE Told(v)'
  BY <1>0, <1>14 DEF ReapSeats, NoticeInv
<1>15. ASSUME \/ ReapCheck \/ ReapEnd \/ CrashReaper \/ EndChatRead \/ EndChatWrite
              \/ Tick \/ IdleKeyExpires \/ UNCHANGED vars
       PROVE  Told(v)'
  <2>1. UNCHANGED <<seat, victim, pc, inbox, hangup>>
    BY <1>15 DEF ReapCheck, ReapEnd, CrashReaper, EndChatRead, EndChatWrite, Tick,
         IdleKeyExpires, vars
  <2> QED BY <1>2, <2>1 DEF Engaged, Serving, Closing
<1> QED
  BY <1>3, <1>4, <1>5, <1>6, <1>7, <1>8, <1>9, <1>10, <1>11, <1>12, <1>13, <1>14, <1>15
  DEF Next, ConsumerStep, ConnectStep, MessageStep, SkipStep, DisconnectStep,
      WatchdogStep, ReaperStep, ApiStep

-----------------------------------------------------------------------------
(* What follows for every room.                                             *)

\* Seats, replacements, watchdogs and notices stay as the code means them to be
\* in every behaviour of the room.
THEOREM RoomInductive == Spec => []IInv
<1>1. Init => IInv
  BY DEF Init, IInv, SeatInv, VictimInv, WatchInv, NoticeInv, Engaged, Serving
<1>2. TypeOK /\ IInv /\ [Next]_vars => IInv'
  BY SeatStep, VictimStep, WatchStep, NoticeStep DEF IInv
<1> QED BY <1>1, <1>2, RoomTypeCorrect, PTL DEF Spec

\* No seat is leaked by connect() and disconnect(), for any number of sockets.
THEOREM SeatsStayLive == Spec => []SeatsLive
<1>1. TypeOK /\ IInv => SeatsLive
  BY DEF IInv, SeatInv, SeatsLive, Running, TypeOK
<1> QED BY <1>1, RoomInductive, RoomTypeCorrect, PTL

\* No replacement notice is lost, for any number of racing sockets.
THEOREM NoticesArrive == Spec => []NoticeNotLost
<1>1. IInv => NoticeNotLost
  BY DEF IInv, NoticeInv, NoticeNotLost, Engaged
<1> QED BY <1>1, RoomInductive, PTL

\* A replaced socket never ends the room, whatever else happens.
THEOREM ReplacedIsHarmless == Spec => []ReplacedLeavesRoomAlone
<1>1. IInv => ReplacedLeavesRoomAlone
  BY DEF IInv, VictimInv, ReplacedLeavesRoomAlone
<1> QED BY <1>1, RoomInductive, PTL

\* One watchdog ends the room, for any number of consumers.
THEOREM WatchdogIsUnique == Spec => []OneWatchdogEnds
<1>1. IInv => OneWatchdogEnds
  BY DEF IInv, WatchInv, OneWatchdogEnds
<1> QED BY <1>1, RoomInductive, PTL
=============================================================================
