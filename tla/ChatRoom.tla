------------------------------ MODULE ChatRoom ------------------------------
(***************************************************************************)
(* One private chat room: the sockets of its two participants, the seat    *)
(* each participant holds in Redis, the idle watchdogs, and everything     *)
(* that ends the room (backend/apps/chat/consumers.py, services.py,        *)
(* views.py, matchmaking.py).                                              *)
(*                                                                         *)
(* A ChatConsumer handles its connect, the frames of its client, the       *)
(* events of the channel layer and its disconnect one at a time; every     *)
(* await inside a handler is a point where other consumers, the watchdog   *)
(* task, the reaper and HTTP requests interleave. The channel layer is     *)
(* Redis pub/sub: an event reaches the sockets that are in the group when  *)
(* it is sent, in the order of sending.                                    *)
(***************************************************************************)
EXTENDS Naturals, Sequences

CONSTANTS
    Users,          \* the two participants
    Sockets,        \* WebSocket connections, each opened at most once
    UserOf,         \* [Sockets -> Users]
    NoSocket,       \* an absent seat key
    IdleTicks,      \* IDLE_TIMEOUT_SECONDS, in ticks of at least a minute
    Events          \* which of the events below may happen

\* post   participants send messages.        skip    they skip the chat.
\* end    EndChatAPIView is called.          hangup  browsers close sockets.
\* crash  a process dies between two steps of what it runs.
\* slow   a handler, an event or a close takes a tick or longer.
\* reap   the reaper, or a participant's search, comes across the room.
EventKinds == {"post", "skip", "end", "hangup", "crash", "slow", "reap"}

ASSUME RoomAssumption ==
    /\ UserOf \in [Sockets -> Users]
    /\ NoSocket \notin Sockets
    /\ IdleTicks \in Nat \ {0}
    /\ Events \subseteq EventKinds

VARIABLES
    status,     \* the row's status: "active" or "ended"
    quiet,      \* ticks since its last message, or its creation
    seat,       \* seat key of each participant: the socket that owns it
    idleKey,    \* whether chat_idle_timeout:<room> exists
    group,      \* sockets in the channel-layer group of the room
    inbox,      \* events on their way to each consumer
    pc,         \* what each consumer does next
    hangup,     \* sockets being closed, by the client or by the server
    cached,     \* status of self.room, the consumer's copy of the row
    victim,     \* old_channel of a takeover
    watchdog,   \* the idle watchdog task of each consumer
    left,       \* ticks until its deadline
    reaper,     \* release_expired_room, run by the beat task or by start_chat
    api         \* a call of the end endpoint

row   == <<status, quiet>>
redis == <<seat, idleKey>>
layer == <<group, inbox>>
tasks == <<watchdog, left>>
vars  == <<row, redis, layer, pc, hangup, cached, victim, tasks, reaper, api>>

Init ==
    /\ status = "active"
    /\ quiet = 0
    /\ seat = [u \in Users |-> NoSocket]
    /\ idleKey = FALSE
    /\ group = {}
    /\ inbox = [s \in Sockets |-> <<>>]
    /\ pc = [s \in Sockets |-> "new"]
    /\ hangup = {}
    /\ cached = [s \in Sockets |-> "active"]
    /\ victim = [s \in Sockets |-> NoSocket]
    /\ watchdog = [s \in Sockets |-> "off"]
    /\ left = [s \in Sockets |-> 0]
    /\ reaper = "idle"
    /\ api = "idle"

Goto(s, label) == pc' = [pc EXCEPT ![s] = label]

\* Every event but a chat_message closes the socket: one that is closing, or
\* has such an event on its way, has no use for another.
Closing(s) == s \in hangup \/ \E i \in DOMAIN inbox[s] : inbox[s][i] # "message"

\* group_send.
Broadcast(event) ==
    inbox' = [s \in Sockets |-> IF s \in group /\ ~ Closing(s)
                                THEN Append(inbox[s], event) ELSE inbox[s]]

\* Bugs: an unknown status is saved; the save is forgotten.
EndRowUnknown(copy) == status' = "closed"
EndRowUnsaved(copy) == UNCHANGED status

\* end_private_chat_room, on a copy of the row with the given status.
EndRow(copy) == status' = IF copy = "active" THEN "ended" ELSE status

Held(s) == seat[UserOf[s]]

-----------------------------------------------------------------------------
(* connect().                                                               *)

\* SET NX of the seat key.
ClaimSeat(s) ==
    /\ pc[s] = "new"
    /\ \/ /\ Held(s) = NoSocket
          /\ seat' = [seat EXCEPT ![UserOf[s]] = s]
          /\ Goto(s, "read")
       \/ /\ Held(s) # NoSocket
          /\ UNCHANGED seat
          /\ Goto(s, "takeover")
    /\ UNCHANGED <<row, idleKey, layer, hangup, cached, victim, tasks, reaper, api>>

\* GET and SET in one script.
TakeOverSeat(s) ==
    /\ pc[s] = "takeover"
    /\ victim' = [victim EXCEPT ![s] = Held(s)]
    /\ seat' = [seat EXCEPT ![UserOf[s]] = s]
    /\ Goto(s, "notify")
    /\ UNCHANGED <<row, idleKey, layer, hangup, cached, tasks, reaper, api>>

\* Bug: the replaced socket is not told.
NotifyNobody(s) ==
    /\ pc[s] = "notify"
    /\ Goto(s, "read")
    /\ UNCHANGED <<row, redis, layer, hangup, cached, victim, tasks, reaper, api>>

\* The replaced socket, if its consumer still runs, is told on its own channel.
NotifyReplaced(s) ==
    /\ pc[s] = "notify"
    /\ inbox' = [t \in Sockets |->
                    IF t = victim[s] /\ pc[t] # "closed" /\ ~ Closing(t)
                    THEN Append(inbox[t], "replaced") ELSE inbox[t]]
    /\ Goto(s, "read")
    /\ UNCHANGED <<row, redis, group, hangup, cached, victim, tasks, reaper, api>>

ReadRoom(s) ==
    /\ pc[s] = "read"
    /\ cached' = [cached EXCEPT ![s] = status]
    /\ Goto(s, IF status = "active" THEN "join" ELSE "refuse")
    /\ UNCHANGED <<row, redis, layer, hangup, victim, tasks, reaper, api>>

\* Bug: the seat is deleted whoever owns it.
SeatDeleted(s) == [seat EXCEPT ![UserOf[s]] = NoSocket]

\* Compare-and-delete.
SeatReleased(s) == [seat EXCEPT ![UserOf[s]] = IF @ = s THEN NoSocket ELSE @]

\* Bug: a refused socket keeps its seat.
RefuseSeated(s) ==
    /\ pc[s] = "refuse"
    /\ inbox' = [inbox EXCEPT ![s] = <<>>]
    /\ Goto(s, "closed")
    /\ UNCHANGED <<row, redis, group, hangup, cached, victim, tasks, reaper, api>>

\* disconnect() does nothing for a refused socket.
Refuse(s) ==
    /\ pc[s] = "refuse"
    /\ seat' = SeatReleased(s)
    /\ inbox' = [inbox EXCEPT ![s] = <<>>]
    /\ Goto(s, "closed")
    /\ UNCHANGED <<row, idleKey, group, hangup, cached, victim, tasks, reaper, api>>

JoinGroup(s) ==
    /\ pc[s] = "join"
    /\ group' = group \cup {s}
    /\ Goto(s, "accept")
    /\ UNCHANGED <<row, redis, inbox, hangup, cached, victim, tasks, reaper, api>>

\* Bug: the watchdog is not started.
AcceptUnwatched(s) ==
    /\ pc[s] = "accept"
    /\ Goto(s, "ready")
    /\ UNCHANGED <<row, redis, layer, hangup, cached, victim, tasks, reaper, api>>

\* accept(), the beacon about a seated partner, and the watchdog's start.
Accept(s) ==
    /\ pc[s] = "accept"
    /\ watchdog' = [watchdog EXCEPT ![s] = "sleep"]
    /\ left' = [left EXCEPT ![s] = IdleTicks]
    /\ Goto(s, "ready")
    /\ UNCHANGED <<row, redis, layer, hangup, cached, victim, reaper, api>>

-----------------------------------------------------------------------------
(* Frames of the client and events of the channel layer.                    *)

\* chat_message resets the idle deadline; connection_replaced, chat_ended,
\* chat_timeout and chat_skipped close the socket.
Deliver(s) ==
    /\ pc[s] = "ready"
    /\ inbox[s] # <<>>
    /\ inbox' = [inbox EXCEPT ![s] = Tail(@)]
    /\ IF Head(inbox[s]) = "message"
       THEN left' = [left EXCEPT ![s] = IdleTicks] /\ UNCHANGED hangup
       ELSE hangup' = hangup \cup {s} /\ UNCHANGED left
    /\ UNCHANGED <<row, redis, group, pc, cached, victim, watchdog, reaper, api>>

CanReceive(s) == pc[s] = "ready" /\ s \notin hangup

\* _ensure_active_room, the first step of every handler: the cached row is
\* replaced by a fresh one, and a socket in an ended room is closed.
EnsureActive(s, label) ==
    /\ CanReceive(s)
    /\ \/ /\ status = "active"
          /\ cached' = [cached EXCEPT ![s] = "active"]
          /\ Goto(s, label)
          /\ UNCHANGED hangup
       \/ /\ status # "active"
          /\ hangup' = hangup \cup {s}
          /\ UNCHANGED <<pc, cached>>
    /\ UNCHANGED <<row, redis, layer, victim, tasks, reaper, api>>

\* A message. Bound: one chat_message event on its way at a time, instead of
\* one per participant and second (MESSAGE_COOLDOWN_SECONDS).
ReceiveMessage(s) ==
    /\ "post" \in Events
    /\ \A t \in Sockets : \A i \in DOMAIN inbox[t] : inbox[t][i] # "message"
    /\ EnsureActive(s, "validate")

\* create_private_message reads the status once more (into the same object) ...
ValidateMessage(s) ==
    /\ pc[s] = "validate"
    /\ cached' = [cached EXCEPT ![s] = status]
    /\ Goto(s, IF status = "active" THEN "insert" ELSE "ready")
    /\ UNCHANGED <<row, redis, layer, hangup, victim, tasks, reaper, api>>

\* ... and inserts the message; no lock keeps the row from being ended here.
InsertMessage(s) ==
    /\ pc[s] = "insert"
    /\ quiet' = 0
    /\ Goto(s, "sent")
    /\ UNCHANGED <<status, redis, layer, hangup, cached, victim, tasks, reaper, api>>

BroadcastMessage(s) ==
    /\ pc[s] = "sent"
    /\ Broadcast("message")
    /\ Goto(s, "ready")
    /\ UNCHANGED <<row, redis, group, hangup, cached, victim, tasks, reaper, api>>

\* Typing, reactions and reveals leave the room as it is, or find it ended.
ReceiveOther(s) == status # "active" /\ EnsureActive(s, "ready")

ReceiveSkip(s) == "skip" \in Events /\ EnsureActive(s, "skip")

SkipChat(s) ==
    /\ pc[s] = "skip"
    /\ EndRow(cached[s])
    /\ cached' = [cached EXCEPT ![s] = "ended"]
    /\ Goto(s, "skipped")
    /\ UNCHANGED <<quiet, redis, layer, hangup, victim, tasks, reaper, api>>

BroadcastSkip(s) ==
    /\ pc[s] = "skipped"
    /\ Broadcast("skipped")
    /\ Goto(s, "ready")
    /\ UNCHANGED <<row, redis, group, hangup, cached, victim, tasks, reaper, api>>

-----------------------------------------------------------------------------
(* disconnect().                                                            *)

\* The watchdog is cancelled. An UPDATE it has handed to a thread may go
\* through all the same.
Disconnect(s) ==
    /\ pc[s] = "ready"
    /\ s \in hangup
    /\ \E w \in IF watchdog[s] = "end" THEN {"off", "thread"} ELSE {"off"} :
          watchdog' = [watchdog EXCEPT ![s] = w]
    /\ Goto(s, "release")
    /\ UNCHANGED <<row, redis, layer, hangup, cached, victim, left, reaper, api>>

\* Bug: the room is torn down by every socket that disconnects.
ReleaseAndEnd(s) ==
    /\ pc[s] = "release"
    /\ seat' = SeatReleased(s)
    /\ Goto(s, "teardown")
    /\ UNCHANGED <<row, idleKey, layer, hangup, cached, victim, tasks, reaper, api>>

ReleaseSeat(s) ==
    /\ pc[s] = "release"
    /\ seat' = SeatReleased(s)
    /\ Goto(s, IF Held(s) = s THEN "teardown" ELSE "leave")
    /\ UNCHANGED <<row, idleKey, layer, hangup, cached, victim, tasks, reaper, api>>

TearDown(s) ==
    /\ pc[s] = "teardown"
    /\ EndRow(cached[s])
    /\ cached' = [cached EXCEPT ![s] = "ended"]
    /\ Goto(s, "announce")
    /\ UNCHANGED <<quiet, redis, layer, hangup, victim, tasks, reaper, api>>

Announce(s) ==
    /\ pc[s] = "announce"
    /\ Broadcast("ended")
    /\ Goto(s, "leave")
    /\ UNCHANGED <<row, redis, group, hangup, cached, victim, tasks, reaper, api>>

LeaveGroup(s) ==
    /\ pc[s] = "leave"
    /\ group' = group \ {s}
    /\ inbox' = [inbox EXCEPT ![s] = <<>>]
    /\ Goto(s, "closed")
    /\ UNCHANGED <<row, redis, hangup, cached, victim, tasks, reaper, api>>

-----------------------------------------------------------------------------
(* The idle watchdog of a consumer.                                         *)

\* Bug: SET without NX.
WatchdogAlwaysClaims(s) ==
    /\ watchdog[s] = "sleep"
    /\ left[s] = 0
    /\ watchdog' = [watchdog EXCEPT ![s] = "end"]
    /\ idleKey' = TRUE
    /\ UNCHANGED <<row, seat, layer, pc, hangup, cached, victim, left, reaper, api>>

\* SET NX of chat_idle_timeout: one watchdog ends the room, the others return.
WatchdogClaim(s) ==
    /\ watchdog[s] = "sleep"
    /\ left[s] = 0
    /\ watchdog' = [watchdog EXCEPT ![s] = IF idleKey THEN "off" ELSE "end"]
    /\ idleKey' = TRUE
    /\ UNCHANGED <<row, seat, layer, pc, hangup, cached, victim, left, reaper, api>>

WatchdogEnd(s) ==
    /\ watchdog[s] \in {"end", "thread"}
    /\ EndRow(cached[s])
    /\ cached' = [cached EXCEPT ![s] = "ended"]
    /\ watchdog' = [watchdog EXCEPT ![s] = IF @ = "end" THEN "tell" ELSE "off"]
    /\ UNCHANGED <<quiet, redis, layer, pc, hangup, victim, left, reaper, api>>

WatchdogTell(s) ==
    /\ watchdog[s] = "tell"
    /\ Broadcast("timeout")
    /\ watchdog' = [watchdog EXCEPT ![s] = "off"]
    /\ UNCHANGED <<row, redis, group, pc, hangup, cached, victim, left, reaper, api>>

-----------------------------------------------------------------------------
(* release_expired_room.                                                    *)

\* Bug: a room somebody has a seat in is spared.
ReapUnseated ==
    /\ "reap" \in Events
    /\ reaper = "idle"
    /\ status = "active"
    /\ quiet = IdleTicks
    /\ \A u \in Users : seat[u] = NoSocket
    /\ reaper' = "end"
    /\ UNCHANGED <<row, redis, layer, pc, hangup, cached, victim, tasks, api>>

ReapCheck ==
    /\ "reap" \in Events
    /\ reaper = "idle"
    /\ status = "active"
    /\ quiet = IdleTicks
    /\ reaper' = "end"
    /\ UNCHANGED <<row, redis, layer, pc, hangup, cached, victim, tasks, api>>

ReapEnd ==
    /\ reaper = "end"
    /\ EndRow("active")
    /\ reaper' = "seats"
    /\ UNCHANGED <<quiet, redis, layer, pc, hangup, cached, victim, tasks, api>>

ReapSeats ==
    /\ reaper = "seats"
    /\ seat' = [u \in Users |-> NoSocket]
    /\ reaper' = "tell"
    /\ UNCHANGED <<row, idleKey, layer, pc, hangup, cached, victim, tasks, api>>

ReapTell ==
    /\ reaper = "tell"
    /\ Broadcast("ended")
    /\ reaper' = "idle"
    /\ UNCHANGED <<row, redis, group, pc, hangup, cached, victim, tasks, api>>

-----------------------------------------------------------------------------
(* EndChatAPIView. Bound: one call.                                         *)

EndChatRead ==
    /\ "end" \in Events
    /\ api = "idle"
    /\ api' = IF status = "active" THEN "end" ELSE "tell"
    /\ UNCHANGED <<row, redis, layer, pc, hangup, cached, victim, tasks, reaper>>

EndChatWrite ==
    /\ api = "end"
    /\ EndRow("active")
    /\ api' = "tell"
    /\ UNCHANGED <<quiet, redis, layer, pc, hangup, cached, victim, tasks, reaper>>

EndChatTell ==
    /\ api = "tell"
    /\ Broadcast("ended")
    /\ api' = "done"
    /\ UNCHANGED <<row, redis, group, pc, hangup, cached, victim, tasks, reaper>>

-----------------------------------------------------------------------------
(* Clients, time, faults.                                                   *)

\* The page is left or reloaded, or the network drops. The consumer learns of
\* it when it is done with what it is doing.
ClientCloses(s) ==
    /\ "hangup" \in Events
    /\ pc[s] \notin {"new", "closed"}
    /\ hangup' = hangup \cup {s}
    /\ UNCHANGED <<row, redis, layer, pc, cached, victim, tasks, reaper, api>>

AtRest(s) == \/ pc[s] \in {"new", "closed"}
             \/ pc[s] = "ready" /\ s \notin hangup /\ inbox[s] = <<>>

\* A tick is longer than the minute the idle key lives, and than the steps of a
\* watchdog at work.
Tick ==
    /\ quiet < IdleTicks \/ \E s \in Sockets : watchdog[s] = "sleep" /\ left[s] > 0
    /\ \A s \in Sockets : watchdog[s] \notin {"end", "tell"}
    /\ "slow" \in Events \/ \A s \in Sockets : AtRest(s)
    /\ quiet' = IF quiet < IdleTicks THEN quiet + 1 ELSE quiet
    /\ left' = [s \in Sockets |-> IF left[s] > 0 THEN left[s] - 1 ELSE 0]
    /\ idleKey' = FALSE
    /\ UNCHANGED <<status, seat, layer, pc, hangup, cached, victim, watchdog,
                   reaper, api>>

IdleKeyExpires ==
    /\ idleKey
    /\ \A s \in Sockets : watchdog[s] \notin {"end", "tell"}
    /\ idleKey' = FALSE
    /\ UNCHANGED <<row, seat, layer, pc, hangup, cached, victim, tasks, reaper, api>>

\* A worker dies without running disconnect(): the seat key stays.
CrashConsumer(s) ==
    /\ "crash" \in Events
    /\ pc[s] \notin {"new", "closed"}
    /\ Goto(s, "closed")
    /\ watchdog' = [watchdog EXCEPT ![s] = "off"]
    /\ group' = group \ {s}
    /\ inbox' = [inbox EXCEPT ![s] = <<>>]
    /\ UNCHANGED <<row, redis, hangup, cached, victim, left, reaper, api>>

CrashReaper ==
    /\ "crash" \in Events
    /\ reaper # "idle"
    /\ reaper' = "idle"
    /\ UNCHANGED <<row, redis, layer, pc, hangup, cached, victim, tasks, api>>

-----------------------------------------------------------------------------
ConnectStep(s) ==
    \/ TakeOverSeat(s) \/ NotifyReplaced(s) \/ ReadRoom(s) \/ Refuse(s)
    \/ JoinGroup(s) \/ Accept(s)

MessageStep(s) == ValidateMessage(s) \/ InsertMessage(s) \/ BroadcastMessage(s)

SkipStep(s) == SkipChat(s) \/ BroadcastSkip(s)

DisconnectStep(s) ==
    \/ Disconnect(s) \/ ReleaseSeat(s) \/ TearDown(s) \/ Announce(s) \/ LeaveGroup(s)

WatchdogStep(s) == WatchdogClaim(s) \/ WatchdogEnd(s) \/ WatchdogTell(s)

ReaperStep == ReapCheck \/ ReapEnd \/ ReapSeats \/ ReapTell

ApiStep == EndChatWrite \/ EndChatTell

ConsumerStep(s) ==
    ConnectStep(s) \/ MessageStep(s) \/ SkipStep(s) \/ DisconnectStep(s)

Next ==
    \/ \E s \in Sockets :
          \/ ClaimSeat(s) \/ ConsumerStep(s) \/ Deliver(s) \/ WatchdogStep(s)
          \/ ReceiveMessage(s) \/ ReceiveOther(s) \/ ReceiveSkip(s)
          \/ ClientCloses(s) \/ CrashConsumer(s)
    \/ ReaperStep \/ CrashReaper
    \/ EndChatRead \/ ApiStep
    \/ Tick \/ IdleKeyExpires

Spec == Init /\ [][Next]_vars

\* Event loops, the beat task and HTTP workers run their steps, and the beat
\* task is not killed in every run of it; time passes. A consumer's dispatch
\* loop takes turns between its client's frames and the channel layer: a client
\* that never stops sending does not keep events from being delivered. Nothing
\* is assumed of the clients.
Fairness ==
    /\ \A s \in Sockets : /\ WF_vars(ConsumerStep(s))
                          /\ SF_vars(Deliver(s))
                          /\ WF_vars(WatchdogStep(s))
    /\ WF_vars(ReaperStep) /\ SF_vars(ReapEnd) /\ WF_vars(ApiStep)
    /\ WF_vars(Tick)

FairSpec == Spec /\ Fairness

-----------------------------------------------------------------------------
(* Properties.                                                              *)

TypeOK ==
    /\ status \in {"active", "ended"}
    /\ quiet \in 0 .. IdleTicks
    /\ seat \in [Users -> Sockets \cup {NoSocket}]
    /\ idleKey \in BOOLEAN
    /\ group \subseteq Sockets
    /\ inbox \in [Sockets -> Seq({"replaced", "message", "skipped", "timeout", "ended"})]
    /\ pc \in [Sockets -> {"new", "takeover", "notify", "read", "refuse", "join",
                           "accept", "ready", "validate", "insert", "sent", "skip",
                           "skipped", "release", "teardown", "announce", "leave",
                           "closed"}]
    /\ hangup \subseteq Sockets
    /\ cached \in [Sockets -> {"active", "ended"}]
    /\ victim \in [Sockets -> Sockets \cup {NoSocket}]
    /\ watchdog \in [Sockets -> {"off", "sleep", "end", "thread", "tell"}]
    /\ left \in [Sockets -> 0 .. IdleTicks]
    /\ reaper \in {"idle", "end", "seats", "tell"}
    /\ api \in {"idle", "end", "tell", "done"}

\* A consumer that may still give its seat back.
Running(s) == pc[s] \notin {"new", "takeover", "teardown", "announce", "leave", "closed"}

\* A consumer whose connection is open.
Serving(s) == pc[s] \in {"ready", "validate", "insert", "sent", "skip", "skipped"}

\* No path through connect() and disconnect() leaks a seat: as long as no
\* process dies, the socket a seat key names is a participant's own and is
\* still running. A leaked seat stays for CONNECTION_TTL_SECONDS (12 hours).
SeatsLive ==
    \A u \in Users : seat[u] # NoSocket =>
        /\ UserOf[seat[u]] = u
        /\ "crash" \notin Events => Running(seat[u])

\* No replacement notice is lost: an open socket that no longer has its seat is
\* closing, about to be closed by an event on its way, or about to be notified
\* by the very socket that took the seat from it. With three sockets racing,
\* each learns a different previous holder (_TAKE_OVER_SEAT_LUA); a lost notice
\* leaves a zombie in the room.
NoticeNotLost ==
    "crash" \notin Events /\ status = "active" =>
        \A s \in Sockets : Serving(s) /\ Held(s) # s =>
            \/ Closing(s)
            \/ \E t \in Sockets : victim[t] = s /\ pc[t] = "notify"

\* However late its disconnect comes, a socket that lost its seat never ends
\* the room its successor is in (the ownership guard of disconnect()).
ReplacedLeavesRoomAlone ==
    \A s, t \in Sockets : victim[t] = s => pc[s] \notin {"teardown", "announce"}

\* At most one watchdog ends the room and broadcasts the timeout, whenever the
\* deadlines of the two consumers pass (the SET NX claim of _idle_watchdog).
OneWatchdogEnds ==
    \A s, t \in Sockets :
        watchdog[s] \in {"end", "tell"} /\ watchdog[t] \in {"end", "tell"} => s = t

\* A participant's sockets all follow the seat: of two that are open, one is
\* closed in the end, in whatever order they connected, took over and were
\* notified (connection_replaced).
OneSocketStays ==
    LET Several == \E s, t \in Sockets :
                      /\ s # t /\ UserOf[s] = UserOf[t]
                      /\ Serving(s) /\ Serving(t)
    IN  Several ~> ~ Several

\* Nobody stays in a dead room: every socket of an ended room is closed, also
\* one that joined the group after the end was announced (the watchdog of those
\* who missed it). For one socket each, processes that do not die and no reaper:
\* TimeoutReachesBoth below is what goes wrong otherwise.
DeadRoomEmpties ==
    (status = "ended" /\ group # {}) ~> (group = {})

\* A room nobody posts in is ended, even when a watchdog dies between its claim
\* and the UPDATE, which makes the other watchdog return: the reaper is left.
IdleRoomEnds ==
    (status = "active" /\ quiet = IdleTicks) ~> (status = "ended" \/ quiet < IdleTicks)

\* The partner of somebody who leaves does not sit in the room alone: if the
\* last socket of a participant is closed by its client, the room is ended.
AbandonedRoomEnds ==
    (\E s \in Sockets : pc[s] = "release" /\ Held(s) = s) ~> (status = "ended")

-----------------------------------------------------------------------------
(* The inductive invariant behind these.                                    *)

\* The owner of a seat has run the claim, and not yet given the seat back.
SeatInv ==
    \A u \in Users : seat[u] # NoSocket =>
        /\ UserOf[seat[u]] = u
        /\ pc[seat[u]] \notin {"new", "takeover", "teardown", "announce", "leave"}
        /\ "crash" \notin Events => pc[seat[u]] # "closed"

\* A socket that was replaced never gets the seat back, and never enters the
\* part of disconnect() that ends the room.
VictimInv ==
    \A s, t \in Sockets : victim[t] = s =>
        /\ Held(s) # s
        /\ pc[s] \notin {"new", "takeover", "teardown", "announce"}

\* The idle key outlives the work of the watchdog that set it.
WatchInv ==
    \A s \in Sockets : watchdog[s] \in {"end", "tell"} =>
        /\ idleKey
        /\ \A t \in Sockets \ {s} : watchdog[t] \notin {"end", "tell"}

\* From its claim until it releases its seat.
Engaged(s) == Serving(s) \/ pc[s] \in {"notify", "read", "join", "accept"}

\* The notice reaches a socket wherever it is in connect() when it is replaced;
\* the reaper deletes seats only in a room it has ended.
NoticeInv ==
    /\ reaper \in {"seats", "tell"} => status = "ended"
    /\ "crash" \notin Events /\ status = "active" =>
          \A s \in Sockets : Engaged(s) /\ Held(s) # s =>
              \/ Closing(s)
              \/ \E t \in Sockets : victim[t] = s /\ pc[t] = "notify"

\* What the steps of connect(), disconnect(), the watchdogs and the reaper
\* maintain together (consumers.py, services.py).
IInv == SeatInv /\ VictimInv /\ WatchInv /\ NoticeInv

-----------------------------------------------------------------------------
(* What the comments say of the code, and the code does not keep.           *)

\* services.py:70-76: an ACTIVE room is marked as ended, once.
EndedOnce ==
    [][ \A s \in Sockets :
        ((pc[s] \in {"skip", "teardown"} /\ pc'[s] # pc[s]) \/
         (watchdog[s] = "end" /\ watchdog'[s] = "tell"))
            => (cached[s] = "active" => status = "active") ]_<<pc, watchdog>>

\* consumers.py:373-375: when a watchdog has ended the room, the group delivers
\* the timeout to both clients.
TimeoutReachesBoth ==
    (\E s \in Sockets : watchdog[s] = "tell") ~> (group = {})

=============================================================================
