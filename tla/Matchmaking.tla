---------------------------- MODULE Matchmaking ----------------------------
(***************************************************************************)
(* The matchmaking of anonymous one-to-one chats: the start and cancel     *)
(* endpoints, the reservation protocol on Redis behind them, and the       *)
(* reaper of expired rooms (backend/apps/chat/matchmaking.py, views.py,    *)
(* tasks.py).                                                              *)
(*                                                                         *)
(* A request runs on a web worker, step by step: every Redis command or    *)
(* script and every SQL statement is one action, and the requests of       *)
(* several users, and of one user's several tabs, interleave between them. *)
(* What happens inside an open room is the environment here (TakeSeat,     *)
(* PostMessage, EndRoom): module ChatRoom models it in detail.             *)
(***************************************************************************)
EXTENDS Naturals, Sequences, Functions

CONSTANTS
    Users,          \* accounts of the platform
    NoUser,         \* "no user": an absent key, an unset variable
    Requests,       \* request slots: the tabs and devices that call the API
    Owner,          \* [Requests -> Users]: whose session a slot carries
    Reaper,         \* the celery task reap_expired_chat_rooms
    NoRequest,      \* the value of a lock nobody holds
    MaxRooms,       \* bound: rooms created in a behaviour
    Events          \* which of the events below the environment may produce

(***************************************************************************)
(* cancel  a user gives up a search.                                       *)
(* sockets a participant opens the room it was given.                      *)
(* idle    a room gets older than its idle window.                         *)
(* crash   a worker process dies between two steps of a request.           *)
(* slow    a step takes longer than the TTL of a key the request counts    *)
(*         on: the user lock (5 s), the reservation (15 s), or the         *)
(*         liveness marker of a client that does keep polling (60 s).      *)
(* delete  an administrator deletes an account.                            *)
(* vanish  a browser closes without calling the cancel endpoint.           *)
(***************************************************************************)
EventKinds == {"cancel", "sockets", "idle", "crash", "slow", "delete", "vanish"}

ASSUME ConstantsAssumption ==
    /\ NoUser \notin Users
    /\ NoRequest \notin Requests
    /\ Reaper \notin Requests
    /\ Owner \in [Requests -> Users]
    /\ MaxRooms \in Nat
    /\ Events \subseteq EventKinds

VARIABLES
    queue,      \* Redis LIST waiting_users
    waiting,    \* Redis SET waiting_users_set
    alive,      \* users whose waiting_alive marker exists
    pending,    \* match_pending marker of a user: its claimer, or NoUser
    lock,       \* lock matchmaking:<user>: the slot that holds it
    accounts,   \* rows of the users table
    rooms,      \* rows of private_chat_rooms, in order of creation
    searching,  \* users whose client polls the start endpoint
    given,      \* users whose client was answered with a room, and opens it
    pc,         \* the next step of each request slot and of the reaper
    partner,    \* start_chat's claimed partner
    target,     \* the room a request holds in a local variable, 0 for none
    batch       \* the rooms the reaper's query returned and has yet to visit

redis   == <<queue, waiting, alive, pending, lock>>
clients == <<searching, given>>
vars    == <<redis, accounts, rooms, clients, pc, partner, target, batch>>

Processes == Requests \cup {Reaper}

\* What matchmaking reads of a room: its participants, whether it is ACTIVE,
\* the participants whose seat keys exist, and where it stands in its idle
\* window of IDLE_TIMEOUT_SECONDS: "young" rooms are younger than the window,
\* the last activity of an "overdue" one is older than it, a "renewed" one is
\* old but has had a message since. A "deleted" row is one the deletion of an
\* account cascaded to.
Room == [one: Users, two: Users, status: {"active", "ended", "deleted"},
         window: {"young", "overdue", "renewed"}, seated: SUBSET Users]

Overdue(r) == rooms[r].window = "overdue"

Members(r) == {rooms[r].one, rooms[r].two}

ActiveRooms(u) == {r \in DOMAIN rooms : rooms[r].status = "active" /\ u \in Members(r)}

\* Meta.ordering = ["-created_at"] makes .first() the newest of them.
IsNewest(r, S) == r \in S /\ \A s \in S : s <= r

\* Bug: the partner's rooms are never looked up, the caller's are twice.
SubjectCaller(q) == Owner[q]

\* The user whose rooms start_chat is looking at: the claimed partner, or,
\* before a partner is claimed, the caller.
Subject(q) == IF partner[q] = NoUser THEN Owner[q] ELSE partner[q]

Goto(p, label) == pc' = [pc EXCEPT ![p] = label]

\* Bugs: an unknown status is saved; the save is forgotten.
EndedUnknown(r) == [rooms EXCEPT ![r].status = "closed"]
EndedUnsaved(r) == rooms

\* The saved room.status = ENDED of end_private_chat_room. The rows of the
\* callers were read as ACTIVE, so its own check of the status never fires.
Ended(r) == [rooms EXCEPT ![r].status = "ended"]

Init ==
    /\ queue = <<>>
    /\ waiting = {}
    /\ alive = {}
    /\ pending = [u \in Users |-> NoUser]
    /\ lock = [u \in Users |-> NoRequest]
    /\ accounts = Users
    /\ rooms = <<>>
    /\ searching = {}
    /\ given = {}
    /\ pc = [p \in Processes |-> "idle"]
    /\ partner = [q \in Requests |-> NoUser]
    /\ target = [p \in Processes |-> 0]
    /\ batch = {}

-----------------------------------------------------------------------------
(* start_chat: the lock and the caller's own rooms.                         *)

\* The client polls POST start/ as long as it searches.
StartChat(q) ==
    /\ pc[q] = "idle"
    /\ Owner[q] \in searching \cap accounts
    /\ Goto(q, "lock")
    /\ UNCHANGED <<redis, accounts, rooms, clients, partner, target, batch>>

\* Bug: requests of one user do not exclude each other.
AcquireUnlocked(q) ==
    /\ pc[q] = "lock"
    /\ lock' = [lock EXCEPT ![Owner[q]] = q]
    /\ Goto(q, "find")
    /\ UNCHANGED <<queue, waiting, alive, pending, accounts, rooms, clients,
                   partner, target, batch>>

\* Bug: the caller is matched without a look at the rooms it is in.
AcquireAndClaim(q) ==
    /\ pc[q] = "lock"
    /\ lock[Owner[q]] = NoRequest
    /\ lock' = [lock EXCEPT ![Owner[q]] = q]
    /\ Goto(q, "claim")
    /\ UNCHANGED <<queue, waiting, alive, pending, accounts, rooms, clients,
                   partner, target, batch>>

AcquireLock(q) ==
    /\ pc[q] = "lock"
    /\ lock[Owner[q]] = NoRequest
    /\ lock' = [lock EXCEPT ![Owner[q]] = q]
    /\ Goto(q, "find")
    /\ UNCHANGED <<queue, waiting, alive, pending, accounts, rooms, clients,
                   partner, target, batch>>

\* blocking_timeout elapsed: LockError, answered as "waiting".
LockBusy(q) ==
    /\ pc[q] = "lock"
    /\ lock[Owner[q]] # NoRequest
    /\ Goto(q, "idle")
    /\ UNCHANGED <<redis, accounts, rooms, clients, partner, target, batch>>

\* get_active_chat_room of the caller, or of the partner it has claimed.
FindActiveRoom(q) ==
    /\ pc[q] = "find"
    /\ \/ /\ ActiveRooms(Subject(q)) = {}
          /\ Goto(q, IF partner[q] = NoUser THEN "claim" ELSE "create")
          /\ UNCHANGED target
       \/ \E r \in DOMAIN rooms :
             /\ IsNewest(r, ActiveRooms(Subject(q)))
             /\ target' = [target EXCEPT ![q] = r]
             /\ Goto(q, "deadline")
    /\ UNCHANGED <<redis, accounts, rooms, clients, partner, batch>>

\* release_expired_room, first half: a room inside its idle window is left
\* alone. It is the caller's answer, or a reason to discard the partner.
CheckDeadline(q) ==
    /\ pc[q] = "deadline"
    /\ IF Overdue(target[q])
       THEN Goto(q, "end")
       ELSE Goto(q, IF partner[q] = NoUser THEN "release" ELSE "discard")
    /\ UNCHANGED <<redis, accounts, rooms, clients, partner, target, batch>>

\* release_expired_room, second half: end the room, delete both seat keys.
\* Saving a row that is gone raises, and start_chat answers 500: the lock is
\* released on the way out, a partner's reservation is left to its TTL.
EndExpired(q) ==
    /\ pc[q] = "end"
    /\ target' = [target EXCEPT ![q] = 0]
    /\ \/ /\ rooms[target[q]].status # "deleted"
          /\ rooms' = [Ended(target[q]) EXCEPT ![target[q]].seated = {}]
          /\ Goto(q, "find")
          /\ UNCHANGED partner
       \/ /\ rooms[target[q]].status = "deleted"
          /\ partner' = [partner EXCEPT ![q] = NoUser]
          /\ Goto(q, "release")
          /\ UNCHANGED rooms
    /\ UNCHANGED <<redis, accounts, clients, batch>>

-----------------------------------------------------------------------------
(* start_chat: claiming a partner and creating the room.                    *)

\* LREM key 0 u. The list holds a user at most once (NoDuplicates below), so
\* removing every occurrence is removing the one there is.
Lrem(s, u) ==
    IF u \notin Range(s) THEN s
    ELSE LET i == CHOOSE i \in DOMAIN s : s[i] = u
         IN  [j \in 1 .. Len(s) - 1 |-> s[IF j < i THEN j ELSE j + 1]]

\* The caller was claimed an instant ago: answer "waiting", touch nothing.
ClaimPending(q) ==
    /\ pc[q] = "claim"
    /\ pending[Owner[q]] # NoUser
    /\ Goto(q, "release")
    /\ UNCHANGED <<redis, accounts, rooms, clients, partner, target, batch>>

\* The script leaves the queue, pops stale entries up to the first user who
\* is still alive, and reserves that user for the caller.
ClaimPartner(q) ==
    LET me     == Owner[q]
        others == Lrem(queue, me)
        live   == alive \ {me}
    IN
    /\ pc[q] = "claim"
    /\ pending[me] = NoUser
    /\ \E k \in DOMAIN others :
          /\ others[k] \in live
          /\ \A i \in 1 .. k - 1 : others[i] \notin live
          /\ queue' = SubSeq(others, k + 1, Len(others))
          /\ waiting' = waiting \ ({me} \cup {others[i] : i \in 1 .. k})
          /\ alive' = live \ {others[k]}
          /\ pending' = [pending EXCEPT ![others[k]] = me]
          /\ partner' = [partner EXCEPT ![q] = others[k]]
    /\ Goto(q, "lookup")
    /\ UNCHANGED <<lock, accounts, rooms, clients, target, batch>>

\* Bug: the caller is enqueued by a second command, whoever is queued by then.
JoinBehind(q) ==
    /\ pc[q] = "claim"
    /\ pending[Owner[q]] = NoUser
    /\ queue' = Append(Lrem(queue, Owner[q]), Owner[q])
    /\ waiting' = waiting \cup {Owner[q]}
    /\ alive' = alive \cup {Owner[q]}
    /\ Goto(q, "release")
    /\ UNCHANGED <<pending, lock, accounts, rooms, clients, partner, target, batch>>

\* Nobody to claim: the same script pops every stale entry and enqueues the
\* caller, who is told to wait.
JoinQueue(q) ==
    LET me     == Owner[q]
        others == Lrem(queue, me)
    IN
    /\ pc[q] = "claim"
    /\ pending[me] = NoUser
    /\ Range(others) \cap (alive \ {me}) = {}
    /\ queue' = <<me>>
    /\ waiting' = (waiting \ Range(others)) \cup {me}
    /\ alive' = alive \cup {me}
    /\ Goto(q, "release")
    /\ UNCHANGED <<pending, lock, accounts, rooms, clients, partner, target, batch>>

\* User.objects.filter(id=partner_id).first()
LookUpPartner(q) ==
    /\ pc[q] = "lookup"
    /\ Goto(q, IF partner[q] \in accounts THEN "find" ELSE "discard")
    /\ UNCHANGED <<redis, accounts, rooms, clients, partner, target, batch>>

\* Bug: the reservation of a discarded partner is left to its TTL.
DiscardReserved(q) ==
    /\ pc[q] = "discard"
    /\ partner' = [partner EXCEPT ![q] = NoUser]
    /\ target' = [target EXCEPT ![q] = 0]
    /\ Goto(q, "claim")
    /\ UNCHANGED <<redis, accounts, rooms, clients, batch>>

\* The partner is unknown or already chatting: release the reservation and
\* run the claim script again.
DiscardPartner(q) ==
    /\ pc[q] = "discard"
    /\ pending' = [pending EXCEPT ![partner[q]] = NoUser]
    /\ partner' = [partner EXCEPT ![q] = NoUser]
    /\ target' = [target EXCEPT ![q] = 0]
    /\ Goto(q, "claim")
    /\ UNCHANGED <<queue, waiting, alive, lock, accounts, rooms, clients, batch>>

CanInsert(q) == {Owner[q], partner[q]} \subseteq accounts /\ Len(rooms) < MaxRooms

\* The INSERT. A participant whose account is gone breaks a foreign key (and,
\* to bound the model, the INSERT after the MaxRooms-th fails); the finally
\* clause that follows runs in both cases.
CreateRoom(q) ==
    /\ pc[q] = "create"
    /\ \/ /\ CanInsert(q)
          /\ rooms' = Append(rooms, [one |-> partner[q], two |-> Owner[q],
                                     status |-> "active", window |-> "young",
                                     seated |-> {}])
          /\ target' = [target EXCEPT ![q] = Len(rooms) + 1]
       \/ /\ ~ CanInsert(q)
          /\ UNCHANGED <<rooms, target>>
    /\ Goto(q, "clear")
    /\ UNCHANGED <<redis, accounts, clients, partner, batch>>

ClearPending(q) ==
    /\ pc[q] = "clear"
    /\ pending' = [pending EXCEPT ![partner[q]] = NoUser]
    /\ partner' = [partner EXCEPT ![q] = NoUser]
    /\ Goto(q, "release")
    /\ UNCHANGED <<queue, waiting, alive, lock, accounts, rooms, clients,
                   target, batch>>

\* Leaving the with block. The lock's release script checks the token: a lock
\* that expired under the request raises LockError, which overrides the
\* answer with "waiting". A client that is given a room stops searching; one
\* that stopped before the answer drops it.
ReleaseLock(q) ==
    /\ pc[q] = "release"
    /\ \/ /\ lock[Owner[q]] = q
          /\ lock' = [lock EXCEPT ![Owner[q]] = NoRequest]
          /\ \/ /\ target[q] = 0
                /\ UNCHANGED clients
             \/ /\ target[q] # 0
                /\ searching' = searching \ {Owner[q]}
                /\ given' = given \cup ({Owner[q]} \cap searching)
       \/ /\ lock[Owner[q]] # q
          /\ UNCHANGED <<lock, clients>>
    /\ target' = [target EXCEPT ![q] = 0]
    /\ Goto(q, "idle")
    /\ UNCHANGED <<queue, waiting, alive, pending, accounts, rooms, partner, batch>>

-----------------------------------------------------------------------------
(* CancelChatSearchAPIView.                                                 *)

\* The client stops polling before it calls the endpoint.
CancelSearch(q) ==
    /\ "cancel" \in Events
    /\ pc[q] = "idle"
    /\ Owner[q] \in searching \cap accounts
    /\ searching' = searching \ {Owner[q]}
    /\ Goto(q, "leave")
    /\ UNCHANGED <<redis, accounts, rooms, given, partner, target, batch>>

\* Bug: the liveness marker outlives the entry.
LeaveAlive(q) ==
    /\ pc[q] = "leave"
    /\ queue' = Lrem(queue, Owner[q])
    /\ waiting' = waiting \ {Owner[q]}
    /\ Goto(q, "findUnjoined")
    /\ UNCHANGED <<alive, pending, lock, accounts, rooms, clients, partner,
                   target, batch>>

\* remove_user_from_queue: one MULTI/EXEC.
LeaveQueue(q) ==
    /\ pc[q] = "leave"
    /\ queue' = Lrem(queue, Owner[q])
    /\ waiting' = waiting \ {Owner[q]}
    /\ alive' = alive \ {Owner[q]}
    /\ Goto(q, "findUnjoined")
    /\ UNCHANGED <<pending, lock, accounts, rooms, clients, partner, target, batch>>

\* release_unjoined_room: the caller's active room ...
FindUnjoined(q) ==
    /\ pc[q] = "findUnjoined"
    /\ \/ /\ ActiveRooms(Owner[q]) = {}
          /\ Goto(q, "idle")
          /\ UNCHANGED target
       \/ \E r \in DOMAIN rooms :
             /\ IsNewest(r, ActiveRooms(Owner[q]))
             /\ target' = [target EXCEPT ![q] = r]
             /\ Goto(q, "seat")
    /\ UNCHANGED <<redis, accounts, rooms, clients, partner, batch>>

\* ... is left alone when the caller holds a seat in it ...
CheckSeat(q) ==
    /\ pc[q] = "seat"
    /\ IF Owner[q] \in rooms[target[q]].seated
       THEN Goto(q, "idle") /\ target' = [target EXCEPT ![q] = 0]
       ELSE Goto(q, "endUnjoined") /\ UNCHANGED target
    /\ UNCHANGED <<redis, accounts, rooms, clients, partner, batch>>

\* ... and ended otherwise. A row that is gone makes the save raise.
EndUnjoined(q) ==
    /\ pc[q] = "endUnjoined"
    /\ rooms' = IF rooms[target[q]].status = "deleted" THEN rooms ELSE Ended(target[q])
    /\ target' = [target EXCEPT ![q] = 0]
    /\ Goto(q, "idle")
    /\ UNCHANGED <<redis, accounts, clients, partner, batch>>

-----------------------------------------------------------------------------
(* reap_expired_chat_rooms: the celery task beat schedules every minute.    *)

\* The query (ACTIVE, created before the cutoff), consumed by an iterator:
\* later changes do not show in it.
ReapStart ==
    /\ pc[Reaper] = "idle"
    /\ batch' = {r \in DOMAIN rooms : rooms[r].status = "active" /\ rooms[r].window # "young"}
    /\ batch' # {}
    /\ Goto(Reaper, "next")
    /\ UNCHANGED <<redis, accounts, rooms, clients, partner, target>>

ReapNext ==
    /\ pc[Reaper] = "next"
    /\ \/ /\ batch = {}
          /\ Goto(Reaper, "idle")
          /\ UNCHANGED <<batch, target>>
       \/ \E r \in batch :
             /\ IsNewest(r, batch)
             /\ batch' = batch \ {r}
             /\ target' = [target EXCEPT ![Reaper] = r]
             /\ Goto(Reaper, "deadline")
    /\ UNCHANGED <<redis, accounts, rooms, clients, partner>>

ReapCheck ==
    /\ pc[Reaper] = "deadline"
    /\ Goto(Reaper, IF Overdue(target[Reaper]) THEN "end" ELSE "next")
    /\ UNCHANGED <<redis, accounts, rooms, clients, partner, target, batch>>

\* A deleted row aborts the task; the rooms it had not reached wait for the
\* next beat.
ReapEnd ==
    /\ pc[Reaper] = "end"
    /\ target' = [target EXCEPT ![Reaper] = 0]
    /\ \/ /\ rooms[target[Reaper]].status # "deleted"
          /\ rooms' = [Ended(target[Reaper]) EXCEPT ![target[Reaper]].seated = {}]
          /\ Goto(Reaper, "next")
          /\ UNCHANGED batch
       \/ /\ rooms[target[Reaper]].status = "deleted"
          /\ batch' = {}
          /\ Goto(Reaper, "idle")
          /\ UNCHANGED rooms
    /\ UNCHANGED <<redis, accounts, clients, partner>>

-----------------------------------------------------------------------------
(* The environment: clients, the sockets of open rooms, time, faults.       *)

BeginSearch(u) ==
    /\ u \in accounts \ searching
    /\ searching' = searching \cup {u}
    /\ given' = given \ {u}
    /\ UNCHANGED <<redis, accounts, rooms, pc, partner, target, batch>>

Vanish(u) ==
    /\ "vanish" \in Events
    /\ u \in searching \cup given
    /\ searching' = searching \ {u}
    /\ given' = given \ {u}
    /\ UNCHANGED <<redis, accounts, rooms, pc, partner, target, batch>>

\* ChatConsumer.connect of a participant who was given the room.
TakeSeat(r, u) ==
    /\ "sockets" \in Events
    /\ rooms[r].status = "active"
    /\ u \in given
    /\ IsNewest(r, ActiveRooms(u))
    /\ rooms' = [rooms EXCEPT ![r].seated = @ \cup {u}]
    /\ given' = given \ {u}
    /\ UNCHANGED <<redis, accounts, searching, pc, partner, target, batch>>

\* A message of a seated participant restarts the idle window.
PostMessage(r) ==
    /\ rooms[r].status = "active"
    /\ Overdue(r)
    /\ rooms[r].seated # {}
    /\ rooms' = [rooms EXCEPT ![r].window = "renewed"]
    /\ UNCHANGED <<redis, accounts, clients, pc, partner, target, batch>>

\* IDLE_TIMEOUT_SECONDS pass without a message.
PassDeadline(r) ==
    /\ "idle" \in Events
    /\ rooms[r].status = "active"
    /\ ~ Overdue(r)
    /\ rooms' = [rooms EXCEPT ![r].window = "overdue"]
    /\ UNCHANGED <<redis, accounts, clients, pc, partner, target, batch>>

\* A skip, a closed socket, the watchdog or the end endpoint.
EndRoom(r) ==
    /\ rooms[r].status = "active"
    /\ rooms' = [Ended(r) EXCEPT ![r].seated = {}]
    /\ UNCHANGED <<redis, accounts, clients, pc, partner, target, batch>>

\* Steps in which a request relies on the user's lock, and in which it has
\* claimed a partner.
Locked(q) == pc[q] \in {"find", "deadline", "end", "claim", "lookup", "discard",
                        "create", "clear", "release"}

Claiming(q) == partner[q] # NoUser

AliveExpires(u) ==
    /\ u \in alive
    /\ u \notin searching \/ "slow" \in Events
    /\ alive' = alive \ {u}
    /\ UNCHANGED <<queue, waiting, pending, lock, accounts, rooms, clients, pc,
                   partner, target, batch>>

\* MATCH_PENDING_TTL_SECONDS: the claimer is gone, or slow.
PendingExpires(u) ==
    /\ pending[u] # NoUser
    /\ (\A q \in Requests : partner[q] # u) \/ "slow" \in Events
    /\ pending' = [pending EXCEPT ![u] = NoUser]
    /\ UNCHANGED <<queue, waiting, alive, lock, accounts, rooms, clients, pc,
                   partner, target, batch>>

LockExpires(u) ==
    /\ lock[u] # NoRequest
    /\ ~ Locked(lock[u]) \/ "slow" \in Events
    /\ lock' = [lock EXCEPT ![u] = NoRequest]
    /\ UNCHANGED <<queue, waiting, alive, pending, accounts, rooms, clients, pc,
                   partner, target, batch>>

\* A worker dies: what it wrote to Redis stays, its local variables are gone.
Crash(p) ==
    /\ "crash" \in Events
    /\ pc[p] # "idle"
    /\ Goto(p, "idle")
    /\ partner' = [q \in Requests |-> IF q = p THEN NoUser ELSE partner[q]]
    /\ target' = [target EXCEPT ![p] = 0]
    /\ batch' = IF p = Reaper THEN {} ELSE batch
    /\ UNCHANGED <<redis, accounts, rooms, clients>>

\* admin_delete_user: the delete cascades to the user's rooms, not to Redis.
DeleteAccount(u) ==
    /\ "delete" \in Events
    /\ u \in accounts
    /\ accounts' = accounts \ {u}
    /\ rooms' = [r \in DOMAIN rooms |->
                    IF u \in Members(r) THEN [rooms[r] EXCEPT !.status = "deleted"]
                    ELSE rooms[r]]
    /\ searching' = searching \ {u}
    /\ given' = given \ {u}
    /\ UNCHANGED <<redis, pc, partner, target, batch>>

-----------------------------------------------------------------------------
StartStep(q) ==
    \/ AcquireLock(q) \/ LockBusy(q) \/ FindActiveRoom(q) \/ CheckDeadline(q)
    \/ EndExpired(q) \/ ClaimPending(q) \/ ClaimPartner(q) \/ JoinQueue(q)
    \/ LookUpPartner(q) \/ DiscardPartner(q) \/ CreateRoom(q)
    \/ ClearPending(q) \/ ReleaseLock(q)

CancelStep(q) == LeaveQueue(q) \/ FindUnjoined(q) \/ CheckSeat(q) \/ EndUnjoined(q)

ReapStep == ReapStart \/ ReapNext \/ ReapCheck \/ ReapEnd

Environment ==
    \/ \E u \in Users : \/ BeginSearch(u) \/ Vanish(u) \/ AliveExpires(u)
                        \/ PendingExpires(u) \/ LockExpires(u) \/ DeleteAccount(u)
    \/ \E r \in DOMAIN rooms : \/ \E u \in Users : TakeSeat(r, u)
                               \/ PostMessage(r) \/ PassDeadline(r) \/ EndRoom(r)
    \/ \E p \in Processes : Crash(p)

Next ==
    \/ \E q \in Requests : StartChat(q) \/ StartStep(q) \/ CancelSearch(q) \/ CancelStep(q)
    \/ ReapStep
    \/ Environment

Spec == Init /\ [][Next]_vars

\* Workers and the reaper run their steps, the keys of a dead worker expire, a
\* searching client keeps polling: it re-polls start/ after every "waiting".
Fairness ==
    /\ \A q \in Requests : /\ WF_vars(StartStep(q) \/ CancelStep(q))
                           /\ WF_vars(StartChat(q))
    /\ WF_vars(ReapStep)
    /\ \A u \in Users : WF_vars(PendingExpires(u)) /\ WF_vars(LockExpires(u))

FairSpec == Spec /\ Fairness

-----------------------------------------------------------------------------
(* Properties.                                                              *)

TypeOK ==
    /\ queue \in Seq(Users)
    /\ waiting \subseteq Users
    /\ alive \subseteq Users
    /\ pending \in [Users -> Users \cup {NoUser}]
    /\ lock \in [Users -> Requests \cup {NoRequest}]
    /\ accounts \subseteq Users
    /\ rooms \in Seq(Room)
    /\ searching \subseteq Users
    /\ given \subseteq Users
    /\ pc \in [Processes -> {"idle", "lock", "find", "deadline", "end", "claim",
                             "lookup", "discard", "create", "clear", "release",
                             "leave", "findUnjoined", "seat", "endUnjoined", "next"}]
    /\ partner \in [Requests -> Users \cup {NoUser}]
    /\ target \in [Processes -> {0} \cup DOMAIN rooms]
    /\ batch \subseteq DOMAIN rooms

\* The FIFO list, the membership set and the liveness markers never drift
\* apart, whatever requests, cancels, crashes and expiries interleave: a user
\* is queued at most once, the set mirrors the list, and only queued users
\* carry a marker (_CLAIM_PARTNER_LUA, remove_user_from_queue).
NoDuplicates == \A i, j \in DOMAIN queue : queue[i] = queue[j] => i = j

QueueConsistent ==
    /\ NoDuplicates
    /\ Range(queue) = waiting
    /\ alive \subseteq waiting

\* A user reserved for a room that is being created is not claimable: no third
\* searcher can pop them (the match_pending marker, _CLAIM_PARTNER_LUA).
ReservedNotQueued == \A u \in Users : pending[u] # NoUser => u \notin Range(queue)

Couple(q) == {Owner[q], partner[q]}

\* As long as no step outlives the TTL of a key it relies on, the matches in
\* flight are disjoint couples of distinct users, and neither half of one is
\* claimable: however many searchers and tabs run start_chat, and wherever
\* workers crash (the user lock, the claim script and the reservation).
ClaimsDisjoint ==
    "slow" \notin Events =>
        \A q \in Requests : Claiming(q) =>
            /\ partner[q] # Owner[q]
            /\ Couple(q) \cap Range(queue) = {}
            /\ \A p \in Requests \ {q} :
                  Claiming(p) => Couple(p) \cap Couple(q) = {}

\* A reservation outlives its claimer only when a worker died, a key expired
\* or an account was deleted under the request: no path of start_chat forgets to release it
\* and locks a user out of matchmaking until the TTL (the two discards and the
\* finally clause of start_chat).
ReservationHasClaimer ==
    {"crash", "slow", "delete"} \cap Events = {} =>
        \A u \in Users : pending[u] # NoUser =>
            \E q \in Requests : partner[q] = u /\ Owner[q] = pending[u]

\* The waiter of a new room has no other active room at the instant of the
\* INSERT: the claimed partner cannot be seated twice by the request that
\* claimed them, nor by any other (start_chat's checks of partner_room, with
\* the reservation in between).
WaiterFree ==
    [][ "slow" \notin Events =>
        \A r \in DOMAIN rooms' \ DOMAIN rooms : ActiveRooms(rooms'[r].one) = {} ]_rooms

\* Two users are never both in the queue with nobody claiming: whoever joins
\* the queue has found nobody to claim. A second live entry appears only when
\* the script would have matched instead (matchmaking.py, the livelock that
\* left two simultaneous searchers both queued).
QueueHoldsOneSearcher == Len(queue) <= 1

\* Of two users who both keep searching, one is given a room: start_chat never
\* leaves simultaneous searchers queued side by side, each holding for the
\* other, or both discarding each other, for ever (matchmaking.py:83-87).
SearchersMeet ==
    \A u, v \in Users : u # v =>
        ({u, v} \subseteq searching)
            ~> (~ {u, v} \subseteq searching \/ Len(rooms) = MaxRooms)

\* The user who was claimed while waiting learns of the room by polling, or
\* the room ends (start_chat's "active" answer).
WaiterToldOfRoom ==
    \A r \in 1 .. MaxRooms :
        LET Unaware == r \in DOMAIN rooms /\ rooms[r].status = "active"
                                         /\ rooms[r].one \in searching
        IN  Unaware ~> ~ Unaware

\* A room past its idle deadline does not stay ACTIVE with nobody posting in
\* it: when both browsers are gone and nobody polls, the reaper ends it, whatever
\* late message, poll or deletion of an account reaches for it between its query,
\* its check and its save (reap_expired_chat_rooms; "stayed ACTIVE in the database
\* forever", tasks.py:22).
OrphanReaped ==
    \A r \in 1 .. MaxRooms :
        LET Orphan == r \in DOMAIN rooms /\ rooms[r].status = "active" /\ Overdue(r)
        IN  Orphan ~> ~ Orphan

-----------------------------------------------------------------------------
(* The inductive invariant behind ClaimsDisjoint and WaiterFree.            *)

QueueInv == QueueHoldsOneSearcher /\ Range(queue) = waiting /\ alive \subseteq waiting

\* A request past AcquireLock holds its user's lock.
LockInv == \A q \in Requests : Locked(q) => lock[Owner[q]] = q

\* A claim is backed by a reservation of the partner; its caller is neither
\* queued nor reserved.
ClaimInv ==
    \A q \in Requests : Claiming(q) =>
        /\ pc[q] \in {"lookup", "find", "deadline", "end", "discard", "create", "clear"}
        /\ pending[partner[q]] = Owner[q]
        /\ partner[q] # Owner[q]
        /\ Owner[q] \notin Range(queue)
        /\ pending[Owner[q]] = NoUser

\* Between the partner check and the INSERT the partner gets no room.
FreeInv ==
    \A q \in Requests : pc[q] = "create" => Claiming(q) /\ ActiveRooms(partner[q]) = {}

\* What the code maintains from step to step: the queue and its mirrors always,
\* the claims as long as no key expires under a request that relies on it
\* (_CLAIM_PARTNER_LUA, start_chat).
IInv ==
    /\ QueueInv
    /\ ReservedNotQueued
    /\ "slow" \notin Events => LockInv /\ ClaimInv /\ FreeInv

-----------------------------------------------------------------------------
(* What matchmaking promises: module Pairing.                               *)

\* Claims the request has yet to turn into a room or to give up.
InFlight == {q \in Requests : Claiming(q) /\ pc[q] # "clear"}

Couples == {<<Owner[q], partner[q]>> : q \in InFlight}

\* The claimer is the second participant of the row, the waiter the first.
Met == [r \in DOMAIN rooms |-> <<rooms[r].two, rooms[r].one>>]

Promise == INSTANCE Pairing WITH waiting <- alive, couples <- Couples, met <- Met

\* The claim protocol implements Pairing as long as no key expires under a
\* request that relies on it: a user starts to wait only when nobody can be
\* found, is matched with one other at a time, and every room comes from one
\* match (start_chat, whatever tabs, cancels and crashes interleave).
PromiseKept == Promise!Spec

-----------------------------------------------------------------------------
(* What the comments say of the code, and the code does not keep.           *)

\* matchmaking.py:38-44 and 457-460: the reservation is there so that a user is
\* never in two live rooms.
OneRoomPerUser ==
    \A u \in Users : \A r, s \in ActiveRooms(u) : r = s

\* views.py:79-82: a user who was claimed and cancels does not leave a partner
\* behind in a room nobody joins: the room is released by the cancel.
NoRoomForCancelled ==
    [][ \A r \in DOMAIN rooms' \ DOMAIN rooms :
        \/ rooms'[r].one \in searching
        \/ \E q \in Requests : Owner[q] = rooms'[r].one /\ pc[q] # "idle" ]_rooms

=============================================================================
