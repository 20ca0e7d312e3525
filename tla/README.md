# Formal models of Ekaton

Ekaton is a campus platform: anonymous one-to-one chats, events with a group
chat, an anonymous public-speaking board, complaints, and an administration
dashboard. The backend is Django with Channels (WebSockets), Celery (periodic
tasks), Redis and PostgreSQL; the frontend is a React application. This
directory holds TLA+ modules of its concurrent core, of the protocols its
screens follow, the TLC configurations that check them, and proofs for the TLA+
proof system.

    tlc -config mm_claims.cfg MCMatchmaking      # one run
    tlapm MatchmakingProofs.tla                  # one proof module

`PROJECT.json` lists the runs, which source lines each definition stands for,
the hazards, the mutants that show that a property can fail, and the findings.

## 1. Inventory

Paths are relative to `backend/apps/` unless they start with `frontend`.

| Component | State | Operations | Interacts with | What makes it correct |
|---|---|---|---|---|
| Matchmaking (`chat/matchmaking.py`, `chat/views.py`, `chat/tasks.py`) | Redis: the list `waiting_users`, its mirror set, liveness markers (60 s), `match_pending` reservations (15 s), a lock per user (5 s). Postgres: `private_chat_rooms` | `start_chat`, cancel, `release_expired_room`, the beat task `reap_expired_chat_rooms` | clients poll it; it creates the rooms the consumers open; it reads their seat keys | couples in flight are disjoint; list, set and markers agree; searchers meet; a reservation is always released; orphaned rooms are ended |
| Private chat room (`chat/consumers.py`, `chat/services.py`) | per socket: the cached row, the watchdog task, its deadline; Redis: a seat key per participant, the claim key of the timeout, the channel group; Postgres: the row, its messages | connect (claim, take over, validate, join), frames, disconnect, watchdog, end endpoint, reaper | the channel layer delivers events between consumers; matchmaking reaps | nobody stays in a dead room; a replaced socket does not end its successor's room; one watchdog ends a room; no seat key leaks |
| Identity reveal (`chat/services.py`, `frontend/src/features/chat/ChatRoomPage.tsx`) | `reveal_requests`, `reveal_completed`; per client a phase and what it knows | request, respond, dismiss | frames of the chat room | both clients know each other or neither does; no button spins |
| Arrival handshake (`frontend/src/features/chat/useChatSocket.ts`, `ChatRoomPage.tsx`) | per client: whether the partner was seen, whether a beacon was answered, timers | beacon on open, answer once, grace timer | typing frames of the chat room | two connected clients see each other; no endless answering |
| Private chat screens (`frontend/src/features/chat/ChatRoomPage.tsx`) | the socket's status, the connecting cover, dialogs, the report form, drafts, transcript, unseen count, composer, reactions | every way in and out, send, scroll, type, react, reply | the room's socket, the end endpoint, the search | the room is left once, by the way that was chosen; a draft meets its answer; no screen is a dead end |
| Search client (`frontend/src/features/chat/useMatchmaking.ts`, `home/HomePage.tsx`) | session counter, call in flight, timer, cross-tab timestamp | start, poll, stop, unmount | the start, cancel and end endpoints | a stopped search leaves no entry and no half-filled room; who goes on finds the room |
| Waiting game (`frontend/src/features/home/stackEngine.ts`) | the tower, the animation loop, the restart timer, the best score | tap, resize, theme, frame, destroy | made and destroyed by the search screen | the loop parks only on a still, painted scene; nothing runs after destroy |
| Frontend session (`frontend/src/lib/api/client.ts`, `lib/storage.ts`, `stores/auth.store.ts`) | the token pair in storage shared by tabs, one renewal in flight per tab, the store of each tab, sockets | boot, sign in and out, change of the password, renewal, reconnects | every request and socket; `accounts/views.py` | a rotated refresh token is neither used twice nor lost; no tab and no call waits for ever |
| Account forms and photo (`frontend/src/features/auth`, `frontend/src/features/profile`, `lib/images.ts`) | the step of each dialog, its calls, a file and its preview URL | check, sign in, reset link, set a password, change it, log out; pick, prepare, upload, remove | the account endpoints, the session | one reset mail at a time; the photo shown is the one stored, once its answers are heard; no preview leaks |
| Event page (`frontend/src/features/events/EventDetailPage.tsx`, `event-shared.tsx`) | two cached queries, join, leave, edit and cancel calls, dialogs | visit, join, edit, cancel, redirect into the chat | event endpoints; the chat page shares a query | membership and details shown are those of the server; the host is not sent past the controls |
| Event chat page (`frontend/src/features/events/EventChatPage.tsx`, `useEventSocket.ts`) | pages of REST, live messages, drafts, presence, socket and retry timer | load, send, hear, reconnect, leave, resume | event sockets, REST | nothing said is missing after an outage; no draft outlives its answer |
| Event lifecycle (`events/services.py`, `events/tasks.py`) | event rows, participants, the anonymous-name counter | create, update, cancel, join, leave, expire | sockets are closed after cancel, leave, expiry | status moves only forward; identities are unique while the pool lasts |
| Event presence and event sockets (`events/consumers.py`, `presence/services.py`) | Redis sets of connections per user; groups of the event and of each member | connect, history, messages, typing, leave, close | event lifecycle | somebody who left receives nothing; arrivals and departures are announced once |
| Public speaking (`public_speaking/services.py`, `consumers.py`) | discussion, participants, messages, votes | join, post, vote, close | sockets in the group | one identity and one response per account; counts sent equal rows |
| Public speaking page (`frontend/src/features/public-speaking`) | verdict, wall, composer, optimistic votes with timeouts, a queue of updates, socket | join, post, vote, reconnect | the consumer and the state endpoint | who has posted is offered no composer; hearts at rest are the server's votes |
| Administration (`administration/services.py`) | users, reports, events | create, edit, suspend, delete, review, cancel | the cascade of a deletion reaches the rooms of a chat | no dangling state |
| Staff portal (`frontend/src/features/admin`) | filtered pages in a query cache, dialogs, optimistic deletions | list, page, refocus, create, edit, suspend, delete, set a status, cancel | the administration endpoints | with nothing in the air the list shows what the server holds; an owner loses nothing to a saved form but the fields that were changed in it |
| Session of the portal (`frontend/src/features/admin/api.ts`) | its own token pair | sign in, renew, sign out | every request of the portal | as the session above |
| Platform presence (`presence/services.py`, `presence/consumers.py`, `frontend/src/features/home/usePlatformPresence.ts`) | Redis: sorted sets of leases, debounce key, last count sent | connect, keepalive, disconnect, broadcast, periodic correction | every client | clients converge to the number of open leases |
| Accounts (`accounts/services.py`) | set-up and reset tokens, refresh-token blacklist | generate, validate, use, log out | mail | a link works once; a new link invalidates the old ones |
| Complaints (`complaints/services.py`, `frontend/src/features/complaints`) | complaints, comments, votes | create, edit, delete, comment, vote | none | edits only by the owner within five minutes |
| Reports and evidence, middleware, moderation, users, notifications, core, configuration, other pages | none that outlives a call, or single rows | | | |

What is hard here: requests of several users and of several tabs of one user
interleave between Redis commands and SQL statements that only scripts and row
locks make atomic; consumers read a row, await, and act on the copy; processes
die without their clean-up; keys expire under a slow holder; notifications go
only to sockets that are already in the group; one side of a match learns of it
only by polling. In the browser every screen guesses the server's state from
answers and frames that come late, in another order, or not at all, while the
user opens and closes dialogs, leaves, and comes back; several tabs share one
storage. `PROJECT.json` lists these hazards line by line.

## 2. Modules

| Module | Contents |
|---|---|
| `Matchmaking.tla` | the start and cancel endpoints, the claim script, the reaper, key expiry, crashes |
| `MCMatchmaking.tla` | its instances for TLC |
| `MatchmakingProofs.tla` | theorems about it, and the proof that it implements `Pairing` |
| `Pairing.tla` | abstractly: users wait, are paired, and meet in a room or part |
| `ChatRoom.tla` | one room: connect, takeover, frames, disconnect, watchdogs, the ways a room ends |
| `MCChatRoom.tla` | its instances for TLC |
| `ChatRoomProofs.tla` | theorems about it |
| `Session.tla`, `MCSession.tla` | the tokens of one browser: storage, renewal, tabs, sockets; its instance |
| `SessionProofs.tla` | theorems about it |
| `SearchClient.tla`, `SearchClientProofs.tla` | the search of one tab; theorems about it |
| `StackGame.tla`, `StackGameProofs.tla` | the game of the search screen; theorems about it |
| `RoomExit.tla` | every way into a private room and out of it |
| `RoomPair.tla`, `RoomPairProofs.tla` | the two clients of a room: handshake and reveal; theorems about it |
| `RoomTimeline.tla` | drafts, echoes, refusals, and the view of the transcript |
| `RoomTalk.tla` | typing, reactions, replies |
| `RoomClient.tla` | the six modules above, one per behaviour |
| `RoomClientProofs.tla` | theorems about `RoomExit`, `RoomTimeline` and `RoomTalk`, and that those about the other three hold there |
| `AuthForms.tla`, `PhotoUpload.tla` | the forms of an account; its photo |
| `EventPage.tla`, `EventRoomClient.tla` | the page of an event; its chat page |
| `Speaking.tla` | the page of the public discussion |
| `AdminUsers.tla`, `AdminReports.tla`, `AdminEvents.tla` | three lists of the portal |
| `PageClient.tla`, `MCPages.tla` | these eight modules, one per behaviour; its instance |
| `PageClientProofs.tla` | theorems about the eight |

`Matchmaking`, `ChatRoom`, `Session` and `RoomExit` have a constant `Events`, the
faults and environment events a run admits. Guards of faults test it (`"crash"
\in Events`), and a property that depends on their absence says so in its own
text (`"slow" \notin Events => ...`), so that theorems hold for every value of
the constant.

### Matchmaking

An element of `Requests` is a tab or device of a user (`Owner`) that has at
most one call in progress; several slots of one user are several tabs. `pc`
gives the next step of each slot and of the reaper; `partner` and `target` are
the local variables that survive a step. One action stands for one Redis
command or script or one SQL statement; Python between two of them is part of
the next.

| Action | Code |
|---|---|
| `StartChat`, `AcquireLock`, `LockBusy`, `ReleaseLock` | the call and the `with lock` of `start_chat`; a lock that expired under its holder turns the answer into "waiting" |
| `FindActiveRoom`, `CheckDeadline`, `EndExpired` | the two loops over `get_active_chat_room` and `release_expired_room`, for the caller and, once a partner is claimed, for the partner (`Subject`) |
| `ClaimPending`, `ClaimPartner`, `JoinQueue` | the three outcomes of `_CLAIM_PARTNER_LUA`, each one atomic |
| `LookUpPartner`, `DiscardPartner`, `CreateRoom`, `ClearPending` | the rest of the claim loop, the INSERT, the `finally` |
| `CancelSearch`, `LeaveQueue`, `FindUnjoined`, `CheckSeat`, `EndUnjoined` | the cancel endpoint: `remove_user_from_queue`, `release_unjoined_room` |
| `ReapStart`, `ReapNext`, `ReapCheck`, `ReapEnd` | the beat task; a row deleted under it aborts the batch |
| `AliveExpires`, `PendingExpires`, `LockExpires` | the three TTLs |
| `Crash`, `DeleteAccount` | a worker dies; an administrator deletes an account and the rooms go with it |
| `BeginSearch`, `Vanish`, `TakeSeat`, `PostMessage`, `PassDeadline`, `EndRoom` | the clients and the room, as matchmaking sees them |

The row of a room keeps what matchmaking reads of it: the participants, the
status, who has a seat key, and whether it is younger than its idle window,
overdue, or renewed by a message. `EndExpired` and `ReapEnd` join the UPDATE and
the DEL of the seat keys, which no step of matchmaking tells apart; `ChatRoom`
separates them.

### Pairing

What matchmaking is for, without locks, scripts, reservations and rows: users
wait, are paired, and a pair meets in a room or parts. `Promise` in
`Matchmaking` maps the detailed state to it: the users that wait are those with
a liveness marker, the couples are the claims of requests that have neither
created a room nor given up (`InFlight`), and those that met are the rows in
order of creation. Everything a request does besides is invisible in `Pairing`.

### ChatRoom

`pc[s]` is what the consumer of socket `s` does next. A consumer handles its
connect, the frames of its client, channel-layer events (`inbox`) and its
disconnect one after the other, and every `await` is a step. The watchdog is a
task of its own (`watchdog`, `left`). `cached[s]` is the status in `self.room`,
the copy that `disconnect()` and the watchdog give to `end_private_chat_room`;
`_ensure_active_room` replaces it. `group_send` reaches the sockets that are in
the group when it is sent. An event that closes a socket is dropped when the
socket is closing already: it could only close it again.

| Action | Code |
|---|---|
| `ClaimSeat`, `TakeOverSeat`, `NotifyReplaced` | SET NX of the seat, the takeover script, `connection_replaced` |
| `ReadRoom`, `Refuse`, `JoinGroup`, `Accept` | the rest of `connect()` |
| `Deliver` | `chat_message` (resets the deadline) and the closing events |
| `ReceiveMessage`, `ValidateMessage`, `InsertMessage`, `BroadcastMessage` | `handle_chat_message` and `create_private_message` |
| `ReceiveSkip`, `SkipChat`, `BroadcastSkip`, `ReceiveOther` | `handle_skip_chat`; the other frames, of which only `_ensure_active_room` matters here |
| `Disconnect`, `ReleaseSeat`, `TearDown`, `Announce`, `LeaveGroup` | `disconnect()` |
| `WatchdogClaim`, `WatchdogEnd`, `WatchdogTell` | `_idle_watchdog` |
| `ReapCheck`, `ReapEnd`, `ReapSeats`, `ReapTell` | `release_expired_room`, by the beat task or by a participant's search |
| `EndChatRead`, `EndChatWrite`, `EndChatTell` | `EndChatAPIView` |
| `Tick`, `IdleKeyExpires` | time |
| `CrashConsumer`, `CrashReaper`, `ClientCloses` | faults and the client |

A cancelled watchdog does not stop an UPDATE it has handed to a worker thread:
`Disconnect` leaves the watchdog "off" or in "thread", from where the UPDATE
still takes place but nothing is broadcast.

Time is counted in ticks of at least a minute, with `IDLE_TIMEOUT_SECONDS` worth
`IdleTicks` of them. Without "slow" a tick passes only when no consumer is in
the middle of a handler; with it, any number of ticks may pass between two
steps. Even then a watchdog that won the claim is done before the 60 s of the
claim key are over: a slower one would let a second one in.

### What the two leave to each other

`Matchmaking` has several users and rooms but sees of an open room its seats and
its age; `ChatRoom` has one room, all of whose internals are there, and sees of
matchmaking that it may reap. Of a room `Matchmaking` allows what `ChatRoom`
does and more: a room may end, be renewed or get a seat at any time.

The clients see of both what they can see: `SearchClient` has an entry of the
queue, a room and a seat; `RoomExit` has a room that others end; `RoomPair` has
the two handlers of a reveal and the group of the room.

### Screens

In the modules of the frontend an action is one task of the event loop of a tab:
what runs between two awaits, with the renders and effects it causes at once.
Calls in the air are records or slots with a state (sent, served, answered), so
that what the server does and when its answer lands are two steps; a frame is an
element of a FIFO queue. Where a consumer answers directly but broadcasts through
the channel layer, the two are different queues (`wire`, `layer`), which is how a
refusal overtakes an echo. Texts, names, counts and layout are left out.

| Module | State and actions, and the code they stand for |
|---|---|
| `Session` | `access`, `refresh`: localStorage as all tabs see it; `renewal[t]`: `refreshPromise` and the bare POST behind it; `call[q]`: a request through the response interceptor of `client.ts` and its one retry; `phase`, `auth`: `auth.store.ts`; `wire`: the sockets of the presence and speaking hooks with their back-off. `Load`, `MakeCall`, `CallStep`, `RenewalStep`, `WireStep`, `LogoutAlone`; `Age`, `Expire`, `LoseCall`, `LoseRenewal`, `DropWire` are the world. The server rotates and blacklists in one step (`accounts/views.py`, `ROTATE_REFRESH_TOKENS`). |
| `SearchClient` | `session`, `active`, `inFlight`, `pending`: the refs of `useMatchmaking.ts`; a call carries whether it may give up on an error (`first`), which a retry after a 429 may not; `again`, `leaves`, `ends`: the calls of `releaseQueueSlot` and of the hand-back of a stale match. `Start`, `Fire`, `Settle` (every branch of the answer), `Stop`; `ServeStart`, `ServeLeave`, `ServeEnd`, `PartnerClaims` are what `Matchmaking` does to this user. |
| `StackGame` | `looping`, `redraw`, `painted`: the frame loop of `stackEngine.ts` and the canvas; `blocks`, `current`: the tower. `Act` (`Start`, `Miss`, `Land`), `Restart`, `Measure`, `RefreshTheme`, `Tick`, `Destroy`, `Construct`. |
| `RoomExit` | `status`, `endKind`: `useChatSocket`; the flags, cover, countdown, dialogs, report form and end call of `ChatRoomPage.tsx`. `Deliver` is the handler of a frame with the effect that decides where the user goes. `Stay` and the close of the dialog are there whenever the dialog is, also over the end call and in a room that has ended. |
| `RoomPair` | `up`, `down`: frames to the server and to each client; `phase`, `known`, `clicking`: the reveal of each page; `pending`, `completed`: the rows. |
| `RoomTimeline` | `drafts`, `messages`, `tail`, `near`, `unseen`; `Serve` refuses or echoes, `Relay` is the channel layer, `Receive` and `HandleServerError` the page. |
| `RoomTalk` | the composer's debounce, the held press, the picker, and the partner's copy of reactions and indicator. |
| `AuthForms` | the three steps of `AuthModal.tsx` with the calls that outlive it, the form of an emailed link, the change of the password, the log-out. |
| `PhotoUpload` | picker, check, re-encoding, preview URL, upload, removal and reload. `visit`: leaving the page and coming back, while the calls of the earlier visit go on (the store of the account outlives the page) and a file being prepared gets an object URL nobody revokes (`orphans`). An answer may be lost after the server has stored the photo, and a call that failed here may be served later (`ServeLate`). |
| `EventRoomClient` | `rest`, `live`, `reconciled`: the three sources of the transcript; `pending`, `lost`: drafts; `log`: what the server has saved; `Resume`: the tab that comes back; `Left`: the answer to a leave, which may be lost though the server has applied it: the page stays, and is told so by its socket. |
| `EventPage` | `data`, `probe`: the cached queries of the details and of the messages, with the fetches in the air and the invalidations; `calls`: join, leave, edit, cancel; `Redirect`: the effect that sends a member to the chat. |
| `Speaking` | verdict, one response, hearts painted before their answer with `VoteTimeout`, the `queue` that is painted in one `Flush`, loader and dialog. Each of its reads may fail: the discussion after its tries (`Discussion`, asked again by `Reconnect`), the join (`JoinFails`), the wall (`HistoryFails`), which is not asked for again. |
| `AdminUsers`, `AdminReports`, `AdminEvents` | the cache of `useQuery` by key, a fetch of its own for each key, mutations with their optimistic change, rollback and invalidation, and the dialogs. `AdminReports` has one list for each filter and the rows that `keepPreviousData` shows meanwhile; `AdminEvents` has the form (venue and kind of chat) with its dirty fields, and the owner who edits the same event (`OwnerSaves`). |

A query of the portal or of an event is what `useQuery` does with one key: data
that stays while it is fetched again, a fetch that is joined and not repeated
while it is in the air, and an invalidation that cancels and refetches when a
page shows it and there is data, joins the fetch when there is none yet, and marks it
stale when no page shows it.

`RoomClient` and `PageClient` compose the screens: `focus` chooses the one a
behaviour is about and the others keep their initial values, because no two of
them are mounted together or share state in the code (what they share,
the session, is `Session`). A property of a composition is the conjunction of
what its screens promise under one heading; the parts are defined, with
their comments, at the end of each module.

## 3. Runs

| Run | Properties | What it shows |
|---|---|---|
| `mm_claims` | `TypeOK`, `QueueConsistent`, `ReservationHasClaimer`, `WaiterFree` | Three users polling and cancelling, up to two rooms: the queue and its mirrors agree, at most one searcher is queued, every reservation has a claimer at work, and a new room is never given to a waiter who is in another one. |
| `mm_tabs` | `ClaimsDisjoint`, `PromiseKept` | Two tabs of one user against another user, workers that die between any two steps, sockets, messages and the reaper: claims in flight stay disjoint and unclaimable, and every step is a step of Pairing or changes nothing of it. |
| `mm_live` | `SearchersMeet`, `WaiterToldOfRoom`, `OrphanReaped` | Two users who poll, sit down in their room and post, browsers that vanish, idle deadlines and account deletions, and one room in all: two users who keep searching are matched, a claimed waiter learns of its room, and a room past its deadline that nobody posts in does not stay ACTIVE, whoever reaches for it beside the reaper. |
| `cr_safe` | `TypeOK`, `SeatsLive`, `NoticeNotLost`, `ReplacedLeavesRoomAlone`, `OneWatchdogEnds` | Three sockets of one participant race for the seat, are refused, replaced and closed in every order, while the wire hangs up, handlers are slow and the reaper looks at the room: every replaced socket is notified, no path leaks a seat key, a replaced socket leaves the room alone, and one watchdog at a time ends it. |
| `cr_live_ends` | `DeadRoomEmpties`, `AbandonedRoomEnds` | Skips, the end endpoint and closed pages: a room a participant left is ended, and no socket stays in an ended room, even one that joined after the announcement. |
| `cr_live_tabs` | `OneSocketStays`, `IdleRoomEnds` | Two sockets of one participant, messages, and processes that may die: one of two open sockets is closed in the end, and a room nobody posts in is ended although a consumer may die between the claim of the idle key and the UPDATE. |
| `se_session` | `TypeOK`, `NotStranded`, `SessionLasts`, `SessionSettles`, `SpeakerGetsThrough` | Two tabs of one browser, with a call each and a socket each, sign in, sign out, change the password and reload while tokens age and answers are lost: the session is renewed once for everybody who needs it, every call and every tab comes to rest, and the socket of the talk gets through again. |
| `fe_rooms` | `TypeOK`, `NoGhost`, `GameSafe`, `RevealAgrees`, `RoomSafe`, `MatchFound`, `GameComesBack`, `LeavesWell`, `ComesOut`, `RoomSettles` | A private chat from the search to the way out, one screen per behaviour, each beside an environment that does what the server does: the search and the game it is waited with, the arrival handshake and the reveal, the transcript and its drafts, the composer, and every way out of the room. |
| `fe_pages` | `TypeOK`, `SpeakingSafe`, `AccountSafe`, `EventSafe`, `DeskSafe`, `PagesSettle` | The other pages of the app, one per behaviour: the forms and the photo of the account, the chat of an event and the page before it, the public discussion, and the lists of users, reports and events of the portal, each beside an environment that does what the server does and may lose an answer. |

### Bounds, and why they are enough

* Three users with one tab each show every claim against a third party: the
  claimer, the claimed, and the searcher who must not get the claimed one. Two
  tabs of one user against another user show what the lock is for. Two rooms
  let a discarded room and a new one exist together.
* `MaxRooms` bounds the rooms of a behaviour. The INSERT after the last fails
  like one that breaks a foreign key, so no path is cut off, and the liveness
  properties count the bound as an excuse only where they name it.
* Three sockets of one participant are the first case in which two takeovers
  overlap; two and one of the partner show each side's ends against the other.
  Later sockets repeat these.
* `IdleTicks` is 1: deadlines of different sockets still differ, since a
  deadline starts when its socket is accepted or receives a message, and with
  "slow" ticks pass between any two steps.
* `ReceiveMessage` lets one `chat_message` event travel at a time (the code
  allows one per second and participant), and `EndChatRead` one call.
* Two tabs with a call each, two token pairs and three inputs (`MaxPair` 2,
  `MaxInputs` 3) contain every crossing of two renewals, a sign-in and a
  sign-out; a third tab could only be a second witness of the same storage.
* Two calls of a search and two sessions are the first case in which an answer
  belongs to an earlier search; one failure reaches every retry branch.
* Two drafts and a message of the partner let a refusal overtake an echo and be
  overtaken; two clicks of each client let reveals cross in both directions. One message
  with two reactions lets the picks of a message follow each other on the wire; the
  reactions to another are independent of them.
* Two accounts give the portal two pages of one row, so that a deletion empties
  a page; two mutations and one turn of the page cross a fetch. One report and
  one event suffice where a row is independent of the others.
* One outage, one lost answer and two messages reach every path of the event
  chat; three actions of the user with one fault and one change by others those
  of its page. The photo has files below the size that is uploaded as it is,
  between the two, and above the limit; five picks, calls and visits together let two
  answers of different visits, or of a change and a reload, overtake each other. Two
  filters of the reports are the first case of a fetch that is left and joined again.
* `mm_live` has one room: its question is whether the reaper and the polls end an
  overdue room that is renewed, polled, or deleted with its account between any two of
  their steps, where a batch of one suffices. The reaper's batch of several rooms, and
  that a row deleted under it aborts the rest, are in the module (`ReapCheck`, `ReapEnd`)
  and under the safety theorems, but in no run that asks what becomes of the rest: two
  rooms that are active together need four users. Workers die in `mm_tabs`.
* Towers of three rows on two canvases have every drop (flush, offcut, miss),
  with and without a streak. The theorem covers the rest.
* Symmetry is used in `mm_claims` and `cr_safe`, runs of invariants and of one
  action property whose formula is symmetric, never for liveness.
* A deadlock is searched for in `mm_claims`, `mm_tabs` and `mm_bad_two_rooms`.
  The other runs say `CHECK_DEADLOCK FALSE`: a platform whose accounts are all
  gone stops (`mm_live`), so does a chat room that has ended with its sockets
  closed (`cr_*`), and so does a browser whose user has used up the bounded
  inputs or has left the page (`se_session`, `fe_*`).

### Fairness

Weak fairness of the steps of a request, of a consumer, of a watchdog, of the
reaper and of a call of the endpoint: event loops and workers run what they have
started, and Celery beat starts the task every minute. Weak fairness of the
expiry of keys whose holder is gone, and of time. Weak fairness of `StartChat`:
the client polls again after every "waiting" answer. Strong fairness of two
actions of `ChatRoom`: `ReapEnd`, since the reaper is run again every minute and
is not killed between its check and its UPDATE every time, and `Deliver`, since
the dispatch loop of a consumer takes turns between the frames of its client and
the events of the channel layer. Nothing is assumed of what users do.

`DeadRoomEmpties` and `AbandonedRoomEnds` are checked with one socket for each
participant, without crashes and reaper: `TimeoutReachesBoth` shows what goes
wrong with a takeover at the deadline, and a crash between the UPDATE and the
broadcast has the same effect until the partner's own watchdog or next frame.

Each screen has weak fairness of `Progress` (`RoomTalk` of `Hide`, its one timer
that matters) and nothing else: timers fire, frames of a live socket are
delivered, and a call is answered or fails. The HTTP client sets no timeout, so
this stands for the server's own and for the browser, which gives up a
connection that is dead; a call that hung for ever would leave its button
spinning. No user
action is fair, so "left alone" in a property means what the screen does when
nobody touches it. `StackGame` has its frames and its timer, `RoomTimeline` the
scroll event a browser owes, `AdminEvents` separate fairness for queries and
calls because one must not starve the other.

### What the properties excuse

A property that names an exception does so because the code has it, and would be false
without it. The exceptions, with what happens in the code:

* `LeavesWell`: a user who ends the chat while the page is already giving up on the
  partner is still sent into the next search, and each of the two calls navigates
  (`Both`). A report that is open when the answer of this client's own end call arrives is
  thrown away with the page, although the comment at `ChatRoomPage.tsx:1381` wants what
  was typed kept; `ReportKept` speaks of every other end. Going back in the browser is
  outside the model.
* `PhotoAgrees` (`missed`): an answer lost after the server has stored or removed the
  photo leaves the old one on the screen; the answer of a reload, or of a call that a page
  left behind, may come after a later change and put the older photo back.
* `UrlsReleased` (`orphans`): a file whose page is left while it is prepared gets an object
  URL that nothing revokes (`ProfilePhotoUploader.tsx:146`).
* `UsersAgree`, `BadgeAgrees`, `EventsAgree` (`overtaken`, `behind`, `broken`): rows that
  were asked for before a call settled and come after it. `invalidateQueries` cancels
  only the fetches of what is on the screen and has data: a key off the screen, or on its
  first load, keeps the fetch, and it is joined when the key comes back, so the rows stay
  as they were read until something refetches them. What other people changed since the
  last read is not on the screen either, and a list that failed shows an error. Reads fail
  in `AdminReports` and `AdminEvents`; in `AdminUsers` only as the 404 of a page that
  is gone.
* `OwnerKeeps`: a field changed in the admin's form wins over the owner's change of it.
  `update_event` (`administration/services.py`) reads, checks and saves without a row
  lock, which the module takes as one step.
* `PagesSettle`: a discussion that failed has its screen, and a wall that could not be
  read stays empty under its toast (`unread`).
* `VotesAgree` speaks of a visit whose socket has not dropped, and of a wall that is
  loaded once.

### Findings

Three runs check what a comment says of the code, and TLC finds a behaviour of
the code that contradicts it. They are listed under "findings" with the lines
and the quotes:

| Run | Properties | What it shows |
|---|---|---|
| `mm_bad_two_rooms` | `OneRoomPerUser` | A poll that looked for the caller's room before it was created, and runs the claim script after the reservation was cleared, seats the user in a second room. |
| `cr_bad_timeout` | `TimeoutReachesBoth` | A replaced socket's watchdog ends the room and is cancelled by disconnect() before it broadcasts; the partner's watchdog has lost the claim and returned: the partner stays in a dead room. |
| `fe_bad_refused` | `StaleTabLocks` | A tab whose response is refused because another tab of the account has answered goes on offering its composer. |

Further formulas are stated in the modules, each the words of a comment, and
refuted by TLC when they are added to a run; they have none of their own:

| Formula | What the comment says, and what happens |
|---|---|
| `Matchmaking!NoRoomForCancelled` | a cancel between the claim of a user and the INSERT finds neither an entry nor a room (`views.py:79`) |
| `ChatRoom!EndedOnce` | two callers of `end_private_chat_room` read ACTIVE and both write (`services.py:70`) |
| `SearchClient!SingleFlight` | "never more than one start/ request in the air" (`useMatchmaking.ts:23`): a new session sends its own beside the stale one |
| `RoomExit!LandedNeverSkipped` | the cover that leaves the screen still skips a match that has landed |
| `RoomPair!DeclinedMeansAnonymous` | a client that has learnt its partner from a crossing request is told that both are anonymous (`useChatSocket.ts:204`, `ChatRoomPage.tsx:1746`) |
| `RoomTimeline!SentStaysShown` | the refusal of a later message retires the oldest draft, whose copy has not come |
| `AuthForms!LockedEmailShown` | the answer to a check that was left moves the form of the next one |
| `Session!SignedOutStaysOut` | a renewal in the air when the user signs out writes its tokens afterwards |
| `EventRoomClient!RefusalIsTerminal` | "A refusal and a closed event are terminal" (`useEventSocket.ts:31-35`): the tab that comes back asks again (249-256) |

The models admit more that no comment excludes, and that a reviewer may want to
know of:

* Private rooms: a cancel ends a room whose seat was taken since the check
  (`matchmaking.py:283`); the reaper ends a room a message has renewed since the
  check (325), and counts from the creation of a room where a watchdog counts
  from its own connect (318); a message is inserted in a room that has ended
  since the check (`services.py:132`).
* Event chat: a message saved between the load of REST and `group_add` of the
  first connect is missing until an outage; drafts in the air when a socket is
  lost stay half-shown; the late close of a socket that was torn down empties
  the list of people (`useEventSocket.ts:217`).
* Event page: a late answer to a join pulls a student who has left the page into
  the chat; a form being edited starts over when the details change under it
  (`event-shared.tsx:217-230`); an answer lost after the page or dialog is gone
  leaves it stale, a cancelled event shown as live; a messages query that fails
  with anything but 404 leaves the Join button spinning.
* Public discussion: `posted` comes before the account's own `message`, so its
  response is not marked as its own (`PublicSpeakingPage.tsx:548-555`); the wall
  may be fetched twice (297-299 says never) and overwrite live votes; the
  broadcasts of one response's votes may come out of order; words are lost when
  sending times out.
* Portal: the answer to an earlier call closes a dialog since opened on another
  account (`UsersPage.tsx:235-238`, 386-392); the last row of a page suspended
  under a filter leaves a 404; two settings of one report may be applied in the
  other order; the form of an account sends every field, and so undoes what
  another admin has saved, where that of an event sends what was changed.
* Session of the portal, read and not modelled: two tabs that renew with one
  rotated token sign each other out, and a renewal that answers after Sign out
  restores the tokens (`admin/api.ts`).

## 4. Proofs

Eight modules hold theorems, all for every value of the constants that meets the
`ASSUME` of the model (`ConstantsAssumption`, `RoomAssumption`, `SessionAssumption`,
`ScreensAssumption`, `PagesAssumption`, which TLC evaluates in every run) or the hypotheses of the
theorem: any number of users, tabs, sockets, rooms, calls and rows, any `Events`.

**`MatchmakingProofs`.** `TypeCorrect` is proved first and used by everything
else. `ClaimsDisjoint` and `WaiterFree` are not inductive; `IInv` is, and its
parts are what the argument needs:

* `QueueInv` and `ReservedNotQueued`: the list, the set and the markers agree,
  at most one searcher is queued, and a reserved user is not. They need no
  hypothesis: each command of Redis keeps them whatever expires, because the
  claim script takes the caller out, refuses a reserved caller and reserves
  whom it pops in one step (`QueueStep`, `QueueSafe`). The recursion-free `Lrem`
  has lemmas of its own (`LremProperties`, `ShortQueue`).
* `LockInv`: a request past `AcquireLock` holds its user's lock (`LockStep`).
* `ClaimInv`: a claim is backed by the reservation of its partner, and its
  caller is neither queued nor reserved (`ClaimStep`). With `LockInv` it makes
  two claims differ in owner and partner (`ClaimsDiffer`): the same user cannot
  have claimed and be claimed, or be claimed twice.
* `FreeInv`: between the check of the partner and the INSERT the partner gets
  no room (`FreeStep`): only an INSERT gives rooms (`OnlyCreateRoomAdds`), and
  the INSERT of another request concerns another couple.

The last three need `"slow" \notin Events`, that no step of a request outlives
the 5 s of its lock, the 15 s of its reservation or the 60 s of a polling
client's marker: the code renews none of them, and without the hypothesis they
fail. A crash does not: it ends the claim, while its reservation stays, which
only keeps the partner out of other claims until the TTL. `Inductive`,
`ClaimsAreDisjoint` and `WaiterIsFree` follow.

`ReservationsAreClaimed` (`ReservationHasClaimer`) adds two facts to `IInv`:
`TargetHeld`, the room a request is about to end is a row of the table
(`TargetHeldStep`), and `NoneDeleted`, rows disappear only with an account
(`NoneDeletedStep`). Without them the exception of `end_private_chat_room` on a
vanished row could end a request that holds a claim. `ClaimerStep` then goes
through the paths of the request: each drops the claim and the reservation in
one step, or neither. The property carries its hypothesis in its text: no
worker dies, no key expires under a request at work, no account is deleted.

`ImplementsPairing`: every step of `Matchmaking` is a step of `Pairing` under the
mapping `Promise`, or leaves it unchanged (`RefinementStep`): the script is `Wait`
or `Pair`, the INSERT is `Meet` (`Part` when it fails), a discard and a crash are
`Part`, a cancel and the expiry of a marker are `Leave`. `NotEngaged` is the heart of
it: the caller of the script is in no match, because it holds its lock and nobody
has reserved it. `MatchesAreExclusive` brings the promise back to the detailed
state: what `OneMatchEach` says of `Pairing` (`PairingIsSound`, an invariant of the
abstract specification alone) holds of `Promise`: a user is in one match at a time,
and whoever waits is in none.

**`ChatRoomProofs`.** `RoomTypeCorrect`, then `RoomInductive`, the invariant
`IInv` of a room, from which its four safety properties follow in a line each:

* `SeatInv`: the owner of a seat is its participant's, has run the claim and
  not yet given the seat back (`SeatStep`);
* `VictimInv`: a replaced socket never gets its seat back, so `disconnect()`
  takes the quiet path (`VictimStep`, from `SeatInv`);
* `WatchInv`: the idle key stays as long as the watchdog that set it works
  (`WatchStep`);
* `NoticeInv`: a socket without its seat is closing or about to be told,
  wherever it is in `connect()`, and the reaper deletes seats only in a room it
  has ended (`NoticeStep`).

`SeatsLive` and `NoticeNotLost` carry their hypothesis, that no process dies, in
their text; the other two hold with crashes as well.

**`SessionProofs`.** `SessionTypeCorrect`, then `SessionInductive`: the invariant
`IInv` of the token pairs. A server that rotates refresh tokens ends the session of
whoever presents one twice, so what must be shown is where each pair may be:

* `Bounded`: both tokens of a pair are stored together, and whatever is stored,
  renewed, answered or blacklisted was issued before;
* `Placed`: a closed tab has no renewal, socket or call;
* `Fresh`: a pair that was issued and not yet stored is known to one answer only. It
  is neither in localStorage nor in the cargo of a logout, so no step that spends a
  token spends this one. The answer of a renewal and that of a sign-in are told apart;
* `Pending`, from `Fresh`: such a pair can be renewed;
* `Stored`: hence what is in localStorage can be renewed, unless a renewal or a logout
  is on its way, however many tabs share it;
* `Held`: in the only tab, a renewal that presents what is stored is not refused. With
  two tabs this fails, as it does in the code: both present one token, and one of them
  is refused.

`Pending`, `Stored` and `Held` hold while no answer was lost and no password changed
(`Calm`), the hypotheses of the two properties. `SessionNotStranded` (`NotStranded`)
is `Stored`; `SessionOutlasts` (`SessionLasts`) adds that localStorage is emptied by a
logout or by a refused renewal only (`TokensStay`), and that in the only tab there is
none of the latter (`Held`).

**`SearchClientProofs`.** `StoppedLeavesNoGhost`: a user who has stopped, with
nothing left in the air, is neither queued nor missed in a room. `NoGhost` speaks
of the quiet state only; `IInv` says what makes every way there end well:

* `Wires` and `Current`: calls and timers belong to sessions that have begun, and
  one of the present session means that the search goes on (`CurrentStep`);
* `Followed`: while no two calls overlap, `pendingStartRef` names the call in the
  air, and a call of an abandoned session is in `again`, whose `finally` sends a
  second leave (`FollowedStep`). This is the mechanism of `releaseQueueSlot`;
* `Counted`, `Seated`: a failed answer was counted; a taken seat is on the page;
* `Undone`: whatever the server holds for a user who has stopped has a leave on
  its way behind it, or a call that will send one (`UndoneStep`).

The two exceptions of the property, a failed call and two calls in the air, are
real: with either, TLC finds a ghost. The theorem assumes that `NoCall` is not a
call. `SearchTypeCorrect` is the type invariant, for any number of calls.

**`StackGameProofs`.** `GameIsSafe`, from `Painted`: on a still scene that is not
marked for redrawing, the last frame that moved something has painted it.
`LoopCovers` alone is not inductive, because the frame that parks the loop paints
nothing: it relies on the one before. `LandStands` is the arithmetic of a drop
that lands, for any widths and any slack. It assumes that widths are natural
numbers with a smallest one, and that `Eps` is natural. `GameTypeCorrect` needs
`Streak`: a run of flush drops is shorter than the tower it is counted on, so `combo`
never passes `MaxRows`.

**`RoomPairProofs`.** `RevealsAgree`: with nothing in flight both clients know
each other exactly when the server has recorded the reveal. The invariant:

* `Silent`, `Met`: nothing goes to or comes from a socket that is not open, and
  whatever needs a partner (a beacon heard, a request sent or pending, a reveal)
  happens only when both are open. Without it a `success` could be broadcast to one
  client alone, and the other would never know;
* `Told`: who knows was told and the server has recorded it, and what is recorded
  is known or still in the queue of the client.

`HasAppend`, `HasTail` and `TellHas` say what the queues hold after a frame is sent,
taken or broadcast; `ServeTells` is the step of the server in general, and
`ServeStep` goes through its answers. It assumes that there are two clients
(`Couple`). `PairTypeCorrect` adds what the pages show (`Screens`).

**`RoomClientProofs`.** `RoomClient` puts the screens of a private chat together, and
`SearchAlone`, `GameAlone`, `PairAlone`, `TimelineAlone`, `TalkAlone` and `ExitAlone`
show that a behaviour of the composition is one of each screen, because the step of
another leaves its variables alone. So `NoGhostOnScreen`, `GameSafeOnScreen` and
`RevealAgreesOnScreen` are the general theorems, for the constants of the
composition. The other three screens have their invariants here.

*Transcript.* That no draft is shown beside its copy (a part of `RoomSafe`) is about
four queues: the drafts on the screen, the frames to the server, the broadcasts and the
frames of the socket. A draft is retired by position, the oldest first, and a refusal
overtakes an echo, so no pointwise relation is inductive. `Answered` says that there
are three non-decreasing counts, one along each queue (`Following`): the number of
drafts that will have been retired at least when the frames up to there are read.

* `Paced` ties a count to the frames: a refusal or an own message retires one draft
  at most, the partner's none, and message `i` comes when `i` are retired or more;
* `Asked` is the same of frames that are still to be served;
* `Drawn`: the drafts on the screen are later than the count at the head of the socket,
  and the own messages that are confirmed are not.

`PacedTail`, `PacedAppend`, `PacedLift` and `PacedMore` say what happens to a count
when a frame is read, sent, or when one more message is on its way; `DraftRetired` is
the handler of an echo and of a refusal. `AnsweredStep` goes through the actions and
`AnsweredOnce` draws the conclusion.

*Reactions and typing.* `Faithful`, while the connection stands: of the reactions to one
message the last frame on the wire says what the user has picked, and with none on the
wire the partner's copy does (`Said`); a typing indicator that is shown or on its way
has an end behind it, or the user is typing still (`Heard`). Both speak of every
suffix of the wire, because the partner reads it frame by frame.

*Ways out.* `RoomLeftWell` (`LeavesWell`) is an action property. Its invariant `Leaving`
has what the flags and the frames tell: a frame that ends the room is true
(`Honest`, `Spoken`), so the page that shows an ended room is right; and whoever waits
for the end endpoint has claimed the exit before (`Claimed`), so that the answer, the
announcement and the countdown find `endRequested` set, even after the dialog was closed
over the call; and outside the room only a page that has both calls waits for one. `ServerSteps`,
`ReaderSteps`, `PageSteps` and `LeavingSteps` go through who may act.

`ScreensTypeCorrect` is the type invariant of the composition, from those of its
screens. `ScreensAssumption` asks for bounds that are natural numbers, for two
clients, and for canvases as above.

**`PageClientProofs`.** `PageClient` puts the other pages and the portal together, and
`FormsAlone` to `EventsAlone` show that a behaviour of it is one of each screen. Each
screen has an inductive invariant, whose types give `PagesTypeCorrect` and whose last
lemma (`FormsSafe`, `PhotoStaysSafe`, ..., `EventsStayRight`) gives its part of
`AccountStaysSafe`, `EventStaysSafe`, `SpeakingStaysSafe` and `DeskStaysSafe`.

*Forms and photo.* `OneMail`: a call for a reset mail has its flag up, and is the only
one (each call has a number of its own). `OneUpload`: a visit of the page awaits one
change at most; a change that is served makes every earlier answer old, so that an answer
that is not carries what the server holds, and the photo shown is that one unless `missed`
is set or such an answer is still to come. `OneUrl`: a file is named after its pick, and
only the one in the dialog has an object URL, but for the orphans of a page that was left.

*Chat of an event* (`EventInv`). The properties speak of the quiet state; the invariant
of what is in the air.

* `EventOrder`: a broadcast is newer than all the page has or will read before it, and
  broadcasts come in order: so an own message that is heard is a new one;
* `EventDrafts`: there are no more drafts than drafts in the air or lost. It counts the
  frames of three queues (`Marked`, with `MarkedAppend` and `MarkedTail` for a frame sent
  and a frame read);
* `EventFilled`: after an outage each message is shown, or broadcast, or in a history on
  its way;
* `EventPresence`, `EventTypes`: the last move that the page will hear of the partner is
  the true one, and who is seen typing is here or leaves in a frame behind.

*Page of an event* (`HostInv`). `HostKnows` (membership) and `HostReads` (details): while
no call of this tab or another has changed the server unheard, what is cached or on its
way is what the server holds, or an invalidation is noted. `HostAsks` and `HostBefore` say
that what is needed was asked for; `HostChoice` that a host reaches the chat by choice.

*Public discussion* (`SpeakInv`). `SpeakTold`: who was told has posted, and the wall is
loaded by one verdict and one join at most. Of a heart the invariant has two phases.
Until the one load is shown (`SpeakBefore`) there is nothing to vote for: no vote, no
answer, no row on its way that has one. From then on (`SpeakAfter`), with no vote on its
way, the vote of the server is what the last answer on the wire says, with none there
what the queue will paint, and with nothing queued what the heart shows. `SpeakOwn` is
about a vote for one's own response: it is on its way to its refusal.

*Portal.* `UsersSee`, `RowsRight`, `PortalSees`: while the answer to no call is waiting
to be heard, a list on its way is the one that the server would send, and so is the list
on the screen when none is on its way (`ListRight` for each filter of the reports,
`ListSees` and `DataSees` for the two queries of an event). The answer to a change
cancels what was read before it and asks again, wherever there is data to cancel for;
where there is none yet, or off the screen, React Query joins the fetch that is under
way, and the histories `overtaken` and `behind` record that its rows may be older.
`FormClaims`: what a form on its way would write counts as changed in it, so that
`OwnerKeeps` survives the moment the server serves it, whatever the owner saved between.

A lemma about a screen is about its instance in `PageClient`. The theorems assume
`PagesAssumption`: bounds that are natural numbers, some report, and finitely many
accounts, numbered from 1. `Files`, `SizeOf` and `Emails` are arbitrary.


## 5. What is only model-checked, and what is not modelled

Liveness under fairness is beyond the prover and stays with TLC, with the bounds
above: `SearchersMeet`, `WaiterToldOfRoom`, `OrphanReaped`, `DeadRoomEmpties`,
`AbandonedRoomEnds`, `OneSocketStays`, `IdleRoomEnds`, `SessionSettles`,
`SpeakerGetsThrough`, `MatchFound`, `GameComesBack`, `ComesOut`, `RoomSettles`,
`PagesSettle`. Every safety property and every type invariant of the passing runs is
the statement of a theorem. `mm_*` and `cr_safe` check the properties, the proofs the
inductive invariants behind them; the fault "slow" of `Matchmaking` is in no run,
because `QueueSafe` is proved with it and the other theorems exclude it. The
findings are counterexamples of TLC.

Not modelled, and why:

* Platform and event presence: a subsystem of leases and counters the others do
  not depend on. Its hazards are listed.
* The services of events, accounts, public speaking and reveals under concurrent
  calls: the modules of the pages serve one call at a time, as one tab sees
  it. The races between two tabs or two members are listed as hazards.
* One-time tokens, the expiry task of events, anonymous names: single
  transactions, whose races are listed.
* Complaints: single transactions and one optimistic toggle (whose retry after a
  lost answer undoes the vote); the application calls the feature "not part of
  the MVP" (`BottomNav.tsx:7`) and links to none of its pages.
* The portal's session (`admin/api.ts`), its dashboard, and the pages of
  complaints and discussions, which repeat the lists that are modelled.
* Moderation, reports and evidence, mail, encryption, throttles, serializers,
  middleware, notifications, configuration, themes and motion: a query, a
  single-row write, a pure function or rendering.

## 6. What is left

In this order: the portal's session as an instance of the ideas of `Session`;
`EventLifecycle` (status, participants, anonymous names under the row lock, the
expiry task against an owner who extends; theorems: names are unique while the
pool lasts, a status only moves forward) composed with the sockets of an event;
`PlatformPresence` with an abstract count that clients converge to;
one-time links; two tabs that vote in the public discussion.
