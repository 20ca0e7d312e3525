---------------------------- MODULE SearchClient ----------------------------
(***************************************************************************)
(* The search of one tab (useMatchmaking.ts, HomePage.tsx): one start/ call  *)
(* after the other until a room is found, and what is taken back when the    *)
(* search is stopped while a call is in the air. The server is what          *)
(* Matchmaking does to this user: an entry of the queue, a room, a seat.     *)
(***************************************************************************)
EXTENDS Naturals, FiniteSets

CONSTANTS
    Calls,       \* slots of start/ calls in the air
    MaxSessions, \* bound on the searches the user begins
    MaxFails     \* bound on the calls the network or the throttle fails

VARIABLES
    session,    \* sessionRef
    active,     \* activeRef
    inFlight,   \* inFlightRef
    pending,    \* pendingStartRef: a call, or NoCall
    timer,      \* the next call: the session it is for, and is it the first?
    searching, starting, page,
    spaced,     \* have START_CHAT_SPACING_MS passed since the last call?
    calls,      \* what is in the air
    again,      \* calls whose end is followed by a second leave
    leaves,     \* leave calls on their way
    ends,       \* rooms on their way back
    queued,     \* server: is the user in the queue?
    room,       \* server: "none", "unjoined" or "joined"
    fails, overlapped   \* history: failures, and were two calls in the air?

client == <<session, active, inFlight, pending, timer, searching, starting, page>>
net    == <<calls, again, leaves, ends>>
server == <<queued, room>>
vars == <<client, spaced, net, server, fails, overlapped>>

NoCall  == "none"
NoTimer == [session |-> 0, first |-> FALSE]
Free    == [pc |-> "free", session |-> 0, first |-> FALSE]

TypeOK ==
    /\ session \in Nat /\ active \in BOOLEAN /\ inFlight \in BOOLEAN
    /\ pending \in Calls \cup {NoCall}
    /\ timer \in [session : Nat, first : BOOLEAN]
    /\ searching \in BOOLEAN /\ starting \in BOOLEAN
    /\ page \in {"home", "room", "away"} /\ spaced \in BOOLEAN
    /\ calls \in [Calls -> [pc : {"free", "sent", "waiting", "matched", "active", "throttled",
                                  "error"}, session : Nat, first : BOOLEAN]]
    /\ again \subseteq Calls /\ leaves \in Nat /\ ends \in Nat
    /\ queued \in BOOLEAN /\ room \in {"none", "unjoined", "joined"}
    /\ fails \in 0 .. MaxFails /\ overlapped \in BOOLEAN

Init ==
    /\ session = 0 /\ active = FALSE /\ inFlight = FALSE /\ pending = NoCall
    /\ timer = NoTimer /\ searching = FALSE /\ starting = FALSE /\ page = "home"
    /\ spaced = TRUE
    /\ calls = [c \in Calls |-> Free] /\ again = {} /\ leaves = 0 /\ ends = 0
    /\ queued = FALSE /\ room = "none" /\ fails = 0 /\ overlapped = FALSE

InTheAir == {c \in Calls : calls[c].pc # "free"}
Answer(c) == calls[c].pc

-----------------------------------------------------------------------------
(* The client.                                                              *)

\* request: the spacing floor defers the attempt, else the call is sent.
Request(s, first) ==
    \/ /\ ~ spaced
       /\ timer' = [session |-> s, first |-> first]
       /\ UNCHANGED <<inFlight, pending, spaced, calls, overlapped>>
    \/ /\ spaced
       /\ \E c \in Calls \ InTheAir :
            /\ pending' = c
            /\ calls' = [calls EXCEPT ![c] = [pc |-> "sent", session |-> s, first |-> first]]
       /\ inFlight' = TRUE /\ spaced' = FALSE /\ timer' = NoTimer
       /\ overlapped' = (overlapped \/ InTheAir # {})

\* start: by a tap, or silently when the page is entered to search again.
Start(silent) ==
    /\ page = "home" /\ ~ active /\ session < 2 * MaxSessions
    /\ active' = TRUE /\ session' = session + 1
    /\ Request(session + 1, TRUE)
    /\ searching' = (searching \/ silent) /\ starting' = (~ silent /\ spaced)
    /\ UNCHANGED <<page, again, leaves, ends, server, fails>>

Fire ==
    /\ timer # NoTimer
    /\ IF timer.session = session /\ ~ inFlight
       THEN Request(session, timer.first)
       ELSE timer' = NoTimer /\ UNCHANGED <<inFlight, pending, spaced, calls, overlapped>>
    /\ UNCHANGED <<session, active, searching, starting, page, again, leaves, ends, server,
                   fails>>

FinishSession ==
    /\ session' = session + 1 /\ timer' = NoTimer /\ active' = FALSE

\* Mutant: the call in the air is left to undo the leave.
ReleaseQueueSlotOnce == leaves' = leaves + 1 /\ UNCHANGED again

\* releaseQueueSlot: now, and again when the call in the air has settled.
ReleaseQueueSlot ==
    /\ leaves' = leaves + 1
    /\ again' = IF pending = NoCall THEN again ELSE again \cup {pending}

\* stopSearch: the button, the app sent to the background, or another page.
Stop(to) ==
    /\ active /\ page = "home"
    /\ FinishSession /\ ReleaseQueueSlot
    /\ inFlight' = FALSE /\ searching' = FALSE /\ starting' = FALSE /\ page' = to
    /\ UNCHANGED <<pending, spaced, calls, ends, server, fails, overlapped>>

\* The answer of a call of another session: a room it created is handed back.
Stale(c) ==
    /\ calls[c].session # session
    /\ ends' = IF Answer(c) = "matched" THEN ends + 1 ELSE ends
    /\ UNCHANGED <<session, active, timer, searching, starting, page, room>>

Found(c) ==
    /\ calls[c].session = session /\ Answer(c) \in {"matched", "active"}
    /\ FinishSession
    /\ page' = "room" /\ room' = IF room = "unjoined" THEN "joined" ELSE room
    /\ UNCHANGED <<searching, starting, ends>>

\* Mutant: nobody looks again.
WaitingOnce(c) ==
    /\ calls[c].session = session /\ Answer(c) = "waiting"
    /\ searching' = TRUE /\ starting' = FALSE
    /\ UNCHANGED <<session, active, timer, page, ends, room>>

Waiting(c) ==
    /\ calls[c].session = session /\ Answer(c) = "waiting"
    /\ searching' = TRUE /\ starting' = FALSE
    /\ timer' = [session |-> session, first |-> FALSE]
    /\ UNCHANGED <<session, active, page, ends, room>>

\* A throttled call, and a later one that fails, are tried again.
Retry(c) ==
    /\ calls[c].session = session
    /\ \/ Answer(c) = "throttled"
       \/ Answer(c) = "error" /\ ~ calls[c].first
    /\ timer' = [session |-> session, first |-> FALSE]
    /\ starting' = (starting /\ ~ calls[c].first)
    /\ UNCHANGED <<session, active, searching, page, ends, room>>
GiveUp(c) ==
    /\ calls[c].session = session /\ Answer(c) = "error" /\ calls[c].first
    /\ FinishSession
    /\ searching' = FALSE /\ starting' = FALSE
    /\ UNCHANGED <<page, ends, room>>

\* A call settles; the second leave follows one that did not fail.
Settle(c) ==
    /\ calls[c].pc \notin {"free", "sent"}
    /\ Stale(c) \/ Found(c) \/ Waiting(c) \/ Retry(c) \/ GiveUp(c)
    /\ inFlight' = FALSE /\ pending' = NoCall
    /\ calls' = [calls EXCEPT ![c] = Free]
    /\ leaves' = IF c \in again /\ Answer(c) \notin {"error", "throttled"}
                 THEN leaves + 1 ELSE leaves
    /\ again' = again \ {c}
    /\ UNCHANGED <<spaced, queued, fails, overlapped>>

Tick ==
    /\ ~ spaced
    /\ spaced' = TRUE
    /\ UNCHANGED <<client, net, server, fails, overlapped>>

-----------------------------------------------------------------------------
(* The server, and the network between.                                     *)

AnswerWith(c, a) == calls' = [calls EXCEPT ![c].pc = a]

\* start/: the room the user is in, a partner found, or a place in the queue.
ServeStart(c) ==
    /\ calls[c].pc = "sent"
    /\ \/ room # "none" /\ AnswerWith(c, "active") /\ UNCHANGED server
       \/ /\ room = "none" /\ room' = "unjoined" /\ queued' = FALSE
          /\ AnswerWith(c, "matched")
       \/ room = "none" /\ queued' = TRUE /\ AnswerWith(c, "waiting") /\ UNCHANGED room
    /\ UNCHANGED <<client, spaced, again, leaves, ends, fails, overlapped>>

Fail(c) ==
    /\ fails < MaxFails /\ fails' = fails + 1
    /\ \/ calls[c].pc = "sent" /\ \E a \in {"throttled", "error"} : AnswerWith(c, a)
       \/ calls[c].pc \in {"waiting", "matched", "active"} /\ AnswerWith(c, "error")
    /\ UNCHANGED <<client, spaced, again, leaves, ends, server, overlapped>>

PartnerClaims ==
    /\ queued /\ room = "none"
    /\ queued' = FALSE /\ room' = "unjoined"
    /\ UNCHANGED <<client, spaced, net, fails, overlapped>>

\* cancel/: out of the queue, and out of a room nobody took a seat in.
ServeLeave ==
    /\ leaves > 0 /\ leaves' = leaves - 1
    /\ queued' = FALSE
    /\ room' = IF room = "unjoined" THEN "none" ELSE room
    /\ UNCHANGED <<client, spaced, calls, again, ends, fails, overlapped>>

ServeEnd ==
    /\ ends > 0 /\ ends' = ends - 1
    /\ room' = IF room = "unjoined" THEN "none" ELSE room
    /\ UNCHANGED <<client, spaced, calls, again, leaves, queued, fails, overlapped>>

-----------------------------------------------------------------------------
Progress ==
    \/ Fire \/ Tick \/ ServeLeave \/ ServeEnd
    \/ \E c \in Calls : Settle(c) \/ ServeStart(c)
Next ==
    \/ Progress \/ PartnerClaims
    \/ \E silent \in BOOLEAN : Start(silent)
    \/ \E to \in {"home", "away"} : Stop(to)
    \/ \E c \in Calls : Fail(c)
Spec == Init /\ [][Next]_vars

\* Timers fire, the server answers, the browser delivers.
FairSpec == Spec /\ WF_vars(Progress)
-----------------------------------------------------------------------------
(* Properties.                                                              *)

Quiet == InTheAir = {} /\ leaves = 0 /\ ends = 0 /\ ~ active /\ page # "room"

\* "Making 'not waiting' the last word" (releaseQueueSlot): a user who has
\* stopped, with nothing left in the air, is neither queued nor missed in a room,
\* unless a call failed or two were in the air together.
NoGhost == Quiet /\ fails = 0 /\ ~ overlapped => ~ queued /\ room = "none"

\* Who goes on searching finds the room a partner has opened: a later start/ is
\* the only way to learn of it.
MatchFound ==
    active /\ room = "unjoined" ~> page = "room" \/ ~ active \/ room # "unjoined"

\* "Strict single-flight: never more than one start/ request in the air."
SingleFlight == Cardinality(InTheAir) <= 1
=============================================================================
