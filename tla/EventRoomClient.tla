--------------------------- MODULE EventRoomClient ---------------------------
(***************************************************************************)
(* The chat page of an event (EventChatPage.tsx, useEventSocket.ts): the      *)
(* transcript that REST loads and the socket extends, the drafts retired in   *)
(* the order of the answers, presence, and the socket that comes back after   *)
(* an outage with the history of what was said meanwhile.                     *)
(*                                                                         *)
(* The consumer answers a refusal, the snapshot and the history directly; a   *)
(* message, presence and the end of the event come through the channel layer, *)
(* which it reads only between two of its own frames.                         *)
(***************************************************************************)
EXTENDS Naturals, FiniteSets, SequencesExt

CONSTANTS
    MaxMessages, \* bound on the messages the server saves
    MaxSends,    \* bound on the sends of this user
    MaxDrops,    \* bound on the outages of the socket
    MaxMoves     \* bound on the other things people do

VARIABLES
    page,        \* "loading", "failed", "card" (not a participant), "joining", "room", "left"
    leaving,     \* the leave call: "no", "asked" or "done" by the server
    status,      \* what the header says of the socket
    sock,        \* "none", "opening" or "open"
    retry,       \* is the retry timer armed?
    disposed, reconnected,
    rest,        \* messages of the loaded pages
    live,        \* liveMessages
    reconciled,  \* reconciledIds
    pending,
                   \* how many drafts are on the screen
    posting,     \* is a REST send in the air?
    online, typing,       \* is the other participant shown as here, as typing?
    inbox,       \* frames on their way to the consumer
    wire,        \* its direct answers
    layer,       \* broadcasts waiting for the consumer
    log,         \* server: the saved messages, by the way they came
    member, open, here,   \* server: our seat, the event, the other participant
    lost, sends, drops, moves

socket == <<status, sock, retry, disposed, reconnected>>
screen == <<rest, live, reconciled, pending, online, typing>>
net    == <<inbox, wire, layer>>
server == <<log, member, open, here>>
counts == <<sends, drops, moves>>
vars == <<page, leaving, posting, socket, screen, net, server, lost, counts>>

Frame(t, n) == [t |-> t, n |-> n]
Id == 1 .. MaxMessages

TypeOK ==
    /\ page \in {"loading", "failed", "card", "joining", "room", "left"}
    /\ leaving \in {"no", "asked", "done"} /\ posting \in BOOLEAN
    /\ status \in {"idle", "connecting", "connected", "closed", "denied"}
    /\ sock \in {"none", "opening", "open"}
    /\ retry \in BOOLEAN /\ disposed \in BOOLEAN /\ reconnected \in BOOLEAN
    /\ rest \subseteq Id /\ live \subseteq Id /\ reconciled \subseteq live
    /\ pending \in 0 .. MaxSends
    /\ online \in BOOLEAN /\ typing \in BOOLEAN
    /\ inbox \in 0 .. MaxSends
    /\ wire \in Seq([t : {"snapshot", "history", "error", "denied"}, n : Nat])
    /\ layer \in Seq([t : {"message", "joined", "left", "typing", "closed"}, n : Nat])
    /\ log \in Seq({"socket", "rest", "other"}) /\ Len(log) <= MaxMessages
    /\ member \in BOOLEAN /\ open \in BOOLEAN /\ here \in BOOLEAN
    /\ lost \in 0 .. MaxSends
    /\ sends \in 0 .. MaxSends /\ drops \in 0 .. MaxDrops /\ moves \in 0 .. MaxMoves

\* The page is opened by somebody who may still join, or has on another page.
Init ==
    /\ page = "loading" /\ leaving = "no" /\ posting = FALSE
    /\ status = "idle" /\ sock = "none" /\ retry = FALSE
    /\ disposed = FALSE /\ reconnected = FALSE
    /\ rest = {} /\ live = {} /\ reconciled = {} /\ pending = 0
    /\ online = FALSE /\ typing = FALSE
    /\ inbox = 0 /\ wire = <<>> /\ layer = <<>>
    /\ log = <<>> /\ member = FALSE /\ open = TRUE /\ here = TRUE
    /\ lost = 0 /\ sends = 0 /\ drops = 0 /\ moves = 0

Own(i)  == log[i] # "other"
Shown   == rest \cup live
InGroup == sock = "open" /\ \A i \in DOMAIN wire : wire[i].t # "denied"
Broadcast(frame) == layer' = IF InGroup THEN Append(layer, frame) ELSE layer

\* A draft whose answer is still to come: in the inbox, refused, or broadcast.
InAir ==
    inbox + Cardinality({i \in DOMAIN wire : wire[i].t = "error"})
          + Cardinality({i \in DOMAIN layer :
                           layer[i].t = "message" /\ log[layer[i].n] = "socket"})

-----------------------------------------------------------------------------
(* The page: loading, joining, leaving.                                     *)

Connect ==
    /\ status' = "connecting" /\ sock' = "opening" /\ retry' = FALSE

\* The messages query: 404 is the join card, another error leaves the skeleton.
Load ==
    /\ page = "loading"
    /\ \/ /\ member /\ page' = "room" /\ rest' = DOMAIN log
          /\ Connect /\ UNCHANGED <<disposed, reconnected>>
       \/ ~ member /\ page' = "card" /\ UNCHANGED <<rest, socket>>
       \/ /\ drops < MaxDrops /\ drops' = drops + 1
          /\ page' = "failed" /\ UNCHANGED <<rest, socket>>
    /\ page' # "failed" => UNCHANGED drops
    /\ UNCHANGED <<leaving, posting, live, reconciled, pending, online, typing,
                   net, server, lost, sends, moves>>

\* join/ from the detail page, before this page has asked for the messages.
JoinedBefore ==
    /\ page = "loading" /\ moves = 0 /\ ~ member /\ member' = TRUE
    /\ UNCHANGED <<page, leaving, posting, socket, screen, net, log, open, here, lost,
                   counts>>

\* joinMutation: the messages are asked for again however it ends.
Join ==
    /\ page = "card" /\ moves < MaxMoves /\ moves' = moves + 1
    /\ page' = "joining"
    /\ UNCHANGED <<leaving, posting, socket, screen, net, server, lost, sends, drops>>
Joined ==
    /\ page = "joining" /\ page' = "loading"
    /\ member' = (member \/ open)
    /\ UNCHANGED <<leaving, posting, socket, screen, net, log, open, here, lost, counts>>

Leave ==
    /\ page = "room" /\ leaving = "no" /\ moves < MaxMoves /\ moves' = moves + 1
    /\ leaving' = "asked"
    /\ UNCHANGED <<page, posting, socket, screen, net, server, lost, sends, drops>>
ServeLeave ==
    /\ leaving = "asked" /\ member /\ open
    /\ leaving' = "done" /\ member' = FALSE /\ Broadcast(Frame("closed", 0))
    /\ UNCHANGED <<page, posting, socket, screen, inbox, wire, log, open, here, lost,
                   counts>>
\* Off the page: the effect is torn down with its socket and its timers. A call that is
\* refused or lost, or whose answer is lost, is a toast over a page that stays.
Left ==
    /\ leaving # "no" /\ page = "room" /\ leaving' = "no"
    /\ \/ /\ leaving = "done" /\ page' = "left" /\ disposed' = TRUE
          /\ status' = "idle" /\ sock' = "none" /\ retry' = FALSE
          /\ live' = {} /\ reconciled' = {} /\ online' = FALSE /\ typing' = FALSE
          /\ pending' = 0 /\ lost' = 0
          /\ inbox' = 0 /\ wire' = <<>> /\ layer' = <<>>
          /\ UNCHANGED <<reconnected, rest>>
       \/ UNCHANGED <<page, socket, screen, net, lost>>
    /\ UNCHANGED <<posting, server, counts>>

-----------------------------------------------------------------------------
(* The socket of useEventSocket.                                            *)

\* The consumer's connect(), and the onopen the handshake brings.
Accept ==
    /\ sock = "opening"
    /\ sock' = "open" /\ status' = "connected"
    /\ wire' = IF member /\ open
               THEN <<Frame("snapshot", IF here THEN 1 ELSE 0), Frame("history", Len(log))>>
               ELSE <<Frame("denied", 0)>>
    /\ UNCHANGED <<page, leaving, posting, retry, disposed, reconnected, screen, inbox,
                   layer,
                   server, lost, counts>>

\* onclose: whatever was on its way is gone; how the client goes on depends on why.
Closed(next) ==
    /\ sock' = "none" /\ online' = FALSE /\ typing' = FALSE
    /\ inbox' = 0 /\ wire' = <<>> /\ layer' = <<>> /\ lost' = lost + InAir
    /\ status' = next

Drop ==
    /\ sock # "none" /\ drops < MaxDrops /\ drops' = drops + 1
    /\ Closed("connecting") /\ retry' = TRUE /\ reconnected' = TRUE
    /\ UNCHANGED <<page, leaving, posting, disposed, rest, live, reconciled, pending,
                   server, sends, moves>>

\* Mutant: the timer fires and nothing connects.
RetryLate ==
    /\ retry /\ sock = "none" /\ retry' = FALSE
    /\ UNCHANGED <<page, leaving, posting, status, sock, disposed, reconnected, screen, net,
                   server, lost, counts>>

Retry ==
    /\ retry /\ ~ disposed /\ Connect
    /\ UNCHANGED <<page, leaving, posting, disposed, reconnected, screen, net, server, lost,
                   counts>>

\* resume: the tab or the network is back, and no socket is.
Resume ==
    /\ page = "room" /\ ~ disposed /\ sock = "none" /\ Connect
    /\ moves < MaxMoves /\ moves' = moves + 1
    /\ UNCHANGED <<page, leaving, posting, disposed, reconnected, screen, net, server, lost,
                   sends, drops>>

Hears(frame) == wire # <<>> /\ Head(wire).t = frame /\ wire' = Tail(wire)

HearSnapshot ==
    /\ Hears("snapshot") /\ online' = (Head(wire).n = 1)
    /\ UNCHANGED <<page, leaving, posting, socket, rest, live, reconciled, pending,
                   typing, inbox, layer, server, lost, counts>>

\* New messages: an own one retires the oldest draft.
Take(S) ==
    LET fresh == S \ live
        own   == {i \in fresh : Own(i) /\ i \notin reconciled}
    IN  /\ live' = live \cup fresh /\ reconciled' = reconciled \cup own
        /\ pending' = IF Cardinality(own) > pending THEN 0 ELSE pending - Cardinality(own)

\* Mutant: REST owns the transcript after an outage too.
HearHistoryIgnored ==
    /\ Hears("history")
    /\ UNCHANGED <<page, leaving, posting, socket, screen, inbox, layer, server, lost,
                   counts>>

\* history: the first time REST owns the transcript.
HearHistory ==
    /\ Hears("history")
    /\ IF reconnected
       THEN Take(1 .. Head(wire).n)
       ELSE UNCHANGED <<live, reconciled, pending>>
    /\ UNCHANGED <<page, leaving, posting, socket, rest, online, typing, inbox, layer,
                   server, lost, counts>>

\* Mutant: a refusal without a draft retires one all the same.
HearErrorBare ==
    /\ Hears("error")
    /\ pending' = pending - 1
    /\ UNCHANGED <<page, leaving, posting, socket, rest, live, reconciled, online,
                   typing, inbox, layer, server, lost, counts>>

\* handleSocketError: the refusal retires the oldest draft.
HearError ==
    /\ Hears("error")
    /\ pending' = IF pending = 0 THEN 0 ELSE pending - 1
    /\ UNCHANGED <<page, leaving, posting, socket, rest, live, reconciled, online,
                   typing, inbox, layer, server, lost, counts>>

HearDenied ==
    /\ wire # <<>> /\ Head(wire).t = "denied"
    /\ Closed("denied")
    /\ UNCHANGED <<page, leaving, posting, retry, disposed, reconnected, rest, live,
                   reconciled,
                   pending, server, counts>>

\* What the consumer reads of the channel layer between two of its own frames.
Hear(t) == wire = <<>> /\ layer # <<>> /\ Head(layer).t = t

HearMessage ==
    /\ Hear("message") /\ Take({Head(layer).n}) /\ layer' = Tail(layer)
    /\ UNCHANGED <<page, leaving, posting, socket, rest, online, typing, inbox, wire,
                   server, lost, counts>>

HearPresence ==
    /\ \E t \in {"joined", "left"} :
        /\ Hear(t) /\ online' = (t = "joined")
        /\ typing' = (typing /\ t = "joined")
    /\ layer' = Tail(layer)
    /\ UNCHANGED <<page, leaving, posting, socket, rest, live, reconciled, pending,
                   inbox, wire, server, lost, counts>>

HearTyping ==
    /\ Hear("typing") /\ typing' = (Head(layer).n = 1) /\ layer' = Tail(layer)
    /\ UNCHANGED <<page, leaving, posting, socket, rest, live, reconciled, pending,
                   online, inbox, wire, server, lost, counts>>
\* Six seconds without another signal.
TypingStops ==
    /\ typing /\ typing' = FALSE
    /\ UNCHANGED <<page, leaving, posting, socket, rest, live, reconciled, pending,
                   online, net, server, lost, counts>>

\* event.closed is terminal: the close that follows must not start a retry loop.
HearClosed ==
    /\ Hear("closed")
    /\ Closed("closed") /\ disposed' = TRUE /\ retry' = FALSE
    /\ UNCHANGED <<page, leaving, posting, reconnected, rest, live, reconciled, pending,
                   server, counts>>

-----------------------------------------------------------------------------
(* The user.                                                                *)

\* submit: over the open socket with a draft, else by REST, one at a time.
Submit ==
    /\ page = "room" /\ sends < MaxSends /\ sends' = sends + 1
    /\ \/ /\ sock = "open" /\ inbox' = inbox + 1 /\ pending' = pending + 1
          /\ UNCHANGED posting
       \/ /\ sock # "open" /\ ~ posting /\ posting' = TRUE
          /\ UNCHANGED <<inbox, pending>>
    /\ UNCHANGED <<page, leaving, socket, rest, live, reconciled, online, typing, wire,
                   layer,
                   server, lost, drops, moves>>

-----------------------------------------------------------------------------
(* The server and the other participant.                                    *)

Save(way) == Len(log) < MaxMessages /\ log' = Append(log, way)

\* receive_json: refused by the cooldown or the event's state, or saved and broadcast.
ServeSend ==
    /\ inbox > 0 /\ inbox' = inbox - 1
    /\ \/ /\ member /\ open /\ Save("socket")
          /\ Broadcast(Frame("message", Len(log) + 1)) /\ UNCHANGED wire
       \/ wire' = Append(wire, Frame("error", 0)) /\ UNCHANGED <<log, layer>>
    /\ UNCHANGED <<page, leaving, posting, socket, screen, member, open, here, lost,
                   counts>>

\* The REST send: saved and broadcast, or refused.
ServePost ==
    /\ posting /\ posting' = FALSE
    /\ \/ /\ member /\ open /\ Save("rest")
          /\ Broadcast(Frame("message", Len(log) + 1))
       \/ UNCHANGED <<log, layer>>
    /\ UNCHANGED <<page, leaving, socket, screen, inbox, wire, member, open, here, lost,
                   counts>>

OtherSpeaks ==
    /\ here /\ open /\ Save("other") /\ Broadcast(Frame("message", Len(log) + 1))
    /\ UNCHANGED <<page, leaving, posting, socket, screen, inbox, wire, member, open,
                   here, lost,
                   counts>>
OtherMoves ==
    /\ moves < MaxMoves /\ moves' = moves + 1
    /\ here' = ~ here
    /\ Broadcast(Frame(IF here THEN "left" ELSE "joined", 0))
    /\ UNCHANGED <<page, leaving, posting, socket, screen, inbox, wire, log, member,
                   open, lost,
                   sends, drops>>
OtherTypes ==
    /\ here /\ moves < MaxMoves /\ moves' = moves + 1
    /\ \E n \in {0, 1} : Broadcast(Frame("typing", n))
    /\ UNCHANGED <<page, leaving, posting, socket, screen, inbox, wire, server, lost, sends,
                   drops>>
EventEnds ==
    /\ open /\ moves < MaxMoves /\ moves' = moves + 1
    /\ open' = FALSE /\ Broadcast(Frame("closed", 0))
    /\ UNCHANGED <<page, leaving, posting, socket, screen, inbox, wire, log, member,
                   here, lost,
                   sends, drops>>

\* What the page, its socket and the server do when nobody acts.
Progress ==
    \/ Load \/ Joined \/ ServeLeave \/ Left \/ Accept \/ Retry
    \/ HearSnapshot \/ HearHistory \/ HearError \/ HearDenied
    \/ HearMessage \/ HearPresence \/ HearTyping \/ HearClosed \/ TypingStops
    \/ ServeSend \/ ServePost

Next ==
    \/ Progress
    \/ JoinedBefore \/ Join \/ Leave \/ Submit \/ Resume \/ Drop
    \/ OtherSpeaks \/ OtherMoves \/ OtherTypes \/ EventEnds

Spec == Init /\ [][Next]_vars
FairSpec == Spec /\ WF_vars(Progress)

-----------------------------------------------------------------------------
(* Properties.                                                              *)

\* No draft stays on the screen unless its answer was lost with a socket.
GhostsAreLost == pending <= InAir + lost

\* Once the history after an outage is read, all that was said is shown or on its way.
OutageFilled ==
    status = "connected" /\ reconnected /\ wire = <<>> =>
        DOMAIN log \subseteq
            Shown \cup {layer[i].n : i \in {j \in DOMAIN layer : layer[j].t = "message"}}

\* With nothing on its way, a connected page shows who is here, and only they type.
PresenceTrue ==
    sock = "open" /\ wire = <<>> /\ layer = <<>> => online = here /\ (typing => here)

\* The chat of an event (EventChatPage.tsx) shows what was said after an outage, no
\* draft whose answer has come, and the people who are there.
EventRoomSafe == GhostsAreLost /\ OutageFilled /\ PresenceTrue

\* Left alone, the page is a join card, a room with a settled socket, or gone; and a
\* draft that was not lost with a socket has had its answer.
EventRoomAtRest ==
    /\ page \in {"failed", "card", "room", "left"}
    /\ page = "room" => status \in {"connected", "closed", "denied"}
    /\ pending <= lost

\* "A refusal and a closed event are terminal" (useEventSocket.ts:35): does not hold,
\* the tab that comes back asks again.
RefusalIsTerminal == [][status = "denied" => status' # "connecting"]_vars
=============================================================================
