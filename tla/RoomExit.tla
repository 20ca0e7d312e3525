------------------------------ MODULE RoomExit ------------------------------
(***************************************************************************)
(* How one client enters a private room and leaves it: the socket's status  *)
(* (useChatSocket.ts), the connecting cover with its countdown, the wait    *)
(* for the partner, skipping, ending, reporting, and the navigation away    *)
(* (ChatRoomPage.tsx). The partner and the server are the environment.      *)
(*                                                                         *)
(* A step is one task of the event loop with the render and the effects it  *)
(* causes.                                                                  *)
(***************************************************************************)
EXTENDS Naturals, Sequences, FiniteSets

CONSTANTS
    Events,     \* what may go wrong: a subset of {"network", "otherTab"}
    MaxFrames,  \* bound on the frames on their way to the client
    Lock        \* seconds the Skip of the cover stays locked (SKIP_UNLOCK_S)

VARIABLES
    room,       \* server: "active" or "over"
    frames,     \* what the socket will deliver, closing included
    skipSent,   \* is a skip_chat frame on its way to the server?
    status, endKind, opened, byServer, present,   \* useChatSocket
    stranded, handled, skipRequested, endRequested, \* the flags of the page
    cover,      \* the connecting cover: what is on screen, with its closure
    lock,       \* seconds left of its countdown
    dialog,     \* "none", "skip" or "end": the confirmation that is open
    report,     \* the report form: "closed", "open" or "sending"
    ending,     \* the REST calls that end the room: of End chat, and of giving up
    page,       \* where the user is: "room", "home" or "search"
    failed      \* history: did the network fail?

server == <<room, frames, skipSent>>
hook   == <<status, endKind, opened, byServer, present>>
flags  == <<stranded, handled, skipRequested, endRequested>>
modals == <<dialog, report>>
vars == <<server, hook, flags, cover, lock, modals, ending, page, failed>>

\* A frame of the partner, an end event, or a close with its code: 4004, 4001,
\* 4008, or a connection that fails or drops.
EndEvents == {"skipped", "timeout", "ended"}
Closes    == {"notFound", "refused", "replaced", "lost"}
Frame     == {"partner"} \cup EndEvents \cup Closes

\* Who ends the room through REST: the user's End chat, and the page that gives up.
Callers == {"user", "wait"}

TypeOK ==
    /\ room \in {"active", "over"} /\ frames \in Seq(Frame) /\ skipSent \in BOOLEAN
    /\ status \in {"connecting", "connected", "ended", "error"}
    /\ endKind \in {"none"} \cup EndEvents
    /\ opened \in BOOLEAN /\ byServer \in BOOLEAN /\ present \in BOOLEAN
    /\ stranded \in BOOLEAN /\ handled \in BOOLEAN
    /\ skipRequested \in BOOLEAN /\ endRequested \in BOOLEAN
    /\ cover \in [on : {"shown", "leaving", "gone"}, online : BOOLEAN]
    /\ lock \in 0 .. Lock
    /\ dialog \in {"none", "skip", "end"} /\ report \in {"closed", "open", "sending"}
    /\ ending \in [Callers -> {"none", "sent", "answered", "done"}]
    /\ page \in {"room", "home", "search"} /\ failed \in BOOLEAN

Init ==
    /\ room = "active" /\ frames = <<>> /\ skipSent = FALSE
    /\ status = "connecting" /\ endKind = "none"
    /\ opened = FALSE /\ byServer = FALSE /\ present = FALSE
    /\ stranded = FALSE /\ handled = FALSE
    /\ skipRequested = FALSE /\ endRequested = FALSE
    /\ cover = [on |-> "shown", online |-> FALSE] /\ lock = Lock
    /\ dialog = "none" /\ report = "closed"
    /\ ending = [b \in Callers |-> "none"]
    /\ page = "room" /\ failed = FALSE

-----------------------------------------------------------------------------
(* What a render derives.                                                   *)

Online == status = "connected"

\* waitingForPartner, on a pair of values a step has computed.
Waiting(s, p) == s = "connecting" \/ (s = "connected" /\ ~ p)

\* The cover after a render: shown with a fresh onSkip while the page waits,
\* else replayed by AnimatePresence as it was last rendered, until it is gone.
Rendered(s, p) ==
    IF Waiting(s, p) /\ cover.on = "shown" THEN [on |-> "shown", online |-> s = "connected"]
    ELSE IF cover.on = "shown" THEN [cover EXCEPT !.on = "leaving"]
    ELSE cover

\* exitNotice and its effect: an ended room that nobody claimed the exit of is
\* left for the next search, once no report form is open.
ExitNotice(s, claimed) == s = "ended" /\ ~ claimed
AutoExit(s, claimed, form) ==
    page' = IF page = "room" /\ ExitNotice(s, claimed) /\ form = "closed"
            THEN "search" ELSE page

\* What the user can reach: below the cover and the veil nothing can be pressed.
Uncovered == page = "room" /\ cover.on = "gone" /\ status \notin {"ended", "error"}
Free == Uncovered /\ dialog = "none" /\ report = "closed"

-----------------------------------------------------------------------------
(* The server and the partner.                                              *)

Connected == opened /\ status = "connected"
Put(s) == frames' = IF Connected THEN frames \o s ELSE frames

\* The partner's beacon, typing, message or reaction.
PartnerActs ==
    /\ room = "active" /\ Connected /\ Len(frames) < MaxFrames
    /\ Put(<<"partner">>)
    /\ UNCHANGED <<room, skipSent, hook, flags, cover, lock, modals, ending, page, failed>>

\* The room ends: the partner leaves, skips or the room times out. The socket
\* that closes first may still broadcast a trailing chat_ended.
RoomEnds(kind) ==
    /\ room = "active"
    /\ room' = "over"
    /\ \E trail \in {<<>>, <<"ended">>} : Put(<<kind>> \o trail)
    /\ UNCHANGED <<skipSent, hook, flags, cover, lock, modals, ending, page, failed>>

\* The skip frame of this client is handled: it ends the room for both.
ServeSkip ==
    /\ skipSent
    /\ skipSent' = FALSE
    /\ IF room = "active" THEN room' = "over" /\ Put(<<"skipped", "ended">>)
       ELSE UNCHANGED <<room, frames>>
    /\ UNCHANGED <<hook, flags, cover, lock, modals, ending, page, failed>>

\* POST /chat/end/: the room is ended, and its sockets told, before the answer.
ServeEnd(by) ==
    /\ ending[by] = "sent"
    /\ ending' = [ending EXCEPT ![by] = "answered"]
    /\ IF room = "active" THEN room' = "over" /\ Put(<<"ended">>)
       ELSE UNCHANGED <<room, frames>>
    /\ UNCHANGED <<skipSent, hook, flags, cover, lock, modals, page, failed>>
LoseEnd(by) ==
    /\ "network" \in Events /\ ending[by] = "sent"
    /\ ending' = [ending EXCEPT ![by] = "answered"]
    /\ failed' = TRUE
    /\ UNCHANGED <<server, hook, flags, cover, lock, modals, page>>

\* The handshake: accepted, refused because the room is over, or never made.
Refuse ==
    /\ status = "connecting" /\ frames = <<>> /\ room = "over"
    /\ \E code \in {"notFound", "refused"} : frames' = <<code>>
    /\ UNCHANGED <<room, skipSent, hook, flags, cover, lock, modals, ending, page, failed>>
LoseLine ==
    /\ "network" \in Events /\ status \in {"connecting", "connected"}
    /\ frames' = <<"lost">> /\ skipSent' = FALSE /\ failed' = TRUE
    /\ UNCHANGED <<room, hook, flags, cover, lock, modals, ending, page>>

\* The same account opens the room in another tab, which takes the seat.
Replace ==
    /\ "otherTab" \in Events /\ room = "active" /\ Connected /\ ~ byServer
    /\ frames' = Append(frames, "replaced") /\ Len(frames) < MaxFrames
    /\ UNCHANGED <<room, skipSent, hook, flags, cover, lock, modals, ending, page, failed>>

-----------------------------------------------------------------------------
(* The hook.                                                                *)

\* Whatever changes the status or the presence renders the page once.
Render(s, p) ==
    /\ status' = s /\ present' = p
    /\ cover' = Rendered(s, p)
    /\ AutoExit(s, endRequested, report)

Open ==
    /\ page = "room" /\ status = "connecting" /\ frames = <<>> /\ room = "active"
    /\ opened' = TRUE
    /\ Render("connected", present)
    /\ UNCHANGED <<server, endKind, byServer, flags, lock, modals, ending, failed>>

\* onmessage: the first end event wins, the ones that trail it change nothing.
OnMessage(f) ==
    \/ /\ f = "partner"
       /\ Render(status, TRUE)
       /\ UNCHANGED <<endKind, byServer>>
    \/ /\ f \in EndEvents
       /\ byServer' = TRUE
       /\ endKind' = IF endKind = "none" THEN f ELSE endKind
       /\ Render("ended", present)

\* onclose: a close before the socket opened, or with a code, is an error, which
\* keeps its manual card; any other close is the end of the chat.
OnClose(f) ==
    \/ /\ byServer
       /\ UNCHANGED <<status, endKind, present, cover, page>>
    \/ /\ ~ byServer /\ (f # "lost" \/ ~ opened)
       /\ Render("error", present)
       /\ UNCHANGED endKind
    \/ /\ ~ byServer /\ f = "lost" /\ opened
       /\ endKind' = IF endKind = "none" THEN "ended" ELSE endKind
       /\ Render("ended", present)

Deliver ==
    /\ page = "room" /\ frames # <<>>
    /\ frames' = Tail(frames)
    /\ \/ OnMessage(Head(frames))
       \/ Head(frames) \in Closes /\ OnClose(Head(frames)) /\ UNCHANGED byServer
    /\ UNCHANGED <<room, skipSent, opened, flags, lock, modals, ending, failed>>

-----------------------------------------------------------------------------
(* Waiting for the partner.                                                 *)

\* The effect on stranded: a room that is neither over nor claimed is ended
\* through REST, and left once that call has been answered.
GiveUp(s) ==
    /\ stranded' = TRUE
    /\ IF ~ handled /\ ~ endRequested /\ s \notin {"ended", "error"}
       THEN /\ handled' = TRUE /\ endRequested' = TRUE
            /\ ending' = [ending EXCEPT !["wait"] = "sent"]
       ELSE UNCHANGED <<handled, endRequested, ending>>

\* PARTNER_WAIT_MS after the mount: the timer is cleared by the partner alone.
WaitOver ==
    /\ page = "room" /\ ~ present /\ ~ stranded
    /\ GiveUp(status)
    /\ UNCHANGED <<server, hook, skipRequested, cover, lock, modals, page, failed>>

\* Mutant: the timeout that does not stop at zero.
CountdownOn ==
    /\ page = "room" /\ cover.on = "shown"
    /\ lock' = lock - 1
    /\ UNCHANGED <<server, hook, flags, cover, modals, ending, page, failed>>

\* The one-second timeouts of the countdown.
Countdown ==
    /\ page = "room" /\ cover.on = "shown" /\ lock > 0
    /\ lock' = lock - 1
    /\ UNCHANGED <<server, hook, flags, cover, modals, ending, page, failed>>

\* The exit animation of the cover ends.
CoverGone ==
    /\ page = "room" /\ cover.on = "leaving"
    /\ cover' = [cover EXCEPT !.on = "gone"]
    /\ UNCHANGED <<server, hook, flags, lock, modals, ending, page, failed>>

\* send: false when the socket is not open.
SendSkip == skipSent' = (skipSent \/ (status = "connected" /\ opened))

\* skipFromConnecting, with the values of the render it was made in: of a shown
\* cover the partner is absent; a leaving one is a replay of the last shown.
SkipFromCover ==
    /\ page = "room" /\ cover.on \in {"shown", "leaving"} /\ lock = 0
    /\ ~ skipRequested /\ ~ endRequested
    /\ skipRequested' = TRUE
    /\ IF cover.online
       THEN SendSkip /\ UNCHANGED <<stranded, handled, endRequested, ending>>
       ELSE GiveUp(status) /\ UNCHANGED skipSent
    /\ UNCHANGED <<room, frames, hook, cover, lock, modals, page, failed>>

-----------------------------------------------------------------------------
(* Leaving on purpose.                                                      *)

Ask(d) ==
    /\ Free /\ Online
    /\ dialog' = d
    /\ UNCHANGED <<server, hook, flags, cover, lock, report, ending, page, failed>>
\* Both dialogs lie above the veil and can be closed at any time, the one that has
\* already sent its call too.
Stay ==
    /\ page = "room" /\ dialog # "none"
    /\ dialog' = "none"
    /\ UNCHANGED <<server, hook, flags, cover, lock, report, ending, page, failed>>

\* Skip, confirmed.
ConfirmSkip ==
    /\ page = "room" /\ dialog = "skip"
    /\ dialog' = "none" /\ skipRequested' = TRUE
    /\ SendSkip
    /\ UNCHANGED <<room, frames, hook, stranded, handled, endRequested, cover, lock,
                   report, ending, page, failed>>

\* Mutant: the exit is not claimed.
EndChatUnclaimed ==
    /\ page = "room" /\ dialog = "end" /\ ending["user"] = "none"
    /\ ending' = [ending EXCEPT !["user"] = "sent"]
    /\ UNCHANGED <<server, hook, flags, cover, lock, modals, page, failed>>

\* endChat: the exit is claimed before the call, for chat_ended comes first. The
\* button is disabled from then on; the page may be giving up already.
EndChat ==
    /\ page = "room" /\ dialog = "end" /\ ending["user"] = "none"
    /\ endRequested' = TRUE
    /\ ending' = [ending EXCEPT !["user"] = "sent"]
    /\ UNCHANGED <<server, hook, stranded, handled, skipRequested, cover, lock, modals,
                   page, failed>>

\* The continuation of chatApi.end, answered or failed. It outlives the page.
EndAnswered(by) ==
    /\ ending[by] = "answered"
    /\ ending' = [ending EXCEPT ![by] = "done"]
    /\ page' = IF by = "user" THEN "home" ELSE "search"
    /\ UNCHANGED <<server, hook, flags, cover, lock, modals, failed>>

\* The card of a failed connection, below every dialog: find a new match, or go home.
ErrorCard(to) ==
    /\ page = "room" /\ status = "error" /\ to \in {"home", "search"}
    /\ dialog = "none" /\ report = "closed"
    /\ page' = to
    /\ UNCHANGED <<server, hook, flags, cover, lock, modals, ending, failed>>

-----------------------------------------------------------------------------
(* The report form, which outlives the room.                                *)

OpenReport ==
    /\ Free
    /\ report' = "open"
    /\ UNCHANGED <<server, hook, flags, cover, lock, dialog, ending, page, failed>>
SubmitReport ==
    /\ page = "room" /\ report = "open"
    /\ report' = "sending"
    /\ UNCHANGED <<server, hook, flags, cover, lock, dialog, ending, page, failed>>

\* Answered: closed, or open again with a message. Closing is refused meanwhile.
ReportAnswered ==
    /\ page = "room" /\ report = "sending"
    /\ \E to \in {"closed", "open"} :
         report' = to /\ AutoExit(status, endRequested, to)
    /\ UNCHANGED <<server, hook, flags, cover, lock, dialog, ending, failed>>
\* Mutant: closing the form leaves the room it was open over on screen.
CloseReportOnly ==
    /\ page = "room" /\ report = "open"
    /\ report' = "closed"
    /\ UNCHANGED <<server, hook, flags, cover, lock, dialog, ending, page, failed>>

CloseReport ==
    /\ page = "room" /\ report = "open"
    /\ report' = "closed"
    /\ AutoExit(status, endRequested, "closed")
    /\ UNCHANGED <<server, hook, flags, cover, lock, dialog, ending, failed>>

-----------------------------------------------------------------------------
Browser ==
    \/ Deliver \/ WaitOver \/ Countdown \/ CoverGone
    \/ \E by \in Callers : EndAnswered(by)
Server ==
    \/ ServeSkip \/ Refuse \/ Open
    \/ \E by \in Callers : ServeEnd(by)
User ==
    \/ SkipFromCover \/ Ask("skip") \/ Ask("end") \/ Stay \/ ConfirmSkip \/ EndChat
    \/ ErrorCard("home") \/ ErrorCard("search")
    \/ OpenReport \/ SubmitReport \/ CloseReport
World ==
    \/ PartnerActs \/ LoseLine \/ Replace
    \/ \E by \in Callers : LoseEnd(by)
    \/ \E kind \in EndEvents : RoomEnds(kind)

Next == Browser \/ Server \/ User \/ ReportAnswered \/ World
Spec == Init /\ [][Next]_vars

\* Frames are delivered, timers fire, the room is ended when asked to: while one of these can
\* be taken, one of them is. Nothing is assumed of the users.
Progress == Browser \/ Server
FairSpec == Spec /\ WF_vars(Progress)
-----------------------------------------------------------------------------
(* Properties; one with a prime is about every step.                        *)

\* The page was giving up when its partner came after all, and the user ended the
\* chat meanwhile: two calls, each with a navigation of its own.
Both == ending["user"] # "none" /\ ending["wait"] # "none"

\* "End chat" means stop: whoever ended the chat is not sent into a search by
\* the chat_ended that overtakes the answer of the call (ChatRoomPage.tsx,
\* endRequestedRef), nor by the end of the room after the dialog was closed over it.
\* A page that was giving up already searches all the same.
EndMeansStop ==
    ending["user"] # "none" /\ ending["wait"] = "none" /\ page = "room" /\ status # "error"
    => page' # "search"

\* The next search starts only when the room is over, or it would be handed the
\* same room again (the comment on the stranded effect); unless the network
\* failed, or the user chose to from the card of an error.
OverBeforeSearch ==
    page = "room" /\ page' = "search" /\ status' # "error"
    => room = "over" \/ failed

\* The page is left once: no continuation navigates a user who has left by
\* another way, the card of a failed connection and the two calls of Both aside.
LeftOnce ==
    page # "room" /\ status # "error" /\ ~ Both => page' = page

\* What a reporter has typed is not thrown away by the end of the room, however it
\* comes. (The answer of a call of this client that ends the room does throw it away.)
ReportKept ==
    page = "room" /\ page' # "room" /\ ending' = ending => report' = "closed"

\* Leaving the room, in every order of its many ways out.
LeavesWell == EndMeansStop /\ OverBeforeSearch /\ LeftOnce /\ ReportKept

\* Nobody looks at the veil of a dead room for ever.
DeadRoomLeft == status = "ended" ~> page # "room" \/ report # "closed"

\* Nobody looks at the connecting cover for ever: the partner arrives, the room
\* is left, or the card of an error shows.
CoverLifts == cover.on = "shown" ~> cover.on # "shown" \/ page # "room"

\* No screen of the room is a dead end.
ComesOut == DeadRoomLeft /\ CoverLifts

\* A match that has landed cannot be skipped from the cover that leaves the
\* screen (the comment in skipFromConnecting).
LandedNeverSkipped ==
    [][ cover.on # "gone" /\ present => (skipRequested' => skipRequested) ]_vars
=============================================================================
