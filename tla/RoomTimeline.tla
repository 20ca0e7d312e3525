---------------------------- MODULE RoomTimeline ----------------------------
(***************************************************************************)
(* The transcript of one client of a private room (ChatRoomPage.tsx): the    *)
(* drafts drawn when Send is tapped, paired with the server's echoes by      *)
(* order alone, the refusals that retire a draft instead, and the view that  *)
(* follows the newest message or counts what it has not shown.               *)
(*                                                                         *)
(* The server answers one frame after the other, but an echo goes through    *)
(* the channel layer and a refusal straight back, so the refusal of a later  *)
(* frame may overtake the echo of an earlier one.                            *)
(***************************************************************************)
EXTENDS Naturals, SequencesExt

CONSTANTS
    MaxSends,   \* bound on the messages of this user
    MaxPartner, \* bound on the messages of the partner
    MaxReveals  \* bound on the reveal frames the server refuses

VARIABLES
    inbox,      \* frames on the way to the server: message numbers, 0 a reveal
    layer,      \* the room's broadcasts on their way through the channel layer
    wire,       \* frames on their way to the client
    line,       \* the socket: "open", "closing" (not told yet) or "closed"
    drafts,     \* pendingMessages
    messages,   \* the confirmed transcript
    tail,       \* lastMessageIdRef
    near,       \* nearBottomRef
    atBottom,   \* is the view really at the bottom?
    scrolled,   \* is a scroll event due?
    unseen,     \* the count of the pill
    sent, partnerSent, reveals

net    == <<inbox, layer, wire, line>>
view   == <<tail, near, atBottom, scrolled, unseen>>
counts == <<sent, partnerSent, reveals>>
vars == <<net, drafts, messages, view, counts>>

\* A message is its author and its number; a draft shows a message of this user.
Mine(i)   == <<"own", i>>
Theirs(i) == <<"partner", i>>
Draft(i)  == <<"draft", i>>
Error     == <<"error", 0>>
None      == <<"none", 0>>
Message   == {Mine(i) : i \in 1 .. MaxSends} \cup {Theirs(i) : i \in 1 .. MaxPartner}

TypeOK ==
    /\ inbox \in Seq(0 .. MaxSends) /\ layer \in Seq(Message)
    /\ wire \in Seq(Message \cup {Error})
    /\ line \in {"open", "closing", "closed"}
    /\ drafts \in Seq(1 .. MaxSends) /\ messages \in Seq(Message)
    /\ tail \in Message \cup {None} \cup {Draft(i) : i \in 1 .. MaxSends}
    /\ near \in BOOLEAN /\ atBottom \in BOOLEAN /\ scrolled \in BOOLEAN
    /\ unseen \in Nat
    /\ sent \in 0 .. MaxSends /\ partnerSent \in 0 .. MaxPartner /\ reveals \in 0 .. MaxReveals

Init ==
    /\ inbox = <<>> /\ layer = <<>> /\ wire = <<>> /\ line = "open"
    /\ drafts = <<>> /\ messages = <<>>
    /\ tail = None /\ near = TRUE /\ atBottom = TRUE /\ scrolled = FALSE /\ unseen = 0
    /\ sent = 0 /\ partnerSent = 0 /\ reveals = 0

Online == line # "closed"

-----------------------------------------------------------------------------
(* The layout effect, run by every step that changes what is rendered.      *)

\* allMessages: the confirmed messages, then the drafts, never sorted.
Newest(ms, ds) ==
    IF ds # <<>> THEN Draft(Last(ds)) ELSE IF ms # <<>> THEN Last(ms) ELSE None

\* Only a newest message that changed is acted on: a draft claims the bottom, an
\* echo keeps it, the partner's message is followed there or else counted.
Follow(ms, ds) ==
    LET t == Newest(ms, ds) IN
    /\ tail' = IF t = None THEN tail ELSE t
    /\ IF t = None \/ t = tail
       THEN atBottom' = (atBottom /\ ms = messages) /\ UNCHANGED <<near, unseen, scrolled>>
       ELSE IF t[1] = "draft" \/ near
       THEN near' = TRUE /\ atBottom' = TRUE /\ scrolled' = TRUE /\ UNCHANGED unseen
       ELSE /\ unseen' = IF t[1] = "partner" THEN unseen + 1 ELSE unseen
            /\ UNCHANGED <<near, atBottom, scrolled>>

Show(ms, ds) == messages' = ms /\ drafts' = ds /\ Follow(ms, ds)

-----------------------------------------------------------------------------
(* The user.                                                                *)

\* handleSend: a frame that did not leave draws no draft.
Send ==
    /\ Online /\ sent < MaxSends
    /\ sent' = sent + 1
    /\ IF line = "open"
       THEN inbox' = Append(inbox, sent + 1) /\ Show(messages, Append(drafts, sent + 1))
       ELSE UNCHANGED <<inbox, messages, drafts, view>>
    /\ UNCHANGED <<layer, wire, line, partnerSent, reveals>>

\* A reveal frame the server refuses: the request is already pending, or the
\* answer has none to answer.
Reveal ==
    /\ line = "open" /\ reveals < MaxReveals
    /\ reveals' = reveals + 1
    /\ inbox' = Append(inbox, 0)
    /\ UNCHANGED <<layer, wire, line, drafts, messages, view, sent, partnerSent>>

\* The user scrolls: away from the bottom, or back to it.
Scroll ==
    /\ messages # <<>>
    /\ atBottom' = ~ atBottom
    /\ scrolled' = TRUE
    /\ UNCHANGED <<net, drafts, messages, tail, near, unseen, counts>>

\* handleScroll, which an own scrollTo causes too.
ScrollEvent ==
    /\ scrolled
    /\ scrolled' = FALSE
    /\ near' = atBottom
    /\ unseen' = IF atBottom THEN 0 ELSE unseen
    /\ UNCHANGED <<net, drafts, messages, tail, atBottom, counts>>

\* The pill.
JumpDown ==
    /\ unseen > 0
    /\ unseen' = 0 /\ atBottom' = TRUE /\ scrolled' = TRUE
    /\ UNCHANGED <<net, drafts, messages, tail, near, counts>>

-----------------------------------------------------------------------------
(* The server.                                                              *)

\* A message is stored and broadcast, or refused: the limiter, an empty text.
Serve ==
    /\ inbox # <<>> /\ line = "open"
    /\ inbox' = Tail(inbox)
    /\ \/ /\ Head(inbox) # 0
          /\ layer' = Append(layer, Mine(Head(inbox)))
          /\ UNCHANGED wire
       \/ wire' = Append(wire, Error) /\ UNCHANGED layer
    /\ UNCHANGED <<line, drafts, messages, view, counts>>
Relay ==
    /\ layer # <<>> /\ line = "open"
    /\ layer' = Tail(layer)
    /\ wire' = Append(wire, Head(layer))
    /\ UNCHANGED <<inbox, line, drafts, messages, view, counts>>
PartnerSends ==
    /\ line = "open" /\ partnerSent < MaxPartner
    /\ partnerSent' = partnerSent + 1
    /\ layer' = Append(layer, Theirs(partnerSent + 1))
    /\ UNCHANGED <<inbox, wire, line, drafts, messages, view, sent, reveals>>

\* The socket closes, and the page learns of it later.
Close ==
    /\ line = "open"
    /\ line' = "closing"
    /\ UNCHANGED <<inbox, layer, wire, drafts, messages, view, counts>>

-----------------------------------------------------------------------------
(* The client.                                                              *)

Retired == IF drafts = <<>> THEN <<>> ELSE Tail(drafts)

\* Mutant: a refusal is a toast and no more.
HandleServerErrorOnly ==
    /\ wire # <<>> /\ Head(wire) = Error
    /\ wire' = Tail(wire)
    /\ UNCHANGED <<inbox, layer, line, drafts, messages, view, counts>>

\* handleServerError: the oldest draft is retired, whatever was refused.
HandleServerError ==
    /\ wire # <<>> /\ Head(wire) = Error
    /\ wire' = Tail(wire)
    /\ Show(messages, Retired)
    /\ UNCHANGED <<inbox, layer, line, counts>>

\* A message of the transcript; an own one retires the oldest draft.
Receive ==
    /\ wire # <<>> /\ Head(wire) # Error
    /\ wire' = Tail(wire)
    /\ Show(Append(messages, Head(wire)),
            IF Head(wire)[1] = "own" THEN Retired ELSE drafts)
    /\ UNCHANGED <<inbox, layer, line, counts>>

\* onclose, once the frames before it are read: a dead socket confirms nothing.
Closed ==
    /\ line = "closing" /\ wire = <<>>
    /\ line' = "closed"
    /\ inbox' = <<>> /\ layer' = <<>>
    /\ Show(messages, <<>>)
    /\ UNCHANGED <<wire, counts>>

-----------------------------------------------------------------------------
User   == Send \/ Reveal \/ Scroll \/ JumpDown
Server == Serve \/ Relay
Client == Receive \/ HandleServerError \/ Closed \/ ScrollEvent
Next == User \/ Server \/ Client \/ PartnerSends \/ Close
Spec == Init /\ [][Next]_vars

\* The server answers, the browser delivers. Nothing is assumed of the users.
Progress == Server \/ Receive \/ HandleServerError \/ Closed
FairSpec == Spec /\ WF_vars(Progress) /\ WF_vars(ScrollEvent)
-----------------------------------------------------------------------------
(* Properties; one with a prime is about every step.                        *)

\* "the newest one stays on screen beside its own confirmed copy - the duplicated
\* message, for the rest of the room": no draft is shown beside its copy.
NoDoubles == \A i \in DOMAIN drafts : ~ Contains(messages, Mine(drafts[i]))

\* Every draft has an outcome: no half-opacity ghost stays on screen.
DraftsSettle == drafts # <<>> ~> drafts = <<>>

\* Somebody at the bottom is not told of new messages for ever.
PillGoes == unseen > 0 /\ atBottom ~> unseen = 0 \/ ~ atBottom

\* What the transcript shows as unfinished is finished.
TimelineSettles == DraftsSettle /\ PillGoes

\* "a refusal belongs to the oldest unconfirmed draft" (handleServerError): what
\* was sent stays on screen, as its draft or its copy, until it is refused.
SentStaysShown ==
    line = "open" =>
        \A i \in 1 .. sent :
            Contains(inbox, i) \/ Contains(layer, Mine(i)) => Contains(drafts, i)
=============================================================================
