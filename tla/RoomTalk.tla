------------------------------ MODULE RoomTalk ------------------------------
(***************************************************************************)
(* What one user of a private room says beside the messages: that they are  *)
(* typing, and the reactions they leave (ChatRoomPage.tsx), with what the   *)
(* partner's client makes of the frames (useChatSocket.ts). The reaction    *)
(* picker, the press that is held to open it, and the reply it competes     *)
(* with on one bubble belong to it.                                         *)
(*                                                                         *)
(* The messages shown here are confirmed; RoomTimeline has the drafts.      *)
(***************************************************************************)
EXTENDS Naturals, Sequences

CONSTANTS
    Messages,   \* messages of the transcript
    Emoji,      \* QUICK_REACTIONS
    MaxFrames   \* bound on the frames on their way to the partner

VARIABLES
    line,       \* the socket of the user: "open", "closing" (not told yet), "closed"
    wire,       \* frames on their way to the partner
    draft,      \* is there text in the composer?
    typingSent, \* typingSentRef
    stopTimer,  \* is the debounce of the indicator running?
    picked,     \* reactions: the user's own
    picker,     \* pickerFor
    press,      \* the bubble a finger is held on
    replyTo,
    shown,      \* partner: is the indicator shown?
    hideTimer,  \* partner: is the timer that hides it running?
    copy        \* partner: partnerReactions

typing  == <<draft, typingSent, stopTimer>>
gesture == <<picker, press, replyTo>>
partner == <<shown, hideTimer, copy>>
vars == <<line, wire, typing, picked, gesture, partner>>

None == "none"
TypingFrame(b) == <<"typing", b>>
Text == <<"text">>
Reaction(m, e) == <<"reaction", m, e>>
Frame == {TypingFrame(b) : b \in BOOLEAN} \cup {Text}
         \cup {Reaction(m, e) : m \in Messages, e \in Emoji \cup {None}}

TypeOK ==
    /\ line \in {"open", "closing", "closed"} /\ wire \in Seq(Frame)
    /\ draft \in BOOLEAN /\ typingSent \in BOOLEAN /\ stopTimer \in BOOLEAN
    /\ picked \in [Messages -> Emoji \cup {None}]
    /\ picker \in Messages \cup {None} /\ press \in Messages \cup {None}
    /\ replyTo \in Messages \cup {None}
    /\ shown \in BOOLEAN /\ hideTimer \in BOOLEAN
    /\ copy \in [Messages -> Emoji \cup {None}]

Init ==
    /\ line = "open" /\ wire = <<>>
    /\ draft = FALSE /\ typingSent = FALSE /\ stopTimer = FALSE
    /\ picked = [m \in Messages |-> None]
    /\ picker = None /\ press = None /\ replyTo = None
    /\ shown = FALSE /\ hideTimer = FALSE /\ copy = [m \in Messages |-> None]

-----------------------------------------------------------------------------
(* The composer.                                                            *)

Online == line # "closed"

\* sendFrame: a socket that is not open drops the frames.
Say(frames) == wire' = IF line = "open" THEN wire \o frames ELSE wire

\* handleDraft: every key restarts the debounce, the first one speaks.
Type ==
    /\ Online /\ Len(wire) < MaxFrames
    /\ draft' = TRUE /\ typingSent' = TRUE /\ stopTimer' = TRUE
    /\ Say(IF typingSent THEN <<>> ELSE <<TypingFrame(TRUE)>>)
    /\ UNCHANGED <<line, picked, gesture, partner>>

\* A conversation starter fills the composer without a word to the partner.
Starter ==
    /\ Online
    /\ draft' = TRUE
    /\ UNCHANGED <<line, wire, typingSent, stopTimer, picked, gesture, partner>>

Pause ==
    /\ stopTimer
    /\ stopTimer' = FALSE /\ typingSent' = FALSE
    /\ Say(<<TypingFrame(FALSE)>>)
    /\ UNCHANGED <<line, draft, picked, gesture, partner>>

\* submit and handleSend: the message, then the end of the typing.
Submit ==
    /\ draft /\ Online /\ Len(wire) < MaxFrames
    /\ draft' = FALSE /\ stopTimer' = FALSE /\ typingSent' = FALSE
    /\ replyTo' = IF line = "open" THEN None ELSE replyTo
    /\ Say(<<Text>> \o IF typingSent THEN <<TypingFrame(FALSE)>> ELSE <<>>)
    /\ UNCHANGED <<line, picked, picker, press, partner>>

CancelReply ==
    /\ replyTo # None
    /\ replyTo' = None
    /\ UNCHANGED <<line, wire, typing, picked, picker, press, partner>>

-----------------------------------------------------------------------------
(* A bubble.                                                                *)

\* A finger goes down: any open picker closes, and the hold begins.
Press(m) ==
    /\ Online
    /\ press' = m /\ picker' = None
    /\ UNCHANGED <<line, wire, typing, picked, replyTo, partner>>

\* It lifts, or drifts away.
Release ==
    /\ press # None
    /\ press' = None
    /\ UNCHANGED <<line, wire, typing, picked, picker, replyTo, partner>>

\* SwipeToReply, whose drag is the drift that cancels the hold; startReply.
Swipe ==
    /\ press # None /\ Online
    /\ replyTo' = press /\ press' = None
    /\ UNCHANGED <<line, wire, typing, picked, picker, partner>>

Hold ==
    /\ press # None
    /\ picker' = press /\ press' = None
    /\ UNCHANGED <<line, wire, typing, picked, replyTo, partner>>

\* togglePicker: the button of a pointer, and the tag of an own reaction.
TogglePicker(m) ==
    /\ Online
    /\ picker' = IF picker = m THEN None ELSE m
    /\ UNCHANGED <<line, wire, typing, picked, press, replyTo, partner>>

\* A press outside, the wheel, or Escape.
Dismiss ==
    /\ picker # None
    /\ picker' = None
    /\ UNCHANGED <<line, wire, typing, picked, press, replyTo, partner>>

\* toggleReaction: the frame holds the whole new state of the message.
ToggleReaction(e) ==
    LET next == IF picked[picker] = e THEN None ELSE e IN
    /\ picker # None /\ Online /\ Len(wire) < MaxFrames
    /\ picked' = [picked EXCEPT ![picker] = next]
    /\ Say(<<Reaction(picker, next)>>)
    /\ picker' = None
    /\ UNCHANGED <<line, typing, press, replyTo, partner>>

-----------------------------------------------------------------------------
(* The partner's client.                                                    *)

HearTyping(b) == shown' = b /\ hideTimer' = b /\ UNCHANGED copy

Hear ==
    /\ wire # <<>>
    /\ wire' = Tail(wire)
    /\ LET f == Head(wire) IN
       \/ f[1] = "typing" /\ HearTyping(f[2])
       \/ f[1] = "text" /\ shown' = FALSE /\ UNCHANGED <<hideTimer, copy>>
       \/ /\ f[1] = "reaction"
          /\ copy' = [copy EXCEPT ![f[2]] = f[3]]
          /\ UNCHANGED <<shown, hideTimer>>
    /\ UNCHANGED <<line, typing, picked, gesture>>

Hide ==
    /\ hideTimer
    /\ hideTimer' = FALSE /\ shown' = FALSE
    /\ UNCHANGED <<line, wire, typing, picked, gesture, copy>>

-----------------------------------------------------------------------------
(* The connection of the user breaks, with what was on its way, and the     *)
(* page learns of it later.                                                 *)
Drop ==
    /\ line = "open"
    /\ line' = "closing"
    /\ wire' \in {wire, <<>>}
    /\ UNCHANGED <<typing, picked, gesture, partner>>
Closed ==
    /\ line = "closing"
    /\ line' = "closed"
    /\ UNCHANGED <<wire, typing, picked, gesture, partner>>

-----------------------------------------------------------------------------
User ==
    \/ Type \/ Starter \/ Submit \/ CancelReply \/ Release \/ Swipe \/ Dismiss
    \/ \E m \in Messages : Press(m) \/ TogglePicker(m)
    \/ \E e \in Emoji : ToggleReaction(e)
Next == User \/ Pause \/ Hold \/ Hear \/ Hide \/ Drop \/ Closed
Spec == Init /\ [][Next]_vars

\* The timer of the partner fires. Nothing is assumed of the network.
FairSpec == Spec /\ WF_vars(Hide)
-----------------------------------------------------------------------------
(* Properties.                                                              *)

\* "replays and reordering converge instead of toggling" (handle_reaction): once
\* the frames are read, the partner sees the reactions the user has left.
CopiesAgree == line = "open" /\ wire = <<>> => copy = picked

\* The indicator is there because of somebody who types, or has just stopped.
IndicatorTrue ==
    line = "open" /\ shown =>
        typingSent \/ \E i \in DOMAIN wire : wire[i] = TypingFrame(FALSE)

\* What the partner is shown of reactions and typing is true.
TalkSafe == CopiesAgree /\ IndicatorTrue

\* Nobody types for ever: the indicator goes even when the frame that ends it is
\* lost with the connection.
IndicatorGoes == shown ~> ~ shown
=============================================================================
