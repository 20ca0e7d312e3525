---------------------------- MODULE RoomClient ----------------------------
(***************************************************************************)
(* The screens of a private chat, from the search on, one per behaviour.    *)
(***************************************************************************)
EXTENDS Naturals

CONSTANTS
    Calls, MaxSessions, MaxFails,           \* the search (SearchClient)
    Widths, Eps, MaxRows, MaxChanges,       \* its game (StackGame)
    Events, Lock,                           \* the ways out of the room (RoomExit)
    Clients, MaxClicks,                     \* the two clients (RoomPair)
    MaxSends, MaxPartner, MaxReveals,       \* the transcript (RoomTimeline)
    Messages, Emoji,                        \* what is said beside it (RoomTalk)
    MaxFrames                               \* bound on the frames on their way to a client

\* Canvases have whole widths, and a smallest one, the first; a room has two clients.
ASSUME ScreensAssumption ==
    /\ "none" \notin Calls
    /\ Widths \subseteq Nat /\ \E w \in Widths : \A v \in Widths : w <= v
    /\ Eps \in Nat /\ Lock \in Nat
    /\ \E a, b \in Clients : a # b /\ Clients = {a, b}
    /\ MaxFails \in Nat /\ MaxRows \in Nat \ {0} /\ MaxChanges \in Nat
    /\ MaxClicks \in Nat /\ MaxSends \in Nat /\ MaxPartner \in Nat /\ MaxReveals \in Nat

VARIABLES
    focus,  \* the screen this behaviour is about: the others stand still
    session, active, inFlight, searchPending, searchTimer, searching, starting,
    searchPage, spaced, calls, again, leaves, ends, queued, searchRoom, fails,
    overlapped,
    gone, width, gamePhase, blocks, current, score, combo, best, moving, looping,
    redraw, gameTimer, painted, changes,
    exitRoom, frames, skipSent, status, endKind, opened, byServer, present, stranded,
    handled, skipRequested, endRequested, cover, lock, dialog, report, ending, exitPage,
    failed,
    joined, up, down, answered, here, pairPhase, known, seen, clicking, responding,
    clicks, pairPending, completed,
    inbox, layer, timelineWire, timelineLine, drafts, messages, tail, near, atBottom,
    scrolled, unseen, sent, partnerSent, reveals,
    talkLine, talkWire, draft, typingSent, stopTimer, picked, picker, press, replyTo,
    shown, hideTimer, copy

Search == INSTANCE SearchClientProofs WITH
    pending <- searchPending, timer <- searchTimer, page <- searchPage, room <- searchRoom
Game == INSTANCE StackGameProofs WITH phase <- gamePhase, timer <- gameTimer
Exit == INSTANCE RoomExit WITH room <- exitRoom, page <- exitPage
Pair == INSTANCE RoomPairProofs WITH phase <- pairPhase, pending <- pairPending
Timeline == INSTANCE RoomTimeline WITH wire <- timelineWire, line <- timelineLine
Talk == INSTANCE RoomTalk WITH line <- talkLine, wire <- talkWire

\* What a step of one screen leaves alone.
SearchRest == <<focus, gone, width, gamePhase, blocks, current, score, combo, best,
                moving, looping, redraw, gameTimer, painted, changes, exitRoom, frames,
                skipSent, status, endKind, opened, byServer, present, stranded, handled,
                skipRequested, endRequested, cover, lock, dialog, report, ending,
                exitPage, failed, joined, up, down, answered, here, pairPhase, known,
                seen, clicking, responding, clicks, pairPending, completed, inbox,
                layer, timelineWire, timelineLine, drafts, messages, tail, near,
                atBottom, scrolled, unseen, sent, partnerSent, reveals, talkLine,
                talkWire, draft, typingSent, stopTimer, picked, picker, press, replyTo,
                shown, hideTimer, copy>>
GameRest == <<focus, session, active, inFlight, searchPending, searchTimer, searching,
              starting, searchPage, spaced, calls, again, leaves, ends, queued,
              searchRoom, fails, overlapped, exitRoom, frames, skipSent, status,
              endKind, opened, byServer, present, stranded, handled, skipRequested,
              endRequested, cover, lock, dialog, report, ending, exitPage, failed,
              joined, up, down, answered, here, pairPhase, known, seen, clicking,
              responding, clicks, pairPending, completed, inbox, layer, timelineWire,
              timelineLine, drafts, messages, tail, near, atBottom, scrolled, unseen,
              sent, partnerSent, reveals, talkLine, talkWire, draft, typingSent,
              stopTimer, picked, picker, press, replyTo, shown, hideTimer, copy>>
ExitRest == <<focus, session, active, inFlight, searchPending, searchTimer, searching,
              starting, searchPage, spaced, calls, again, leaves, ends, queued,
              searchRoom, fails, overlapped, gone, width, gamePhase, blocks, current,
              score, combo, best, moving, looping, redraw, gameTimer, painted, changes,
              joined, up, down, answered, here, pairPhase, known, seen, clicking,
              responding, clicks, pairPending, completed, inbox, layer, timelineWire,
              timelineLine, drafts, messages, tail, near, atBottom, scrolled, unseen,
              sent, partnerSent, reveals, talkLine, talkWire, draft, typingSent,
              stopTimer, picked, picker, press, replyTo, shown, hideTimer, copy>>
PairRest == <<focus, session, active, inFlight, searchPending, searchTimer, searching,
              starting, searchPage, spaced, calls, again, leaves, ends, queued,
              searchRoom, fails, overlapped, gone, width, gamePhase, blocks, current,
              score, combo, best, moving, looping, redraw, gameTimer, painted, changes,
              exitRoom, frames, skipSent, status, endKind, opened, byServer, present,
              stranded, handled, skipRequested, endRequested, cover, lock, dialog,
              report, ending, exitPage, failed, inbox, layer, timelineWire,
              timelineLine, drafts, messages, tail, near, atBottom, scrolled, unseen,
              sent, partnerSent, reveals, talkLine, talkWire, draft, typingSent,
              stopTimer, picked, picker, press, replyTo, shown, hideTimer, copy>>
TimelineRest == <<focus, session, active, inFlight, searchPending, searchTimer,
                  searching, starting, searchPage, spaced, calls, again, leaves, ends,
                  queued, searchRoom, fails, overlapped, gone, width, gamePhase, blocks,
                  current, score, combo, best, moving, looping, redraw, gameTimer,
                  painted, changes, exitRoom, frames, skipSent, status, endKind, opened,
                  byServer, present, stranded, handled, skipRequested, endRequested,
                  cover, lock, dialog, report, ending, exitPage, failed, joined, up,
                  down, answered, here, pairPhase, known, seen, clicking, responding,
                  clicks, pairPending, completed, talkLine, talkWire, draft, typingSent,
                  stopTimer, picked, picker, press, replyTo, shown, hideTimer, copy>>
TalkRest == <<focus, session, active, inFlight, searchPending, searchTimer, searching,
              starting, searchPage, spaced, calls, again, leaves, ends, queued,
              searchRoom, fails, overlapped, gone, width, gamePhase, blocks, current,
              score, combo, best, moving, looping, redraw, gameTimer, painted, changes,
              exitRoom, frames, skipSent, status, endKind, opened, byServer, present,
              stranded, handled, skipRequested, endRequested, cover, lock, dialog,
              report, ending, exitPage, failed, joined, up, down, answered, here,
              pairPhase, known, seen, clicking, responding, clicks, pairPending,
              completed, inbox, layer, timelineWire, timelineLine, drafts, messages,
              tail, near, atBottom, scrolled, unseen, sent, partnerSent, reveals>>

Init ==
    /\ focus \in {"search", "game", "exit", "pair", "timeline", "talk"}
    /\ Search!Init /\ Game!Init /\ Exit!Init /\ Pair!Init
    /\ Timeline!Init /\ Talk!Init

Next ==
    \/ focus = "search" /\ Search!Next /\ UNCHANGED SearchRest
    \/ focus = "game" /\ Game!Next /\ UNCHANGED GameRest
    \/ focus = "exit" /\ Exit!Next /\ UNCHANGED ExitRest
    \/ focus = "pair" /\ Pair!Next /\ UNCHANGED PairRest
    \/ focus = "timeline" /\ Timeline!Next /\ UNCHANGED TimelineRest
    \/ focus = "talk" /\ Talk!Next /\ UNCHANGED TalkRest

vars == <<focus, Search!vars, Game!vars, Exit!vars, Pair!vars, Timeline!vars, Talk!vars>>
Spec == Init /\ [][Next]_vars

\* A step of the screen that runs changes its own variables only.
FairSpec ==
    /\ Spec
    /\ WF_Search!vars(focus = "search" /\ Search!Progress /\ UNCHANGED SearchRest)
    /\ WF_Game!vars(focus = "game" /\ Game!Restart /\ UNCHANGED GameRest)
    /\ WF_Game!vars(focus = "game" /\ Game!Tick /\ UNCHANGED GameRest)
    /\ WF_Exit!vars(focus = "exit" /\ Exit!Progress /\ UNCHANGED ExitRest)
    /\ WF_Pair!vars(focus = "pair" /\ Pair!Progress /\ UNCHANGED PairRest)
    /\ WF_Timeline!vars(focus = "timeline" /\ Timeline!Progress /\ UNCHANGED TimelineRest)
    /\ WF_Timeline!vars(focus = "timeline" /\ Timeline!ScrollEvent /\ UNCHANGED TimelineRest)
    /\ WF_Talk!vars(focus = "talk" /\ Talk!Hide /\ UNCHANGED TalkRest)

\* The types of the screen that runs, and its properties, which its module states: the
\* others keep their initial values.
TypeOK ==
    /\ focus = "search" => Search!TypeOK
    /\ focus = "game" => Game!TypeOK
    /\ focus = "exit" => Exit!TypeOK
    /\ focus = "pair" => Pair!TypeOK
    /\ focus = "timeline" => Timeline!TypeOK
    /\ focus = "talk" => Talk!TypeOK

\* "Making 'not waiting' the last word" (releaseQueueSlot): a user who has
\* stopped, with nothing left in the air, is neither queued nor missed in a room,
\* unless a call failed or two were in the air together.
NoGhost == focus = "search" => Search!NoGhost

\* Who goes on searching finds the room a partner has opened: a later start/ is
\* the only way to learn of it.
MatchFound == (focus = "search") => Search!MatchFound

\* The game never freezes on the screen, its tower stands, and it ends with the search.
GameSafe == focus = "game" => Game!GameSafe

\* A lost game begins again by itself, or the search is over; a game that nobody
\* starts costs no frames.
GameComesBack == (focus = "game") => Game!GameComesBack

\* Leaving the room, in every order of its many ways out.
LeavesWell == [][Exit!LeavesWell]_vars

\* No screen of the room is a dead end.
ComesOut == (focus = "exit") => Exit!ComesOut

\* With nothing in flight, both clients know each other or neither does, and
\* they do exactly when the server has recorded the reveal.
RevealAgrees == focus = "pair" => Pair!RevealAgrees

\* A message is on the screen once (RoomTimeline), and the reactions and the typing
\* indicator are those of the partner (RoomTalk).
RoomSafe ==
    /\ focus = "timeline" => Timeline!NoDoubles
    /\ focus = "talk" => Talk!TalkSafe

\* Left alone, the handshake and the reveal are answered, every draft has met its
\* answer, and nobody is shown typing for ever.
RoomSettles ==
    /\ focus = "pair" => Pair!PairSettles
    /\ focus = "timeline" => Timeline!TimelineSettles
    /\ focus = "talk" => Talk!IndicatorGoes
============================================================
