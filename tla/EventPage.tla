------------------------------ MODULE EventPage ------------------------------
(***************************************************************************)
(* The page of an event (EventDetailPage.tsx) with the form that edits it      *)
(* (event-shared.tsx): what a student reads before joining, and where its host *)
(* has the controls. Whether one has joined is asked of the messages endpoint, *)
(* whose answer is cached for the chat page as well; who has joined is sent on *)
(* to the chat. A call may be answered after the page was left, or never.      *)
(***************************************************************************)
EXTENDS Naturals

CONSTANTS
    MaxTaps,    \* bound on what the user does
    MaxFaults,  \* bound on the calls and the queries whose answer is lost
    MaxMoves    \* bound on what others do

VARIABLES
    event,      \* server
    member,     \* server: is the user a participant?
    host,       \* "unknown" until the page is first opened
    page,
    data, dataFetch, failed,    \* the details, and whether the last fetch failed
    probe, probeFetch,          \* the messages query, as far as it tells of membership
    kept,       \* has the messages query data, of an earlier success?
    stale,      \* queries invalidated while no page used them
    overtaken,  \* the event was edited, and nothing tells the page
    unaware,    \* the membership changed, and nothing told the page
    dialog, form,
    calls,
    asked,      \* did the host ask for the chat?
    taps, faults, moves

server  == <<event, member>>
queries == <<data, dataFetch, failed, probe, probeFetch, kept, stale, overtaken,
             unaware>>
screen  == <<host, page, dialog, form, asked>>
counts  == <<taps, faults, moves>>
vars == <<server, queries, screen, calls, counts>>

Event == [status : {"active", "ended", "cancelled"}, text : 0 .. 1, crowd : BOOLEAN]
None  == [status |-> "none"]
Asked == [status |-> "asked"]
Lost  == [status |-> "lost"]
Kinds == {"join", "leave", "edit", "cancel"}
Idle  == [pc |-> "idle"]

TypeOK ==
    /\ event \in Event /\ member \in BOOLEAN
    /\ host \in {"unknown", "yes", "no"} /\ page \in {"list", "detail", "chat"}
    /\ data \in Event \cup {None} /\ dataFetch \in Event \cup {None, Asked, Lost}
    /\ failed \in BOOLEAN
    /\ probe \in {"none", "pending", "joined", "notJoined", "failed"}
    /\ probeFetch \in {"none", "asked", "joined", "notJoined", "failed"}
    /\ kept \in BOOLEAN /\ stale \subseteq {"data", "probe"}
    /\ overtaken \in BOOLEAN /\ unaware \in BOOLEAN
    /\ dialog \in {"none", "identity", "edit", "cancel"} /\ form \in 0 .. 1
    /\ asked \in BOOLEAN
    /\ \A k \in Kinds : calls[k].pc \in {"idle", "sent", "ok", "already", "refused", "lost"}
    /\ taps \in 0 .. MaxTaps /\ faults \in 0 .. MaxFaults /\ moves \in 0 .. MaxMoves

Init ==
    /\ event = [status |-> "active", text |-> 0, crowd |-> FALSE] /\ member = FALSE
    /\ host = "unknown" /\ page = "list"
    /\ data = None /\ dataFetch = None /\ failed = FALSE
    /\ probe = "none" /\ probeFetch = "none"
    /\ kept = FALSE /\ stale = {} /\ overtaken = FALSE /\ unaware = FALSE
    /\ dialog = "none" /\ form = 0 /\ asked = FALSE
    /\ calls = [k \in Kinds |-> Idle]
    /\ taps = 0 /\ faults = 0 /\ moves = 0

Tap  == taps < MaxTaps /\ taps' = taps + 1 /\ UNCHANGED <<faults, moves>>
Move == moves < MaxMoves /\ moves' = moves + 1 /\ UNCHANGED <<taps, faults>>
Fault == faults < MaxFaults /\ faults' = faults + 1 /\ UNCHANGED <<taps, moves>>

\* An event that the page takes for running; what the page shows of it.
isActive == data.status = "active"
Shown    == page = "detail" /\ data # None /\ ~ failed
Observed == page' \in {"detail", "chat"}
-----------------------------------------------------------------------------
(* The two queries.                                                         *)

\* A fetch of the messages that starts: without data the page shows it is loading.
AskProbe == probeFetch' = "asked" /\ probe' = IF kept THEN probe ELSE "pending"

\* A page that uses the queries is mounted: what is missing, has failed or is stale is
\* asked for, what is older than its half minute too. What is being fetched is not.
Mount ==
    /\ dataFetch' \in IF dataFetch # None THEN {dataFetch}
                      ELSE IF data = None \/ failed \/ "data" \in stale THEN {Asked}
                      ELSE {None, Asked}
    /\ \/ isActive /\ probeFetch = "none" /\ AskProbe
       \/ /\ isActive /\ probeFetch = "none" => kept /\ "probe" \notin stale
          /\ UNCHANGED <<probe, probeFetch>>
    /\ stale' = {} /\ UNCHANGED <<data, failed, kept, overtaken, unaware>>

\* invalidateQueries: a query in use is asked for, again only if it has data; another one
\* when it is used, unless a fetch on its way clears the mark.
Invalidate(keys) ==
    /\ IF Observed
       THEN /\ dataFetch' = IF "data" \in keys /\ (data # None \/ dataFetch = None)
                           THEN Asked ELSE dataFetch
            /\ IF "probe" \in keys /\ isActive /\ (kept \/ probeFetch = "none")
               THEN AskProbe ELSE UNCHANGED <<probe, probeFetch>>
            /\ UNCHANGED stale
       ELSE stale' = stale \cup keys /\ UNCHANGED <<dataFetch, probe, probeFetch>>
    /\ overtaken' = (\/ overtaken \/ (dialog = "edit" /\ page' # page)
                     \/ "data" \in keys /\ dataFetch # None /\ dataFetch' # Asked)
    /\ unaware' = (unaware \/ ("probe" \in keys /\ probeFetch # "none" /\ probeFetch' # "asked"))
    /\ UNCHANGED <<data, failed, kept>>

ServeQuery ==
    /\ \/ dataFetch = Asked /\ dataFetch' = event /\ overtaken' = FALSE
          /\ UNCHANGED <<probeFetch, unaware>>
       \/ /\ probeFetch = "asked" /\ unaware' = FALSE
          /\ probeFetch' = IF member THEN "joined" ELSE "notJoined"
          /\ UNCHANGED <<dataFetch, overtaken>>
    /\ UNCHANGED <<server, data, failed, probe, kept, stale, screen, calls, counts>>
LoseQuery ==
    /\ Fault
    /\ \/ dataFetch = Asked /\ dataFetch' = Lost /\ UNCHANGED probeFetch
       \/ probeFetch = "asked" /\ probeFetch' = "failed" /\ UNCHANGED dataFetch
    /\ UNCHANGED <<server, data, failed, probe, kept, stale, overtaken, unaware, screen,
                   calls>>

\* The details: the first that say the event is on start the probe, and an edit form that
\* is open starts over when they have changed.
HearData ==
    /\ dataFetch \notin {None, Asked} /\ dataFetch' = None
    /\ failed' = (dataFetch = Lost)
    /\ data' = IF dataFetch = Lost THEN data ELSE dataFetch
    /\ stale' = stale \ {"data"}
    /\ form' = IF dialog = "edit" /\ data' # data THEN data'.text ELSE form
    /\ IF data'.status = "active" /\ probe = "none" /\ page # "list"
       THEN AskProbe
       ELSE UNCHANGED <<probe, probeFetch>>
    /\ UNCHANGED <<server, kept, overtaken, unaware, host, page, dialog, asked, calls,
                   counts>>
HearProbe ==
    /\ probeFetch \notin {"none", "asked"} /\ probeFetch' = "none"
    /\ probe' = probeFetch /\ stale' = stale \ {"probe"}
    /\ kept' = (kept \/ probeFetch = "joined")
    /\ UNCHANGED <<server, data, dataFetch, failed, overtaken, unaware, screen, calls,
                   counts>>

-----------------------------------------------------------------------------
(* Coming and going.                                                        *)

\* Whoever comes first is the host or is not, and may have joined on another day.
Visit ==
    /\ page = "list" /\ Tap /\ page' = "detail"
    /\ IF host = "unknown" THEN host' \in {"yes", "no"} /\ member' \in BOOLEAN
       ELSE UNCHANGED <<host, member>>
    /\ asked' = (calls["join"].pc # "idle")
    /\ Mount
    /\ UNCHANGED <<event, dialog, form, calls>>
Back ==
    /\ page # "list" /\ Tap /\ dialog = "none"
    /\ page' = "list"
    /\ UNCHANGED <<server, queries, host, dialog, form, asked, calls>>
OpenChat ==
    /\ Shown /\ isActive /\ probe = "joined" /\ dialog = "none" /\ Tap
    /\ page' = "chat" /\ asked' = TRUE
    /\ Mount
    /\ UNCHANGED <<server, host, dialog, form, calls>>

\* Who has joined has nothing left to read here; the host has.
Redirect ==
    /\ page = "detail" /\ isActive /\ probe = "joined" /\ host = "no"
    /\ page' = "chat" /\ dialog' = "none"
    /\ Mount
    /\ UNCHANGED <<server, host, form, asked, calls, counts>>

-----------------------------------------------------------------------------
(* Dialogs and calls.                                                       *)

Send(k, text) ==
    /\ calls[k] = Idle
    /\ calls' = [calls EXCEPT ![k] = [pc |-> "sent", text |-> text]]

\* An event whose chat is anonymous is joined at once, another after a warning.
TapJoin ==
    /\ Shown /\ isActive /\ probe = "notJoined" /\ dialog = "none" /\ Tap
    /\ \/ Send("join", 0) /\ asked' = TRUE /\ UNCHANGED dialog
       \/ calls["join"] = Idle /\ dialog' = "identity" /\ UNCHANGED <<calls, asked>>
    /\ UNCHANGED <<server, queries, host, page, form>>
ConfirmJoin ==
    /\ dialog = "identity" /\ dialog' = "none"
    /\ Send("join", 0) /\ asked' = TRUE
    /\ UNCHANGED <<server, queries, host, page, form, counts>>
Leave ==
    /\ page = "chat" /\ isActive /\ probe = "joined" /\ Tap
    /\ Send("leave", 0)
    /\ UNCHANGED <<server, queries, screen>>

OpenDialog(d) ==
    /\ Shown /\ isActive /\ host = "yes" /\ dialog = "none" /\ Tap
    /\ dialog' = d
    /\ form' = IF d = "edit" THEN data.text ELSE form
    /\ UNCHANGED <<server, queries, host, page, asked, calls>>
\* Closing the form asks for the details anew.
CloseDialog ==
    /\ dialog # "none" /\ dialog' = "none"
    /\ page' = page
    /\ IF dialog = "edit" THEN Invalidate({"data", "probe"}) ELSE UNCHANGED queries
    /\ UNCHANGED <<server, host, form, asked, calls, counts>>
Submit ==
    /\ dialog = "edit" /\ Tap
    /\ \E text \in 0 .. 1 : form' = text /\ Send("edit", text)
    /\ UNCHANGED <<server, queries, host, page, dialog, asked>>
ConfirmCancel ==
    /\ dialog = "cancel" /\ Tap
    /\ Send("cancel", 0)
    /\ UNCHANGED <<server, queries, screen>>

\* What the server makes of a call: its answer, and the change it makes.
Verdict(k) ==
    IF event.status # "active" \/ (k = "leave" /\ ~ member) THEN "refused"
    ELSE IF k = "join" /\ member THEN "already" ELSE "ok"
Serve(k) ==
    /\ calls[k].pc = "sent"
    /\ LET v == Verdict(k) IN
         /\ \/ calls' = [calls EXCEPT ![k].pc = v] /\ UNCHANGED counts
            \/ calls' = [calls EXCEPT ![k].pc = "lost"] /\ Fault
         /\ member' = IF v # "ok" THEN member
                      ELSE (member \/ k = "join") /\ k \notin {"leave", "cancel"}
         /\ event' = IF v # "ok" THEN event
                     ELSE CASE k = "edit"   -> [event EXCEPT !.text = calls[k].text]
                            [] k = "cancel" -> [event EXCEPT !.status = "cancelled"]
                            [] OTHER        -> event
    /\ UNCHANGED <<queries, screen>>
LoseCall(k) ==
    /\ calls[k].pc = "sent" /\ Fault
    /\ calls' = [calls EXCEPT ![k].pc = "lost"]
    /\ UNCHANGED <<server, queries, screen>>

\* Joined, just now or before: to the chat, from wherever the user is by now. However it
\* ended the membership is asked for again.
HearJoin ==
    /\ calls["join"].pc \notin {"idle", "sent"}
    /\ calls' = [calls EXCEPT !["join"] = Idle]
    /\ page' = IF calls["join"].pc \in {"ok", "already"} THEN "chat" ELSE page
    /\ Invalidate(IF calls["join"].pc = "ok" THEN {"data", "probe"} ELSE {"probe"})
    /\ dialog' = IF page' = page THEN dialog ELSE "none"
    /\ UNCHANGED <<server, host, form, asked, counts>>

\* Left: what was known of the membership is dropped and asked for again; without an
\* answer it is not.
HearLeave ==
    /\ calls["leave"].pc \notin {"idle", "sent"}
    /\ calls' = [calls EXCEPT !["leave"] = Idle]
    /\ IF calls["leave"].pc = "ok"
       THEN /\ page' = "list" /\ dialog' = "none"
            /\ dataFetch' = Asked /\ probe' = "pending" /\ probeFetch' = "asked"
            /\ kept' = FALSE
            /\ UNCHANGED <<data, failed, stale, overtaken, unaware>>
       ELSE /\ unaware' = (unaware \/ calls["leave"].pc = "lost")
            /\ UNCHANGED <<page, dialog, data, dataFetch, failed, probe, probeFetch, kept,
                           stale, overtaken>>
    /\ UNCHANGED <<server, host, form, asked, counts>>

\* Saved: the form closes. Otherwise it stays, with what went wrong; when it was closed
\* before, nobody asks what became of the edit.
HearEdit ==
    /\ calls["edit"].pc \notin {"idle", "sent"}
    /\ calls' = [calls EXCEPT !["edit"] = Idle]
    /\ page' = page
    /\ IF calls["edit"].pc = "ok"
       THEN /\ dialog' = IF dialog = "edit" THEN "none" ELSE dialog
            /\ Invalidate({"data", "probe"})
       ELSE /\ overtaken' = (overtaken \/ (calls["edit"].pc = "lost" /\ dialog # "edit"))
            /\ UNCHANGED <<dialog, data, dataFetch, failed, probe, probeFetch, kept, stale,
                           unaware>>
    /\ UNCHANGED <<server, host, form, asked, counts>>
HearCancel ==
    /\ calls["cancel"].pc \notin {"idle", "sent"}
    /\ calls' = [calls EXCEPT !["cancel"] = Idle]
    /\ IF calls["cancel"].pc = "ok"
       THEN page' = "list" /\ dialog' = "none" /\ Invalidate({"data", "probe"})
       ELSE UNCHANGED <<page, dialog, queries>>
    /\ UNCHANGED <<server, host, form, asked, counts>>

\* Another student joins, another device of the user joins or leaves, or the event ends.
Meanwhile ==
    /\ event.status = "active" /\ host # "unknown" /\ Move
    /\ \/ event' = [event EXCEPT !.crowd = TRUE] /\ UNCHANGED <<member, unaware>>
       \/ event' = [event EXCEPT !.status = "ended"] /\ UNCHANGED <<member, unaware>>
       \/ member' = ~ member /\ unaware' = TRUE /\ UNCHANGED event
    /\ UNCHANGED <<data, dataFetch, failed, probe, probeFetch, kept, stale, overtaken,
                   screen,
                   calls>>

-----------------------------------------------------------------------------
Progress ==
    \/ ServeQuery \/ HearData \/ HearProbe \/ Redirect
    \/ HearJoin \/ HearLeave \/ HearEdit \/ HearCancel
    \/ \E k \in Kinds : Serve(k)
Next ==
    \/ Progress \/ LoseQuery \/ Visit \/ Back \/ OpenChat \/ TapJoin \/ ConfirmJoin \/ Leave
    \/ CloseDialog \/ Submit \/ ConfirmCancel \/ Meanwhile
    \/ \E d \in {"edit", "cancel"} : OpenDialog(d)
    \/ \E k \in Kinds : LoseCall(k)
Spec == Init /\ [][Next]_vars
\* The server answers, or the call is lost.
FairSpec == Spec /\ WF_vars(Progress)
-----------------------------------------------------------------------------
(* Properties.                                                              *)

Quiet ==
    /\ dataFetch = None /\ probeFetch = "none" /\ \A k \in Kinds : calls[k] = Idle
    /\ ~ (page = "detail" /\ isActive /\ probe = "joined" /\ host = "no")

\* With nothing in the air a student who is a participant is not left on the page that
\* offers to join, also when the answer to the join was lost, and its host sees the event
\* as it was saved.
PageAgrees == Quiet /\ Shown /\ isActive /\ event.status = "active" =>
    /\ probe # "failed" /\ ~ unaware => (probe = "joined") = member
    /\ dialog # "edit" /\ ~ overtaken => data.text = event.text

\* The host is in the chat by choice only: Edit and Cancel are on this page alone.
HostKeepsControls == page = "chat" /\ host = "yes" => asked

EventPageSafe == PageAgrees /\ HostKeepsControls

\* Left alone, the page knows whether the user has joined, unless it could not ask.
EventPageAtRest == Quiet /\ (Shown /\ isActive => probe # "pending")
=============================================================================
