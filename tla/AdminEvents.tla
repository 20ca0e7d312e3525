----------------------------- MODULE AdminEvents -----------------------------
(***************************************************************************)
(* The events of the portal (admin/EventsPage.tsx): a list, the details of an *)
(* event read by a query of their own, and the dialogs that create one for an *)
(* owner, edit it and cancel it. Meanwhile its owner edits or cancels it,     *)
(* students join and its time runs out. A call may be refused, or done with   *)
(* its answer lost, and a query may fail. The list is that of one filter;     *)
(* AdminUsers has the pages and the filters.                                 *)
(***************************************************************************)
EXTENDS Naturals

CONSTANTS
    MaxTaps     \* bound on what the admin creates and sends, and others do meanwhile

VARIABLES
    event,      \* server
    events,     \* server: how many there are
    owned,      \* history: what its owner last gave each field
    claimed,    \* history: the fields changed in a form that was sent since then
    list, listFetch,
    open,       \* the details are shown
    data, dataFetch,
    broken,     \* the queries whose last fetch failed
    behind,     \* history: the queries whose last read was before others changed the
                \* event, or before a call had settled that did not ask again
    editing, cancelling,    \* the event as it was when the dialog opened
    creating, owner,
    calls, taps

queries == <<list, listFetch, data, dataFetch, broken, behind>>
create == <<creating, owner>>
server == <<event, events, owned, claimed>>
vars == <<server, queries, open, editing, cancelling, create, calls, taps>>

\* The name, the description, the banner and the end of an event are fields like its
\* venue. A chat is anonymous when the field is 1: the owner may not change that.
Fields == {"venue", "anonymous"}
Event == [status : {"active", "ended", "cancelled"}, venue : 0 .. 1, anonymous : 0 .. 1,
          joined : BOOLEAN]
NoEvent == [status |-> "none"]
Asked == [status |-> "asked"]
Lost == [status |-> "lost"]
Listing == [count : 1 .. 2, row : Event]
NoList == [count |-> 0]
AskedList == [count |-> 9]
LostList == [count |-> 8]
Listed == [count |-> events, row |-> event]
Kinds == {"create", "edit", "cancel"}
Idle == [pc |-> "idle"]

TypeOK ==
    /\ event \in Event /\ events \in 1 .. 2
    /\ owned \in [Fields -> 0 .. 1] /\ claimed \subseteq Fields
    /\ list \in Listing \cup {NoList}
    /\ listFetch \in Listing \cup {NoList, AskedList, LostList}
    /\ data \in Event \cup {NoEvent} /\ dataFetch \in Event \cup {NoEvent, Asked, Lost}
    /\ open \in BOOLEAN /\ broken \subseteq {"list", "data"} /\ behind \subseteq {"list", "data"}
    /\ editing \in Event \cup {NoEvent} /\ cancelling \in Event \cup {NoEvent}
    /\ creating \in BOOLEAN /\ owner \in BOOLEAN
    /\ \A k \in Kinds : calls[k].pc \in {"idle", "sent", "ok", "failed"}
    /\ taps \in 0 .. MaxTaps

Init ==
    /\ event = [status |-> "active", venue |-> 0, anonymous |-> 0, joined |-> FALSE]
    /\ events = 1 /\ owned = [f \in Fields |-> 0] /\ claimed = {}
    /\ list = NoList /\ listFetch = AskedList /\ data = NoEvent /\ dataFetch = NoEvent
    /\ broken = {} /\ behind = {} /\ open = FALSE /\ editing = NoEvent /\ cancelling = NoEvent
    /\ creating = FALSE /\ owner = FALSE
    /\ calls = [k \in Kinds |-> Idle] /\ taps = 0

Covered == open \/ creating \/ editing # NoEvent \/ cancelling # NoEvent
-----------------------------------------------------------------------------
(* The two queries.                                                         *)

ServeQuery ==
    /\ \/ /\ listFetch = AskedList /\ listFetch' \in {Listed, LostList}
          /\ behind' = behind \ {"list"} /\ UNCHANGED dataFetch
       \/ /\ dataFetch = Asked /\ dataFetch' \in {event, Lost}
          /\ behind' = behind \ {"data"} /\ UNCHANGED listFetch
    /\ UNCHANGED <<server, list, data, broken, open, editing, cancelling, create, calls,
                   taps>>

\* One that fails leaves what is in the cache behind the error.
Heard(q, failed) == broken' = IF failed THEN broken \cup {q} ELSE broken \ {q}
HearQuery ==
    /\ \/ /\ listFetch \notin {NoList, AskedList} /\ listFetch' = NoList
          /\ list' = IF listFetch = LostList THEN list ELSE listFetch
          /\ Heard("list", listFetch = LostList) /\ UNCHANGED <<data, dataFetch>>
       \/ /\ dataFetch \notin {NoEvent, Asked} /\ dataFetch' = NoEvent
          /\ data' = IF dataFetch = Lost THEN data ELSE dataFetch
          /\ Heard("data", dataFetch = Lost) /\ UNCHANGED <<list, listFetch>>
    /\ UNCHANGED <<server, behind, open, editing, cancelling, create, calls, taps>>

\* The window comes back to the front, or Retry: what is shown and is not being fetched.
Refocus ==
    /\ taps < MaxTaps /\ taps' = taps + 1
    /\ listFetch' = IF listFetch = NoList THEN AskedList ELSE listFetch
    /\ dataFetch' = IF open /\ dataFetch = NoEvent THEN Asked ELSE dataFetch
    /\ UNCHANGED <<server, list, data, broken, behind, open, editing, cancelling, create,
                   calls>>

-----------------------------------------------------------------------------
(* The dialogs.                                                             *)

\* The details come from the cache and are asked for again, unless they are being
\* fetched.
OpenDetail ==
    /\ ~ Covered /\ list # NoList /\ "list" \notin broken /\ open' = TRUE
    /\ dataFetch' = IF dataFetch = NoEvent THEN Asked ELSE dataFetch
    /\ UNCHANGED <<server, list, listFetch, data, broken, behind, editing, cancelling, create,
                   calls, taps>>
CloseDetail ==
    /\ open /\ cancelling = NoEvent /\ open' = FALSE
    /\ UNCHANGED <<server, queries, editing, cancelling, create, calls, taps>>

\* An event that is active may be edited, in the place of its details, or cancelled,
\* over them.
Offered == open /\ cancelling = NoEvent /\ "data" \notin broken /\ data.status = "active"
StartEdit ==
    /\ Offered
    /\ open' = FALSE /\ editing' = data
    /\ UNCHANGED <<server, queries, cancelling, create, calls, taps>>
StartCancel ==
    /\ Offered
    /\ cancelling' = data
    /\ UNCHANGED <<server, queries, open, editing, create, calls, taps>>
CloseDialog ==
    /\ \/ editing # NoEvent /\ editing' = NoEvent /\ UNCHANGED <<cancelling, creating>>
       \/ cancelling # NoEvent /\ cancelling' = NoEvent /\ UNCHANGED <<editing, creating>>
       \/ creating /\ creating' = FALSE /\ UNCHANGED <<editing, cancelling>>
    /\ UNCHANGED <<server, queries, open, owner, calls, taps>>

OpenCreate ==
    /\ ~ Covered /\ creating' = TRUE
    /\ taps < MaxTaps /\ taps' = taps + 1
    /\ UNCHANGED <<server, queries, open, editing, cancelling, owner, calls>>
PickOwner ==
    /\ creating /\ owner' = ~ owner
    /\ UNCHANGED <<server, queries, open, editing, cancelling, creating, calls,
                   taps>>

Send(kind, fields, form) ==
    /\ calls[kind] = Idle /\ taps < MaxTaps /\ taps' = taps + 1
    /\ calls' = [calls EXCEPT ![kind] = [pc |-> "sent", fields |-> fields, form |-> form]]
Blank == [f \in Fields |-> 0]

\* An event needs an owner; the owner stays picked when the dialog is closed.
Create ==
    /\ creating /\ owner
    /\ Send("create", {}, Blank)
    /\ UNCHANGED <<server, queries, open, editing, cancelling, create>>

\* Of what stands in the form only what differs from the event it was opened on is sent:
\* an untouched switch is not refused, an untouched field not written back.
Dirty(form) == {f \in Fields : form[f] # editing[f]}
Save == \E form \in [Fields -> 0 .. 1] :
    /\ editing # NoEvent
    /\ Send("edit", Dirty(form), form)
    /\ claimed' = claimed \cup {f \in Fields : form[f] # editing[f]}
    /\ UNCHANGED <<event, events, owned, queries, open, editing, cancelling, create>>
ConfirmCancel ==
    /\ cancelling # NoEvent
    /\ Send("cancel", {}, Blank)
    /\ UNCHANGED <<server, queries, open, editing, cancelling, create>>

-----------------------------------------------------------------------------
(* The server.                                                              *)

Edited(c) ==
    LET Now(f) == IF f \in c.fields THEN c.form[f] ELSE event[f]
    IN  [event EXCEPT !.venue = Now("venue"), !.anonymous = Now("anonymous")]

\* An event that is over is neither edited nor cancelled, and who has joined keeps
\* the kind of chat.
Allowed(kind, c) ==
    /\ kind # "create" => event.status = "active"
    /\ event.joined /\ "anonymous" \in c.fields => c.form["anonymous"] = event.anonymous

Serve(kind) ==
    /\ calls[kind].pc = "sent"
    /\ \/ /\ Allowed(kind, calls[kind])
          /\ CASE kind = "create" -> events' = 2 /\ UNCHANGED event
               [] kind = "edit"   -> event' = Edited(calls[kind]) /\ UNCHANGED events
               [] OTHER           -> /\ event' = [event EXCEPT !.status = "cancelled",
                                                               !.joined = FALSE]
                                     /\ UNCHANGED events
          /\ \E pc \in {"ok", "failed"} : calls' = [calls EXCEPT ![kind].pc = pc]
       \/ calls' = [calls EXCEPT ![kind].pc = "failed"] /\ UNCHANGED <<event, events>>
    /\ UNCHANGED <<owned, claimed, queries, open, editing, cancelling, create, taps>>

\* The owner's form sends every field it has (event-shared.tsx), from what it has shown.
\* What the portal has in the air for a field still comes after it.
InAir(f) == calls["edit"].pc = "sent" /\ f \in calls["edit"].fields
OwnerSaves == \E venue \in 0 .. 1 :
    /\ event' = [event EXCEPT !.venue = venue]
    /\ owned' = [owned EXCEPT !["venue"] = venue]
    /\ claimed' = {f \in claimed : f = "anonymous" \/ InAir(f)}

\* The owner edits the event, a student joins it, or it is over: its owner has cancelled
\* it, or its time has run out.
Meanwhile ==
    /\ event.status = "active" /\ taps < MaxTaps /\ taps' = taps + 1
    /\ \/ OwnerSaves
       \/ event' = [event EXCEPT !.joined = TRUE] /\ UNCHANGED <<owned, claimed>>
       \/ event' = [event EXCEPT !.status = "ended"] /\ UNCHANGED <<owned, claimed>>
    /\ behind' = {"list", "data"}
    /\ UNCHANGED <<events, list, listFetch, data, dataFetch, broken, open, editing,
                   cancelling, create, calls>>

-----------------------------------------------------------------------------
(* The answers.                                                             *)

\* onSettled: the key of the list is a prefix of that of the details. What is shown is
\* asked for again, and the fetch in the air dropped, but joined where there is no data
\* yet; details that nobody looks at are asked for when they are opened.
Invalidate ==
    /\ listFetch' = IF list = NoList /\ listFetch # NoList THEN listFetch ELSE AskedList
    /\ dataFetch' = IF open' /\ (data # NoEvent \/ dataFetch = NoEvent) THEN Asked
                    ELSE dataFetch
    /\ behind' = behind \cup (IF listFetch' # AskedList THEN {"list"} ELSE {})
                        \cup (IF dataFetch' \notin {NoEvent, Asked} THEN {"data"} ELSE {})

\* onSuccess closes the dialog, and for a cancellation the details beneath.
Answer(kind) ==
    /\ calls[kind].pc \in {"ok", "failed"}
    /\ calls' = [calls EXCEPT ![kind] = Idle]
    /\ LET done == calls[kind].pc = "ok" IN
         /\ editing' = IF done /\ kind = "edit" THEN NoEvent ELSE editing
         /\ cancelling' = IF done /\ kind = "cancel" THEN NoEvent ELSE cancelling
         /\ open' = (open /\ ~ (done /\ kind = "cancel"))
         /\ IF kind = "create" THEN
               creating' = (creating /\ ~ done) /\ owner' = (owner /\ ~ done)
            ELSE UNCHANGED create
    /\ Invalidate
    /\ UNCHANGED <<server, list, data, broken, taps>>

-----------------------------------------------------------------------------
Reading == ServeQuery \/ HearQuery
Calling == \E k \in Kinds : Serve(k) \/ Answer(k)
Next ==
    \/ Reading \/ Calling \/ Meanwhile \/ Refocus \/ OpenDetail \/ CloseDetail
    \/ StartEdit \/ StartCancel \/ CloseDialog \/ OpenCreate \/ PickOwner \/ Create \/ Save \/ ConfirmCancel
Spec == Init /\ [][Next]_vars
\* The server answers, the queries as well as the calls.
FairSpec == Spec /\ WF_vars(Reading) /\ WF_vars(Calling)
-----------------------------------------------------------------------------
(* Properties.                                                              *)

Quiet ==
    /\ \A k \in Kinds : calls[k] = Idle
    /\ listFetch = NoList /\ dataFetch = NoEvent

\* With nothing in the air the list and the open details show what the portal has done
\* to the event, also when an answer was lost, or say that they cannot. They lag only
\* behind what others did since they were read, and a first read that was under way when
\* a call settled, or details that were closed then with a read under way.
EventsAgree == Quiet =>
    /\ "list" \in broken \cup behind \/ list = Listed
    /\ open => "data" \in broken \cup behind \/ data = event

\* A form that is saved does not undo what the owner changed since it was opened, but
\* for the very fields that were changed in it.
OwnerKeeps == \A f \in Fields : event[f] = owned[f] \/ f \in claimed

EventDeskSafe == EventsAgree /\ OwnerKeeps

\* Left alone, every dialog has its answer.
EventsAtRest == \A k \in Kinds : calls[k] = Idle
=============================================================================
