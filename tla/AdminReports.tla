---------------------------- MODULE AdminReports ----------------------------
(***************************************************************************)
(* The reports of the portal (admin/ReportsPage.tsx). The list of each filter *)
(* has its own place in the query cache and is fetched on its own. The open   *)
(* report is read from the list it was picked from, and from what was last    *)
(* seen of it when the list no longer has it. Its status may be set again     *)
(* before the answer to the first setting; an answer may be lost, and a list  *)
(* may fail. AdminUsers has the pages of a filter.                           *)
(***************************************************************************)
EXTENDS Naturals

CONSTANTS
    Reports,
    MaxTaps     \* bound on what the admin does

VARIABLES
    stored,     \* server: the status of each report
    filter,     \* the status listed, or every one
    cache,      \* the list held for each filter
    fetch,      \* the lists asked for
    broken,     \* the filters whose last list failed
    overtaken,  \* history: the filters whose list was read before a setting had settled,
                \* and not asked for again
    held,       \* the rows a filter without any of its own goes on showing
    selected,   \* selectedId
    last,       \* lastSelectedRef, its status
    calls,      \* PATCHes in the air
    newest,     \* the one whose button spins
    taps

lists == <<filter, cache, fetch, broken, overtaken, held>>
vars == <<stored, lists, selected, last, calls, newest, taps>>

Filters == {"all", "pending"}
Statuses == {"pending", "reviewed", "resolved"}
Out == "out"            \* of the list
Lists == [Reports -> Statuses \cup {Out}]
None == "none"
Nothing == [r \in Reports |-> None]     \* no data, or no list asked for
Asked == [r \in Reports |-> "asked"]
Failed == [r \in Reports |-> "failed"]

TypeOK ==
    /\ stored \in [Reports -> Statuses] /\ filter \in Filters
    /\ cache \in [Filters -> Lists \cup {Nothing}]
    /\ fetch \in [Filters -> Lists \cup {Nothing, Asked, Failed}]
    /\ broken \subseteq Filters /\ overtaken \subseteq Filters /\ held \in Lists
    /\ selected \in Reports \cup {None} /\ last \in Statuses \cup {None}
    /\ calls \subseteq [n : 1 .. MaxTaps, id : Reports, status : Statuses,
                        pc : {"sent", "ok", "failed"}]
    /\ newest \in 0 .. MaxTaps /\ taps \in 0 .. MaxTaps

Init ==
    /\ stored = [r \in Reports |-> "pending"] /\ filter = "all"
    /\ cache = [f \in Filters |-> Nothing]
    /\ fetch = [f \in Filters |-> IF f = filter THEN Asked ELSE Nothing]
    /\ broken = {} /\ overtaken = {} /\ held = [r \in Reports |-> Out]
    /\ selected = None /\ last = None /\ calls = {} /\ newest = 0 /\ taps = 0

Tap == taps < MaxTaps /\ taps' = taps + 1

Rows == IF cache[filter] = Nothing THEN held ELSE cache[filter]

\* What the dialog shows: the row, or what was last seen of it.
Badge == IF Rows[selected] # Out THEN Rows[selected] ELSE last

\* What the server lists.
Listed(f) == [r \in Reports |-> IF f \in {"all", stored[r]} THEN stored[r] ELSE Out]

\* Without any rows of its own a list that is asked for again no longer says it failed.
Failing == filter \in broken /\ (cache[filter] # Nothing \/ fetch[filter] = Nothing)
-----------------------------------------------------------------------------
(* The list.                                                                *)

Ask(f) == fetch' = [fetch EXCEPT ![f] = Asked] /\ overtaken' = overtaken \ {f}

\* A filter that comes back is asked for again, whatever is cached, unless it is being
\* fetched: then the fetch that was left behind is joined.
SetFilter(f) ==
    /\ Tap /\ selected = None /\ f # filter
    /\ filter' = f /\ held' = Rows
    /\ IF fetch[f] = Nothing THEN Ask(f) ELSE UNCHANGED <<fetch, overtaken>>
    /\ UNCHANGED <<stored, cache, broken, selected, last, calls, newest>>

\* The window comes back to the front, or Retry.
Refocus ==
    /\ Tap /\ fetch[filter] = Nothing /\ Ask(filter)
    /\ UNCHANGED <<stored, filter, cache, broken, held, selected, last, calls, newest>>

ServeList == \E f \in Filters :
    /\ fetch[f] = Asked
    /\ \E list \in {Listed(f), Failed} : fetch' = [fetch EXCEPT ![f] = list]
    /\ UNCHANGED <<stored, filter, cache, broken, overtaken, held, selected, last, calls,
                   newest, taps>>

\* A list that fails leaves the rows in the cache behind the error. What comes for the
\* filter on the screen flows into the open report.
HearList == \E f \in Filters :
    /\ fetch[f] \notin {Nothing, Asked} /\ fetch' = [fetch EXCEPT ![f] = Nothing]
    /\ IF fetch[f] = Failed
       THEN broken' = broken \cup {f} /\ UNCHANGED <<cache, last>>
       ELSE /\ broken' = broken \ {f} /\ cache' = [cache EXCEPT ![f] = fetch[f]]
            /\ last' = IF f = filter /\ selected # None /\ fetch[f][selected] # Out
                       THEN fetch[f][selected] ELSE last
    /\ UNCHANGED <<stored, filter, overtaken, held, selected, calls, newest, taps>>

-----------------------------------------------------------------------------
(* The dialog.                                                              *)

OpenReport(r) ==
    /\ selected = None /\ ~ Failing /\ Rows[r] # Out
    /\ selected' = r /\ last' = Rows[r]
    /\ UNCHANGED <<stored, lists, calls, newest, taps>>
CloseReport ==
    /\ selected # None /\ selected' = None /\ last' = None
    /\ UNCHANGED <<stored, lists, calls, newest, taps>>

\* Every button but that of the status shown, and that of the newest call.
SetStatus(s) ==
    /\ Tap /\ selected # None /\ s # Badge
    /\ \A c \in calls : c.n = newest => c.status # s
    /\ calls' = calls \cup {[n |-> taps + 1, id |-> selected, status |-> s, pc |-> "sent"]}
    /\ newest' = taps + 1
    /\ UNCHANGED <<stored, lists, selected, last>>

Serve == \E c \in calls :
    /\ c.pc = "sent"
    /\ \E pc \in {"ok", "failed"} : calls' = (calls \ {c}) \cup {[c EXCEPT !.pc = pc]}
    /\ \/ stored' = [stored EXCEPT ![c.id] = c.status]
       \/ UNCHANGED stored /\ [c EXCEPT !.pc = "failed"] \in calls'
    /\ UNCHANGED <<lists, selected, last, newest, taps>>

\* A success closes the dialog, whichever report it shows by now.
Answered(c) ==
    /\ c.pc # "sent" /\ calls' = calls \ {c}
    /\ IF c.pc = "ok" THEN selected' = None /\ last' = None ELSE UNCHANGED <<selected, last>>

\* onSettled, after a failure too: the filter on the screen is asked for again, and what
\* is in the air for it no longer counts; without any rows yet it is left in the air. The
\* others are asked for again when they come back.
Refetch ==
    IF cache[filter] = Nothing /\ fetch[filter] # Nothing THEN UNCHANGED fetch
    ELSE fetch' = [fetch EXCEPT ![filter] = Asked]
Answer == \E c \in calls :
    /\ Answered(c)
    /\ Refetch
    /\ overtaken' = {f \in Filters : fetch'[f] \notin {Nothing, Asked}}
    /\ UNCHANGED <<stored, filter, cache, broken, held, newest, taps>>

-----------------------------------------------------------------------------
Progress == ServeList \/ HearList \/ Serve \/ Answer
Next ==
    \/ Progress \/ Refocus \/ CloseReport
    \/ \E f \in Filters : SetFilter(f)
    \/ \E r \in Reports : OpenReport(r)
    \/ \E s \in Statuses : SetStatus(s)
Spec == Init /\ [][Next]_vars
FairSpec == Spec /\ WF_vars(Progress)
-----------------------------------------------------------------------------
(* Properties.                                                              *)

Quiet == calls = {} /\ \A f \in Filters : fetch[f] = Nothing

\* With nothing in the air the list, and the dialog of a listed report with it, shows the
\* status that is stored, also after a setting whose answer was lost, or says that it
\* cannot. Only a list that was read before a setting had settled, and was off the
\* screen then or the first of its filter, stays as it was read.
BadgeAgrees == Quiet => filter \in broken \cup overtaken \/ cache[filter] = Listed(filter)

\* Left alone, every setting and every list has its answer.
ReportsAtRest == Quiet
=============================================================================
