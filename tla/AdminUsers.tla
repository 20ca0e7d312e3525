----------------------------- MODULE AdminUsers -----------------------------
(***************************************************************************)
(* The list of accounts of the portal (admin/UsersPage.tsx): filtered pages  *)
(* kept in a cache, dialogs that change an account, and deletions shown      *)
(* before the server has answered. A call may be refused, or done with its   *)
(* answer lost; a list that was asked for may be read before or after what   *)
(* changes it. A page has one row here, and Missing is the 404 of a page     *)
(* beyond the last; AdminReports has lists that fail for any other reason.   *)
(***************************************************************************)
EXTENDS Integers, FiniteSets

CONSTANTS
    Accounts,   \* numbers: the order of the list
    MaxTaps,    \* bound on what the admin sends
    MaxMoves    \* bound on the filters set, pages turned and returns to the window

VARIABLES
    accounts,   \* server
    filter, page,
    cache,      \* the pages held, by key
    fetch,      \* the pages asked for, by key
    broken,     \* the keys whose last fetch failed
    overtaken,  \* history: the keys read before a call had settled, and not asked for
                \* again
    held,       \* the rows a page without any of its own goes on showing
    dialog,     \* create, edit, toggle or delete, and the row it was opened on
    calls,      \* the mutation of each kind
    taps, moves

vars == <<accounts, filter, page, cache, fetch, broken, overtaken, held, dialog, calls, taps,
          moves>>

Absent == [on |-> FALSE, name |-> 9]
Account == [on : BOOLEAN, name : 0 .. 1] \cup {Absent}
Kinds == {"create", "edit", "toggle", "delete"}
Keys == [filter : {"all", "active"}, page : 1 .. Cardinality(Accounts)]
Key == [filter |-> filter, page |-> page]

\* What the server lists: the page-th account of the filter.
NoRows == [count |-> 0, row |-> 0, was |-> Absent]
Missing == [NoRows EXCEPT !.count = -1]
Nothing == [NoRows EXCEPT !.count = -2]     \* no data
Asked == [NoRows EXCEPT !.count = -3]
Listed(f) == {a \in Accounts : accounts[a] # Absent /\ (f = "active" => accounts[a].on)}
PageOf(k) ==
    LET list == Listed(k.filter)
        At(a) == Cardinality({b \in list : b <= a}) = k.page
    IN  IF \E a \in list : At(a)
        THEN LET a == CHOOSE x \in list : At(x)
             IN  [count |-> Cardinality(list), row |-> a, was |-> accounts[a]]
        ELSE IF k.page = 1 THEN NoRows ELSE Missing

Page == [count : 0 .. Cardinality(Accounts), row : {0} \cup Accounts, was : Account]
Shown == IF cache[Key] = Nothing THEN held ELSE cache[Key]

NoDialog == [kind |-> "none", id |-> 0, was |-> Absent]
NoCall == [pc |-> "idle"]

TypeOK ==
    /\ accounts \in [Accounts -> Account]
    /\ Key \in Keys /\ broken \subseteq Keys /\ overtaken \subseteq Keys /\ held \in Page
    /\ cache \in [Keys -> Page \cup {Nothing}]
    /\ fetch \in [Keys -> Page \cup {Nothing, Asked, Missing}]
    /\ dialog \in [kind : Kinds \cup {"none"}, id : {0} \cup Accounts, was : Account]
    /\ DOMAIN calls = Kinds /\ \A k \in Kinds : calls[k].pc \in {"idle", "sent", "ok", "failed"}
    /\ taps \in 0 .. MaxTaps /\ moves \in 0 .. MaxMoves

Init ==
    /\ accounts = [a \in Accounts |-> [on |-> TRUE, name |-> 0]]
    /\ filter = "all" /\ page = 1
    /\ cache = [k \in Keys |-> Nothing] /\ broken = {} /\ overtaken = {} /\ held = NoRows
    /\ fetch = [k \in Keys |-> IF k = Key THEN Asked ELSE Nothing]
    /\ dialog = NoDialog /\ calls = [k \in Kinds |-> NoCall] /\ taps = 0 /\ moves = 0

Tap == taps < MaxTaps /\ taps' = taps + 1 /\ UNCHANGED moves
Move == moves < MaxMoves /\ moves' = moves + 1 /\ UNCHANGED taps
-----------------------------------------------------------------------------
(* The query of the list.                                                   *)

\* A key that comes on the screen is asked for, whatever is cached for it, unless
\* it is being fetched: then the fetch that was left behind is joined.
Look(f, k) == IF f[k] = Nothing THEN [f EXCEPT ![k] = Asked] ELSE f
Fresh == overtaken' = {k \in overtaken : fetch'[k] = fetch[k]}

Goto(k) ==
    /\ filter' = k.filter /\ page' = k.page /\ held' = Shown

\* A filter starts at the first page, after one render with the old number.
SetFilter(f) ==
    /\ Move /\ dialog = NoDialog /\ f # filter
    /\ Goto([filter |-> f, page |-> 1])
    /\ fetch' = Look(Look(fetch, [filter |-> f, page |-> page]), [filter |-> f, page |-> 1])
    /\ Fresh
    /\ UNCHANGED <<accounts, cache, broken, dialog, calls>>

\* Previous and Next, which wait while the rows are those of another page.
Turn(p) ==
    /\ Move /\ dialog = NoDialog /\ Key \notin broken /\ cache[Key] # Nothing
    /\ cache[Key].count > 1
    /\ p \in {page - 1, page + 1} /\ p \in 1 .. cache[Key].count
    /\ Goto([filter |-> filter, page |-> p])
    /\ fetch' = Look(fetch, [filter |-> filter, page |-> p])
    /\ Fresh
    /\ UNCHANGED <<accounts, cache, broken, dialog, calls>>

\* The window comes back to the front, or Retry.
Refocus ==
    /\ Move /\ fetch[Key] = Nothing
    /\ fetch' = [fetch EXCEPT ![Key] = Asked]
    /\ overtaken' = overtaken \ {Key}
    /\ UNCHANGED <<accounts, filter, page, cache, broken, held, dialog, calls>>

ServeList == \E k \in Keys :
    /\ fetch[k] = Asked /\ fetch' = [fetch EXCEPT ![k] = PageOf(k)]
    /\ UNCHANGED <<accounts, filter, page, cache, broken, overtaken, held, dialog, calls,
                   taps, moves>>

\* A refetch that fails leaves the rows in the cache behind the error.
HearList == \E k \in Keys :
    /\ fetch[k] \notin {Nothing, Asked} /\ fetch' = [fetch EXCEPT ![k] = Nothing]
    /\ IF fetch[k] = Missing
       THEN broken' = broken \cup {k} /\ UNCHANGED cache
       ELSE broken' = broken \ {k} /\ cache' = [cache EXCEPT ![k] = fetch[k]]
    /\ UNCHANGED <<accounts, filter, page, overtaken, held, dialog, calls, taps, moves>>

-----------------------------------------------------------------------------
(* The dialogs. A row that is shown may be one of the page before.           *)

Open(kind) ==
    /\ dialog = NoDialog /\ Key \notin broken
    /\ IF kind = "create" THEN dialog' = [NoDialog EXCEPT !.kind = kind]
       ELSE /\ Shown.row # 0
            /\ dialog' = [kind |-> kind, id |-> Shown.row, was |-> Shown.was]
    /\ UNCHANGED <<accounts, filter, page, cache, fetch, broken, overtaken, held, calls,
                   taps, moves>>

\* Escape and the backdrop close a dialog whose call is in the air, too.
Close ==
    /\ dialog # NoDialog /\ dialog' = NoDialog
    /\ UNCHANGED <<accounts, filter, page, cache, fetch, broken, overtaken, held, calls,
                   taps, moves>>

\* A dialog waits for the call of its kind, whoever that was about.
Send(kind, call) ==
    /\ Tap /\ dialog.kind = kind /\ calls[kind] = NoCall
    /\ calls' = [calls EXCEPT ![kind] = call]

\* Create, edit and suspend: the dialog stays until the answer. What is sent is
\* computed from the row the dialog was opened on.
Submit(kind) ==
    /\ kind # "delete"
    /\ Send(kind, [pc |-> "sent", id |-> dialog.id, was |-> dialog.was])
    /\ UNCHANGED <<accounts, filter, page, cache, fetch, broken, overtaken, held, dialog>>

Without(rows, a) ==
    [IF rows.row = a THEN NoRows ELSE rows EXCEPT
        !.count = IF rows.count = 0 THEN 0 ELSE rows.count - 1]

\* onMutate: every list in the air is dropped, the row leaves the page, and the
\* only row of a later page takes the page along.
ConfirmDelete ==
    /\ LET before == cache[Key]
           back == before # Nothing /\ before.row # 0 /\ page > 1
           key == [filter |-> filter, page |-> IF back THEN page - 1 ELSE page]
       IN  /\ Send("delete", [pc |-> "sent", id |-> dialog.id, was |-> dialog.was,
                              before |-> before, key |-> Key, back |-> back])
           /\ cache' = IF before = Nothing THEN cache
                       ELSE [cache EXCEPT ![Key] = Without(before, dialog.id)]
           /\ Goto(key)
           /\ fetch' = [k \in Keys |-> IF back /\ k = key THEN Asked ELSE Nothing]
    /\ overtaken' = {}
    /\ dialog' = NoDialog
    /\ UNCHANGED <<accounts, broken>>

-----------------------------------------------------------------------------
(* The server, and its answers.                                             *)

Changed(kind, c) ==
    CASE kind = "delete" -> Absent
      [] kind = "toggle" -> [accounts[c.id] EXCEPT !.on = ~ c.was.on]
      [] kind = "edit"   -> [accounts[c.id] EXCEPT !.name = 1 - c.was.name]
      [] OTHER           -> [on |-> TRUE, name |-> 0]

\* An answer may be lost after the change was made.
Serve(kind) ==
    /\ calls[kind].pc = "sent"
    /\ \/ /\ \E a \in Accounts :
               /\ IF kind = "create" THEN accounts[a] = Absent
                  ELSE a = calls[kind].id /\ accounts[a] # Absent
               /\ accounts' = [accounts EXCEPT ![a] = Changed(kind, calls[kind])]
          /\ \E pc \in {"ok", "failed"} : calls' = [calls EXCEPT ![kind].pc = pc]
       \/ calls' = [calls EXCEPT ![kind].pc = "failed"] /\ UNCHANGED accounts
    /\ UNCHANGED <<filter, page, cache, fetch, broken, overtaken, held, dialog, taps,
                   moves>>

\* onSuccess closes the dialog of the kind; onError puts the rows of a deletion
\* back, and the page with them.
Ended(kind) ==
    LET c == calls[kind]
        undo == kind = "delete" /\ c.pc = "failed"
    IN  /\ calls' = [calls EXCEPT ![kind] = NoCall]
        /\ dialog' = IF c.pc = "ok" /\ kind # "delete" /\ dialog.kind = kind
                     THEN NoDialog ELSE dialog
        /\ cache' = IF undo /\ c.before # Nothing THEN [cache EXCEPT ![c.key] = c.before]
                    ELSE cache
        /\ IF undo /\ c.back THEN Goto([filter |-> filter, page |-> c.key.page])
           ELSE UNCHANGED <<filter, page, held>>

\* A page that is asked for again drops what is in the air for it, but joins it as long
\* as it has no rows.
Refetch(k) ==
    IF cache'[k] = Nothing /\ fetch[k] # Nothing THEN UNCHANGED fetch
    ELSE fetch' = [fetch EXCEPT ![k] = Asked]

\* Mutant: only a success asks for the list again.
AnswerQuietly(kind) ==
    /\ calls[kind].pc \in {"ok", "failed"}
    /\ Ended(kind)
    /\ IF calls[kind].pc = "ok" THEN Refetch(Key')
       ELSE fetch' = IF Key' = Key THEN fetch ELSE Look(fetch, Key')
    /\ overtaken' = {k \in Keys : fetch'[k] \notin {Nothing, Asked}}
    /\ UNCHANGED <<accounts, broken, taps, moves>>

\* onSettled: the list is asked for again either way. The lists off the screen are asked
\* for again when they come back.
Answer(kind) ==
    /\ calls[kind].pc \in {"ok", "failed"}
    /\ Ended(kind)
    /\ Refetch(Key')
    /\ overtaken' = {k \in Keys : fetch'[k] \notin {Nothing, Asked}}
    /\ UNCHANGED <<accounts, broken, taps, moves>>

-----------------------------------------------------------------------------
Progress == ServeList \/ HearList \/ (\E k \in Kinds : Serve(k) \/ Answer(k))
Next ==
    \/ Progress \/ Refocus \/ Close \/ ConfirmDelete
    \/ \E f \in {"all", "active"} : SetFilter(f)
    \/ \E p \in 1 .. Cardinality(Accounts) : Turn(p)
    \/ \E k \in Kinds : Open(k) \/ Submit(k)
Spec == Init /\ [][Next]_vars
FairSpec == Spec /\ WF_vars(Progress)
-----------------------------------------------------------------------------
(* Properties.                                                              *)

Quiet == /\ \A k \in Kinds : calls[k] = NoCall
         /\ \A k \in Keys : fetch[k] = Nothing

\* With nothing in the air the page shows what the server lists, or says that it
\* cannot: no row that was rolled back, deleted in vain or read too early stays. Only
\* a page whose rows were read before a call had settled, and that was off the screen
\* then or had none yet, stays as it was read.
UsersAgree == Quiet => Key \in broken \cup overtaken \/ cache[Key] = PageOf(Key)

\* Left alone, every dialog and every page has its answer.
UsersAtRest == Quiet
=============================================================================
