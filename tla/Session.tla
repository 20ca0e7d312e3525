------------------------------ MODULE Session ------------------------------
(***************************************************************************)
(* The session of one account in one browser: the tokens in localStorage   *)
(* (lib/storage.ts), the API client that renews them (lib/api/client.ts),  *)
(* the auth store of every tab (stores/auth.store.ts), the forms that write *)
(* tokens, and the sockets that present them.                              *)
(*                                                                         *)
(* A token is the number of the pair it was issued in; 0 is no token.  A   *)
(* step of a tab is one task of its event loop: what happens between two   *)
(* awaits, with every continuation that the settled promise wakes.         *)
(***************************************************************************)
EXTENDS Naturals, FiniteSets

CONSTANTS
    Tabs,       \* pages of the browser, which share localStorage
    Calls,      \* slots for HTTP calls
    TabOf,      \* the tab a call is made in
    Kinds,      \* the calls that are made: a subset of CallKinds
    Pages,      \* the pages with a socket: a subset of {"presence", "speaking"}
    Events,     \* what may go wrong: a subset of EventKinds
    MaxPair,    \* bound on the token pairs the server issues
    MaxInputs   \* bound on what the user and the network do

\* "boot": /users/me/ on start; "user": an endpoint that answers with the user
\* (Refresh profile, photo upload and removal); "data": any other endpoint.
CallKinds  == {"boot", "login", "logout", "change", "user", "data"}
EventKinds == {"ageing", "network", "reload", "drop"}

ASSUME SessionAssumption ==
    /\ MaxPair \in Nat \ {0} /\ MaxInputs \in Nat
    /\ TabOf \in [Calls -> Tabs]
    /\ Kinds \subseteq CallKinds /\ Events \subseteq EventKinds
    /\ Pages \subseteq {"presence", "speaking"}

VARIABLES
    access, refresh,  \* localStorage: the two tokens
    profile,          \* localStorage: is a user stored?
    issued,           \* server: the last pair issued
    since,            \* server: the first pair with the current password's fingerprint
    renewable,        \* server: the pairs whose refresh token is not blacklisted
    aged, expired,    \* the last pair whose access token is within its margin of
                      \* expiry, and the last whose access token has expired
    open,             \* the tabs that are open
    phase, auth,      \* auth store: is the session validated? isAuthenticated?
    renewal,          \* refreshPromise of a tab: the bare POST behind it
    call,             \* what a call slot does
    wire,             \* the socket of a tab
    inputs,           \* how often the user or the network acted
    lost              \* history: was the answer to a renewal, or a logout, lost?

storage == <<access, refresh, profile>>
server  == <<issued, since, renewable, aged, expired>>
store   == <<open, phase, auth>>
vars    == <<storage, server, store, renewal, call, wire, inputs, lost>>

Pair  == 0 .. MaxPair
Idle  == [kind |-> "none", pc |-> "idle", header |-> 0, retried |-> FALSE, cargo |-> 0]
NoRenewal == [pc |-> "none", token |-> 0]
NoWire == [page |-> "none", pc |-> "off", token |-> 0]

\* header: the Authorization of the request; cargo: the refresh token a logout
\* carries, and later the pair a login or a password change was answered with.
Call == [kind : CallKinds \cup {"none"}, header : Pair, retried : BOOLEAN, cargo : Pair,
         pc : {"idle", "sent", "ok", "unauthorized", "failed", "waiting"}]
Renewal == [pc : {"none", "sent", "granted", "refused"}, token : Pair]
Wire == [page : {"none", "presence", "speaking"}, token : Pair,
         pc : {"off", "asking", "dialing", "open", "backoff", "closed"}]

ServerTypes ==
    /\ issued \in Pair /\ since \in 1 .. issued
    /\ renewable \subseteq 1 .. issued
    /\ aged \in 0 .. issued /\ expired \in 0 .. aged
BrowserTypes ==
    /\ access \in Pair /\ refresh \in Pair /\ profile \in BOOLEAN
    /\ open \subseteq Tabs
    /\ phase \in [Tabs -> {"loaded", "booting", "ready"}] /\ auth \in [Tabs -> BOOLEAN]
    /\ inputs \in 0 .. MaxInputs /\ lost \in BOOLEAN
ClientTypes ==
    /\ renewal \in [Tabs -> Renewal]
    /\ call \in [Calls -> Call]
    /\ wire \in [Tabs -> Wire]

\* Whoever waits for a renewal has one to wait for.
Awaited ==
    /\ \A q \in Calls : call[q].pc = "waiting" => renewal[TabOf[q]].pc # "none"
    /\ \A t \in Tabs : wire[t].pc = "asking" => renewal[t].pc # "none"

TypeOK == ServerTypes /\ BrowserTypes /\ ClientTypes /\ Awaited

\* A browser that was signed in, or not, opens a tab.
Init ==
    /\ issued = 1 /\ since = 1 /\ renewable = {1} /\ aged = 0 /\ expired = 0
    /\ \/ access = 1 /\ refresh = 1 /\ profile = TRUE
       \/ access = 0 /\ refresh = 0 /\ profile = FALSE
    /\ phase = [t \in Tabs |-> "loaded"]
    /\ \E t \in Tabs : open = {t} /\ auth = [x \in Tabs |-> x = t /\ profile]
    /\ renewal = [t \in Tabs |-> NoRenewal]
    /\ call = [q \in Calls |-> Idle]
    /\ wire = [t \in Tabs |-> NoWire]
    /\ inputs = 0 /\ lost = FALSE

CallsOf(t)  == {q \in Calls : TabOf[q] = t}
Waiters(t)  == {q \in CallsOf(t) : call[q].pc = "waiting"}

-----------------------------------------------------------------------------
(* localStorage and the auth store.                                         *)

SetTokens(p) == access' = p /\ refresh' = p

\* clearSession, and the store of tab t drops its user: the guards unmount the
\* pages, and a page closes its socket.
DropSession(t) ==
    /\ access' = 0 /\ refresh' = 0 /\ profile' = FALSE
    /\ auth' = [auth EXCEPT ![t] = FALSE]

\* A tab in which the user is adopted: stored, and authenticated.
Adopt(t) ==
    /\ profile' = TRUE
    /\ auth' = [auth EXCEPT ![t] = TRUE]

Finish(q) == call' = [call EXCEPT ![q] = Idle]

-----------------------------------------------------------------------------
(* Making a call.                                                           *)

\* ProtectedRoute, and GuestRoute with the modal it raises.
Protected(t) == t \in open /\ phase[t] = "ready" /\ auth[t]
Guest(t)     == t \in open /\ phase[t] = "ready" /\ ~ auth[t]

\* What a tab lets the user do: every page but the landing page and the links
\* of the mails is behind ProtectedRoute; the login form shows to guests; one
\* login, one logout and one profile request at a time (their buttons load).
MayCall(t, k) ==
    /\ k \notin {call[q].kind : q \in CallsOf(t)} \/ k \in {"data", "change"}
    /\ CASE k = "boot"  -> t \in open /\ phase[t] = "loaded" /\ access # 0
         [] k = "login" -> Guest(t)
         [] OTHER       -> Protected(t)

\* The request interceptor reads the token from localStorage at every send; a
\* logout takes the refresh token with it, and without one makes no request.
MakeCall(q, k) ==
    /\ call[q].pc = "idle" /\ k \in Kinds
    /\ MayCall(TabOf[q], k)
    /\ k = "logout" => refresh # 0
    /\ call' = [call EXCEPT ![q] =
         [kind |-> k, pc |-> "sent", header |-> access, retried |-> FALSE,
          cargo |-> IF k = "logout" THEN refresh ELSE 0]]
    /\ phase' = IF k = "boot" THEN [phase EXCEPT ![TabOf[q]] = "booting"] ELSE phase
    /\ UNCHANGED <<storage, server, open, auth, renewal, wire>>

\* bootstrap without a stored token.
BootEmpty(t) ==
    /\ t \in open /\ phase[t] = "loaded" /\ access = 0
    /\ phase' = [phase EXCEPT ![t] = "ready"]
    /\ auth' = [auth EXCEPT ![t] = FALSE]
    /\ UNCHANGED <<storage, server, open, renewal, call, wire>>

\* logout when storage holds no refresh token any more (another tab's doing).
LogoutAlone(t) ==
    /\ "logout" \in Kinds /\ MayCall(t, "logout") /\ refresh = 0
    /\ DropSession(t)
    /\ wire' = [wire EXCEPT ![t] = NoWire]
    /\ UNCHANGED <<server, open, phase, renewal, call>>

-----------------------------------------------------------------------------
(* The server.                                                              *)

\* CHECK_REVOKE_TOKEN: a token of before the last password change is refused.
Accepts(p)  == p > expired /\ p >= since
Renews(p)   == p \in renewable /\ p >= since

\* A pair more. BLACKLIST_AFTER_ROTATION: a renewal takes the token it used.
Issue(used) ==
    /\ issued < MaxPair
    /\ issued' = issued + 1
    /\ renewable' = (renewable \ used) \cup {issued + 1}
    /\ UNCHANGED <<aged, expired>>

\* The server handles a call. Login and change-password answer with a pair, or
\* reject what was typed; logout blacklists the token it is given.
Serve(q) ==
    /\ call[q].pc = "sent"
    /\ LET k == call[q].kind
           Answer(pc, c) == call' = [call EXCEPT ![q].pc = pc, ![q].cargo = c]
       IN \/ /\ k # "login" /\ ~ Accepts(call[q].header)
             /\ Answer("unauthorized", call[q].cargo)
             /\ UNCHANGED server
          \/ /\ k = "login" \/ (k = "change" /\ Accepts(call[q].header))
             /\ \/ /\ Issue({})
                   /\ since' = IF k = "change" THEN issued + 1 ELSE since
                   /\ Answer("ok", issued + 1)
                \/ Answer("failed", 0) /\ UNCHANGED server
          \/ /\ k = "logout" /\ Accepts(call[q].header)
             /\ renewable' = renewable \ {call[q].cargo}
             /\ Answer("ok", call[q].cargo)
             /\ UNCHANGED <<issued, since, aged, expired>>
          \/ /\ k \in {"boot", "user", "data"} /\ Accepts(call[q].header)
             /\ Answer("ok", 0)
             /\ UNCHANGED server
    /\ UNCHANGED <<storage, store, renewal, wire>>

\* A request, or its answer, is lost: axios rejects.
LoseCall(q) ==
    /\ "network" \in Events
    /\ call[q].pc \in {"sent", "ok"}
    /\ call' = [call EXCEPT ![q].pc = "failed"]
    /\ UNCHANGED <<storage, server, store, renewal, wire>>

\* All access tokens live equally long: the oldest comes within its margin of
\* expiry first, and expires first.
Age ==
    /\ "ageing" \in Events
    /\ aged < issued /\ aged' = aged + 1
    /\ UNCHANGED <<storage, issued, since, renewable, expired, store, renewal, call, wire>>
Expire ==
    /\ expired < aged /\ expired' = expired + 1
    /\ UNCHANGED <<storage, issued, since, renewable, aged, store, renewal, call, wire>>

-----------------------------------------------------------------------------
(* The answer of a call.                                                    *)

\* The continuation of a call that succeeds.
Succeed(q) ==
    /\ call[q].pc = "ok"
    /\ LET t == TabOf[q] IN
       \/ /\ call[q].kind = "boot"
          /\ Adopt(t)
          /\ phase' = [phase EXCEPT ![t] = "ready"]
          /\ UNCHANGED <<access, refresh, wire>>
       \/ /\ call[q].kind = "login"
          /\ SetTokens(call[q].cargo)
          /\ Adopt(t)
          /\ UNCHANGED <<phase, wire>>
       \/ /\ call[q].kind = "logout"
          /\ DropSession(t)
          /\ wire' = [wire EXCEPT ![t] = NoWire]
          /\ UNCHANGED phase
       \/ /\ call[q].kind = "change"
          /\ SetTokens(call[q].cargo)
          /\ UNCHANGED <<profile, phase, auth, wire>>
       \/ /\ call[q].kind = "user"
          /\ Adopt(t)
          /\ UNCHANGED <<access, refresh, phase, wire>>
       \/ /\ call[q].kind = "data"
          /\ UNCHANGED <<storage, phase, auth, wire>>
    /\ Finish(q)
    /\ UNCHANGED <<server, open, renewal>>

\* A bug: a bootstrap that fails never becomes ready.
FailQuietly(q) ==
    /\ call[q].pc = "failed" \/ (call[q].pc = "unauthorized" /\ call[q].retried)
    /\ Finish(q)
    /\ UNCHANGED <<storage, server, store, renewal, wire>>

\* The continuation of a call that fails: bootstrap is over, a logout signs out
\* anyway, the other callers show a message.
Fail(q) ==
    /\ call[q].pc = "failed" \/ (call[q].pc = "unauthorized" /\ call[q].retried)
    /\ LET t == TabOf[q] IN
       /\ phase' = IF call[q].kind = "boot" THEN [phase EXCEPT ![t] = "ready"] ELSE phase
       /\ IF call[q].kind = "logout"
          THEN DropSession(t) /\ wire' = [wire EXCEPT ![t] = NoWire]
          ELSE UNCHANGED <<storage, auth, wire>>
    /\ Finish(q)
    /\ UNCHANGED <<server, open, renewal>>

-----------------------------------------------------------------------------
(* Renewing the access token.                                               *)

\* A bug: every caller starts a renewal of its own.
JoinAlone(t) == renewal' = [renewal EXCEPT ![t] = [pc |-> "sent", token |-> refresh]]

\* refreshPromise ??= refreshAccessToken(): a tab has one renewal at a time.
JoinRenewal(t) ==
    IF renewal[t].pc = "none"
    THEN renewal' = [renewal EXCEPT ![t] = [pc |-> "sent", token |-> refresh]]
    ELSE UNCHANGED renewal

\* The response interceptor, on the first 401 of a call.
Unauthorized(q) ==
    /\ call[q].pc = "unauthorized" /\ ~ call[q].retried
    /\ refresh # 0 \/ renewal[TabOf[q]].pc # "none"
    /\ call' = [call EXCEPT ![q].pc = "waiting", ![q].retried = TRUE]
    /\ JoinRenewal(TabOf[q])
    /\ UNCHANGED <<storage, server, store, wire>>

\* The bare POST to /accounts/refresh/: rotation makes the token single-use.
ServeRenewal(t) ==
    /\ renewal[t].pc = "sent"
    /\ LET Answer(pc, p) == renewal' = [renewal EXCEPT ![t] = [pc |-> pc, token |-> p]]
       IN \/ /\ Renews(renewal[t].token)
             /\ Issue({renewal[t].token})
             /\ Answer("granted", issued + 1)
             /\ UNCHANGED since
          \/ /\ ~ Renews(renewal[t].token) \/ issued = MaxPair
             /\ Answer("refused", renewal[t].token)
             /\ UNCHANGED server
    /\ UNCHANGED <<storage, store, call, wire>>

\* The answer is lost, the rotation done or not: the client takes any error for
\* the end of the session.
LoseRenewal(t) ==
    /\ "network" \in Events
    /\ renewal[t].pc \in {"sent", "granted"}
    /\ renewal' = [renewal EXCEPT ![t].pc = "refused"]
    /\ lost' = TRUE
    /\ UNCHANGED <<storage, server, store, call, wire>>

\* A bug: the rotated refresh token is dropped.
RenewedHalf(t) ==
    /\ renewal[t].pc = "granted"
    /\ access' = renewal[t].token /\ UNCHANGED refresh
    /\ renewal' = [renewal EXCEPT ![t] = NoRenewal]
    /\ call' = [q \in Calls |->
                  IF q \in Waiters(t)
                  THEN [call[q] EXCEPT !.pc = "sent", !.header = renewal[t].token]
                  ELSE call[q]]
    /\ wire' = [wire EXCEPT ![t].pc = IF @ = "asking" THEN "dialing" ELSE @]
    /\ UNCHANGED <<profile, server, store>>

\* The renewed pair is stored, every waiting call is sent again with it, and a
\* socket that asked for it dials.
Renewed(t) ==
    /\ renewal[t].pc = "granted"
    /\ SetTokens(renewal[t].token)
    /\ renewal' = [renewal EXCEPT ![t] = NoRenewal]
    /\ call' = [q \in Calls |->
                  IF q \in Waiters(t)
                  THEN [call[q] EXCEPT !.pc = "sent", !.header = renewal[t].token]
                  ELSE call[q]]
    /\ wire' = IF wire[t].pc = "asking"
               THEN [wire EXCEPT ![t].pc = "dialing", ![t].token = renewal[t].token]
               ELSE wire
    /\ UNCHANGED <<profile, server, store>>

\* A bug: the callers that wait are not rejected.
ExpiredAlone(t, gone) ==
    /\ DropSession(t)
    /\ renewal' = [renewal EXCEPT ![t] = NoRenewal]
    /\ wire' = [wire EXCEPT ![t] = NoWire]
    /\ UNCHANGED <<server, open, phase, call>>

\* The session is gone: clearSession, SESSION_EXPIRED_EVENT, the store clears
\* and the guards unmount the pages. The calls in gone are rejected, and their
\* callers continue as in Fail.
Expired(t, gone) ==
    /\ phase' = [phase EXCEPT ![t] = IF \E q \in gone : call[q].kind = "boot" THEN "ready" ELSE @]
    /\ call' = [q \in Calls |-> IF q \in gone THEN Idle ELSE call[q]]
    /\ DropSession(t)
    /\ renewal' = [renewal EXCEPT ![t] = NoRenewal]
    /\ wire' = [wire EXCEPT ![t] = NoWire]
    /\ UNCHANGED <<server, open>>

\* The renewal is refused: whoever waited for it is rejected.
SessionExpired(t) ==
    /\ renewal[t].pc = "refused"
    /\ Expired(t, Waiters(t))

\* A 401 when storage holds no refresh token: refreshAccessToken throws.
NoRefreshToken(q) ==
    /\ call[q].pc = "unauthorized" /\ ~ call[q].retried
    /\ refresh = 0 /\ renewal[TabOf[q]].pc = "none"
    /\ Expired(TabOf[q], {q})

-----------------------------------------------------------------------------
(* Sockets.                                                                 *)

\* getFreshAccessToken, and a dial with what it returns. A token without its
\* margin of life is renewed first; no token at all closes the socket for good.
DialFresh(t) ==
    IF access <= aged /\ refresh # 0
    THEN /\ wire' = [wire EXCEPT ![t] = [page |-> "speaking", pc |-> "asking", token |-> 0]]
         /\ JoinRenewal(t)
    ELSE /\ wire' = [wire EXCEPT ![t] = [page |-> "speaking", token |-> access,
                                         pc |-> IF access = 0 THEN "closed" ELSE "dialing"]]
         /\ UNCHANGED renewal

\* A page with a socket is mounted: useSpeakingSocket asks for a fresh token,
\* usePlatformPresence takes the stored one, once.
Mount(t, page) ==
    /\ Protected(t) /\ wire[t].pc = "off" /\ page \in Pages
    /\ IF page = "speaking" THEN DialFresh(t)
       ELSE /\ access # 0
            /\ wire' = [wire EXCEPT ![t] = [page |-> page, pc |-> "dialing", token |-> access]]
            /\ UNCHANGED renewal
    /\ UNCHANGED <<storage, server, store, call>>

\* The handshake: the server checks the token of the URL.
Handshake(t) ==
    /\ wire[t].pc = "dialing"
    /\ wire' = [wire EXCEPT ![t].pc = IF Accepts(wire[t].token) THEN "open" ELSE "backoff"]
    /\ UNCHANGED <<storage, server, store, renewal, call>>

\* An open socket drops.
DropWire(t) ==
    /\ "drop" \in Events
    /\ wire[t].pc = "open"
    /\ wire' = [wire EXCEPT ![t].pc = "backoff"]
    /\ UNCHANGED <<storage, server, store, renewal, call>>

\* A bug: every page presents the token it was mounted with.
RedialStale(t) ==
    /\ wire[t].pc = "backoff"
    /\ wire' = [wire EXCEPT ![t].pc = "dialing"]
    /\ UNCHANGED <<storage, server, store, renewal, call>>

\* The retry timer: the talk asks for a token again, the home page presents the
\* one it was mounted with.
Redial(t) ==
    /\ wire[t].pc = "backoff"
    /\ IF wire[t].page = "speaking" THEN DialFresh(t)
       ELSE wire' = [wire EXCEPT ![t].pc = "dialing"] /\ UNCHANGED renewal
    /\ UNCHANGED <<storage, server, store, call>>

\* The user leaves the page; cleanup stops the timer and a pending dial.
Unmount(t) ==
    /\ wire[t].pc # "off"
    /\ wire' = [wire EXCEPT ![t] = NoWire]
    /\ UNCHANGED <<storage, server, store, renewal, call>>

-----------------------------------------------------------------------------
\* A page of the app is loaded, in a new tab or again in an old one: what the
\* old page waited for is forgotten, the store starts from localStorage. A
\* request on its way was served before, or never is.
Load(t) ==
    /\ t \in open => "reload" \in Events /\ phase[t] = "ready"
    /\ open' = open \cup {t}
    /\ phase' = [phase EXCEPT ![t] = "loaded"]
    /\ auth' = [auth EXCEPT ![t] = profile /\ access # 0]
    /\ call' = [q \in Calls |-> IF TabOf[q] = t THEN Idle ELSE call[q]]
    /\ renewal' = [renewal EXCEPT ![t] = NoRenewal]
    /\ wire' = [wire EXCEPT ![t] = NoWire]
    /\ lost' = (\/ lost \/ renewal[t].pc # "none"
                \/ \E q \in CallsOf(t) : call[q].kind = "logout")
    /\ UNCHANGED <<storage, server>>

\* The browser and the server, as opposed to what users, the network and time do.
CallStep(q) ==
    /\ \/ Serve(q) \/ Succeed(q) \/ Fail(q) \/ Unauthorized(q) \/ NoRefreshToken(q)
       \/ MakeCall(q, "boot")
    /\ UNCHANGED <<inputs, lost>>
RenewalStep(t) ==
    /\ BootEmpty(t) \/ ServeRenewal(t) \/ Renewed(t) \/ SessionExpired(t)
    /\ UNCHANGED <<inputs, lost>>
WireStep(t) ==
    /\ Handshake(t) \/ Redial(t)
    /\ UNCHANGED <<inputs, lost>>

Users ==
    \/ /\ \/ \E q \in Calls : LoseCall(q) \/ \E k \in Kinds \ {"boot"} : MakeCall(q, k)
          \/ \E t \in Tabs : \/ LogoutAlone(t) \/ DropWire(t) \/ Unmount(t)
                             \/ \E page \in Pages : Mount(t, page)
       /\ UNCHANGED lost
    \/ \E t \in Tabs : Load(t) \/ LoseRenewal(t)

Next ==
    \/ \E q \in Calls : CallStep(q)
    \/ \E t \in Tabs : RenewalStep(t) \/ WireStep(t)
    \/ Users /\ inputs < MaxInputs /\ inputs' = inputs + 1
    \/ (Age \/ Expire) /\ UNCHANGED <<inputs, lost>>
Spec == Init /\ [][Next]_vars

\* The event loop of a tab runs its tasks, the server answers, timers fire.
\* Nothing is assumed of users, of the network or of time.
Fairness ==
    /\ \A q \in Calls : WF_vars(CallStep(q))
    /\ \A t \in Tabs : WF_vars(RenewalStep(t)) /\ WF_vars(WireStep(t))
FairSpec == Spec /\ Fairness
-----------------------------------------------------------------------------
(* Properties.                                                              *)

Alone == Cardinality(open) = 1

\* With one tab, no password change and a network that answers, the session
\* lasts until the user ends it: calls and sockets that meet a spent token at
\* the same time share one renewal, and no refresh token is presented twice
\* (refreshPromise of client.ts under ROTATE_REFRESH_TOKENS). Left aside: the
\* bound on the pairs, which stands for the seven days of a refresh token, and a
\* renewal that was on its way when the user signed out and in again.
SessionLasts ==
    [][ /\ Alone /\ since = 1
        /\ ~ lost
        /\ \A q \in Calls : call[q].kind # "logout"
        /\ \A t \in Tabs : renewal[t].pc = "refused"
                            => renewal[t].token = refresh /\ ~ Renews(refresh)
        /\ access # 0
        => access' # 0 ]_vars

\* What localStorage holds between renewals can be renewed, whatever tabs share it:
\* the rotated refresh token is never lost (client.ts, "losing the new one here
\* would strand the session"), whatever calls, sign-ins and sign-outs ran.
NotStranded ==
    /\ since = 1 /\ ~ lost
    /\ \A t \in Tabs : renewal[t].pc = "none"
    /\ \A q \in Calls : call[q].kind # "logout"
    => refresh = 0 \/ Renews(refresh)

\* Whoever makes a call is answered, however many calls wait for one renewal
\* and however it ends.
CallsSettle == \A q \in Calls : call[q].pc # "idle" ~> call[q].pc = "idle"

\* No tab shows the loader of the guards for ever (bootstrap of auth.store.ts).
TabsBecomeReady == \A t \in Tabs : t \in open ~> phase[t] = "ready"

\* A tab that still shows a session another tab has ended finds out at its next
\* call: the 401 without a refresh token drops the store as well.
EndedTabFallsBack ==
    \A t \in Tabs :
        /\ auth[t] /\ access = 0
        /\ \E q \in CallsOf(t) : call[q].pc = "unauthorized" /\ ~ call[q].retried
        ~> ~ auth[t] \/ access # 0

\* Whatever waits for the session comes to rest with it.
SessionSettles == CallsSettle /\ TabsBecomeReady /\ EndedTabFallsBack

\* A socket that was refused for its token gets through with a renewed one, or
\* its page is closed: it does not present a dead token for ever
\* (getFreshAccessToken of client.ts).
GetsThrough(page) ==
    \A t \in Tabs :
        since = 1 /\ wire[t].page = page /\ wire[t].pc = "backoff"
        ~> wire[t].pc \in {"open", "closed", "off"} \/ since # 1
SpeakerGetsThrough == GetsThrough("speaking")

\* A browser that was signed out holds no tokens until somebody signs in
\* (LogoutConfirmModal: "This ends your session on this device").
SignedOutStaysOut ==
    [][ access = 0 /\ access' # 0
        => \E q \in Calls : call[q].kind = "login" /\ call[q].pc = "ok" ]_vars
=============================================================================
