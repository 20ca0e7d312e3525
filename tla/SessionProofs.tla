--------------------------- MODULE SessionProofs ---------------------------
(***************************************************************************)
(* Theorems about Session, for any number of tabs and calls.               *)
(***************************************************************************)
EXTENDS Session, FiniteSetTheorems, TLAPS

-----------------------------------------------------------------------------
(* What the steps change.                                                   *)

\* The slot of call q goes on to pc with the cargo c, and no other does.
Answered(q, pc, c) ==
    /\ call' \in [Calls -> Call]
    /\ call'[q] = [call[q] EXCEPT !.pc = pc, !.cargo = c]
    /\ \A p \in Calls \ {q} : call'[p] = call[p]

LEMMA Answers ==
    ASSUME TypeOK, NEW q \in Calls, NEW pc \in {"ok", "unauthorized", "failed"}, NEW c \in Pair,
           call' = [call EXCEPT ![q].pc = pc, ![q].cargo = c]
    PROVE  Answered(q, pc, c)
<1>1. call[q] \in Call
  BY DEF TypeOK, ServerTypes, BrowserTypes, ClientTypes
<1>2. [call[q] EXCEPT !.pc = pc, !.cargo = c] \in Call
  BY <1>1 DEF Call
<1>3. call' = [call EXCEPT ![q] = [call[q] EXCEPT !.pc = pc, !.cargo = c]]
  BY DEF TypeOK, ServerTypes, BrowserTypes, ClientTypes, Call
<1> QED BY <1>2, <1>3 DEF TypeOK, ServerTypes, BrowserTypes, ClientTypes, Answered

\* What the server does with a call, case by case.
LEMMA Served ==
    ASSUME TypeOK, NEW q \in Calls, Serve(q)
    PROVE  /\ UNCHANGED <<storage, store, renewal, wire>>
           /\ call[q].pc = "sent"
           /\ \/ /\ Answered(q, "unauthorized", call[q].cargo)
                 /\ UNCHANGED server
              \/ /\ call[q].kind \in {"login", "change"}
                 /\ Answered(q, "ok", issued + 1)
                 /\ Issue({})
                 /\ since' = IF call[q].kind = "change" THEN issued + 1 ELSE since
              \/ /\ call[q].kind \in {"login", "change"}
                 /\ Answered(q, "failed", 0)
                 /\ UNCHANGED server
              \/ /\ call[q].kind = "logout"
                 /\ Answered(q, "ok", call[q].cargo)
                 /\ renewable' = renewable \ {call[q].cargo}
                 /\ UNCHANGED <<issued, since, aged, expired>>
              \/ /\ call[q].kind \in {"boot", "user", "data"}
                 /\ Answered(q, "ok", 0)
                 /\ UNCHANGED server
<1>1. call[q] \in Call /\ 0 \in Pair
  BY SessionAssumption DEF TypeOK, ServerTypes, BrowserTypes, ClientTypes, Pair
<1>2. call[q].cargo \in Pair
  BY <1>1 DEF Call
<1>3. Issue({}) => issued + 1 \in Pair
  BY SessionAssumption DEF Issue, TypeOK, ServerTypes, BrowserTypes, ClientTypes, Pair
<1> QED BY <1>1, <1>2, <1>3, Answers DEF Serve

\* refreshPromise of a tab is there afterwards, and a renewal on its way is kept.
LEMMA Joins ==
    ASSUME TypeOK, NEW t \in Tabs, JoinRenewal(t)
    PROVE  /\ renewal' \in [Tabs -> Renewal]
           /\ \A u \in Tabs \ {t} : renewal'[u] = renewal[u]
           /\ IF renewal[t].pc = "none" THEN renewal'[t] = [pc |-> "sent", token |-> refresh]
              ELSE renewal'[t] = renewal[t]
BY DEF JoinRenewal, TypeOK, ServerTypes, BrowserTypes, ClientTypes, Renewal

\* A socket asks for a token, and joins the renewal, or dials with the one it has.
LEMMA Dials ==
    ASSUME TypeOK, NEW t \in Tabs, DialFresh(t)
    PROVE  /\ wire' \in [Tabs -> Wire]
           /\ \A u \in Tabs \ {t} : wire'[u] = wire[u]
           /\ \/ refresh # 0 /\ JoinRenewal(t)
              \/ wire'[t].pc # "asking" /\ UNCHANGED renewal
<1>1. CASE access <= aged /\ refresh # 0
  BY <1>1, SessionAssumption DEF DialFresh, TypeOK, ServerTypes, BrowserTypes, ClientTypes, Wire, Pair
<1>2. CASE ~ (access <= aged /\ refresh # 0)
  <2> DEFINE w == [page |-> "speaking", token |-> access,
                   pc |-> IF access = 0 THEN "closed" ELSE "dialing"]
  <2>1. w \in Wire /\ w.pc # "asking"
    BY DEF TypeOK, ServerTypes, BrowserTypes, ClientTypes, Wire
  <2>2. wire' = [wire EXCEPT ![t] = w] /\ UNCHANGED renewal
    BY <1>2 DEF DialFresh
  <2> QED BY <2>1, <2>2 DEF TypeOK, ServerTypes, BrowserTypes, ClientTypes
<1> QED BY <1>1, <1>2

-----------------------------------------------------------------------------
(* Types.                                                                   *)

\* A pair more keeps the types of the server.
LEMMA IssueTyped ==
    ASSUME TypeOK, NEW used, Issue(used), since' \in {since, issued + 1}
    PROVE  ServerTypes'
<1>1. /\ issued \in Nat /\ issued' = issued + 1 /\ since \in 1 .. issued
      /\ aged' = aged /\ expired' = expired /\ aged \in 0 .. issued /\ expired \in 0 .. aged
  BY SessionAssumption DEF Issue, TypeOK, ServerTypes, Pair
<1>2. issued' \in Pair
  BY <1>1, SessionAssumption DEF Issue, TypeOK, ServerTypes, Pair
<1>3. renewable' \subseteq 1 .. issued'
  <2>1. renewable \subseteq 1 .. issued /\ renewable' = (renewable \ used) \cup {issued + 1}
    BY DEF Issue, TypeOK, ServerTypes
  <2>2. ASSUME NEW p \in renewable' PROVE p \in 1 .. issued'
    <3>1. p \in 1 .. issued \/ p = issued + 1
      BY <2>1
    <3> QED BY <1>1, <3>1
  <2> QED BY <2>2
<1> QED BY <1>1, <1>2, <1>3 DEF ServerTypes

\* A socket that dials keeps the types.
LEMMA DialTyped ==
    ASSUME TypeOK, NEW t \in Tabs, DialFresh(t), UNCHANGED <<storage, server, store, call>>,
           inputs' \in 0 .. MaxInputs, UNCHANGED lost
    PROVE  TypeOK'
<1>1. /\ wire' \in [Tabs -> Wire]
      /\ \A u \in Tabs \ {t} : wire'[u] = wire[u]
      /\ \/ refresh # 0 /\ JoinRenewal(t)
         \/ wire'[t].pc # "asking" /\ UNCHANGED renewal
  BY Dials
<1>2. /\ renewal' \in [Tabs -> Renewal]
      /\ \A u \in Tabs : renewal[u].pc # "none" => renewal'[u].pc # "none"
      /\ wire'[t].pc = "asking" => renewal'[t].pc # "none"
  BY <1>1, Joins DEF TypeOK, ClientTypes
<1> QED BY <1>1, <1>2, SessionAssumption DEF TypeOK, ServerTypes, BrowserTypes, ClientTypes,
    Awaited, storage, server, store

\* Every step of a call keeps the types.
LEMMA CallTyped ==
    ASSUME TypeOK, NEW q \in Calls, CallStep(q)
    PROVE  TypeOK'
<1> USE SessionAssumption
<1>0. /\ call[q] \in Call /\ Idle \in Call /\ NoWire \in Wire /\ 0 \in Pair
      /\ \A p \in Calls : TabOf[p] \in Tabs
      /\ UNCHANGED <<inputs, lost>>
  BY DEF TypeOK, ClientTypes, Idle, Call, CallKinds, NoWire, Wire, Pair, CallStep
<1>1. CASE Serve(q)
  <2>1. \E pc \in {"ok", "unauthorized", "failed"}, c \in Nat : Answered(q, pc, c)
    BY <1>0, <1>1, Served DEF Call, Pair, TypeOK, ServerTypes
  <2>2. \/ Issue({}) /\ since' \in {since, issued + 1}
        \/ /\ UNCHANGED <<issued, since, aged, expired>>
           /\ renewable' \subseteq renewable
    BY <1>1, Served DEF server
  <2>3. call' \in [Calls -> Call]
    BY <2>1 DEF Answered
  <2>4. \A p \in Calls : call'[p].pc = "waiting" => call[p].pc = "waiting"
    <3>1. PICK pc \in {"ok", "unauthorized", "failed"}, c \in Nat : Answered(q, pc, c)
      BY <2>1
    <3>2. call'[q].pc = pc
      BY <1>0, <3>1 DEF Answered, Call
    <3> QED BY <3>1, <3>2 DEF Answered
  <2>5. ServerTypes'
    <3>1. CASE Issue({}) /\ since' \in {since, issued + 1}
      BY <3>1, IssueTyped
    <3>2. CASE UNCHANGED <<issued, since, aged, expired>> /\ renewable' \subseteq renewable
      BY <3>2 DEF TypeOK, ServerTypes
    <3> QED BY <2>2, <3>1, <3>2
  <2>6. UNCHANGED <<storage, store, renewal, wire>>
    BY <1>1, Served
  <2> QED BY <1>0, <2>3, <2>4, <2>5, <2>6
      DEF TypeOK, BrowserTypes, ClientTypes, Awaited, storage, store
<1>2. CASE Succeed(q)
  <2>1. call' = [call EXCEPT ![q] = Idle] /\ UNCHANGED <<server, open, renewal>>
    BY <1>2 DEF Succeed, Finish
  <2>2. /\ access' \in Pair /\ refresh' \in Pair /\ profile' \in BOOLEAN
        /\ phase' \in [Tabs -> {"loaded", "booting", "ready"}] /\ auth' \in [Tabs -> BOOLEAN]
        /\ UNCHANGED wire \/ wire' = [wire EXCEPT ![TabOf[q]] = NoWire]
    BY <1>0, <1>2 DEF Succeed, Adopt, SetTokens, DropSession, Call, TypeOK, BrowserTypes, storage
  <2> QED BY <1>0, <2>1, <2>2 DEF TypeOK, ServerTypes, BrowserTypes, ClientTypes, Awaited,
      server, Idle, NoWire
<1>3. CASE Fail(q)
  <2>1. call' = [call EXCEPT ![q] = Idle] /\ UNCHANGED <<server, open, renewal>>
    BY <1>3 DEF Fail, Finish
  <2>2. /\ access' \in Pair /\ refresh' \in Pair /\ profile' \in BOOLEAN
        /\ phase' \in [Tabs -> {"loaded", "booting", "ready"}] /\ auth' \in [Tabs -> BOOLEAN]
        /\ UNCHANGED wire \/ wire' = [wire EXCEPT ![TabOf[q]] = NoWire]
    BY <1>0, <1>3 DEF Fail, DropSession, TypeOK, BrowserTypes, storage
  <2> QED BY <1>0, <2>1, <2>2 DEF TypeOK, ServerTypes, BrowserTypes, ClientTypes, Awaited,
      server, Idle, NoWire
<1>4. CASE Unauthorized(q)
  <2>1. call' \in [Calls -> Call] /\ \A p \in Calls \ {q} : call'[p] = call[p]
    BY <1>0, <1>4 DEF Unauthorized, Call, TypeOK, ClientTypes
  <2>2. JoinRenewal(TabOf[q]) /\ UNCHANGED <<storage, server, store, wire>>
    BY <1>4 DEF Unauthorized
  <2>3. renewal' \in [Tabs -> Renewal] /\ renewal'[TabOf[q]].pc # "none"
        /\ \A t \in Tabs : renewal[t].pc # "none" => renewal'[t].pc # "none"
    BY <1>0, <2>2, Joins
  <2> QED BY <1>0, <2>1, <2>2, <2>3 DEF TypeOK, ServerTypes, BrowserTypes, ClientTypes, Awaited,
      storage, server, store
<1>5. CASE NoRefreshToken(q)
  <2>1. /\ call' = [p \in Calls |-> IF p = q THEN Idle ELSE call[p]]
        /\ wire' = [wire EXCEPT ![TabOf[q]] = NoWire]
        /\ renewal' = [renewal EXCEPT ![TabOf[q]] = NoRenewal] /\ renewal[TabOf[q]].pc = "none"
        /\ access' = 0 /\ refresh' = 0 /\ profile' = FALSE
        /\ UNCHANGED <<server, open>>
    BY <1>5 DEF NoRefreshToken, Expired, DropSession
  <2>2. phase' \in [Tabs -> {"loaded", "booting", "ready"}] /\ auth' \in [Tabs -> BOOLEAN]
    BY <1>0, <1>5 DEF NoRefreshToken, Expired, DropSession, TypeOK, BrowserTypes
  <2>3. renewal' \in [Tabs -> Renewal] /\ \A t \in Tabs : renewal'[t].pc = renewal[t].pc
    BY <1>0, <2>1 DEF NoRenewal, Renewal, TypeOK, ClientTypes
  <2> QED BY <1>0, <2>1, <2>2, <2>3 DEF TypeOK, ServerTypes, BrowserTypes, ClientTypes, Awaited,
      server, Idle, NoWire
<1>6. CASE MakeCall(q, "boot")
  <2>1. /\ call' = [call EXCEPT ![q] = [kind |-> "boot", pc |-> "sent", header |-> access,
                                         retried |-> FALSE, cargo |-> 0]]
        /\ phase' = [phase EXCEPT ![TabOf[q]] = "booting"]
        /\ UNCHANGED <<storage, server, open, auth, renewal, wire>>
    BY <1>6 DEF MakeCall
  <2>2. call' \in [Calls -> Call] /\ \A p \in Calls : call'[p].pc = "waiting" => call[p].pc = "waiting"
    BY <1>0, <2>1 DEF Call, CallKinds, TypeOK, BrowserTypes, ClientTypes
  <2> QED BY <1>0, <2>1, <2>2 DEF TypeOK, ServerTypes, BrowserTypes, ClientTypes, Awaited,
      storage, server
<1> QED BY <1>1, <1>2, <1>3, <1>4, <1>5, <1>6 DEF CallStep

\* So does every step of a renewal, with the calls and the socket that wait for it.
LEMMA RenewalTyped ==
    ASSUME TypeOK, NEW t \in Tabs, RenewalStep(t)
    PROVE  TypeOK'
<1> USE SessionAssumption
<1>0. /\ Idle \in Call /\ NoWire \in Wire /\ 0 \in Pair /\ NoRenewal \in Renewal
      /\ \A p \in Calls : TabOf[p] \in Tabs
      /\ UNCHANGED <<inputs, lost>>
  BY DEF Idle, Call, CallKinds, NoWire, Wire, Pair, NoRenewal, Renewal, RenewalStep
<1>1. CASE BootEmpty(t)
  BY <1>0, <1>1 DEF BootEmpty, TypeOK, ServerTypes, BrowserTypes, ClientTypes, Awaited,
     storage, server
<1>2. CASE ServeRenewal(t)
  <2>1. \/ /\ Issue({renewal[t].token}) /\ UNCHANGED since
           /\ renewal' = [renewal EXCEPT ![t] = [pc |-> "granted", token |-> issued + 1]]
        \/ /\ UNCHANGED server
           /\ renewal' = [renewal EXCEPT ![t] = [pc |-> "refused", token |-> renewal[t].token]]
    BY <1>2 DEF ServeRenewal
  <2>2. UNCHANGED <<storage, store, call, wire>>
    BY <1>2 DEF ServeRenewal
  <2>3. Issue({renewal[t].token}) => issued + 1 \in Pair
    BY DEF Issue, TypeOK, ServerTypes, Pair
  <2>4. renewal' \in [Tabs -> Renewal]
    BY <2>1, <2>3 DEF TypeOK, ClientTypes, Renewal
  <2>5. \A u \in Tabs : renewal[u].pc # "none" => renewal'[u].pc # "none"
    BY <2>1 DEF TypeOK, ClientTypes, Renewal
  <2>6. ServerTypes'
    <3>1. CASE Issue({renewal[t].token}) /\ UNCHANGED since
      BY <3>1, IssueTyped
    <3>2. CASE UNCHANGED server
      BY <3>2 DEF TypeOK, ServerTypes, server
    <3> QED BY <2>1, <3>1, <3>2
  <2> QED BY <1>0, <2>2, <2>4, <2>5, <2>6
      DEF TypeOK, BrowserTypes, ClientTypes, Awaited, storage, store
<1>3. CASE Renewed(t)
  <2>1. renewal[t] \in Renewal /\ renewal[t].token \in Pair
    BY DEF TypeOK, ClientTypes, Renewal
  <2>2. /\ access' = renewal[t].token /\ refresh' = renewal[t].token
        /\ renewal' = [renewal EXCEPT ![t] = NoRenewal]
        /\ UNCHANGED <<profile, server, store>>
    BY <1>3 DEF Renewed, SetTokens
  <2>3. call' = [q \in Calls |-> IF TabOf[q] = t /\ call[q].pc = "waiting"
                                 THEN [call[q] EXCEPT !.pc = "sent", !.header = renewal[t].token]
                                 ELSE call[q]]
    BY <1>3 DEF Renewed, Waiters, CallsOf
  <2>4. call' \in [Calls -> Call]
    <3> SUFFICES ASSUME NEW q \in Calls PROVE call'[q] \in Call
      BY <2>3
    <3>1. call[q] \in Call
      BY DEF TypeOK, ClientTypes
    <3> QED BY <2>1, <2>3, <3>1 DEF Call
  <2>5. \A q \in Calls : call'[q].pc = "waiting" => call[q].pc = "waiting" /\ TabOf[q] # t
    <3> SUFFICES ASSUME NEW q \in Calls, call'[q].pc = "waiting"
                 PROVE  call[q].pc = "waiting" /\ TabOf[q] # t
      OBVIOUS
    <3>1. call[q] \in Call
      BY DEF TypeOK, ClientTypes
    <3> QED BY <2>3, <3>1 DEF Call
  <2>6. wire' \in [Tabs -> Wire] /\ \A u \in Tabs : wire'[u].pc = "asking" => wire[u].pc = "asking" /\ u # t
    <3>1. CASE wire[t].pc = "asking"
      <4>1. wire' = [wire EXCEPT ![t].pc = "dialing", ![t].token = renewal[t].token]
        BY <1>3, <3>1 DEF Renewed
      <4>2. wire \in [Tabs -> Wire] /\ wire[t] \in Wire
        BY DEF TypeOK, ClientTypes
      <4>3. [wire[t] EXCEPT !.pc = "dialing", !.token = renewal[t].token] \in Wire
        BY <2>1, <4>2 DEF Wire
      <4>4. wire' = [wire EXCEPT ![t] = [wire[t] EXCEPT !.pc = "dialing", !.token = renewal[t].token]]
        BY <4>1, <4>2 DEF Wire
      <4>5. wire'[t].pc = "dialing"
        BY <4>2, <4>4 DEF Wire
      <4> QED BY <4>2, <4>3, <4>4, <4>5
    <3>2. CASE wire[t].pc # "asking"
      BY <1>3, <3>2 DEF Renewed, TypeOK, ClientTypes
    <3> QED BY <3>1, <3>2
  <2> QED BY <1>0, <2>1, <2>2, <2>4, <2>5, <2>6
      DEF TypeOK, ServerTypes, BrowserTypes, ClientTypes, Awaited, server, store
<1>4. CASE SessionExpired(t)
  <2>1. /\ call' = [q \in Calls |-> IF TabOf[q] = t /\ call[q].pc = "waiting" THEN Idle ELSE call[q]]
        /\ wire' = [wire EXCEPT ![t] = NoWire]
        /\ renewal' = [renewal EXCEPT ![t] = NoRenewal]
        /\ access' = 0 /\ refresh' = 0 /\ profile' = FALSE
        /\ auth' = [auth EXCEPT ![t] = FALSE]
        /\ UNCHANGED <<server, open>>
    BY <1>4 DEF SessionExpired, Expired, DropSession, Waiters, CallsOf
  <2>2. phase' \in [Tabs -> {"loaded", "booting", "ready"}]
    BY <1>4 DEF SessionExpired, Expired, TypeOK, BrowserTypes
  <2> QED BY <1>0, <2>1, <2>2 DEF TypeOK, ServerTypes, BrowserTypes, ClientTypes, Awaited,
      server, Idle, NoWire
<1> QED BY <1>1, <1>2, <1>3, <1>4 DEF RenewalStep

\* So does every step of a socket.
LEMMA WireTyped ==
    ASSUME TypeOK, NEW t \in Tabs, WireStep(t)
    PROVE  TypeOK'
<1> USE SessionAssumption
<1>1. CASE Handshake(t)
  <2>1. UNCHANGED <<storage, server, store, renewal, call, inputs, lost>>
    BY <1>1 DEF Handshake, WireStep
  <2>2. wire' \in [Tabs -> Wire] /\ \A u \in Tabs : wire'[u].pc = "asking" => wire[u].pc = "asking"
    BY <1>1 DEF Handshake, TypeOK, ClientTypes, Wire
  <2> QED BY <2>1, <2>2 DEF TypeOK, ServerTypes, BrowserTypes, ClientTypes, Awaited,
      storage, server, store
<1>2. CASE Redial(t)
  <2>1. UNCHANGED <<storage, server, store, call, inputs, lost>>
    BY <1>2 DEF Redial, WireStep
  <2>2. CASE DialFresh(t)
    <3>1. inputs' \in 0 .. MaxInputs
      BY <2>1 DEF TypeOK, BrowserTypes
    <3> QED BY <2>1, <2>2, <3>1, DialTyped
  <2>3. CASE wire' = [wire EXCEPT ![t].pc = "dialing"] /\ UNCHANGED renewal
    <3>1. wire' \in [Tabs -> Wire] /\ \A u \in Tabs : wire'[u].pc = "asking" => wire[u].pc = "asking"
      BY <2>3 DEF TypeOK, ClientTypes, Wire
    <3> QED BY <2>1, <2>3, <3>1 DEF TypeOK, ServerTypes, BrowserTypes, ClientTypes, Awaited,
        storage, server, store
  <2> QED BY <1>2, <2>2, <2>3 DEF Redial
<1> QED BY <1>1, <1>2 DEF WireStep

\* So does whatever users and the network do.
LEMMA UsersTyped ==
    ASSUME TypeOK, Users, inputs < MaxInputs, inputs' = inputs + 1
    PROVE  TypeOK'
<1> USE SessionAssumption
<1>0. /\ Idle \in Call /\ NoWire \in Wire /\ 0 \in Pair /\ NoRenewal \in Renewal
      /\ \A p \in Calls : TabOf[p] \in Tabs
      /\ inputs' \in 0 .. MaxInputs
  BY DEF Idle, Call, CallKinds, NoWire, Wire, Pair, NoRenewal, Renewal, TypeOK, BrowserTypes
<1>1. ASSUME NEW q \in Calls, LoseCall(q), UNCHANGED lost PROVE TypeOK'
  <2>1. call' \in [Calls -> Call] /\ \A p \in Calls : call'[p].pc = "waiting" => call[p].pc = "waiting"
    BY <1>1 DEF LoseCall, TypeOK, ClientTypes, Call
  <2>2. UNCHANGED <<storage, server, store, renewal, wire>>
    BY <1>1 DEF LoseCall
  <2> QED BY <1>0, <1>1, <2>1, <2>2 DEF TypeOK, ServerTypes, BrowserTypes, ClientTypes, Awaited,
      storage, server, store
<1>2. ASSUME NEW q \in Calls, NEW k \in Kinds \ {"boot"}, MakeCall(q, k), UNCHANGED lost
      PROVE  TypeOK'
  <2>1. /\ call' = [call EXCEPT ![q] = [kind |-> k, pc |-> "sent", header |-> access,
                          retried |-> FALSE, cargo |-> IF k = "logout" THEN refresh ELSE 0]]
        /\ UNCHANGED <<storage, server, store, renewal, wire>>
    BY <1>2 DEF MakeCall, store
  <2>2. call' \in [Calls -> Call] /\ \A p \in Calls : call'[p].pc = "waiting" => call[p].pc = "waiting"
    BY <1>0, <2>1 DEF Call, TypeOK, BrowserTypes, ClientTypes
  <2> QED BY <1>0, <1>2, <2>1, <2>2 DEF TypeOK, ServerTypes, BrowserTypes, ClientTypes, Awaited,
      storage, server, store
<1>3. ASSUME NEW t \in Tabs, LogoutAlone(t), UNCHANGED lost PROVE TypeOK'
  <2>1. /\ access' = 0 /\ refresh' = 0 /\ profile' = FALSE
        /\ auth' = [auth EXCEPT ![t] = FALSE] /\ wire' = [wire EXCEPT ![t] = NoWire]
        /\ UNCHANGED <<server, open, phase, renewal, call>>
    BY <1>3 DEF LogoutAlone, DropSession
  <2> QED BY <1>0, <1>3, <2>1 DEF TypeOK, ServerTypes, BrowserTypes, ClientTypes, Awaited,
      server, NoWire
<1>4. ASSUME NEW t \in Tabs, DropWire(t), UNCHANGED lost PROVE TypeOK'
  <2>1. wire' \in [Tabs -> Wire] /\ \A u \in Tabs : wire'[u].pc = "asking" => wire[u].pc = "asking"
    BY <1>4 DEF DropWire, TypeOK, ClientTypes, Wire
  <2>2. UNCHANGED <<storage, server, store, renewal, call>>
    BY <1>4 DEF DropWire
  <2> QED BY <1>0, <1>4, <2>1, <2>2 DEF TypeOK, ServerTypes, BrowserTypes, ClientTypes, Awaited,
      storage, server, store
<1>5. ASSUME NEW t \in Tabs, Unmount(t), UNCHANGED lost PROVE TypeOK'
  <2>1. /\ wire' = [wire EXCEPT ![t] = NoWire]
        /\ UNCHANGED <<storage, server, store, renewal, call>>
    BY <1>5 DEF Unmount
  <2> QED BY <1>0, <1>5, <2>1 DEF TypeOK, ServerTypes, BrowserTypes, ClientTypes, Awaited,
      storage, server, store, NoWire
<1>6. ASSUME NEW t \in Tabs, NEW page \in Pages, Mount(t, page), UNCHANGED lost PROVE TypeOK'
  <2>1. UNCHANGED <<storage, server, store, call>>
    BY <1>6 DEF Mount
  <2>2. CASE DialFresh(t)
    BY <1>0, <1>6, <2>1, <2>2, DialTyped
  <2>3. CASE wire' = [wire EXCEPT ![t] = [page |-> page, pc |-> "dialing", token |-> access]]
             /\ UNCHANGED renewal
    <3>1. [page |-> page, pc |-> "dialing", token |-> access] \in Wire
      BY DEF Wire, TypeOK, BrowserTypes
    <3> QED BY <1>0, <1>6, <2>1, <2>3, <3>1 DEF TypeOK, ServerTypes, BrowserTypes, ClientTypes,
        Awaited, storage, server, store
  <2> QED BY <1>6, <2>2, <2>3 DEF Mount
<1>7. ASSUME NEW t \in Tabs, Load(t) PROVE TypeOK'
  <2>1. /\ open' = open \cup {t} /\ phase' = [phase EXCEPT ![t] = "loaded"]
        /\ auth' = [auth EXCEPT ![t] = profile /\ access # 0]
        /\ call' = [q \in Calls |-> IF TabOf[q] = t THEN Idle ELSE call[q]]
        /\ renewal' = [renewal EXCEPT ![t] = NoRenewal]
        /\ wire' = [wire EXCEPT ![t] = NoWire]
        /\ lost' \in BOOLEAN
        /\ UNCHANGED <<storage, server>>
    BY <1>7 DEF Load
  <2>2. auth' \in [Tabs -> BOOLEAN]
    BY <2>1, Zenon DEF TypeOK, BrowserTypes
  <2>3. ServerTypes' /\ access' \in Pair /\ refresh' \in Pair /\ profile' \in BOOLEAN
    BY <2>1 DEF TypeOK, ServerTypes, BrowserTypes, storage, server
  <2>4. open' \subseteq Tabs /\ phase' \in [Tabs -> {"loaded", "booting", "ready"}]
    BY <2>1 DEF TypeOK, BrowserTypes
  <2>5. ClientTypes' /\ Awaited'
    BY <1>0, <2>1 DEF TypeOK, ClientTypes, Awaited, Idle, NoWire
  <2> QED BY <1>0, <2>1, <2>2, <2>3, <2>4, <2>5 DEF TypeOK, BrowserTypes
<1>8. ASSUME NEW t \in Tabs, LoseRenewal(t) PROVE TypeOK'
  <2>1. /\ renewal' = [renewal EXCEPT ![t].pc = "refused"]
        /\ lost' = TRUE
        /\ UNCHANGED <<storage, server, store, call, wire>>
    BY <1>8 DEF LoseRenewal
  <2>2. renewal' \in [Tabs -> Renewal]
        /\ \A u \in Tabs : renewal[u].pc # "none" => renewal'[u].pc # "none"
    BY <2>1 DEF TypeOK, ClientTypes, Renewal
  <2> QED BY <1>0, <2>1, <2>2 DEF TypeOK, ServerTypes, BrowserTypes, ClientTypes, Awaited,
      storage, server, store
<1> QED BY <1>1, <1>2, <1>3, <1>4, <1>5, <1>6, <1>7, <1>8 DEF Users

\* The state of the session has its types in every behaviour, for any number of
\* tabs and calls: whoever waits for a renewal has one to wait for (refreshPromise).
THEOREM SessionTypeCorrect == Spec => []TypeOK
<1>1. Init => TypeOK
  <2> SUFFICES ASSUME Init PROVE TypeOK
    OBVIOUS
  <2>1. 0 \in Pair /\ 1 \in Pair /\ Idle \in Call /\ NoWire \in Wire /\ NoRenewal \in Renewal
    BY SessionAssumption DEF Pair, Idle, Call, CallKinds, NoWire, Wire, NoRenewal, Renewal
  <2>2. ServerTypes /\ ClientTypes /\ Awaited
    BY <2>1, SessionAssumption DEF Init, ServerTypes, ClientTypes, Awaited, Idle, NoWire
  <2>3. profile \in BOOLEAN /\ auth \in [Tabs -> BOOLEAN]
    <3>1. profile \in BOOLEAN
      BY DEF Init
    <3>2. PICK t \in Tabs : auth = [x \in Tabs |-> x = t /\ profile]
      BY DEF Init
    <3> QED BY <3>1, <3>2, Zenon
  <2>4. open \subseteq Tabs /\ inputs \in 0 .. MaxInputs
    BY SessionAssumption DEF Init
  <2>5. BrowserTypes
    BY <2>1, <2>3, <2>4 DEF Init, BrowserTypes
  <2> QED BY <2>2, <2>5 DEF TypeOK
<1>2. TypeOK /\ [Next]_vars => TypeOK'
  <2> SUFFICES ASSUME TypeOK, [Next]_vars PROVE TypeOK'
    OBVIOUS
  <2>1. CASE (Age \/ Expire) /\ UNCHANGED <<inputs, lost>>
    <3>1. UNCHANGED <<storage, store, renewal, call, wire, inputs, lost>>
      BY <2>1 DEF Age, Expire
    <3>2. ServerTypes'
      <4>1. issued \in Nat
        BY SessionAssumption DEF TypeOK, ServerTypes, Pair
      <4>2. CASE Age
        BY <4>1, <4>2 DEF Age, TypeOK, ServerTypes
      <4>3. CASE Expire
        BY <4>1, <4>3 DEF Expire, TypeOK, ServerTypes
      <4> QED BY <2>1, <4>2, <4>3
    <3> QED BY <3>1, <3>2 DEF TypeOK, BrowserTypes, ClientTypes, Awaited, storage, store
  <2>2. CASE UNCHANGED vars
    BY <2>2 DEF vars, storage, server, store, TypeOK, ServerTypes, BrowserTypes, ClientTypes, Awaited
  <2> QED BY <2>1, <2>2, CallTyped, RenewalTyped, WireTyped, UsersTyped DEF Next
<1> QED BY <1>1, <1>2, PTL DEF Spec

-----------------------------------------------------------------------------
(* The inductive invariant.                                                 *)

Granted(t)  == renewal[t].pc = "granted"
LogsOut(q)  == call[q].kind = "logout"

\* The answer of call q holds a pair that nobody has stored yet.
Unstored(q) == call[q].kind \in {"login", "change"} /\ call[q].pc = "ok"

\* Both tokens of a pair are stored together; only pairs that were issued are about.
Bounded ==
    /\ access = refresh /\ refresh <= issued
    /\ \A t \in Tabs : /\ renewal[t].token <= issued
                       /\ renewal[t].pc \in {"sent", "granted"} => renewal[t].token # 0
    /\ \A q \in Calls : /\ call[q].cargo <= issued
                        /\ LogsOut(q) => call[q].pc # "idle"
                        /\ Unstored(q) => call[q].cargo # 0

\* A closed tab waits for nothing.
Placed ==
    /\ \A t \in Tabs : renewal[t].pc # "none" => t \in open
    /\ \A t \in Tabs : wire[t].pc # "off" => t \in open
    /\ \A q \in Calls : call[q].pc # "idle" => TabOf[q] \in open

\* A pair that nobody has stored is known to its answer alone: it is neither in
\* localStorage, nor in another answer, nor on its way to be renewed or blacklisted.
NewIn(p) == p # refresh /\ \A q \in Calls : LogsOut(q) => call[q].cargo # p
Fresh ==
    /\ \A t \in Tabs : Granted(t) =>
         /\ NewIn(renewal[t].token)
         /\ \A u \in Tabs \ {t} : renewal[u].token # renewal[t].token
    /\ \A q \in Calls : Unstored(q) =>
         /\ NewIn(call[q].cargo)
         /\ \A t \in Tabs : renewal[t].token # call[q].cargo
         /\ \A p \in Calls \ {q} : Unstored(p) => call[p].cargo # call[q].cargo

Calm  == since = 1 /\ ~ lost
Quiet == \A q \in Calls : ~ LogsOut(q)

\* So it can still be renewed when it is stored.
Pending ==
    Calm => /\ \A t \in Tabs : Granted(t) => renewal[t].token \in renewable
            /\ \A q \in Calls : Unstored(q) => call[q].kind = "login" /\ call[q].cargo \in renewable

\* What is stored can be renewed, unless a renewal or a logout is on its way.
Stored ==
    Calm /\ Quiet /\ (\A t \in Tabs : renewal[t].pc = "none")
    => refresh = 0 \/ refresh \in renewable

\* In the only tab, a renewal of what is stored is never refused.
Single == \A x, y \in open : x = y
Held ==
    Calm /\ Quiet /\ Single =>
        \A t \in Tabs : renewal[t].pc \in {"sent", "refused"} /\ renewal[t].token = refresh
                        => refresh = 0 \/ refresh \in renewable

IInv == Bounded /\ Placed /\ Fresh /\ Pending /\ Stored /\ Held

\* What is counted is a number.
LEMMA Numbers ==
    ASSUME TypeOK
    PROVE  /\ issued \in Nat /\ since \in Nat /\ refresh \in Nat /\ access \in Nat
           /\ \A t \in Tabs : renewal[t].token \in Nat
           /\ \A q \in Calls : call[q].cargo \in Nat
           /\ \A p \in renewable : p \in Nat /\ p <= issued
<1>1. Pair \subseteq Nat
  BY SessionAssumption DEF Pair
<1>2. issued \in Nat /\ since \in 1 .. issued /\ renewable \subseteq 1 .. issued
  BY <1>1 DEF TypeOK, ServerTypes
<1>3. refresh \in Nat /\ access \in Nat
  BY <1>1 DEF TypeOK, BrowserTypes
<1>4. \A t \in Tabs : renewal[t].token \in Nat
  BY <1>1 DEF TypeOK, ClientTypes, Renewal
<1>5. \A q \in Calls : call[q].cargo \in Nat
  BY <1>1 DEF TypeOK, ClientTypes, Call
<1>6. \A p \in renewable : p \in Nat /\ p <= issued
  BY <1>2
<1> QED BY <1>2, <1>3, <1>4, <1>5, <1>6

\* No call has a pair that it did not have, or starts to sign out, and none is made in
\* a closed tab.
Tame(q) ==
    /\ call'[q].cargo <= issued
    /\ call'[q].pc # "idle" => TabOf[q] \in open'
    /\ LogsOut(q)' => LogsOut(q) /\ call'[q].cargo = call[q].cargo /\ call'[q].pc # "idle"
    /\ Unstored(q)' => /\ Unstored(q)
                       /\ call'[q].kind = call[q].kind /\ call'[q].cargo = call[q].cargo

\* A renewal stays, ends, or loses its answer.
Fades(t) ==
    \/ renewal'[t] = renewal[t]
    \/ renewal'[t] = NoRenewal
    \/ renewal'[t].pc = "refused" /\ renewal'[t].token = renewal[t].token /\ lost'
       /\ renewal[t].pc # "none"

\* A step that brings no pair in keeps the invariant, when the end of the last renewal
\* or of a logout leaves no session, or loses its answer.
LEMMA Fading ==
    ASSUME TypeOK, IInv,
           UNCHANGED <<issued, since, renewable>>, lost => lost',
           refresh' \in {refresh, 0}, access' = refresh',
           open \subseteq open',
           \A q \in Calls : Tame(q), \A t \in Tabs : Fades(t),
           \A t \in Tabs : wire'[t].pc # "off" => wire[t].pc # "off" \/ t \in open',
           Quiet' => Quiet \/ refresh' = 0 \/ lost',
           (\A t \in Tabs : renewal'[t].pc = "none")
             => (\A t \in Tabs : renewal[t].pc = "none") \/ refresh' = 0 \/ lost'
    PROVE  IInv'
<1> USE DEF Tame, Fades, NoRenewal
<1>1. Bounded'
  BY Numbers DEF IInv, Bounded
<1>2. Placed'
  BY DEF IInv, Placed
<1>3. Fresh'
  BY Numbers DEF IInv, Bounded, Fresh, NewIn, Granted
<1>4. Pending'
  BY DEF IInv, Pending, Calm, Granted
<1>5. Stored'
  BY DEF IInv, Stored, Calm
<1>6. Held'
  BY DEF IInv, Held, Calm, Single
<1> QED BY <1>1, <1>2, <1>3, <1>4, <1>5, <1>6 DEF IInv

-----------------------------------------------------------------------------
(* The steps that bring a pair in, take one out, or present one.            *)

\* A renewal on its way is joined, or the stored token is presented: nobody has
\* presented it yet.
LEMMA JoinKeeps ==
    ASSUME TypeOK, IInv, NEW t \in open, t \in Tabs, JoinRenewal(t),
           refresh # 0 \/ renewal[t].pc # "none",
           UNCHANGED <<storage, server, open, lost>>,
           \A q \in Calls : Tame(q), Quiet' => Quiet,
           \A u \in Tabs : wire'[u].pc # "off" => wire[u].pc # "off" \/ u \in open
    PROVE  IInv'
<1>0. /\ UNCHANGED <<access, refresh, issued, since, renewable>>
      /\ renewal' \in [Tabs -> Renewal]
      /\ \A u \in Tabs \ {t} : renewal'[u] = renewal[u]
      /\ IF renewal[t].pc = "none" THEN renewal'[t] = [pc |-> "sent", token |-> refresh]
         ELSE renewal'[t] = renewal[t]
  BY Joins DEF storage, server
<1>1. Bounded'
  BY <1>0, Numbers DEF IInv, Bounded, Tame
<1>2. Placed'
  BY <1>0 DEF IInv, Placed, Tame
<1>3. Fresh'
  <2>1. ASSUME NEW u \in Tabs, Granted(u)'
        PROVE  /\ Granted(u) /\ renewal'[u] = renewal[u] /\ NewIn(renewal[u].token)'
               /\ \A v \in Tabs \ {u} : renewal'[v].token # renewal'[u].token
    BY <1>0, <2>1 DEF IInv, Fresh, NewIn, Granted, Tame
  <2>2. ASSUME NEW q \in Calls, Unstored(q)'
        PROVE  /\ NewIn(call[q].cargo)' /\ call'[q].cargo = call[q].cargo
               /\ \A u \in Tabs : renewal'[u].token # call'[q].cargo
               /\ \A p \in Calls \ {q} : Unstored(p)' => call'[p].cargo # call'[q].cargo
    BY <1>0, <2>2 DEF IInv, Fresh, NewIn, Tame
  <2> QED BY <2>1, <2>2 DEF Fresh, NewIn
<1>4. Pending'
  BY <1>0 DEF IInv, Pending, Calm, Granted, Tame
<1>5. Stored'
  BY <1>0 DEF Stored
<1>6. Held'
  <2> SUFFICES ASSUME Calm', Quiet', Single', NEW u \in Tabs,
                      renewal'[u].pc \in {"sent", "refused"}, renewal'[u].token = refresh
               PROVE  refresh = 0 \/ refresh \in renewable
    BY <1>0 DEF Held
  <2>1. Calm /\ Quiet /\ Single
    BY <1>0 DEF Calm, Single
  <2>2. CASE renewal'[u] = renewal[u]
    BY <2>1, <2>2 DEF IInv, Held
  <2>3. CASE u = t /\ renewal[t].pc = "none"
    <3>1. \A v \in Tabs : renewal[v].pc = "none"
      BY <2>1, <2>3 DEF IInv, Placed, Single
    <3> QED BY <2>1, <3>1 DEF IInv, Stored
  <2> QED BY <1>0, <2>2, <2>3
<1> QED BY <1>1, <1>2, <1>3, <1>4, <1>5, <1>6 DEF IInv

\* A login or a password change is answered with a pair that is new everywhere.
LEMMA IssueKeeps ==
    ASSUME TypeOK, IInv, NEW q \in Calls, call[q].kind \in {"login", "change"}, call[q].pc = "sent",
           Answered(q, "ok", issued + 1), Issue({}),
           since' = IF call[q].kind = "change" THEN issued + 1 ELSE since,
           UNCHANGED <<storage, open, renewal, wire, lost>>
    PROVE  IInv'
<1>0. /\ UNCHANGED <<access, refresh, open, renewal, wire, lost>>
      /\ issued' = issued + 1 /\ renewable' = renewable \cup {issued + 1}
  BY DEF Issue, storage
<1>1. /\ call'[q].cargo = issued + 1 /\ call'[q].pc = "ok" /\ call'[q].kind = call[q].kind
      /\ \A p \in Calls \ {q} : call'[p] = call[p]
  BY DEF Answered, TypeOK, ClientTypes, Call
<1>2. /\ issued \in Nat /\ since \in 1 .. issued /\ refresh <= issued
      /\ \A t \in Tabs : renewal[t].token \in Nat /\ renewal[t].token <= issued
      /\ \A p \in Calls : call[p].cargo \in Nat /\ call[p].cargo <= issued
  BY Numbers DEF IInv, Bounded, TypeOK, ServerTypes
<1>3. Calm' => Calm /\ call[q].kind = "login"
  BY <1>0, <1>2 DEF Calm
<1>4. Quiet' => Quiet
  BY <1>1 DEF Quiet, LogsOut
<1>5. Bounded'
  <2>1. ASSUME NEW p \in Calls
        PROVE  /\ call'[p].cargo <= issued'
               /\ LogsOut(p)' => call'[p].pc # "idle"
               /\ Unstored(p)' => call'[p].cargo # 0
    <3>1. CASE p = q
      BY <1>0, <1>1, <1>2, <3>1
    <3>2. CASE p # q
      BY <1>0, <1>1, <1>2, <3>2 DEF IInv, Bounded, LogsOut, Unstored
    <3> QED BY <3>1, <3>2
  <2>2. \A t \in Tabs : renewal[t].token <= issued'
    BY <1>0, <1>2
  <2>3. access' = refresh' /\ refresh' <= issued'
    BY <1>0, <1>2, Numbers DEF IInv, Bounded
  <2> QED BY <1>0, <2>1, <2>2, <2>3 DEF IInv, Bounded, LogsOut, Unstored
<1>6. Placed'
  BY <1>0, <1>1 DEF IInv, Placed
<1>7. Fresh'
  <2>1. ASSUME NEW p, p <= issued, NewIn(p) PROVE NewIn(p)'
    BY <1>0, <1>1, <2>1 DEF NewIn, LogsOut
  <2>2. refresh' # issued + 1 /\ \A r \in Calls : LogsOut(r)' => call'[r].cargo # issued + 1
    BY <1>0, <1>1, <1>2, Numbers DEF NewIn, LogsOut
  <2>3. \A t \in Tabs : Granted(t)' =>
           /\ NewIn(renewal[t].token)'
           /\ \A u \in Tabs \ {t} : renewal'[u].token # renewal'[t].token
    BY <1>0, <1>2, <2>1 DEF IInv, Fresh, Granted, NewIn
  <2>4. ASSUME NEW p \in Calls, Unstored(p)'
        PROVE  /\ NewIn(call[p].cargo)'
               /\ \A t \in Tabs : renewal'[t].token # call'[p].cargo
               /\ \A r \in Calls \ {p} : Unstored(r)' => call'[r].cargo # call'[p].cargo
    <3>1. CASE p = q
      <4>1. \A n \in Nat : n <= issued => n # issued + 1
        BY <1>2
      <4>2. \A t \in Tabs : renewal'[t].token # call'[p].cargo
        BY <1>0, <1>1, <1>2, <3>1, <4>1
      <4>3. \A r \in Calls \ {p} : call'[r].cargo # call'[p].cargo
        BY <1>0, <1>1, <1>2, <3>1, <4>1
      <4> QED BY <1>1, <2>2, <3>1, <4>2, <4>3 DEF NewIn, LogsOut
    <3>2. CASE p # q
      BY <1>0, <1>1, <1>2, <2>1, <2>4, <3>2 DEF IInv, Fresh, Unstored, NewIn
    <3> QED BY <3>1, <3>2
  <2> QED BY <2>3, <2>4 DEF Fresh, NewIn
<1>8. Pending'
  BY <1>0, <1>1, <1>3 DEF IInv, Pending, Granted, Unstored
<1>9. Stored'
  BY <1>0, <1>3, <1>4 DEF IInv, Stored
<1>10. Held'
  BY <1>0, <1>3, <1>4 DEF IInv, Held, Single
<1> QED BY <1>5, <1>6, <1>7, <1>8, <1>9, <1>10 DEF IInv

\* The server blacklists what a logout carries: nobody waits to store it.
LEMMA LogoutKeeps ==
    ASSUME TypeOK, IInv, NEW q \in Calls, call[q].kind = "logout", call[q].pc = "sent",
           Answered(q, "ok", call[q].cargo), renewable' = renewable \ {call[q].cargo},
           UNCHANGED <<issued, since, storage, open, renewal, wire, lost>>
    PROVE  IInv'
<1>0. UNCHANGED <<access, refresh>>
  BY DEF storage
<1>1. /\ call'[q].cargo = call[q].cargo /\ call'[q].pc = "ok" /\ call'[q].kind = "logout"
      /\ \A p \in Calls \ {q} : call'[p] = call[p]
  BY DEF Answered, TypeOK, ClientTypes, Call
<1>2. ~ Quiet'
  BY <1>1 DEF Quiet, LogsOut
<1>3. \A p \in Calls : Unstored(p)' => Unstored(p) /\ call'[p] = call[p]
  BY <1>1 DEF Unstored
<1>4. Bounded'
  BY <1>0, <1>1, <1>3, Numbers DEF IInv, Bounded, LogsOut
<1>5. Placed'
  BY <1>1 DEF IInv, Placed
<1>6. Fresh'
  BY <1>0, <1>1, <1>3 DEF IInv, Fresh, NewIn, Granted, LogsOut
<1>7. Pending'
  <2>1. \A p : NewIn(p) => p # call[q].cargo
    BY DEF NewIn, LogsOut
  <2> QED BY <1>1, <1>3, <2>1 DEF IInv, Pending, Fresh, Calm, Granted
<1>8. Stored' /\ Held'
  BY <1>2 DEF Stored, Held
<1> QED BY <1>4, <1>5, <1>6, <1>7, <1>8 DEF IInv

\* A pair that was on its way is stored: it was new, and can be renewed.
LEMMA StoreKeeps ==
    ASSUME TypeOK, IInv, NEW p, p \in Nat \ {0}, p <= issued, NewIn(p), Calm => p \in renewable,
           refresh' = p, access' = p,
           UNCHANGED <<server, open, lost>>,
           \A q \in Calls : Tame(q) /\ (Unstored(q)' => call'[q].cargo # p),
           \A t \in Tabs : /\ renewal'[t] \in {renewal[t], NoRenewal}
                           /\ Granted(t)' => renewal'[t].token # p,
           Quiet' => Quiet,
           \A t \in Tabs : wire'[t].pc # "off" => wire[t].pc # "off"
    PROVE  IInv'
<1>0. UNCHANGED <<issued, since, renewable>>
  BY DEF server
<1>1. Bounded'
  BY <1>0, Numbers DEF IInv, Bounded, Tame, NoRenewal
<1>2. Placed'
  BY DEF IInv, Placed, Tame, NoRenewal
<1>3. Fresh'
  <2>1. ASSUME NEW r, r # p, NewIn(r) PROVE NewIn(r)'
    BY <2>1 DEF NewIn, Tame
  <2>2. ASSUME NEW t \in Tabs, Granted(t)'
        PROVE  /\ NewIn(renewal[t].token)'
               /\ \A u \in Tabs \ {t} : renewal'[u].token # renewal'[t].token
    BY <2>1, <2>2 DEF IInv, Fresh, Bounded, Granted, NoRenewal, NewIn
  <2>3. ASSUME NEW q \in Calls, Unstored(q)'
        PROVE  /\ NewIn(call[q].cargo)'
               /\ \A t \in Tabs : renewal'[t].token # call'[q].cargo
               /\ \A r \in Calls \ {q} : Unstored(r)' => call'[r].cargo # call'[q].cargo
    BY <2>1, <2>3 DEF IInv, Fresh, Bounded, Tame, NoRenewal, NewIn
  <2> QED BY <2>2, <2>3 DEF Fresh, NewIn
<1>4. Pending'
  BY <1>0 DEF IInv, Pending, Calm, Granted, Tame, NoRenewal
<1>5. Stored' /\ Held'
  BY <1>0 DEF Stored, Held, Calm
<1> QED BY <1>1, <1>2, <1>3, <1>4, <1>5 DEF IInv

-----------------------------------------------------------------------------
(* Every step keeps the invariant.                                          *)

\* A call that is over, or that goes on as the call it was, is tame.
LEMMA TameCalls ==
    ASSUME TypeOK, IInv, open \subseteq open', NEW p \in Calls,
           \/ call'[p] = call[p]
           \/ call'[p] = Idle
           \/ /\ call[p].pc # "idle"
              /\ call'[p].kind = call[p].kind /\ call'[p].pc \notin {"ok", "idle"}
              /\ call'[p].cargo = call[p].cargo
    PROVE  Tame(p) /\ (call'[p] # Idle => (LogsOut(p)' <=> LogsOut(p)))
<1>1. call[p].cargo <= issued /\ 0 <= issued /\ (LogsOut(p) => call[p].pc # "idle")
      /\ (call[p].pc # "idle" => TabOf[p] \in open)
  BY Numbers DEF IInv, Bounded, Placed
<1> QED BY <1>1 DEF Tame, LogsOut, Unstored, Idle

\* The end of a session keeps the invariant: it leaves nothing behind.
LEMMA ExpiredKeeps ==
    ASSUME TypeOK, IInv, NEW t \in Tabs, NEW gone, Expired(t, gone), UNCHANGED lost
    PROVE  IInv'
<1>1. /\ UNCHANGED <<issued, since, renewable>> /\ refresh' = 0 /\ access' = 0 /\ open' = open
      /\ call' = [q \in Calls |-> IF q \in gone THEN Idle ELSE call[q]]
      /\ renewal' = [renewal EXCEPT ![t] = NoRenewal] /\ wire' = [wire EXCEPT ![t] = NoWire]
  BY DEF Expired, DropSession, server
<1>2. \A q \in Calls : Tame(q)
  BY <1>1, TameCalls
<1>3. /\ \A u \in Tabs : Fades(u)
      /\ \A u \in Tabs : wire'[u].pc # "off" => wire[u].pc # "off"
  BY <1>1 DEF Fades, NoWire, TypeOK, ClientTypes
<1> QED BY <1>1, <1>2, <1>3, Fading

\* So does a socket that dials.
LEMMA DialKeeps ==
    ASSUME TypeOK, IInv, NEW t \in Tabs, t \in open, DialFresh(t),
           UNCHANGED <<storage, server, store, call, lost>>
    PROVE  IInv'
<1>1. /\ \A u \in Tabs \ {t} : wire'[u] = wire[u]
      /\ \/ refresh # 0 /\ JoinRenewal(t)
         \/ UNCHANGED renewal
  BY Dials
<1>2. UNCHANGED <<issued, since, renewable, access, refresh, open>> /\ (Quiet' <=> Quiet)
      /\ access = refresh
  BY DEF storage, server, store, Quiet, LogsOut, IInv, Bounded
<1>3. /\ \A q \in Calls : Tame(q)
      /\ \A u \in Tabs : wire'[u].pc # "off" => wire[u].pc # "off" \/ u \in open
  BY <1>1, <1>2, TameCalls
<1>4. CASE refresh # 0 /\ JoinRenewal(t)
  BY <1>2, <1>3, <1>4, JoinKeeps
<1>5. CASE UNCHANGED renewal
  BY <1>2, <1>3, <1>5, Fading DEF Fades
<1> QED BY <1>1, <1>4, <1>5

\* The steps of a call.
LEMMA CallKeeps ==
    ASSUME TypeOK, IInv, NEW q \in Calls, CallStep(q)
    PROVE  IInv'
<1>0. /\ UNCHANGED <<inputs, lost>>
      /\ TabOf[q] \in Tabs /\ call[q] \in Call
      /\ call[q].pc # "idle" => TabOf[q] \in open
  BY SessionAssumption DEF CallStep, TypeOK, ClientTypes, IInv, Placed
<1>1. CASE Serve(q)
  <2>0. UNCHANGED <<storage, access, refresh, open, renewal, wire>> /\ call[q].pc = "sent"
        /\ access = refresh
    BY <1>1, Served DEF storage, store, IInv, Bounded
  <2>1. CASE Answered(q, "unauthorized", call[q].cargo) /\ UNCHANGED server
    <3>1. /\ \A p \in Calls \ {q} : call'[p] = call[p]
          /\ call'[q].kind = call[q].kind /\ call'[q].pc = "unauthorized"
          /\ call'[q].cargo = call[q].cargo
      BY <1>0, <2>1 DEF Answered, Call
    <3>2. (\A p \in Calls : Tame(p)) /\ (Quiet' => Quiet)
      BY <2>0, <3>1, TameCalls DEF Quiet, LogsOut
    <3> QED BY <1>0, <2>0, <2>1, <3>2, Fading DEF Fades, server
  <2>2. CASE /\ call[q].kind \in {"login", "change"}
             /\ Answered(q, "ok", issued + 1)
             /\ Issue({})
             /\ since' = IF call[q].kind = "change" THEN issued + 1 ELSE since
    BY <1>0, <2>0, <2>2, IssueKeeps
  <2>3. CASE /\ \/ call[q].kind \in {"login", "change"} /\ Answered(q, "failed", 0)
                \/ call[q].kind \in {"boot", "user", "data"} /\ Answered(q, "ok", 0)
             /\ UNCHANGED server
    <3>1. /\ \A p \in Calls \ {q} : call'[p] = call[p]
          /\ call'[q].kind = call[q].kind /\ call'[q].cargo = 0
          /\ call[q].kind # "logout"
          /\ call'[q].pc = "failed" \/ call'[q].kind \notin {"login", "change"}
      BY <1>0, <2>3 DEF Answered, Call
    <3>2. Tame(q)
      BY <1>0, <2>0, <3>1, Numbers DEF Tame, LogsOut, Unstored
    <3>3. (\A p \in Calls : Tame(p)) /\ (Quiet' => Quiet)
      BY <2>0, <3>1, <3>2, TameCalls DEF Quiet, LogsOut
    <3> QED BY <1>0, <2>0, <2>3, <3>3, Fading DEF Fades, server
  <2>4. CASE /\ call[q].kind = "logout"
             /\ Answered(q, "ok", call[q].cargo)
             /\ renewable' = renewable \ {call[q].cargo}
             /\ UNCHANGED <<issued, since, aged, expired>>
    BY <1>0, <2>0, <2>4, LogoutKeeps
  <2> QED BY <1>1, <2>1, <2>2, <2>3, <2>4, Served
<1>2. CASE Succeed(q)
  <2>0. /\ UNCHANGED <<server, issued, since, renewable, open, renewal>>
        /\ call' = [call EXCEPT ![q] = Idle] /\ call[q].pc = "ok"
    BY <1>2 DEF Succeed, Finish, server
  <2>1. /\ \A p \in Calls \ {q} : call'[p] = call[p]
        /\ call'[q] = Idle
    BY <2>0 DEF TypeOK, ClientTypes
  <2>2. \A p \in Calls : Tame(p)
    BY <2>0, <2>1, TameCalls
  <2>3. \A u \in Tabs : wire'[u].pc # "off" => wire[u].pc # "off"
    BY <1>2 DEF Succeed, NoWire, TypeOK, ClientTypes
  <2>4. CASE call[q].kind \in {"login", "change"}
    <3>1. refresh' = call[q].cargo /\ access' = call[q].cargo
      BY <1>2, <2>4 DEF Succeed, SetTokens
    <3>2. /\ call[q].cargo \in Nat \ {0} /\ call[q].cargo <= issued
          /\ NewIn(call[q].cargo) /\ (Calm => call[q].cargo \in renewable)
      BY <2>0, <2>4, Numbers DEF IInv, Bounded, Fresh, Pending, Unstored
    <3>3. /\ \A p \in Calls : Unstored(p)' => call'[p].cargo # call[q].cargo
          /\ \A t \in Tabs : renewal[t].token # call[q].cargo
      BY <2>0, <2>1, <2>4 DEF IInv, Fresh, Unstored, Idle
    <3>4. Quiet' => Quiet
      BY <2>1, <2>4 DEF Quiet, LogsOut
    <3> QED BY <1>0, <2>0, <2>2, <2>3, <3>1, <3>2, <3>3, <3>4, StoreKeeps
  <2>5. CASE call[q].kind = "logout"
    <3>1. refresh' = 0 /\ access' = 0
      BY <1>2, <2>5 DEF Succeed, DropSession
    <3> QED BY <1>0, <2>0, <2>2, <2>3, <3>1, Fading DEF Fades
  <2>6. CASE call[q].kind \in {"boot", "user", "data"}
    <3>1. UNCHANGED <<access, refresh>> /\ access = refresh
      BY <1>2, <2>6 DEF Succeed, storage, IInv, Bounded
    <3>2. Quiet' => Quiet
      BY <2>1, <2>6 DEF Quiet, LogsOut
    <3> QED BY <1>0, <2>0, <2>2, <2>3, <3>1, <3>2, Fading DEF Fades
  <2> QED BY <1>2, <2>4, <2>5, <2>6 DEF Succeed
<1>3. CASE Fail(q)
  <2>0. /\ UNCHANGED <<server, issued, since, renewable, open, renewal>>
        /\ call' = [call EXCEPT ![q] = Idle]
    BY <1>3 DEF Fail, Finish, server
  <2>1. /\ \A p \in Calls \ {q} : call'[p] = call[p]
        /\ call'[q] = Idle
    BY <2>0 DEF TypeOK, ClientTypes
  <2>2. \A p \in Calls : Tame(p)
    BY <2>0, <2>1, TameCalls
  <2>3. \A u \in Tabs : wire'[u].pc # "off" => wire[u].pc # "off"
    BY <1>3 DEF Fail, NoWire, TypeOK, ClientTypes
  <2>4. /\ access' = refresh' /\ refresh' \in {refresh, 0}
        /\ Quiet' => Quiet \/ refresh' = 0
    BY <1>3, <2>1 DEF Fail, DropSession, storage, Quiet, LogsOut, IInv, Bounded
  <2> QED BY <1>0, <2>0, <2>2, <2>3, <2>4, Fading DEF Fades
<1>4. CASE Unauthorized(q)
  <2>0. /\ UNCHANGED <<storage, server, open, wire>> /\ call[q].pc = "unauthorized"
        /\ refresh # 0 \/ renewal[TabOf[q]].pc # "none"
        /\ JoinRenewal(TabOf[q])
        /\ call' = [call EXCEPT ![q].pc = "waiting", ![q].retried = TRUE]
    BY <1>4 DEF Unauthorized, store
  <2>1. /\ \A p \in Calls \ {q} : call'[p] = call[p]
        /\ call'[q].kind = call[q].kind /\ call'[q].pc = "waiting"
        /\ call'[q].cargo = call[q].cargo
    BY <1>0, <2>0 DEF TypeOK, ClientTypes, Call
  <2>2. (\A p \in Calls : Tame(p)) /\ (Quiet' => Quiet)
    BY <2>0, <2>1, TameCalls DEF Quiet, LogsOut
  <2> QED BY <1>0, <2>0, <2>2, JoinKeeps
<1>5. CASE NoRefreshToken(q)
  BY <1>0, <1>5, ExpiredKeeps DEF NoRefreshToken
<1>6. CASE MakeCall(q, "boot")
  <2>0. /\ UNCHANGED <<access, refresh, issued, since, renewable, open, renewal, wire>>
        /\ TabOf[q] \in open
        /\ call' = [call EXCEPT ![q] = [kind |-> "boot", pc |-> "sent", header |-> access,
                                        retried |-> FALSE, cargo |-> 0]]
        /\ call[q].pc = "idle"
    BY <1>6 DEF MakeCall, MayCall, storage, server
  <2>1. /\ \A p \in Calls \ {q} : call'[p] = call[p]
        /\ call'[q].kind = "boot" /\ call'[q].cargo = 0 /\ ~ LogsOut(q)
    BY <2>0 DEF TypeOK, ClientTypes, IInv, Bounded
  <2>2. Tame(q)
    BY <2>0, <2>1, Numbers DEF Tame, LogsOut, Unstored
  <2>3. (\A p \in Calls : Tame(p)) /\ (Quiet' => Quiet)
    BY <2>0, <2>1, <2>2, TameCalls DEF Quiet, LogsOut
  <2> QED BY <1>0, <2>0, <2>3, Fading DEF Fades, IInv, Bounded
<1> QED BY <1>1, <1>2, <1>3, <1>4, <1>5, <1>6 DEF CallStep

\* The steps of a renewal: rotation takes the token that was presented, which nobody
\* else holds, and what is granted is stored.
LEMMA RenewalKeeps ==
    ASSUME TypeOK, IInv, NEW t \in Tabs, RenewalStep(t)
    PROVE  IInv'
<1>0. UNCHANGED <<inputs, lost>> /\ access = refresh /\ renewal[t] \in Renewal
  BY DEF RenewalStep, IInv, Bounded, TypeOK, ClientTypes
<1>1. CASE BootEmpty(t)
  <2>1. UNCHANGED <<access, refresh, issued, since, renewable, open, renewal, call, wire>>
    BY <1>1 DEF BootEmpty, storage, server
  <2>2. (\A p \in Calls : Tame(p)) /\ (Quiet' => Quiet)
    BY <2>1, TameCalls DEF Quiet, LogsOut
  <2> QED BY <1>0, <2>1, <2>2, Fading DEF Fades
<1>2. CASE ServeRenewal(t)
  <2> DEFINE r == renewal[t].token
  <2>0. UNCHANGED <<access, refresh, open, call, wire>> /\ renewal[t].pc = "sent"
    BY <1>2 DEF ServeRenewal, storage, store
  <2>1. CASE /\ Renews(r) /\ Issue({r}) /\ UNCHANGED since
             /\ renewal' = [renewal EXCEPT ![t] = [pc |-> "granted", token |-> issued + 1]]
    <3>1. /\ issued' = issued + 1 /\ renewable' = (renewable \ {r}) \cup {issued + 1}
          /\ renewal'[t] = [pc |-> "granted", token |-> issued + 1]
          /\ \A u \in Tabs \ {t} : renewal'[u] = renewal[u]
      BY <2>1 DEF Issue, TypeOK, ClientTypes
    <3>2. /\ issued \in Nat /\ refresh < issued + 1
          /\ \A u \in Tabs : renewal[u].token < issued + 1
          /\ \A p \in Calls : call[p].cargo < issued + 1
      BY Numbers DEF IInv, Bounded
    <3>3. Bounded'
      <4>1. /\ \A u \in Tabs : renewal'[u].token <= issued'
            /\ \A p \in Calls : call'[p].cargo <= issued'
            /\ access' = refresh' /\ refresh' <= issued'
        BY <1>0, <2>0, <3>1, <3>2, Numbers
      <4>2. /\ \A u \in Tabs : renewal'[u].pc \in {"sent", "granted"} => renewal'[u].token # 0
            /\ \A p \in Calls : /\ LogsOut(p)' => call'[p].pc # "idle"
                                /\ Unstored(p)' => call'[p].cargo # 0
        BY <2>0, <3>1, <3>2 DEF IInv, Bounded, LogsOut, Unstored
      <4> QED BY <4>1, <4>2 DEF Bounded, LogsOut, Unstored
    <3>4. Placed'
      BY <2>0, <3>1 DEF IInv, Placed
    <3>5. Fresh'
      <4>1. ASSUME NEW u \in Tabs, Granted(u)'
            PROVE  /\ NewIn(renewal[u].token)'
                   /\ \A v \in Tabs \ {u} : renewal'[v].token # renewal'[u].token
        <5>1. CASE u = t
          BY <2>0, <3>1, <3>2, <5>1, Numbers DEF NewIn, LogsOut
        <5>2. CASE u # t
          <6>1. /\ renewal'[u] = renewal[u] /\ NewIn(renewal[u].token)
                /\ renewal[u].token # issued + 1
                /\ \A v \in Tabs \ {u} : renewal[v].token # renewal[u].token
            BY <3>1, <3>2, <4>1, <5>2, Numbers DEF IInv, Fresh, Granted
          <6> QED BY <2>0, <3>1, <6>1 DEF NewIn, LogsOut
        <5> QED BY <5>1, <5>2
      <4>2. ASSUME NEW q \in Calls, Unstored(q)'
            PROVE  /\ NewIn(call[q].cargo)'
                   /\ \A u \in Tabs : renewal'[u].token # call'[q].cargo
                   /\ \A p \in Calls \ {q} : Unstored(p)' => call'[p].cargo # call'[q].cargo
        <5>1. /\ Unstored(q) /\ call'[q] = call[q] /\ call[q].cargo # issued + 1
          BY <2>0, <3>2, <4>2, Numbers DEF Unstored
        <5> QED BY <2>0, <3>1, <5>1 DEF IInv, Fresh, NewIn, LogsOut, Unstored
      <4> QED BY <4>1, <4>2 DEF Fresh, NewIn, Unstored
    <3>6. Pending'
      <4>1. \A u \in Tabs \ {t} : Granted(u) => renewal[u].token # r
        BY DEF IInv, Fresh
      <4>2. \A q \in Calls : Unstored(q) => call[q].cargo # r
        BY DEF IInv, Fresh
      <4> QED BY <1>0, <2>0, <2>1, <3>1, <4>1, <4>2 DEF IInv, Pending, Calm, Granted, Unstored
    <3>7. Stored'
      BY <3>1 DEF Stored
    <3>8. Held'
      BY <2>0, <3>1 DEF IInv, Placed, Held, Single
    <3> QED BY <3>3, <3>4, <3>5, <3>6, <3>7, <3>8 DEF IInv
  <2>2. CASE /\ renewal' = [renewal EXCEPT ![t] = [pc |-> "refused", token |-> r]]
             /\ UNCHANGED server
    <3>1. /\ UNCHANGED <<issued, since, renewable>>
          /\ renewal'[t].pc = "refused" /\ renewal'[t].token = r
          /\ \A u \in Tabs \ {t} : renewal'[u] = renewal[u]
      BY <2>2 DEF server, TypeOK, ClientTypes
    <3>2. \A u \in Tabs : renewal'[u].token = renewal[u].token /\ (Granted(u)' <=> Granted(u))
      BY <2>0, <3>1 DEF Granted
    <3>3. Bounded' /\ Placed'
      BY <2>0, <3>1, <3>2 DEF IInv, Bounded, Placed, LogsOut, Unstored
    <3>4. Fresh' /\ Pending'
      BY <1>0, <2>0, <3>1, <3>2 DEF IInv, Fresh, Pending, Calm, NewIn, LogsOut, Unstored
    <3>5. Stored'
      BY <3>1 DEF Stored
    <3>6. Held'
      BY <1>0, <2>0, <3>1, <3>2 DEF IInv, Held, Calm, Quiet, Single, LogsOut
    <3> QED BY <3>3, <3>4, <3>5, <3>6 DEF IInv
  <2> QED BY <1>2, <2>1, <2>2 DEF ServeRenewal
<1>3. CASE Renewed(t)
  <2>0. /\ Granted(t)
        /\ refresh' = renewal[t].token /\ access' = renewal[t].token
        /\ renewal' = [renewal EXCEPT ![t] = NoRenewal]
        /\ call' = [q \in Calls |->
                      IF q \in Waiters(t)
                      THEN [call[q] EXCEPT !.pc = "sent", !.header = renewal[t].token]
                      ELSE call[q]]
        /\ wire' = IF wire[t].pc = "asking"
                   THEN [wire EXCEPT ![t].pc = "dialing", ![t].token = renewal[t].token]
                   ELSE wire
        /\ UNCHANGED <<server, open>>
    BY <1>3 DEF Renewed, SetTokens, Granted, store
  <2>1. ASSUME NEW p \in Calls PROVE Tame(p) /\ (LogsOut(p)' <=> LogsOut(p))
                                  /\ (Unstored(p)' => Unstored(p) /\ call'[p].cargo = call[p].cargo)
    <3>1. CASE p \in Waiters(t)
      <4>1. /\ call[p].pc = "waiting" /\ call[p] \in Call
            /\ call'[p] = [call[p] EXCEPT !.pc = "sent", !.header = renewal[t].token]
        BY <2>0, <3>1 DEF Waiters, TypeOK, ClientTypes
      <4>2. /\ call'[p].kind = call[p].kind /\ call'[p].pc = "sent"
            /\ call'[p].cargo = call[p].cargo
        BY <4>1 DEF Call
      <4> QED BY <2>0, <4>1, <4>2, TameCalls DEF Unstored, LogsOut
    <3>2. CASE p \notin Waiters(t)
      BY <2>0, <3>2, TameCalls DEF Unstored, LogsOut
    <3> QED BY <3>1, <3>2
  <2>2. /\ renewal[t].token \in Nat \ {0} /\ renewal[t].token <= issued
        /\ NewIn(renewal[t].token) /\ (Calm => renewal[t].token \in renewable)
    BY <2>0, Numbers DEF IInv, Bounded, Fresh, Pending, Granted
  <2>3. \A q \in Calls : Unstored(q)' => call'[q].cargo # renewal[t].token
    BY <2>1 DEF IInv, Fresh
  <2>4. \A u \in Tabs : /\ renewal'[u] \in {renewal[u], NoRenewal}
                        /\ Granted(u)' => renewal'[u].token # renewal[t].token
    BY <2>0 DEF IInv, Fresh, Granted, NoRenewal, TypeOK, ClientTypes
  <2>5. \A u \in Tabs : wire'[u].pc # "off" => wire[u].pc # "off"
    BY <2>0 DEF TypeOK, ClientTypes, Wire
  <2>6. Quiet' => Quiet
    BY <2>1 DEF Quiet
  <2> QED BY <1>0, <2>0, <2>1, <2>2, <2>3, <2>4, <2>5, <2>6, StoreKeeps
<1>4. CASE SessionExpired(t)
  BY <1>0, <1>4, ExpiredKeeps DEF SessionExpired
<1> QED BY <1>1, <1>2, <1>3, <1>4 DEF RenewalStep

\* The steps of a socket.
LEMMA WireKeeps ==
    ASSUME TypeOK, IInv, NEW t \in Tabs, WireStep(t)
    PROVE  IInv'
<1>0. UNCHANGED <<inputs, lost>> /\ access = refresh
  BY DEF WireStep, IInv, Bounded
<1>1. ASSUME UNCHANGED <<storage, server, store, renewal, call>>, wire[t].pc # "off",
             NEW w, wire' = [wire EXCEPT ![t] = w]
      PROVE  IInv'
  <2>1. UNCHANGED <<access, refresh, issued, since, renewable, open, renewal, call>>
    BY <1>1 DEF storage, server, store
  <2>2. (\A p \in Calls : Tame(p)) /\ (Quiet' => Quiet)
    BY <2>1, TameCalls DEF Quiet, LogsOut
  <2>3. \A u \in Tabs : wire'[u].pc # "off" => wire[u].pc # "off"
    BY <1>1 DEF TypeOK, ClientTypes
  <2> QED BY <1>0, <2>1, <2>2, <2>3, Fading DEF Fades
<1>2. CASE Handshake(t)
  BY <1>1, <1>2 DEF Handshake
<1>3. CASE Redial(t)
  <2>1. t \in open /\ UNCHANGED <<storage, server, store, call>> /\ wire[t].pc # "off"
    BY <1>3 DEF Redial, IInv, Placed
  <2>2. CASE DialFresh(t)
    BY <1>0, <2>1, <2>2, DialKeeps
  <2>3. CASE wire' = [wire EXCEPT ![t].pc = "dialing"] /\ UNCHANGED renewal
    BY <1>1, <2>1, <2>3
  <2> QED BY <1>3, <2>2, <2>3 DEF Redial
<1> QED BY <1>2, <1>3 DEF WireStep

\* What the user and the network do.
LEMMA UsersKeep ==
    ASSUME TypeOK, IInv, Users
    PROVE  IInv'
<1>0. access = refresh /\ \A t \in Tabs : wire[t].pc # "off" => t \in open
  BY DEF IInv, Bounded, Placed
<1>1. ASSUME NEW q \in Calls, LoseCall(q), UNCHANGED lost PROVE IInv'
  <2>1. /\ UNCHANGED <<access, refresh, issued, since, renewable, open, renewal, wire>>
        /\ call' = [call EXCEPT ![q].pc = "failed"] /\ call[q].pc # "idle"
    BY <1>1 DEF LoseCall, storage, server, store
  <2>2. /\ \A p \in Calls \ {q} : call'[p] = call[p]
        /\ call'[q].kind = call[q].kind /\ call'[q].pc = "failed"
        /\ call'[q].cargo = call[q].cargo
    BY <2>1 DEF TypeOK, ClientTypes, Call
  <2>3. (\A p \in Calls : Tame(p)) /\ (Quiet' => Quiet)
    BY <2>1, <2>2, TameCalls DEF Quiet, LogsOut
  <2> QED BY <1>0, <1>1, <2>1, <2>3, Fading DEF Fades
<1>2. ASSUME NEW q \in Calls, NEW k \in Kinds \ {"boot"}, MakeCall(q, k), UNCHANGED lost PROVE IInv'
  <2>1. /\ UNCHANGED <<access, refresh, issued, since, renewable, open, renewal, wire>>
        /\ TabOf[q] \in open /\ (k = "logout" => refresh # 0)
        /\ call' = [call EXCEPT ![q] = [kind |-> k, pc |-> "sent", header |-> access,
                      retried |-> FALSE, cargo |-> IF k = "logout" THEN refresh ELSE 0]]
        /\ call[q].pc = "idle"
    BY <1>2 DEF MakeCall, MayCall, Protected, Guest, storage, server
  <2>2. /\ \A p \in Calls \ {q} : call'[p] = call[p]
        /\ call'[q] = [kind |-> k, pc |-> "sent", header |-> access,
                       retried |-> FALSE, cargo |-> IF k = "logout" THEN refresh ELSE 0]
        /\ ~ LogsOut(q) /\ call'[q].pc = "sent"
    BY <2>1 DEF TypeOK, ClientTypes, IInv, Bounded
  <2>3. CASE k # "logout"
    <3>1. Tame(q)
      BY <2>1, <2>2, <2>3, Numbers DEF Tame, LogsOut, Unstored
    <3>2. (\A p \in Calls : Tame(p)) /\ (Quiet' => Quiet)
      BY <2>1, <2>2, <3>1, TameCalls DEF Quiet, LogsOut
    <3> QED BY <1>0, <1>2, <2>1, <3>2, Fading DEF Fades
  <2>4. CASE k = "logout"
    <3>1. LogsOut(q)' /\ call'[q].cargo = refresh
      BY <2>2, <2>4 DEF LogsOut
    <3>2. Bounded' /\ Placed'
      BY <2>1, <2>2, <3>1, Numbers DEF IInv, Bounded, Placed, LogsOut, Unstored
    <3>3. Fresh'
      <4>1. ASSUME NEW p, NewIn(p) PROVE NewIn(p)'
        BY <2>1, <2>2, <3>1, <4>1 DEF NewIn, LogsOut
      <4>2. \A p \in Calls : Unstored(p)' => Unstored(p) /\ call'[p] = call[p]
        BY <2>2 DEF Unstored
      <4>3. \A t \in Tabs : Granted(t)' =>
              /\ NewIn(renewal[t].token)'
              /\ \A u \in Tabs \ {t} : renewal'[u].token # renewal'[t].token
        BY <2>1, <4>1 DEF IInv, Fresh, Granted, NewIn
      <4>4. ASSUME NEW p \in Calls, Unstored(p)'
            PROVE  /\ NewIn(call[p].cargo)'
                   /\ \A t \in Tabs : renewal'[t].token # call'[p].cargo
                   /\ \A r \in Calls \ {p} : Unstored(r)' => call'[r].cargo # call'[p].cargo
        <5>1. /\ Unstored(p) /\ call'[p] = call[p] /\ NewIn(call[p].cargo)
              /\ \A t \in Tabs : renewal[t].token # call[p].cargo
              /\ \A r \in Calls \ {p} : Unstored(r) => call[r].cargo # call[p].cargo
          BY <4>2, <4>4 DEF IInv, Fresh
        <5> QED BY <2>1, <4>1, <4>2, <5>1 DEF NewIn
      <4> QED BY <4>3, <4>4 DEF Fresh
    <3>4. Pending'
      BY <1>2, <2>1, <2>2 DEF IInv, Pending, Calm, Granted, Unstored
    <3>5. Stored' /\ Held'
      BY <3>1 DEF Stored, Held, Quiet
    <3> QED BY <3>2, <3>3, <3>4, <3>5 DEF IInv
  <2> QED BY <2>3, <2>4
<1>3. ASSUME NEW t \in Tabs, NEW w, wire' = [wire EXCEPT ![t] = w], w.pc = "off" \/ t \in open,
             UNCHANGED <<server, renewal, call, open, lost>>,
             refresh' \in {refresh, 0}, access' = refresh'
      PROVE  IInv'
  <2>1. UNCHANGED <<issued, since, renewable, open, renewal, call>>
    BY <1>3 DEF server, store
  <2>2. (\A p \in Calls : Tame(p)) /\ (Quiet' => Quiet)
    BY <2>1, TameCalls DEF Quiet, LogsOut
  <2>3. \A u \in Tabs : wire'[u].pc # "off" => wire[u].pc # "off" \/ u \in open
    BY <1>3 DEF TypeOK, ClientTypes
  <2> QED BY <1>0, <1>3, <2>1, <2>2, <2>3, Fading DEF Fades
<1>4. ASSUME NEW t \in Tabs, LogoutAlone(t), UNCHANGED lost PROVE IInv'
  BY <1>3, <1>4 DEF LogoutAlone, DropSession, NoWire
<1>5. ASSUME NEW t \in Tabs, DropWire(t) \/ Unmount(t), UNCHANGED lost PROVE IInv'
  <2>1. /\ UNCHANGED <<server, renewal, call, open, refresh, access>> /\ t \in open
        /\ \E w : wire' = [wire EXCEPT ![t] = w]
    BY <1>0, <1>5 DEF DropWire, Unmount, storage, store
  <2> QED BY <1>0, <1>3, <1>5, <2>1
<1>6. ASSUME NEW t \in Tabs, NEW page \in Pages, Mount(t, page), UNCHANGED lost PROVE IInv'
  <2>1. t \in open /\ UNCHANGED <<storage, server, store, call>>
    BY <1>6 DEF Mount, Protected
  <2>2. CASE DialFresh(t)
    BY <1>6, <2>1, <2>2, DialKeeps
  <2>3. CASE /\ wire' = [wire EXCEPT ![t] = [page |-> page, pc |-> "dialing", token |-> access]]
             /\ UNCHANGED renewal
    BY <1>0, <1>3, <1>6, <2>1, <2>3 DEF storage, store
  <2> QED BY <1>6, <2>2, <2>3 DEF Mount
<1>7. ASSUME NEW t \in Tabs, Load(t) PROVE IInv'
  <2>1. /\ UNCHANGED <<access, refresh, issued, since, renewable>> /\ open' = open \cup {t}
        /\ call' = [q \in Calls |-> IF TabOf[q] = t THEN Idle ELSE call[q]]
        /\ renewal' = [renewal EXCEPT ![t] = NoRenewal]
        /\ wire' = [wire EXCEPT ![t] = NoWire]
        /\ lost' = (lost \/ renewal[t].pc # "none" \/ \E q \in CallsOf(t) : call[q].kind = "logout")
    BY <1>7 DEF Load, storage, server
  <2>2. \A p \in Calls : Tame(p)
    BY <2>1, TameCalls
  <2>3. Quiet' => Quiet \/ lost'
    BY <2>1 DEF Quiet, LogsOut, CallsOf
  <2>4. /\ \A u \in Tabs : Fades(u) /\ (wire'[u].pc # "off" => wire[u].pc # "off")
        /\ (\A u \in Tabs : renewal'[u].pc = "none") => (\A u \in Tabs : renewal[u].pc = "none") \/ lost'
    BY <2>1 DEF Fades, NoWire, TypeOK, ClientTypes
  <2>5. lost => lost'
    BY <2>1
  <2> QED BY <1>0, <2>1, <2>2, <2>3, <2>4, <2>5, Fading
<1>8. ASSUME NEW t \in Tabs, LoseRenewal(t) PROVE IInv'
  <2>1. /\ UNCHANGED <<access, refresh, issued, since, renewable, open, call, wire>>
        /\ renewal[t].pc # "none" /\ lost'
        /\ renewal' = [renewal EXCEPT ![t].pc = "refused"]
    BY <1>8 DEF LoseRenewal, storage, server, store
  <2>2. (\A p \in Calls : Tame(p)) /\ (Quiet' => Quiet)
    BY <2>1, TameCalls DEF Quiet, LogsOut
  <2>3. \A u \in Tabs : Fades(u)
    BY <2>1 DEF Fades, TypeOK, ClientTypes, Renewal
  <2> QED BY <1>0, <2>1, <2>2, <2>3, Fading
<1> QED BY <1>1, <1>2, <1>4, <1>5, <1>6, <1>7, <1>8 DEF Users

\* Whatever was asked of the session, and however its renewals ended, the pairs that
\* are about keep apart, in every behaviour.
THEOREM SessionInductive == Spec => []IInv
<1>1. Init => IInv
  <2> SUFFICES ASSUME Init PROVE IInv
    OBVIOUS
  <2>1. /\ \A t \in Tabs : renewal[t] = NoRenewal /\ wire[t] = NoWire
        /\ \A q \in Calls : call[q] = Idle
        /\ issued = 1 /\ renewable = {1} /\ access = refresh /\ refresh \in {0, 1}
    BY DEF Init
  <2>2. /\ \A t \in Tabs : renewal[t].pc = "none" /\ renewal[t].token = 0 /\ wire[t].pc = "off"
        /\ \A q \in Calls : call[q].pc = "idle" /\ call[q].kind = "none" /\ call[q].cargo = 0
    BY <2>1 DEF NoRenewal, NoWire, Idle
  <2> QED BY <2>1, <2>2 DEF IInv, Bounded, Placed, Fresh, Pending, Stored, Held, NewIn, Granted,
      LogsOut, Unstored
<1>2. TypeOK /\ IInv /\ [Next]_vars => IInv'
  <2> SUFFICES ASSUME TypeOK, IInv, [Next]_vars PROVE IInv'
    OBVIOUS
  <2>1. CASE \/ UNCHANGED vars
             \/ (Age \/ Expire) /\ UNCHANGED <<inputs, lost>>
    <3>1. UNCHANGED <<access, refresh, issued, since, renewable, open, renewal, call, wire, lost>>
      BY <2>1 DEF vars, storage, server, store, Age, Expire
    <3>2. (\A p \in Calls : Tame(p)) /\ (Quiet' => Quiet)
      BY <3>1, TameCalls DEF Quiet, LogsOut
    <3>3. access = refresh
      BY DEF IInv, Bounded
    <3> QED BY <3>1, <3>2, <3>3, Fading DEF Fades
  <2> QED BY <2>1, CallKeeps, RenewalKeeps, WireKeeps, UsersKeep DEF Next
<1> QED BY <1>1, <1>2, SessionTypeCorrect, PTL DEF Spec

\* Between renewals localStorage holds a token that can be renewed, whatever tabs share
\* it and whatever calls ran: losing a rotated token would strand the session (client.ts).
THEOREM SessionNotStranded == Spec => []NotStranded
<1>1. TypeOK /\ IInv => NotStranded
  <2> SUFFICES ASSUME TypeOK, IInv, since = 1, ~ lost, \A t \in Tabs : renewal[t].pc = "none",
                      \A q \in Calls : call[q].kind # "logout"
               PROVE  refresh = 0 \/ Renews(refresh)
    BY DEF NotStranded
  <2>1. refresh = 0 \/ refresh \in renewable
    BY DEF IInv, Stored, Calm, Quiet, LogsOut
  <2>2. renewable \subseteq 1 .. issued
    BY DEF TypeOK, ServerTypes
  <2> QED BY <2>1, <2>2, Numbers DEF Renews
<1> QED BY <1>1, SessionTypeCorrect, SessionInductive, PTL

\* Tabs are opened one by one.
LEMMA FiniteTabs == Spec => []IsFiniteSet(open)
<1>1. Init => IsFiniteSet(open)
  <2> SUFFICES ASSUME Init PROVE IsFiniteSet(open)
    OBVIOUS
  <2>1. PICK t \in Tabs : open = {t}
    BY DEF Init
  <2> QED BY <2>1, FS_Singleton
<1>2. IsFiniteSet(open) /\ [Next]_vars => IsFiniteSet(open)'
  <2> SUFFICES ASSUME IsFiniteSet(open), [Next]_vars PROVE IsFiniteSet(open')
    OBVIOUS
  <2>1. open' = open \/ \E t \in Tabs : open' = open \cup {t}
    <3>1. ASSUME NEW q \in Calls, CallStep(q) PROVE open' = open
      BY <3>1 DEF CallStep, Serve, Succeed, Fail, Unauthorized, NoRefreshToken, Expired, MakeCall, store
    <3>2. ASSUME NEW t \in Tabs, RenewalStep(t) \/ WireStep(t) PROVE open' = open
      BY <3>2 DEF RenewalStep, WireStep, BootEmpty, ServeRenewal, Renewed, SessionExpired, Expired,
         Handshake, Redial, store
    <3>3. CASE Users
      BY <3>3 DEF Users, LoseCall, MakeCall, LogoutAlone, DropWire, Unmount, Mount, Load, LoseRenewal, store
    <3>4. CASE UNCHANGED vars \/ Age \/ Expire
      BY <3>4 DEF vars, Age, Expire, store
    <3> QED BY <3>1, <3>2, <3>3, <3>4 DEF Next
  <2> QED BY <2>1, FS_AddElement
<1> QED BY <1>1, <1>2, PTL DEF Spec

\* Only the end of a session leaves localStorage without tokens.
LEMMA TokensStay ==
    ASSUME TypeOK, IInv, [Next]_vars, access # 0, access' = 0
    PROVE  \/ \E q \in Calls : call[q].kind = "logout"
           \/ \E t \in Tabs : renewal[t].pc = "refused" /\ t \in open
<1>0. access = refresh
  BY DEF IInv, Bounded
<1>1. ASSUME NEW q \in Calls, CallStep(q) PROVE call[q].kind = "logout"
  <2>1. CASE Succeed(q)
    <3>1. CASE call[q].kind \in {"login", "change"}
      BY <2>1, <3>1 DEF Succeed, SetTokens, IInv, Bounded, Unstored
    <3> QED BY <2>1, <3>1 DEF Succeed, storage
  <2>2. CASE Fail(q)
    BY <2>2 DEF Fail, storage
  <2>3. CASE Serve(q) \/ Unauthorized(q) \/ MakeCall(q, "boot") \/ NoRefreshToken(q)
    BY <1>0, <2>3 DEF Serve, Unauthorized, MakeCall, NoRefreshToken, storage
  <2> QED BY <1>1, <2>1, <2>2, <2>3 DEF CallStep
<1>2. ASSUME NEW t \in Tabs, RenewalStep(t) PROVE renewal[t].pc = "refused" /\ t \in open
  <2>1. CASE Renewed(t)
    BY <2>1 DEF Renewed, SetTokens, IInv, Bounded
  <2>2. CASE SessionExpired(t)
    BY <2>2 DEF SessionExpired, IInv, Placed
  <2>3. CASE BootEmpty(t) \/ ServeRenewal(t)
    BY <2>3 DEF BootEmpty, ServeRenewal, storage
  <2> QED BY <1>2, <2>1, <2>2, <2>3 DEF RenewalStep
<1>3. CASE Users
  BY <1>0, <1>3 DEF Users, LoseCall, MakeCall, LogoutAlone, DropWire, Unmount, Mount, Load,
     LoseRenewal, storage
<1>4. ASSUME NEW t \in Tabs, WireStep(t) PROVE FALSE
  BY <1>4 DEF WireStep, Handshake, Redial, storage
<1>5. CASE UNCHANGED vars \/ Age \/ Expire
  BY <1>5 DEF vars, Age, Expire, storage
<1> QED BY <1>1, <1>2, <1>3, <1>4, <1>5 DEF Next

\* In the only tab, with no password change and no answer lost, the session lasts until
\* the user ends it: the calls and sockets that meet a spent token share one renewal
\* (refreshPromise), so no refresh token is presented twice.
THEOREM SessionOutlasts == Spec => SessionLasts
<1>1. TypeOK /\ IInv /\ IsFiniteSet(open) /\ [Next]_vars =>
        [ /\ Alone /\ since = 1
          /\ ~ lost
          /\ \A q \in Calls : call[q].kind # "logout"
          /\ \A t \in Tabs : renewal[t].pc = "refused"
                              => renewal[t].token = refresh /\ ~ Renews(refresh)
          /\ access # 0
          => access' # 0 ]_vars
  <2> SUFFICES ASSUME TypeOK, IInv, IsFiniteSet(open), [Next]_vars, Alone, since = 1, ~ lost,
                      \A q \in Calls : call[q].kind # "logout",
                      \A t \in Tabs : renewal[t].pc = "refused"
                                       => renewal[t].token = refresh /\ ~ Renews(refresh),
                      access # 0, access' = 0
               PROVE  FALSE
    OBVIOUS
  <2>1. PICK t \in Tabs : renewal[t].pc = "refused" /\ t \in open
    BY TokensStay
  <2>2. Single
    <3>1. PICK x : open = {x}
      BY FS_Singleton DEF Alone
    <3> QED BY <3>1 DEF Single
  <2>3. refresh # 0 /\ refresh \in renewable
    BY <2>1, <2>2 DEF IInv, Bounded, Held, Calm, Quiet, LogsOut
  <2>4. refresh \in Nat /\ refresh >= since
    BY <2>3, Numbers
  <2> QED BY <2>1, <2>3, <2>4 DEF Renews
<1> QED BY <1>1, SessionTypeCorrect, SessionInductive, FiniteTabs, PTL DEF Spec, SessionLasts
=============================================================================
