------------------------- MODULE SearchClientProofs -------------------------
(***************************************************************************)
(* Theorems about SearchClient, for any number of calls, sessions and        *)
(* failures.                                                                *)
(***************************************************************************)
EXTENDS SearchClient, TLAPS

-----------------------------------------------------------------------------
(* The inductive invariant.                                                 *)

Call == [pc : {"free", "sent", "waiting", "matched", "active", "throttled", "error"},
         session : Nat, first : BOOLEAN]

\* What is in the air, and the timer, are of sessions that have begun.
Wires ==
    /\ session \in Nat /\ leaves \in Nat
    /\ timer \in [session : Nat, first : BOOLEAN]
    /\ calls \in [Calls -> Call]

\* A call or a timer of this session is that of a search that goes on.
Current ==
    /\ \A c \in InTheAir :
         calls[c].session <= session /\ (calls[c].session = session => active)
    /\ timer # NoTimer =>
         timer.session <= session /\ (timer.session = session => active)

\* As long as no call was sent beside another, pendingStartRef is the one in the air, and
\* a call of an earlier session is followed by a second leave.
Followed ==
    ~ overlapped =>
        \A c \in InTheAir : pending = c /\ (calls[c].session # session => c \in again)

\* What failed was counted, and who has taken a seat is on the page of the room.
Counted ==
    /\ fails \in Nat
    /\ fails = 0 => \A c \in Calls : calls[c].pc \notin {"throttled", "error"}
Seated ==
    /\ room \in {"none", "unjoined", "joined"}
    /\ room = "joined" => page = "room"

\* What the server holds for a user who has stopped will be taken back.
Undone ==
    fails = 0 /\ ~ overlapped /\ ~ active /\ page # "room" /\ (queued \/ room # "none")
        => leaves > 0 \/ \E c \in InTheAir : c \in again

IInv == Wires /\ Current /\ Followed /\ Counted /\ Seated /\ Undone

-----------------------------------------------------------------------------
(* The steps of the client.                                                 *)

\* A request is deferred to the timer, or sent on a free slot.
LEMMA RequestSends ==
    ASSUME NEW s, NEW first, Request(s, first)
    PROVE  \/ /\ timer' = [session |-> s, first |-> first]
              /\ UNCHANGED <<pending, calls, overlapped>>
           \/ /\ timer' = NoTimer
              /\ \E c \in Calls \ InTheAir :
                   /\ pending' = c
                   /\ calls' = [calls EXCEPT ![c] = [pc |-> "sent", session |-> s,
                                                     first |-> first]]
              /\ overlapped' = (overlapped \/ InTheAir # {})
BY DEF Request

\* Calls and timers, as values.
LEMMA CallFacts ==
    /\ Free \in Call /\ NoTimer \in [session : Nat, first : BOOLEAN]
    /\ \A s \in Nat, first \in BOOLEAN :
         /\ [pc |-> "sent", session |-> s, first |-> first] \in Call
         /\ [session |-> s, first |-> first] \in [session : Nat, first : BOOLEAN]
    /\ \A k \in Call : k.session \in Nat /\ k.first \in BOOLEAN
    /\ \A k \in Call, a \in {"waiting", "matched", "active", "throttled", "error"} :
         [k EXCEPT !.pc = a] \in Call
<1>1. Free \in Call
  BY DEF Free, Call
<1>2. NoTimer \in [session : Nat, first : BOOLEAN]
  BY DEF NoTimer
<1>3. ASSUME NEW s \in Nat, NEW first \in BOOLEAN
      PROVE  /\ [pc |-> "sent", session |-> s, first |-> first] \in Call
             /\ [session |-> s, first |-> first] \in [session : Nat, first : BOOLEAN]
  BY DEF Call
<1>4. ASSUME NEW k \in Call PROVE k.session \in Nat /\ k.first \in BOOLEAN
  BY DEF Call
<1>5. ASSUME NEW k \in Call, NEW a \in {"waiting", "matched", "active", "throttled", "error"}
      PROVE  [k EXCEPT !.pc = a] \in Call
  BY DEF Call
<1> QED BY <1>1, <1>2, <1>3, <1>4, <1>5

LEMMA AnswerTyped ==
    ASSUME calls \in [Calls -> Call], NEW c \in Calls,
           NEW a \in {"waiting", "matched", "active", "throttled", "error"}, AnswerWith(c, a)
    PROVE  calls' \in [Calls -> Call]
<1>1. calls' = [calls EXCEPT ![c] = [calls[c] EXCEPT !.pc = a]]
  BY DEF AnswerWith
<1>2. [calls[c] EXCEPT !.pc = a] \in Call
  BY CallFacts
<1> HIDE DEF Call
<1> QED BY <1>1, <1>2

LEMMA WiresStep == ASSUME Wires, [Next]_vars PROVE Wires'
<1> USE DEF Wires, client, net, server
<1>1. ASSUME NEW s \in Nat, NEW first \in BOOLEAN, Request(s, first)
      PROVE  timer' \in [session : Nat, first : BOOLEAN] /\ calls' \in [Calls -> Call]
  <2> DEFINE sent == [pc |-> "sent", session |-> s, first |-> first]
  <2>1. sent \in Call /\ [session |-> s, first |-> first] \in [session : Nat, first : BOOLEAN]
    BY CallFacts
  <2>2. timer' = [session |-> s, first |-> first] \/ timer' = NoTimer
    BY <1>1 DEF Request
  <2>3. calls' = calls \/ \E c \in Calls : calls' = [calls EXCEPT ![c] = sent]
    BY <1>1 DEF Request
  <2> HIDE DEF sent
  <2>4. calls' \in [Calls -> Call]
    BY <2>1, <2>3
  <2> QED BY <2>1, <2>2, <2>4, CallFacts
<1>2. ASSUME NEW silent \in BOOLEAN, Start(silent) PROVE Wires'
  <2>1. Request(session + 1, TRUE) /\ session' = session + 1 /\ leaves' = leaves
    BY <1>2, Zenon DEF Start
  <2>2. session + 1 \in Nat
    OBVIOUS
  <2>3. timer' \in [session : Nat, first : BOOLEAN] /\ calls' \in [Calls -> Call]
    BY <1>1, <2>1, <2>2
  <2> QED BY <2>1, <2>2, <2>3
<1>3. CASE Fire
  <2>1. session' = session /\ leaves' = leaves
    BY <1>3 DEF Fire
  <2>2. CASE Request(session, timer.first)
    <3>1. timer.first \in BOOLEAN
      OBVIOUS
    <3>2. timer' \in [session : Nat, first : BOOLEAN] /\ calls' \in [Calls -> Call]
      BY <1>1, <2>2, <3>1
    <3> QED BY <2>1, <3>2
  <2>3. CASE timer' = NoTimer /\ UNCHANGED calls
    BY <2>1, <2>3, CallFacts
  <2> QED BY <1>3, <2>2, <2>3 DEF Fire
<1>4. ASSUME NEW to \in {"home", "away"}, Stop(to) PROVE Wires'
  <2>1. /\ session' = session + 1 /\ timer' = NoTimer
        /\ leaves' = leaves + 1 /\ calls' = calls
    BY <1>4 DEF Stop, FinishSession, ReleaseQueueSlot
  <2> QED BY <2>1, CallFacts
<1>5. ASSUME NEW c \in Calls, Settle(c) PROVE Wires'
  <2>1. calls' = [calls EXCEPT ![c] = Free] /\ leaves' \in {leaves, leaves + 1}
    BY <1>5 DEF Settle
  <2>2. session' \in {session, session + 1}
    BY <1>5 DEF Settle, Stale, Found, Waiting, Retry, GiveUp, FinishSession
  <2>3. timer' \in {timer, NoTimer} \/ \E first \in BOOLEAN :
          timer' = [session |-> session, first |-> first]
    <3>1. calls[c].first \in BOOLEAN
      BY CallFacts
    <3> QED BY <1>5, <3>1 DEF Settle, Stale, Found, Waiting, Retry, GiveUp, FinishSession
  <2> QED BY <2>1, <2>2, <2>3, CallFacts
<1>6. ASSUME NEW c \in Calls, ServeStart(c) \/ Fail(c) PROVE Wires'
  <2>1. UNCHANGED <<session, leaves, timer>>
    BY <1>6 DEF ServeStart, Fail
  <2>2. \E a \in {"waiting", "matched", "active", "throttled", "error"} : AnswerWith(c, a)
    BY <1>6 DEF ServeStart, Fail
  <2> QED BY <2>1, <2>2, AnswerTyped
<1>7. CASE Tick \/ PartnerClaims \/ ServeLeave \/ ServeEnd
  <2>1. UNCHANGED <<session, timer, calls>> /\ (leaves' = leaves \/ ServeLeave)
    BY <1>7 DEF Tick, PartnerClaims, ServeLeave, ServeEnd
  <2>2. leaves' \in Nat
    BY <2>1 DEF ServeLeave
  <2> QED BY <2>1, <2>2
<1>8. CASE UNCHANGED vars
  BY <1>8 DEF vars
<1> QED BY <1>2, <1>3, <1>4, <1>5, <1>6, <1>7, <1>8 DEF Next, Progress

\* The sessions: only a search that has begun has calls and a timer of its own.
LEMMA CurrentStep == ASSUME Wires, Current, [Next]_vars PROVE Current'
<1> USE DEF Wires, Current, InTheAir
<1>1. ASSUME NEW s \in Nat, NEW first \in BOOLEAN, Request(s, first), s = session',
             session \in 0 .. s, session = s => active, active'
      PROVE  Current'
  <2>1. \/ timer' = [session |-> s, first |-> first] /\ UNCHANGED calls
        \/ timer' = NoTimer /\ \E c \in Calls : calls' = [calls EXCEPT
              ![c] = [pc |-> "sent", session |-> s, first |-> first]]
    BY <1>1 DEF Request
  <2>2. \A c \in Calls : calls[c].session \in Nat
    BY CallFacts
  <2> QED BY <1>1, <2>1, <2>2
<1>2. ASSUME NEW silent \in BOOLEAN, Start(silent) PROVE Current'
  <2>1. Request(session + 1, TRUE) /\ session' = session + 1 /\ active'
    BY <1>2, Zenon DEF Start
  <2>2. session + 1 \in Nat /\ session \in 0 .. session + 1 /\ session # session + 1
    OBVIOUS
  <2> QED BY <1>1, <2>1, <2>2
<1>3. CASE Fire
  <2>1. session' = session /\ active' = active /\ timer # NoTimer
    BY <1>3 DEF Fire
  <2>2. CASE timer.session = session /\ Request(session, timer.first)
    BY <1>1, <2>1, <2>2
  <2>3. CASE timer' = NoTimer /\ UNCHANGED calls
    BY <2>1, <2>3
  <2> QED BY <1>3, <2>2, <2>3 DEF Fire
<1>4. ASSUME NEW to \in {"home", "away"}, Stop(to) PROVE Current'
  <2>1. session' = session + 1 /\ timer' = NoTimer /\ calls' = calls
    BY <1>4 DEF Stop, FinishSession
  <2>2. \A c \in Calls : calls[c].session \in Nat
    BY CallFacts
  <2> QED BY <2>1, <2>2
<1>5. ASSUME NEW c \in Calls, Settle(c) PROVE Current'
  <2>1. calls' = [calls EXCEPT ![c] = Free] /\ c \in InTheAir
    BY <1>5 DEF Settle
  <2>2. \A d \in InTheAir' : d \in InTheAir /\ calls'[d] = calls[d]
    BY <2>1 DEF Free
  <2>3. \A d \in Calls : calls[d].session \in Nat
    BY CallFacts
  <2>4. CASE session' = session /\ active' = active /\ timer' = timer
    BY <2>2, <2>4
  <2>5. CASE session' = session /\ active' = active /\ calls[c].session = session
             /\ \E first \in BOOLEAN : timer' = [session |-> session, first |-> first]
    BY <2>1, <2>2, <2>5
  <2>6. CASE session' = session + 1 /\ timer' = NoTimer
    BY <2>2, <2>3, <2>6
  <2>7. calls[c].first \in BOOLEAN
    BY CallFacts
  <2> QED BY <1>5, <2>4, <2>5, <2>6, <2>7
          DEF Settle, Stale, Found, Waiting, Retry, GiveUp, FinishSession
<1>6. ASSUME NEW c \in Calls, ServeStart(c) \/ Fail(c) PROVE Current'
  <2>1. UNCHANGED <<session, active, timer>>
    BY <1>6 DEF ServeStart, Fail, client
  <2>2. \E a \in {"waiting", "matched", "active", "throttled", "error"} :
          calls' = [calls EXCEPT ![c].pc = a]
    BY <1>6 DEF ServeStart, Fail, AnswerWith
  <2>3. calls[c].pc # "free"
    BY <1>6 DEF ServeStart, Fail
  <2>4. \A d \in Calls : calls[d] \in Call
    OBVIOUS
  <2>5. InTheAir' = InTheAir /\ \A d \in Calls : calls'[d].session = calls[d].session
    BY <2>2, <2>3, <2>4 DEF Call
  <2> QED BY <2>1, <2>5
<1>7. CASE Tick \/ PartnerClaims \/ ServeLeave \/ ServeEnd
  BY <1>7 DEF Tick, PartnerClaims, ServeLeave, ServeEnd, client, net
<1>8. CASE UNCHANGED vars
  BY <1>8 DEF vars, client, net
<1> QED BY <1>2, <1>3, <1>4, <1>5, <1>6, <1>7, <1>8 DEF Next, Progress

\* What a request of a search that is sent beside nothing else makes of the calls.
LEMMA FollowedRequest ==
    ASSUME Wires, Followed, NEW s \in Nat, NEW first \in BOOLEAN, Request(s, first),
           s = session', again' = again,
           \A c \in InTheAir : calls[c].session # s => c \in again
    PROVE  Followed'
<1> SUFFICES ASSUME ~ overlapped' PROVE Followed'
  BY DEF Followed
<1>1. CASE UNCHANGED <<pending, calls, overlapped>>
  BY <1>1 DEF Followed, InTheAir
<1>2. CASE /\ \E c \in Calls \ InTheAir :
                /\ pending' = c
                /\ calls' = [calls EXCEPT ![c] = [pc |-> "sent", session |-> s,
                                                  first |-> first]]
           /\ overlapped' = (overlapped \/ InTheAir # {})
  <2>1. PICK c \in Calls : /\ pending' = c
                           /\ calls' = [calls EXCEPT ![c] = [pc |-> "sent", session |-> s,
                                                             first |-> first]]
    BY <1>2
  <2>2. InTheAir = {}
    BY <1>2
  <2>3. \A d \in InTheAir' : d = c
    BY <2>1, <2>2 DEF InTheAir, Wires
  <2>4. calls'[c].session = s
    BY <2>1 DEF Wires
  <2> QED BY <2>1, <2>3, <2>4 DEF Followed
<1> QED BY <1>1, <1>2 DEF Request

LEMMA FollowedStep ==
    ASSUME NoCall \notin Calls, Wires, Current, Followed, [Next]_vars
    PROVE  Followed'
<1>1. ASSUME NEW silent \in BOOLEAN, Start(silent) PROVE Followed'
  <2>1. /\ Request(session + 1, TRUE) /\ session' = session + 1 /\ again' = again
        /\ ~ active
    BY <1>1, Zenon DEF Start
  <2>2. session + 1 \in Nat /\ session # session + 1
    BY DEF Wires
  <2>3. CASE ~ overlapped
    <3>1. \A c \in InTheAir : c \in again
      BY <2>1, <2>3 DEF Followed, Current
    <3> QED BY <2>1, <2>2, <3>1, FollowedRequest
  <2>4. CASE overlapped
    BY <2>1, <2>4 DEF Request, Followed
  <2> QED BY <2>3, <2>4
<1>2. CASE Fire
  <2>1. session' = session /\ again' = again
    BY <1>2 DEF Fire
  <2>2. CASE Request(session, timer.first)
    <3>1. CASE ~ overlapped
      <4>1. timer.first \in BOOLEAN /\ session \in Nat
        BY DEF Wires
      <4>2. \A c \in InTheAir : calls[c].session # session => c \in again
        BY <3>1 DEF Followed
      <4> QED BY <2>1, <2>2, <4>1, <4>2, FollowedRequest
    <3>2. CASE overlapped
      BY <2>2, <3>2 DEF Request, Followed
    <3> QED BY <3>1, <3>2
  <2>3. CASE UNCHANGED <<pending, calls, overlapped>>
    BY <2>1, <2>3 DEF Followed, InTheAir
  <2> QED BY <1>2, <2>2, <2>3 DEF Fire
<1>3. ASSUME NEW to \in {"home", "away"}, Stop(to) PROVE Followed'
  <2>1. /\ UNCHANGED <<pending, calls, overlapped>>
        /\ again' = IF pending = NoCall THEN again ELSE again \cup {pending}
    BY <1>3 DEF Stop, ReleaseQueueSlot
  <2> QED BY <2>1 DEF Followed, InTheAir
<1>4. ASSUME NEW c \in Calls, Settle(c) PROVE Followed'
  <2>1. /\ calls' = [calls EXCEPT ![c] = Free] /\ c \in InTheAir
        /\ overlapped' = overlapped
    BY <1>4 DEF Settle, InTheAir
  <2>2. \A d \in InTheAir' : d \in InTheAir /\ d # c
    BY <2>1 DEF Free, InTheAir, Wires
  <2>3. ~ overlapped => InTheAir' = {}
    BY <2>1, <2>2 DEF Followed
  <2> QED BY <2>1, <2>3 DEF Followed
<1>5. ASSUME NEW c \in Calls, ServeStart(c) \/ Fail(c) PROVE Followed'
  <2>1. UNCHANGED <<session, pending, again, overlapped>>
    BY <1>5 DEF ServeStart, Fail, client
  <2>2. \E a \in {"waiting", "matched", "active", "throttled", "error"} :
          calls' = [calls EXCEPT ![c].pc = a]
    BY <1>5 DEF ServeStart, Fail, AnswerWith
  <2>3. calls[c].pc # "free"
    BY <1>5 DEF ServeStart, Fail
  <2>4. \A d \in Calls : calls[d] \in Call
    BY DEF Wires
  <2>5. InTheAir' = InTheAir /\ \A d \in Calls : calls'[d].session = calls[d].session
    BY <2>2, <2>3, <2>4 DEF Call, Wires, InTheAir
  <2> QED BY <2>1, <2>5 DEF Followed, InTheAir
<1>6. CASE Tick \/ PartnerClaims \/ ServeLeave \/ ServeEnd
  BY <1>6 DEF Tick, PartnerClaims, ServeLeave, ServeEnd, client, net, Followed, InTheAir
<1>7. CASE UNCHANGED vars
  BY <1>7 DEF vars, client, net, Followed, InTheAir
<1> QED BY <1>1, <1>2, <1>3, <1>4, <1>5, <1>6, <1>7 DEF Next, Progress

-----------------------------------------------------------------------------
(* Failures, seats, and what is left to take back.                          *)

LEMMA CountedStep == ASSUME Wires, Counted, [Next]_vars PROVE Counted'
<1> USE DEF Counted
<1>1. ASSUME NEW s, NEW first, Request(s, first), fails' = fails PROVE Counted'
  BY <1>1 DEF Request, Wires
<1>2. ASSUME NEW silent \in BOOLEAN, Start(silent) PROVE Counted'
  <2>1. Request(session + 1, TRUE) /\ fails' = fails
    BY <1>2, Zenon DEF Start
  <2> QED BY <1>1, <2>1
<1>3. CASE Fire
  <2>1. fails' = fails /\ (Request(session, timer.first) \/ UNCHANGED calls)
    BY <1>3 DEF Fire
  <2> QED BY <1>1, <2>1
<1>4. ASSUME NEW to \in {"home", "away"}, Stop(to) PROVE Counted'
  BY <1>4 DEF Stop
<1>5. ASSUME NEW c \in Calls, Settle(c) PROVE Counted'
  <2>1. calls' = [calls EXCEPT ![c] = Free] /\ fails' = fails
    BY <1>5 DEF Settle
  <2> QED BY <2>1 DEF Free, Wires
<1>6. ASSUME NEW c \in Calls, ServeStart(c) PROVE Counted'
  <2>1. fails' = fails /\ \E a \in {"waiting", "matched", "active"} :
          calls' = [calls EXCEPT ![c].pc = a]
    BY <1>6 DEF ServeStart, AnswerWith
  <2>2. \A d \in Calls : calls[d] \in Call
    BY DEF Wires
  <2> QED BY <2>1, <2>2 DEF Wires, Call
<1>7. ASSUME NEW c \in Calls, Fail(c) PROVE Counted'
  BY <1>7 DEF Fail, Counted
<1>8. CASE Tick \/ PartnerClaims \/ ServeLeave \/ ServeEnd
  BY <1>8 DEF Tick, PartnerClaims, ServeLeave, ServeEnd, net
<1>9. CASE UNCHANGED vars
  BY <1>9 DEF vars, net
<1> QED BY <1>2, <1>3, <1>4, <1>5, <1>6, <1>7, <1>8, <1>9 DEF Next, Progress

LEMMA SeatedStep == ASSUME Seated, [Next]_vars PROVE Seated'
<1> USE DEF Seated, client, server
<1>1. ASSUME NEW silent \in BOOLEAN, Start(silent) PROVE Seated'
  BY <1>1 DEF Start
<1>2. CASE Fire
  BY <1>2 DEF Fire
<1>3. ASSUME NEW to \in {"home", "away"}, Stop(to) PROVE Seated'
  BY <1>3 DEF Stop
<1>4. ASSUME NEW c \in Calls, Settle(c) PROVE Seated'
  BY <1>4 DEF Settle, Stale, Found, Waiting, Retry, GiveUp
<1>5. ASSUME NEW c \in Calls, ServeStart(c) \/ Fail(c) PROVE Seated'
  BY <1>5 DEF ServeStart, Fail
<1>6. CASE Tick \/ PartnerClaims \/ ServeLeave \/ ServeEnd
  BY <1>6 DEF Tick, PartnerClaims, ServeLeave, ServeEnd
<1>7. CASE UNCHANGED vars
  BY <1>7 DEF vars
<1> QED BY <1>1, <1>2, <1>3, <1>4, <1>5, <1>6, <1>7 DEF Next, Progress

LEMMA UndoneStep ==
    ASSUME NoCall \notin Calls, IInv, [Next]_vars
    PROVE  Undone'
<1> DEFINE Held == queued \/ room # "none"
           Undoing == leaves > 0 \/ \E c \in InTheAir : c \in again
<1> SUFFICES ASSUME fails' = 0, ~ overlapped', ~ active', page' # "room", Held'
             PROVE  Undoing'
  BY DEF Undone
<1> USE DEF IInv
<1>1. leaves \in Nat
  BY DEF Wires
<1>2. ASSUME NEW silent \in BOOLEAN, Start(silent) PROVE FALSE
  BY <1>2 DEF Start
<1>3. CASE Fire
  <2>1. UNCHANGED <<active, page, again, leaves, queued, room, fails>>
    BY <1>3 DEF Fire, server
  <2>2. CASE UNCHANGED <<calls, overlapped>>
    BY <2>1, <2>2 DEF Undone, InTheAir
  <2>3. CASE timer.session = session
    BY <1>3, <2>1, <2>3 DEF Fire, Current
  <2> QED BY <1>3, <2>2, <2>3 DEF Fire
<1>4. ASSUME NEW to \in {"home", "away"}, Stop(to) PROVE Undoing'
  BY <1>1, <1>4 DEF Stop, ReleaseQueueSlot
<1>5. ASSUME NEW c \in Calls, Settle(c) PROVE Undoing'
  <2>1. /\ fails = 0 /\ ~ overlapped /\ c \in InTheAir
        /\ leaves' = IF c \in again /\ Answer(c) \notin {"error", "throttled"}
                     THEN leaves + 1 ELSE leaves
    BY <1>5 DEF Settle, InTheAir
  <2>2. Answer(c) \notin {"error", "throttled"}
    BY <2>1 DEF Counted, Answer
  <2>3. Stale(c)
    <3>1. ~ Found(c)
      BY DEF Found
    <3>2. ~ GiveUp(c)
      BY <2>2 DEF GiveUp
    <3>3. ~ Waiting(c) /\ ~ Retry(c)
      BY <2>1 DEF Waiting, Retry, Current
    <3> QED BY <1>5, <3>1, <3>2, <3>3 DEF Settle
  <2>4. c \in again
    BY <2>1, <2>3 DEF Stale, Followed
  <2> QED BY <1>1, <2>1, <2>2, <2>4
<1>6. ASSUME NEW c \in Calls, ServeStart(c) PROVE Undoing'
  <2>1. UNCHANGED <<session, active, page, again, leaves, fails, overlapped>>
    BY <1>6 DEF ServeStart, client
  <2>2. c \in InTheAir /\ InTheAir \subseteq InTheAir'
    <3>1. \E a \in {"waiting", "matched", "active"} : calls' = [calls EXCEPT ![c].pc = a]
      BY <1>6 DEF ServeStart, AnswerWith
    <3>2. \A d \in Calls : calls[d] \in Call
      BY DEF Wires
    <3> QED BY <1>6, <3>1, <3>2 DEF ServeStart, InTheAir, Wires, Call
  <2>3. c \in again
    BY <2>1, <2>2 DEF Current, Followed
  <2> QED BY <2>1, <2>2, <2>3
<1>7. ASSUME NEW c \in Calls, Fail(c) PROVE FALSE
  BY <1>7 DEF Fail, Counted
<1>8. CASE Tick \/ PartnerClaims \/ ServeEnd
  <2>1. /\ UNCHANGED <<active, page, again, leaves, calls, fails, overlapped>>
        /\ Held
    BY <1>8 DEF Tick, PartnerClaims, ServeEnd, client, net, server
  <2> QED BY <2>1 DEF Undone, InTheAir
<1>9. ASSUME ServeLeave PROVE FALSE
  <2>1. queued' = FALSE /\ room' = IF room = "unjoined" THEN "none" ELSE room
    BY <1>9 DEF ServeLeave
  <2>2. page' = page
    BY <1>9 DEF ServeLeave, client
  <2> QED BY <2>1, <2>2 DEF Seated
<1>10. CASE UNCHANGED vars
  BY <1>10 DEF vars, client, net, server, Undone, InTheAir
<1> QED BY <1>2, <1>3, <1>4, <1>5, <1>6, <1>7, <1>8, <1>9, <1>10 DEF Next, Progress

\* The types: a step keeps them.
LEMMA SearchTyped ==
    ASSUME MaxFails \in Nat, TypeOK, [Next]_vars
    PROVE  TypeOK'
<1>1. Wires
  BY DEF TypeOK, Wires, Call
<1>2. Wires'
  BY <1>1, WiresStep
<1>3. /\ active \in BOOLEAN /\ inFlight \in BOOLEAN /\ pending \in Calls \cup {NoCall}
      /\ searching \in BOOLEAN /\ starting \in BOOLEAN
      /\ page \in {"home", "room", "away"} /\ spaced \in BOOLEAN
      /\ again \subseteq Calls /\ ends \in Nat
      /\ queued \in BOOLEAN /\ room \in {"none", "unjoined", "joined"}
      /\ fails \in 0 .. MaxFails /\ overlapped \in BOOLEAN
  BY DEF TypeOK
<1> DEFINE Client == /\ active \in BOOLEAN /\ searching \in BOOLEAN /\ starting \in BOOLEAN
                     /\ page \in {"home", "room", "away"}
           Sent == /\ inFlight \in BOOLEAN /\ pending \in Calls \cup {NoCall}
                   /\ spaced \in BOOLEAN /\ overlapped \in BOOLEAN
           Back == /\ again \subseteq Calls /\ ends \in Nat
                   /\ queued \in BOOLEAN /\ room \in {"none", "unjoined", "joined"}
                   /\ fails \in 0 .. MaxFails
<1>4. SUFFICES Client' /\ Sent' /\ Back'
  BY <1>2 DEF TypeOK, Wires, Call
<1>5. ASSUME NEW s, NEW first, Request(s, first) PROVE Sent'
  <2>1. \/ UNCHANGED <<inFlight, pending, spaced, overlapped>>
        \/ /\ pending' \in Calls /\ inFlight' = TRUE /\ spaced' = FALSE
           /\ overlapped' = (overlapped \/ InTheAir # {})
    BY <1>5 DEF Request
  <2> QED BY <1>3, <2>1
<1>6. ASSUME NEW silent \in BOOLEAN, Start(silent) PROVE Client' /\ Sent' /\ Back'
  <2>1. /\ Request(session + 1, TRUE) /\ active' = TRUE
        /\ UNCHANGED <<page, again, ends, server, fails>>
    BY <1>6, Zenon DEF Start
  <2>2. searching' = (searching \/ silent) /\ starting' = (~ silent /\ spaced)
    BY <1>6, Zenon DEF Start
  <2> QED BY <1>3, <1>5, <2>1, <2>2 DEF server
<1>7. CASE Fire
  <2>1. UNCHANGED <<active, searching, starting, page, again, ends, server, fails>>
    BY <1>7 DEF Fire
  <2>2. \/ Request(session, timer.first)
        \/ UNCHANGED <<inFlight, pending, spaced, overlapped>>
    BY <1>7 DEF Fire
  <2>3. Sent'
    BY <1>3, <1>5, <2>2
  <2> QED BY <1>3, <2>1, <2>3 DEF server
<1>8. ASSUME NEW to \in {"home", "away"}, Stop(to) PROVE Client' /\ Sent' /\ Back'
  <2>1. /\ active' = FALSE /\ inFlight' = FALSE /\ searching' = FALSE /\ starting' = FALSE
        /\ page' = to /\ UNCHANGED <<pending, spaced, ends, server, fails, overlapped>>
        /\ again' = IF pending = NoCall THEN again ELSE again \cup {pending}
    BY <1>8 DEF Stop, FinishSession, ReleaseQueueSlot
  <2>2. again' \subseteq Calls
    BY <1>3, <2>1
  <2> QED BY <1>3, <2>1, <2>2 DEF server
<1>9. ASSUME NEW c \in Calls, Settle(c) PROVE Client' /\ Sent' /\ Back'
  <2>1. /\ inFlight' = FALSE /\ pending' = NoCall /\ again' = again \ {c}
        /\ UNCHANGED <<spaced, queued, fails, overlapped>>
    BY <1>9 DEF Settle
  <2>2. calls[c].first \in BOOLEAN
    BY <1>1, CallFacts DEF Wires
  <2>3. /\ active' \in {active, FALSE} /\ page' \in {page, "room"}
        /\ ends' \in {ends, ends + 1} /\ room' \in {room, "joined"}
        /\ searching' \in {searching, TRUE, FALSE}
        /\ starting' \in {starting, FALSE, (starting /\ ~ calls[c].first)}
    BY <1>9 DEF Settle, Stale, Found, Waiting, Retry, GiveUp, FinishSession
  <2>4. ends' \in Nat
    BY <1>3, <2>3
  <2>5. active' \in BOOLEAN /\ page' \in {"home", "room", "away"} /\ searching' \in BOOLEAN
    BY <1>3, <2>3
  <2>6. starting' \in BOOLEAN
    BY <1>3, <2>2, <2>3, Zenon
  <2>7. Sent' /\ again' \subseteq Calls
    BY <1>3, <2>1
  <2>8. queued' \in BOOLEAN /\ room' \in {"none", "unjoined", "joined"}
        /\ fails' \in 0 .. MaxFails
    BY <1>3, <2>1, <2>3
  <2> QED BY <2>4, <2>5, <2>6, <2>7, <2>8
<1>10. ASSUME NEW c \in Calls, ServeStart(c) PROVE Client' /\ Sent' /\ Back'
  <2>1. /\ UNCHANGED <<client, spaced, again, ends, fails, overlapped>>
        /\ room' \in {room, "unjoined"} /\ queued' \in {queued, TRUE, FALSE}
    BY <1>10 DEF ServeStart, server
  <2> QED BY <1>3, <2>1 DEF client
<1>11. ASSUME NEW c \in Calls, Fail(c) PROVE Client' /\ Sent' /\ Back'
  <2>1. /\ UNCHANGED <<client, spaced, again, ends, server, overlapped>>
        /\ fails < MaxFails /\ fails' = fails + 1
    BY <1>11 DEF Fail
  <2>2. fails' \in 0 .. MaxFails
    BY <1>3, <2>1
  <2> QED BY <1>3, <2>1, <2>2 DEF client, server
<1>12. CASE Tick \/ PartnerClaims
  BY <1>3, <1>12 DEF Tick, PartnerClaims, client, net, server
<1>13. CASE ServeLeave \/ ServeEnd
  <2>1. /\ UNCHANGED <<client, spaced, again, fails, overlapped>>
        /\ ends' \in {ends, ends - 1} /\ (ends' = ends \/ ends > 0)
        /\ queued' \in {queued, FALSE} /\ room' \in {room, "none"}
    BY <1>13 DEF ServeLeave, ServeEnd
  <2>2. ends' \in Nat
    BY <1>3, <2>1
  <2> QED BY <1>3, <2>1, <2>2 DEF client
<1>14. CASE UNCHANGED vars
  BY <1>3, <1>14 DEF vars, client, net, server
<1> QED BY <1>6, <1>7, <1>8, <1>9, <1>10, <1>11, <1>12, <1>13, <1>14 DEF Next, Progress

-----------------------------------------------------------------------------
\* The variables of the search keep their types (useMatchmaking.ts).
THEOREM SearchTypeCorrect ==
    ASSUME MaxFails \in Nat
    PROVE  Spec => []TypeOK
<1>1. Init => TypeOK
  <2> SUFFICES ASSUME Init PROVE TypeOK
    OBVIOUS
  <2>1. Wires
    BY CallFacts DEF Init, Wires
  <2>2. 0 \in 0 .. MaxFails
    OBVIOUS
  <2> QED BY <2>1, <2>2 DEF Init, TypeOK, Wires, Call
<1>2. TypeOK /\ [Next]_vars => TypeOK'
  BY SearchTyped
<1> QED BY <1>1, <1>2, PTL DEF Spec

\* What is in the air is of the search that goes on, or will be taken back.
THEOREM SearchInductive ==
    ASSUME NoCall \notin Calls
    PROVE  Spec => []IInv
<1>1. Init => IInv
  <2> SUFFICES ASSUME Init PROVE IInv
    OBVIOUS
  <2>1. Wires
    BY CallFacts DEF Init, Wires
  <2>2. InTheAir = {} /\ timer = NoTimer
    BY DEF Init, InTheAir, Free
  <2>3. Counted
    BY DEF Init, Counted, Free
  <2>4. Seated /\ Undone
    BY DEF Init, Seated, Undone
  <2> QED BY <2>1, <2>2, <2>3, <2>4 DEF IInv, Current, Followed
<1>2. ASSUME IInv, [Next]_vars PROVE IInv'
  BY <1>2, WiresStep, CurrentStep, FollowedStep, CountedStep, SeatedStep, UndoneStep DEF IInv
<1> QED BY <1>1, <1>2, PTL DEF Spec

\* A user who has stopped, with nothing left in the air, is neither queued nor missed in a
\* room, unless a call failed or two were in the air together, however many searches came
\* before and however their calls and leaves were delayed (useMatchmaking.ts).
THEOREM StoppedLeavesNoGhost ==
    ASSUME NoCall \notin Calls
    PROVE  Spec => []NoGhost
<1>1. IInv => NoGhost
  BY DEF IInv, NoGhost, Quiet, Undone
<1> QED BY <1>1, SearchInductive, PTL
=============================================================================
