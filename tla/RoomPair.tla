------------------------------ MODULE RoomPair ------------------------------
(***************************************************************************)
(* The two clients of one private room: the arrival handshake that opens    *)
(* the room for both, and the reveal of identities (useChatSocket.ts,       *)
(* ChatRoomPage.tsx), with the server's half of both (consumers.py,         *)
(* services.py). Each connection is FIFO; the broadcast of one frame reaches *)
(* both participants that have joined.                                      *)
(***************************************************************************)
EXTENDS Naturals, Sequences, FiniteSets

CONSTANTS
    Clients,   \* the two participants
    MaxClicks  \* bound on the reveal clicks and answers of each of them

VARIABLES
    joined,     \* clients whose socket is open and in the group of the room
    up, down,   \* the frames on the way to the server, and to each client
    answered,   \* handshakeSentRef
    here,       \* partnerPresent
    phase,      \* reveal.phase
    known,      \* reveal.user: does the client know who the partner is?
    seen,       \* reveal.seen
    clicking,   \* revealClicking
    responding, \* respondLoading: "none", "accept" or "reject"
    clicks,     \* clicks left to each user
    pending,    \* server: requesters of the pending requests
    completed   \* server: room.reveal_completed

net    == <<joined, up, down>>
reveal == <<phase, known, seen>>
busy   == <<clicking, responding>>
server == <<pending, completed>>
vars == <<net, answered, here, reveal, busy, clicks, server>>

Other(c) == CHOOSE d \in Clients : d # c

Up   == {"beacon", "request", "accept", "reject"}
Down == {"beacon", "sent", "received", "success", "rejected", "error"}

TypeOK ==
    /\ joined \subseteq Clients
    /\ up \in [Clients -> Seq(Up)] /\ down \in [Clients -> Seq(Down)]
    /\ answered \in [Clients -> BOOLEAN] /\ here \in [Clients -> BOOLEAN]
    /\ phase \in [Clients -> {"idle", "outgoing", "incoming", "accepted", "rejected"}]
    /\ known \in [Clients -> BOOLEAN] /\ seen \in [Clients -> BOOLEAN]
    /\ clicking \in [Clients -> BOOLEAN]
    /\ responding \in [Clients -> {"none", "accept", "reject"}]
    /\ clicks \in [Clients -> 0 .. MaxClicks]
    /\ pending \subseteq Clients /\ completed \in BOOLEAN

All(v) == [c \in Clients |-> v]

Init ==
    /\ joined = {} /\ up = All(<<>>) /\ down = All(<<>>)
    /\ answered = All(FALSE) /\ here = All(FALSE)
    /\ phase = All("idle") /\ known = All(FALSE) /\ seen = All(FALSE)
    /\ clicking = All(FALSE) /\ responding = All("none") /\ clicks = All(MaxClicks)
    /\ pending = {} /\ completed = FALSE

-----------------------------------------------------------------------------
(* The handshake.                                                           *)

Send(c, f) == up' = [up EXCEPT ![c] = Append(@, f)]

\* onopen: the socket joins the group and announces its arrival.
Open(c) ==
    /\ c \notin joined
    /\ joined' = joined \cup {c}
    /\ Send(c, "beacon")
    /\ UNCHANGED <<down, answered, here, reveal, busy, clicks, server>>

\* Mutant: the proof of presence that is not answered.
NotePartnerQuietly(c) == here' = [here EXCEPT ![c] = TRUE] /\ UNCHANGED <<up, answered>>

\* notePartnerPresent: answered exactly once.
NotePartner(c) ==
    /\ here' = [here EXCEPT ![c] = TRUE]
    /\ answered' = [answered EXCEPT ![c] = TRUE]
    /\ IF answered[c] THEN UNCHANGED up ELSE Send(c, "beacon")

-----------------------------------------------------------------------------
(* The reveal, as a client shows it.                                        *)

\* The effects keyed on the phase: they run when a frame has changed it.
PhaseEffects(c, p) ==
    /\ clicking' = [clicking EXCEPT ![c] = @ /\ (p = phase[c] \/ p = "idle")]
    /\ responding' = [responding EXCEPT
         ![c] = IF p # phase[c] /\ p \in {"accepted", "rejected"} THEN "none" ELSE @]

SetPhase(c, p) ==
    /\ phase' = [phase EXCEPT ![c] = p]
    /\ PhaseEffects(c, p)

\* Mutant: a declined request that forgets the partner it had revealed.
HearAnswerOnly(c, f) ==
    /\ SetPhase(c, CASE f = "sent" -> "outgoing" [] f = "received" -> "incoming"
                     [] f = "success" -> "accepted" [] f = "rejected" -> "rejected")
    /\ known' = [known EXCEPT ![c] = f = "success"]
    /\ seen' = [seen EXCEPT ![c] = @ /\ f # "success"]

\* A reveal frame replaces the phase; the partner is kept once known.
HearAnswer(c, f) ==
    /\ SetPhase(c, CASE f = "sent" -> "outgoing" [] f = "received" -> "incoming"
                     [] f = "success" -> "accepted" [] f = "rejected" -> "rejected")
    /\ known' = [known EXCEPT ![c] = @ \/ f = "success"]
    /\ seen' = [seen EXCEPT ![c] = @ /\ f # "success"]

\* handleServerError: whatever was refused, both buttons are released.
HearError(c) ==
    /\ clicking' = [clicking EXCEPT ![c] = FALSE]
    /\ responding' = [responding EXCEPT ![c] = "none"]

Hear(c) ==
    /\ down[c] # <<>>
    /\ down' = [down EXCEPT ![c] = Tail(@)]
    /\ \/ /\ Head(down[c]) = "beacon"
          /\ NotePartner(c)
          /\ UNCHANGED <<reveal, busy>>
       \/ /\ Head(down[c]) = "error"
          /\ HearError(c)
          /\ UNCHANGED <<up, answered, here, reveal>>
       \/ /\ Head(down[c]) \notin {"beacon", "error"}
          /\ HearAnswer(c, Head(down[c]))
          /\ UNCHANGED <<up, answered, here>>
    /\ UNCHANGED <<joined, clicks, server>>

\* dismissReveal: the modal's button, the strip's cross or the strip's timer of
\* four seconds. Once the partner is known the phase is left as it is.
Dismiss(c) ==
    /\ \/ phase[c] = "rejected"
       \/ phase[c] = "accepted" /\ known[c] /\ ~ seen[c]
    /\ seen' = [seen EXCEPT ![c] = known[c]]
    /\ IF known[c] THEN UNCHANGED <<phase, busy>> ELSE SetPhase(c, "idle")
    /\ UNCHANGED <<net, answered, here, known, clicks, server>>

\* The room is under the cover until the partner is here, then under the modal.
Usable(c) == here[c] /\ ~ (phase[c] = "accepted" /\ known[c] /\ ~ seen[c]) /\ clicks[c] > 0

\* handleReveal: no button once accepted, disabled while a request is pending.
Request(c) ==
    /\ Usable(c) /\ phase[c] \notin {"accepted", "outgoing"} /\ ~ clicking[c]
    /\ clicking' = [clicking EXCEPT ![c] = TRUE]
    /\ Send(c, "request")
    /\ clicks' = [clicks EXCEPT ![c] = @ - 1]
    /\ UNCHANGED <<joined, down, answered, here, reveal, responding, server>>

\* handleRespond: the strip of an incoming request, once.
Respond(c, how) ==
    /\ Usable(c) /\ phase[c] = "incoming" /\ responding[c] = "none"
    /\ responding' = [responding EXCEPT ![c] = how]
    /\ Send(c, how)
    /\ clicks' = [clicks EXCEPT ![c] = @ - 1]
    /\ UNCHANGED <<joined, down, answered, here, reveal, clicking, server>>

-----------------------------------------------------------------------------
(* The server.                                                              *)

Tell(c, mine, theirs) ==
    down' = [d \in Clients |->
               IF d \notin joined THEN down[d]
               ELSE down[d] \o (IF d = c THEN mine ELSE theirs)]

\* create_reveal_request: one pending request per requester, none once revealed.
ServeRequest(c) ==
    IF completed \/ c \in pending
    THEN Tell(c, <<"error">>, <<>>) /\ UNCHANGED server
    ELSE /\ pending' = pending \cup {c}
         /\ Tell(c, <<"sent">>, <<"received">>)
         /\ UNCHANGED completed

\* respond_to_reveal_request: the pending request of the partner.
ServeResponse(c, how) ==
    IF Other(c) \notin pending
    THEN Tell(c, <<"error">>, <<>>) /\ UNCHANGED server
    ELSE /\ pending' = pending \ {Other(c)}
         /\ completed' = (completed \/ how = "accept")
         /\ IF how = "accept" THEN Tell(c, <<"success">>, <<"success">>)
            ELSE Tell(c, <<"rejected">>, <<"rejected">>)

Serve(c) ==
    /\ up[c] # <<>>
    /\ up' = [up EXCEPT ![c] = Tail(@)]
    /\ \/ Head(up[c]) = "beacon" /\ Tell(c, <<>>, <<"beacon">>) /\ UNCHANGED server
       \/ Head(up[c]) = "request" /\ ServeRequest(c)
       \/ Head(up[c]) \in {"accept", "reject"} /\ ServeResponse(c, Head(up[c]))
    /\ UNCHANGED <<joined, answered, here, reveal, busy, clicks>>

-----------------------------------------------------------------------------
Next == \E c \in Clients :
    \/ Open(c)
    \/ Hear(c)
    \/ Dismiss(c)
    \/ Request(c)
    \/ Serve(c)
    \/ \E how \in {"accept", "reject"} : Respond(c, how)
Spec == Init /\ [][Next]_vars

\* Sockets open, frames are served and delivered, strips expire.
Progress == \E c \in Clients : Open(c) \/ Hear(c) \/ Dismiss(c) \/ Serve(c)
FairSpec == Spec /\ WF_vars(Progress)
-----------------------------------------------------------------------------
(* Properties.                                                              *)

Quiet == \A c \in Clients : up[c] = <<>> /\ down[c] = <<>>

\* Whichever socket opens first, the room opens for both: the beacon sent into
\* an empty room is made good by the answer to the one that comes later.
OpensForBoth == <>[](\A c \in Clients : here[c])

\* The two clients do not answer each other's beacons for ever.
HandshakeEnds == <>[](\A c \in Clients : "beacon" \notin {up[c][i] : i \in DOMAIN up[c]})

\* With nothing in flight, both clients know each other or neither does, and
\* they do exactly when the server has recorded the reveal.
RevealAgrees == Quiet => \A c \in Clients : known[c] = completed

\* No reveal button is left spinning: a request or an answer is always followed
\* by a frame that releases it, crossing requests included.
ButtonsRelease ==
    \A c \in Clients :
        clicking[c] \/ responding[c] # "none" ~> ~ clicking[c] /\ responding[c] = "none"

\* The two clients come to rest together, with nothing left spinning.
PairSettles == OpensForBoth /\ HandshakeEnds /\ ButtonsRelease

\* "Reveal declined - you're both still anonymous" (ChatRoomPage.tsx).
DeclinedMeansAnonymous == \A c \in Clients : phase[c] = "rejected" => ~ known[c]
=============================================================================
