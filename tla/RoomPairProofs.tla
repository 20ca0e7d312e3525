--------------------------- MODULE RoomPairProofs ---------------------------
(***************************************************************************)
(* Theorems about RoomPair, for any two clients and any number of clicks.    *)
(***************************************************************************)
EXTENDS RoomPair, TLAPS

-----------------------------------------------------------------------------
(* The inductive invariant.                                                 *)

Has(f, s) == \E i \in 1 .. Len(s) : s[i] = f

Couple == \E a, b : a # b /\ Clients = {a, b}

\* The queues and the tables have an entry for each client.
Shape ==
    /\ up \in [Clients -> Seq(Up)] /\ down \in [Clients -> Seq(Down)]
    /\ here \in [Clients -> BOOLEAN] /\ joined \subseteq Clients
Flags == known \in [Clients -> BOOLEAN] /\ completed \in BOOLEAN

\* Nothing goes to or comes from a socket that is not open.
Silent == \A c \in Clients \ joined : up[c] = <<>> /\ down[c] = <<>>

\* Whatever needs a partner needs both sockets: a beacon that was heard, a request that
\* was sent or recorded, a reveal.
Met ==
    (\/ completed \/ pending # {}
     \/ \E c \in Clients : here[c] \/ Has("beacon", down[c]) \/ Has("request", up[c]))
    => joined = Clients

\* Who knows the partner was told, and the server has recorded it; what it has recorded
\* is known or on its way.
Told ==
    \A c \in Clients :
        /\ known[c] \/ Has("success", down[c]) => completed
        /\ completed => known[c] \/ Has("success", down[c])

IInv == Shape /\ Flags /\ Silent /\ Met /\ Told

-----------------------------------------------------------------------------
(* Queues.                                                                  *)

LEMMA HasAppend ==
    ASSUME NEW S, NEW s \in Seq(S), NEW e \in S, NEW f
    PROVE  Has(f, Append(s, e)) <=> Has(f, s) \/ e = f
<1>1. /\ Len(Append(s, e)) = Len(s) + 1 /\ Append(s, e)[Len(s) + 1] = e
      /\ \A i \in 1 .. Len(s) : Append(s, e)[i] = s[i]
  OBVIOUS
<1>2. Len(s) \in Nat
  OBVIOUS
<1>3. ASSUME Has(f, s) \/ e = f PROVE Has(f, Append(s, e))
  BY <1>1, <1>2, <1>3 DEF Has
<1>4. ASSUME Has(f, Append(s, e)), e # f PROVE Has(f, s)
  BY <1>1, <1>2, <1>4 DEF Has
<1> QED BY <1>3, <1>4

LEMMA HasTail ==
    ASSUME NEW S, NEW s \in Seq(S), s # <<>>, NEW f
    PROVE  Has(f, s) <=> Head(s) = f \/ Has(f, Tail(s))
<1>1. /\ Len(s) \in Nat \ {0} /\ Head(s) = s[1] /\ Len(Tail(s)) = Len(s) - 1
      /\ \A i \in 1 .. Len(s) - 1 : Tail(s)[i] = s[i + 1]
  OBVIOUS
<1>2. ASSUME Has(f, s), Head(s) # f PROVE Has(f, Tail(s))
  <2>1. PICK i \in 1 .. Len(s) : s[i] = f
    BY <1>2 DEF Has
  <2>2. i - 1 \in 1 .. Len(Tail(s)) /\ Tail(s)[i - 1] = f
    BY <1>1, <1>2, <2>1
  <2> QED BY <2>2 DEF Has
<1>3. ASSUME Has(f, Tail(s)) PROVE Has(f, s)
  <2>1. PICK i \in 1 .. Len(Tail(s)) : Tail(s)[i] = f
    BY <1>3 DEF Has
  <2>2. i + 1 \in 1 .. Len(s) /\ s[i + 1] = f
    BY <1>1, <2>1
  <2> QED BY <2>2 DEF Has
<1>4. ASSUME Head(s) = f PROVE Has(f, s)
  BY <1>1, <1>4 DEF Has
<1> QED BY <1>2, <1>3, <1>4

LEMMA HasEmpty == \A f : ~ Has(f, <<>>)
BY DEF Has

\* What Tell leaves in a queue: the frame that was sent, after what was there.
LEMMA TellHas ==
    ASSUME NEW c \in Clients, NEW g, NEW h, g \in Seq(Down), h \in Seq(Down),
           g = <<>> \/ \E f \in Down : g = <<f>>, h = <<>> \/ \E f \in Down : h = <<f>>,
           down \in [Clients -> Seq(Down)], Tell(c, g, h)
    PROVE  /\ down' \in [Clients -> Seq(Down)]
           /\ \A d \in Clients \ joined : down'[d] = down[d]
           /\ \A d \in joined : \A f : d \in Clients =>
                (Has(f, down'[d]) <=> Has(f, down[d]) \/ Has(f, IF d = c THEN g ELSE h))
<1>1. ASSUME NEW s \in Seq(Down), NEW k \in Seq(Down), k = <<>> \/ \E f \in Down : k = <<f>>,
             NEW e
      PROVE  Has(e, s \o k) <=> Has(e, s) \/ Has(e, k)
  <2>1. CASE k = <<>>
    <3>1. s \o k = s
      BY <2>1
    <3> QED BY <2>1, <3>1, HasEmpty
  <2>2. CASE \E f \in Down : k = <<f>>
    <3>1. PICK f \in Down : k = <<f>>
      BY <2>2
    <3>2. s \o k = Append(s, f)
      BY <3>1
    <3>3. Has(e, k) <=> f = e
      BY <3>1 DEF Has
    <3> QED BY <3>2, <3>3, HasAppend
  <2> QED BY <1>1, <2>1, <2>2
<1>2. \A d \in Clients : down'[d] = IF d \notin joined THEN down[d]
                                    ELSE down[d] \o (IF d = c THEN g ELSE h)
  BY DEF Tell
<1>3. down' \in [Clients -> Seq(Down)]
  <2>1. \A d \in Clients : (IF d \notin joined THEN down[d]
                            ELSE down[d] \o (IF d = c THEN g ELSE h)) \in Seq(Down)
    OBVIOUS
  <2> QED BY <2>1 DEF Tell
<1>4. ASSUME NEW d \in joined, NEW e, d \in Clients
      PROVE  Has(e, down'[d]) <=> Has(e, down[d]) \/ Has(e, IF d = c THEN g ELSE h)
  <2>1. down'[d] = down[d] \o (IF d = c THEN g ELSE h)
    BY <1>2, <1>4
  <2> QED BY <1>1, <1>4, <2>1
<1> QED BY <1>2, <1>3, <1>4

-----------------------------------------------------------------------------
(* The steps of a client.                                                   *)

\* A frame that is sent, and one that is taken from its queue.
LEMMA SendHas ==
    ASSUME Shape, NEW c \in Clients, NEW e \in Up, Send(c, e)
    PROVE  /\ up' \in [Clients -> Seq(Up)]
           /\ \A d \in Clients \ {c} : up'[d] = up[d]
           /\ \A f : Has(f, up'[c]) <=> Has(f, up[c]) \/ e = f
<1>1. up[c] \in Seq(Up) /\ up'[c] = Append(up[c], e)
  BY DEF Send, Shape
<1>2. \A f : Has(f, up'[c]) <=> Has(f, up[c]) \/ e = f
  BY <1>1, HasAppend
<1> QED BY <1>2 DEF Send, Shape

LEMMA OpenStep == ASSUME IInv, NEW c \in Clients, Open(c) PROVE IInv'
<1>1. /\ joined' = joined \cup {c} /\ Send(c, "beacon")
      /\ UNCHANGED <<down, here, known, pending, completed>>
  BY DEF Open, reveal, server
<1>2. /\ up' \in [Clients -> Seq(Up)]
      /\ \A d \in Clients \ {c} : up'[d] = up[d]
      /\ Has("request", up'[c]) <=> Has("request", up[c])
  BY <1>1, SendHas DEF IInv, Up
<1>3. Shape'
  BY <1>1, <1>2 DEF IInv, Shape
<1>4. Silent'
  BY <1>1, <1>2 DEF IInv, Silent
<1>5. Met'
  <2>1. \A d \in Clients : Has("request", up'[d]) <=> Has("request", up[d])
    BY <1>2
  <2>2. joined = Clients => joined' = Clients
    BY <1>1
  <2> QED BY <1>1, <2>1, <2>2 DEF IInv, Met
<1>6. Flags' /\ Told'
  BY <1>1 DEF IInv, Flags, Told
<1> QED BY <1>3, <1>4, <1>5, <1>6 DEF IInv

\* A frame of an open room: the rest is as it was.
LEMMA SendStep ==
    ASSUME IInv, NEW c \in Clients, NEW e \in Up, here[c], Send(c, e),
           UNCHANGED <<joined, down, here, known, pending, completed>>
    PROVE  IInv'
<1>1. joined = Clients
  BY DEF IInv, Met
<1>2. up' \in [Clients -> Seq(Up)]
  BY SendHas DEF IInv
<1>3. Shape'
  BY <1>2 DEF IInv, Shape
<1>4. Silent' /\ Met'
  BY <1>1 DEF Silent, Met
<1>5. Flags' /\ Told'
  BY DEF IInv, Flags, Told
<1> QED BY <1>3, <1>4, <1>5 DEF IInv

LEMMA HearStep == ASSUME IInv, NEW c \in Clients, Hear(c) PROVE IInv'
<1>1. /\ down[c] # <<>> /\ down' = [down EXCEPT ![c] = Tail(@)]
      /\ UNCHANGED <<joined, pending, completed>>
  BY DEF Hear, server
<1>2. down[c] \in Seq(Down) /\ down' \in [Clients -> Seq(Down)] /\ c \in joined
  BY <1>1 DEF IInv, Shape, Silent
<1>3. /\ \A d \in Clients \ {c} : down'[d] = down[d]
      /\ \A f : Has(f, down[c]) <=> Head(down[c]) = f \/ Has(f, down'[c])
  <2>1. down'[c] = Tail(down[c])
    BY <1>1 DEF IInv, Shape
  <2>2. \A f : Has(f, down[c]) <=> Head(down[c]) = f \/ Has(f, Tail(down[c]))
    BY <1>1, <1>2, HasTail
  <2> QED BY <1>1, <2>1, <2>2 DEF IInv, Shape
<1>4. \A d \in Clients \ joined : down'[d] = <<>>
  BY <1>2, <1>3 DEF IInv, Silent
<1>5. CASE Head(down[c]) = "beacon"
  <2>1. NotePartner(c) /\ known' = known
    BY <1>5 DEF Hear, reveal
  <2>2. joined = Clients
    BY <1>3, <1>5 DEF IInv, Met
  <2>3. here' \in [Clients -> BOOLEAN]
    BY <2>1 DEF NotePartner, IInv, Shape
  <2>4. up' \in [Clients -> Seq(Up)]
    <3>1. up' = up \/ Send(c, "beacon")
      BY <2>1 DEF NotePartner
    <3>2. "beacon" \in Up
      BY DEF Up
    <3> QED BY <3>1, <3>2, SendHas DEF IInv, Shape
  <2>5. Shape'
    BY <1>1, <1>2, <2>3, <2>4 DEF IInv, Shape
  <2>6. Silent' /\ Met'
    BY <1>1, <2>2 DEF Silent, Met
  <2>7. Told'
    <3>1. \A d \in Clients : Has("success", down'[d]) <=> Has("success", down[d])
      BY <1>3, <1>5
    <3> QED BY <1>1, <2>1, <3>1 DEF IInv, Told
  <2> QED BY <1>1, <2>1, <2>5, <2>6, <2>7 DEF IInv, Flags
<1>6. CASE Head(down[c]) = "error"
  <2>1. UNCHANGED <<up, here, known>>
    BY <1>6 DEF Hear, reveal
  <2>2. Shape'
    BY <1>1, <1>2, <2>1 DEF IInv, Shape
  <2>3. Silent'
    BY <1>1, <1>4, <2>1 DEF IInv, Silent
  <2>4. Met'
    BY <1>1, <1>3, <2>1 DEF IInv, Met
  <2>5. Told'
    <3>1. \A d \in Clients : Has("success", down'[d]) <=> Has("success", down[d])
      BY <1>3, <1>6
    <3> QED BY <1>1, <2>1, <3>1 DEF IInv, Told
  <2> QED BY <1>1, <2>1, <2>2, <2>3, <2>4, <2>5 DEF IInv, Flags
<1>7. CASE Head(down[c]) \notin {"beacon", "error"}
  <2> DEFINE f == Head(down[c])
  <2>1. /\ UNCHANGED <<up, here>>
        /\ known' = [known EXCEPT ![c] = @ \/ f = "success"]
    BY <1>7 DEF Hear, HearAnswer
  <2>2. Shape'
    BY <1>1, <1>2, <2>1 DEF IInv, Shape
  <2>3. Silent'
    BY <1>1, <1>4, <2>1 DEF IInv, Silent
  <2>4. Met'
    BY <1>1, <1>3, <2>1 DEF IInv, Met
  <2>5. /\ \A d \in Clients \ {c} : known'[d] = known[d]
        /\ known'[c] <=> known[c] \/ f = "success"
        /\ known' \in [Clients -> BOOLEAN]
    BY <2>1 DEF IInv, Flags
  <2>6. Told'
    <3>1. \A d \in Clients : known'[d] \/ Has("success", down'[d])
                              <=> known[d] \/ Has("success", down[d])
      BY <1>3, <2>5
    <3> QED BY <1>1, <3>1 DEF IInv, Told
  <2> QED BY <1>1, <2>2, <2>3, <2>4, <2>5, <2>6 DEF IInv, Flags
<1> QED BY <1>5, <1>6, <1>7

LEMMA DismissStep == ASSUME IInv, NEW c \in Clients, Dismiss(c) PROVE IInv'
<1>1. UNCHANGED <<joined, up, down, here, known, pending, completed>>
  BY DEF Dismiss, net, server
<1> QED BY <1>1 DEF IInv, Shape, Flags, Silent, Met, Told

-----------------------------------------------------------------------------
(* The steps of the server.                                                 *)

\* A frame is taken from a client, and each of the two is told something or nothing.
\* What is told is a reveal only when it is recorded for a couple that has met.
LEMMA ServeTells ==
    ASSUME IInv, NEW c \in Clients, up[c] # <<>>, up' = [up EXCEPT ![c] = Tail(@)],
           NEW g, NEW h, g \in Seq(Down), h \in Seq(Down),
           g = <<>> \/ \E f \in Down : g = <<f>>, h = <<>> \/ \E f \in Down : h = <<f>>,
           Tell(c, g, h),
           UNCHANGED <<joined, here, known>>, completed' \in BOOLEAN,
           \/ joined = Clients
           \/ /\ ~ Has("beacon", g) /\ ~ Has("beacon", h)
              /\ pending' = pending /\ completed' = completed,
           \/ /\ ~ Has("success", g) /\ ~ Has("success", h)
              /\ completed' = completed
           \/ /\ Has("success", g) /\ Has("success", h)
              /\ completed' = TRUE /\ joined = Clients
    PROVE  IInv'
<1>1. up[c] \in Seq(Up) /\ up' \in [Clients -> Seq(Up)] /\ c \in joined
  BY DEF IInv, Shape, Silent
<1>2. /\ \A d \in Clients \ {c} : up'[d] = up[d]
      /\ Has("request", up'[c]) => Has("request", up[c])
  <2>1. up'[c] = Tail(up[c])
    BY DEF IInv, Shape
  <2>2. Has("request", Tail(up[c])) => Has("request", up[c])
    BY <1>1, HasTail
  <2> QED BY <2>1, <2>2 DEF IInv, Shape
<1>3. /\ down' \in [Clients -> Seq(Down)]
      /\ \A d \in Clients \ joined : down'[d] = down[d]
      /\ \A d \in joined : \A f : d \in Clients =>
           (Has(f, down'[d]) <=> Has(f, down[d]) \/ Has(f, IF d = c THEN g ELSE h))
  <2>1. down \in [Clients -> Seq(Down)]
    BY DEF IInv, Shape
  <2> QED BY <2>1, TellHas
<1>4. Shape'
  BY <1>1, <1>3 DEF IInv, Shape
<1>5. Silent'
  BY <1>1, <1>2, <1>3 DEF IInv, Silent
<1>6. Met'
  <2>1. CASE joined = Clients
    BY <2>1 DEF Met
  <2>2. CASE joined # Clients
    <3>1. \A d \in Clients : Has("beacon", down'[d]) <=> Has("beacon", down[d])
      <4>1. ~ Has("beacon", g) /\ ~ Has("beacon", h)
        BY <2>2
      <4>2. \A d \in Clients \ joined : Has("beacon", down'[d]) <=> Has("beacon", down[d])
        BY <1>3
      <4>3. \A d \in joined : d \in Clients =>
              (Has("beacon", down'[d]) <=> Has("beacon", down[d]))
        BY <1>3, <4>1
      <4> QED BY <4>2, <4>3
    <3>2. \A d \in Clients : Has("request", up'[d]) => Has("request", up[d])
      BY <1>2
    <3>3. pending' = pending /\ completed' = completed
      BY <2>2
    <3> QED BY <3>1, <3>2, <3>3 DEF IInv, Met
  <2> QED BY <2>1, <2>2
<1>7. Told'
  <2>1. CASE ~ Has("success", g) /\ ~ Has("success", h) /\ completed' = completed
    <3>1. \A d \in Clients \ joined : Has("success", down'[d]) <=> Has("success", down[d])
      BY <1>3
    <3>2. \A d \in joined : d \in Clients =>
            (Has("success", down'[d]) <=> Has("success", down[d]))
      BY <1>3, <2>1
    <3> QED BY <2>1, <3>1, <3>2 DEF IInv, Told
  <2>2. CASE Has("success", g) /\ Has("success", h) /\ completed' = TRUE /\ joined = Clients
    <3>1. \A d \in Clients : Has("success", down'[d])
      BY <1>3, <2>2
    <3> QED BY <2>2, <3>1 DEF Told
  <2> QED BY <2>1, <2>2
<1> QED BY <1>4, <1>5, <1>6, <1>7 DEF IInv, Flags

\* Nothing, or one frame.
LEMMA OneFrame ==
    /\ <<>> \in Seq(Down) /\ \A f : ~ Has(f, <<>>)
    /\ \A f \in Down : <<f>> \in Seq(Down) /\ \A e : Has(e, <<f>>) <=> f = e
<1>1. ASSUME NEW f \in Down, NEW e PROVE Has(e, <<f>>) <=> f = e
  BY DEF Has
<1> QED BY <1>1, HasEmpty

LEMMA ServeStep == ASSUME IInv, Couple, NEW c \in Clients, Serve(c) PROVE IInv'
<1>1. /\ up[c] # <<>> /\ up' = [up EXCEPT ![c] = Tail(@)] /\ c \in joined
      /\ UNCHANGED <<joined, here, known>>
  BY DEF Serve, reveal, IInv, Silent
<1>2. \A f \in {"beacon", "sent", "received", "success", "rejected", "error"} : f \in Down
  BY DEF Down
<1>3. completed \in BOOLEAN
  BY DEF IInv, Flags
<1>4. CASE Head(up[c]) = "beacon"
  <2>1. Tell(c, <<>>, <<"beacon">>) /\ UNCHANGED <<pending, completed>>
    BY <1>4 DEF Serve, server
  <2>2. CASE joined = Clients
    BY <1>1, <1>2, <1>3, <2>1, <2>2, ServeTells, OneFrame
  <2>3. CASE joined # Clients
    <3>1. \A d \in joined : d = c
      BY <1>1, <2>3 DEF Couple, IInv, Shape
    <3>2. \A d \in Clients : d \in joined => d = c
      BY <3>1
    <3>3. Tell(c, <<>>, <<>>)
      BY <2>1, <3>2 DEF Tell
    <3> QED BY <1>1, <1>2, <1>3, <2>1, <3>3, ServeTells, OneFrame
  <2> QED BY <2>2, <2>3
<1>5. CASE Head(up[c]) = "request"
  <2>1. Has("request", up[c])
    BY <1>1, <1>5, HasTail DEF IInv, Shape
  <2>2. joined = Clients
    BY <2>1 DEF IInv, Met
  <2>3. /\ Tell(c, <<"error">>, <<>>) \/ Tell(c, <<"sent">>, <<"received">>)
        /\ completed' = completed
    BY <1>5 DEF Serve, ServeRequest, server
  <2>4. CASE Tell(c, <<"error">>, <<>>)
    BY <1>1, <1>2, <1>3, <2>2, <2>3, <2>4, ServeTells, OneFrame
  <2>5. CASE Tell(c, <<"sent">>, <<"received">>)
    BY <1>1, <1>2, <1>3, <2>2, <2>3, <2>5, ServeTells, OneFrame
  <2> QED BY <2>3, <2>4, <2>5
<1>6. CASE Head(up[c]) \in {"accept", "reject"}
  <2>1. ServeResponse(c, Head(up[c]))
    BY <1>6 DEF Serve
  <2>2. CASE Other(c) \notin pending
    <3>1. Tell(c, <<"error">>, <<>>) /\ UNCHANGED <<pending, completed>>
      BY <2>1, <2>2 DEF ServeResponse, server
    <3> QED BY <1>1, <1>2, <1>3, <3>1, ServeTells, OneFrame
  <2>3. CASE Other(c) \in pending
    <3>1. joined = Clients
      BY <2>3 DEF IInv, Met
    <3>2. CASE Head(up[c]) = "accept"
      <4>1. Tell(c, <<"success">>, <<"success">>) /\ completed' = TRUE
        BY <2>1, <2>3, <3>2 DEF ServeResponse
      <4> QED BY <1>1, <1>2, <3>1, <4>1, ServeTells, OneFrame
    <3>3. CASE Head(up[c]) = "reject"
      <4>1. Tell(c, <<"rejected">>, <<"rejected">>) /\ completed' = completed
        BY <1>3, <2>1, <2>3, <3>3 DEF ServeResponse
      <4> QED BY <1>1, <1>2, <1>3, <3>1, <4>1, ServeTells, OneFrame
    <3> QED BY <1>6, <3>2, <3>3
  <2> QED BY <2>2, <2>3
<1> QED BY <1>4, <1>5, <1>6 DEF Serve

-----------------------------------------------------------------------------
(* The types of what the screens show.                                      *)

Phases == {"idle", "outgoing", "incoming", "accepted", "rejected"}
Screens ==
    /\ answered \in [Clients -> BOOLEAN] /\ phase \in [Clients -> Phases]
    /\ seen \in [Clients -> BOOLEAN] /\ clicking \in [Clients -> BOOLEAN]
    /\ responding \in [Clients -> {"none", "accept", "reject"}]
    /\ clicks \in [Clients -> 0 .. MaxClicks] /\ pending \subseteq Clients

\* A reveal frame, or the cross of a strip, leaves a phase behind.
LEMMA PhaseTyped ==
    ASSUME Screens, NEW c \in Clients, NEW p \in Phases, SetPhase(c, p)
    PROVE  /\ phase' \in [Clients -> Phases] /\ clicking' \in [Clients -> BOOLEAN]
           /\ responding' \in [Clients -> {"none", "accept", "reject"}]
<1>1. phase' \in [Clients -> Phases]
  BY DEF SetPhase, Screens
<1>2. clicking' \in [Clients -> BOOLEAN]
  <2>1. PICK v \in BOOLEAN : clicking' = [clicking EXCEPT ![c] = v]
    BY Zenon DEF SetPhase, PhaseEffects, Screens
  <2> QED BY <2>1 DEF Screens
<1>3. responding' \in [Clients -> {"none", "accept", "reject"}]
  <2>1. PICK v \in {"none", responding[c]} : responding' = [responding EXCEPT ![c] = v]
    BY DEF SetPhase, PhaseEffects
  <2>2. v \in {"none", "accept", "reject"}
    BY <2>1 DEF Screens
  <2> QED BY <2>1, <2>2 DEF Screens
<1> QED BY <1>1, <1>2, <1>3

LEMMA ScreensStep ==
    ASSUME MaxClicks \in Nat, IInv, Couple, Screens, [Next]_vars
    PROVE  Screens'
<1>1. ASSUME NEW c \in Clients, Hear(c) PROVE Screens'
  <2>1. UNCHANGED <<clicks, pending>> /\ Head(down[c]) \in Down
    BY <1>1 DEF Hear, server, IInv, Shape
  <2>2. CASE Head(down[c]) = "beacon" /\ NotePartner(c) /\ UNCHANGED <<reveal, busy>>
    BY <2>1, <2>2 DEF NotePartner, reveal, busy, Screens
  <2>3. CASE HearError(c) /\ UNCHANGED <<up, answered, here, reveal>>
    BY <2>1, <2>3 DEF HearError, reveal, Screens
  <2>4. CASE /\ Head(down[c]) \notin {"beacon", "error"} /\ HearAnswer(c, Head(down[c]))
             /\ UNCHANGED <<up, answered, here>>
    <3>1. PICK p \in Phases : SetPhase(c, p)
      BY <2>1, <2>4 DEF HearAnswer, Down, Phases
    <3>2. seen' \in [Clients -> BOOLEAN]
      <4>1. PICK v \in BOOLEAN : seen' = [seen EXCEPT ![c] = v]
        BY <2>4, Zenon DEF HearAnswer, Screens
      <4> QED BY <4>1 DEF Screens
    <3> QED BY <2>1, <2>4, <3>1, <3>2, PhaseTyped DEF Screens
  <2> QED BY <1>1, <2>2, <2>3, <2>4 DEF Hear
<1>2. ASSUME NEW c \in Clients, Dismiss(c) PROVE Screens'
  <2>1. UNCHANGED <<answered, clicks, pending>> /\ seen' = [seen EXCEPT ![c] = known[c]]
    BY <1>2 DEF Dismiss, net, server
  <2>2. seen' \in [Clients -> BOOLEAN]
    BY <2>1 DEF Screens, IInv, Flags
  <2>3. CASE UNCHANGED <<phase, busy>>
    BY <2>1, <2>2, <2>3 DEF Screens, busy
  <2>4. CASE SetPhase(c, "idle")
    <3>1. "idle" \in Phases
      BY DEF Phases
    <3> QED BY <2>1, <2>2, <2>4, <3>1, PhaseTyped DEF Screens
  <2> QED BY <1>2, <2>3, <2>4 DEF Dismiss
<1>3. ASSUME NEW c \in Clients,
             Request(c) \/ \E how \in {"accept", "reject"} : Respond(c, how)
      PROVE  Screens'
  <2>1. /\ clicks' = [clicks EXCEPT ![c] = @ - 1] /\ clicks[c] > 0
        /\ UNCHANGED <<answered, phase, seen, pending>>
    BY <1>3 DEF Request, Respond, Usable, reveal, server
  <2>2. clicks' \in [Clients -> 0 .. MaxClicks]
    BY <2>1 DEF Screens
  <2>3. clicking' \in [Clients -> BOOLEAN]
    BY <1>3 DEF Request, Respond, Screens
  <2>4. responding' \in [Clients -> {"none", "accept", "reject"}]
    BY <1>3 DEF Request, Respond, Screens
  <2> QED BY <2>1, <2>2, <2>3, <2>4 DEF Screens
<1>4. ASSUME NEW c \in Clients, Serve(c) PROVE Screens'
  <2>1. UNCHANGED <<answered, reveal, busy, clicks>>
    BY <1>4 DEF Serve
  <2>2. pending' \subseteq Clients
    BY <1>4 DEF Serve, ServeRequest, ServeResponse, server, Screens
  <2> QED BY <2>1, <2>2 DEF Screens, reveal, busy
<1>5. ASSUME NEW c \in Clients, Open(c) PROVE Screens'
  BY <1>5 DEF Open, Screens, reveal, busy, server
<1>6. CASE UNCHANGED vars
  BY <1>6 DEF vars, Screens, reveal, busy, server
<1> QED BY <1>1, <1>2, <1>3, <1>4, <1>5, <1>6 DEF Next

-----------------------------------------------------------------------------
(* The theorems.                                                            *)

LEMMA Begins == ASSUME Init PROVE IInv
<1>1. \A c \in Clients : up[c] = <<>> /\ down[c] = <<>> /\ ~ here[c] /\ ~ known[c]
  BY DEF Init, All
<1>2. Shape
  <2>1. up \in [Clients -> Seq(Up)] /\ down \in [Clients -> Seq(Down)]
    BY DEF Init, All
  <2>2. here \in [Clients -> BOOLEAN]
    BY DEF Init, All
  <2> QED BY <2>1, <2>2 DEF Init, Shape
<1>3. Flags
  <2>1. known \in [Clients -> BOOLEAN]
    BY DEF Init, All
  <2> QED BY <2>1 DEF Init, Flags
<1> QED BY <1>1, <1>2, <1>3, HasEmpty DEF Init, IInv, Silent, Met, Told

LEMMA Inductive == ASSUME IInv, Couple, [Next]_vars PROVE IInv'
<1>1. CASE UNCHANGED vars
  BY <1>1 DEF vars, net, reveal, server, IInv, Shape, Flags, Silent, Met, Told
<1>2. ASSUME NEW c \in Clients, Request(c) PROVE IInv'
  <2>1. /\ here[c] /\ Send(c, "request")
        /\ UNCHANGED <<joined, down, here, known, pending, completed>>
    BY <1>2 DEF Request, Usable, reveal, server
  <2>2. "request" \in Up
    BY DEF Up
  <2> QED BY <2>1, <2>2, SendStep
<1>3. ASSUME NEW c \in Clients, NEW how \in {"accept", "reject"}, Respond(c, how)
      PROVE  IInv'
  <2>1. /\ here[c] /\ Send(c, how)
        /\ UNCHANGED <<joined, down, here, known, pending, completed>>
    BY <1>3 DEF Respond, Usable, reveal, server
  <2>2. how \in Up
    BY DEF Up
  <2> QED BY <2>1, <2>2, SendStep
<1> QED BY <1>1, <1>2, <1>3, OpenStep, HearStep, DismissStep, ServeStep DEF Next

\* For any two clients and any number of clicks: nothing moves between sockets that are
\* not both open, and what a client knows of its partner follows what is recorded.
THEOREM PairInductive == ASSUME Couple PROVE Spec => []IInv
<1>1. Init => IInv
  BY Begins
<1>2. IInv /\ [Next]_vars => IInv'
  BY Inductive
<1> QED BY <1>1, <1>2, PTL DEF Spec

\* With nothing in flight, both clients know each other or neither does, and they do
\* exactly when the server has recorded the reveal (respond_to_reveal_request and the
\* reveal frames of useChatSocket.ts), crossing requests and answers included.
THEOREM RevealsAgree == ASSUME Couple PROVE Spec => []RevealAgrees
<1>1. IInv => RevealAgrees
  <2> SUFFICES ASSUME IInv, Quiet, NEW c \in Clients PROVE known[c] = completed
    BY DEF RevealAgrees
  <2>1. ~ Has("success", down[c])
    BY HasEmpty DEF Quiet
  <2>2. known[c] <=> completed
    BY <2>1 DEF IInv, Told
  <2> QED BY <2>2 DEF IInv, Flags
<1> QED BY <1>1, PairInductive, PTL

\* The queues, the screens and the server's record keep their types.
THEOREM PairTypeCorrect ==
    ASSUME Couple, MaxClicks \in Nat
    PROVE  Spec => []TypeOK
<1>1. Init => IInv /\ Screens
  <2> SUFFICES ASSUME Init PROVE Screens
    BY Begins
  <2>1. /\ answered = [c \in Clients |-> FALSE] /\ seen = [c \in Clients |-> FALSE]
        /\ clicking = [c \in Clients |-> FALSE] /\ phase = [c \in Clients |-> "idle"]
        /\ responding = [c \in Clients |-> "none"] /\ clicks = [c \in Clients |-> MaxClicks]
        /\ pending = {} /\ MaxClicks \in 0 .. MaxClicks
    BY DEF Init, All
  <2> QED BY <2>1 DEF Screens, Phases
<1>2. IInv /\ Screens /\ [Next]_vars => (IInv /\ Screens)'
  BY Inductive, ScreensStep
<1>3. IInv /\ Screens => TypeOK
  BY DEF IInv, Shape, Flags, Screens, Phases, TypeOK
<1> QED BY <1>1, <1>2, <1>3, PTL DEF Spec
=============================================================================
