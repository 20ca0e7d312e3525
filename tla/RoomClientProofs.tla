-------------------------- MODULE RoomClientProofs --------------------------
(***************************************************************************)
(* Theorems about the screens of a private chat, one at a time: a step of   *)
(* another screen is a stutter.  What is proved of the search, of the game  *)
(* and of the two clients of a room holds here, and the transcript, what is *)
(* said beside it and the ways out have their invariants in this module.    *)
(***************************************************************************)
EXTENDS RoomClient, SequenceTheorems, TLAPS

-----------------------------------------------------------------------------
\* Each screen runs as its module says, whatever the others do.
LEMMA SearchAlone == Spec => Search!Spec
<1>1. Init => Search!Init
  BY DEF Init
<1>2. [Next]_vars => [Search!Next]_Search!vars
  <2> SUFFICES ASSUME [Next]_vars PROVE [Search!Next]_Search!vars
    OBVIOUS
  <2>1. CASE UNCHANGED vars
    BY <2>1 DEF vars
  <2>2. CASE focus = "search" /\ Search!Next /\ UNCHANGED SearchRest
    BY <2>2
  <2>3. CASE focus = "game" /\ Game!Next /\ UNCHANGED GameRest
    BY <2>3 DEF GameRest, Search!vars, Search!client, Search!net, Search!server
  <2>4. CASE focus = "exit" /\ Exit!Next /\ UNCHANGED ExitRest
    BY <2>4 DEF ExitRest, Search!vars, Search!client, Search!net, Search!server
  <2>5. CASE focus = "pair" /\ Pair!Next /\ UNCHANGED PairRest
    BY <2>5 DEF PairRest, Search!vars, Search!client, Search!net, Search!server
  <2>6. CASE focus = "timeline" /\ Timeline!Next /\ UNCHANGED TimelineRest
    BY <2>6 DEF TimelineRest, Search!vars, Search!client, Search!net, Search!server
  <2>7. CASE focus = "talk" /\ Talk!Next /\ UNCHANGED TalkRest
    BY <2>7 DEF TalkRest, Search!vars, Search!client, Search!net, Search!server
  <2> QED BY <2>1, <2>2, <2>3, <2>4, <2>5, <2>6, <2>7 DEF Next
<1> QED BY <1>1, <1>2, PTL DEF Spec, Search!Spec

LEMMA GameAlone == Spec => Game!Spec
<1>1. Init => Game!Init
  BY DEF Init
<1>2. [Next]_vars => [Game!Next]_Game!vars
  <2> SUFFICES ASSUME [Next]_vars PROVE [Game!Next]_Game!vars
    OBVIOUS
  <2>1. CASE UNCHANGED vars
    BY <2>1 DEF vars
  <2>2. CASE focus = "search" /\ Search!Next /\ UNCHANGED SearchRest
    BY <2>2 DEF SearchRest, Game!vars, Game!tower
  <2>3. CASE focus = "game" /\ Game!Next /\ UNCHANGED GameRest
    BY <2>3
  <2>4. CASE focus = "exit" /\ Exit!Next /\ UNCHANGED ExitRest
    BY <2>4 DEF ExitRest, Game!vars, Game!tower
  <2>5. CASE focus = "pair" /\ Pair!Next /\ UNCHANGED PairRest
    BY <2>5 DEF PairRest, Game!vars, Game!tower
  <2>6. CASE focus = "timeline" /\ Timeline!Next /\ UNCHANGED TimelineRest
    BY <2>6 DEF TimelineRest, Game!vars, Game!tower
  <2>7. CASE focus = "talk" /\ Talk!Next /\ UNCHANGED TalkRest
    BY <2>7 DEF TalkRest, Game!vars, Game!tower
  <2> QED BY <2>1, <2>2, <2>3, <2>4, <2>5, <2>6, <2>7 DEF Next
<1> QED BY <1>1, <1>2, PTL DEF Spec, Game!Spec

LEMMA PairAlone == Spec => Pair!Spec
<1>1. Init => Pair!Init
  BY DEF Init
<1>2. [Next]_vars => [Pair!Next]_Pair!vars
  <2> SUFFICES ASSUME [Next]_vars PROVE [Pair!Next]_Pair!vars
    OBVIOUS
  <2>1. CASE UNCHANGED vars
    BY <2>1 DEF vars
  <2>2. CASE focus = "search" /\ Search!Next /\ UNCHANGED SearchRest
    BY <2>2 DEF SearchRest, Pair!vars, Pair!net, Pair!reveal, Pair!busy, Pair!server
  <2>3. CASE focus = "game" /\ Game!Next /\ UNCHANGED GameRest
    BY <2>3 DEF GameRest, Pair!vars, Pair!net, Pair!reveal, Pair!busy, Pair!server
  <2>4. CASE focus = "exit" /\ Exit!Next /\ UNCHANGED ExitRest
    BY <2>4 DEF ExitRest, Pair!vars, Pair!net, Pair!reveal, Pair!busy, Pair!server
  <2>5. CASE focus = "pair" /\ Pair!Next /\ UNCHANGED PairRest
    BY <2>5
  <2>6. CASE focus = "timeline" /\ Timeline!Next /\ UNCHANGED TimelineRest
    BY <2>6 DEF TimelineRest, Pair!vars, Pair!net, Pair!reveal, Pair!busy, Pair!server
  <2>7. CASE focus = "talk" /\ Talk!Next /\ UNCHANGED TalkRest
    BY <2>7 DEF TalkRest, Pair!vars, Pair!net, Pair!reveal, Pair!busy, Pair!server
  <2> QED BY <2>1, <2>2, <2>3, <2>4, <2>5, <2>6, <2>7 DEF Next
<1> QED BY <1>1, <1>2, PTL DEF Spec, Pair!Spec

LEMMA TimelineAlone == Spec => Timeline!Spec
<1>1. Init => Timeline!Init
  BY DEF Init
<1>2. [Next]_vars => [Timeline!Next]_Timeline!vars
  <2> SUFFICES ASSUME [Next]_vars PROVE [Timeline!Next]_Timeline!vars
    OBVIOUS
  <2>1. CASE UNCHANGED vars
    BY <2>1 DEF vars
  <2>2. CASE focus = "search" /\ Search!Next /\ UNCHANGED SearchRest
    BY <2>2 DEF SearchRest, Timeline!vars, Timeline!net, Timeline!view, Timeline!counts
  <2>3. CASE focus = "game" /\ Game!Next /\ UNCHANGED GameRest
    BY <2>3 DEF GameRest, Timeline!vars, Timeline!net, Timeline!view, Timeline!counts
  <2>4. CASE focus = "exit" /\ Exit!Next /\ UNCHANGED ExitRest
    BY <2>4 DEF ExitRest, Timeline!vars, Timeline!net, Timeline!view, Timeline!counts
  <2>5. CASE focus = "pair" /\ Pair!Next /\ UNCHANGED PairRest
    BY <2>5 DEF PairRest, Timeline!vars, Timeline!net, Timeline!view, Timeline!counts
  <2>6. CASE focus = "timeline" /\ Timeline!Next /\ UNCHANGED TimelineRest
    BY <2>6
  <2>7. CASE focus = "talk" /\ Talk!Next /\ UNCHANGED TalkRest
    BY <2>7 DEF TalkRest, Timeline!vars, Timeline!net, Timeline!view, Timeline!counts
  <2> QED BY <2>1, <2>2, <2>3, <2>4, <2>5, <2>6, <2>7 DEF Next
<1> QED BY <1>1, <1>2, PTL DEF Spec, Timeline!Spec

LEMMA TalkAlone == Spec => Talk!Spec
<1>1. Init => Talk!Init
  BY DEF Init
<1>2. [Next]_vars => [Talk!Next]_Talk!vars
  <2> SUFFICES ASSUME [Next]_vars PROVE [Talk!Next]_Talk!vars
    OBVIOUS
  <2>1. CASE UNCHANGED vars
    BY <2>1 DEF vars
  <2>2. CASE focus = "search" /\ Search!Next /\ UNCHANGED SearchRest
    BY <2>2 DEF SearchRest, Talk!vars, Talk!typing, Talk!gesture, Talk!partner
  <2>3. CASE focus = "game" /\ Game!Next /\ UNCHANGED GameRest
    BY <2>3 DEF GameRest, Talk!vars, Talk!typing, Talk!gesture, Talk!partner
  <2>4. CASE focus = "exit" /\ Exit!Next /\ UNCHANGED ExitRest
    BY <2>4 DEF ExitRest, Talk!vars, Talk!typing, Talk!gesture, Talk!partner
  <2>5. CASE focus = "pair" /\ Pair!Next /\ UNCHANGED PairRest
    BY <2>5 DEF PairRest, Talk!vars, Talk!typing, Talk!gesture, Talk!partner
  <2>6. CASE focus = "timeline" /\ Timeline!Next /\ UNCHANGED TimelineRest
    BY <2>6 DEF TimelineRest, Talk!vars, Talk!typing, Talk!gesture, Talk!partner
  <2>7. CASE focus = "talk" /\ Talk!Next /\ UNCHANGED TalkRest
    BY <2>7
  <2> QED BY <2>1, <2>2, <2>3, <2>4, <2>5, <2>6, <2>7 DEF Next
<1> QED BY <1>1, <1>2, PTL DEF Spec, Talk!Spec

LEMMA ExitAlone == Spec => Exit!Spec
<1>1. Init => Exit!Init
  BY DEF Init
<1>2. [Next]_vars => [Exit!Next]_Exit!vars
  <2> SUFFICES ASSUME [Next]_vars PROVE [Exit!Next]_Exit!vars
    OBVIOUS
  <2>1. CASE UNCHANGED vars
    BY <2>1 DEF vars
  <2>2. CASE focus = "search" /\ Search!Next /\ UNCHANGED SearchRest
    BY <2>2 DEF SearchRest, Exit!vars, Exit!server, Exit!hook, Exit!flags, Exit!modals
  <2>3. CASE focus = "game" /\ Game!Next /\ UNCHANGED GameRest
    BY <2>3 DEF GameRest, Exit!vars, Exit!server, Exit!hook, Exit!flags, Exit!modals
  <2>4. CASE focus = "exit" /\ Exit!Next /\ UNCHANGED ExitRest
    BY <2>4
  <2>5. CASE focus = "pair" /\ Pair!Next /\ UNCHANGED PairRest
    BY <2>5 DEF PairRest, Exit!vars, Exit!server, Exit!hook, Exit!flags, Exit!modals
  <2>6. CASE focus = "timeline" /\ Timeline!Next /\ UNCHANGED TimelineRest
    BY <2>6 DEF TimelineRest, Exit!vars, Exit!server, Exit!hook, Exit!flags, Exit!modals
  <2>7. CASE focus = "talk" /\ Talk!Next /\ UNCHANGED TalkRest
    BY <2>7 DEF TalkRest, Exit!vars, Exit!server, Exit!hook, Exit!flags, Exit!modals
  <2> QED BY <2>1, <2>2, <2>3, <2>4, <2>5, <2>6, <2>7 DEF Next
<1> QED BY <1>1, <1>2, PTL DEF Spec, Exit!Spec


-----------------------------------------------------------------------------
(* The transcript (RoomTimeline): its types.                                *)

Drafted == {Timeline!Draft(i) : i \in 1 .. MaxSends}

\* What the layout effect leaves of the view.
LEMMA FollowTyped ==
    ASSUME Timeline!TypeOK, NEW ms \in Seq(Timeline!Message), NEW ds \in Seq(1 .. MaxSends),
           Timeline!Follow(ms, ds)
    PROVE  /\ tail' \in Timeline!Message \cup {Timeline!None} \cup Drafted
           /\ near' \in BOOLEAN /\ atBottom' \in BOOLEAN /\ scrolled' \in BOOLEAN
           /\ unseen' \in Nat
<1> DEFINE t == Timeline!Newest(ms, ds)
<1>1. t \in Timeline!Message \cup {Timeline!None} \cup Drafted
  <2>1. CASE ds # <<>>
    <3>1. Len(ds) \in 1 .. Len(ds) /\ Timeline!Last(ds) = ds[Len(ds)]
      BY <2>1 DEF Timeline!Last
    <3>2. Timeline!Last(ds) \in 1 .. MaxSends
      BY <3>1, ScreensAssumption
    <3> QED BY <2>1, <3>2 DEF Timeline!Newest, Drafted
  <2>2. CASE ds = <<>> /\ ms # <<>>
    <3>1. Len(ms) \in 1 .. Len(ms) /\ Timeline!Last(ms) = ms[Len(ms)]
      BY <2>2 DEF Timeline!Last
    <3> QED BY <2>2, <3>1 DEF Timeline!Newest
  <2> QED BY <2>1, <2>2 DEF Timeline!Newest
<1>2. tail' = IF t = Timeline!None THEN tail ELSE t
  BY DEF Timeline!Follow
<1>3. CASE t = Timeline!None \/ t = tail
  <2>1. UNCHANGED <<near, unseen, scrolled>> /\ atBottom' = (atBottom /\ ms = messages)
    BY <1>3 DEF Timeline!Follow
  <2>2. atBottom' \in BOOLEAN
    BY <2>1
  <2> QED BY <1>1, <1>2, <2>1, <2>2 DEF Timeline!TypeOK, Drafted
<1>4. CASE t # Timeline!None /\ t # tail
  <2>1. unseen \in Nat /\ near \in BOOLEAN /\ atBottom \in BOOLEAN /\ scrolled \in BOOLEAN
    BY DEF Timeline!TypeOK
  <2>2. \/ near' = TRUE /\ atBottom' = TRUE /\ scrolled' = TRUE /\ UNCHANGED unseen
        \/ /\ unseen' = IF t[1] = "partner" THEN unseen + 1 ELSE unseen
           /\ UNCHANGED <<near, atBottom, scrolled>>
    BY <1>4 DEF Timeline!Follow
  <2>3. tail' = t
    BY <1>2, <1>4
  <2>4. unseen' \in Nat
    BY <2>1, <2>2, <2>3
  <2> QED BY <1>1, <2>1, <2>2, <2>3, <2>4 DEF Timeline!TypeOK
<1> QED BY <1>3, <1>4

\* What is shown next has the types of a transcript.
LEMMA ShowTyped ==
    ASSUME Timeline!TypeOK, NEW ms \in Seq(Timeline!Message),
           NEW ds \in Seq(1 .. MaxSends), Timeline!Show(ms, ds),
           inbox' \in Seq(0 .. MaxSends), layer' \in Seq(Timeline!Message),
           timelineWire' \in Seq(Timeline!Message \cup {Timeline!Error}),
           timelineLine' \in {"open", "closing", "closed"},
           sent' \in 0 .. MaxSends, partnerSent' \in 0 .. MaxPartner,
           reveals' \in 0 .. MaxReveals
    PROVE  Timeline!TypeOK'
BY FollowTyped DEF Timeline!Show, Timeline!TypeOK, Drafted

LEMMA RetiredTyped ==
    ASSUME Timeline!TypeOK
    PROVE  Timeline!Retired \in Seq(1 .. MaxSends)
<1>1. CASE drafts = <<>>
  BY <1>1 DEF Timeline!Retired
<1>2. CASE drafts # <<>>
  BY <1>2 DEF Timeline!Retired, Timeline!TypeOK
<1> QED BY <1>1, <1>2

\* A step keeps the types.
LEMMA TimelineTyped ==
    ASSUME Timeline!TypeOK, [Timeline!Next]_Timeline!vars
    PROVE  Timeline!TypeOK'
<1> USE ScreensAssumption
<1>1. CASE Timeline!Send
  <2>1. sent + 1 \in 1 .. MaxSends /\ sent' = sent + 1
        /\ UNCHANGED <<layer, timelineWire, timelineLine, partnerSent, reveals>>
    BY <1>1 DEF Timeline!Send, Timeline!TypeOK
  <2>2. CASE timelineLine = "open"
    <3>1. Append(inbox, sent + 1) \in Seq(0 .. MaxSends)
          /\ Append(drafts, sent + 1) \in Seq(1 .. MaxSends)
      BY <2>1 DEF Timeline!TypeOK
    <3>2. /\ inbox' = Append(inbox, sent + 1)
          /\ Timeline!Show(messages, Append(drafts, sent + 1))
      BY <1>1, <2>2 DEF Timeline!Send
    <3>3. /\ messages \in Seq(Timeline!Message) /\ layer' \in Seq(Timeline!Message)
          /\ timelineWire' \in Seq(Timeline!Message \cup {Timeline!Error})
             /\ timelineLine' \in {"open", "closing", "closed"}
          /\ sent' \in 0 .. MaxSends /\ partnerSent' \in 0 .. MaxPartner
          /\ reveals' \in 0 .. MaxReveals
      BY <2>1 DEF Timeline!TypeOK
    <3> QED BY <3>1, <3>2, <3>3, ShowTyped
  <2>3. CASE timelineLine # "open"
    BY <1>1, <2>1, <2>3 DEF Timeline!Send, Timeline!TypeOK, Timeline!view
  <2> QED BY <2>2, <2>3
<1>2. CASE Timeline!Reveal
  BY <1>2 DEF Timeline!Reveal, Timeline!TypeOK, Timeline!view
<1>3. CASE Timeline!Scroll
  <2>1. atBottom' = ~ atBottom /\ scrolled' = TRUE
        /\ UNCHANGED <<Timeline!net, drafts, messages, tail, near, unseen, Timeline!counts>>
    BY <1>3 DEF Timeline!Scroll
  <2>2. atBottom' \in BOOLEAN
    BY <2>1
  <2> QED BY <2>1, <2>2 DEF Timeline!TypeOK, Timeline!net, Timeline!counts
<1>4. CASE Timeline!ScrollEvent
  <2>1. near' = atBottom /\ scrolled' = FALSE /\ unseen' \in {0, unseen}
        /\ UNCHANGED <<Timeline!net, drafts, messages, tail, atBottom, Timeline!counts>>
    BY <1>4 DEF Timeline!ScrollEvent
  <2>2. unseen' \in Nat
    BY <2>1 DEF Timeline!TypeOK
  <2> QED BY <2>1, <2>2 DEF Timeline!TypeOK, Timeline!net, Timeline!counts
<1>5. CASE Timeline!JumpDown
  BY <1>5 DEF Timeline!JumpDown, Timeline!TypeOK, Timeline!net, Timeline!counts
<1>6. CASE Timeline!Serve
  <2>1. Tail(inbox) \in Seq(0 .. MaxSends) /\ Head(inbox) \in 0 .. MaxSends
    BY <1>6 DEF Timeline!Serve, Timeline!TypeOK
  <2>2. Head(inbox) # 0 => Timeline!Mine(Head(inbox)) \in Timeline!Message
    BY <2>1 DEF Timeline!Message
  <2>3. /\ inbox' = Tail(inbox)
           /\ UNCHANGED <<timelineLine, drafts, messages, Timeline!view, Timeline!counts>>
        /\ \/ Head(inbox) # 0 /\ layer' = Append(layer, Timeline!Mine(Head(inbox)))
              /\ UNCHANGED timelineWire
           \/ timelineWire' = Append(timelineWire, Timeline!Error) /\ UNCHANGED layer
    BY <1>6 DEF Timeline!Serve
  <2>4. layer' \in Seq(Timeline!Message)
        /\ timelineWire' \in Seq(Timeline!Message \cup {Timeline!Error})
    <3>1. /\ layer \in Seq(Timeline!Message)
             /\ timelineWire \in Seq(Timeline!Message \cup {Timeline!Error})
          /\ Timeline!Error \in Timeline!Message \cup {Timeline!Error}
      BY DEF Timeline!TypeOK
    <3>2. CASE Head(inbox) # 0 /\ layer' = Append(layer, Timeline!Mine(Head(inbox)))
               /\ UNCHANGED timelineWire
      BY <2>2, <3>1, <3>2
    <3>3. CASE timelineWire' = Append(timelineWire, Timeline!Error) /\ UNCHANGED layer
      BY <3>1, <3>3
    <3> QED BY <2>3, <3>2, <3>3
  <2> QED BY <2>1, <2>3, <2>4 DEF Timeline!TypeOK, Timeline!view, Timeline!counts
<1>7. CASE Timeline!Relay
  <2>1. Tail(layer) \in Seq(Timeline!Message) /\ Head(layer) \in Timeline!Message
    BY <1>7 DEF Timeline!Relay, Timeline!TypeOK
  <2> QED BY <1>7, <2>1 DEF Timeline!Relay, Timeline!TypeOK, Timeline!view,
             Timeline!counts
<1>8. CASE Timeline!Receive
  <2>1. /\ Tail(timelineWire) \in Seq(Timeline!Message \cup {Timeline!Error})
           /\ Head(timelineWire) \in Timeline!Message
        /\ Append(messages, Head(timelineWire)) \in Seq(Timeline!Message)
    BY <1>8 DEF Timeline!Receive, Timeline!TypeOK
  <2>2. PICK ds \in Seq(1 .. MaxSends) : Timeline!Show(Append(messages,
        Head(timelineWire)), ds)
    BY <1>8, RetiredTyped DEF Timeline!Receive, Timeline!TypeOK
  <2> QED BY <1>8, <2>1, <2>2, ShowTyped DEF Timeline!Receive, Timeline!TypeOK,
             Timeline!counts
<1>9. CASE Timeline!HandleServerError
  <2>1. Tail(timelineWire) \in Seq(Timeline!Message \cup {Timeline!Error})
    BY <1>9 DEF Timeline!HandleServerError, Timeline!TypeOK
  <2> QED BY <1>9, <2>1, ShowTyped, RetiredTyped DEF Timeline!HandleServerError,
             Timeline!TypeOK, Timeline!counts
<1>10. CASE Timeline!Closed
  <2>1. <<>> \in Seq(0 .. MaxSends) /\ <<>> \in Seq(Timeline!Message)
        /\ <<>> \in Seq(1 .. MaxSends)
    OBVIOUS
  <2> QED BY <1>10, <2>1, ShowTyped DEF Timeline!Closed, Timeline!TypeOK, Timeline!counts
<1>11. CASE Timeline!PartnerSends
  <2>1. partnerSent + 1 \in 1 .. MaxPartner
    BY <1>11 DEF Timeline!PartnerSends, Timeline!TypeOK
  <2>2. Timeline!Theirs(partnerSent + 1) \in Timeline!Message
    BY <2>1 DEF Timeline!Message
  <2> QED BY <1>11, <2>1, <2>2 DEF Timeline!PartnerSends, Timeline!TypeOK, Timeline!view
<1>12. CASE Timeline!Close
  BY <1>12 DEF Timeline!Close, Timeline!TypeOK, Timeline!view, Timeline!counts
<1>13. CASE UNCHANGED Timeline!vars
  BY <1>13 DEF Timeline!vars, Timeline!net, Timeline!view, Timeline!counts,
     Timeline!TypeOK
<1> QED BY <1>1, <1>2, <1>3, <1>4, <1>5, <1>6, <1>7, <1>8, <1>9, <1>10, <1>11, <1>12,
           <1>13
    DEF Timeline!Next, Timeline!User, Timeline!Server, Timeline!Client

-----------------------------------------------------------------------------
(* The transcript: a draft and its answer.                                  *)

\* A frame e that retires the drafts up to the b-th where those up to the a-th were
\* retired before it: a refusal or an own message may retire one, and a message itself.
Retires(e, a, b) ==
    /\ b \in {a, a + 1}
    /\ e[1] = "partner" => b = a
    /\ e[1] = "own" => e[2] \in 1 .. b

\* The frame of a draft, or a reveal, on its way to the server.
Asks(e, a, b) == b \in {a, a + 1} /\ e \in 0 .. b

\* When the frames of s up to the k-th are read, at least the drafts up to f[k] are
\* retired, of m that were sent.
Paced(s, f, m) ==
    /\ \A k \in 0 .. Len(s) : f[k] \in 0 .. m
    /\ \A j, k \in 0 .. Len(s) : j <= k => f[j] <= f[k]
    /\ \A k \in 1 .. Len(s) : Retires(s[k], f[k - 1], f[k])

\* The frames on their way to the server will all be answered.
Asked(s, f, m) ==
    /\ \A k \in 0 .. Len(s) : f[k] \in 0 .. m
    /\ \A j, k \in 0 .. Len(s) : j <= k => f[j] <= f[k]
    /\ \A k \in 1 .. Len(s) : Asks(s[k], f[k - 1], f[k])

\* What is drawn: drafts in the order of their sending, all of them later than the own
\* messages among the confirmed ones.
Drawn(ds, ms, n, m) ==
    /\ \A k \in 1 .. Len(ds) : ds[k] \in n + 1 .. m
    /\ \A j, k \in 1 .. Len(ds) : j < k => ds[j] < ds[k]
    /\ \A k \in 1 .. Len(ms) : ms[k][1] = "own" => ms[k][2] \in 1 .. n

\* The drafts, the socket's frames, the broadcasts and the frames to the server follow
\* one another.
Following(f, g, h) ==
    /\ Paced(timelineWire, f, sent) /\ Paced(layer, g, sent) /\ Asked(inbox, h, sent)
    /\ Drawn(drafts, messages, f[0], sent) /\ f[Len(timelineWire)] = g[0]
       /\ g[Len(layer)] = h[0]
    /\ timelineLine = "open" => h[Len(inbox)] = sent
Answered == \E f, g, h : Following(f, g, h)

\* One frame of a sequence is read, or one more is on its way.
Later(f, n) == [k \in 0 .. n - 1 |-> f[k + 1]]
Longer(f, n, v) == [k \in 0 .. n + 1 |-> IF k = n + 1 THEN v ELSE f[k]]

LEMMA PacedTail ==
    ASSUME NEW S, NEW s \in Seq(S), s # <<>>, NEW f, NEW m \in Nat, Paced(s, f, m)
    PROVE  /\ Paced(Tail(s), Later(f, Len(s)), m)
           /\ Later(f, Len(s))[0] = f[1] /\ Later(f, Len(s))[Len(Tail(s))] = f[Len(s)]
<1> DEFINE n == Len(s)
           t == Tail(s)
           g == Later(f, n)
<1>1. n \in Nat \ {0} /\ Len(t) = n - 1 /\ \A k \in 1 .. n - 1 : t[k] = s[k + 1]
  OBVIOUS
<1>2. \A k \in 0 .. n : f[k] \in 0 .. m /\ f[k] \in Nat
  BY DEF Paced
<1>3. \A k \in 0 .. n - 1 : g[k] = f[k + 1] /\ g[k] \in 0 .. m
  BY <1>1, <1>2 DEF Later
<1>4. \A j, k \in 0 .. n - 1 : j <= k => g[j] <= g[k]
  BY <1>1, <1>3 DEF Paced
<1>5. ASSUME NEW k \in 1 .. n - 1
      PROVE  Retires(t[k], g[k - 1], g[k])
  <2>1. g[k] = f[k + 1] /\ g[k - 1] = f[k] /\ t[k] = s[k + 1] /\ k + 1 \in 1 .. n
        /\ k + 1 - 1 = k
    BY <1>1, <1>3
  <2> QED BY <2>1 DEF Paced
<1>6. g[0] = f[1] /\ g[n - 1] = f[n]
  BY <1>1, <1>3
<1> HIDE DEF g, t, n
<1> QED BY <1>1, <1>3, <1>4, <1>5, <1>6 DEF Paced, g, t, n

LEMMA AskedTail ==
    ASSUME NEW S, NEW s \in Seq(S), s # <<>>, NEW f, NEW m \in Nat, Asked(s, f, m)
    PROVE  /\ Asked(Tail(s), Later(f, Len(s)), m)
           /\ Later(f, Len(s))[0] = f[1] /\ Later(f, Len(s))[Len(Tail(s))] = f[Len(s)]
<1> DEFINE n == Len(s)
           t == Tail(s)
           g == Later(f, n)
<1>1. n \in Nat \ {0} /\ Len(t) = n - 1 /\ \A k \in 1 .. n - 1 : t[k] = s[k + 1]
  OBVIOUS
<1>2. \A k \in 0 .. n : f[k] \in 0 .. m /\ f[k] \in Nat
  BY DEF Asked
<1>3. \A k \in 0 .. n - 1 : g[k] = f[k + 1] /\ g[k] \in 0 .. m
  BY <1>1, <1>2 DEF Later
<1>4. \A j, k \in 0 .. n - 1 : j <= k => g[j] <= g[k]
  BY <1>1, <1>3 DEF Asked
<1>5. ASSUME NEW k \in 1 .. n - 1
      PROVE  Asks(t[k], g[k - 1], g[k])
  <2>1. g[k] = f[k + 1] /\ g[k - 1] = f[k] /\ t[k] = s[k + 1] /\ k + 1 \in 1 .. n
        /\ k + 1 - 1 = k
    BY <1>1, <1>3
  <2> QED BY <2>1 DEF Asked
<1>6. g[0] = f[1] /\ g[n - 1] = f[n]
  BY <1>1, <1>3
<1> HIDE DEF g, t, n
<1> QED BY <1>1, <1>3, <1>4, <1>5, <1>6 DEF Asked, g, t, n

LEMMA PacedAppend ==
    ASSUME NEW S, NEW s \in Seq(S), NEW f, NEW m \in Nat, Paced(s, f, m), NEW e,
           NEW v \in 0 .. m,
           Retires(e, f[Len(s)], v)
    PROVE  /\ Paced(Append(s, e), Longer(f, Len(s), v), m)
           /\ Longer(f, Len(s), v)[0] = f[0] /\ Longer(f, Len(s), v)[Len(Append(s, e))] = v
<1> DEFINE n == Len(s)
           t == Append(s, e)
           g == Longer(f, n, v)
<1>1. /\ n \in Nat /\ Len(t) = n + 1 /\ t[n + 1] = e
      /\ \A k \in 1 .. n : t[k] = s[k]
  OBVIOUS
<1>2. \A k \in 0 .. n : f[k] \in 0 .. m /\ f[k] \in Nat
  BY DEF Paced
<1>3. /\ \A k \in 0 .. n + 1 : g[k] \in 0 .. m
      /\ g[n + 1] = v
      /\ \A k \in 0 .. n : g[k] = f[k]
  BY <1>1, <1>2 DEF Longer
<1>4. \A j, k \in 0 .. n + 1 : j <= k => g[j] <= g[k]
  <2>1. \A j, k \in 0 .. n : j <= k => g[j] <= g[k]
    BY <1>3 DEF Paced
  <2>2. \A j \in 0 .. n : g[j] <= v
    <3>1. \A j \in 0 .. n : f[j] <= f[n]
      BY <1>1 DEF Paced
    <3>2. f[n] <= v /\ f[n] \in Nat /\ v \in Nat
      BY <1>1, <1>2 DEF Retires
    <3> QED BY <1>1, <1>2, <1>3, <3>1, <3>2
  <2>3. ASSUME NEW j \in 0 .. n + 1, NEW k \in 0 .. n + 1, j <= k PROVE g[j] <= g[k]
    <3>1. CASE k = n + 1
      <4>1. j = n + 1 \/ j \in 0 .. n
        BY <1>1
      <4> QED BY <1>3, <2>2, <3>1, <4>1
    <3>2. CASE k # n + 1
      <4>1. k \in 0 .. n /\ j \in 0 .. n
        BY <1>1, <2>3, <3>2
      <4> QED BY <2>1, <2>3, <4>1
    <3> QED BY <3>1, <3>2
  <2> QED BY <2>3
<1>5. ASSUME NEW k \in 1 .. n + 1
      PROVE  Retires(t[k], g[k - 1], g[k])
  <2>1. CASE k = n + 1
    BY <1>1, <1>3, <2>1
  <2>2. CASE k \in 1 .. n
    <3>1. g[k] = f[k] /\ g[k - 1] = f[k - 1] /\ t[k] = s[k]
      BY <1>1, <1>3, <2>2
    <3> QED BY <2>2, <3>1 DEF Paced
  <2> QED BY <1>1, <2>1, <2>2
<1>6. g[0] = f[0]
  BY <1>1, <1>3
<1> HIDE DEF g, t, n
<1> QED BY <1>1, <1>3, <1>4, <1>5, <1>6 DEF Paced, g, t, n

\* With one more message of this user on its way, the bound on what is retired grows.
LEMMA PacedLift ==
    ASSUME NEW s, NEW f, NEW m \in Nat, Paced(s, f, m), NEW d \in {0, 1}, Len(s) \in Nat,
           f[Len(s)] + d <= m
    PROVE  Paced(s, [k \in 0 .. Len(s) |-> f[k] + d], m)
<1> DEFINE n == Len(s)
           g == [k \in 0 .. n |-> f[k] + d]
<1>1. \A k \in 0 .. n : f[k] \in 0 .. m
  BY DEF Paced
<1>2. \A k \in 0 .. n : f[k] \in Nat /\ g[k] = f[k] + d /\ f[k] <= f[n]
  BY <1>1 DEF Paced
<1>3. \A k \in 0 .. n : g[k] \in 0 .. m
  <2>1. n \in 0 .. n /\ f[n] \in Nat /\ f[n] + d <= m
    BY <1>2
  <2> QED BY <1>2, <2>1
<1>4. \A j, k \in 0 .. n : j <= k => g[j] <= g[k]
  BY <1>2 DEF Paced
<1>5. ASSUME NEW k \in 1 .. n
      PROVE  Retires(s[k], g[k - 1], g[k])
  <2>1. k \in 0 .. n /\ k - 1 \in 0 .. n
    OBVIOUS
  <2>2. Retires(s[k], f[k - 1], f[k])
    BY DEF Paced
  <2>3. f[k] \in Nat /\ f[k - 1] \in Nat /\ g[k] = f[k] + d /\ g[k - 1] = f[k - 1] + d
    BY <1>2, <2>1
  <2>4. \A x : x \in 1 .. f[k] => x \in 1 .. f[k] + d
    BY <2>3
  <2>5. f[k] \in {f[k - 1], f[k - 1] + 1} => f[k] + d \in {f[k - 1] + d, f[k - 1] + d + 1}
    BY <2>3
  <2> QED BY <2>2, <2>3, <2>4, <2>5 DEF Retires
<1> HIDE DEF g, n
<1> QED BY <1>3, <1>4, <1>5 DEF Paced, g, n

\* One more message is sent.
LEMMA PacedMore ==
    ASSUME NEW s, NEW f, NEW m \in Nat
    PROVE  (Paced(s, f, m) => Paced(s, f, m + 1)) /\ (Asked(s, f, m) => Asked(s, f, m + 1))
<1>1. \A x : x \in 0 .. m => x \in 0 .. m + 1
  OBVIOUS
<1> QED BY <1>1 DEF Paced, Asked

LEMMA AskedAppend ==
    ASSUME NEW S, NEW s \in Seq(S), NEW f, NEW m \in Nat, Asked(s, f, m), NEW e,
           NEW v \in 0 .. m, Asks(e, f[Len(s)], v)
    PROVE  /\ Asked(Append(s, e), Longer(f, Len(s), v), m)
           /\ Longer(f, Len(s), v)[0] = f[0] /\ Longer(f, Len(s), v)[Len(Append(s, e))] = v
<1> DEFINE n == Len(s)
           t == Append(s, e)
           g == Longer(f, n, v)
<1>1. /\ n \in Nat /\ Len(t) = n + 1 /\ t[n + 1] = e
      /\ \A k \in 1 .. n : t[k] = s[k]
  OBVIOUS
<1>2. \A k \in 0 .. n : f[k] \in 0 .. m /\ f[k] \in Nat
  BY DEF Asked
<1>3. /\ \A k \in 0 .. n + 1 : g[k] \in 0 .. m
      /\ g[n + 1] = v
      /\ \A k \in 0 .. n : g[k] = f[k]
  BY <1>1, <1>2 DEF Longer
<1>4. ASSUME NEW j \in 0 .. n + 1, NEW k \in 0 .. n + 1, j <= k PROVE g[j] <= g[k]
  <2>1. \A i \in 0 .. n : f[i] <= f[n]
    BY <1>1 DEF Asked
  <2>2. \A i \in 0 .. n : g[i] <= v
    <3>1. f[n] <= v /\ f[n] \in Nat /\ v \in Nat
      BY <1>1, <1>2 DEF Asks
    <3> QED BY <1>1, <1>2, <1>3, <2>1, <3>1
  <2>3. CASE k = n + 1
    <3>1. j = n + 1 \/ j \in 0 .. n
      BY <1>1
    <3> QED BY <1>3, <2>2, <2>3, <3>1
  <2>4. CASE k # n + 1
    <3>1. k \in 0 .. n /\ j \in 0 .. n
      BY <1>1, <1>4, <2>4
    <3> QED BY <1>3, <1>4, <3>1 DEF Asked
  <2> QED BY <2>3, <2>4
<1>5. ASSUME NEW k \in 1 .. n + 1 PROVE Asks(t[k], g[k - 1], g[k])
  <2>1. CASE k = n + 1
    BY <1>1, <1>3, <2>1
  <2>2. CASE k \in 1 .. n
    <3>1. g[k] = f[k] /\ g[k - 1] = f[k - 1] /\ t[k] = s[k]
      BY <1>1, <1>3, <2>2
    <3> QED BY <2>2, <3>1 DEF Asked
  <2> QED BY <1>1, <2>1, <2>2
<1>6. g[0] = f[0]
  BY <1>1, <1>3
<1> HIDE DEF g, t, n
<1> QED BY <1>1, <1>3, <1>4, <1>5, <1>6 DEF Asked, g, t, n

\* The oldest draft is retired, and a message that it shows may be confirmed.
LEMMA DraftRetired ==
    ASSUME NEW S, NEW ds \in Seq(S), NEW ms, NEW n \in Nat, NEW m \in Nat, Drawn(ds, ms, n,
           m),
           NEW v \in {n, n + 1}, v <= m,
           NEW es, es = (IF ds = <<>> THEN <<>> ELSE Tail(ds)) \/ (es = ds /\ v = n),
           NEW ns, ns = ms \/ \E e : /\ ms \in Seq(Timeline!Message) /\ ns = Append(ms, e)
                                     /\ e[1] = "own" => e[2] \in 1 .. v
    PROVE  Drawn(es, ns, v, m)
<1>1. /\ \A k \in 1 .. Len(es) : es[k] \in v + 1 .. m
      /\ \A j, k \in 1 .. Len(es) : j < k => es[j] < es[k]
  <2>1. CASE es = ds /\ v = n
    BY <2>1 DEF Drawn
  <2>2. CASE es = <<>>
    BY <2>2
  <2>3. CASE ds # <<>> /\ es = Tail(ds)
    <3>1. Len(es) = Len(ds) - 1 /\ Len(ds) \in Nat \ {0}
          /\ \A k \in 1 .. Len(es) : es[k] = ds[k + 1]
      BY <2>3
    <3>2. ASSUME NEW k \in 1 .. Len(es) PROVE es[k] \in v + 1 .. m
      <4>1. 1 \in 1 .. Len(ds) /\ k + 1 \in 1 .. Len(ds) /\ 1 < k + 1
        BY <3>1
      <4>2. ds[1] < ds[k + 1] /\ ds[1] \in n + 1 .. m /\ ds[k + 1] \in n + 1 .. m
        BY <4>1 DEF Drawn
      <4> QED BY <3>1, <4>2
    <3>3. ASSUME NEW j \in 1 .. Len(es), NEW k \in 1 .. Len(es), j < k PROVE es[j] < es[k]
      <4>1. j + 1 \in 1 .. Len(ds) /\ k + 1 \in 1 .. Len(ds) /\ j + 1 < k + 1
        BY <3>1, <3>3
      <4> QED BY <3>1, <4>1 DEF Drawn
    <3> QED BY <3>2, <3>3
  <2> QED BY <2>1, <2>2, <2>3
<1>2. ASSUME NEW k \in 1 .. Len(ns), ns[k][1] = "own" PROVE ns[k][2] \in 1 .. v
  <2>1. \A i \in 1 .. Len(ms) : ms[i][1] = "own" => ms[i][2] \in 1 .. v
    BY DEF Drawn
  <2>2. CASE ns = ms
    BY <1>2, <2>1, <2>2
  <2>3. CASE ns # ms
    <3>1. PICK e : ms \in Seq(Timeline!Message) /\ ns = Append(ms, e) /\ (e[1] = "own"
                     => e[2] \in 1 .. v)
      BY <2>3
    <3>2. /\ Len(ms) \in Nat /\ Len(ns) = Len(ms) + 1 /\ ns[Len(ms) + 1] = e
          /\ \A i \in 1 .. Len(ms) : ns[i] = ms[i]
      BY <3>1
    <3>3. k = Len(ms) + 1 \/ k \in 1 .. Len(ms)
      BY <3>2
    <3> QED BY <1>2, <2>1, <3>1, <3>2, <3>3
  <2> QED BY <2>2, <2>3
<1> QED BY <1>1, <1>2 DEF Drawn

\* A frame of the transcript is of this user or of the partner; a refusal of neither.
LEMMA Frames ==
    /\ \A e \in Timeline!Message : e[1] \in {"own", "partner"}
    /\ Timeline!Error[1] = "error"
BY DEF Timeline!Message, Timeline!Mine, Timeline!Theirs, Timeline!Error

\* Every step keeps the answers in step with the drafts.
LEMMA AnsweredStep ==
    ASSUME Timeline!TypeOK, Answered, [Timeline!Next]_Timeline!vars
    PROVE  Answered'
<1>1. PICK f, g, h : Following(f, g, h)
  BY DEF Answered
<1>2. /\ sent \in Nat /\ inbox \in Seq(0 .. MaxSends) /\ layer \in Seq(Timeline!Message)
      /\ timelineWire \in Seq(Timeline!Message \cup {Timeline!Error})
         /\ drafts \in Seq(1 .. MaxSends)
      /\ messages \in Seq(Timeline!Message)
  BY ScreensAssumption DEF Timeline!TypeOK
<1>4. /\ Paced(timelineWire, f, sent) /\ Paced(layer, g, sent) /\ Asked(inbox, h, sent)
      /\ Drawn(drafts, messages, f[0], sent) /\ f[Len(timelineWire)] = g[0]
         /\ g[Len(layer)] = h[0]
      /\ timelineLine = "open" => h[Len(inbox)] = sent
  BY <1>1 DEF Following
<1>5. /\ \A k \in 0 .. Len(timelineWire) : f[k] \in 0 .. sent
      /\ \A k \in 0 .. Len(layer) : g[k] \in 0 .. sent /\ g[0] <= g[k]
      /\ \A k \in 0 .. Len(inbox) : h[k] \in 0 .. sent
  BY <1>2, <1>4 DEF Paced, Asked
<1>6. /\ f[0] \in Nat /\ f[Len(timelineWire)] \in Nat /\ g[0] \in Nat /\ g[Len(layer)] \in Nat
      /\ h[0] \in Nat /\ h[Len(inbox)] \in Nat /\ f[0] <= sent
  BY <1>2, <1>5
<1>7. ASSUME NEW ff, NEW gg, NEW hh,
             /\ Paced(timelineWire', ff, sent') /\ Paced(layer', gg, sent')
                /\ Asked(inbox', hh, sent')
             /\ Drawn(drafts', messages', ff[0], sent')
             /\ ff[Len(timelineWire')] = gg[0] /\ gg[Len(layer')] = hh[0]
             /\ timelineLine' = "open" => hh[Len(inbox')] = sent'
      PROVE  Answered'
  BY <1>7 DEF Answered, Following
<1>8. CASE Timeline!Send
  <2>1. /\ sent' = sent + 1 /\ UNCHANGED <<layer, timelineWire, timelineLine, messages>>
        /\ \/ /\ timelineLine = "open" /\ inbox' = Append(inbox, sent + 1)
              /\ drafts' = Append(drafts, sent + 1)
           \/ timelineLine # "open" /\ UNCHANGED <<inbox, drafts>>
    BY <1>8 DEF Timeline!Send, Timeline!Show
  <2>2. Paced(timelineWire, f, sent + 1) /\ Paced(layer, g, sent + 1)
        /\ Asked(inbox, h, sent + 1)
    BY <1>2, <1>4, PacedMore
  <2>3. CASE timelineLine = "open"
    <3>1. inbox' = Append(inbox, sent + 1) /\ drafts' = Append(drafts, sent + 1)
      BY <2>1, <2>3
    <3>2. PICK hh : hh = Longer(h, Len(inbox), sent + 1)
      OBVIOUS
    <3>3. /\ Asked(inbox', hh, sent + 1) /\ hh[0] = h[0] /\ hh[Len(inbox')] = sent + 1
      <4>1. /\ sent + 1 \in Nat /\ sent + 1 \in 0 .. sent + 1
            /\ Asks(sent + 1, h[Len(inbox)], sent + 1)
        BY <1>2, <1>4, <2>3 DEF Asks
      <4>2. /\ Asked(Append(inbox, sent + 1), Longer(h, Len(inbox), sent + 1), sent + 1)
            /\ Longer(h, Len(inbox), sent + 1)[0] = h[0]
            /\ Longer(h, Len(inbox), sent + 1)[Len(Append(inbox, sent + 1))] = sent + 1
        <5>1. Asked(inbox, h, sent + 1) /\ inbox \in Seq(0 .. MaxSends)
          BY <1>2, <2>2
        <5> QED BY ONLY <4>1, <5>1, AskedAppend
      <4> QED BY <3>1, <3>2, <4>2
    <3>4. Drawn(drafts', messages', f[0], sent + 1)
      <4>1. /\ Len(drafts') = Len(drafts) + 1 /\ Len(drafts) \in Nat
            /\ drafts'[Len(drafts) + 1] = sent + 1
            /\ \A k \in 1 .. Len(drafts) : drafts'[k] = drafts[k]
               /\ drafts[k] \in f[0] + 1 .. sent
        BY <1>2, <1>4, <3>1 DEF Drawn
      <4>2. ASSUME NEW k \in 1 .. Len(drafts') PROVE drafts'[k] \in f[0] + 1 .. sent + 1
        <5>1. sent \in Nat /\ f[0] \in Nat /\ f[0] <= sent
          BY <1>2, <1>6
        <5>2. CASE k = Len(drafts) + 1
          BY <4>1, <5>1, <5>2
        <5>3. CASE k \in 1 .. Len(drafts)
          <6>1. drafts'[k] \in f[0] + 1 .. sent
            BY <4>1, <5>3
          <6> QED BY <5>1, <6>1
        <5> QED BY <4>1, <5>2, <5>3
      <4>3. ASSUME NEW j \in 1 .. Len(drafts'), NEW k \in 1 .. Len(drafts'), j < k
            PROVE  drafts'[j] < drafts'[k]
        <5>1. j \in 1 .. Len(drafts)
          BY <4>1, <4>3
        <5>2. CASE k = Len(drafts) + 1
          <6>1. drafts'[j] \in f[0] + 1 .. sent /\ drafts'[k] = sent + 1
            BY <4>1, <5>1, <5>2
          <6>2. sent \in Nat /\ f[0] \in Nat
            BY <1>2, <1>6
          <6> QED BY <6>1, <6>2
        <5>3. CASE k \in 1 .. Len(drafts)
          BY <1>4, <4>1, <4>3, <5>1, <5>3 DEF Drawn
        <5> QED BY <4>1, <5>2, <5>3
      <4> QED BY <1>4, <2>1, <4>2, <4>3 DEF Drawn
    <3> QED BY <1>4, <1>7, <2>1, <2>2, <3>3, <3>4
  <2>4. CASE timelineLine # "open"
    <3>1. Drawn(drafts, messages, f[0], sent + 1)
      <4>1. \A x : x \in f[0] + 1 .. sent => x \in f[0] + 1 .. sent + 1
        BY <1>2, <1>6
      <4> QED BY <1>4, <4>1 DEF Drawn
    <3> QED BY <1>4, <1>7, <2>1, <2>2, <2>4, <3>1
  <2> QED BY <2>3, <2>4
<1>9. CASE Timeline!Reveal
  <2>1. /\ UNCHANGED <<layer, timelineWire, timelineLine, drafts, messages, sent>>
           /\ timelineLine = "open"
        /\ inbox' = Append(inbox, 0)
    BY <1>9 DEF Timeline!Reveal
  <2>2. PICK hh : hh = Longer(h, Len(inbox), sent)
    OBVIOUS
  <2>3. Asked(inbox', hh, sent) /\ hh[0] = h[0] /\ hh[Len(inbox')] = sent
    <3>1. sent \in 0 .. sent /\ h[Len(inbox)] = sent /\ h[Len(inbox)] <= sent
          /\ sent <= h[Len(inbox)] + 1
          /\ 0 \in 0 .. sent
      BY <1>2, <1>4, <2>1
    <3>8. /\ Asked(Append(inbox, 0), Longer(h, Len(inbox), sent), sent)
          /\ Longer(h, Len(inbox), sent)[0] = h[0]
             /\ Longer(h, Len(inbox), sent)[Len(Append(inbox, 0))] = sent
      <4>1. /\ inbox \in Seq(0 .. MaxSends) /\ sent \in Nat /\ Asked(inbox, h, sent)
               /\ sent \in 0 .. sent
            /\ Asks(0, h[Len(inbox)], sent)
        BY <1>2, <1>4, <3>1 DEF Asks
      <4> QED BY ONLY <4>1, AskedAppend
    <3> QED BY <2>1, <2>2, <3>8
  <2> QED BY <1>4, <1>7, <2>1, <2>3
<1>10. CASE Timeline!Serve
  <2>1. /\ inbox # <<>> /\ inbox' = Tail(inbox)
           /\ UNCHANGED <<timelineLine, drafts, messages, sent>>
        /\ \/ Head(inbox) # 0 /\ layer' = Append(layer, Timeline!Mine(Head(inbox)))
              /\ UNCHANGED timelineWire
           \/ timelineWire' = Append(timelineWire, Timeline!Error) /\ UNCHANGED layer
    BY <1>10 DEF Timeline!Serve, Timeline!view, Timeline!counts
  <2>2. PICK hh : hh = Later(h, Len(inbox))
    OBVIOUS
  <2>3. Asked(inbox', hh, sent) /\ hh[0] = h[1] /\ hh[Len(inbox')] = h[Len(inbox)]
    BY <1>2, <1>4, <2>1, <2>2, AskedTail
  <2>4. /\ h[1] \in 0 .. sent /\ h[1] \in {h[0], h[0] + 1} /\ Head(inbox) \in 0 .. h[1]
        /\ Len(inbox) \in Nat \ {0}
    <3>1. Len(inbox) \in Nat \ {0} /\ Head(inbox) = inbox[1] /\ 1 \in 1 .. Len(inbox)
          /\ 0 \in 0 .. Len(inbox) /\ 1 \in 0 .. Len(inbox) /\ 1 - 1 = 0
      BY <1>2, <2>1
    <3> QED BY <1>4, <1>5, <3>1 DEF Asked, Asks
  <2>5. CASE Head(inbox) # 0 /\ layer' = Append(layer, Timeline!Mine(Head(inbox)))
             /\ UNCHANGED timelineWire
    <3>1. PICK gg : gg = Longer(g, Len(layer), h[1])
      OBVIOUS
    <3>2. /\ Timeline!Mine(Head(inbox))[1] = "own"
             /\ Timeline!Mine(Head(inbox))[2] \in 1 .. h[1]
          /\ h[1] \in {g[Len(layer)], g[Len(layer)] + 1}
      BY <1>4, <2>4, <2>5 DEF Timeline!Mine
    <3>3. Paced(layer', gg, sent) /\ gg[0] = g[0] /\ gg[Len(layer')] = h[1]
      <4>1. PICK e : e = Timeline!Mine(Head(inbox))
        OBVIOUS
      <4>2. PICK v : v = h[1]
        OBVIOUS
      <4>3. e[1] = "own" /\ e[1] # "partner" /\ e[2] \in 1 .. v
        BY <3>2, <4>1, <4>2
      <4>8. /\ Paced(Append(layer, e), Longer(g, Len(layer), v), sent)
            /\ Longer(g, Len(layer), v)[0] = g[0]
               /\ Longer(g, Len(layer), v)[Len(Append(layer, e))] = v
        <5>1. /\ layer \in Seq(Timeline!Message \cup {Timeline!Error}) /\ sent \in Nat
                 /\ Paced(layer, g, sent) /\ v \in 0 .. sent
              /\ Retires(e, g[Len(layer)], v)
          BY <1>2, <1>4, <2>4, <3>2, <4>2, <4>3 DEF Retires
        <5> QED BY ONLY <5>1, PacedAppend
      <4> QED BY <2>5, <3>1, <4>1, <4>2, <4>8
    <3> QED BY <1>4, <1>7, <2>1, <2>3, <2>5, <3>3
  <2>6. CASE timelineWire' = Append(timelineWire, Timeline!Error) /\ UNCHANGED layer
    <3>1. PICK d \in {0, 1} : h[1] = h[0] + d
      BY <1>6, <2>4
    <3>2. g[0] <= h[0] /\ g[0] = f[Len(timelineWire)] /\ g[Len(layer)] = h[0]
      BY <1>2, <1>4, <1>5
    <3>3. PICK ff : ff = Longer(f, Len(timelineWire), f[Len(timelineWire)] + d)
      OBVIOUS
    <3>4. Paced(timelineWire', ff, sent) /\ ff[0] = f[0] /\ ff[Len(timelineWire')] = g[0] + d
      <4>1. /\ f[Len(timelineWire)] + d \in 0 .. sent
               /\ f[Len(timelineWire)] <= f[Len(timelineWire)] + d
            /\ f[Len(timelineWire)] + d <= f[Len(timelineWire)] + 1
        <5>1. /\ sent \in Nat /\ f[Len(timelineWire)] \in Nat
                 /\ f[Len(timelineWire)] = g[0] /\ g[0] <= h[0]
              /\ h[0] \in Nat /\ h[1] \in 0 .. sent /\ h[1] = h[0] + d /\ d \in {0, 1}
          BY <1>2, <1>6, <2>4, <3>1, <3>2
        <5> QED BY ONLY <5>1
      <4>2. PICK v : v = f[Len(timelineWire)] + d
        OBVIOUS
      <4>8. /\ Paced(Append(timelineWire, Timeline!Error), Longer(f, Len(timelineWire), v),
               sent)
            /\ Longer(f, Len(timelineWire), v)[0] = f[0]
               /\ Longer(f, Len(timelineWire), v)[Len(Append(timelineWire,
                  Timeline!Error))] = v
        <5>1. timelineWire \in Seq(Timeline!Message \cup {Timeline!Error})
              /\ sent \in Nat /\ Paced(timelineWire, f, sent)
          BY <1>2, <1>4
        <5>2. v \in 0 .. sent
          BY <4>1, <4>2
        <5>3. Retires(Timeline!Error, f[Len(timelineWire)], v)
          BY <1>6, <3>1, <4>1, <4>2, Frames DEF Retires
        <5> QED BY ONLY <5>1, <5>2, <5>3, PacedAppend
      <4> QED BY <2>6, <3>2, <3>3, <4>2, <4>8
    <3>5. PICK gg : gg = [k \in 0 .. Len(layer) |-> g[k] + d]
      OBVIOUS
    <3>6. Paced(layer, gg, sent)
      <4>1. Len(layer) \in Nat /\ g[Len(layer)] + d <= sent
        BY <1>2, <2>4, <3>1, <3>2
      <4> QED BY <1>2, <1>4, <3>5, <4>1, PacedLift
    <3>7. gg[0] = g[0] + d /\ gg[Len(layer)] = h[1]
      BY <1>2, <3>1, <3>2, <3>5
    <3> QED BY <1>4, <1>7, <2>1, <2>3, <2>6, <3>4, <3>6, <3>7
  <2> QED BY <2>1, <2>5, <2>6
<1>11. CASE Timeline!Relay
  <2>1. /\ layer # <<>> /\ layer' = Tail(layer)
           /\ timelineWire' = Append(timelineWire, Head(layer))
        /\ UNCHANGED <<inbox, timelineLine, drafts, messages, sent>>
    BY <1>11 DEF Timeline!Relay, Timeline!view, Timeline!counts
  <2>2. PICK gg : gg = Later(g, Len(layer))
    OBVIOUS
  <2>3. Paced(layer', gg, sent) /\ gg[0] = g[1] /\ gg[Len(layer')] = g[Len(layer)]
    BY <1>2, <1>4, <2>1, <2>2, PacedTail
  <2>4. g[1] \in 0 .. sent /\ Retires(Head(layer), g[0], g[1])
    <3>1. Len(layer) \in Nat \ {0} /\ Head(layer) = layer[1] /\ 1 \in 1 .. Len(layer)
          /\ 0 \in 0 .. Len(layer) /\ 1 \in 0 .. Len(layer) /\ 1 - 1 = 0
      BY <1>2, <2>1
    <3> QED BY <1>4, <1>5, <3>1 DEF Paced
  <2>5. PICK ff : ff = Longer(f, Len(timelineWire), g[1])
    OBVIOUS
  <2>6. Paced(timelineWire', ff, sent) /\ ff[0] = f[0] /\ ff[Len(timelineWire')] = g[1]
    <3>1. PICK e : e = Head(layer)
      OBVIOUS
    <3>2. PICK v : v = g[1]
      OBVIOUS
    <3>8. /\ Paced(Append(timelineWire, e), Longer(f, Len(timelineWire), v), sent)
          /\ Longer(f, Len(timelineWire), v)[0] = f[0]
             /\ Longer(f, Len(timelineWire), v)[Len(Append(timelineWire, e))] = v
      <4>1. /\ timelineWire \in Seq(Timeline!Message \cup {Timeline!Error})
               /\ sent \in Nat /\ Paced(timelineWire, f, sent)
            /\ v \in 0 .. sent /\ Retires(e, f[Len(timelineWire)], v)
        BY <1>2, <1>4, <2>4, <3>1, <3>2
      <4> QED BY ONLY <4>1, PacedAppend
    <3> QED BY <2>1, <2>5, <3>1, <3>2, <3>8
  <2> QED BY <1>4, <1>7, <2>1, <2>3, <2>6
<1>12. CASE Timeline!PartnerSends
  <2>1. /\ layer' = Append(layer, Timeline!Theirs(partnerSent + 1))
        /\ UNCHANGED <<inbox, timelineWire, timelineLine, drafts, messages, sent>>
    BY <1>12 DEF Timeline!PartnerSends, Timeline!view
  <2>2. PICK gg : gg = Longer(g, Len(layer), g[Len(layer)])
    OBVIOUS
  <2>3. Paced(layer', gg, sent) /\ gg[0] = g[0] /\ gg[Len(layer')] = g[Len(layer)]
    <3>1. PICK e : e = Timeline!Theirs(partnerSent + 1)
      OBVIOUS
    <3>2. PICK v : v = g[Len(layer)]
      OBVIOUS
    <3>3. v \in 0 .. sent /\ e[1] # "own"
      BY <1>2, <1>5, <1>6, <3>1, <3>2 DEF Timeline!Theirs
    <3>8. /\ Paced(Append(layer, e), Longer(g, Len(layer), v), sent)
          /\ Longer(g, Len(layer), v)[0] = g[0]
             /\ Longer(g, Len(layer), v)[Len(Append(layer, e))] = v
      <4>1. layer \in Seq(Timeline!Message \cup {Timeline!Error}) /\ sent \in Nat
            /\ Paced(layer, g, sent)
        BY <1>2, <1>4
      <4>2. v \in 0 .. sent
        BY <3>3
      <4>3. Retires(e, g[Len(layer)], v)
        BY <3>2, <3>3 DEF Retires
      <4> QED BY ONLY <4>1, <4>2, <4>3, PacedAppend
    <3> QED BY <2>1, <2>2, <3>1, <3>2, <3>8
  <2> QED BY <1>4, <1>7, <2>1, <2>3
<1>13. CASE Timeline!Receive \/ Timeline!HandleServerError
  <2>1. /\ timelineWire # <<>> /\ timelineWire' = Tail(timelineWire)
           /\ UNCHANGED <<inbox, layer, timelineLine, sent>>
        /\ \/ Head(timelineWire) = Timeline!Error /\ drafts' = Timeline!Retired
              /\ messages' = messages
           \/ /\ Head(timelineWire) # Timeline!Error
              /\ drafts' = IF Head(timelineWire)[1] = "own" THEN Timeline!Retired ELSE drafts
              /\ messages' = Append(messages, Head(timelineWire))
    BY <1>13 DEF Timeline!Receive, Timeline!HandleServerError, Timeline!Show,
       Timeline!counts
  <2>2. PICK ff : ff = Later(f, Len(timelineWire))
    OBVIOUS
  <2>3. Paced(timelineWire', ff, sent) /\ ff[0] = f[1]
        /\ ff[Len(timelineWire')] = f[Len(timelineWire)]
    BY <1>2, <1>4, <2>1, <2>2, PacedTail
  <2>4. /\ f[1] \in {f[0], f[0] + 1} /\ f[1] <= sent /\ f[1] \in Nat
        /\ Head(timelineWire)[1] = "partner" => f[1] = f[0]
        /\ Head(timelineWire)[1] = "own" => Head(timelineWire)[2] \in 1 .. f[1]
        /\ Head(timelineWire) \in Timeline!Message \cup {Timeline!Error}
    <3>1. Len(timelineWire) \in Nat \ {0} /\ Head(timelineWire) = timelineWire[1]
          /\ 1 \in 1 .. Len(timelineWire)
          /\ 0 \in 0 .. Len(timelineWire) /\ 1 \in 0 .. Len(timelineWire) /\ 1 - 1 = 0
          /\ timelineWire[1] \in Timeline!Message \cup {Timeline!Error}
      BY <1>2, <2>1
    <3>2. /\ Retires(timelineWire[1], f[0], f[1]) /\ f[1] \in 0 .. sent /\ f[0] \in 0 .. sent
          /\ sent \in Nat
      BY <1>2, <1>4, <1>5, <3>1 DEF Paced
    <3>3. f[1] <= sent /\ f[1] \in Nat
      BY ONLY <3>2
    <3> QED BY <3>1, <3>2, <3>3 DEF Retires
  <2>5. drafts' = (IF drafts = <<>> THEN <<>> ELSE Tail(drafts)) \/ (drafts' = drafts
        /\ f[1] = f[0])
    BY <2>1, <2>4, Frames DEF Timeline!Retired
  <2>6. \/ messages' = messages
        \/ \E e : /\ messages \in Seq(Timeline!Message) /\ messages' = Append(messages, e)
                  /\ e[1] = "own" => e[2] \in 1 .. f[1]
    BY <1>2, <2>1, <2>4
  <2>7. Drawn(drafts', messages', f[1], sent)
    <3>1. PICK n, v, es, ns : n = f[0] /\ v = f[1] /\ es = drafts' /\ ns = messages'
      OBVIOUS
    <3>2. /\ drafts \in Seq(1 .. MaxSends) /\ n \in Nat /\ sent \in Nat
          /\ Drawn(drafts, messages, n, sent) /\ v \in {n, n + 1} /\ v <= sent
          /\ es = (IF drafts = <<>> THEN <<>> ELSE Tail(drafts)) \/ (es = drafts /\ v = n)
          /\ \/ ns = messages
             \/ \E e : /\ messages \in Seq(Timeline!Message) /\ ns = Append(messages, e)
                       /\ e[1] = "own" => e[2] \in 1 .. v
      BY <1>2, <1>4, <1>6, <2>4, <2>5, <2>6, <3>1
    <3>3. Drawn(es, ns, v, sent)
      BY ONLY <3>2, DraftRetired
    <3> QED BY <3>1, <3>3
  <2> QED BY <1>4, <1>7, <2>1, <2>3, <2>7
<1>14. CASE Timeline!Closed
  <2>1. /\ timelineWire = <<>> /\ timelineWire' = <<>> /\ inbox' = <<>> /\ layer' = <<>>
           /\ drafts' = <<>>
        /\ timelineLine' = "closed" /\ UNCHANGED <<messages, sent>>
    BY <1>14 DEF Timeline!Closed, Timeline!Show, Timeline!counts
  <2>2. PICK gg : gg = [k \in 0 .. 0 |-> f[0]]
    OBVIOUS
  <2>3. Paced(<<>>, gg, sent) /\ Asked(<<>>, gg, sent) /\ gg[0] = f[0]
    BY <1>2, <1>6, <2>2 DEF Paced, Asked
  <2>4. Drawn(<<>>, messages, f[0], sent)
    BY <1>4 DEF Drawn
  <2> QED BY <1>4, <1>7, <2>1, <2>3, <2>4
<1>15. CASE \/ Timeline!Scroll \/ Timeline!ScrollEvent \/ Timeline!JumpDown
               \/ Timeline!Close \/ UNCHANGED Timeline!vars
  <2>1. UNCHANGED <<inbox, layer, timelineWire, drafts, messages, sent>>
        /\ (timelineLine' = "open" => timelineLine = "open")
    BY <1>15 DEF Timeline!Scroll, Timeline!ScrollEvent, Timeline!JumpDown,
       Timeline!Close, Timeline!vars, Timeline!net, Timeline!view, Timeline!counts
  <2> QED BY <1>4, <1>7, <2>1
<1> QED BY <1>8, <1>9, <1>10, <1>11, <1>12, <1>13, <1>14, <1>15 DEF Timeline!Next,
           Timeline!User, Timeline!Server, Timeline!Client

\* So no draft is shown beside its copy.
LEMMA AnsweredOnce ==
    ASSUME Timeline!TypeOK, Answered
    PROVE  Timeline!NoDoubles
<1>1. PICK f, g, h : Following(f, g, h)
  BY DEF Answered
<1>2. /\ Drawn(drafts, messages, f[0], sent) /\ f[0] \in Nat
      /\ drafts \in Seq(1 .. MaxSends) /\ messages \in Seq(Timeline!Message)
  <2>1. sent \in Nat /\ Len(timelineWire) \in Nat
    BY ScreensAssumption DEF Timeline!TypeOK
  <2> QED BY <1>1, <2>1 DEF Following, Paced, Timeline!TypeOK
<1>3. SUFFICES ASSUME NEW i \in DOMAIN drafts, Timeline!Contains(messages,
                      Timeline!Mine(drafts[i])) PROVE FALSE
  BY DEF Timeline!NoDoubles
<1>4. PICK k \in 1 .. Len(messages) : messages[k] = Timeline!Mine(drafts[i])
  BY <1>2, <1>3 DEF Timeline!Contains
<1>5. i \in 1 .. Len(drafts) /\ drafts[i] \in Nat
  BY <1>2, ScreensAssumption
<1>6. messages[k][1] = "own" /\ messages[k][2] = drafts[i]
  BY <1>4 DEF Timeline!Mine
<1>7. drafts[i] \in 1 .. f[0] /\ drafts[i] \in f[0] + 1 .. sent
  BY <1>2, <1>5, <1>6 DEF Drawn
<1> QED BY <1>2, <1>7

\* At first nothing is drawn, and nothing is under way.
LEMMA TranscriptBegins == ASSUME Timeline!Init PROVE Timeline!TypeOK /\ Answered
<1>2. Timeline!TypeOK
  <2>1. /\ <<>> \in Seq(0 .. MaxSends) /\ <<>> \in Seq(Timeline!Message)
        /\ <<>> \in Seq(Timeline!Message \cup {Timeline!Error}) /\ <<>> \in Seq(1 .. MaxSends)
    OBVIOUS
  <2>2. 0 \in 0 .. MaxSends /\ 0 \in 0 .. MaxPartner /\ 0 \in 0 .. MaxReveals
    BY ScreensAssumption
  <2> QED BY <2>1, <2>2 DEF Timeline!Init, Timeline!TypeOK
<1>3. PICK f : f = [k \in 0 .. 0 |-> 0]
  OBVIOUS
<1>4. Paced(<<>>, f, 0) /\ Asked(<<>>, f, 0) /\ Drawn(<<>>, <<>>, 0, 0) /\ f[0] = 0
  BY <1>3 DEF Paced, Asked, Drawn
<1>5. Following(f, f, f)
  BY <1>4 DEF Timeline!Init, Following
<1> QED BY <1>2, <1>5 DEF Answered

-----------------------------------------------------------------------------
(* What is said beside the messages (RoomTalk).                             *)

About(e, m) == e[1] = "reaction" /\ e[2] = m

\* The last frame about a message says p, what the user has picked; with none on its
\* way the partner's copy c does.
Said(s, m, p, c) ==
    /\ \A i \in 1 .. Len(s) :
         About(s[i], m) /\ (\A j \in i + 1 .. Len(s) : ~ About(s[j], m)) => s[i][3] = p
    /\ (\A i \in 1 .. Len(s) : ~ About(s[i], m)) => c = p

\* After the k-th frame an end of the typing is still to come, or the user types.
Ends(s, k, typed) == typed \/ \E j \in k + 1 .. Len(s) : s[j] = Talk!TypingFrame(FALSE)

\* The indicator that is shown, or that a frame will show, will be taken back.
Heard(s, typed, sh) ==
    /\ sh => Ends(s, 0, typed)
    /\ \A i \in 1 .. Len(s) : s[i] = Talk!TypingFrame(TRUE) => Ends(s, i, typed)

\* As long as the connection stands.
Faithful ==
    talkLine = "open" =>
        /\ \A m \in Messages : Said(talkWire, m, picked[m], copy[m])
        /\ Heard(talkWire, typingSent, shown)

LEMMA SaidAppend ==
    ASSUME NEW S, NEW s \in Seq(S), NEW m, NEW p, NEW c, NEW q, NEW e,
           IF About(e, m) THEN e[3] = q ELSE Said(s, m, p, c) /\ q = p
    PROVE  Said(Append(s, e), m, q, c)
<1> DEFINE t == Append(s, e)
<1>1. /\ Len(s) \in Nat /\ Len(t) = Len(s) + 1 /\ t[Len(s) + 1] = e
      /\ \A i \in 1 .. Len(s) : t[i] = s[i]
  OBVIOUS
<1> HIDE DEF t
<1>2. CASE About(e, m)
  <2>1. ASSUME NEW i \in 1 .. Len(t), \A j \in i + 1 .. Len(t) : ~ About(t[j], m)
        PROVE  i = Len(t)
    BY <1>1, <1>2, <2>1
  <2>2. ~ \A i \in 1 .. Len(t) : ~ About(t[i], m)
    BY <1>1, <1>2
  <2> QED BY <1>1, <1>2, <2>1, <2>2 DEF Said, t
<1>3. CASE ~ About(e, m)
  <2>1. Said(s, m, p, c) /\ q = p
    BY <1>3
  <2>2. ASSUME NEW i \in 1 .. Len(t), About(t[i], m),
               \A j \in i + 1 .. Len(t) : ~ About(t[j], m)
        PROVE  t[i][3] = p
    <3>1. i \in 1 .. Len(s) /\ t[i] = s[i]
      BY <1>1, <1>3, <2>2
    <3>2. \A j \in i + 1 .. Len(s) : ~ About(s[j], m)
      BY <1>1, <2>2, <3>1
    <3> QED BY <2>1, <2>2, <3>1, <3>2 DEF Said
  <2>3. ASSUME \A i \in 1 .. Len(t) : ~ About(t[i], m) PROVE c = p
    <3>1. \A i \in 1 .. Len(s) : ~ About(s[i], m)
      BY <1>1, <2>3
    <3> QED BY <2>1, <3>1 DEF Said
  <2> QED BY <2>1, <2>2, <2>3 DEF Said, t
<1> QED BY <1>2, <1>3

LEMMA SaidTail ==
    ASSUME NEW S, NEW s \in Seq(S), s # <<>>, NEW m, NEW p, NEW c, Said(s, m, p, c), NEW d,
           d = IF About(Head(s), m) THEN Head(s)[3] ELSE c
    PROVE  Said(Tail(s), m, p, d)
<1> DEFINE t == Tail(s)
<1>1. /\ Len(s) \in Nat \ {0} /\ Len(t) = Len(s) - 1 /\ Head(s) = s[1]
      /\ \A i \in 1 .. Len(t) : t[i] = s[i + 1]
  OBVIOUS
<1> HIDE DEF t
<1>2. ASSUME NEW i \in 1 .. Len(t), About(t[i], m),
             \A j \in i + 1 .. Len(t) : ~ About(t[j], m)
      PROVE  t[i][3] = p
  <2>1. i + 1 \in 1 .. Len(s) /\ t[i] = s[i + 1]
    BY <1>1
  <2>2. ASSUME NEW j \in (i + 1) + 1 .. Len(s) PROVE ~ About(s[j], m)
    <3>1. j - 1 \in i + 1 .. Len(t) /\ t[j - 1] = s[j]
      BY <1>1, <1>2
    <3> QED BY <1>2, <3>1
  <2> QED BY <1>2, <2>1, <2>2 DEF Said
<1>3. ASSUME \A i \in 1 .. Len(t) : ~ About(t[i], m) PROVE d = p
  <2>1. ASSUME NEW j \in 1 + 1 .. Len(s) PROVE ~ About(s[j], m)
    <3>1. j - 1 \in 1 .. Len(t) /\ t[j - 1] = s[j]
      BY <1>1
    <3> QED BY <1>3, <3>1
  <2>2. CASE About(s[1], m)
    <3>1. 1 \in 1 .. Len(s)
      BY <1>1
    <3> QED BY <1>1, <2>1, <2>2, <3>1 DEF Said
  <2>3. CASE ~ About(s[1], m)
    <3>1. ASSUME NEW i \in 1 .. Len(s) PROVE ~ About(s[i], m)
      <4>1. i = 1 \/ i \in 1 + 1 .. Len(s)
        BY <1>1
      <4> QED BY <2>1, <2>3, <4>1
    <3> QED BY <1>1, <2>3, <3>1 DEF Said
  <2> QED BY <2>2, <2>3
<1> QED BY <1>2, <1>3 DEF Said, t

\* A frame is sent: an end of the typing, or one that does not begin it.
LEMMA HeardAppend ==
    ASSUME NEW S, NEW s \in Seq(S), NEW b \in BOOLEAN, NEW typed \in BOOLEAN, NEW sh, NEW e,
           Heard(s, typed, sh), e # Talk!TypingFrame(TRUE),
           b \/ e = Talk!TypingFrame(FALSE) \/ ~ typed
    PROVE  Heard(Append(s, e), b, sh)
<1> DEFINE t == Append(s, e)
<1>1. /\ Len(s) \in Nat /\ Len(t) = Len(s) + 1 /\ t[Len(s) + 1] = e
      /\ \A i \in 1 .. Len(s) : t[i] = s[i]
  OBVIOUS
<1> HIDE DEF t
<1>2. ASSUME NEW k \in 0 .. Len(s), Ends(s, k, typed) PROVE Ends(t, k, b)
  <2>1. CASE b
    BY <2>1 DEF Ends
  <2>2. CASE e = Talk!TypingFrame(FALSE)
    <3>1. Len(s) + 1 \in k + 1 .. Len(t)
      BY <1>1
    <3> QED BY <1>1, <2>2, <3>1 DEF Ends
  <2>3. CASE ~ typed
    <3>1. PICK j \in k + 1 .. Len(s) : s[j] = Talk!TypingFrame(FALSE)
      BY <1>2, <2>3 DEF Ends
    <3>2. j \in 1 .. Len(s) /\ j \in k + 1 .. Len(t)
      BY <1>1
    <3> QED BY <1>1, <3>1, <3>2 DEF Ends
  <2> QED BY <2>1, <2>2, <2>3
<1>3. ASSUME NEW i \in 1 .. Len(t), t[i] = Talk!TypingFrame(TRUE) PROVE Ends(t, i, b)
  <2>1. i # Len(s) + 1
    BY <1>1, <1>3
  <2>2. i \in 1 .. Len(s) /\ i \in 0 .. Len(s)
    BY <1>1, <2>1
  <2>3. s[i] = Talk!TypingFrame(TRUE)
    BY <1>1, <1>3, <2>2
  <2> QED BY <1>2, <2>2, <2>3 DEF Heard
<1>4. sh => Ends(t, 0, b)
  <2>1. 0 \in 0 .. Len(s)
    BY <1>1
  <2> QED BY <1>2, <2>1 DEF Heard
<1> QED BY <1>3, <1>4 DEF Heard, t

LEMMA HeardTail ==
    ASSUME NEW S, NEW s \in Seq(S), s # <<>>, NEW typed, NEW sh, NEW b,
           Heard(s, typed, sh),
           b => Head(s) = Talk!TypingFrame(TRUE) \/ (sh /\ Head(s) # Talk!TypingFrame(FALSE))
    PROVE  Heard(Tail(s), typed, b)
<1> DEFINE t == Tail(s)
<1>1. /\ Len(s) \in Nat \ {0} /\ Len(t) = Len(s) - 1 /\ Head(s) = s[1]
      /\ \A i \in 1 .. Len(t) : t[i] = s[i + 1]
  OBVIOUS
<1> HIDE DEF t
<1>2. ASSUME NEW k \in 0 .. Len(t), Ends(s, k + 1, typed) PROVE Ends(t, k, typed)
  <2>1. ASSUME NEW j \in (k + 1) + 1 .. Len(s), s[j] = Talk!TypingFrame(FALSE)
        PROVE  Ends(t, k, typed)
    <3>1. j - 1 \in k + 1 .. Len(t) /\ t[j - 1] = s[j]
      BY <1>1
    <3> QED BY <2>1, <3>1 DEF Ends
  <2> QED BY <1>2, <2>1 DEF Ends
<1>3. ASSUME NEW i \in 1 .. Len(t), t[i] = Talk!TypingFrame(TRUE) PROVE Ends(t, i, typed)
  <2>1. i + 1 \in 1 .. Len(s) /\ i \in 0 .. Len(t) /\ t[i] = s[i + 1]
    BY <1>1
  <2>2. s[i + 1] = Talk!TypingFrame(TRUE)
    BY <1>3, <2>1
  <2> QED BY <1>2, <2>1, <2>2 DEF Heard
<1>4. ASSUME b PROVE Ends(t, 0, typed)
  <2>1. 0 \in 0 .. Len(t) /\ 1 \in 1 .. Len(s) /\ 0 + 1 = 1
    BY <1>1
  <2>2. Ends(s, 1, typed)
    <3>1. CASE Head(s) = Talk!TypingFrame(TRUE)
      BY <1>1, <2>1, <3>1 DEF Heard
    <3>2. CASE sh /\ Head(s) # Talk!TypingFrame(FALSE)
      <4>1. Ends(s, 0, typed)
        BY <3>2 DEF Heard
      <4>2. ASSUME NEW j \in 0 + 1 .. Len(s), s[j] = Talk!TypingFrame(FALSE) PROVE Ends(s,
                   1, typed)
        <5>1. j # 1
          BY <1>1, <3>2, <4>2
        <5>2. j \in 1 + 1 .. Len(s)
          BY <1>1, <5>1
        <5> QED BY <4>2, <5>2 DEF Ends
      <4> QED BY <4>1, <4>2 DEF Ends
    <3> QED BY <1>4, <3>1, <3>2
  <2> QED BY <1>2, <2>1, <2>2
<1> QED BY <1>3, <1>4 DEF Heard, t

\* The frames are those of typing, of messages and of reactions.
LEMMA Worded ==
    /\ \A b \in BOOLEAN : Talk!TypingFrame(b) \in Talk!Frame
    /\ Talk!Text \in Talk!Frame
    /\ \A m \in Messages, e \in Emoji \cup {Talk!None} : Talk!Reaction(m, e) \in Talk!Frame
    /\ \A f \in Talk!Frame :
         \/ f[1] = "typing" /\ f[2] \in BOOLEAN /\ f = Talk!TypingFrame(f[2])
         \/ f = Talk!Text /\ f[1] = "text"
         \/ /\ f[1] = "reaction" /\ f[2] \in Messages
            /\ f[3] \in Emoji \cup {Talk!None} /\ f = Talk!Reaction(f[2], f[3])
    /\ \A m, e : Talk!Reaction(m, e)[1] = "reaction" /\ Talk!Reaction(m, e)[2] = m
       /\ Talk!Reaction(m, e)[3] = e
    /\ \A b : Talk!TypingFrame(b)[1] = "typing" /\ Talk!TypingFrame(b)[2] = b
    /\ Talk!Text[1] = "text"
BY DEF Talk!Frame, Talk!TypingFrame, Talk!Text, Talk!Reaction

LEMMA WordedAlone ==
    /\ <<>> \in Seq(Talk!Frame)
    /\ <<Talk!TypingFrame(TRUE)>> \in Seq(Talk!Frame)
       /\ <<Talk!TypingFrame(FALSE)>> \in Seq(Talk!Frame)
    /\ <<Talk!Text>> \in Seq(Talk!Frame)
<1>1. Talk!TypingFrame(TRUE) \in Talk!Frame /\ Talk!TypingFrame(FALSE) \in Talk!Frame
      /\ Talk!Text \in Talk!Frame
  <2>1. TRUE \in BOOLEAN /\ FALSE \in BOOLEAN
    OBVIOUS
  <2> QED BY <2>1, Worded
<1>2. \A f : f \in Talk!Frame => <<f>> \in Seq(Talk!Frame)
  OBVIOUS
<1>3. <<>> \in Seq(Talk!Frame)
  OBVIOUS
<1> QED BY ONLY <1>1, <1>2, <1>3

\* What handing a frame to the socket adds to the wire.
LEMMA SayTyped ==
    ASSUME Talk!TypeOK, NEW fs \in Seq(Talk!Frame), Talk!Say(fs)
    PROVE  talkWire' \in Seq(Talk!Frame)
BY DEF Talk!TypeOK, Talk!Say

LEMMA Joined ==
    ASSUME NEW s \in Seq(Talk!Frame)
    PROVE  /\ s \o <<Talk!TypingFrame(TRUE)>> = Append(s, Talk!TypingFrame(TRUE))
           /\ s \o <<Talk!TypingFrame(FALSE)>> = Append(s, Talk!TypingFrame(FALSE))
           /\ s \o <<Talk!Text>> = Append(s, Talk!Text)
<1>1. Talk!TypingFrame(TRUE) \in Talk!Frame /\ Talk!TypingFrame(FALSE) \in Talk!Frame
      /\ Talk!Text \in Talk!Frame
  <2>1. TRUE \in BOOLEAN /\ FALSE \in BOOLEAN
    OBVIOUS
  <2> QED BY <2>1, Worded
<1> QED BY <1>1, AppendIsConcat

LEMMA TalkTyped ==
    ASSUME Talk!TypeOK, [Talk!Next]_Talk!vars
    PROVE  Talk!TypeOK'
<1>1. CASE Talk!Type
  <2>2. talkWire' \in Seq(Talk!Frame)
    BY <1>1, SayTyped, WordedAlone DEF Talk!Type
  <2> QED BY <1>1, <2>2 DEF Talk!Type, Talk!TypeOK, Talk!gesture, Talk!partner
<1>2. CASE Talk!Starter
  BY <1>2 DEF Talk!Starter, Talk!TypeOK, Talk!gesture, Talk!partner
<1>3. CASE Talk!Pause
  <2>2. talkWire' \in Seq(Talk!Frame)
    BY <1>3, SayTyped, WordedAlone DEF Talk!Pause
  <2> QED BY <1>3, <2>2 DEF Talk!Pause, Talk!TypeOK, Talk!gesture, Talk!partner
<1>4. CASE Talk!Submit
  <2>1. <<Talk!Text>> \o (IF typingSent THEN <<Talk!TypingFrame(FALSE)>> ELSE <<>>)
          \in Seq(Talk!Frame)
    <3>1. <<Talk!Text>> \o <<Talk!TypingFrame(FALSE)>> \in Seq(Talk!Frame)
          /\ <<Talk!Text>> \o <<>> \in Seq(Talk!Frame)
      BY WordedAlone, ConcatProperties
    <3> QED BY <3>1
  <2>2. talkWire' \in Seq(Talk!Frame)
    BY <1>4, <2>1, SayTyped DEF Talk!Submit
  <2> QED BY <1>4, <2>2 DEF Talk!Submit, Talk!TypeOK, Talk!partner
<1>5. CASE Talk!CancelReply \/ Talk!Release \/ Talk!Swipe \/ Talk!Hold \/ Talk!Dismiss
  BY <1>5 DEF Talk!CancelReply, Talk!Release, Talk!Swipe, Talk!Hold, Talk!Dismiss,
     Talk!TypeOK, Talk!typing, Talk!partner
<1>6. CASE \E m \in Messages : Talk!Press(m) \/ Talk!TogglePicker(m)
  BY <1>6 DEF Talk!Press, Talk!TogglePicker, Talk!TypeOK, Talk!typing, Talk!partner
<1>7. CASE \E e \in Emoji : Talk!ToggleReaction(e)
  <2>1. PICK e \in Emoji : Talk!ToggleReaction(e)
    BY <1>7
  <2>2. PICK next \in Emoji \cup {Talk!None} :
            /\ picker # Talk!None /\ picked' = [picked EXCEPT ![picker] = next]
            /\ Talk!Say(<<Talk!Reaction(picker, next)>>) /\ picker' = Talk!None
            /\ UNCHANGED <<talkLine, Talk!typing, press, replyTo, Talk!partner>>
    BY <2>1 DEF Talk!ToggleReaction
  <2>3. picker \in Messages
    BY <2>2 DEF Talk!TypeOK
  <2>4. <<Talk!Reaction(picker, next)>> \in Seq(Talk!Frame)
    BY <2>3, Worded
  <2>5. talkWire' \in Seq(Talk!Frame)
    BY <2>2, <2>4, SayTyped
  <2>6. picked' \in [Messages -> Emoji \cup {Talk!None}]
    BY <2>2 DEF Talk!TypeOK
  <2> QED BY <2>2, <2>5, <2>6 DEF Talk!TypeOK, Talk!typing, Talk!partner
<1>8. CASE Talk!Hear
  <2>1. Tail(talkWire) \in Seq(Talk!Frame) /\ Head(talkWire) \in Talk!Frame
    BY <1>8 DEF Talk!Hear, Talk!TypeOK
  <2>2. /\ talkWire' = Tail(talkWire)
           /\ UNCHANGED <<talkLine, Talk!typing, picked, Talk!gesture>>
        /\ \/ Head(talkWire)[1] = "typing" /\ Talk!HearTyping(Head(talkWire)[2])
           \/ Head(talkWire)[1] = "text" /\ shown' = FALSE /\ UNCHANGED <<hideTimer, copy>>
           \/ /\ Head(talkWire)[1] = "reaction"
              /\ copy' = [copy EXCEPT ![Head(talkWire)[2]] = Head(talkWire)[3]]
              /\ UNCHANGED <<shown, hideTimer>>
    BY <1>8 DEF Talk!Hear
  <2>3. /\ shown' \in BOOLEAN /\ hideTimer' \in BOOLEAN
        /\ copy' \in [Messages -> Emoji \cup {Talk!None}]
    <3>1. CASE Head(talkWire)[1] = "typing"
      <4>1. Head(talkWire)[2] \in BOOLEAN
        BY <2>1, <3>1, Worded
      <4> QED BY <2>2, <3>1, <4>1 DEF Talk!HearTyping, Talk!TypeOK
    <3>2. CASE Head(talkWire)[1] = "text"
      BY <2>2, <3>2 DEF Talk!TypeOK
    <3>3. CASE Head(talkWire)[1] = "reaction"
      <4>1. Head(talkWire)[3] \in Emoji \cup {Talk!None}
        BY <2>1, <3>3, Worded
      <4> QED BY <2>2, <3>3, <4>1 DEF Talk!TypeOK
    <3> QED BY <2>2, <3>1, <3>2, <3>3
  <2> QED BY <2>1, <2>2, <2>3 DEF Talk!TypeOK, Talk!typing, Talk!gesture
<1>9. CASE Talk!Hide
  BY <1>9 DEF Talk!Hide, Talk!TypeOK, Talk!typing, Talk!gesture
<1>10. CASE Talk!Drop
  BY <1>10, WordedAlone DEF Talk!Drop, Talk!TypeOK, Talk!typing, Talk!gesture,
     Talk!partner
<1>11. CASE Talk!Closed
  BY <1>11 DEF Talk!Closed, Talk!TypeOK, Talk!typing, Talk!gesture, Talk!partner
<1>12. CASE UNCHANGED Talk!vars
  BY <1>12 DEF Talk!vars, Talk!TypeOK, Talk!typing, Talk!gesture, Talk!partner
<1> QED BY <1>1, <1>2, <1>3, <1>4, <1>5, <1>6, <1>7, <1>8, <1>9, <1>10, <1>11, <1>12
    DEF Talk!Next, Talk!User

\* What the step of a frame that is sent keeps.
LEMMA FaithfulStep ==
    ASSUME Talk!TypeOK, Faithful, [Talk!Next]_Talk!vars
    PROVE  Faithful'
<1>1. SUFFICES ASSUME talkLine' = "open" PROVE Faithful'
  BY DEF Faithful
<1>2. talkLine = "open"
  <2>1. talkLine' = talkLine \/ talkLine' \in {"closing", "closed"}
    BY DEF Talk!Next, Talk!User, Talk!Type, Talk!Starter, Talk!Pause, Talk!Submit,
       Talk!CancelReply, Talk!Release, Talk!Swipe, Talk!Hold, Talk!Dismiss,
           Talk!Press, Talk!TogglePicker, Talk!ToggleReaction, Talk!Hear, Talk!Hide,
       Talk!Drop, Talk!Closed, Talk!vars
  <2> QED BY <1>1, <2>1
<1>3. /\ \A m \in Messages : Said(talkWire, m, picked[m], copy[m])
      /\ Heard(talkWire, typingSent, shown)
  BY <1>2 DEF Faithful
<1>4. /\ talkWire \in Seq(Talk!Frame) /\ typingSent \in BOOLEAN /\ shown \in BOOLEAN
      /\ picked \in [Messages -> Emoji \cup {Talk!None}]
         /\ copy \in [Messages -> Emoji \cup {Talk!None}]
      /\ picker \in Messages \cup {Talk!None}
  BY DEF Talk!TypeOK
<1>5. SUFFICES /\ \A m \in Messages : Said(talkWire', m, picked'[m], copy'[m])
               /\ Heard(talkWire', typingSent', shown')
  BY DEF Faithful
<1>6. \A e \in Talk!Frame : e[1] # "reaction"
        => \A m \in Messages : Said(Append(talkWire, e), m, picked[m], copy[m])
  BY <1>3, <1>4, SaidAppend DEF About
<1>7. CASE Talk!Type
  <2>1. typingSent' = TRUE /\ UNCHANGED <<picked, copy, shown>>
        /\ talkWire' = talkWire \o (IF typingSent THEN <<>> ELSE <<Talk!TypingFrame(TRUE)>>)
    BY <1>2, <1>7 DEF Talk!Type, Talk!Say, Talk!partner
  <2>2. talkWire' = talkWire \/ talkWire' = Append(talkWire, Talk!TypingFrame(TRUE))
    BY <1>4, <2>1, Joined, ConcatEmptySeq
  <2>3. Heard(talkWire', typingSent', shown')
    BY <2>1 DEF Heard, Ends
  <2> QED BY <1>3, <1>6, <2>1, <2>2, <2>3, Worded
<1>8. CASE Talk!Pause
  <2>1. typingSent' = FALSE /\ UNCHANGED <<picked, copy, shown>>
        /\ talkWire' = talkWire \o <<Talk!TypingFrame(FALSE)>>
    BY <1>2, <1>8 DEF Talk!Pause, Talk!Say, Talk!partner
  <2>2. talkWire' = Append(talkWire, Talk!TypingFrame(FALSE))
    BY <1>4, <2>1, Joined
  <2>3. Talk!TypingFrame(FALSE) # Talk!TypingFrame(TRUE)
    BY DEF Talk!TypingFrame
  <2>4. Heard(Append(talkWire, Talk!TypingFrame(FALSE)), FALSE, shown)
    BY <1>3, <1>4, <2>3, HeardAppend
  <2> QED BY <1>6, <2>1, <2>2, <2>4, Worded
<1>9. CASE Talk!Submit
  <2>1. typingSent' = FALSE /\ UNCHANGED <<picked, copy, shown>>
        /\ talkWire'
             = talkWire \o (<<Talk!Text>> \o (IF typingSent THEN <<Talk!TypingFrame(FALSE)>> ELSE <<>>))
    BY <1>2, <1>9 DEF Talk!Submit, Talk!Say, Talk!partner
  <2>2. Talk!Text # Talk!TypingFrame(TRUE) /\ Talk!TypingFrame(FALSE) # Talk!TypingFrame(TRUE)
    BY DEF Talk!TypingFrame, Talk!Text
  <2>3. Append(talkWire, Talk!Text) \in Seq(Talk!Frame)
        /\ Heard(Append(talkWire, Talk!Text), typingSent, shown)
    <3>1. Append(talkWire, Talk!Text) \in Seq(Talk!Frame)
      BY <1>4, Worded
    <3>2. typingSent \/ Talk!Text = Talk!TypingFrame(FALSE) \/ ~ typingSent
      OBVIOUS
    <3>3. Heard(talkWire, typingSent, shown)
      BY <1>3
    <3>4. Heard(Append(talkWire, Talk!Text), typingSent, shown)
      BY <1>4, <2>2, <3>2, <3>3, HeardAppend
    <3> QED BY <3>1, <3>4
  <2>4. \A m \in Messages : Said(Append(talkWire, Talk!Text), m, picked[m], copy[m])
    BY <1>6, Worded
  <2>5. CASE typingSent
    <3>1. talkWire' = Append(Append(talkWire, Talk!Text), Talk!TypingFrame(FALSE))
      <4>1. talkWire \o (<<Talk!Text>> \o <<Talk!TypingFrame(FALSE)>>)
              = (talkWire \o <<Talk!Text>>) \o <<Talk!TypingFrame(FALSE)>>
        BY <1>4, WordedAlone, ConcatAssociative
      <4>2. talkWire \o <<Talk!Text>> = Append(talkWire, Talk!Text)
        BY <1>4, Joined
      <4>3. Append(talkWire,
            Talk!Text) \o <<Talk!TypingFrame(FALSE)>> = Append(Append(talkWire, Talk!Text),
            Talk!TypingFrame(FALSE))
        BY <2>3, Joined
      <4> QED BY <2>1, <2>5, <4>1, <4>2, <4>3
    <3>2. Heard(Append(Append(talkWire, Talk!Text), Talk!TypingFrame(FALSE)), FALSE, shown)
      BY <1>4, <2>2, <2>3, HeardAppend
    <3>3. \A m \in Messages : Said(Append(Append(talkWire, Talk!Text),
          Talk!TypingFrame(FALSE)), m, picked[m], copy[m])
      BY <2>3, <2>4, SaidAppend, Worded DEF About
    <3> QED BY <2>1, <3>1, <3>2, <3>3
  <2>6. CASE ~ typingSent
    <3>1. talkWire' = Append(talkWire, Talk!Text)
      <4>1. <<Talk!Text>> \o <<>> = <<Talk!Text>>
        BY WordedAlone, ConcatEmptySeq
      <4> QED BY <1>4, <2>1, <2>6, <4>1, Joined
    <3> QED BY <1>4, <2>1, <2>3, <2>4, <2>6, <3>1
  <2> QED BY <2>5, <2>6
<1>10. CASE \E e \in Emoji : Talk!ToggleReaction(e)
  <2>1. PICK e \in Emoji : Talk!ToggleReaction(e)
    BY <1>10
  <2>2. PICK next : /\ picker # Talk!None /\ picked' = [picked EXCEPT ![picker] = next]
                    /\ talkWire' = talkWire \o <<Talk!Reaction(picker, next)>>
                    /\ UNCHANGED <<typingSent, shown, copy>>
    BY <1>2, <2>1 DEF Talk!ToggleReaction, Talk!Say, Talk!typing, Talk!partner
  <2>3. talkWire' = Append(talkWire, Talk!Reaction(picker, next)) /\ picker \in Messages
    BY <1>4, <2>2
  <2>4. ASSUME NEW m \in Messages PROVE Said(talkWire', m, picked'[m], copy'[m])
    <3>1. CASE m = picker
      <4>1. About(Talk!Reaction(picker, next), m)
            /\ Talk!Reaction(picker, next)[3] = next /\ picked'[m] = next
        BY <1>4, <2>2, <3>1, Worded DEF About
      <4>2. Said(Append(talkWire, Talk!Reaction(picker, next)), m, next, copy[m])
        BY <1>4, <4>1, SaidAppend
      <4> QED BY <2>2, <2>3, <4>1, <4>2
    <3>2. CASE m # picker
      <4>1. ~ About(Talk!Reaction(picker, next), m) /\ picked'[m] = picked[m]
        BY <1>4, <2>2, <3>2, Worded DEF About
      <4>2. Said(Append(talkWire, Talk!Reaction(picker, next)), m, picked[m], copy[m])
        BY <1>3, <1>4, <4>1, SaidAppend
      <4> QED BY <2>2, <2>3, <4>1, <4>2
    <3> QED BY <3>1, <3>2
  <2>5. Talk!Reaction(picker, next) # Talk!TypingFrame(TRUE)
    BY Worded
  <2>6. Heard(Append(talkWire, Talk!Reaction(picker, next)), typingSent, shown)
    <3>1. typingSent \/ ~ typingSent
      OBVIOUS
    <3> QED BY <1>3, <1>4, <2>5, <3>1, HeardAppend
  <2> QED BY <2>2, <2>3, <2>4, <2>6
<1>11. CASE Talk!Hear
  <2>1. /\ talkWire # <<>> /\ talkWire' = Tail(talkWire) /\ UNCHANGED <<typingSent, picked>>
        /\ \/ Head(talkWire)[1] = "typing" /\ Talk!HearTyping(Head(talkWire)[2])
           \/ Head(talkWire)[1] = "text" /\ shown' = FALSE /\ UNCHANGED <<hideTimer, copy>>
           \/ /\ Head(talkWire)[1] = "reaction"
              /\ copy' = [copy EXCEPT ![Head(talkWire)[2]] = Head(talkWire)[3]]
              /\ UNCHANGED <<shown, hideTimer>>
    BY <1>11 DEF Talk!Hear, Talk!typing
  <2>2. Head(talkWire) \in Talk!Frame
    BY <1>4, <2>1
  <2>3. ASSUME NEW m \in Messages PROVE Said(talkWire', m, picked'[m], copy'[m])
    <3>1. copy'[m] = IF About(Head(talkWire), m) THEN Head(talkWire)[3] ELSE copy[m]
      BY <1>4, <2>1, <2>2, Worded DEF About, Talk!HearTyping
    <3> QED BY <1>3, <1>4, <2>1, <3>1, SaidTail
  <2>4. shown' => Head(talkWire) = Talk!TypingFrame(TRUE) \/ (shown
        /\ Head(talkWire) # Talk!TypingFrame(FALSE))
    <3>1. CASE Head(talkWire)[1] = "typing"
      <4>1. shown' = Head(talkWire)[2] /\ Head(talkWire)[2] \in BOOLEAN
            /\ Head(talkWire) = Talk!TypingFrame(Head(talkWire)[2])
        BY <2>1, <2>2, <3>1, Worded DEF Talk!HearTyping
      <4>2. CASE Head(talkWire)[2] = TRUE
        <5>1. Head(talkWire) = Talk!TypingFrame(TRUE)
          BY <4>1, <4>2, Zenon
        <5> QED BY <5>1
      <4>3. CASE Head(talkWire)[2] = FALSE
        BY <4>1, <4>3
      <4> QED BY <4>1, <4>2, <4>3
    <3>2. CASE Head(talkWire)[1] = "text"
      BY <2>1, <3>2
    <3>3. CASE Head(talkWire)[1] = "reaction"
      BY <2>1, <3>3, Worded
    <3> QED BY <2>1, <3>1, <3>2, <3>3
  <2>5. Heard(talkWire', typingSent, shown')
    BY <1>3, <1>4, <2>1, <2>4, HeardTail
  <2> QED BY <2>1, <2>3, <2>5
<1>12. CASE Talk!Hide
  <2>1. shown' = FALSE /\ UNCHANGED <<talkWire, typingSent, picked, copy>>
    BY <1>12 DEF Talk!Hide, Talk!typing
  <2> QED BY <1>3, <2>1 DEF Heard
<1>13. CASE \/ Talk!Starter \/ Talk!CancelReply \/ Talk!Release \/ Talk!Swipe
               \/ Talk!Hold \/ Talk!Dismiss \/ UNCHANGED Talk!vars
            \/ \E m \in Messages : Talk!Press(m) \/ Talk!TogglePicker(m)
  <2>1. UNCHANGED <<talkWire, typingSent, shown, picked, copy>>
    BY <1>13 DEF Talk!Starter, Talk!CancelReply, Talk!Release, Talk!Swipe, Talk!Hold,
       Talk!Dismiss, Talk!Press, Talk!TogglePicker, Talk!vars,
                 Talk!typing, Talk!gesture, Talk!partner
  <2> QED BY <1>3, <2>1
<1>14. CASE Talk!Drop \/ Talk!Closed
  BY <1>1, <1>14 DEF Talk!Drop, Talk!Closed
<1> QED BY <1>7, <1>8, <1>9, <1>10, <1>11, <1>12, <1>13, <1>14 DEF Talk!Next, Talk!User

\* So the reactions and the typing indicator that are shown are true.
LEMMA FaithfulIsSafe ==
    ASSUME Talk!TypeOK, Faithful
    PROVE  Talk!TalkSafe
<1>1. ASSUME talkLine = "open", talkWire = <<>> PROVE copy = picked
  <2>1. \A m \in Messages : copy[m] = picked[m]
    <3>1. Len(talkWire) = 0
      BY <1>1
    <3>2. \A m \in Messages : Said(talkWire, m, picked[m], copy[m])
      BY <1>1 DEF Faithful
    <3>3. \A m : \A i \in 1 .. Len(talkWire) : ~ About(talkWire[i], m)
      BY <3>1
    <3> QED BY <3>2, <3>3 DEF Said
  <2> QED BY <2>1 DEF Talk!TypeOK
<1>2. ASSUME talkLine = "open", shown
      PROVE  typingSent \/ \E i \in DOMAIN talkWire : talkWire[i] = Talk!TypingFrame(FALSE)
  <2>1. talkWire \in Seq(Talk!Frame)
    BY DEF Talk!TypeOK
  <2>2. Ends(talkWire, 0, typingSent)
    BY <1>2 DEF Faithful, Heard
  <2>3. ASSUME NEW j \in 0 + 1 .. Len(talkWire), talkWire[j] = Talk!TypingFrame(FALSE)
        PROVE  j \in DOMAIN talkWire
    BY <2>1
  <2> QED BY <2>2, <2>3 DEF Ends
<1> QED BY <1>1, <1>2 DEF Talk!TalkSafe, Talk!CopiesAgree, Talk!IndicatorTrue

\* At first nothing is said.
LEMMA TalkBegins == ASSUME Talk!Init PROVE Talk!TypeOK /\ Faithful
<1>1. Talk!TypeOK
  BY WordedAlone DEF Talk!Init, Talk!TypeOK
<1>2. Faithful
  BY DEF Talk!Init, Faithful, Said, Heard
<1> QED BY <1>1, <1>2


-----------------------------------------------------------------------------
(* The ways out (RoomExit).                                                 *)

\* The frames of s tell how the room r or the connection has ended, and are true.
Honest(s, r, f) == \A i \in 1 .. Len(s) : /\ s[i] \in Exit!EndEvents => r = "over"
                                          /\ s[i] = "lost" => f

\* Frames that say how a room or a connection has ended are true, a room that the page
\* shows as ended is over, and so is one whose end was answered.
Spoken ==
    /\ Honest(frames, exitRoom, failed)
    /\ status = "ended" => exitRoom = "over" \/ failed
    /\ \A b \in Exit!Callers : ending[b] = "answered" => exitRoom = "over" \/ failed

\* Who ends the room has claimed the exit, and who has left by another way than the card
\* of an error has no call to wait for, unless there were two.
Claimed ==
    /\ \A b \in Exit!Callers : ending[b] # "none" => endRequested
    /\ \/ exitPage = "room" \/ status = "error" \/ Exit!Both
       \/ \A b \in Exit!Callers : ending[b] \in {"none", "done"}

Leaving == Spoken /\ Claimed

LEMMA HonestJoin ==
    ASSUME NEW s \in Seq(Exit!Frame), NEW t \in Seq(Exit!Frame), NEW r, NEW f,
           Honest(s, r, f), Honest(t, r, f)
    PROVE  Honest(s \o t, r, f)
<1>1. /\ Len(s) \in Nat /\ Len(t) \in Nat /\ Len(s \o t) = Len(s) + Len(t)
      /\ \A i \in 1 .. Len(s) + Len(t) :
           (s \o t)[i] = IF i <= Len(s) THEN s[i] ELSE t[i - Len(s)]
  BY ConcatProperties
<1>2. ASSUME NEW i \in 1 .. Len(s \o t)
      PROVE  ((s \o t)[i] \in Exit!EndEvents => r = "over") /\ ((s \o t)[i] = "lost" => f)
  <2>1. CASE i \in 1 .. Len(s)
    <3>1. (s \o t)[i] = s[i]
      BY <1>1, <2>1
    <3> QED BY <2>1, <3>1 DEF Honest
  <2>2. CASE i \notin 1 .. Len(s)
    <3>1. (s \o t)[i] = t[i - Len(s)] /\ i - Len(s) \in 1 .. Len(t)
      BY <1>1, <2>2
    <3> QED BY <3>1 DEF Honest
  <2> QED BY <2>1, <2>2
<1> QED BY <1>2 DEF Honest

LEMMA HonestTail ==
    ASSUME NEW s \in Seq(Exit!Frame), s # <<>>, NEW r, NEW f, Honest(s, r, f)
    PROVE  /\ Tail(s) \in Seq(Exit!Frame) /\ Head(s) \in Exit!Frame /\ Honest(Tail(s), r, f)
           /\ Head(s) \in Exit!EndEvents => r = "over"
           /\ Head(s) = "lost" => f
<1>1. /\ Len(s) \in Nat \ {0} /\ Len(Tail(s)) = Len(s) - 1 /\ Head(s) = s[1]
      /\ \A i \in 1 .. Len(s) - 1 : Tail(s)[i] = s[i + 1]
      /\ Tail(s) \in Seq(Exit!Frame) /\ Head(s) \in Exit!Frame
  OBVIOUS
<1>2. 1 \in 1 .. Len(s) /\ \A i \in 1 .. Len(s) - 1 : i + 1 \in 1 .. Len(s)
  BY <1>1
<1> QED BY <1>1, <1>2 DEF Honest

\* A sequence of frames that are true of a room that is over.
LEMMA HonestOver ==
    ASSUME NEW s, NEW f, \A i \in 1 .. Len(s) : s[i] # "lost"
    PROVE  Honest(s, "over", f)
BY DEF Honest

\* The frames that the server sends when the room ends.
LEMMA Endings ==
    /\ \A k \in Exit!EndEvents, t \in {<<>>, <<"ended">>} :
         <<k>> \o t \in Seq(Exit!Frame)
         /\ \A i \in 1 .. Len(<<k>> \o t) : (<<k>> \o t)[i] # "lost"
    /\ <<"skipped", "ended">> \in Seq(Exit!Frame) /\ <<"ended">> \in Seq(Exit!Frame)
    /\ <<"partner">> \in Seq(Exit!Frame)
    /\ \A i \in 1 .. Len(<<"skipped", "ended">>) : <<"skipped", "ended">>[i] # "lost"
    /\ \A i \in 1 .. Len(<<"ended">>) : <<"ended">>[i] # "lost"
<1>1. ASSUME NEW k \in Exit!EndEvents
      PROVE  /\ <<k>> \o <<>> \in Seq(Exit!Frame) /\ <<k>> \o <<"ended">> \in Seq(Exit!Frame)
             /\ \A i \in 1 .. Len(<<k>> \o <<>>) : (<<k>> \o <<>>)[i] # "lost"
             /\ \A i \in 1 .. Len(<<k>> \o <<"ended">>) : (<<k>> \o <<"ended">>)[i] # "lost"
  <2>1. <<k>> \in Seq(Exit!Frame) /\ <<"ended">> \in Seq(Exit!Frame)
        /\ <<>> \in Seq(Exit!Frame)
    BY DEF Exit!Frame, Exit!EndEvents
  <2>2. <<k>> \o <<>> = <<k>>
    BY <2>1, ConcatEmptySeq
  <2>3. /\ <<k>> \o <<"ended">> \in Seq(Exit!Frame) /\ Len(<<k>> \o <<"ended">>) = 2
        /\ (<<k>> \o <<"ended">>)[1] = k /\ (<<k>> \o <<"ended">>)[2] = "ended"
    BY <2>1, ConcatProperties
  <2>4. k # "lost"
    BY DEF Exit!EndEvents
  <2> QED BY <2>1, <2>2, <2>3, <2>4
<1> QED BY <1>1 DEF Exit!Frame, Exit!EndEvents

\* A render shows a page of the room, or leaves it for the next search.
LEMMA RenderTyped ==
    ASSUME Exit!TypeOK, NEW s \in {"connecting", "connected", "ended", "error"},
           NEW p \in BOOLEAN,
           Exit!Render(s, p)
    PROVE  /\ status' = s /\ present' = p
           /\ cover' \in [on : {"shown", "leaving", "gone"}, online : BOOLEAN]
           /\ exitPage' \in {"room", "home", "search"}
           /\ \/ exitPage' = exitPage
              \/ /\ exitPage = "room" /\ exitPage' = "search" /\ s = "ended"
                 /\ ~ endRequested /\ report = "closed"
<1>1. cover \in [on : {"shown", "leaving", "gone"}, online : BOOLEAN]
      /\ exitPage \in {"room", "home", "search"}
  BY DEF Exit!TypeOK
<1>2. cover' \in [on : {"shown", "leaving", "gone"}, online : BOOLEAN]
  <2>1. CASE Exit!Waiting(s, p) /\ cover.on = "shown"
    <3>1. cover' = [on |-> "shown", online |-> s = "connected"]
      BY <2>1 DEF Exit!Render, Exit!Rendered
    <3>2. (s = "connected") \in BOOLEAN
      OBVIOUS
    <3> QED BY <3>1, <3>2
  <2>2. CASE ~ (Exit!Waiting(s, p) /\ cover.on = "shown") /\ cover.on = "shown"
    <3>1. cover' = [cover EXCEPT !.on = "leaving"]
      BY <2>2 DEF Exit!Render, Exit!Rendered
    <3> QED BY <1>1, <3>1
  <2>3. CASE cover.on # "shown"
    <3>1. cover' = cover
      BY <2>3 DEF Exit!Render, Exit!Rendered
    <3> QED BY <1>1, <3>1
  <2> QED BY <2>1, <2>2, <2>3
<1>3. exitPage' = IF exitPage = "room" /\ s = "ended" /\ ~ endRequested /\ report = "closed"
              THEN "search" ELSE exitPage
  BY DEF Exit!Render, Exit!AutoExit, Exit!ExitNotice
<1> QED BY <1>1, <1>2, <1>3 DEF Exit!Render

\* What is put on the socket.
LEMMA PutHonest ==
    ASSUME Exit!TypeOK, NEW s \in Seq(Exit!Frame), Exit!Put(s), NEW r, NEW f,
           Honest(frames, r, f), Honest(s, r, f)
    PROVE  frames' \in Seq(Exit!Frame) /\ Honest(frames', r, f)
<1>1. frames \in Seq(Exit!Frame) /\ (frames' = frames \/ frames' = frames \o s)
  BY DEF Exit!TypeOK, Exit!Put
<1>2. Honest(frames \o s, r, f) /\ frames \o s \in Seq(Exit!Frame)
  BY <1>1, HonestJoin, ConcatProperties
<1> QED BY <1>1, <1>2

\* A frame that is read: a render, or a close that finds the room left already.
LEMMA Read ==
    ASSUME Exit!TypeOK, Exit!Deliver
    PROVE  /\ frames # <<>> /\ frames' = Tail(frames) /\ exitPage = "room"
           /\ UNCHANGED <<exitRoom, skipSent, opened, Exit!flags, lock, Exit!modals,
              ending, failed>>
           /\ byServer' \in BOOLEAN /\ endKind' \in {"none"} \cup Exit!EndEvents
           /\ \/ UNCHANGED <<status, present, cover, exitPage>>
              \/ \E s \in {"connecting", "connected", "ended", "error"}, p \in BOOLEAN :
                   /\ Exit!Render(s, p)
                   /\ s = "ended" => \/ status = "ended" \/ Head(frames) \in Exit!EndEvents
                                     \/ Head(frames) = "lost"
<1>1. /\ frames # <<>> /\ frames' = Tail(frames) /\ exitPage = "room"
      /\ UNCHANGED <<exitRoom, skipSent, opened, Exit!flags, lock, Exit!modals, ending,
         failed>>
  BY DEF Exit!Deliver
<1>2. /\ byServer \in BOOLEAN /\ present \in BOOLEAN
         /\ endKind \in {"none"} \cup Exit!EndEvents
      /\ status \in {"connecting", "connected", "ended", "error"}
  BY DEF Exit!TypeOK
<1>3. PICK f : f = Head(frames)
  OBVIOUS
<1>4. Exit!OnMessage(f) \/ (f \in Exit!Closes /\ Exit!OnClose(f) /\ UNCHANGED byServer)
  BY <1>3 DEF Exit!Deliver
<1>5. CASE f = "partner" /\ Exit!Render(status, TRUE) /\ UNCHANGED <<endKind, byServer>>
  BY <1>1, <1>2, <1>5
<1>6. CASE /\ f \in Exit!EndEvents /\ byServer' = TRUE
           /\ endKind' = IF endKind = "none" THEN f ELSE endKind
           /\ Exit!Render("ended", present)
  BY <1>1, <1>2, <1>3, <1>6
<1>7. CASE /\ f \in Exit!Closes /\ UNCHANGED byServer
           /\ UNCHANGED <<status, endKind, present, cover, exitPage>>
  BY <1>1, <1>2, <1>7
<1>8. CASE /\ f \in Exit!Closes /\ UNCHANGED byServer
           /\ Exit!Render("error", present) /\ UNCHANGED endKind
  BY <1>1, <1>2, <1>8
<1>9. CASE /\ f \in Exit!Closes /\ UNCHANGED byServer /\ f = "lost"
           /\ endKind' = IF endKind = "none" THEN "ended" ELSE endKind
           /\ Exit!Render("ended", present)
  <2>1. endKind' \in {"none"} \cup Exit!EndEvents
    BY <1>2, <1>9 DEF Exit!EndEvents
  <2> QED BY <1>1, <1>2, <1>3, <1>9, <2>1
<1> QED BY <1>4, <1>5, <1>6, <1>7, <1>8, <1>9 DEF Exit!OnMessage, Exit!OnClose

\* Giving up claims the exit together with the call that ends the room.
LEMMA GivesUp ==
    ASSUME Exit!TypeOK, NEW s, Exit!GiveUp(s)
    PROVE  /\ stranded' = TRUE
           /\ \/ UNCHANGED <<handled, endRequested, ending>>
              \/ /\ handled' = TRUE /\ endRequested' = TRUE
                 /\ ending' = [ending EXCEPT !["wait"] = "sent"]
BY DEF Exit!GiveUp

\* Of each step: the types, what it leaves of the page, and the invariant.
Kept == Exit!TypeOK' /\ Leaving' /\ Exit!LeavesWell

LEMMA ServerSteps ==
    ASSUME Exit!TypeOK, Leaving,
           \/ Exit!PartnerActs \/ Exit!LoseLine \/ Exit!Replace \/ Exit!ServeSkip
              \/ Exit!Refuse \/ \E b \in Exit!Callers : Exit!LoseEnd(b) \/ Exit!ServeEnd(b)
           \/ \E kind \in Exit!EndEvents : Exit!RoomEnds(kind)
    PROVE  Kept
<1>1. /\ Honest(frames, exitRoom, failed) /\ frames \in Seq(Exit!Frame)
         /\ exitRoom \in {"active", "over"}
      /\ status = "ended" => exitRoom = "over" \/ failed
      /\ \A b \in Exit!Callers : ending[b] = "answered" => exitRoom = "over" \/ failed
      /\ Claimed
  BY DEF Leaving, Spoken, Exit!TypeOK
<1>2. ASSUME UNCHANGED <<Exit!hook, Exit!flags, cover, lock, Exit!modals, exitPage>>,
             frames' \in Seq(Exit!Frame), exitRoom' \in {"active", "over"},
             skipSent' \in BOOLEAN,
             failed' \in BOOLEAN,
             \/ ending' = ending
             \/ \E b \in Exit!Callers :
                  ending[b] = "sent" /\ ending' = [ending EXCEPT ![b] = "answered"],
             Honest(frames', exitRoom', failed'),
             status = "ended" => exitRoom' = "over" \/ failed',
             \A b \in Exit!Callers : ending'[b] = "answered" => exitRoom' = "over" \/ failed'
      PROVE  Kept
  <2>1. /\ ending' \in [Exit!Callers -> {"none", "sent", "answered", "done"}]
        /\ \A b \in Exit!Callers : /\ ending'[b] = "none" <=> ending[b] = "none"
                                   /\ ending[b] = "done" => ending'[b] = "done"
    BY <1>2 DEF Exit!TypeOK
  <2>2. Exit!TypeOK'
    BY <1>2, <2>1 DEF Exit!TypeOK, Exit!hook, Exit!flags, Exit!modals
  <2>3. Claimed'
    <3>1. Exit!Both => Exit!Both'
      BY <2>1 DEF Exit!Both, Exit!Callers
    <3>2. ASSUME \A b \in Exit!Callers : ending[b] \in {"none", "done"}
          PROVE  \A b \in Exit!Callers : ending'[b] \in {"none", "done"}
      BY <2>1, <3>2
    <3> QED BY <1>1, <1>2, <2>1, <3>1, <3>2 DEF Claimed, Exit!hook, Exit!flags
  <2>4. Spoken'
    BY <1>2 DEF Spoken, Exit!hook
  <2>5. Exit!LeavesWell
    BY <1>2 DEF Exit!LeavesWell, Exit!EndMeansStop, Exit!OverBeforeSearch, Exit!LeftOnce,
       Exit!ReportKept
  <2> QED BY <2>2, <2>3, <2>4, <2>5 DEF Kept, Leaving
<1>3. CASE Exit!PartnerActs
  <2>1. Honest(<<"partner">>, exitRoom, failed)
    BY DEF Honest, Exit!EndEvents
  <2>2. frames' \in Seq(Exit!Frame) /\ Honest(frames', exitRoom, failed)
    BY <1>1, <1>3, <2>1, PutHonest, Endings DEF Exit!PartnerActs
  <2> QED BY <1>1, <1>2, <1>3, <2>2 DEF Exit!PartnerActs, Exit!TypeOK
<1>4. ASSUME NEW b \in Exit!Callers, Exit!LoseEnd(b) PROVE Kept
  <2>1. Honest(frames, exitRoom, TRUE)
    BY <1>1 DEF Honest
  <2> QED BY <1>1, <1>2, <1>4, <2>1 DEF Exit!LoseEnd, Exit!TypeOK, Exit!server
<1>5. CASE Exit!LoseLine
  <2>1. Honest(<<"lost">>, exitRoom, TRUE) /\ <<"lost">> \in Seq(Exit!Frame)
    BY DEF Honest, Exit!EndEvents, Exit!Frame, Exit!Closes
  <2> QED BY <1>1, <1>2, <1>5, <2>1 DEF Exit!LoseLine, Exit!TypeOK
<1>6. CASE Exit!Replace
  <2>1. frames' = frames \o <<"replaced">> /\ frames' \in Seq(Exit!Frame)
    <3>1. "replaced" \in Exit!Frame
      BY DEF Exit!Frame, Exit!Closes
    <3> QED BY <1>1, <1>6, <3>1, AppendIsConcat DEF Exit!Replace
  <2>2. Honest(<<"replaced">>, exitRoom, failed) /\ <<"replaced">> \in Seq(Exit!Frame)
    BY DEF Honest, Exit!EndEvents, Exit!Frame, Exit!Closes
  <2>3. Honest(frames', exitRoom, failed)
    BY <1>1, <2>1, <2>2, HonestJoin
  <2> QED BY <1>1, <1>2, <1>6, <2>1, <2>3 DEF Exit!Replace, Exit!TypeOK
<1>7. CASE Exit!Refuse
  <2>1. PICK code \in {"notFound", "refused"} : frames' = <<code>>
    BY <1>7 DEF Exit!Refuse
  <2>2. Honest(frames', exitRoom, failed) /\ frames' \in Seq(Exit!Frame)
    BY <2>1 DEF Honest, Exit!EndEvents, Exit!Frame, Exit!Closes
  <2> QED BY <1>1, <1>2, <1>7, <2>2 DEF Exit!Refuse, Exit!TypeOK
<1>8. CASE \E kind \in Exit!EndEvents : Exit!RoomEnds(kind)
  <2>1. PICK kind \in Exit!EndEvents : Exit!RoomEnds(kind)
    BY <1>8
  <2>2. PICK trail \in {<<>>, <<"ended">>} : Exit!Put(<<kind>> \o trail)
    BY <2>1 DEF Exit!RoomEnds
  <2>3. Honest(frames, "over", failed) /\ Honest(<<kind>> \o trail, "over", failed)
        /\ <<kind>> \o trail \in Seq(Exit!Frame)
    BY <1>1, Endings, HonestOver DEF Honest
  <2>4. frames' \in Seq(Exit!Frame) /\ Honest(frames', "over", failed)
    BY <2>2, <2>3, PutHonest
  <2> QED BY <1>2, <2>1, <2>4 DEF Exit!RoomEnds, Exit!TypeOK
<1>9. CASE Exit!ServeSkip
  <2>1. \/ exitRoom' = "over" /\ Exit!Put(<<"skipped", "ended">>)
        \/ UNCHANGED <<exitRoom, frames>>
    BY <1>9 DEF Exit!ServeSkip
  <2>2. CASE UNCHANGED <<exitRoom, frames>>
    BY <1>1, <1>2, <1>9, <2>2 DEF Exit!ServeSkip, Exit!TypeOK
  <2>3. CASE exitRoom' = "over" /\ Exit!Put(<<"skipped", "ended">>)
    <3>1. Honest(frames, "over", failed) /\ Honest(<<"skipped", "ended">>, "over", failed)
      BY <1>1, Endings, HonestOver DEF Honest
    <3>2. frames' \in Seq(Exit!Frame) /\ Honest(frames', "over", failed)
      BY <2>3, <3>1, PutHonest, Endings
    <3> QED BY <1>2, <1>9, <2>3, <3>2 DEF Exit!ServeSkip, Exit!TypeOK
  <2> QED BY <2>1, <2>2, <2>3
<1>10. ASSUME NEW b \in Exit!Callers, Exit!ServeEnd(b) PROVE Kept
  <2>1. \/ exitRoom' = "over" /\ Exit!Put(<<"ended">>)
        \/ exitRoom = "over" /\ UNCHANGED <<exitRoom, frames>>
    BY <1>1, <1>10 DEF Exit!ServeEnd
  <2>2. CASE exitRoom = "over" /\ UNCHANGED <<exitRoom, frames>>
    BY <1>1, <1>2, <1>10, <2>2 DEF Exit!ServeEnd, Exit!TypeOK
  <2>3. CASE exitRoom' = "over" /\ Exit!Put(<<"ended">>)
    <3>1. Honest(frames, "over", failed) /\ Honest(<<"ended">>, "over", failed)
      BY <1>1, Endings, HonestOver DEF Honest
    <3>2. frames' \in Seq(Exit!Frame) /\ Honest(frames', "over", failed)
      BY <2>3, <3>1, PutHonest, Endings
    <3> QED BY <1>2, <1>10, <2>3, <3>2 DEF Exit!ServeEnd, Exit!TypeOK
  <2> QED BY <2>1, <2>2, <2>3
<1> QED BY <1>3, <1>4, <1>5, <1>6, <1>7, <1>8, <1>9, <1>10

\* The page of the room reads a frame, or shows that it has opened.
LEMMA ReaderSteps ==
    ASSUME Exit!TypeOK, Leaving, Exit!Deliver \/ Exit!Open
    PROVE  Kept
<1>1. /\ Honest(frames, exitRoom, failed) /\ frames \in Seq(Exit!Frame)
         /\ exitRoom \in {"active", "over"}
      /\ status = "ended" => exitRoom = "over" \/ failed
      /\ \A b \in Exit!Callers : ending[b] = "answered" => exitRoom = "over" \/ failed
      /\ \A b \in Exit!Callers : ending[b] # "none" => endRequested
  BY DEF Leaving, Spoken, Claimed, Exit!TypeOK
<1>2. ASSUME exitPage = "room", UNCHANGED <<exitRoom, skipSent, Exit!flags, lock,
             Exit!modals, ending, failed>>,
             frames' \in Seq(Exit!Frame), Honest(frames', exitRoom, failed),
             byServer' \in BOOLEAN, opened' \in BOOLEAN,
             endKind' \in {"none"} \cup Exit!EndEvents,
             \/ UNCHANGED <<status, present, cover, exitPage>>
             \/ \E s \in {"connecting", "connected", "ended", "error"}, p \in BOOLEAN :
                  Exit!Render(s, p) /\ (s = "ended" => exitRoom = "over" \/ failed)
      PROVE  Kept
  <2>1. /\ status' \in {"connecting", "connected", "ended", "error"} /\ present' \in BOOLEAN
        /\ cover' \in [on : {"shown", "leaving", "gone"}, online : BOOLEAN]
        /\ exitPage' \in {"room", "home", "search"}
        /\ status' = "ended" => exitRoom = "over" \/ failed
        /\ \/ exitPage' = exitPage
           \/ /\ exitPage' = "search" /\ status' = "ended" /\ ~ endRequested
              /\ report = "closed"
    <3>1. CASE UNCHANGED <<status, present, cover, exitPage>>
      BY <1>1, <3>1 DEF Exit!TypeOK
    <3>2. CASE \E s \in {"connecting", "connected", "ended", "error"}, p \in BOOLEAN :
                  Exit!Render(s, p) /\ (s = "ended" => exitRoom = "over" \/ failed)
      BY <3>2, RenderTyped
    <3> QED BY <1>2, <3>1, <3>2
  <2>2. Exit!TypeOK'
    BY <1>2, <2>1 DEF Exit!TypeOK, Exit!flags, Exit!modals
  <2>3. Spoken'
    BY <1>1, <1>2, <2>1 DEF Spoken
  <2>4. Claimed'
    BY <1>1, <1>2, <2>1 DEF Claimed, Exit!flags, Exit!TypeOK
  <2>5. Exit!LeavesWell
    BY <1>1, <1>2, <2>1 DEF Exit!LeavesWell, Exit!EndMeansStop, Exit!OverBeforeSearch,
       Exit!LeftOnce, Exit!ReportKept, Exit!modals, Exit!Callers
  <2> QED BY <2>2, <2>3, <2>4, <2>5 DEF Kept, Leaving
<1>3. CASE Exit!Deliver
  <2>1. /\ frames # <<>> /\ frames' = Tail(frames) /\ exitPage = "room"
        /\ UNCHANGED <<exitRoom, skipSent, opened, Exit!flags, lock, Exit!modals, ending,
           failed>>
        /\ byServer' \in BOOLEAN /\ endKind' \in {"none"} \cup Exit!EndEvents
        /\ \/ UNCHANGED <<status, present, cover, exitPage>>
           \/ \E s \in {"connecting", "connected", "ended", "error"}, p \in BOOLEAN :
                /\ Exit!Render(s, p)
                /\ s = "ended" => \/ status = "ended" \/ Head(frames) \in Exit!EndEvents
                                  \/ Head(frames) = "lost"
    BY <1>3, Read
  <2>2. /\ frames' \in Seq(Exit!Frame) /\ Honest(frames', exitRoom, failed)
        /\ Head(frames) \in Exit!EndEvents => exitRoom = "over"
        /\ Head(frames) = "lost" => failed
    BY <1>1, <2>1, HonestTail
  <2>3. opened' \in BOOLEAN
    BY <2>1 DEF Exit!TypeOK
  <2>4. \/ UNCHANGED <<status, present, cover, exitPage>>
        \/ \E s \in {"connecting", "connected", "ended", "error"}, p \in BOOLEAN :
             Exit!Render(s, p) /\ (s = "ended" => exitRoom = "over" \/ failed)
    BY <1>1, <2>1, <2>2
  <2> QED BY <1>2, <2>1, <2>2, <2>3, <2>4
<1>4. CASE Exit!Open
  <2>1. /\ exitPage = "room" /\ opened' = TRUE /\ Exit!Render("connected", present)
        /\ UNCHANGED <<Exit!server, endKind, byServer, Exit!flags, lock, Exit!modals,
           ending, failed>>
    BY <1>4 DEF Exit!Open
  <2>2. \E s \in {"connecting", "connected", "ended", "error"}, p \in BOOLEAN :
             Exit!Render(s, p) /\ (s = "ended" => exitRoom = "over" \/ failed)
    BY <2>1 DEF Exit!TypeOK
  <2> QED BY <1>1, <1>2, <2>1, <2>2 DEF Exit!TypeOK, Exit!server
<1> QED BY <1>3, <1>4

\* The page gives up, or what its user asks for.
LEMMA PageSteps ==
    ASSUME Exit!TypeOK, Leaving,
           \/ Exit!WaitOver \/ Exit!Countdown \/ Exit!CoverGone \/ Exit!SkipFromCover
              \/ Exit!Stay \/ Exit!ConfirmSkip
           \/ Exit!EndChat \/ Exit!OpenReport \/ Exit!SubmitReport
              \/ \E d \in {"skip", "end"} : Exit!Ask(d)
    PROVE  Kept
<1>1. /\ Honest(frames, exitRoom, failed)
      /\ status = "ended" => exitRoom = "over" \/ failed
      /\ \A b \in Exit!Callers : ending[b] = "answered" => exitRoom = "over" \/ failed
      /\ Claimed
  BY DEF Leaving, Spoken
<1>2. ASSUME exitPage = "room", UNCHANGED <<exitRoom, frames, Exit!hook, exitPage, failed>>,
             skipSent' \in BOOLEAN, stranded' \in BOOLEAN, handled' \in BOOLEAN,
             skipRequested' \in BOOLEAN,
             cover' \in [on : {"shown", "leaving", "gone"}, online : BOOLEAN],
             lock' \in 0 .. Lock, dialog' \in {"none", "skip", "end"},
             report' \in {"closed", "open", "sending"},
             \/ UNCHANGED <<endRequested, ending>>
             \/ /\ endRequested' = TRUE
                /\ \E b \in Exit!Callers : ending' = [ending EXCEPT ![b] = "sent"]
      PROVE  Kept
  <2>1. /\ ending' \in [Exit!Callers -> {"none", "sent", "answered", "done"}]
        /\ endRequested' \in BOOLEAN
        /\ \A b \in Exit!Callers : /\ ending'[b] = "answered" => ending[b] = "answered"
                                   /\ ending'[b] # "none" => endRequested'
    <3> USE DEF Exit!TypeOK
    <3>1. CASE UNCHANGED <<endRequested, ending>>
      BY <1>1, <3>1 DEF Claimed
    <3>2. CASE /\ endRequested' = TRUE
               /\ \E b \in Exit!Callers : ending' = [ending EXCEPT ![b] = "sent"]
      BY <3>2
    <3> QED BY <1>2, <3>1, <3>2
  <2>2. Exit!TypeOK'
    BY <1>2, <2>1 DEF Exit!TypeOK, Exit!hook
  <2>3. Spoken'
    BY <1>1, <1>2, <2>1 DEF Spoken, Exit!hook
  <2>4. Claimed'
    BY <1>2, <2>1 DEF Claimed
  <2>5. Exit!LeavesWell
    BY <1>2 DEF Exit!LeavesWell, Exit!EndMeansStop, Exit!OverBeforeSearch, Exit!LeftOnce,
       Exit!ReportKept
  <2> QED BY <2>2, <2>3, <2>4, <2>5 DEF Kept, Leaving
<1>3. CASE Exit!WaitOver
  <2>1. /\ exitPage = "room" /\ Exit!GiveUp(status)
        /\ UNCHANGED <<Exit!server, Exit!hook, skipRequested, cover, lock, Exit!modals,
           exitPage, failed>>
    BY <1>3 DEF Exit!WaitOver
  <2> QED BY <1>2, <2>1, GivesUp DEF Exit!TypeOK, Exit!server, Exit!modals, Exit!Callers
<1>4. CASE Exit!Countdown
  <2>1. lock' \in 0 .. Lock
    BY <1>4, ScreensAssumption DEF Exit!Countdown, Exit!TypeOK
  <2> QED BY <1>2, <1>4, <2>1 DEF Exit!Countdown, Exit!TypeOK, Exit!server, Exit!flags,
             Exit!modals
<1>5. CASE Exit!CoverGone
  BY <1>2, <1>5 DEF Exit!CoverGone, Exit!TypeOK, Exit!server, Exit!flags, Exit!modals
<1>6. CASE Exit!SkipFromCover
  <2>1. /\ exitPage = "room" /\ skipRequested' = TRUE
        /\ UNCHANGED <<exitRoom, frames, Exit!hook, cover, lock, Exit!modals, exitPage,
           failed>>
        /\ \/ Exit!SendSkip /\ UNCHANGED <<stranded, handled, endRequested, ending>>
           \/ Exit!GiveUp(status) /\ UNCHANGED skipSent
    BY <1>6 DEF Exit!SkipFromCover
  <2>2. CASE Exit!SendSkip /\ UNCHANGED <<stranded, handled, endRequested, ending>>
    <3>1. skipSent' \in BOOLEAN
      BY <2>2 DEF Exit!SendSkip, Exit!TypeOK
    <3> QED BY <1>2, <2>1, <2>2, <3>1 DEF Exit!TypeOK, Exit!modals
  <2>3. CASE Exit!GiveUp(status) /\ UNCHANGED skipSent
    BY <1>2, <2>1, <2>3, GivesUp DEF Exit!TypeOK, Exit!modals, Exit!Callers
  <2> QED BY <2>1, <2>2, <2>3
<1>7. CASE Exit!Stay
  BY <1>2, <1>7 DEF Exit!Stay, Exit!TypeOK, Exit!server, Exit!flags
<1>8. CASE Exit!ConfirmSkip
  <2>1. skipSent' \in BOOLEAN
    BY <1>8 DEF Exit!ConfirmSkip, Exit!SendSkip, Exit!TypeOK
  <2> QED BY <1>2, <1>8, <2>1 DEF Exit!ConfirmSkip, Exit!TypeOK
<1>9. CASE Exit!EndChat
  <2>1. endRequested' = TRUE /\ ending' = [ending EXCEPT !["user"] = "sent"]
        /\ "user" \in Exit!Callers
    BY <1>9 DEF Exit!EndChat, Exit!Callers
  <2> QED BY <1>2, <1>9, <2>1 DEF Exit!EndChat, Exit!TypeOK, Exit!server, Exit!modals
<1>10. CASE Exit!OpenReport
  BY <1>2, <1>10 DEF Exit!OpenReport, Exit!Free, Exit!Uncovered, Exit!TypeOK,
     Exit!server, Exit!flags
<1>11. CASE Exit!SubmitReport
  BY <1>2, <1>11 DEF Exit!SubmitReport, Exit!TypeOK, Exit!server, Exit!flags
<1>12. CASE \E d \in {"skip", "end"} : Exit!Ask(d)
  BY <1>2, <1>12 DEF Exit!Ask, Exit!Free, Exit!Uncovered, Exit!TypeOK, Exit!server,
     Exit!flags
<1> QED BY <1>3, <1>4, <1>5, <1>6, <1>7, <1>8, <1>9, <1>10, <1>11, <1>12

\* What leaves the page without a frame.
LEMMA LeavingSteps ==
    ASSUME Exit!TypeOK, Leaving,
           \/ Exit!ReportAnswered \/ Exit!CloseReport
           \/ \E b \in Exit!Callers : Exit!EndAnswered(b)
           \/ \E to \in {"home", "search"} : Exit!ErrorCard(to)
    PROVE  Kept
<1>1. /\ Honest(frames, exitRoom, failed)
      /\ status = "ended" => exitRoom = "over" \/ failed
      /\ \A b \in Exit!Callers : ending[b] = "answered" => exitRoom = "over" \/ failed
      /\ \A b \in Exit!Callers : ending[b] # "none" => endRequested
      /\ \/ exitPage = "room" \/ status = "error" \/ Exit!Both
         \/ \A b \in Exit!Callers : ending[b] \in {"none", "done"}
  BY DEF Leaving, Spoken, Claimed
<1>2. ASSUME NEW b \in Exit!Callers, Exit!EndAnswered(b) PROVE Kept
  <2>1. /\ ending[b] = "answered" /\ ending' = [ending EXCEPT ![b] = "done"]
        /\ exitPage' = (IF b = "user" THEN "home" ELSE "search")
        /\ UNCHANGED <<Exit!server, Exit!hook, Exit!flags, cover, lock, Exit!modals, failed>>
    BY <1>2 DEF Exit!EndAnswered
  <2>2. /\ ending' \in [Exit!Callers -> {"none", "sent", "answered", "done"}]
        /\ ending'[b] = "done" /\ \A c \in Exit!Callers : c # b => ending'[c] = ending[c]
    BY <1>2, <2>1 DEF Exit!TypeOK
  <2>3. \/ Exit!Both /\ Exit!Both'
        \/ /\ ~ Exit!Both
           /\ \A c \in Exit!Callers : c # b => ending[c] = "none" /\ ending'[c] = "none"
    BY <1>2, <2>1, <2>2 DEF Exit!Both, Exit!Callers
  <2>4. Exit!TypeOK'
    BY <2>1, <2>2 DEF Exit!TypeOK, Exit!server, Exit!hook, Exit!flags, Exit!modals
  <2>5. Spoken'
    BY <1>1, <1>2, <2>1, <2>2 DEF Spoken, Exit!server, Exit!hook
  <2>6. Claimed'
    <3>1. endRequested
      BY <1>1, <1>2, <2>1
    <3>2. \A c \in Exit!Callers : ~ Exit!Both => ending'[c] \in {"none", "done"}
      BY <1>2, <2>2, <2>3
    <3> QED BY <2>1, <2>3, <3>1, <3>2 DEF Claimed, Exit!flags
  <2>7. Exit!LeftOnce
    BY <1>1, <1>2, <2>1 DEF Exit!LeftOnce
  <2>8. Exit!EndMeansStop
    BY <1>2, <2>1 DEF Exit!EndMeansStop, Exit!Callers
  <2>9. Exit!OverBeforeSearch
    BY <1>1, <1>2, <2>1 DEF Exit!OverBeforeSearch
  <2>10. Exit!ReportKept
    BY <2>1, <2>2 DEF Exit!ReportKept
  <2> QED BY <2>4, <2>5, <2>6, <2>7, <2>8, <2>9, <2>10 DEF Kept, Leaving, Exit!LeavesWell
<1>3. CASE Exit!ReportAnswered \/ Exit!CloseReport
  <2>1. PICK to \in {"closed", "open"} :
            /\ exitPage = "room" /\ report' = to /\ Exit!AutoExit(status, endRequested, to)
            /\ UNCHANGED <<Exit!server, Exit!hook, Exit!flags, cover, lock, dialog, ending,
               failed>>
    BY <1>3 DEF Exit!ReportAnswered, Exit!CloseReport
  <2>2. \/ exitPage' = exitPage
        \/ /\ exitPage' = "search" /\ status = "ended" /\ ~ endRequested /\ report' = "closed"
    BY <2>1 DEF Exit!AutoExit, Exit!ExitNotice
  <2>3. Exit!TypeOK'
    BY <2>1, <2>2 DEF Exit!TypeOK, Exit!server, Exit!hook, Exit!flags
  <2>4. Spoken' /\ Claimed'
    BY <1>1, <2>1, <2>2 DEF Spoken, Claimed, Exit!server, Exit!hook, Exit!flags,
       Exit!TypeOK
  <2>5. Exit!LeavesWell
    BY <1>1, <2>1, <2>2 DEF Exit!LeavesWell, Exit!EndMeansStop, Exit!OverBeforeSearch,
       Exit!LeftOnce, Exit!ReportKept, Exit!Callers
  <2> QED BY <2>3, <2>4, <2>5 DEF Kept, Leaving
<1>4. CASE \E to \in {"home", "search"} : Exit!ErrorCard(to)
  <2>1. PICK to \in {"home", "search"} :
            /\ status = "error" /\ exitPage' = to /\ report = "closed"
            /\ UNCHANGED <<Exit!server, Exit!hook, Exit!flags, cover, lock, Exit!modals,
               ending, failed>>
    BY <1>4 DEF Exit!ErrorCard
  <2>2. Exit!TypeOK'
    BY <2>1 DEF Exit!TypeOK, Exit!server, Exit!hook, Exit!flags, Exit!modals
  <2>3. Spoken' /\ Claimed'
    BY <1>1, <2>1 DEF Spoken, Claimed, Exit!server, Exit!hook, Exit!flags
  <2>4. Exit!LeavesWell
    BY <2>1 DEF Exit!LeavesWell, Exit!EndMeansStop, Exit!OverBeforeSearch, Exit!LeftOnce,
       Exit!ReportKept, Exit!hook, Exit!modals
  <2> QED BY <2>2, <2>3, <2>4 DEF Kept, Leaving
<1> QED BY <1>2, <1>3, <1>4

\* So every step does.
LEMMA ExitStep ==
    ASSUME Exit!TypeOK, Leaving, [Exit!Next]_Exit!vars
    PROVE  Exit!TypeOK' /\ Leaving' /\ [Exit!LeavesWell]_Exit!vars
<1>1. CASE Exit!Next
  <2>1. Kept
    BY <1>1, ServerSteps, ReaderSteps, PageSteps, LeavingSteps DEF Exit!Next,
       Exit!Browser, Exit!Server, Exit!User, Exit!World
  <2> QED BY <2>1 DEF Kept
<1>2. CASE UNCHANGED Exit!vars
  <2>1. Exit!TypeOK' /\ Leaving'
    BY <1>2 DEF Exit!vars, Exit!server, Exit!hook, Exit!flags, Exit!modals, Exit!TypeOK,
       Leaving, Spoken, Honest, Claimed, Exit!Both
  <2> QED BY <1>2, <2>1
<1> QED BY <1>1, <1>2

LEMMA ExitBegins == ASSUME Exit!Init PROVE Exit!TypeOK /\ Leaving
<1>1. Exit!TypeOK
  <2>1. <<>> \in Seq(Exit!Frame) /\ Lock \in 0 .. Lock
    BY ScreensAssumption
  <2>2. cover \in [on : {"shown", "leaving", "gone"}, online : BOOLEAN]
    <3>1. cover = [on |-> "shown", online |-> FALSE]
      BY DEF Exit!Init
    <3> QED BY <3>1
  <2> QED BY <2>1, <2>2 DEF Exit!Init, Exit!TypeOK
<1>2. Leaving
  BY DEF Exit!Init, Leaving, Spoken, Honest, Claimed, Exit!Callers
<1> QED BY <1>1, <1>2
-----------------------------------------------------------------------------
\* "Making 'not waiting' the last word" (releaseQueueSlot): on the search screen a
\* user who has stopped is neither queued nor missed in a room, unless a call failed or
\* two were in the air together.
THEOREM NoGhostOnScreen == Spec => []NoGhost
<1>1. Search!NoCall \notin Calls
  BY ScreensAssumption DEF Search!NoCall
<1>2. Search!Spec => []Search!NoGhost
  BY <1>1, Search!StoppedLeavesNoGhost
<1>3. Search!NoGhost => NoGhost
  BY DEF NoGhost
<1> QED BY <1>2, <1>3, SearchAlone, PTL

\* The game of the search screen never freezes, its tower stands, and it ends with the
\* search (stackEngine.ts).
THEOREM GameSafeOnScreen == Spec => []GameSafe
<1>1. Game!Canvases
  BY ScreensAssumption DEF Game!Canvases
<1>2. Game!Spec => []Game!GameSafe
  <2>1. Eps \in Nat
    BY ScreensAssumption
  <2> QED BY <1>1, <2>1, Game!GameIsSafe
<1>3. Game!GameSafe => GameSafe
  BY DEF GameSafe
<1> QED BY <1>2, <1>3, GameAlone, PTL

\* With nothing in flight, both clients of the room know each other or neither does, and
\* they do exactly when the server has recorded the reveal (useChatSocket.ts,
\* respond_to_reveal_request).
THEOREM RevealAgreesOnScreen == Spec => []RevealAgrees
<1>1. Pair!Couple
  BY ScreensAssumption DEF Pair!Couple
<1>2. Pair!Spec => []Pair!RevealAgrees
  BY <1>1, Pair!RevealsAgree
<1>3. Pair!RevealAgrees => RevealAgrees
  BY DEF RevealAgrees
<1> QED BY <1>2, <1>3, PairAlone, PTL

-----------------------------------------------------------------------------
\* A message of the transcript is on the screen once, no draft beside its copy, and the
\* reactions and the typing indicator that are shown are true (ChatRoomPage.tsx,
\* useChatSocket.ts).
THEOREM RoomSafeOnScreen == Spec => []RoomSafe
<1>1. Timeline!Spec => []Timeline!NoDoubles
  <2>1. Timeline!Init => Timeline!TypeOK /\ Answered
    BY TranscriptBegins
  <2>2. /\ Timeline!TypeOK /\ Answered /\ [Timeline!Next]_Timeline!vars
        => (Timeline!TypeOK /\ Answered)'
    BY TimelineTyped, AnsweredStep
  <2>3. Timeline!TypeOK /\ Answered => Timeline!NoDoubles
    BY AnsweredOnce
  <2> QED BY <2>1, <2>2, <2>3, PTL DEF Timeline!Spec
<1>2. Talk!Spec => []Talk!TalkSafe
  <2>1. Talk!Init => Talk!TypeOK /\ Faithful
    BY TalkBegins
  <2>2. Talk!TypeOK /\ Faithful /\ [Talk!Next]_Talk!vars => (Talk!TypeOK /\ Faithful)'
    BY TalkTyped, FaithfulStep
  <2>3. Talk!TypeOK /\ Faithful => Talk!TalkSafe
    BY FaithfulIsSafe
  <2> QED BY <2>1, <2>2, <2>3, PTL DEF Talk!Spec
<1>3. Timeline!NoDoubles /\ Talk!TalkSafe => RoomSafe
  BY DEF RoomSafe
<1> QED BY <1>1, <1>2, <1>3, TimelineAlone, TalkAlone, PTL

\* However its ways out interleave, a room is left once, the next search starts only
\* when it is over, an end that the user has claimed starts none, and what a reporter
\* has typed is kept (ChatRoomPage.tsx).
THEOREM RoomLeftWell == Spec => LeavesWell
<1>1. Exit!Spec => [](Exit!TypeOK /\ Leaving) /\ [][Exit!Next]_Exit!vars
  <2>1. Exit!Init => Exit!TypeOK /\ Leaving
    BY ExitBegins
  <2>2. Exit!TypeOK /\ Leaving /\ [Exit!Next]_Exit!vars => (Exit!TypeOK /\ Leaving)'
    BY ExitStep
  <2> QED BY <2>1, <2>2, PTL DEF Exit!Spec
<1>2. Exit!TypeOK /\ Leaving /\ [Exit!Next]_Exit!vars => [Exit!LeavesWell]_vars
  <2> SUFFICES ASSUME Exit!TypeOK, Leaving, [Exit!Next]_Exit!vars
               PROVE  Exit!LeavesWell
    OBVIOUS
  <2>1. CASE UNCHANGED Exit!vars
    BY <2>1 DEF Exit!vars, Exit!server, Exit!hook, Exit!flags, Exit!modals, Exit!LeavesWell,
                Exit!EndMeansStop, Exit!OverBeforeSearch, Exit!LeftOnce, Exit!ReportKept
  <2>2. [Exit!LeavesWell]_Exit!vars
    BY ExitStep
  <2> QED BY <2>1, <2>2
<1> QED BY <1>1, <1>2, ExitAlone, PTL DEF LeavesWell

\* The variables of the screen that runs keep their types.
THEOREM ScreensTypeCorrect == Spec => []TypeOK
<1>1. Search!Spec => []Search!TypeOK
  <2>1. MaxFails \in Nat
    BY ScreensAssumption
  <2> QED BY <2>1, Search!SearchTypeCorrect
<1>2. Game!Spec => []Game!TypeOK
  <2>1. Eps \in Nat /\ MaxRows \in Nat \ {0} /\ MaxChanges \in Nat
    BY ScreensAssumption
  <2>2. Game!Canvases
    BY ScreensAssumption DEF Game!Canvases
  <2> QED BY <2>1, <2>2, Game!GameTypeCorrect
<1>3. Exit!Spec => []Exit!TypeOK
  <2>1. Exit!Init => Exit!TypeOK /\ Leaving
    BY ExitBegins
  <2>2. Exit!TypeOK /\ Leaving /\ [Exit!Next]_Exit!vars => (Exit!TypeOK /\ Leaving)'
    BY ExitStep
  <2> QED BY <2>1, <2>2, PTL DEF Exit!Spec
<1>4. Pair!Spec => []Pair!TypeOK
  <2>1. MaxClicks \in Nat
    BY ScreensAssumption
  <2>2. Pair!Couple
    BY ScreensAssumption DEF Pair!Couple
  <2> QED BY <2>1, <2>2, Pair!PairTypeCorrect
<1>5. Timeline!Spec => []Timeline!TypeOK
  <2>1. Timeline!Init => Timeline!TypeOK
    BY TranscriptBegins
  <2>2. Timeline!TypeOK /\ [Timeline!Next]_Timeline!vars => Timeline!TypeOK'
    BY TimelineTyped
  <2> QED BY <2>1, <2>2, PTL DEF Timeline!Spec
<1>6. Talk!Spec => []Talk!TypeOK
  <2>1. Talk!Init => Talk!TypeOK
    BY TalkBegins
  <2>2. Talk!TypeOK /\ [Talk!Next]_Talk!vars => Talk!TypeOK'
    BY TalkTyped
  <2> QED BY <2>1, <2>2, PTL DEF Talk!Spec
<1>7. /\ Search!TypeOK /\ Game!TypeOK /\ Exit!TypeOK /\ Pair!TypeOK
      /\ Timeline!TypeOK /\ Talk!TypeOK
      => TypeOK
  BY DEF TypeOK
<1> QED BY <1>1, <1>2, <1>3, <1>4, <1>5, <1>6, <1>7, SearchAlone, GameAlone, ExitAlone,
           PairAlone, TimelineAlone, TalkAlone, PTL
===========================================================================
