------------------------------ MODULE Speaking ------------------------------
(***************************************************************************)
(* The page of the public discussion (PublicSpeakingPage.tsx,                *)
(* useSpeakingSocket.ts) of one account: its participation as the server     *)
(* last told it, its one response, and votes painted before they are         *)
(* answered. The wall holds a response of somebody else and, once posted,    *)
(* the account's own. The consumer (public_speaking/consumers.py) answers    *)
(* the author directly; what it broadcasts it hears itself only afterwards.  *)
(***************************************************************************)
EXTENDS Naturals, Sequences

CONSTANTS
    MaxTaps,   \* bound on the taps on a heart and the other things a visitor does
    MaxPosts,  \* bound on the responses sent from this tab
    MaxDrops   \* bound on the outages of the socket

VARIABLES
    introDone, discussion,      \* the loader, and the query under it
    state,        \* the state query: "idle", "asked", or the answer on its way
    joining, history,           \* the join call, and the load of the wall, likewise
    resolved, joined, hasPosted, postedEarlier, firstVerdict, seeded,
    sock, retry,  \* is the socket open, is the retry timer armed?
    wall,         \* the responses on the screen
    isOwn,        \* is our own response marked as such?
    upvoted,      \* the hearts painted on the screen
    pending,      \* pendingVotes
    queue,        \* voteQueue: what the next flush paints
    draft, lastDraft, sending,  \* are there words in the composer, kept aside, in the air?
    dialog,       \* the confirmation: "closed", "open" or "paused"
    typing,       \* is somebody shown as typing?
    inbox, wire, layer,         \* frames out, direct answers, broadcasts
    participant, posted, voted, \* server: our row, our response, our votes
    told, refused,              \* history: did the server say we have posted, or refuse us so?
    loads, unread,              \* history: the loads of the wall, and did one fail?
    taps, posts, drops

Message == {"theirs", "own"}
Loader  == {"state", "join"}  \* who loads the wall: the verdict, or the join

query  == <<introDone, discussion, state, joining, history>>
verdict == <<resolved, joined, hasPosted, postedEarlier, firstVerdict, seeded>>
line   == <<sock, retry, inbox, wire, layer>>
hearts == <<wall, isOwn, upvoted, pending, queue>>
composer == <<draft, lastDraft, sending, dialog, typing>>
server == <<participant, posted, voted>>
ghost  == <<told, refused, loads, unread>>
counts == <<taps, posts, drops>>
vars == <<query, verdict, line, hearts, composer, server, ghost, counts>>

Call    == [pc : {"idle", "asked", "answer"}, joined : BOOLEAN, posted : BOOLEAN]
Rows    == [pc : {"idle", "asked", "answer"}, wall : SUBSET Message, upvoted : SUBSET Message]
Idle    == [pc |-> "idle", joined |-> FALSE, posted |-> FALSE]
NoRows  == [pc |-> "idle", wall |-> {}, upvoted |-> {}]
Asked(call) == [call EXCEPT !.pc = "asked"]
Frame(t, m, b) == [t |-> t, m |-> m, b |-> b]

TypeOK ==
    /\ introDone \in BOOLEAN /\ discussion \in {"asked", "live", "none", "failed"}
    /\ state \in Call /\ joining \in Call /\ history \in [Loader -> Rows]
    /\ {resolved, joined, hasPosted, postedEarlier, firstVerdict, seeded} \subseteq BOOLEAN
    /\ sock \in {"none", "open"} /\ retry \in BOOLEAN
    /\ wall \subseteq Message /\ isOwn \in BOOLEAN
    /\ upvoted \subseteq Message /\ pending \subseteq Message
    /\ queue \in [Message -> {"none", "yes", "no", "count"}]
    /\ {draft, lastDraft, sending, typing} \subseteq BOOLEAN
    /\ dialog \in {"closed", "open", "paused"}
    /\ \A f \in {inbox, wire, layer} :
          f \in Seq([t : {"post", "vote", "posted", "error", "ack", "upvote_error", "message",
                          "upvote", "typing"}, m : Message, b : BOOLEAN])
    /\ {participant, posted, told, refused, unread} \subseteq BOOLEAN
    /\ voted \subseteq {"theirs"}
    /\ loads \in 0 .. 2
    /\ taps \in 0 .. MaxTaps /\ posts \in 0 .. MaxPosts /\ drops \in 0 .. MaxDrops

\* A first visit, unless another tab has joined, and posted, before.
Init ==
    /\ introDone = FALSE /\ discussion = "asked"
    /\ state = Idle /\ joining = Idle /\ history = [l \in Loader |-> NoRows]
    /\ resolved = FALSE /\ joined = FALSE /\ hasPosted = FALSE /\ postedEarlier = FALSE
    /\ firstVerdict = TRUE /\ seeded = FALSE
    /\ sock = "none" /\ retry = FALSE
    /\ wall = {} /\ isOwn = FALSE /\ upvoted = {} /\ pending = {}
    /\ queue = [m \in Message |-> "none"]
    /\ draft = FALSE /\ lastDraft = FALSE /\ sending = FALSE
    /\ dialog = "closed" /\ typing = FALSE
    /\ inbox = <<>> /\ wire = <<>> /\ layer = <<>>
    /\ participant = FALSE /\ posted = FALSE /\ voted = {}
    /\ told = FALSE /\ refused = FALSE /\ loads = 0 /\ unread = FALSE
    /\ taps = 0 /\ posts = 0 /\ drops = 0

\* The composer is offered on a resolved verdict only, and to who has not posted.
Offered == introDone /\ discussion = "live" /\ resolved /\ joined /\ ~ hasPosted
Now     == [pc |-> "answer", joined |-> participant, posted |-> posted]

-----------------------------------------------------------------------------
(* The queries, and what they tell.                                         *)

IntroEnds ==
    /\ ~ introDone /\ introDone' = TRUE
    /\ UNCHANGED <<discussion, state, joining, history, verdict, line, hearts, composer,
                   server,
                   ghost, counts>>

\* Only a 404 means that there is no discussion; what fails otherwise is asked again,
\* and after four times has a screen of its own.
Discussion ==
    /\ discussion = "asked"
    /\ \/ discussion' = "live" /\ state' = Asked(Idle)
       \/ discussion' \in {"none", "failed"} /\ UNCHANGED state
    /\ UNCHANGED <<introDone, joining, history, verdict, line, hearts, composer, server,
                   ghost, counts>>

\* The browser is back online: the query, which has no data, starts again.
Reconnect ==
    /\ discussion \in {"none", "failed"} /\ taps < MaxTaps /\ taps' = taps + 1
    /\ discussion' = "asked"
    /\ UNCHANGED <<introDone, state, joining, history, verdict, line, hearts, composer,
                   server, ghost, posts, drops>>

\* The state is read again whenever the tab is focused.
Focus ==
    /\ discussion = "live" /\ state.pc = "idle" /\ taps < MaxTaps
    /\ taps' = taps + 1 /\ state' = Asked(Idle)
    /\ UNCHANGED <<introDone, discussion, joining, history, verdict, line, hearts, composer,
                   server, ghost, posts, drops>>

ServeState ==
    /\ state.pc = "asked" /\ state' = Now
    /\ UNCHANGED <<introDone, discussion, joining, history, verdict, line, hearts, composer,
                   server, ghost, counts>>

\* The wall is loaded once per visit, by the first verdict of a participant; a join
\* loads it whatever came first.
Load(l) ==
    /\ history' = [history EXCEPT ![l] = Asked(NoRows)] /\ loads' = loads + 1

\* Mutant: each verdict replaces the one before.
AdoptLatest(a) ==
    /\ hasPosted' = a.posted
    /\ postedEarlier' = (postedEarlier \/ (a.posted /\ firstVerdict))
    /\ told' = (told \/ a.posted)

\* A verdict is folded in forwards: an older read never takes the response back.
Adopt(a) ==
    /\ hasPosted' = (hasPosted \/ a.posted)
    /\ postedEarlier' = (postedEarlier \/ (a.posted /\ firstVerdict))
    /\ told' = (told \/ a.posted)

State ==
    /\ state.pc = "answer" /\ state' = Idle
    /\ resolved' = TRUE /\ firstVerdict' = FALSE
    /\ Adopt(state)
    /\ joined' = (joined \/ state.joined) /\ seeded' = (seeded \/ state.joined)
    /\ IF state.joined /\ ~ seeded THEN Load("state") ELSE UNCHANGED <<history, loads>>
    /\ UNCHANGED <<introDone, discussion, joining, line, hearts, composer, server, refused,
                   unread, counts>>

\* Asked four times in vain: a verdict too, of nothing.
StateFails ==
    /\ state.pc = "asked" /\ state' = Idle /\ resolved' = TRUE
    /\ UNCHANGED <<introDone, discussion, joining, history, joined, hasPosted, postedEarlier,
                   firstVerdict, seeded, line, hearts, composer, server, ghost, counts>>

Join ==
    /\ introDone /\ resolved /\ ~ joined /\ joining.pc = "idle"
    /\ joining' = Asked(Idle)
    /\ UNCHANGED <<introDone, discussion, state, history, verdict, line, hearts, composer,
                   server, ghost, counts>>
ServeJoin ==
    /\ joining.pc = "asked"
    /\ participant' = TRUE /\ joining' = [Now EXCEPT !.joined = TRUE]
    /\ UNCHANGED <<introDone, discussion, state, history, verdict, line, hearts, composer,
                   posted, voted, ghost, counts>>
Joined ==
    /\ joining.pc = "answer" /\ joining' = Idle
    /\ joined' = TRUE /\ seeded' = TRUE /\ firstVerdict' = FALSE /\ Load("join")
    /\ hasPosted' = (hasPosted \/ joining.posted)
    /\ postedEarlier' = (postedEarlier \/ joining.posted)
    /\ told' = (told \/ joining.posted)
    /\ UNCHANGED <<introDone, discussion, state, resolved, line, hearts, composer, server,
                   refused, unread, counts>>

\* A join that fails, or whose answer is lost: the visitor is told, and may tap again.
JoinFails ==
    /\ joining.pc = "asked" /\ joining' = Idle
    /\ taps < MaxTaps /\ taps' = taps + 1
    /\ participant' \in {participant, TRUE}
    /\ UNCHANGED <<introDone, discussion, state, history, verdict, line, hearts, composer,
                   posted, voted, ghost, posts, drops>>

ServeHistory ==
    /\ \E l \in Loader :
        /\ history[l].pc = "asked"
        /\ history' = [history EXCEPT ![l] =
              [pc |-> "answer", wall |-> IF posted THEN Message ELSE {"theirs"},
               upvoted |-> voted]]
    /\ UNCHANGED <<introDone, discussion, state, joining, verdict, line, hearts, composer,
                   server, ghost, counts>>
\* The rows replace the wall, with their own marks and votes.
History ==
    /\ \E l \in Loader :
        /\ history[l].pc = "answer" /\ history' = [history EXCEPT ![l] = NoRows]
        /\ wall' = history[l].wall /\ upvoted' = history[l].upvoted
        /\ isOwn' = ("own" \in history[l].wall)
    /\ UNCHANGED <<introDone, discussion, state, joining, verdict, line, pending, queue,
                   composer, server, ghost, counts>>
\* Or they cannot be read: the visitor is told, and they are not asked for again.
HistoryFails ==
    /\ \E l \in Loader :
        /\ history[l].pc = "asked" /\ history' = [history EXCEPT ![l] = NoRows]
    /\ unread' = TRUE
    /\ UNCHANGED <<introDone, discussion, state, joining, verdict, line, hearts, composer,
                   server, told, refused, loads, counts>>

-----------------------------------------------------------------------------
(* The socket: once joined, and again after each outage.                    *)

Connect ==
    /\ joined /\ sock = "none" /\ sock' = "open" /\ retry' = FALSE
    /\ UNCHANGED <<query, verdict, inbox, wire, layer, hearts, composer, server, ghost,
                   counts>>

Drop ==
    /\ sock = "open" /\ drops < MaxDrops /\ drops' = drops + 1
    /\ sock' = "none" /\ retry' = TRUE
    /\ inbox' = <<>> /\ wire' = <<>> /\ layer' = <<>> /\ typing' = FALSE
    /\ UNCHANGED <<query, verdict, hearts, draft, lastDraft, sending, dialog, server, ghost,
                    taps, posts>>

Type ==
    /\ Offered /\ ~ draft /\ posts < MaxPosts /\ draft' = TRUE
    /\ UNCHANGED <<query, verdict, line, hearts, lastDraft, sending, dialog, typing, server,
                   ghost, counts>>

\* submit: the words leave the composer with the frame.
Submit ==
    /\ Offered /\ draft /\ sock = "open" /\ ~ sending
    /\ posts < MaxPosts /\ posts' = posts + 1
    /\ lastDraft' = TRUE /\ sending' = TRUE /\ draft' = FALSE
    /\ inbox' = Append(inbox, Frame("post", "own", TRUE))
    /\ UNCHANGED <<query, verdict, sock, retry, wire, layer, hearts, dialog, typing, server,
                   ghost, taps, drops>>
\* Eight seconds without an answer.
SendingEnds ==
    /\ sending /\ sending' = FALSE
    /\ UNCHANGED <<query, verdict, line, hearts, draft, lastDraft, dialog, typing,
                   server, ghost,
                    counts>>

\* vote: painted at once, one in flight per response, and the queue's word is stale.
Vote(m) ==
    /\ introDone /\ m \in wall /\ ~ (m = "own" /\ isOwn)
    /\ sock = "open" /\ m \notin pending
    /\ taps < MaxTaps /\ taps' = taps + 1
    /\ pending' = pending \cup {m} /\ queue' = [queue EXCEPT ![m] = "none"]
    /\ upvoted' = IF m \in upvoted THEN upvoted \ {m} ELSE upvoted \cup {m}
    /\ inbox' = Append(inbox, Frame("vote", m, TRUE))
    /\ UNCHANGED <<query, verdict, sock, retry, wire, layer, wall, isOwn, composer,
                   server, ghost,
                    posts, drops>>
\* Four seconds without an answer: the heart can be tapped again.
VoteTimeout(m) ==
    /\ m \in pending /\ pending' = pending \ {m}
    /\ UNCHANGED <<query, verdict, line, wall, isOwn, upvoted, queue, composer, server,
                   ghost,
                    counts>>

-----------------------------------------------------------------------------
(* The consumer.                                                            *)

Says(f)       == wire' = Append(wire, f)
Broadcasts(f) == layer' = Append(layer, f)

\* handle_message: the rate limit, the one response of a participant, or a new row.
ServePost ==
    /\ inbox # <<>> /\ Head(inbox).t = "post" /\ inbox' = Tail(inbox)
    /\ \/ Says(Frame("error", "own", FALSE)) /\ UNCHANGED <<layer, posted>>
       \/ posted /\ Says(Frame("error", "own", TRUE)) /\ UNCHANGED <<layer, posted>>
       \/ /\ ~ posted /\ posted' = TRUE
          /\ Broadcasts(Frame("message", "own", TRUE)) /\ Says(Frame("posted", "own", TRUE))
    /\ UNCHANGED <<query, verdict, sock, retry, hearts, composer, participant, voted, ghost,
                    counts>>

\* handle_upvote: a toggle, or the refusal of a vote for oneself.
ServeVote ==
    /\ inbox # <<>> /\ Head(inbox).t = "vote" /\ inbox' = Tail(inbox)
    /\ IF Head(inbox).m = "own"
       THEN Says(Frame("upvote_error", "own", FALSE)) /\ UNCHANGED <<layer, voted>>
       ELSE /\ voted' = {"theirs"} \ voted
            /\ Broadcasts(Frame("upvote", "theirs", TRUE))
            /\ Says(Frame("ack", "theirs", voted = {}))
    /\ UNCHANGED <<query, verdict, sock, retry, hearts, composer, participant, posted,
                   ghost,
                    counts>>

\* Another tab of the account joins, and posts; somebody types, and stops or goes.
OtherJoins ==
    /\ ~ participant /\ discussion = "asked" /\ participant' = TRUE
    /\ UNCHANGED <<query, verdict, line, hearts, composer, posted, voted, ghost, counts>>
OtherTab ==
    /\ participant /\ ~ posted /\ posted' = TRUE
    /\ layer' = IF sock = "open" THEN Append(layer, Frame("message", "own", TRUE)) ELSE layer
    /\ UNCHANGED <<query, verdict, sock, retry, inbox, wire, hearts, composer, participant,
                   voted, ghost, counts>>
SomebodyTypes ==
    /\ sock = "open" /\ layer = <<>> /\ ~ typing /\ taps < MaxTaps /\ taps' = taps + 1
    /\ \/ Broadcasts(Frame("typing", "theirs", TRUE))
       \/ layer' = <<Frame("typing", "theirs", TRUE), Frame("typing", "theirs", FALSE)>>
    /\ UNCHANGED <<query, verdict, sock, retry, inbox, wire, hearts, composer, server,
                   ghost,
                    posts, drops>>

-----------------------------------------------------------------------------
(* What the page hears.                                                     *)

Hears(t) == wire # <<>> /\ Head(wire).t = t /\ wire' = Tail(wire)

HearPosted ==
    /\ Hears("posted")
    /\ hasPosted' = TRUE /\ sending' = FALSE /\ dialog' = "open" /\ told' = TRUE
    /\ isOwn' = (isOwn \/ "own" \in wall)
    /\ UNCHANGED <<query, resolved, joined, postedEarlier, firstVerdict, seeded, sock,
                   retry,
                   inbox, layer, wall, upvoted, pending, queue, draft, lastDraft, typing, server,
                   refused, loads, unread, counts>>

\* The consumer names it already_posted, the page reads has_posted: never true.
HearError ==
    /\ Hears("error")
    /\ sending' = FALSE /\ draft' = (draft \/ lastDraft)
    /\ refused' = (refused \/ Head(wire).b)
    /\ UNCHANGED <<query, verdict, sock, retry, inbox, layer, hearts, lastDraft, dialog,
                   typing,
                   server, told, loads, unread, counts>>

\* A broadcast must not erase the voter's own ack.
Enqueue(m, w) ==
    queue' = [queue EXCEPT ![m] = IF w = "count" /\ @ # "none" THEN @ ELSE w]

HearAck ==
    /\ Hears("ack")
    /\ Enqueue(Head(wire).m, IF Head(wire).b THEN "yes" ELSE "no")
    /\ pending' = pending \ {Head(wire).m}
    /\ UNCHANGED <<query, verdict, sock, retry, inbox, layer, wall, isOwn, upvoted,
                   composer,
                   server, ghost, counts>>

HearVoteError ==
    /\ Hears("upvote_error")
    /\ pending' = pending \ {Head(wire).m} /\ queue' = [queue EXCEPT ![Head(wire).m] = "none"]
    /\ upvoted' = upvoted \ {Head(wire).m}
    /\ UNCHANGED <<query, verdict, sock, retry, inbox, layer, wall, isOwn, composer, server,
                   ghost, counts>>

\* What the consumer relays once its own answers are out.
Relays(t) == wire = <<>> /\ layer # <<>> /\ Head(layer).t = t /\ layer' = Tail(layer)

HearMessage ==
    /\ Relays("message") /\ wall' = wall \cup {Head(layer).m}
    /\ UNCHANGED <<query, verdict, sock, retry, inbox, wire, isOwn, upvoted, pending, queue,
                   composer, server, ghost, counts>>
HearUpvote ==
    /\ Relays("upvote") /\ Enqueue(Head(layer).m, "count")
    /\ UNCHANGED <<query, verdict, sock, retry, inbox, wire, wall, isOwn, upvoted, pending,
                   composer, server, ghost, counts>>
HearTyping ==
    /\ Relays("typing") /\ typing' = Head(layer).b
    /\ UNCHANGED <<query, verdict, sock, retry, inbox, wire, hearts, draft, lastDraft,
                   sending,
                   dialog, server, ghost, counts>>

\* The frames of a window of VOTE_BATCH_MS, painted together.
Flush ==
    /\ \E m \in Message : queue[m] # "none"
    /\ upvoted' = {m \in Message : queue[m] = "yes" \/ (m \in upvoted /\ queue[m] # "no")}
    /\ queue' = [m \in Message |-> "none"]
    /\ UNCHANGED <<query, verdict, line, wall, isOwn, pending, composer, server, ghost,
                   counts>>

\* The confirmation closes by itself, unless it is looked at.
Dialog ==
    /\ \/ dialog = "open" /\ taps < MaxTaps /\ dialog' = "paused" /\ taps' = taps + 1
       \/ dialog = "paused" /\ dialog' = "open" /\ UNCHANGED taps
    /\ UNCHANGED <<query, verdict, line, hearts, draft, lastDraft, sending, typing,
                   server, ghost,
                    posts, drops>>
DialogCloses ==
    /\ dialog = "open" /\ dialog' = "closed"
    /\ UNCHANGED <<query, verdict, line, hearts, draft, lastDraft, sending, typing,
                   server, ghost,
                    counts>>

Progress ==
    \/ IntroEnds \/ Discussion \/ ServeState \/ State \/ ServeJoin \/ Joined
    \/ ServeHistory \/ History \/ Connect \/ SendingEnds
    \/ \E m \in Message : VoteTimeout(m)
    \/ ServePost \/ ServeVote \/ HearPosted \/ HearError \/ HearAck \/ HearVoteError
    \/ HearMessage \/ HearUpvote \/ HearTyping \/ Flush \/ DialogCloses

Next ==
    \/ Progress
    \/ Reconnect \/ Focus \/ StateFails \/ Join \/ JoinFails \/ HistoryFails
    \/ Drop \/ Type \/ Submit \/ OtherJoins \/ OtherTab \/ SomebodyTypes \/ Dialog
    \/ \E m \in Message : Vote(m)

Spec == Init /\ [][Next]_vars
FairSpec == Spec /\ WF_vars(Progress)

-----------------------------------------------------------------------------
(* Properties.                                                              *)

\* Once the server has said that the account has posted, no composer is offered.
ComposerLocked == told => ~ Offered

\* While no outage has lost a frame, the hearts at rest are the votes of the server.
VotesAgree ==
    drops = 0 /\ inbox = <<>> /\ wire = <<>> /\ queue = [m \in Message |-> "none"]
        /\ loads <= 1 /\ (\A l \in Loader : history[l].pc = "idle")
    => upvoted = IF "theirs" \in wall THEN voted ELSE {}

\* The discussion's page (PublicSpeakingPage.tsx) never offers a second response to who
\* was told of the first, and paints the votes that the server holds.
SpeakingSafe == ComposerLocked /\ VotesAgree

\* Left alone, nothing spins: the loader has lifted, the discussion is there or a screen
\* says why not, its verdict is there, a participant has a socket, and the wall or the
\* word that it could not be read, and no answer is waited for.
SpeakingAtRest ==
    /\ introDone /\ discussion # "asked"
    /\ discussion = "live" => resolved
    /\ joined => sock = "open" /\ (wall # {} \/ unread)
    /\ state.pc = "idle" /\ joining.pc = "idle" /\ \A l \in Loader : history[l].pc = "idle"
    /\ ~ sending /\ pending = {} /\ dialog # "open"

\* A stale tab that is refused because the account has already answered locks its
\* composer (public_speaking/consumers.py:100, PublicSpeakingPage.tsx:560).
StaleTabLocks == refused => hasPosted
=============================================================================
