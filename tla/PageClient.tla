---------------------------- MODULE PageClient ----------------------------
(***************************************************************************)
(* The other pages of the app and the portal of its staff, one per          *)
(* behaviour.                                                              *)
(***************************************************************************)
EXTENDS Naturals, FiniteSets

CONSTANTS
    Emails, MaxFormTaps,                                \* the forms (AuthForms)
    Files, SizeOf, MaxPicks,                            \* the photo (PhotoUpload)
    MaxMessages, MaxSends, MaxEventDrops, MaxEventMoves, \* the chat (EventRoomClient)
    MaxHostTaps, MaxFaults, MaxHostMoves,               \* the event (EventPage)
    MaxSpeakTaps, MaxPosts, MaxSpeakDrops,              \* the discussion (Speaking)
    Accounts, MaxUserTaps, MaxUserMoves,                \* the portal (AdminUsers,
    ReportIds, MaxReportTaps, MaxEventTaps              \* AdminReports, AdminEvents)

\* Accounts are numbered from 1, and 0 stands for no row.
ASSUME PagesAssumption ==
    /\ IsFiniteSet(Accounts) /\ Accounts # {} /\ Accounts \subseteq Nat \ {0}
    /\ ReportIds # {}
    /\ MaxFormTaps \in Nat /\ MaxPicks \in Nat
    /\ MaxMessages \in Nat /\ MaxSends \in Nat /\ MaxEventDrops \in Nat /\ MaxEventMoves \in Nat
    /\ MaxHostTaps \in Nat /\ MaxFaults \in Nat /\ MaxHostMoves \in Nat
    /\ MaxSpeakTaps \in Nat /\ MaxPosts \in Nat /\ MaxSpeakDrops \in Nat
    /\ MaxUserTaps \in Nat /\ MaxUserMoves \in Nat
    /\ MaxReportTaps \in Nat /\ MaxEventTaps \in Nat

VARIABLES
    focus,  \* the screen this behaviour is about: the others stand still
    formsPage, modal, step, email, field, forgotLoading, submitting, air, link, token,
    password, change, busy, formsConfirm, formsTaps,
    photoStored, photo, photoPending, urls, preparing, orphans, inFlight, uploading,
    removing, photoCalls, picking, viewing, photoConfirm, visit, missed, picks,
    eventPage, leaving, status, eventSock, eventRetry, disposed, reconnected, rest, live,
    reconciled, eventPending, posting, online, eventTyping, eventInbox, eventWire,
    eventLayer, log, eventMember, eventOpen, here, lost, sends, eventDrops, eventMoves,
    hostEvent, hostMember, host, hostPage, hostData, hostDataFetch, failed, probe,
    probeFetch, kept, stale, hostOvertaken, unaware, hostDialog, form, hostCalls, asked,
    hostTaps, faults, hostMoves,
    introDone, discussion, state, joining, history, resolved, joined, hasPosted,
    postedEarlier, firstVerdict, seeded, speakingSock, speakingRetry, wall, isOwn,
    upvoted, speakingPending, queue, draft, lastDraft, sending, speakingDialog,
    speakingTyping, speakingInbox, speakingWire, speakingLayer, participant, posted,
    voted, told, refused, loads, unread, speakingTaps, posts, speakingDrops,
    accounts, usersFilter, usersPage, cache, usersFetch, broken, usersOvertaken, held,
    usersDialog, usersCalls, usersTaps, usersMoves,
    reportsStored, reportsFilter, reportsCache, reportsFetch, reportsBroken,
    reportsOvertaken, reportsHeld, selected, last, reportsCalls, newest, reportsTaps,
    eventsEvent, events, owned, claimed, list, listFetch, eventsOpen, eventsData,
    eventsDataFetch, eventsBroken, behind, editing, cancelling, creating, owner,
    eventsCalls, eventsTaps

Forms == INSTANCE AuthForms WITH
    MaxTaps <- MaxFormTaps, page <- formsPage, confirm <- formsConfirm, taps <- formsTaps
Photo == INSTANCE PhotoUpload WITH
    stored <- photoStored, pending <- photoPending, calls <- photoCalls,
    confirm <- photoConfirm
Event == INSTANCE EventRoomClient WITH
    MaxDrops <- MaxEventDrops, MaxMoves <- MaxEventMoves, page <- eventPage,
    sock <- eventSock, retry <- eventRetry, pending <- eventPending,
    typing <- eventTyping, inbox <- eventInbox, wire <- eventWire, layer <- eventLayer,
    member <- eventMember, open <- eventOpen, drops <- eventDrops, moves <- eventMoves
Host == INSTANCE EventPage WITH
    MaxTaps <- MaxHostTaps, MaxMoves <- MaxHostMoves, event <- hostEvent,
    member <- hostMember, page <- hostPage, data <- hostData,
    dataFetch <- hostDataFetch, overtaken <- hostOvertaken, dialog <- hostDialog,
    calls <- hostCalls, taps <- hostTaps, moves <- hostMoves
Speak == INSTANCE Speaking WITH
    MaxTaps <- MaxSpeakTaps, MaxDrops <- MaxSpeakDrops, sock <- speakingSock,
    retry <- speakingRetry, pending <- speakingPending, dialog <- speakingDialog,
    typing <- speakingTyping, inbox <- speakingInbox, wire <- speakingWire,
    layer <- speakingLayer, taps <- speakingTaps, drops <- speakingDrops
Users == INSTANCE AdminUsers WITH
    MaxTaps <- MaxUserTaps, MaxMoves <- MaxUserMoves, filter <- usersFilter,
    page <- usersPage, fetch <- usersFetch, overtaken <- usersOvertaken,
    dialog <- usersDialog, calls <- usersCalls, taps <- usersTaps, moves <- usersMoves
Reports == INSTANCE AdminReports WITH
    Reports <- ReportIds, MaxTaps <- MaxReportTaps, stored <- reportsStored,
    filter <- reportsFilter, cache <- reportsCache, fetch <- reportsFetch,
    broken <- reportsBroken, overtaken <- reportsOvertaken, held <- reportsHeld,
    calls <- reportsCalls, taps <- reportsTaps
Events == INSTANCE AdminEvents WITH
    MaxTaps <- MaxEventTaps, event <- eventsEvent, open <- eventsOpen, data <- eventsData,
    dataFetch <- eventsDataFetch, broken <- eventsBroken, calls <- eventsCalls,
    taps <- eventsTaps

\* What a step of one screen leaves alone.
FormsRest == <<focus, photoStored, photo, photoPending, urls, preparing, orphans,
               inFlight, uploading, removing, photoCalls, picking, viewing, photoConfirm,
               visit, missed, picks, eventPage, leaving, status, eventSock, eventRetry,
               disposed, reconnected, rest, live, reconciled, eventPending, posting,
               online, eventTyping, eventInbox, eventWire, eventLayer, log, eventMember,
               eventOpen, here, lost, sends, eventDrops, eventMoves, hostEvent,
               hostMember, host, hostPage, hostData, hostDataFetch, failed, probe,
               probeFetch, kept, stale, hostOvertaken, unaware, hostDialog, form,
               hostCalls, asked, hostTaps, faults, hostMoves, introDone, discussion,
               state, joining, history, resolved, joined, hasPosted, postedEarlier,
               firstVerdict, seeded, speakingSock, speakingRetry, wall, isOwn, upvoted,
               speakingPending, queue, draft, lastDraft, sending, speakingDialog,
               speakingTyping, speakingInbox, speakingWire, speakingLayer, participant,
               posted, voted, told, refused, loads, unread, speakingTaps, posts,
               speakingDrops, accounts, usersFilter, usersPage, cache, usersFetch, broken,
               usersOvertaken, held, usersDialog, usersCalls, usersTaps, usersMoves,
               reportsStored, reportsFilter, reportsCache, reportsFetch, reportsBroken,
               reportsOvertaken, reportsHeld, selected, last, reportsCalls, newest,
               reportsTaps, eventsEvent, events, owned, claimed, list, listFetch,
               eventsOpen, eventsData, eventsDataFetch, eventsBroken, behind, editing,
               cancelling, creating, owner, eventsCalls, eventsTaps>>
PhotoRest == <<focus, formsPage, modal, step, email, field, forgotLoading, submitting,
               air, link, token, password, change, busy, formsConfirm, formsTaps,
               eventPage, leaving, status, eventSock, eventRetry, disposed, reconnected,
               rest, live, reconciled, eventPending, posting, online, eventTyping,
               eventInbox, eventWire, eventLayer, log, eventMember, eventOpen, here, lost,
               sends, eventDrops, eventMoves, hostEvent, hostMember, host, hostPage,
               hostData, hostDataFetch, failed, probe, probeFetch, kept, stale,
               hostOvertaken, unaware, hostDialog, form, hostCalls, asked, hostTaps,
               faults, hostMoves, introDone, discussion, state, joining, history,
               resolved, joined, hasPosted, postedEarlier, firstVerdict, seeded,
               speakingSock, speakingRetry, wall, isOwn, upvoted, speakingPending, queue,
               draft, lastDraft, sending, speakingDialog, speakingTyping, speakingInbox,
               speakingWire, speakingLayer, participant, posted, voted, told, refused,
               loads, unread, speakingTaps, posts, speakingDrops, accounts, usersFilter,
               usersPage, cache, usersFetch, broken, usersOvertaken, held, usersDialog,
               usersCalls, usersTaps, usersMoves, reportsStored, reportsFilter,
               reportsCache, reportsFetch, reportsBroken, reportsOvertaken, reportsHeld,
               selected, last, reportsCalls, newest, reportsTaps, eventsEvent, events,
               owned, claimed, list, listFetch, eventsOpen, eventsData, eventsDataFetch,
               eventsBroken, behind, editing, cancelling, creating, owner, eventsCalls,
               eventsTaps>>
EventRest == <<focus, formsPage, modal, step, email, field, forgotLoading, submitting,
               air, link, token, password, change, busy, formsConfirm, formsTaps,
               photoStored, photo, photoPending, urls, preparing, orphans, inFlight,
               uploading, removing, photoCalls, picking, viewing, photoConfirm, visit,
               missed, picks, hostEvent, hostMember, host, hostPage, hostData,
               hostDataFetch, failed, probe, probeFetch, kept, stale, hostOvertaken,
               unaware, hostDialog, form, hostCalls, asked, hostTaps, faults, hostMoves,
               introDone, discussion, state, joining, history, resolved, joined,
               hasPosted, postedEarlier, firstVerdict, seeded, speakingSock,
               speakingRetry, wall, isOwn, upvoted, speakingPending, queue, draft,
               lastDraft, sending, speakingDialog, speakingTyping, speakingInbox,
               speakingWire, speakingLayer, participant, posted, voted, told, refused,
               loads, unread, speakingTaps, posts, speakingDrops, accounts, usersFilter,
               usersPage, cache, usersFetch, broken, usersOvertaken, held, usersDialog,
               usersCalls, usersTaps, usersMoves, reportsStored, reportsFilter,
               reportsCache, reportsFetch, reportsBroken, reportsOvertaken, reportsHeld,
               selected, last, reportsCalls, newest, reportsTaps, eventsEvent, events,
               owned, claimed, list, listFetch, eventsOpen, eventsData, eventsDataFetch,
               eventsBroken, behind, editing, cancelling, creating, owner, eventsCalls,
               eventsTaps>>
HostRest == <<focus, formsPage, modal, step, email, field, forgotLoading, submitting, air,
              link, token, password, change, busy, formsConfirm, formsTaps, photoStored,
              photo, photoPending, urls, preparing, orphans, inFlight, uploading,
              removing, photoCalls, picking, viewing, photoConfirm, visit, missed, picks,
              eventPage, leaving, status, eventSock, eventRetry, disposed, reconnected,
              rest, live, reconciled, eventPending, posting, online, eventTyping,
              eventInbox, eventWire, eventLayer, log, eventMember, eventOpen, here, lost,
              sends, eventDrops, eventMoves, introDone, discussion, state, joining,
              history, resolved, joined, hasPosted, postedEarlier, firstVerdict, seeded,
              speakingSock, speakingRetry, wall, isOwn, upvoted, speakingPending, queue,
              draft, lastDraft, sending, speakingDialog, speakingTyping, speakingInbox,
              speakingWire, speakingLayer, participant, posted, voted, told, refused,
              loads, unread, speakingTaps, posts, speakingDrops, accounts, usersFilter,
              usersPage, cache, usersFetch, broken, usersOvertaken, held, usersDialog,
              usersCalls, usersTaps, usersMoves, reportsStored, reportsFilter,
              reportsCache, reportsFetch, reportsBroken, reportsOvertaken, reportsHeld,
              selected, last, reportsCalls, newest, reportsTaps, eventsEvent, events,
              owned, claimed, list, listFetch, eventsOpen, eventsData, eventsDataFetch,
              eventsBroken, behind, editing, cancelling, creating, owner, eventsCalls,
              eventsTaps>>
SpeakRest == <<focus, formsPage, modal, step, email, field, forgotLoading, submitting,
               air, link, token, password, change, busy, formsConfirm, formsTaps,
               photoStored, photo, photoPending, urls, preparing, orphans, inFlight,
               uploading, removing, photoCalls, picking, viewing, photoConfirm, visit,
               missed, picks, eventPage, leaving, status, eventSock, eventRetry, disposed,
               reconnected, rest, live, reconciled, eventPending, posting, online,
               eventTyping, eventInbox, eventWire, eventLayer, log, eventMember,
               eventOpen, here, lost, sends, eventDrops, eventMoves, hostEvent,
               hostMember, host, hostPage, hostData, hostDataFetch, failed, probe,
               probeFetch, kept, stale, hostOvertaken, unaware, hostDialog, form,
               hostCalls, asked, hostTaps, faults, hostMoves, accounts, usersFilter,
               usersPage, cache, usersFetch, broken, usersOvertaken, held, usersDialog,
               usersCalls, usersTaps, usersMoves, reportsStored, reportsFilter,
               reportsCache, reportsFetch, reportsBroken, reportsOvertaken, reportsHeld,
               selected, last, reportsCalls, newest, reportsTaps, eventsEvent, events,
               owned, claimed, list, listFetch, eventsOpen, eventsData, eventsDataFetch,
               eventsBroken, behind, editing, cancelling, creating, owner, eventsCalls,
               eventsTaps>>
UsersRest == <<focus, formsPage, modal, step, email, field, forgotLoading, submitting,
               air, link, token, password, change, busy, formsConfirm, formsTaps,
               photoStored, photo, photoPending, urls, preparing, orphans, inFlight,
               uploading, removing, photoCalls, picking, viewing, photoConfirm, visit,
               missed, picks, eventPage, leaving, status, eventSock, eventRetry, disposed,
               reconnected, rest, live, reconciled, eventPending, posting, online,
               eventTyping, eventInbox, eventWire, eventLayer, log, eventMember,
               eventOpen, here, lost, sends, eventDrops, eventMoves, hostEvent,
               hostMember, host, hostPage, hostData, hostDataFetch, failed, probe,
               probeFetch, kept, stale, hostOvertaken, unaware, hostDialog, form,
               hostCalls, asked, hostTaps, faults, hostMoves, introDone, discussion,
               state, joining, history, resolved, joined, hasPosted, postedEarlier,
               firstVerdict, seeded, speakingSock, speakingRetry, wall, isOwn, upvoted,
               speakingPending, queue, draft, lastDraft, sending, speakingDialog,
               speakingTyping, speakingInbox, speakingWire, speakingLayer, participant,
               posted, voted, told, refused, loads, unread, speakingTaps, posts,
               speakingDrops, reportsStored, reportsFilter, reportsCache, reportsFetch,
               reportsBroken, reportsOvertaken, reportsHeld, selected, last, reportsCalls,
               newest, reportsTaps, eventsEvent, events, owned, claimed, list, listFetch,
               eventsOpen, eventsData, eventsDataFetch, eventsBroken, behind, editing,
               cancelling, creating, owner, eventsCalls, eventsTaps>>
ReportsRest == <<focus, formsPage, modal, step, email, field, forgotLoading, submitting,
                 air, link, token, password, change, busy, formsConfirm, formsTaps,
                 photoStored, photo, photoPending, urls, preparing, orphans, inFlight,
                 uploading, removing, photoCalls, picking, viewing, photoConfirm, visit,
                 missed, picks, eventPage, leaving, status, eventSock, eventRetry,
                 disposed, reconnected, rest, live, reconciled, eventPending, posting,
                 online, eventTyping, eventInbox, eventWire, eventLayer, log, eventMember,
                 eventOpen, here, lost, sends, eventDrops, eventMoves, hostEvent,
                 hostMember, host, hostPage, hostData, hostDataFetch, failed, probe,
                 probeFetch, kept, stale, hostOvertaken, unaware, hostDialog, form,
                 hostCalls, asked, hostTaps, faults, hostMoves, introDone, discussion,
                 state, joining, history, resolved, joined, hasPosted, postedEarlier,
                 firstVerdict, seeded, speakingSock, speakingRetry, wall, isOwn, upvoted,
                 speakingPending, queue, draft, lastDraft, sending, speakingDialog,
                 speakingTyping, speakingInbox, speakingWire, speakingLayer, participant,
                 posted, voted, told, refused, loads, unread, speakingTaps, posts,
                 speakingDrops, accounts, usersFilter, usersPage, cache, usersFetch,
                 broken, usersOvertaken, held, usersDialog, usersCalls, usersTaps,
                 usersMoves, eventsEvent, events, owned, claimed, list, listFetch,
                 eventsOpen, eventsData, eventsDataFetch, eventsBroken, behind, editing,
                 cancelling, creating, owner, eventsCalls, eventsTaps>>
EventsRest == <<focus, formsPage, modal, step, email, field, forgotLoading, submitting,
                air, link, token, password, change, busy, formsConfirm, formsTaps,
                photoStored, photo, photoPending, urls, preparing, orphans, inFlight,
                uploading, removing, photoCalls, picking, viewing, photoConfirm, visit,
                missed, picks, eventPage, leaving, status, eventSock, eventRetry,
                disposed, reconnected, rest, live, reconciled, eventPending, posting,
                online, eventTyping, eventInbox, eventWire, eventLayer, log, eventMember,
                eventOpen, here, lost, sends, eventDrops, eventMoves, hostEvent,
                hostMember, host, hostPage, hostData, hostDataFetch, failed, probe,
                probeFetch, kept, stale, hostOvertaken, unaware, hostDialog, form,
                hostCalls, asked, hostTaps, faults, hostMoves, introDone, discussion,
                state, joining, history, resolved, joined, hasPosted, postedEarlier,
                firstVerdict, seeded, speakingSock, speakingRetry, wall, isOwn, upvoted,
                speakingPending, queue, draft, lastDraft, sending, speakingDialog,
                speakingTyping, speakingInbox, speakingWire, speakingLayer, participant,
                posted, voted, told, refused, loads, unread, speakingTaps, posts,
                speakingDrops, accounts, usersFilter, usersPage, cache, usersFetch,
                broken, usersOvertaken, held, usersDialog, usersCalls, usersTaps,
                usersMoves, reportsStored, reportsFilter, reportsCache, reportsFetch,
                reportsBroken, reportsOvertaken, reportsHeld, selected, last,
                reportsCalls, newest, reportsTaps>>

Init ==
    /\ focus \in {"forms", "photo", "event", "host", "speaking", "users", "reports", "events"}
    /\ Forms!Init /\ Photo!Init /\ Event!Init /\ Host!Init
    /\ Speak!Init /\ Users!Init /\ Reports!Init /\ Events!Init

Next ==
    \/ focus = "forms" /\ Forms!Next /\ UNCHANGED FormsRest
    \/ focus = "photo" /\ Photo!Next /\ UNCHANGED PhotoRest
    \/ focus = "event" /\ Event!Next /\ UNCHANGED EventRest
    \/ focus = "host" /\ Host!Next /\ UNCHANGED HostRest
    \/ focus = "speaking" /\ Speak!Next /\ UNCHANGED SpeakRest
    \/ focus = "users" /\ Users!Next /\ UNCHANGED UsersRest
    \/ focus = "reports" /\ Reports!Next /\ UNCHANGED ReportsRest
    \/ focus = "events" /\ Events!Next /\ UNCHANGED EventsRest

vars == <<focus, Forms!vars, Photo!vars, Event!vars, Host!vars, Speak!vars, Users!vars,
          Reports!vars, Events!vars>>
Spec == Init /\ [][Next]_vars

\* A step of the screen that runs changes its own variables only (Next).
FairSpec ==
    /\ Spec
    /\ WF_Forms!vars(focus = "forms" /\ Forms!Progress)
    /\ WF_Photo!vars(focus = "photo" /\ Photo!Progress)
    /\ WF_Event!vars(focus = "event" /\ Event!Progress)
    /\ WF_Host!vars(focus = "host" /\ Host!Progress)
    /\ WF_Speak!vars(focus = "speaking" /\ Speak!Progress)
    /\ WF_Users!vars(focus = "users" /\ Users!Progress)
    /\ WF_Reports!vars(focus = "reports" /\ Reports!Progress)
    /\ WF_Events!vars(focus = "events" /\ Events!Reading)
    /\ WF_Events!vars(focus = "events" /\ Events!Calling)

\* The types of the screen that runs, and its properties, which its module states: the
\* others keep their initial values.
TypeOK ==
    /\ focus = "forms" => Forms!TypeOK
    /\ focus = "photo" => Photo!TypeOK
    /\ focus = "event" => Event!TypeOK
    /\ focus = "host" => Host!TypeOK
    /\ focus = "speaking" => Speak!TypeOK
    /\ focus = "users" => Users!TypeOK
    /\ focus = "reports" => Reports!TypeOK
    /\ focus = "events" => Events!TypeOK

\* The discussion's page (PublicSpeakingPage.tsx) never offers a second response to who
\* was told of the first, and paints the votes that the server holds.
SpeakingSafe == focus = "speaking" => Speak!SpeakingSafe

\* One reset mail is asked for at a time (AuthForms), the photo shown is the one the
\* server holds, and no preview leaks (PhotoUpload).
AccountSafe ==
    /\ focus = "forms" => Forms!OneResetMail
    /\ focus = "photo" => Photo!PhotoSafe

\* A member of an event sees its chat whole, and on its page knows of the membership and
\* the details what the server does; the host is not sent past the controls.
EventSafe ==
    /\ focus = "event" => Event!EventRoomSafe
    /\ focus = "host" => Host!EventPageSafe

\* With nothing in the air the portal shows what the server holds: its accounts
\* (AdminUsers), its reports (AdminReports) and its events, whose owners lose nothing
\* to a form that is saved (AdminEvents).
DeskSafe ==
    /\ focus = "users" => Users!UsersAgree
    /\ focus = "reports" => Reports!BadgeAgrees
    /\ focus = "events" => Events!EventDeskSafe

\* Left alone, no form, no upload and no dialog of the portal spins for ever, and the
\* pages of an event and of the discussion have their connection and their verdict, or a
\* screen that says why not; no draft, vote or response waits for an answer.
PagesSettle ==
    <>[]( /\ focus = "forms" => Forms!FormsAtRest
          /\ focus = "photo" => Photo!PhotoAtRest
          /\ focus = "event" => Event!EventRoomAtRest
          /\ focus = "host" => Host!EventPageAtRest
          /\ focus = "speaking" => Speak!SpeakingAtRest
          /\ focus = "users" => Users!UsersAtRest
          /\ focus = "reports" => Reports!ReportsAtRest
          /\ focus = "events" => Events!EventsAtRest )
============================================================
