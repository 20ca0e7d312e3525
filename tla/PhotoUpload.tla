---------------------------- MODULE PhotoUpload ----------------------------
(***************************************************************************)
(* The profile photo (ProfilePhotoUploader.tsx, RemovePhotoConfirmModal.tsx): *)
(* a file is picked, checked, re-encoded (images.ts), shown and uploaded, or  *)
(* the photo is removed; the profile can be reloaded (ProfilePage.tsx), left  *)
(* and visited again. The file picker is the system's: it may answer at any   *)
(* time once it was asked for. The server serves the calls, and its answers   *)
(* come, in any order, or are lost; a call that has failed here may still be  *)
(* served. What a visit left under way goes on without its page.              *)
(***************************************************************************)
EXTENDS Naturals, FiniteSets

CONSTANTS
    Files,      \* what the user has to pick from
    SizeOf,     \* the size of a file: 1 is small enough to skip, 2 to upload
    MaxPicks    \* bound on the files picked, the calls made and the visits

VARIABLES
    stored,     \* server: the photo
    photo,      \* client: user.profile_photo
    pending,    \* the file in the dialog, with its object URL
    urls,       \* object URLs not revoked
    preparing,  \* the file being re-encoded, with the URL it will have
    orphans,    \* those whose page was left before they were ready
    inFlight, uploading, removing,
    calls,      \* what is in the air: the photo the call stores or has read
    picking, viewing, confirm,  \* the system's picker, the viewer, the removal
    visit,      \* which mount of the page this is
    missed,     \* history: has the page not heard of the store's last change?
    picks

files == <<pending, urls, preparing, orphans>>
busy == <<inFlight, uploading, removing>>
dialogs == <<picking, viewing, confirm>>
ends == <<stored, photo, missed>>
vars == <<ends, files, busy, calls, dialogs, visit, picks>>

None == "none"
Url(f, n) == [file |-> f, n |-> n]
NoUrl == Url(None, 0)

TypeOK ==
    /\ stored \in Files \cup {None} /\ photo \in Files \cup {None}
    /\ pending \in [file : Files \cup {None}, n : 0 .. MaxPicks]
    /\ urls \subseteq [file : Files, n : 1 .. MaxPicks]
    /\ preparing \in [file : Files \cup {None}, n : 0 .. MaxPicks]
    /\ orphans \subseteq [file : Files, n : 1 .. MaxPicks]
    /\ inFlight \in BOOLEAN /\ uploading \in BOOLEAN /\ removing \in BOOLEAN
    /\ calls \subseteq [n : 1 .. MaxPicks, kind : {"set", "read"}, visit : 0 .. MaxPicks,
                        photo : Files \cup {None}, old : BOOLEAN,
                        pc : {"sent", "served", "failed", "dropped"}]
    /\ picking \in BOOLEAN /\ viewing \in BOOLEAN /\ confirm \in BOOLEAN
    /\ visit \in 0 .. MaxPicks /\ missed \in BOOLEAN /\ picks \in 0 .. MaxPicks

Init ==
    /\ stored = None /\ photo = None /\ pending = NoUrl /\ urls = {}
    /\ preparing = NoUrl /\ orphans = {}
    /\ inFlight = FALSE /\ uploading = FALSE /\ removing = FALSE
    /\ calls = {} /\ picking = FALSE /\ viewing = FALSE /\ confirm = FALSE
    /\ visit = 0 /\ missed = FALSE /\ picks = 0

-----------------------------------------------------------------------------
(* Files. A file that is re-encoded never grows (prepareImageForUpload); one  *)
(* that is small, cannot be decoded or does not shrink is taken as it is.     *)
Prepared(f) ==
    IF SizeOf[f] <= 1 THEN {SizeOf[f]} ELSE 1 .. SizeOf[f]

\* validateImageType and the limit of the source; validateImageFile afterwards.
MaxSource == 3
MaxUpload == 2

-----------------------------------------------------------------------------
(* The dialogs. The photo opens the viewer, the viewer the picker and the     *)
(* removal; the dialog of a picked file waits for an upload.                  *)

Covered == viewing \/ confirm \/ pending # NoUrl

OpenPicker ==
    /\ ~ uploading
    /\ \/ ~ Covered /\ photo = None /\ preparing = NoUrl
       \/ viewing /\ preparing = NoUrl
       \/ pending # NoUrl
    /\ picking' = TRUE /\ viewing' = FALSE
    /\ UNCHANGED <<ends, files, busy, calls, confirm, visit, picks>>
View ==
    /\ ~ Covered /\ photo # None
    /\ viewing' = TRUE
    /\ UNCHANGED <<ends, files, busy, calls, picking, confirm, visit, picks>>
AskRemove ==
    /\ viewing /\ ~ uploading /\ preparing = NoUrl
    /\ viewing' = FALSE /\ confirm' = TRUE
    /\ UNCHANGED <<ends, files, busy, calls, picking, visit, picks>>
CloseDialog ==
    /\ \/ viewing /\ viewing' = FALSE /\ UNCHANGED confirm
       \/ confirm /\ ~ removing /\ confirm' = FALSE /\ UNCHANGED viewing
    /\ UNCHANGED <<ends, files, busy, calls, picking, visit, picks>>

ClearPending == pending' = NoUrl /\ urls' = urls \ {pending}

\* Dismissing during an upload would hide its progress, so it waits.
ClosePending ==
    /\ pending # NoUrl /\ ~ uploading
    /\ ClearPending
    /\ UNCHANGED <<ends, preparing, orphans, busy, calls, dialogs, visit, picks>>

\* The page is left, which revokes its preview, and visited again, with every flag down.
Revisit ==
    /\ picks < MaxPicks /\ picks' = picks + 1
    /\ visit' = visit + 1
    /\ ClearPending
    /\ preparing' = NoUrl
    /\ orphans' = IF preparing = NoUrl THEN orphans ELSE orphans \cup {preparing}
    /\ inFlight' = FALSE /\ uploading' = FALSE /\ removing' = FALSE
    /\ picking' = FALSE /\ viewing' = FALSE /\ confirm' = FALSE
    /\ UNCHANGED <<ends, calls>>

-----------------------------------------------------------------------------
(* A picked file.                                                           *)

\* handleFile, as far as its await.
HandleFile(f) ==
    /\ picking /\ picks < MaxPicks
    /\ picking' = FALSE /\ picks' = picks + 1
    /\ preparing' = IF inFlight \/ preparing # NoUrl \/ SizeOf[f] > MaxSource
                    THEN preparing ELSE Url(f, picks + 1)
    /\ UNCHANGED <<ends, pending, urls, orphans, busy, calls, viewing, confirm, visit>>

\* And from there: a file that is still too large is refused, else it replaces
\* the one shown, whose URL is revoked.
PrepareDone ==
    /\ preparing # NoUrl
    /\ \E size \in Prepared(preparing.file) :
         IF size > MaxUpload THEN UNCHANGED <<pending, urls>>
         ELSE /\ pending' = preparing
              /\ urls' = (urls \ {pending}) \cup {preparing}
    /\ preparing' = NoUrl
    /\ UNCHANGED <<ends, orphans, busy, calls, dialogs, visit, picks>>

\* A page that was left gives its file a URL as well, and nothing revokes it.
OrphanDone == \E o \in orphans \ urls :
    /\ \E size \in Prepared(o.file) :
         IF size > MaxUpload THEN orphans' = orphans \ {o} /\ UNCHANGED urls
         ELSE urls' = urls \cup {o} /\ UNCHANGED orphans
    /\ UNCHANGED <<ends, pending, preparing, busy, calls, dialogs, visit, picks>>

-----------------------------------------------------------------------------
(* The calls.                                                               *)

Ask(kind, p) ==
    /\ picks < MaxPicks /\ picks' = picks + 1
    /\ calls' = calls \cup {[n |-> picks + 1, kind |-> kind, visit |-> visit, photo |-> p,
                             old |-> FALSE, pc |-> "sent"]}

Upload ==
    /\ pending # NoUrl /\ ~ inFlight
    /\ Ask("set", pending.file)
    /\ inFlight' = TRUE /\ uploading' = TRUE
    /\ UNCHANGED <<ends, files, removing, dialogs, visit>>

Remove ==
    /\ confirm /\ ~ inFlight
    /\ Ask("set", None)
    /\ inFlight' = TRUE /\ removing' = TRUE
    /\ UNCHANGED <<ends, files, uploading, dialogs, visit>>

\* The button of the page that reads the profile again, dead while it spins.
Reload ==
    /\ ~ Covered /\ \A c \in calls : ~ (c.kind = "read" /\ c.visit = visit)
    /\ Ask("read", None)
    /\ UNCHANGED <<ends, files, busy, dialogs, visit>>

\* A change overtakes what was read, and what other visits have stored, before.
Overtaken(c, d) == d.kind = "read" \/ d.visit # c.visit \/ c.pc = "dropped"
Past(c, ds) == {[d EXCEPT !.old = @ \/ Overtaken(c, d)] : d \in ds}

\* The server stores, and its answer comes or is lost, or fails; it answers a reload.
ServeChange == \E c \in calls :
    /\ c.kind = "set" /\ c.pc = "sent"
    /\ \/ /\ stored' = c.photo /\ UNCHANGED missed
          /\ calls' = Past(c, calls \ {c}) \cup {[c EXCEPT !.pc = "served", !.old = FALSE]}
       \/ /\ stored' = c.photo /\ missed' = TRUE
          /\ calls' = Past(c, calls \ {c}) \cup {[c EXCEPT !.pc = "failed"]}
       \/ /\ calls' = (calls \ {c}) \cup {[c EXCEPT !.pc = "failed"]}
          /\ UNCHANGED <<stored, missed>>
    /\ UNCHANGED <<photo, files, busy, dialogs, visit, picks>>
ServeRead == \E c \in calls :
    /\ c.kind = "read" /\ c.pc = "sent"
    /\ \/ calls' = (calls \ {c}) \cup {[c EXCEPT !.pc = "served", !.photo = stored, !.old = FALSE]}
       \/ calls' = (calls \ {c}) \cup {[c EXCEPT !.pc = "failed"]}
    /\ UNCHANGED <<ends, files, busy, dialogs, visit, picks>>

\* A change whose connection broke reaches the server late, or never.
ServeLate == \E c \in calls :
    /\ c.pc = "dropped"
    /\ \/ stored' = c.photo /\ missed' = TRUE /\ calls' = Past(c, calls \ {c})
       \/ calls' = calls \ {c} /\ UNCHANGED <<stored, missed>>
    /\ UNCHANGED <<photo, files, busy, dialogs, visit, picks>>

\* The end of upload and of remove: the flags are released either way, those of the
\* page that asked.
Released(c) ==
    IF c.visit # visit THEN UNCHANGED busy
    ELSE /\ inFlight' = FALSE
         /\ uploading' = (uploading /\ c.photo = None)
         /\ removing' = (removing /\ c.photo # None)

\* The response is the refreshed profile: the store adopts it whoever has asked.
Adopted(c) == photo' = c.photo /\ missed' = c.old

AnswerChange == \E c \in calls :
    /\ c.kind = "set" /\ c.pc = "served" /\ calls' = calls \ {c}
    /\ Released(c) /\ Adopted(c)
    /\ IF c.visit # visit THEN UNCHANGED <<pending, urls, confirm>>
       ELSE IF c.photo = None THEN confirm' = FALSE /\ UNCHANGED <<pending, urls>>
       ELSE ClearPending /\ UNCHANGED confirm
    /\ UNCHANGED <<stored, preparing, orphans, picking, viewing, visit, picks>>
AnswerRead == \E c \in calls :
    /\ c.kind = "read" /\ c.pc = "served" /\ calls' = calls \ {c}
    /\ Adopted(c)
    /\ UNCHANGED <<stored, files, busy, dialogs, visit, picks>>

\* The toast of an error, which keeps what is shown; the server may still be at it.
AnswerFailed == \E c \in calls :
    /\ \/ c.pc = "failed" /\ calls' = calls \ {c}
       \/ /\ c.kind = "set" /\ c.pc = "sent"
          /\ calls' = (calls \ {c}) \cup {[c EXCEPT !.pc = "dropped"]}
    /\ IF c.kind = "set" THEN Released(c) ELSE UNCHANGED busy
    /\ UNCHANGED <<ends, files, dialogs, visit, picks>>

-----------------------------------------------------------------------------
Progress ==
    \/ PrepareDone \/ OrphanDone \/ ServeChange \/ ServeRead \/ ServeLate
    \/ AnswerChange \/ AnswerRead \/ AnswerFailed
Next ==
    \/ Progress
    \/ OpenPicker \/ View \/ AskRemove \/ CloseDialog \/ ClosePending \/ Revisit
    \/ Upload \/ Remove \/ Reload
    \/ \E f \in Files : HandleFile(f)
Spec == Init /\ [][Next]_vars

\* The browser encodes and the server answers.
FairSpec == Spec /\ WF_vars(Progress)
-----------------------------------------------------------------------------
(* Properties.                                                              *)

\* With no call in the air the page shows the photo the server holds, unless the answer
\* to the last change was lost, or the last answer heard was older than it: one of a
\* reload, or of a visit left with its call in the air. Within a visit uploads and
\* removals exclude each other, so that no answer of theirs overtakes another.
PhotoAgrees == calls = {} /\ ~ missed => photo = stored

\* No object URL outlives the preview it was made for, that of a visit included; but for
\* a file that was not ready when its page was left.
UrlsReleased == urls \ orphans = IF pending = NoUrl THEN {} ELSE {pending}

\* The photo shown is the one stored, and no preview leaks.
PhotoSafe == PhotoAgrees /\ UrlsReleased

\* Left alone, neither button spins, and no file is half ready.
PhotoAtRest == ~ uploading /\ ~ removing /\ preparing = NoUrl

=============================================================================
