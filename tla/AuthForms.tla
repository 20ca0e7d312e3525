----------------------------- MODULE AuthForms -----------------------------
(***************************************************************************)
(* The forms of an account: the login modal with its three steps             *)
(* (AuthModal.tsx, ui.store.ts), the page of an emailed link                  *)
(* (PasswordSetupPage.tsx), the change of the password and the logout of the  *)
(* profile (ChangePasswordModal.tsx, ProfilePage.tsx).                        *)
(*                                                                         *)
(* A form stays mounted when its modal closes, so its answers land later on  *)
(* whatever is open then. The session itself is module Session.              *)
(***************************************************************************)
EXTENDS Naturals, FiniteSets

CONSTANTS
    Emails,     \* what is typed
    MaxTaps     \* bound on the dialogs opened and the calls asked for

VARIABLES
    page,       \* "landing", "link", "home" or "profile"
    modal, step, email, field, \* AuthModal: what is open, checked and typed
    forgotLoading, submitting, \* its flags: the link's and the forms'
    air,        \* its calls in the air
    link,       \* the form of a link: "idle", "sent", "refused" or "done"
    token,      \* server: can the token of the link still be used?
    password,   \* the change dialog: what is open, done, and its timer
    change,     \* the dialogs whose call is in the air
    busy,       \* what the profile waits for: "none", "refresh" or "logout"
    confirm,    \* logoutOpen
    taps

auth    == <<modal, step, email, field, forgotLoading, submitting, air>>
setup   == <<link, token>>
profile == <<password, change, busy, confirm>>
vars == <<page, auth, setup, profile, taps>>

None == "none"
Call(kind, e) == [n |-> taps + 1, kind |-> kind, email |-> e]
Calls == [n : 1 .. MaxTaps, kind : {"check", "login", "forgot"}, email : Emails]
Closed == [n |-> 0, done |-> FALSE, timer |-> 0]

TypeOK ==
    /\ page \in {"landing", "link", "home", "profile"}
    /\ modal \in BOOLEAN /\ step \in {"email", "password", "sent"}
    /\ email \in Emails \cup {None} /\ field \in Emails \cup {None}
    /\ forgotLoading \in BOOLEAN /\ submitting \subseteq {"check", "login"}
    /\ air \subseteq Calls
    /\ link \in {"idle", "sent", "refused", "done"} /\ token \in BOOLEAN
    /\ password \in [n : 0 .. MaxTaps, done : BOOLEAN, timer : 0 .. MaxTaps]
    /\ change \subseteq 1 .. MaxTaps
    /\ busy \in {"none", "refresh", "logout"} /\ confirm \in BOOLEAN
    /\ taps \in 0 .. MaxTaps

Init ==
    /\ page = "link" /\ modal = FALSE /\ step = "email"
    /\ email = None /\ field = None
    /\ forgotLoading = FALSE /\ submitting = {} /\ air = {}
    /\ link = "idle" /\ token = TRUE
    /\ password = Closed /\ change = {} /\ busy = "none" /\ confirm = FALSE /\ taps = 0

-----------------------------------------------------------------------------
(* The link of the mail.                                                    *)

SubmitLink ==
    /\ page = "link" /\ link \in {"idle", "refused"} /\ taps < MaxTaps
    /\ link' = "sent" /\ taps' = taps + 1
    /\ UNCHANGED <<page, auth, token, profile>>

\* The password is refused, or set with the answer lost, or set.
AnswerLink ==
    /\ link = "sent"
    /\ \/ link' = "refused" /\ UNCHANGED token
       \/ token /\ token' = FALSE /\ link' \in {"refused", "done"}
    /\ UNCHANGED <<page, auth, profile, taps>>

\* goLogin, from every state of the page; the user may close the page as well.
GoLogin ==
    /\ page = "link" /\ link # "sent" /\ taps < MaxTaps
    /\ page' = "landing" /\ modal' = TRUE /\ taps' = taps + 1
    /\ UNCHANGED <<step, email, field, forgotLoading, submitting, air, setup, profile>>

-----------------------------------------------------------------------------
(* The login modal.                                                         *)

\* Mutant: the flag of the forgotten password is reset with the rest.
OpenModalAnew ==
    /\ page = "landing" /\ ~ modal /\ taps < MaxTaps
    /\ modal' = TRUE /\ taps' = taps + 1
    /\ step' = "email" /\ email' = None /\ field' = None /\ submitting' = {}
    /\ forgotLoading' = FALSE
    /\ UNCHANGED <<page, air, setup, profile>>

\* openAuthModal, and the effect that resets the forms, with their isSubmitting.
OpenModal ==
    /\ page = "landing" /\ ~ modal /\ taps < MaxTaps
    /\ modal' = TRUE /\ taps' = taps + 1
    /\ step' = "email" /\ email' = None /\ field' = None /\ submitting' = {}
    /\ UNCHANGED <<page, forgotLoading, air, setup, profile>>

CloseModal ==
    /\ modal
    /\ modal' = FALSE
    /\ UNCHANGED <<page, step, email, field, forgotLoading, submitting, air, setup, profile,
                   taps>>

\* The field can be edited while its check is in the air.
Edit(e) ==
    /\ modal /\ step = "email"
    /\ field' = e
    /\ UNCHANGED <<page, modal, step, email, forgotLoading, submitting, air, setup, profile,
                   taps>>

\* submitEmail and submitPassword: the button is dead while one is in the air.
Submit ==
    /\ modal /\ submitting = {} /\ taps < MaxTaps
    /\ taps' = taps + 1
    /\ \/ /\ step = "email" /\ field # None
          /\ air' = air \cup {Call("check", field)} /\ submitting' = {"check"}
       \/ /\ step = "password" /\ email # None
          /\ air' = air \cup {Call("login", email)} /\ submitting' = {"login"}
    /\ UNCHANGED <<page, modal, step, email, field, forgotLoading, setup, profile>>

\* "Change email", locked while the reset mail is on its way, and "Use a
\* different email".
ChangeEmail ==
    /\ modal /\ (step = "sent" \/ (step = "password" /\ ~ forgotLoading))
    /\ step' = "email"
    /\ UNCHANGED <<page, modal, email, field, forgotLoading, submitting, air, setup,
                   profile,
                   taps>>

Forgot ==
    /\ modal /\ step = "password" /\ email # None
    /\ ~ forgotLoading /\ submitting = {} /\ taps < MaxTaps
    /\ taps' = taps + 1
    /\ air' = air \cup {Call("forgot", email)} /\ forgotLoading' = TRUE
    /\ UNCHANGED <<page, modal, step, email, field, submitting, setup, profile>>

AnswerCheck(c) ==
    /\ c.kind = "check" /\ air' = air \ {c} /\ submitting' = submitting \ {"check"}
    /\ \/ UNCHANGED <<step, email>>
       \/ email' = c.email /\ step' \in {"password", "sent"}
    /\ UNCHANGED <<page, modal, field, forgotLoading, setup, profile, taps>>

\* A login that succeeds closes the modal and leaves the page.
AnswerLogin(c) ==
    /\ c.kind = "login" /\ air' = air \ {c} /\ submitting' = submitting \ {"login"}
    /\ \/ UNCHANGED <<modal, page>>
       \/ modal' = FALSE /\ page' = "home"
    /\ UNCHANGED <<step, email, field, forgotLoading, setup, profile, taps>>

\* The flag is released whatever the answer.
AnswerForgot(c) ==
    /\ c.kind = "forgot" /\ air' = air \ {c}
    /\ step' \in {step, "sent"}
    /\ forgotLoading' = FALSE
    /\ UNCHANGED <<page, modal, email, field, submitting, setup, profile, taps>>

-----------------------------------------------------------------------------
(* The profile.                                                             *)

Visit ==
    /\ page = "home"
    /\ page' = "profile"
    /\ UNCHANGED <<auth, setup, profile, taps>>

OpenPassword ==
    /\ page = "profile" /\ password.n = 0 /\ ~ confirm /\ taps < MaxTaps
    /\ taps' = taps + 1
    /\ password' = [password EXCEPT !.n = taps + 1, !.done = FALSE]
    /\ UNCHANGED <<page, auth, setup, change, busy, confirm>>

SubmitPassword ==
    /\ password.n # 0 /\ ~ password.done /\ password.n \notin change /\ taps < MaxTaps
    /\ change' = change \cup {password.n} /\ taps' = taps + 1
    /\ UNCHANGED <<page, auth, setup, password, busy, confirm>>

\* The tokens are stored (Session); the form shows it if it is still there.
AnswerPassword == \E n \in change :
    /\ change' = change \ {n}
    /\ \/ UNCHANGED password
       \/ password' = IF n = password.n
                      THEN [password EXCEPT !.done = TRUE, !.timer = password.n] ELSE password
    /\ UNCHANGED <<page, auth, setup, busy, confirm, taps>>

\* The form unmounts with its modal, and clears the timer.
ClosePassword ==
    /\ password.n # 0
    /\ password' = Closed
    /\ UNCHANGED <<page, auth, setup, change, busy, confirm, taps>>

\* Success closes the dialog on its own.
TimerCloses ==
    /\ password.timer # 0
    /\ password' = Closed
    /\ UNCHANGED <<page, auth, setup, change, busy, confirm, taps>>

Refresh ==
    /\ page = "profile" /\ busy = "none" /\ password.n = 0 /\ taps < MaxTaps
    /\ busy' = "refresh" /\ taps' = taps + 1
    /\ UNCHANGED <<page, auth, setup, password, change, confirm>>
AskLogout(b) ==
    /\ page = "profile" /\ password.n = 0 /\ confirm # b
    /\ confirm' = b
    /\ UNCHANGED <<page, auth, setup, password, change, busy, taps>>
Logout ==
    /\ confirm /\ busy # "logout"
    /\ busy' = "logout"
    /\ UNCHANGED <<page, auth, setup, password, change, confirm, taps>>

\* A refresh that ends releases its button; a logout leaves the page either way.
AnswerProfile ==
    /\ busy # "none"
    /\ busy' = "none"
    /\ page' = IF busy = "logout" THEN "landing" ELSE page
    /\ confirm' = (confirm /\ busy # "logout")
    /\ password' = IF busy = "logout" THEN Closed ELSE password
    /\ UNCHANGED <<auth, setup, change, taps>>

-----------------------------------------------------------------------------
Answers ==
    \/ AnswerLink \/ AnswerPassword \/ AnswerProfile
    \/ \E c \in air : AnswerCheck(c) \/ AnswerLogin(c) \/ AnswerForgot(c)
Next ==
    \/ Answers \/ TimerCloses
    \/ SubmitLink \/ GoLogin \/ OpenModal \/ CloseModal \/ Submit \/ ChangeEmail \/ Forgot
    \/ \E e \in Emails : Edit(e)
    \/ Visit \/ OpenPassword \/ SubmitPassword \/ ClosePassword \/ Refresh \/ Logout
    \/ \E b \in BOOLEAN : AskLogout(b)
Spec == Init /\ [][Next]_vars

\* Every call is answered, if only by an error, and timers fire.
Progress == Answers \/ TimerCloses
FairSpec == Spec /\ WF_vars(Progress)
-----------------------------------------------------------------------------
(* Properties; one with a prime is about every step.                        *)

\* "without its own flag every extra tap fired another reset email": one reset
\* mail is asked for at a time, the modal closed and opened again included.
OneResetMail == Cardinality({c \in air : c.kind = "forgot"}) <= 1

\* No form spins, and no dialog that has done its work stands.
FormsAtRest ==
    /\ ~ forgotLoading /\ submitting = {} /\ link # "sent" /\ busy = "none"
    /\ ~ password.done

\* "verified -> same modal: email locked, password appears, login".
LockedEmailShown == modal /\ step = "password" => field = email
=============================================================================
