-------------------------- MODULE PageClientProofs --------------------------
(***************************************************************************)
(* Theorems about the other pages of the app and the portal of its staff,   *)
(* one at a time: a step of another screen is a stutter.  Each screen has   *)
(* an inductive invariant of its own, made of its types and of what makes   *)
(* its properties last: what is in the air, and what it will say.           *)
(***************************************************************************)
EXTENDS PageClient, FiniteSetTheorems, SequenceTheorems, TLAPS

-----------------------------------------------------------------------------
\* Each screen runs as its module says, whatever the others do.
LEMMA FormsAlone == Spec => Forms!Spec
<1>1. Init => Forms!Init
  BY DEF Init
<1>2. [Next]_vars => [Forms!Next]_Forms!vars
  BY DEF Next, vars, PhotoRest, EventRest, HostRest, SpeakRest, UsersRest,
     ReportsRest, EventsRest, Forms!vars, Forms!auth, Forms!setup, Forms!profile
<1> QED BY <1>1, <1>2, PTL DEF Spec, Forms!Spec

LEMMA PhotoAlone == Spec => Photo!Spec
<1>1. Init => Photo!Init
  BY DEF Init
<1>2. [Next]_vars => [Photo!Next]_Photo!vars
  BY DEF Next, vars, FormsRest, EventRest, HostRest, SpeakRest, UsersRest,
     ReportsRest, EventsRest, Photo!vars, Photo!ends, Photo!files, Photo!busy,
     Photo!dialogs
<1> QED BY <1>1, <1>2, PTL DEF Spec, Photo!Spec

LEMMA EventAlone == Spec => Event!Spec
<1>1. Init => Event!Init
  BY DEF Init
<1>2. [Next]_vars => [Event!Next]_Event!vars
  BY DEF Next, vars, FormsRest, PhotoRest, HostRest, SpeakRest, UsersRest,
     ReportsRest, EventsRest, Event!vars, Event!socket, Event!screen, Event!net,
     Event!server, Event!counts
<1> QED BY <1>1, <1>2, PTL DEF Spec, Event!Spec

LEMMA HostAlone == Spec => Host!Spec
<1>1. Init => Host!Init
  BY DEF Init
<1>2. [Next]_vars => [Host!Next]_Host!vars
  BY DEF Next, vars, FormsRest, PhotoRest, EventRest, SpeakRest, UsersRest,
     ReportsRest, EventsRest, Host!vars, Host!server, Host!queries, Host!screen,
     Host!counts
<1> QED BY <1>1, <1>2, PTL DEF Spec, Host!Spec

LEMMA SpeakAlone == Spec => Speak!Spec
<1>1. Init => Speak!Init
  BY DEF Init
<1>2. [Next]_vars => [Speak!Next]_Speak!vars
  BY DEF Next, vars, FormsRest, PhotoRest, EventRest, HostRest, UsersRest,
     ReportsRest, EventsRest, Speak!vars, Speak!query, Speak!verdict, Speak!line,
     Speak!hearts, Speak!composer, Speak!server, Speak!ghost, Speak!counts
<1> QED BY <1>1, <1>2, PTL DEF Spec, Speak!Spec

LEMMA UsersAlone == Spec => Users!Spec
<1>1. Init => Users!Init
  BY DEF Init
<1>2. [Next]_vars => [Users!Next]_Users!vars
  BY DEF Next, vars, FormsRest, PhotoRest, EventRest, HostRest, SpeakRest,
     ReportsRest, EventsRest, Users!vars
<1> QED BY <1>1, <1>2, PTL DEF Spec, Users!Spec

LEMMA ReportsAlone == Spec => Reports!Spec
<1>1. Init => Reports!Init
  BY DEF Init
<1>2. [Next]_vars => [Reports!Next]_Reports!vars
  BY DEF Next, vars, FormsRest, PhotoRest, EventRest, HostRest, SpeakRest, UsersRest,
     EventsRest, Reports!vars, Reports!lists
<1> QED BY <1>1, <1>2, PTL DEF Spec, Reports!Spec

LEMMA EventsAlone == Spec => Events!Spec
<1>1. Init => Events!Init
  BY DEF Init
<1>2. [Next]_vars => [Events!Next]_Events!vars
  BY DEF Next, vars, FormsRest, PhotoRest, EventRest, HostRest, SpeakRest, UsersRest,
     ReportsRest, Events!vars, Events!queries, Events!create, Events!server
<1> QED BY <1>1, <1>2, PTL DEF Spec, Events!Spec

-----------------------------------------------------------------------------
(* Sequences of frames.                                                     *)

\* The places of a sequence that hold a member of a set.
Marked(w, S) == {i \in DOMAIN w : w[i] \in S}

LEMMA NoFrames == Len(<<>>) = 0 /\ \A T : <<>> \in Seq(T)
  OBVIOUS

LEMMA MarkedFinite ==
    ASSUME NEW T, NEW w \in Seq(T), NEW S
    PROVE  IsFiniteSet(Marked(w, S)) /\ Cardinality(Marked(w, S)) \in Nat
<1>1. Marked(w, S) \subseteq 1 .. Len(w)
  BY DEF Marked
<1>2. IsFiniteSet(1 .. Len(w))
  BY FS_Interval
<1> QED BY <1>1, <1>2, FS_Subset, FS_CardinalityType

LEMMA MarkedEmpty == ASSUME NEW S PROVE Cardinality(Marked(<<>>, S)) = 0
<1>1. Marked(<<>>, S) = {}
  BY DEF Marked
<1> QED BY <1>1, FS_EmptySet

LEMMA MarkedAppend ==
    ASSUME NEW T, NEW w \in Seq(T), NEW f \in T, NEW S
    PROVE  Cardinality(Marked(Append(w, f), S)) =
             Cardinality(Marked(w, S)) + (IF f \in S THEN 1 ELSE 0)
<1>1. IsFiniteSet(Marked(w, S)) /\ Cardinality(Marked(w, S)) \in Nat
  BY MarkedFinite
<1>2. /\ Len(w) + 1 \notin Marked(w, S)
      /\ Marked(Append(w, f), S) = IF f \in S THEN Marked(w, S) \cup {Len(w) + 1}
                                   ELSE Marked(w, S)
  BY AppendProperties DEF Marked
<1>3. Cardinality(Marked(w, S) \cup {Len(w) + 1}) = Cardinality(Marked(w, S)) + 1
  BY <1>1, <1>2, FS_AddElement
<1> QED BY <1>1, <1>2, <1>3

LEMMA SeqWider == ASSUME NEW T, NEW S, S \subseteq T, NEW w \in Seq(S) PROVE w \in Seq(T)
  OBVIOUS

LEMMA TwoFrames == ASSUME NEW T, NEW f \in T, NEW g \in T PROVE <<f, g>> \in Seq(T)
  OBVIOUS

\* A frame behind the others.
LEMMA AppendShift ==
    ASSUME NEW T, NEW w \in Seq(T), NEW f \in T
    PROVE  /\ Append(w, f) \in Seq(T) /\ Append(w, f)[Len(w) + 1] = f
           /\ DOMAIN Append(w, f) = DOMAIN w \cup {Len(w) + 1}
           /\ \A i \in DOMAIN w : Append(w, f)[i] = w[i] /\ i < Len(w) + 1
<1>1. /\ Append(w, f) \in Seq(T) /\ Len(Append(w, f)) = Len(w) + 1
      /\ \A i \in 1 .. Len(w) : Append(w, f)[i] = w[i]
      /\ Append(w, f)[Len(w) + 1] = f
  BY AppendProperties
<1>2. /\ Len(w) \in Nat /\ DOMAIN w = 1 .. Len(w)
      /\ DOMAIN Append(w, f) = 1 .. Len(Append(w, f))
  BY <1>1, LenProperties
<1> QED BY <1>1, <1>2

LEMMA TailShift ==
    ASSUME NEW T, NEW w \in Seq(T), w # <<>>
    PROVE  /\ Tail(w) \in Seq(T) /\ 1 \in DOMAIN w /\ Head(w) = w[1] /\ Head(w) \in T
           /\ \A i \in DOMAIN Tail(w) : i + 1 \in DOMAIN w /\ Tail(w)[i] = w[i + 1]
           /\ \A i \in DOMAIN w : i = 1 \/ (i - 1 \in DOMAIN Tail(w) /\ Tail(w)[i - 1] = w[i])
<1>1. /\ Tail(w) \in Seq(T) /\ Len(Tail(w)) = Len(w) - 1 /\ Head(w) \in T
      /\ \A i \in 1 .. Len(Tail(w)) : Tail(w)[i] = w[i + 1]
  BY HeadTailProperties
<1>2. Len(w) \in Nat /\ Len(w) > 0 /\ DOMAIN w = 1 .. Len(w) /\ Head(w) = w[1]
  BY EmptySeq
<1>3. DOMAIN Tail(w) = 1 .. Len(w) - 1
  BY <1>1, LenProperties
<1> QED BY <1>1, <1>2, <1>3

LEMMA MarkedTail ==
    ASSUME NEW T, NEW w \in Seq(T), w # <<>>, NEW S
    PROVE  Cardinality(Marked(w, S)) =
             Cardinality(Marked(Tail(w), S)) + (IF Head(w) \in S THEN 1 ELSE 0)
<1> DEFINE rest1 == Marked(w, S) \ {1}
           shift == [i \in Marked(Tail(w), S) |-> i + 1]
<1>1. /\ Tail(w) \in Seq(T) /\ 1 \in DOMAIN w /\ Head(w) = w[1]
      /\ \A i \in DOMAIN Tail(w) : i + 1 \in DOMAIN w /\ Tail(w)[i] = w[i + 1]
      /\ \A i \in DOMAIN w : i = 1 \/ (i - 1 \in DOMAIN Tail(w) /\ Tail(w)[i - 1] = w[i])
  BY TailShift
<1>2. DOMAIN w \subseteq Nat \ {0} /\ DOMAIN Tail(w) \subseteq Nat \ {0}
  BY <1>1, LenProperties
<1>3. shift \in [Marked(Tail(w), S) -> rest1]
  BY <1>1, <1>2 DEF Marked
<1>4. \A t \in rest1 : \E i \in Marked(Tail(w), S) : shift[i] = t
  <2> SUFFICES ASSUME NEW t \in rest1 PROVE \E i \in Marked(Tail(w), S) : shift[i] = t
    OBVIOUS
  <2>1. t \in DOMAIN w /\ t # 1 /\ w[t] \in S
    BY DEF Marked
  <2>2. t - 1 \in Marked(Tail(w), S)
    BY <1>1, <2>1 DEF Marked
  <2>3. shift[t - 1] = t
    BY <1>2, <2>1, <2>2
  <2> QED BY <2>2, <2>3
<1>5. IsInjective(shift)
  BY <1>2 DEF IsInjective, Marked
<1>6. ExistsBijection(Marked(Tail(w), S), rest1)
  BY <1>3, <1>4, <1>5 DEF ExistsBijection, Bijection, Injection, Surjection
<1>7. Cardinality(rest1) = Cardinality(Marked(Tail(w), S))
  <2>1. IsFiniteSet(Marked(Tail(w), S))
    BY <1>1, MarkedFinite
  <2> QED BY <1>6, <2>1, FS_Bijection
<1>8. IsFiniteSet(Marked(w, S)) /\ Cardinality(Marked(w, S)) \in Nat
  BY MarkedFinite
<1>9. 1 \in Marked(w, S) <=> Head(w) \in S
  BY <1>1 DEF Marked
<1>10. Cardinality(rest1) = IF 1 \in Marked(w, S) THEN Cardinality(Marked(w, S)) - 1
                            ELSE Cardinality(Marked(w, S))
  BY <1>8, FS_RemoveElement
<1> HIDE DEF rest1
<1> QED BY <1>7, <1>8, <1>9, <1>10

-----------------------------------------------------------------------------
(* The forms of an account (AuthForms).                                     *)

IsForgot(c) == c.kind = "forgot"

\* One reset mail is in the air at most, and its flag is up.
OneMail ==
    /\ \A c, d \in air : IsForgot(c) /\ IsForgot(d) => c = d
    /\ (\E c \in air : IsForgot(c)) => forgotLoading

LEMMA FormsBegin == ASSUME Forms!Init PROVE Forms!TypeOK /\ OneMail
<1>1. /\ forgotLoading = FALSE /\ submitting = {} /\ air = {} /\ token = TRUE /\ modal = FALSE
      /\ change = {} /\ formsConfirm = FALSE /\ formsTaps = 0
  BY DEF Forms!Init
<1>2. 0 \in 0 .. MaxFormTaps
  BY PagesAssumption
<1>3. password \in [n : 0 .. MaxFormTaps, done : BOOLEAN, timer : 0 .. MaxFormTaps]
  BY <1>2 DEF Forms!Init, Forms!Closed
<1> QED BY <1>1, <1>2, <1>3 DEF Forms!Init, Forms!TypeOK, OneMail

\* The steps of the login modal that send nothing.
LEMMA ModalSteps ==
    ASSUME Forms!TypeOK, OneMail,
           Forms!OpenModal \/ Forms!CloseModal \/ Forms!ChangeEmail \/ Forms!GoLogin
           \/ \E e \in Emails : Forms!Edit(e)
    PROVE  Forms!TypeOK' /\ OneMail'
<1>1. MaxFormTaps \in Nat
  BY PagesAssumption
<1>2. /\ UNCHANGED <<air, forgotLoading, link, token, password, change, busy, formsConfirm>>
      /\ formsPage' \in {formsPage, "landing"}
      /\ modal' \in BOOLEAN /\ step' \in {step, "email"} /\ email' \in {email, "none"}
      /\ field' \in Emails \cup {field, "none"} /\ submitting' \in {submitting, {}}
      /\ formsTaps' \in {formsTaps} \cup 0 .. MaxFormTaps
  <2>1. CASE Forms!OpenModal
    BY <1>1, <2>1 DEF Forms!OpenModal, Forms!None, Forms!setup, Forms!profile, Forms!TypeOK
  <2>2. CASE Forms!CloseModal
    BY <2>2 DEF Forms!CloseModal, Forms!setup, Forms!profile
  <2>3. CASE Forms!ChangeEmail
    <3>1. modal \in BOOLEAN
      BY DEF Forms!TypeOK
    <3> QED BY <2>3, <3>1 DEF Forms!ChangeEmail, Forms!setup, Forms!profile
  <2>4. CASE Forms!GoLogin
    BY <1>1, <2>4 DEF Forms!GoLogin, Forms!setup, Forms!profile, Forms!TypeOK
  <2>5. CASE \E e \in Emails : Forms!Edit(e)
    <3>1. modal \in BOOLEAN
      BY DEF Forms!TypeOK
    <3> QED BY <2>5, <3>1 DEF Forms!Edit, Forms!setup, Forms!profile
  <2> QED BY <2>1, <2>2, <2>3, <2>4, <2>5
<1>3. OneMail'
  BY <1>2 DEF OneMail
<1> QED BY <1>2, <1>3 DEF Forms!TypeOK, Forms!None

\* The calls of the login modal: a check or a login is no reset mail.
LEMMA ModalCalls ==
    ASSUME Forms!TypeOK, OneMail, Forms!Submit \/ Forms!Forgot
    PROVE  Forms!TypeOK' /\ OneMail'
<1>1. /\ UNCHANGED <<formsPage, modal, step, email, field, link, token, password, change, busy,
                     formsConfirm>>
      /\ formsTaps' \in 0 .. MaxFormTaps /\ formsTaps + 1 \in 1 .. MaxFormTaps
  <2>1. MaxFormTaps \in Nat
    BY PagesAssumption
  <2>2. CASE Forms!Submit
    BY <2>1, <2>2 DEF Forms!Submit, Forms!setup, Forms!profile, Forms!TypeOK
  <2>3. CASE Forms!Forgot
    BY <2>1, <2>3 DEF Forms!Forgot, Forms!setup, Forms!profile, Forms!TypeOK
  <2> QED BY <2>2, <2>3
<1>2. /\ field # "none" => field \in Emails
      /\ email # "none" => email \in Emails
  BY DEF Forms!TypeOK, Forms!None
<1>3. CASE Forms!Submit
  <2>1. forgotLoading' = forgotLoading /\ submitting' \subseteq {"check", "login"}
    BY <1>3 DEF Forms!Submit
  <2>2. PICK c \in Forms!Calls : air' = air \cup {c} /\ c.kind # "forgot"
    <3>1. CASE step = "email"
      <4>1. field \in Emails /\ air' = air \cup {Forms!Call("check", field)}
        BY <1>2, <1>3, <3>1 DEF Forms!Submit, Forms!None
      <4>2. Forms!Call("check", field) \in Forms!Calls /\ Forms!Call("check", field).kind # "forgot"
        BY <1>1, <4>1 DEF Forms!Calls, Forms!Call
      <4> QED BY <4>1, <4>2
    <3>2. CASE step = "password"
      <4>1. email \in Emails /\ air' = air \cup {Forms!Call("login", email)}
        BY <1>2, <1>3, <3>2 DEF Forms!Submit, Forms!None
      <4>2. Forms!Call("login", email) \in Forms!Calls /\ Forms!Call("login", email).kind # "forgot"
        BY <1>1, <4>1 DEF Forms!Calls, Forms!Call
      <4> QED BY <4>1, <4>2
    <3> QED BY <1>3, <3>1, <3>2 DEF Forms!Submit
  <2>3. OneMail'
    BY <2>1, <2>2 DEF OneMail, IsForgot
  <2>4. air' \subseteq Forms!Calls
    BY <2>2 DEF Forms!TypeOK
  <2> QED BY <1>1, <2>1, <2>3, <2>4 DEF Forms!TypeOK
<1>4. CASE Forms!Forgot
  <2>1. /\ submitting' = submitting /\ ~ forgotLoading /\ forgotLoading' = TRUE
        /\ email # "none" /\ air' = air \cup {Forms!Call("forgot", email)}
    BY <1>4 DEF Forms!Forgot, Forms!None
  <2>2. Forms!Call("forgot", email) \in Forms!Calls
    BY <1>1, <1>2, <2>1 DEF Forms!Calls, Forms!Call
  <2>3. OneMail'
    BY <2>1 DEF OneMail
  <2>4. air' \subseteq Forms!Calls
    BY <2>1, <2>2 DEF Forms!TypeOK
  <2> QED BY <1>1, <2>1, <2>3, <2>4 DEF Forms!TypeOK
<1> QED BY <1>3, <1>4

\* Its answers.
LEMMA ModalAnswers ==
    ASSUME Forms!TypeOK, OneMail, NEW c \in air,
           Forms!AnswerCheck(c) \/ Forms!AnswerLogin(c) \/ Forms!AnswerForgot(c)
    PROVE  Forms!TypeOK' /\ OneMail'
<1>e. c.email \in Emails
  BY DEF Forms!TypeOK, Forms!Calls
<1>1. CASE Forms!AnswerCheck(c) \/ Forms!AnswerLogin(c)
  <2>1. /\ UNCHANGED <<field, forgotLoading, link, token, password, change, busy,
                       formsConfirm, formsTaps>>
        /\ air' \subseteq air /\ submitting' \subseteq submitting
        /\ formsPage' \in {formsPage, "home"} /\ modal' \in {modal, FALSE}
        /\ step' \in {step, "password", "sent"} /\ email' \in {email, c.email}
    <3>1. CASE Forms!AnswerCheck(c)
      BY <3>1 DEF Forms!AnswerCheck, Forms!setup, Forms!profile
    <3>2. CASE Forms!AnswerLogin(c)
      BY <3>2 DEF Forms!AnswerLogin, Forms!setup, Forms!profile
    <3> QED BY <1>1, <3>1, <3>2
  <2>2. OneMail'
    BY <2>1 DEF OneMail
  <2>3. air' \subseteq Forms!Calls
    BY <2>1 DEF Forms!TypeOK
  <2>4. (formsPage \in {"landing", "link", "home", "profile"} /\ modal \in BOOLEAN)'
    BY <2>1 DEF Forms!TypeOK
  <2>5. (step \in {"email", "password", "sent"} /\ submitting \subseteq {"check", "login"})'
    BY <2>1 DEF Forms!TypeOK
  <2>6. (email \in Emails \cup {Forms!None})'
    BY <1>e, <2>1 DEF Forms!TypeOK, Forms!None
  <2> QED BY <2>1, <2>2, <2>3, <2>4, <2>5, <2>6 DEF Forms!TypeOK, Forms!None
<1>2. CASE Forms!AnswerForgot(c)
  <2>1. /\ UNCHANGED <<formsPage, modal, email, field, submitting, link, token, password,
                       change, busy, formsConfirm, formsTaps>>
        /\ step' \in {step, "sent"} /\ forgotLoading' = FALSE
    BY <1>2 DEF Forms!AnswerForgot, Forms!setup, Forms!profile
  <2>2. IsForgot(c) /\ air' = air \ {c}
    BY <1>2 DEF Forms!AnswerForgot, IsForgot
  <2>3. OneMail'
    BY <2>1, <2>2 DEF OneMail
  <2>4. air' \subseteq Forms!Calls
    BY <2>2 DEF Forms!TypeOK
  <2>5. (step \in {"email", "password", "sent"} /\ forgotLoading \in BOOLEAN)'
    BY <2>1 DEF Forms!TypeOK
  <2>6. (field \in Emails \cup {Forms!None} /\ email \in Emails \cup {Forms!None})'
    BY <2>1 DEF Forms!TypeOK, Forms!None
  <2> QED BY <2>1, <2>3, <2>4, <2>5, <2>6 DEF Forms!TypeOK, Forms!None
<1> QED BY <1>1, <1>2

\* The steps of the link's page and of the profile leave the modal alone, but for what
\* it stands on.
LEMMA ProfileSteps ==
    ASSUME Forms!TypeOK, OneMail,
           \/ Forms!AnswerLink \/ Forms!SubmitLink
           \/ Forms!OpenPassword \/ Forms!SubmitPassword \/ Forms!AnswerPassword
           \/ Forms!ClosePassword \/ Forms!TimerCloses \/ Forms!AnswerProfile
           \/ Forms!Visit \/ Forms!Refresh \/ Forms!Logout
           \/ \E b \in BOOLEAN : Forms!AskLogout(b)
    PROVE  Forms!TypeOK' /\ OneMail'
<1>t. /\ MaxFormTaps \in Nat
      /\ formsTaps \in 0 .. MaxFormTaps /\ change \subseteq 1 .. MaxFormTaps
      /\ password \in [n : 0 .. MaxFormTaps, done : BOOLEAN, timer : 0 .. MaxFormTaps]
      /\ formsConfirm \in BOOLEAN /\ token \in BOOLEAN
  BY PagesAssumption DEF Forms!TypeOK
<1>p. /\ password.n \in 0 .. MaxFormTaps /\ password.timer \in 0 .. MaxFormTaps
  BY <1>t
<1>c. Forms!Closed \in [n : 0 .. MaxFormTaps, done : BOOLEAN, timer : 0 .. MaxFormTaps]
  BY <1>t DEF Forms!Closed
<1>1. /\ UNCHANGED <<modal, step, email, field, forgotLoading, submitting, air>>
      /\ formsPage' \in {formsPage, "profile", "landing"}
      /\ link' \in {link, "sent", "refused", "done"} /\ token' \in BOOLEAN
      /\ busy' \in {busy, "none", "refresh", "logout"}
      /\ formsConfirm' \in BOOLEAN /\ formsTaps' \in 0 .. MaxFormTaps
      /\ change' \subseteq 1 .. MaxFormTaps
      /\ password' \in [n : 0 .. MaxFormTaps, done : BOOLEAN, timer : 0 .. MaxFormTaps]
  <2>1. CASE Forms!AnswerLink
    BY <1>t, <2>1 DEF Forms!AnswerLink, Forms!auth, Forms!profile
  <2>2. CASE Forms!SubmitLink
    BY <1>t, <2>2 DEF Forms!SubmitLink, Forms!auth, Forms!profile
  <2>3. CASE Forms!OpenPassword
    <3>1. formsTaps + 1 \in 0 .. MaxFormTaps
      BY <1>t, <2>3 DEF Forms!OpenPassword
    <3> QED BY <1>t, <2>3, <3>1 DEF Forms!OpenPassword, Forms!auth, Forms!setup
  <2>4. CASE Forms!SubmitPassword
    <3>1. formsTaps + 1 \in 0 .. MaxFormTaps /\ password.n \in 1 .. MaxFormTaps
      BY <1>t, <1>p, <2>4 DEF Forms!SubmitPassword
    <3> QED BY <1>t, <2>4, <3>1 DEF Forms!SubmitPassword, Forms!auth, Forms!setup
  <2>5. CASE Forms!AnswerPassword
    BY <1>t, <2>5 DEF Forms!AnswerPassword, Forms!auth, Forms!setup
  <2>6. CASE Forms!ClosePassword
    BY <1>t, <1>c, <2>6 DEF Forms!ClosePassword, Forms!auth, Forms!setup
  <2>7. CASE Forms!TimerCloses
    BY <1>t, <1>c, <2>7 DEF Forms!TimerCloses, Forms!auth, Forms!setup
  <2>8. CASE Forms!AnswerProfile
    BY <1>t, <1>c, <2>8 DEF Forms!AnswerProfile, Forms!auth, Forms!setup
  <2>9. CASE Forms!Visit
    BY <1>t, <2>9 DEF Forms!Visit, Forms!auth, Forms!setup, Forms!profile
  <2>10. CASE Forms!Refresh
    BY <1>t, <2>10 DEF Forms!Refresh, Forms!auth, Forms!setup
  <2>11. CASE Forms!Logout
    BY <1>t, <2>11 DEF Forms!Logout, Forms!auth, Forms!setup
  <2>12. CASE \E b \in BOOLEAN : Forms!AskLogout(b)
    BY <1>t, <2>12 DEF Forms!AskLogout, Forms!auth, Forms!setup
  <2> QED BY <2>1, <2>2, <2>3, <2>4, <2>5, <2>6, <2>7, <2>8, <2>9, <2>10, <2>11, <2>12
<1>2. OneMail'
  BY <1>1 DEF OneMail
<1> QED BY <1>1, <1>2 DEF Forms!TypeOK

\* A step keeps the types, and asks for no second mail while one is on its way.
LEMMA FormsStep ==
    ASSUME Forms!TypeOK, OneMail, [Forms!Next]_Forms!vars
    PROVE  Forms!TypeOK' /\ OneMail'
<1>1. CASE UNCHANGED Forms!vars
  BY <1>1 DEF Forms!vars, Forms!auth, Forms!setup, Forms!profile, Forms!TypeOK, OneMail
<1>2. CASE Forms!Next
  BY <1>2, ModalSteps, ModalCalls, ModalAnswers, ProfileSteps DEF Forms!Next, Forms!Answers
<1> QED BY <1>1, <1>2

LEMMA FormsSafe == Spec => [](focus = "forms" => Forms!TypeOK /\ Forms!OneResetMail)
<1>1. Forms!Init => Forms!TypeOK /\ OneMail
  BY FormsBegin
<1>2. Forms!TypeOK /\ OneMail /\ [Forms!Next]_Forms!vars => (Forms!TypeOK /\ OneMail)'
  BY FormsStep
<1>3. OneMail => Forms!OneResetMail
  <2> SUFFICES ASSUME OneMail PROVE Cardinality({c \in air : c.kind = "forgot"}) <= 1
    BY DEF Forms!OneResetMail, Forms!Cardinality, Cardinality
  <2>1. CASE {c \in air : c.kind = "forgot"} = {}
    BY <2>1, FS_EmptySet
  <2>2. ASSUME NEW d \in {c \in air : c.kind = "forgot"}
        PROVE  Cardinality({c \in air : c.kind = "forgot"}) <= 1
    <3>1. {c \in air : c.kind = "forgot"} = {d}
      BY DEF OneMail, IsForgot
    <3>2. Cardinality({d}) = 1
      BY FS_Singleton
    <3> QED BY <3>1, <3>2
  <2> QED BY <2>1, <2>2
<1> QED BY <1>1, <1>2, <1>3, FormsAlone, PTL DEF Forms!Spec

-----------------------------------------------------------------------------
(* The photo of the profile (PhotoUpload).                                  *)

\* A call that the page which asked for it still waits for, and an answer that says what
\* the server holds.
Awaited(c) == c.kind = "set" /\ c.pc # "dropped"
Fresh(c) == c.pc = "served" /\ ~ c.old

\* A visit waits for one change at most, and a change that is served makes every answer
\* older than it: so the fresh ones agree with the server, and the photo does too, but for
\* one of those that is still to come, or a change that was not heard of.
OneUpload ==
    /\ visit <= picks
    /\ \A c \in photoCalls : c.visit <= visit
    /\ \A c \in photoCalls : Awaited(c) /\ c.visit = visit => inFlight
    /\ \A c, d \in photoCalls : Awaited(c) /\ Awaited(d) /\ c.visit = d.visit => c = d
    /\ \A c \in photoCalls : Fresh(c) => c.photo = photoStored
    /\ missed \/ photo = photoStored \/ \E c \in photoCalls : Fresh(c)

\* A file is named after a pick, and only that of the dialog has an object URL, but for
\* those whose page was left.
OneUrl ==
    /\ Photo!UrlsReleased
    /\ preparing # Photo!NoUrl => preparing \in [file : Files, n : 1 .. picks] \ orphans
    /\ \A o \in orphans : o.n <= picks

PhotoInv == Photo!TypeOK /\ OneUpload /\ OneUrl

LEMMA PhotoBegin == ASSUME Photo!Init PROVE PhotoInv
<1>1. MaxPicks \in Nat
  BY PagesAssumption
<1>2. OneUpload /\ OneUrl
  BY DEF Photo!Init, OneUpload, OneUrl, Photo!UrlsReleased, Photo!None, Photo!NoUrl
<1>3. Photo!NoUrl \in [file : Files \cup {"none"}, n : 0 .. MaxPicks]
  BY <1>1 DEF Photo!NoUrl, Photo!Url, Photo!None
<1>4. 0 \in 0 .. MaxPicks
  BY <1>1
<1>5. Photo!TypeOK
  BY <1>3, <1>4 DEF Photo!Init, Photo!TypeOK, Photo!None
<1> QED BY <1>2, <1>5 DEF PhotoInv

\* The dialogs, as far as they touch neither a file nor a call.
LEMMA PhotoDialogs ==
    ASSUME PhotoInv,
           \/ Photo!OpenPicker \/ Photo!View \/ Photo!AskRemove \/ Photo!CloseDialog
           \/ UNCHANGED Photo!vars
    PROVE  PhotoInv'
<1>1. /\ UNCHANGED <<Photo!ends, Photo!files, Photo!busy, photoCalls, visit, picks>>
      /\ picking' \in BOOLEAN /\ viewing' \in BOOLEAN /\ photoConfirm' \in BOOLEAN
  <2>1. picking \in BOOLEAN /\ viewing \in BOOLEAN /\ photoConfirm \in BOOLEAN
    BY DEF PhotoInv, Photo!TypeOK
  <2>2. CASE Photo!OpenPicker
    BY <2>1, <2>2 DEF Photo!OpenPicker
  <2>3. CASE Photo!View
    BY <2>1, <2>3 DEF Photo!View
  <2>4. CASE Photo!AskRemove
    BY <2>1, <2>4 DEF Photo!AskRemove
  <2>5. CASE Photo!CloseDialog
    BY <2>1, <2>5 DEF Photo!CloseDialog
  <2>6. CASE UNCHANGED Photo!vars
    BY <2>1, <2>6 DEF Photo!vars, Photo!dialogs
  <2> QED BY <2>2, <2>3, <2>4, <2>5, <2>6
<1>2. OneUpload'
  BY <1>1 DEF PhotoInv, OneUpload, Photo!ends, Photo!busy
<1>3. OneUrl'
  BY <1>1 DEF PhotoInv, OneUrl, Photo!files, Photo!UrlsReleased, Photo!NoUrl, Photo!Url, Photo!None
<1>4. Photo!TypeOK'
  BY <1>1 DEF PhotoInv, Photo!TypeOK, Photo!ends, Photo!files, Photo!busy, Photo!None
<1> QED BY <1>2, <1>3, <1>4 DEF PhotoInv

\* What the URLs are, with the names of the module written out.
LEMMA UrlFacts ==
    ASSUME PhotoInv
    PROVE  /\ Photo!NoUrl = [file |-> "none", n |-> 0]
           /\ photoPending \in [file : Files \cup {"none"}, n : 0 .. MaxPicks]
           /\ urls \subseteq [file : Files, n : 1 .. MaxPicks]
           /\ preparing \in [file : Files \cup {"none"}, n : 0 .. MaxPicks]
           /\ orphans \subseteq [file : Files, n : 1 .. MaxPicks]
           /\ picks \in 0 .. MaxPicks /\ visit \in 0 .. MaxPicks /\ MaxPicks \in Nat
           /\ urls \ orphans = IF photoPending = Photo!NoUrl THEN {} ELSE {photoPending}
           /\ preparing # Photo!NoUrl => preparing \in [file : Files, n : 1 .. picks] \ orphans
           /\ \A o \in orphans : o.n <= picks
BY PagesAssumption DEF PhotoInv, Photo!TypeOK, Photo!None, OneUrl, Photo!UrlsReleased,
   Photo!NoUrl, Photo!Url

\* The steps of a picked file.
LEMMA PhotoFiles ==
    ASSUME PhotoInv,
           \/ Photo!ClosePending \/ Photo!PrepareDone \/ Photo!OrphanDone
           \/ \E f \in Files : Photo!HandleFile(f)
    PROVE  PhotoInv'
<1>1. /\ UNCHANGED <<Photo!ends, Photo!busy, photoCalls, viewing, photoConfirm, visit>>
      /\ picking' \in {picking, FALSE}
  BY DEF Photo!ClosePending, Photo!PrepareDone, Photo!OrphanDone, Photo!HandleFile,
     Photo!dialogs
<1>2. /\ photoPending' \in [file : Files \cup {"none"}, n : 0 .. MaxPicks]
      /\ urls' \subseteq [file : Files, n : 1 .. MaxPicks]
      /\ preparing' \in [file : Files \cup {"none"}, n : 0 .. MaxPicks]
      /\ orphans' \subseteq [file : Files, n : 1 .. MaxPicks]
      /\ picks' \in 0 .. MaxPicks /\ picks' >= picks
      /\ urls' \ orphans' = IF photoPending' = Photo!NoUrl THEN {} ELSE {photoPending'}
      /\ preparing' # Photo!NoUrl => preparing' \in [file : Files, n : 1 .. picks'] \ orphans'
      /\ \A o \in orphans' : o.n <= picks'
  <2>1. CASE Photo!ClosePending
    BY <2>1, UrlFacts DEF Photo!ClosePending, Photo!ClearPending
  <2>2. CASE Photo!PrepareDone
    <3>1. /\ preparing \in [file : Files, n : 1 .. picks] \ orphans
          /\ preparing' = Photo!NoUrl /\ picks' = picks /\ orphans' = orphans
      BY <2>2, UrlFacts DEF Photo!PrepareDone
    <3>2. CASE UNCHANGED <<photoPending, urls>>
      BY <3>1, <3>2, UrlFacts
    <3>3. CASE /\ photoPending' = preparing
               /\ urls' = (urls \ {photoPending}) \cup {preparing}
      <4>1. preparing # Photo!NoUrl
        BY <2>2 DEF Photo!PrepareDone
      <4>2. preparing \in [file : Files, n : 1 .. MaxPicks]
        BY <3>1, UrlFacts
      <4>3. urls' \ orphans' = {preparing}
        BY <3>1, <3>3, UrlFacts
      <4> QED BY <3>1, <3>3, <4>1, <4>2, <4>3, UrlFacts
    <3> QED BY <2>2, <3>2, <3>3 DEF Photo!PrepareDone
  <2>3. CASE Photo!OrphanDone
    <3>1. PICK o \in orphans \ urls :
             \/ orphans' = orphans \ {o} /\ urls' = urls
             \/ urls' = urls \cup {o} /\ orphans' = orphans
      BY <2>3 DEF Photo!OrphanDone
    <3>2. UNCHANGED <<photoPending, preparing, picks>>
      BY <2>3 DEF Photo!OrphanDone
    <3>3. urls' \ orphans' = urls \ orphans
      BY <3>1
    <3> QED BY <3>1, <3>2, <3>3, UrlFacts
  <2>4. CASE \E f \in Files : Photo!HandleFile(f)
    <3>1. PICK f \in Files :
             /\ picks < MaxPicks /\ picks' = picks + 1
             /\ preparing' \in {preparing, [file |-> f, n |-> picks + 1]}
             /\ UNCHANGED <<photoPending, urls, orphans>>
      BY <2>4 DEF Photo!HandleFile, Photo!Url
    <3>2. picks + 1 \in 1 .. MaxPicks /\ picks' \in 0 .. MaxPicks
      BY <3>1, UrlFacts
    <3>3. CASE preparing' = preparing
      <4>1. preparing' # Photo!NoUrl => preparing' \in [file : Files, n : 1 .. picks'] \ orphans'
        BY <3>1, <3>3, UrlFacts
      <4> QED BY <3>1, <3>2, <3>3, <4>1, UrlFacts
    <3>4. CASE preparing' = [file |-> f, n |-> picks + 1]
      <4>1. preparing' \notin orphans
        BY <3>4, UrlFacts
      <4>2. preparing' \in [file : Files, n : 1 .. picks']
        BY <3>1, <3>2, <3>4
      <4>3. preparing' \in [file : Files \cup {"none"}, n : 0 .. MaxPicks]
        BY <3>2, <3>4
      <4> QED BY <3>1, <3>2, <4>1, <4>2, <4>3, UrlFacts
    <3> QED BY <3>1, <3>3, <3>4
  <2> QED BY <2>1, <2>2, <2>3, <2>4
<1>3. OneUpload'
  BY <1>1, <1>2, UrlFacts DEF PhotoInv, OneUpload, Photo!ends, Photo!busy
<1>4. OneUrl'
  BY <1>2 DEF OneUrl, Photo!UrlsReleased, Photo!NoUrl, Photo!Url, Photo!None
<1>5. Photo!TypeOK'
  BY <1>1, <1>2 DEF PhotoInv, Photo!TypeOK, Photo!None, Photo!ends, Photo!busy
<1> QED BY <1>3, <1>4, <1>5 DEF PhotoInv

\* A visit ends: what it had in the air was asked for before the next one.
LEMMA PhotoRevisit == ASSUME PhotoInv, Photo!Revisit PROVE PhotoInv'
<1>1. /\ picks < MaxPicks /\ picks' = picks + 1 /\ visit' = visit + 1
      /\ photoPending' = Photo!NoUrl /\ urls' = urls \ {photoPending}
      /\ preparing' = Photo!NoUrl
      /\ orphans' = IF preparing = Photo!NoUrl THEN orphans ELSE orphans \cup {preparing}
      /\ inFlight' = FALSE /\ uploading' = FALSE /\ removing' = FALSE
      /\ picking' = FALSE /\ viewing' = FALSE /\ photoConfirm' = FALSE
      /\ UNCHANGED <<photoStored, photo, missed, photoCalls>>
  BY DEF Photo!Revisit, Photo!ClearPending, Photo!ends
<1>2. /\ visit <= picks /\ photoCalls \subseteq [n : 1 .. MaxPicks, kind : {"set", "read"},
            visit : 0 .. MaxPicks, photo : Files \cup {"none"}, old : BOOLEAN,
            pc : {"sent", "served", "failed", "dropped"}]
  BY DEF PhotoInv, OneUpload, Photo!TypeOK, Photo!None
<1>3. picks' \in 0 .. MaxPicks /\ visit' \in 0 .. MaxPicks /\ visit' <= picks'
  <2>1. picks \in 0 .. MaxPicks /\ visit \in 0 .. MaxPicks /\ MaxPicks \in Nat
    BY UrlFacts
  <2> QED BY <1>1, <1>2, <2>1
<1>4. \A c \in photoCalls : c.visit <= visit' /\ c.visit # visit'
  <2> SUFFICES ASSUME NEW c \in photoCalls PROVE c.visit <= visit' /\ c.visit # visit'
    OBVIOUS
  <2>1. c.visit \in 0 .. MaxPicks /\ c.visit <= visit
    BY <1>2 DEF PhotoInv, OneUpload
  <2> QED BY <1>1, <2>1, UrlFacts
<1>5. OneUpload'
  BY <1>1, <1>3, <1>4 DEF PhotoInv, OneUpload, Awaited, Fresh
<1>6. /\ urls' \ orphans' = {} /\ urls' \subseteq [file : Files, n : 1 .. MaxPicks]
      /\ orphans' \subseteq [file : Files, n : 1 .. MaxPicks] /\ \A o \in orphans' : o.n <= picks'
  <2>1. orphans \subseteq orphans' /\ urls' \ orphans = {}
    BY <1>1, UrlFacts
  <2>2. CASE preparing = Photo!NoUrl
    BY <1>1, <2>1, <2>2, UrlFacts
  <2>3. CASE preparing # Photo!NoUrl
    <3>1. preparing \in [file : Files, n : 1 .. picks]
      BY <2>3, UrlFacts
    <3>2. preparing \in [file : Files, n : 1 .. MaxPicks] /\ preparing.n <= picks
      BY <3>1, UrlFacts
    <3> QED BY <1>1, <2>1, <2>3, <3>2, UrlFacts
  <2> QED BY <2>2, <2>3
<1>7. OneUrl'
  BY <1>1, <1>6 DEF OneUrl, Photo!UrlsReleased, Photo!NoUrl, Photo!Url, Photo!None
<1>8. Photo!NoUrl \in [file : Files \cup {"none"}, n : 0 .. MaxPicks]
  BY UrlFacts
<1>9. Photo!TypeOK'
  BY <1>1, <1>3, <1>6, <1>8 DEF PhotoInv, Photo!TypeOK, Photo!None
<1> QED BY <1>5, <1>7, <1>9 DEF PhotoInv

\* What a call is.
PhotoCall == [n : 1 .. MaxPicks, kind : {"set", "read"}, visit : 0 .. MaxPicks,
              photo : Files \cup {"none"}, old : BOOLEAN,
              pc : {"sent", "served", "failed", "dropped"}]

\* A call is asked for: for a change the page waits for no other.
LEMMA PhotoAsks ==
    ASSUME PhotoInv, Photo!Upload \/ Photo!Remove \/ Photo!Reload
    PROVE  PhotoInv'
<1>1. /\ UNCHANGED <<photoStored, photo, missed, photoPending, urls, preparing, orphans,
                     picking, viewing, photoConfirm, visit>>
      /\ inFlight' \in {inFlight, TRUE}
      /\ uploading' \in {uploading, TRUE} /\ removing' \in {removing, TRUE}
      /\ picks < MaxPicks /\ picks' = picks + 1
  BY DEF Photo!Upload, Photo!Remove, Photo!Reload, Photo!Ask, Photo!ends, Photo!files,
     Photo!dialogs, Photo!busy
<1>2. PICK kind \in {"set", "read"}, p \in Files \cup {"none"} :
        /\ kind = "set" => ~ inFlight /\ inFlight'
        /\ photoCalls' = photoCalls \cup {[n |-> picks + 1, kind |-> kind, visit |-> visit,
                                           photo |-> p, old |-> FALSE, pc |-> "sent"]}
  <2>1. CASE Photo!Upload
    BY <2>1, UrlFacts DEF Photo!Upload, Photo!Ask
  <2>2. CASE Photo!Remove
    BY <2>2 DEF Photo!Remove, Photo!Ask, Photo!None
  <2>3. CASE Photo!Reload
    BY <2>3 DEF Photo!Reload, Photo!Ask, Photo!None
  <2> QED BY <2>1, <2>2, <2>3
<1> DEFINE new == [n |-> picks + 1, kind |-> kind, visit |-> visit, photo |-> p,
                   old |-> FALSE, pc |-> "sent"]
<1>3. new \in PhotoCall /\ picks' \in 0 .. MaxPicks
  BY <1>1, UrlFacts DEF PhotoCall
<1>4. /\ new.kind = kind /\ new.visit = visit /\ new.pc = "sent"
  OBVIOUS
<1>5. OneUpload'
  <2>1. visit' <= picks' /\ \A c \in photoCalls' : c.visit <= visit'
    BY <1>1, <1>2, <1>4, UrlFacts DEF PhotoInv, OneUpload
  <2>2. \A c \in photoCalls' : Awaited(c) /\ c.visit = visit' => inFlight'
    <3>1. inFlight => inFlight'
      BY <1>1
    <3>2. Awaited(new) => inFlight'
      BY <1>2, <1>4 DEF Awaited
    <3> QED BY <1>1, <1>2, <3>1, <3>2 DEF PhotoInv, OneUpload
  <2>3. \A c \in photoCalls : Awaited(new) => ~ (Awaited(c) /\ c.visit = visit)
    BY <1>2, <1>4 DEF PhotoInv, OneUpload, Awaited
  <2>5. ~ Fresh(new)
    BY DEF Fresh
  <2> HIDE DEF new
  <2>n. photoCalls' = photoCalls \cup {new}
    BY <1>2 DEF new
  <2>4. \A c, d \in photoCalls' : Awaited(c) /\ Awaited(d) /\ c.visit = d.visit => c = d
    BY <1>4, <2>n, <2>3 DEF PhotoInv, OneUpload
  <2>6. /\ \A c \in photoCalls' : Fresh(c) => c.photo = photoStored'
        /\ missed' \/ photo' = photoStored' \/ \E c \in photoCalls' : Fresh(c)
    BY <1>1, <2>n, <2>5 DEF PhotoInv, OneUpload
  <2> QED BY <2>1, <2>2, <2>4, <2>6 DEF OneUpload, Awaited, Fresh
<1>6. OneUrl'
  <2>1. preparing' # Photo!NoUrl => preparing' \in [file : Files, n : 1 .. picks'] \ orphans'
    BY <1>1, UrlFacts
  <2>2. \A o \in orphans' : o.n <= picks'
    BY <1>1, UrlFacts
  <2>3. urls' \ orphans' = IF photoPending' = Photo!NoUrl THEN {} ELSE {photoPending'}
    BY <1>1, UrlFacts
  <2> QED BY <2>1, <2>2, <2>3 DEF OneUrl, Photo!UrlsReleased, Photo!NoUrl, Photo!Url, Photo!None
<1>7. photoCalls' \subseteq PhotoCall
  BY <1>2, <1>3 DEF PhotoInv, Photo!TypeOK, PhotoCall, Photo!None
<1>8. inFlight' \in BOOLEAN /\ uploading' \in BOOLEAN /\ removing' \in BOOLEAN
  <2>1. inFlight \in BOOLEAN /\ uploading \in BOOLEAN /\ removing \in BOOLEAN
    BY DEF PhotoInv, Photo!TypeOK
  <2> QED BY <1>1, <2>1
<1> HIDE DEF new
<1>9. Photo!TypeOK'
  BY <1>1, <1>3, <1>7, <1>8 DEF PhotoInv, Photo!TypeOK, Photo!None, PhotoCall
<1> QED BY <1>5, <1>6, <1>9 DEF PhotoInv

\* A step that leaves the files alone keeps what is known of them.
LEMMA UrlsKept ==
    ASSUME PhotoInv, UNCHANGED <<photoPending, urls, preparing, orphans, picks>> PROVE OneUrl'
BY DEF PhotoInv, OneUrl, Photo!UrlsReleased, Photo!NoUrl, Photo!Url, Photo!None

\* A change is served: whatever was read before it, and what another visit has stored, is
\* old by then.
LEMMA PhotoStores ==
    ASSUME PhotoInv, NEW c \in photoCalls, c.pc = "dropped" \/ (c.kind = "set" /\ c.pc = "sent"),
           photoStored' = c.photo, UNCHANGED <<photo, visit, picks, inFlight>>,
           \/ /\ missed' = TRUE /\ photoCalls' = Photo!Past(c, photoCalls \ {c})
           \/ /\ missed' = TRUE /\ c.pc = "sent"
              /\ photoCalls' = Photo!Past(c, photoCalls \ {c}) \cup {[c EXCEPT !.pc = "failed"]}
           \/ /\ c.pc = "sent"
              /\ photoCalls' = Photo!Past(c, photoCalls \ {c})
                                 \cup {[c EXCEPT !.pc = "served", !.old = FALSE]}
    PROVE  OneUpload' /\ photoCalls' \subseteq PhotoCall
<1> DEFINE Aged(d) == [d EXCEPT !.old = @ \/ Photo!Overtaken(c, d)]
<1>1. photoCalls \subseteq PhotoCall /\ OneUpload
  BY DEF PhotoInv, Photo!TypeOK, Photo!None, PhotoCall
<1>2. \A d \in PhotoCall : /\ Aged(d) \in PhotoCall
                           /\ Aged(d).kind = d.kind /\ Aged(d).visit = d.visit
                           /\ Aged(d).pc = d.pc /\ Aged(d).photo = d.photo
                           /\ Aged(d).old = (d.old \/ Photo!Overtaken(c, d))
  <2> TAKE d \in PhotoCall
  <2>1. (d.old \/ Photo!Overtaken(c, d)) \in BOOLEAN
    OBVIOUS
  <2> QED BY <2>1 DEF PhotoCall
<1>3. Photo!Past(c, photoCalls \ {c}) = {Aged(d) : d \in photoCalls \ {c}}
  BY DEF Photo!Past
<1> HIDE DEF Aged
<1>4. \A d \in photoCalls \ {c} : ~ Fresh(Aged(d))
  <2> SUFFICES ASSUME NEW d \in photoCalls \ {c}, Fresh(Aged(d)) PROVE FALSE
    OBVIOUS
  <2>1. d.pc = "served" /\ ~ Photo!Overtaken(c, d)
    BY <1>1, <1>2 DEF Fresh
  <2>2. d.kind = "set" /\ d.visit = c.visit /\ c.pc = "sent"
    BY <1>1, <2>1 DEF Photo!Overtaken, PhotoCall
  <2>3. Awaited(c) /\ Awaited(d)
    BY <2>1, <2>2 DEF Awaited
  <2> QED BY <1>1, <2>2, <2>3 DEF OneUpload
<1>5. PICK more \in SUBSET PhotoCall :
        /\ photoCalls' = {Aged(d) : d \in photoCalls \ {c}} \cup more
        /\ \A e \in more : /\ c.pc = "sent" /\ e.kind = "set" /\ e.visit = c.visit
                           /\ e.pc \in {"served", "failed"} /\ e.photo = c.photo
        /\ \A e, f \in more : e = f
        /\ missed' \/ \E e \in more : Fresh(e)
  <2>1. CASE missed' = TRUE /\ photoCalls' = Photo!Past(c, photoCalls \ {c})
    <3>1. {} \in SUBSET PhotoCall /\ photoCalls' = {Aged(d) : d \in photoCalls \ {c}} \cup {}
      BY <1>3, <2>1
    <3> QED BY <2>1, <3>1
  <2>2. CASE /\ missed' = TRUE /\ c.pc = "sent"
             /\ photoCalls' = Photo!Past(c, photoCalls \ {c}) \cup {[c EXCEPT !.pc = "failed"]}
    <3> DEFINE e == [c EXCEPT !.pc = "failed"]
    <3>1. e \in PhotoCall /\ e.kind = "set" /\ e.visit = c.visit /\ e.pc = "failed" /\ e.photo = c.photo
      BY <1>1, <2>2 DEF PhotoCall
    <3> HIDE DEF e
    <3>2. {e} \in SUBSET PhotoCall
      BY <3>1
    <3>3. photoCalls' = {Aged(d) : d \in photoCalls \ {c}} \cup {e}
      BY <1>3, <2>2 DEF e
    <3> QED BY <2>2, <3>1, <3>2, <3>3
  <2>3. CASE /\ c.pc = "sent"
             /\ photoCalls' = Photo!Past(c, photoCalls \ {c})
                                \cup {[c EXCEPT !.pc = "served", !.old = FALSE]}
    <3> DEFINE e == [c EXCEPT !.pc = "served", !.old = FALSE]
    <3>1. /\ e \in PhotoCall /\ e.kind = "set" /\ e.visit = c.visit /\ e.pc = "served"
          /\ e.photo = c.photo /\ e.old = FALSE
      BY <1>1, <2>3 DEF PhotoCall
    <3> HIDE DEF e
    <3>2. {e} \in SUBSET PhotoCall /\ Fresh(e)
      BY <3>1 DEF Fresh
    <3>3. photoCalls' = {Aged(d) : d \in photoCalls \ {c}} \cup {e}
      BY <1>3, <2>3 DEF e
    <3> QED BY <2>3, <3>1, <3>2, <3>3
  <2> QED BY <2>1, <2>2, <2>3
<1>6. photoCalls' \subseteq PhotoCall
  BY <1>1, <1>2, <1>5
<1>7. \A e \in photoCalls' : \E d \in photoCalls :
         /\ e.visit = d.visit /\ (Awaited(e) => Awaited(d)) /\ (Awaited(e) /\ d # c => e = Aged(d))
         /\ Awaited(e) /\ d = c => e \in more
  <2> SUFFICES ASSUME NEW e \in photoCalls'
               PROVE  \E d \in photoCalls :
                        /\ e.visit = d.visit /\ (Awaited(e) => Awaited(d))
                        /\ (Awaited(e) /\ d # c => e = Aged(d))
                        /\ Awaited(e) /\ d = c => e \in more
    OBVIOUS
  <2>1. CASE e \in more
    <3>1. e.visit = c.visit /\ Awaited(c)
      BY <1>5, <2>1 DEF Awaited
    <3> QED BY <2>1, <3>1
  <2>2. CASE e \notin more
    <3>1. PICK d \in photoCalls \ {c} : e = Aged(d)
      BY <1>5, <2>2
    <3> QED BY <1>1, <1>2, <3>1 DEF Awaited
  <2> QED BY <2>1, <2>2
<1>8. /\ \A e \in photoCalls' : e.visit <= visit
      /\ \A e \in photoCalls' : Awaited(e) /\ e.visit = visit => inFlight
  BY <1>1, <1>7 DEF OneUpload
<1>9. \A e, f \in photoCalls' : Awaited(e) /\ Awaited(f) /\ e.visit = f.visit => e = f
  <2> SUFFICES ASSUME NEW e \in photoCalls', NEW f \in photoCalls',
                      Awaited(e), Awaited(f), e.visit = f.visit
               PROVE  e = f
    OBVIOUS
  <2>1. PICK d \in photoCalls : /\ e.visit = d.visit /\ Awaited(d) /\ (d # c => e = Aged(d))
                                /\ d = c => e \in more
    BY <1>7
  <2>2. PICK g \in photoCalls : /\ f.visit = g.visit /\ Awaited(g) /\ (g # c => f = Aged(g))
                                /\ g = c => f \in more
    BY <1>7
  <2>3. d = g
    BY <1>1, <2>1, <2>2 DEF OneUpload
  <2> QED BY <1>5, <2>1, <2>2, <2>3
<1>10. /\ \A e \in photoCalls' : Fresh(e) => e.photo = photoStored'
       /\ missed' \/ photo' = photoStored' \/ \E e \in photoCalls' : Fresh(e)
  BY <1>4, <1>5
<1> QED BY <1>1, <1>6, <1>8, <1>9, <1>10 DEF OneUpload, Awaited, Fresh

\* One call changes its state, or ends: no other becomes older, none is awaited anew.
LEMMA PhotoMoves ==
    ASSUME PhotoInv, NEW c \in photoCalls, NEW e \in PhotoCall,
           photoCalls' \in {photoCalls \ {c}, (photoCalls \ {c}) \cup {e}},
           e.visit = c.visit, Awaited(e) => Awaited(c), Fresh(e) => e.photo = photoStored,
           ~ inFlight => ~ inFlight', inFlight # inFlight' => c.visit = visit,
           c.visit = visit /\ Awaited(c) /\ inFlight # inFlight' =>
              photoCalls' = photoCalls \ {c} \/ ~ Awaited(e),
           inFlight # inFlight' => Awaited(c),
           inFlight' \in BOOLEAN,
           UNCHANGED <<photoStored, visit, picks>>,
           missed' \/ photo' = photoStored \/ (UNCHANGED <<photo, missed>> /\ ~ Fresh(c))
    PROVE  OneUpload' /\ photoCalls' \subseteq PhotoCall
<1>1. photoCalls \subseteq PhotoCall /\ OneUpload /\ inFlight \in BOOLEAN
  BY DEF PhotoInv, Photo!TypeOK, Photo!None, PhotoCall
<1>2. photoCalls' \subseteq PhotoCall
  BY <1>1
<1>3. \A d \in photoCalls' : d.visit <= visit
  BY <1>1 DEF OneUpload
<1>4. \A d \in photoCalls' : Awaited(d) /\ d.visit = visit => inFlight'
  <2> SUFFICES ASSUME NEW d \in photoCalls', Awaited(d), d.visit = visit, ~ inFlight' PROVE FALSE
    OBVIOUS
  <2>1. inFlight
    BY <1>1 DEF OneUpload
  <2>2. c.visit = visit /\ Awaited(c) /\ (photoCalls' = photoCalls \ {c} \/ ~ Awaited(e))
    BY <2>1
  <2>3. d \in photoCalls \ {c}
    BY <2>2
  <2> QED BY <1>1, <2>2, <2>3 DEF OneUpload
<1>5. \A d, f \in photoCalls' : Awaited(d) /\ Awaited(f) /\ d.visit = f.visit => d = f
  BY <1>1 DEF OneUpload
<1>6. \A d \in photoCalls' : Fresh(d) => d.photo = photoStored
  BY <1>1 DEF OneUpload
<1>7. missed' \/ photo' = photoStored \/ \E d \in photoCalls' : Fresh(d)
  BY <1>1 DEF OneUpload
<1> QED BY <1>1, <1>2, <1>3, <1>4, <1>5, <1>6, <1>7 DEF OneUpload, Awaited, Fresh

\* The server is at it.
LEMMA PhotoServes ==
    ASSUME PhotoInv, Photo!ServeChange \/ Photo!ServeRead \/ Photo!ServeLate
    PROVE  PhotoInv'
<1>1. /\ UNCHANGED <<photo, photoPending, urls, preparing, orphans, inFlight, uploading,
                     removing, picking, viewing, photoConfirm, visit, picks>>
  BY DEF Photo!ServeChange, Photo!ServeRead, Photo!ServeLate, Photo!ends, Photo!files,
     Photo!busy, Photo!dialogs
<1>2. photoCalls \subseteq PhotoCall /\ missed \in BOOLEAN /\ photoStored \in Files \cup {"none"}
      /\ inFlight \in BOOLEAN
  BY DEF PhotoInv, Photo!TypeOK, Photo!None, PhotoCall
<1>3. /\ OneUpload' /\ photoCalls' \subseteq PhotoCall
      /\ missed' \in BOOLEAN /\ photoStored' \in Files \cup {"none"}
  <2>1. CASE Photo!ServeChange
    <3>1. PICK c \in photoCalls :
            /\ c.kind = "set" /\ c.pc = "sent"
            /\ \/ /\ photoStored' = c.photo /\ UNCHANGED missed
                  /\ photoCalls' = Photo!Past(c, photoCalls \ {c})
                                     \cup {[c EXCEPT !.pc = "served", !.old = FALSE]}
               \/ /\ photoStored' = c.photo /\ missed' = TRUE
                  /\ photoCalls' = Photo!Past(c, photoCalls \ {c}) \cup {[c EXCEPT !.pc = "failed"]}
               \/ /\ photoCalls' = (photoCalls \ {c}) \cup {[c EXCEPT !.pc = "failed"]}
                  /\ UNCHANGED <<photoStored, missed>>
      BY <2>1 DEF Photo!ServeChange
    <3>2. c.photo \in Files \cup {"none"}
      BY <1>2 DEF PhotoCall
    <3>3. CASE /\ photoCalls' = (photoCalls \ {c}) \cup {[c EXCEPT !.pc = "failed"]}
               /\ UNCHANGED <<photoStored, missed>>
      <4> DEFINE e == [c EXCEPT !.pc = "failed"]
      <4>1. e \in PhotoCall /\ e.visit = c.visit /\ Awaited(c) /\ ~ Fresh(e) /\ ~ Fresh(c)
        BY <1>2, <3>1 DEF PhotoCall, Awaited, Fresh
      <4> HIDE DEF e
      <4>2. photoCalls' = (photoCalls \ {c}) \cup {e}
        BY <3>3 DEF e
      <4>3. OneUpload' /\ photoCalls' \subseteq PhotoCall
        BY <1>1, <1>2, <3>3, <4>1, <4>2, PhotoMoves
      <4> QED BY <1>2, <3>3, <4>3
    <3>5. CASE \/ /\ photoStored' = c.photo /\ UNCHANGED missed
                  /\ photoCalls' = Photo!Past(c, photoCalls \ {c})
                                     \cup {[c EXCEPT !.pc = "served", !.old = FALSE]}
               \/ /\ photoStored' = c.photo /\ missed' = TRUE
                  /\ photoCalls' = Photo!Past(c, photoCalls \ {c}) \cup {[c EXCEPT !.pc = "failed"]}
      <4>1. OneUpload' /\ photoCalls' \subseteq PhotoCall
        <5>1. UNCHANGED <<photo, visit, picks, inFlight>>
          BY <1>1
        <5>2. photoStored' = c.photo
          BY <3>5
        <5> QED BY <3>1, <3>5, <5>1, <5>2, PhotoStores
      <4> QED BY <1>2, <3>2, <3>5, <4>1
    <3> QED BY <3>1, <3>3, <3>5
  <2>2. CASE Photo!ServeRead
    <3>1. PICK c \in photoCalls :
            /\ c.kind = "read" /\ c.pc = "sent"
            /\ \/ photoCalls' = (photoCalls \ {c}) \cup
                                {[c EXCEPT !.pc = "served", !.photo = photoStored, !.old = FALSE]}
               \/ photoCalls' = (photoCalls \ {c}) \cup {[c EXCEPT !.pc = "failed"]}
      BY <2>2 DEF Photo!ServeRead
    <3>2. UNCHANGED <<photoStored, photo, missed>>
      BY <2>2 DEF Photo!ServeRead, Photo!ends
    <3>3. PICK e \in PhotoCall :
            /\ photoCalls' = (photoCalls \ {c}) \cup {e} /\ e.visit = c.visit
            /\ ~ Awaited(e) /\ (Fresh(e) => e.photo = photoStored)
      <4>1. CASE photoCalls' = (photoCalls \ {c}) \cup
                               {[c EXCEPT !.pc = "served", !.photo = photoStored, !.old = FALSE]}
        <5> DEFINE e == [c EXCEPT !.pc = "served", !.photo = photoStored, !.old = FALSE]
        <5>1. e \in PhotoCall /\ e.visit = c.visit /\ e.kind = "read" /\ e.photo = photoStored
          BY <1>2, <3>1 DEF PhotoCall
        <5> QED BY <4>1, <5>1 DEF Awaited
      <4>2. CASE photoCalls' = (photoCalls \ {c}) \cup {[c EXCEPT !.pc = "failed"]}
        <5> DEFINE e == [c EXCEPT !.pc = "failed"]
        <5>1. e \in PhotoCall /\ e.visit = c.visit /\ e.kind = "read" /\ e.pc = "failed"
          BY <1>2, <3>1 DEF PhotoCall
        <5> QED BY <4>2, <5>1 DEF Awaited, Fresh
      <4> QED BY <3>1, <4>1, <4>2
    <3>4. ~ Fresh(c)
      BY <3>1 DEF Fresh
    <3>5. OneUpload' /\ photoCalls' \subseteq PhotoCall
      BY <1>1, <1>2, <3>2, <3>3, <3>4, PhotoMoves
    <3> QED BY <1>2, <3>2, <3>5
  <2>3. CASE Photo!ServeLate
    <3>1. PICK c \in photoCalls :
            /\ c.pc = "dropped"
            /\ \/ /\ photoStored' = c.photo /\ missed' = TRUE
                  /\ photoCalls' = Photo!Past(c, photoCalls \ {c})
               \/ photoCalls' = photoCalls \ {c} /\ UNCHANGED <<photoStored, missed>>
      BY <2>3 DEF Photo!ServeLate
    <3>2. c \in PhotoCall /\ ~ Fresh(c) /\ ~ Awaited(c)
      BY <1>2, <3>1 DEF Fresh, Awaited
    <3>3. CASE photoCalls' = photoCalls \ {c} /\ UNCHANGED <<photoStored, missed>>
      <4>1. OneUpload' /\ photoCalls' \subseteq PhotoCall
        BY <1>1, <1>2, <3>2, <3>3, PhotoMoves
      <4> QED BY <1>2, <3>3, <4>1
    <3>4. CASE /\ photoStored' = c.photo /\ missed' = TRUE
               /\ photoCalls' = Photo!Past(c, photoCalls \ {c})
      <4>1. OneUpload' /\ photoCalls' \subseteq PhotoCall
        <5>1. UNCHANGED <<photo, visit, picks, inFlight>>
          BY <1>1
        <5>2. photoStored' = c.photo
          BY <3>4
        <5>3. c.pc = "dropped" \/ (c.kind = "set" /\ c.pc = "sent")
          BY <3>1
        <5>4. missed' = TRUE /\ photoCalls' = Photo!Past(c, photoCalls \ {c})
          BY <3>4
        <5> QED BY <5>1, <5>2, <5>3, <5>4, PhotoStores
      <4>2. c.photo \in Files \cup {"none"}
        BY <3>2 DEF PhotoCall
      <4> QED BY <3>4, <4>1, <4>2
    <3> QED BY <3>1, <3>3, <3>4
  <2> QED BY <2>1, <2>2, <2>3
<1>4. OneUrl'
  BY <1>1, UrlsKept
<1>5. Photo!TypeOK'
  BY <1>1, <1>3 DEF PhotoInv, Photo!TypeOK, Photo!None, PhotoCall
<1> QED BY <1>3, <1>4, <1>5 DEF PhotoInv

\* An answer comes: the flags of the page that asked are released, and the store adopts it.
LEMMA PhotoHears ==
    ASSUME PhotoInv, Photo!AnswerChange \/ Photo!AnswerRead \/ Photo!AnswerFailed
    PROVE  PhotoInv'
<1>1. /\ UNCHANGED <<photoStored, preparing, orphans, picking, viewing, visit, picks>>
      /\ photoConfirm' \in {photoConfirm, FALSE}
      /\ \/ UNCHANGED <<photoPending, urls>>
         \/ photoPending' = Photo!NoUrl /\ urls' = urls \ {photoPending}
  BY DEF Photo!AnswerChange, Photo!AnswerRead, Photo!AnswerFailed, Photo!ClearPending,
     Photo!ends, Photo!files, Photo!busy, Photo!dialogs
<1>2. /\ photoCalls \subseteq PhotoCall /\ OneUpload
      /\ missed \in BOOLEAN /\ photo \in Files \cup {"none"}
      /\ inFlight \in BOOLEAN /\ uploading \in BOOLEAN /\ removing \in BOOLEAN
      /\ photoConfirm \in BOOLEAN
  BY DEF PhotoInv, Photo!TypeOK, Photo!None, PhotoCall
<1>3. PICK c \in photoCalls :
        /\ \/ photoCalls' = photoCalls \ {c}
           \/ /\ c.kind = "set" /\ c.pc = "sent"
              /\ photoCalls' = (photoCalls \ {c}) \cup {[c EXCEPT !.pc = "dropped"]}
        /\ \/ UNCHANGED Photo!busy
           \/ Awaited(c) /\ Photo!Released(c)
        /\ \/ c.pc = "served" /\ photo' = c.photo /\ missed' = c.old
           \/ ~ Fresh(c) /\ UNCHANGED <<photo, missed>>
  <2>1. CASE Photo!AnswerChange
    <3>1. PICK c \in photoCalls : /\ c.kind = "set" /\ c.pc = "served"
                                  /\ photoCalls' = photoCalls \ {c}
                                  /\ Photo!Released(c) /\ photo' = c.photo /\ missed' = c.old
      BY <2>1 DEF Photo!AnswerChange, Photo!Adopted
    <3>2. Awaited(c)
      BY <3>1 DEF Awaited
    <3> QED BY <3>1, <3>2
  <2>2. CASE Photo!AnswerRead
    <3>1. PICK c \in photoCalls : /\ c.pc = "served" /\ photoCalls' = photoCalls \ {c}
                                  /\ photo' = c.photo /\ missed' = c.old
      BY <2>2 DEF Photo!AnswerRead, Photo!Adopted
    <3>2. UNCHANGED Photo!busy
      BY <2>2 DEF Photo!AnswerRead
    <3> QED BY <3>1, <3>2
  <2>3. CASE Photo!AnswerFailed
    <3>1. PICK c \in photoCalls :
            /\ \/ c.pc = "failed" /\ photoCalls' = photoCalls \ {c}
               \/ /\ c.kind = "set" /\ c.pc = "sent"
                  /\ photoCalls' = (photoCalls \ {c}) \cup {[c EXCEPT !.pc = "dropped"]}
            /\ IF c.kind = "set" THEN Photo!Released(c) ELSE UNCHANGED Photo!busy
      BY <2>3 DEF Photo!AnswerFailed
    <3>2. UNCHANGED <<photo, missed>> /\ ~ Fresh(c)
      BY <2>3, <3>1 DEF Photo!AnswerFailed, Photo!ends, Fresh
    <3>3. c.kind = "set" => Awaited(c)
      BY <3>1 DEF Awaited
    <3> QED BY <3>1, <3>2, <3>3
  <2> QED BY <2>1, <2>2, <2>3
<1>e. PICK e \in PhotoCall :
        /\ photoCalls' \in {photoCalls \ {c}, (photoCalls \ {c}) \cup {e}}
        /\ e = c \/ (~ Awaited(e) /\ ~ Fresh(e) /\ e.visit = c.visit)
        /\ e = c => photoCalls' = photoCalls \ {c}
  <2>1. CASE photoCalls' = photoCalls \ {c}
    <3>1. c \in PhotoCall
      BY <1>2
    <3> QED BY <2>1, <3>1
  <2>2. CASE /\ c.pc = "sent" /\ c.kind = "set"
             /\ photoCalls' = (photoCalls \ {c}) \cup {[c EXCEPT !.pc = "dropped"]}
    <3> DEFINE e == [c EXCEPT !.pc = "dropped"]
    <3>1. e \in PhotoCall /\ e.visit = c.visit /\ ~ Awaited(e) /\ ~ Fresh(e) /\ e # c
      BY <1>2, <2>2 DEF PhotoCall, Awaited, Fresh
    <3> HIDE DEF e
    <3>2. photoCalls' = (photoCalls \ {c}) \cup {e}
      BY <2>2 DEF e
    <3> QED BY <3>1, <3>2
  <2> QED BY <1>3, <2>1, <2>2
<1>4. /\ inFlight' \in {inFlight, FALSE}
      /\ inFlight' # inFlight => c.visit = visit /\ Awaited(c)
      /\ uploading' \in BOOLEAN /\ removing' \in BOOLEAN
  <2>1. CASE UNCHANGED Photo!busy
    BY <1>2, <2>1 DEF Photo!busy
  <2>2. CASE Awaited(c) /\ Photo!Released(c)
    <3>1. CASE c.visit # visit
      BY <1>2, <2>2, <3>1 DEF Photo!Released, Photo!busy
    <3>2. CASE c.visit = visit
      <4>1. /\ inFlight' = FALSE
            /\ uploading' = (uploading /\ c.photo = "none")
            /\ removing' = (removing /\ c.photo # "none")
        BY <2>2, <3>2 DEF Photo!Released, Photo!None
      <4>2. uploading' \in BOOLEAN /\ removing' \in BOOLEAN
        BY <1>2, <4>1, Zenon
      <4> QED BY <2>2, <3>2, <4>1, <4>2
    <3> QED BY <3>1, <3>2
  <2> QED BY <1>3, <2>1, <2>2
<1>5. /\ photo' \in Files \cup {"none"} /\ missed' \in BOOLEAN
      /\ missed' \/ photo' = photoStored \/ (UNCHANGED <<photo, missed>> /\ ~ Fresh(c))
  <2>1. c.photo \in Files \cup {"none"} /\ c.old \in BOOLEAN
    BY <1>2 DEF PhotoCall
  <2>2. Fresh(c) => c.photo = photoStored
    BY <1>2 DEF OneUpload
  <2> QED BY <1>2, <1>3, <2>1, <2>2 DEF Fresh
<1>6. OneUpload' /\ photoCalls' \subseteq PhotoCall
  <2>1. /\ e.visit = c.visit /\ (Awaited(e) => Awaited(c)) /\ (Fresh(e) => e.photo = photoStored)
        /\ photoCalls' = photoCalls \ {c} \/ ~ Awaited(e)
    BY <1>2, <1>e DEF OneUpload
  <2>2. /\ ~ inFlight => ~ inFlight'
        /\ inFlight # inFlight' => c.visit = visit
        /\ inFlight # inFlight' => Awaited(c)
        /\ inFlight' \in BOOLEAN
    <3>1. CASE inFlight' = FALSE
      BY <1>2, <1>4, <3>1
    <3>2. CASE inFlight' = inFlight
      BY <1>2, <3>2
    <3> QED BY <1>4, <3>1, <3>2
  <2> QED BY <1>1, <1>e, <1>5, <2>1, <2>2, PhotoMoves
<1>7. /\ photoPending' \in [file : Files \cup {"none"}, n : 0 .. MaxPicks]
      /\ urls' \subseteq [file : Files, n : 1 .. MaxPicks]
      /\ urls' \ orphans = IF photoPending' = Photo!NoUrl THEN {} ELSE {photoPending'}
  <2>1. Photo!NoUrl \in [file : Files \cup {"none"}, n : 0 .. MaxPicks]
    BY UrlFacts
  <2> QED BY <1>1, <2>1, UrlFacts
<1>8. OneUrl'
  BY <1>1, <1>7, UrlFacts DEF OneUrl, Photo!UrlsReleased, Photo!NoUrl, Photo!Url, Photo!None
<1>9. photoConfirm' \in BOOLEAN /\ inFlight' \in BOOLEAN
  BY <1>1, <1>2, <1>4
<1>10. Photo!TypeOK'
  BY <1>1, <1>4, <1>5, <1>6, <1>7, <1>9 DEF PhotoInv, Photo!TypeOK, Photo!None, PhotoCall
<1> QED BY <1>6, <1>8, <1>10 DEF PhotoInv

\* The photo shown is the one stored, and no preview leaks.
LEMMA PhotoStaysSafe == Spec => [](focus = "photo" => Photo!TypeOK /\ Photo!PhotoSafe)
<1>1. Photo!Init => PhotoInv
  BY PhotoBegin
<1>2. PhotoInv /\ [Photo!Next]_Photo!vars => PhotoInv'
  BY PhotoDialogs, PhotoFiles, PhotoRevisit, PhotoAsks, PhotoServes, PhotoHears
     DEF Photo!Next, Photo!Progress
<1>3. PhotoInv => Photo!TypeOK /\ Photo!PhotoSafe
  BY DEF PhotoInv, OneUpload, OneUrl, Photo!PhotoSafe, Photo!PhotoAgrees
<1> QED BY <1>1, <1>2, <1>3, PhotoAlone, PTL DEF Photo!Spec

-----------------------------------------------------------------------------
(* The chat of an event (EventRoomClient).                                  *)

EventAnswer == [t : {"snapshot", "history", "error", "denied"}, n : Nat]
EventFrame  == [t : {"message", "joined", "left", "typing", "closed"}, n : Nat]
Ways == {"socket", "rest", "other"}

EventPlace ==
    /\ eventPage \in {"loading", "failed", "card", "joining", "room", "left"}
    /\ leaving \in {"no", "asked", "done"} /\ posting \in BOOLEAN
    /\ status \in {"idle", "connecting", "connected", "closed", "denied"}
    /\ eventSock \in {"none", "opening", "open"}
    /\ eventRetry \in BOOLEAN /\ disposed \in BOOLEAN /\ reconnected \in BOOLEAN
EventLog ==
    /\ log \in Seq(Ways) /\ Len(log) <= MaxMessages
    /\ rest \subseteq 1 .. MaxMessages /\ live \subseteq 1 .. Len(log) /\ reconciled \subseteq live
    /\ eventMember \in BOOLEAN /\ eventOpen \in BOOLEAN /\ here \in BOOLEAN
EventNet ==
    /\ eventInbox \in Nat /\ eventWire \in Seq(EventAnswer) /\ eventLayer \in Seq(EventFrame)
    /\ online \in BOOLEAN /\ eventTyping \in BOOLEAN /\ lost \in Nat /\ eventPending \in Nat
EventCounts ==
    /\ sends \in 0 .. MaxSends /\ eventDrops \in 0 .. MaxEventDrops
    /\ eventMoves \in 0 .. MaxEventMoves

EventRefused == \E i \in DOMAIN eventWire : eventWire[i].t = "denied"

\* Only a room has a socket, only a socket that is open has frames in the air, and who is
\* refused is not a member.
EventSocket ==
    /\ eventPage # "room" => eventSock = "none"
    /\ eventSock # "open" =>
         eventInbox = 0 /\ eventWire = <<>> /\ eventLayer = <<>> /\ ~ eventTyping
    /\ eventRetry => eventSock = "none" /\ eventPage = "room"
    /\ status = "connected" => eventSock = "open"
    /\ EventRefused => ~ (eventMember /\ eventOpen)

\* A message that is broadcast is newer than all the page has, or is about to read before
\* it, and older than the next one.
EventOrder ==
    /\ \A i \in DOMAIN eventWire : eventWire[i].t = "history" => eventWire[i].n <= Len(log)
    /\ \A i \in DOMAIN eventLayer : eventLayer[i].t = "message" =>
         /\ eventLayer[i].n \in 1 .. Len(log)
         /\ \A x \in live : x < eventLayer[i].n
         /\ \A j \in DOMAIN eventWire :
              eventWire[j].t = "history" => eventWire[j].n < eventLayer[i].n
         /\ \A j \in DOMAIN eventLayer :
              j > i /\ eventLayer[j].t = "message" => eventLayer[i].n < eventLayer[j].n

\* The drafts whose answer is on its way, or was lost; they were all sent.
Refusals == {f \in EventAnswer : f.t = "error"}
Sent(l)  == {f \in EventFrame : f.t = "message" /\ l[f.n] = "socket"}
Air(b, w, y, l) == b + Cardinality(Marked(w, Refusals)) + Cardinality(Marked(y, Sent(l)))
Waiting == Air(eventInbox, eventWire, eventLayer, log)
EventDrafts == eventPending <= Waiting + lost /\ Waiting + lost <= sends

\* A page that has come back shows a message, or will read it.
EventFilled == status = "connected" /\ reconnected /\ ~ EventRefused =>
    \A x \in 1 .. Len(log) :
        \/ x \in rest \cup live
        \/ \E i \in DOMAIN eventLayer : eventLayer[i].t = "message" /\ eventLayer[i].n = x
        \/ \E j \in DOMAIN eventWire : eventWire[j].t = "history" /\ x <= eventWire[j].n

\* The last that the page hears of the other participant is so.
Moves == {"joined", "left"}
EventPresence == eventSock = "open" /\ ~ EventRefused =>
    /\ \A i \in DOMAIN eventLayer :
         eventLayer[i].t \in Moves
           /\ (\A j \in DOMAIN eventLayer : j > i => eventLayer[j].t \notin Moves)
         => (eventLayer[i].t = "joined") = here
    /\ (\A j \in DOMAIN eventLayer : eventLayer[j].t \notin Moves) =>
         /\ \A j \in DOMAIN eventWire :
              eventWire[j].t = "snapshot" => (eventWire[j].n = 1) = here
         /\ (\A j \in DOMAIN eventWire : eventWire[j].t # "snapshot") => online = here

\* Who is seen typing is here, or the page will hear that they left.
EventTypes == eventSock = "open" /\ ~ EventRefused =>
    /\ eventTyping => here \/ \E j \in DOMAIN eventLayer : eventLayer[j].t = "left"
    /\ \A i \in DOMAIN eventLayer : eventLayer[i].t = "typing" /\ eventLayer[i].n = 1 =>
         here \/ \E j \in DOMAIN eventLayer : j > i /\ eventLayer[j].t = "left"

EventInv ==
    /\ EventPlace /\ EventLog /\ EventNet /\ EventCounts
    /\ EventSocket /\ EventOrder /\ EventDrafts /\ EventFilled /\ EventPresence /\ EventTypes

\* What the module counts is this.
LEMMA EventInAir ==
    /\ EventNet => Event!InAir = Waiting
    /\ EventNet' => Event!InAir' = Waiting'
<1>1. EventNet => Event!InAir = Waiting
  <2> SUFFICES ASSUME EventNet PROVE Event!InAir = Waiting
    OBVIOUS
  <2>1. {i \in DOMAIN eventWire : eventWire[i].t = "error"} = Marked(eventWire, Refusals)
    BY DEF EventNet, Marked, Refusals
  <2>2. {i \in DOMAIN eventLayer : eventLayer[i].t = "message"
                                   /\ log[eventLayer[i].n] = "socket"}
          = Marked(eventLayer, Sent(log))
    BY DEF EventNet, Marked, Sent
  <2>3. \A S : Event!Cardinality(S) = Cardinality(S)
    BY DEF Event!Cardinality, Cardinality
  <2>4. Event!InAir = eventInbox + Event!Cardinality({i \in DOMAIN eventWire : eventWire[i].t = "error"})
          + Event!Cardinality({i \in DOMAIN eventLayer : eventLayer[i].t = "message"
                                             /\ log[eventLayer[i].n] = "socket"})
    BY DEF Event!InAir
  <2>5. Waiting = eventInbox + Cardinality(Marked(eventWire, Refusals))
                    + Cardinality(Marked(eventLayer, Sent(log)))
    BY DEF Waiting, Air
  <2> QED BY <2>1, <2>2, <2>3, <2>4, <2>5
<1>2. EventNet' => Event!InAir' = Waiting'
  <2> SUFFICES ASSUME EventNet' PROVE Event!InAir' = Waiting'
    OBVIOUS
  <2>1. {i \in DOMAIN eventWire' : eventWire'[i].t = "error"} = Marked(eventWire', Refusals)
    BY DEF EventNet, Marked, Refusals
  <2>2. {i \in DOMAIN eventLayer' : eventLayer'[i].t = "message"
                                    /\ log'[eventLayer'[i].n] = "socket"}
          = Marked(eventLayer', Sent(log'))
    BY DEF EventNet, Marked, Sent
  <2>3. \A S : Event!Cardinality(S) = Cardinality(S)
    BY DEF Event!Cardinality, Cardinality
  <2>4. Event!InAir' = eventInbox' + Event!Cardinality({i \in DOMAIN eventWire' : eventWire'[i].t = "error"})
          + Event!Cardinality({i \in DOMAIN eventLayer' : eventLayer'[i].t = "message"
                                             /\ log'[eventLayer'[i].n] = "socket"})
    BY DEF Event!InAir
  <2>5. Waiting' = eventInbox' + Cardinality(Marked(eventWire', Refusals))
                    + Cardinality(Marked(eventLayer', Sent(log')))
    BY DEF Waiting, Air
  <2> QED BY <2>1, <2>2, <2>3, <2>4, <2>5
<1> QED BY <1>1, <1>2

\* The counts are numbers.
LEMMA EventCounting ==
    ASSUME NEW b \in Nat, NEW w \in Seq(EventAnswer), NEW y \in Seq(EventFrame), NEW l
    PROVE  /\ Cardinality(Marked(w, Refusals)) \in Nat
           /\ Cardinality(Marked(y, Sent(l))) \in Nat
           /\ Air(b, w, y, l) \in Nat
  BY MarkedFinite DEF Air

LEMMA EventBegin == ASSUME Event!Init PROVE EventInv
<1>1. /\ eventPage = "loading" /\ leaving = "no" /\ posting = FALSE
      /\ status = "idle" /\ eventSock = "none" /\ eventRetry = FALSE
      /\ disposed = FALSE /\ reconnected = FALSE
      /\ rest = {} /\ live = {} /\ reconciled = {} /\ eventPending = 0
      /\ online = FALSE /\ eventTyping = FALSE
      /\ eventInbox = 0 /\ eventWire = <<>> /\ eventLayer = <<>>
      /\ log = <<>> /\ eventMember = FALSE /\ eventOpen = TRUE /\ here = TRUE
      /\ lost = 0 /\ sends = 0 /\ eventDrops = 0 /\ eventMoves = 0
  BY DEF Event!Init
<1>2. EventPlace
  BY <1>1 DEF EventPlace
<1>3. EventLog
  <2>1. log \in Seq(Ways) /\ Len(log) = 0
    BY <1>1, NoFrames
  <2>2. 0 <= MaxMessages
    BY PagesAssumption
  <2> QED BY <1>1, <2>1, <2>2 DEF EventLog
<1>4. EventNet
  BY <1>1, NoFrames DEF EventNet
<1>5. EventCounts
  BY <1>1, PagesAssumption DEF EventCounts
<1>6. EventSocket
  BY <1>1 DEF EventSocket, EventRefused
<1>7. EventOrder
  BY <1>1 DEF EventOrder
<1>8. EventDrafts
  <2>1. Waiting = 0
    BY <1>1, MarkedEmpty DEF Waiting, Air
  <2> QED BY <1>1, <2>1 DEF EventDrafts
<1>9. EventFilled /\ EventPresence /\ EventTypes
  BY <1>1 DEF EventFilled, EventPresence, EventTypes
<1> QED BY <1>2, <1>3, <1>4, <1>5, <1>6, <1>7, <1>8, <1>9 DEF EventInv

\* Nothing comes or goes.
LEMMA EventStill ==
    ASSUME EventInv, EventPlace', EventCounts', sends' \in {sends, sends + 1},
           UNCHANGED <<status, eventSock, eventRetry, reconnected, rest, live, reconciled,
                       eventPending, online, eventInbox, eventWire, eventLayer, log, eventOpen,
                       here, lost>>,
           eventTyping' \in {eventTyping, FALSE},
           eventMember' \in BOOLEAN, eventMember' = eventMember \/ eventPage # "room",
           eventPage = "room" <=> eventPage' = "room"
    PROVE  EventInv'
<1>1. /\ EventLog /\ EventNet /\ EventCounts /\ EventSocket /\ EventOrder /\ EventDrafts
      /\ EventFilled /\ EventPresence /\ EventTypes
  BY DEF EventInv
<1>2. EventLog' /\ EventNet'
  BY <1>1 DEF EventLog, EventNet
<1>3. EventSocket'
  <2>1. EventRefused => eventPage = "room"
    BY <1>1 DEF EventSocket, EventRefused
  <2>2. EventRefused' <=> EventRefused
    BY DEF EventRefused
  <2>3. eventTyping' => eventTyping
    OBVIOUS
  <2> QED BY <1>1, <2>1, <2>2, <2>3 DEF EventSocket
<1>4. EventOrder'
  BY <1>1 DEF EventOrder
<1>5. EventDrafts'
  <2>1. Waiting' = Waiting
    BY DEF Waiting
  <2>2. Waiting \in Nat
    BY <1>1, EventCounting DEF EventNet, Waiting
  <2> QED BY <1>1, <2>1, <2>2 DEF EventDrafts, EventCounts, EventNet
<1>6. EventFilled'
  BY <1>1 DEF EventFilled, EventRefused
<1>7. EventPresence'
  BY <1>1 DEF EventPresence, EventRefused
<1>8. EventTypes'
  BY <1>1 DEF EventTypes, EventRefused
<1> QED BY <1>2, <1>3, <1>4, <1>5, <1>6, <1>7, <1>8 DEF EventInv

LEMMA EventQuietSteps ==
    ASSUME EventInv,
           \/ Event!JoinedBefore \/ Event!Join \/ Event!Joined \/ Event!Leave
           \/ Event!TypingStops
    PROVE  EventInv'
<1>1. EventPlace /\ EventLog /\ EventCounts
  BY DEF EventInv
<1>2. /\ UNCHANGED <<posting, status, eventSock, eventRetry, disposed, reconnected, rest, live,
                     reconciled, eventPending, online, eventInbox, eventWire, eventLayer, log,
                     eventOpen, here, lost, sends, eventDrops>>
      /\ eventTyping' \in {eventTyping, FALSE}
  BY DEF Event!JoinedBefore, Event!Join, Event!Joined, Event!Leave, Event!TypingStops,
     Event!socket, Event!screen, Event!net, Event!server, Event!counts
<1>3. eventMember' \in BOOLEAN /\ (eventMember' = eventMember \/ eventPage # "room")
  <2>1. CASE Event!Joined
    <3>1. eventMember' = (eventMember \/ eventOpen) /\ eventPage # "room"
      BY <2>1 DEF Event!Joined
    <3>2. eventMember' \in BOOLEAN
      BY <3>1, Zenon
    <3> QED BY <3>1, <3>2
  <2>2. CASE Event!JoinedBefore
    BY <2>2 DEF Event!JoinedBefore
  <2>3. CASE Event!Join \/ Event!Leave \/ Event!TypingStops
    BY <1>1, <2>3 DEF Event!Join, Event!Leave, Event!TypingStops, Event!server, EventLog
  <2> QED BY <2>1, <2>2, <2>3
<1>4. /\ eventPage = "room" <=> eventPage' = "room"
      /\ eventPage' \in {eventPage, "joining", "loading"} /\ leaving' \in {leaving, "asked"}
      /\ eventMoves' = eventMoves \/ (eventMoves < MaxEventMoves /\ eventMoves' = eventMoves + 1)
  BY DEF Event!JoinedBefore, Event!Join, Event!Joined, Event!Leave, Event!TypingStops,
     Event!counts
<1>5. EventPlace'
  BY <1>1, <1>2, <1>4 DEF EventPlace
<1>6. EventCounts'
  BY <1>1, <1>2, <1>4, PagesAssumption DEF EventCounts
<1> QED BY <1>2, <1>3, <1>4, <1>5, <1>6, EventStill

\* A socket is asked for.
LEMMA EventConnects ==
    ASSUME EventInv, Event!Connect, eventPage' = "room", eventSock = "none", EventCounts',
           rest' \in {rest, DOMAIN log}, sends' = sends,
           UNCHANGED <<leaving, posting, disposed, reconnected, live, reconciled, eventPending,
                       online, eventTyping, eventInbox, eventWire, eventLayer, log, eventMember,
                       eventOpen, here, lost>>
    PROVE  EventInv'
<1>1. /\ EventPlace /\ EventLog /\ EventNet /\ EventSocket /\ EventOrder /\ EventDrafts
  BY DEF EventInv
<1>2. status' = "connecting" /\ eventSock' = "opening" /\ eventRetry' = FALSE
  BY DEF Event!Connect
<1>3. EventPlace' /\ EventNet'
  BY <1>1, <1>2 DEF EventPlace, EventNet
<1>4. EventLog'
  <2>1. DOMAIN log \subseteq 1 .. MaxMessages
    BY <1>1, PagesAssumption DEF EventLog
  <2> QED BY <1>1, <2>1 DEF EventLog
<1>5. EventSocket'
  BY <1>1, <1>2 DEF EventSocket, EventRefused
<1>6. EventOrder'
  BY <1>1 DEF EventOrder
<1>7. EventDrafts'
  <2>1. Waiting' = Waiting
    BY DEF Waiting
  <2> QED BY <1>1, <2>1 DEF EventDrafts
<1>8. EventFilled' /\ EventPresence' /\ EventTypes'
  BY <1>2 DEF EventFilled, EventPresence, EventTypes
<1> QED BY <1>3, <1>4, <1>5, <1>6, <1>7, <1>8 DEF EventInv

LEMMA EventConnecting ==
    ASSUME EventInv, Event!Load \/ Event!Retry \/ Event!Resume
    PROVE  EventInv'
<1>1. EventPlace /\ EventLog /\ EventSocket /\ EventCounts
  BY DEF EventInv
<1>2. /\ UNCHANGED <<leaving, posting, disposed, reconnected, live, reconciled, eventPending,
                     online, eventTyping, eventInbox, eventWire, eventLayer, log, eventMember,
                     eventOpen, here, lost, sends>>
      /\ eventDrops' = eventDrops \/ (eventDrops < MaxEventDrops /\ eventDrops' = eventDrops + 1)
      /\ eventMoves' = eventMoves \/ (eventMoves < MaxEventMoves /\ eventMoves' = eventMoves + 1)
  BY DEF Event!Load, Event!Retry, Event!Resume, Event!socket, Event!screen, Event!net,
     Event!server, Event!counts
<1>3. EventCounts'
  BY <1>1, <1>2, PagesAssumption DEF EventCounts
<1>4. CASE Event!Load
  <2>1. eventPage = "loading"
    BY <1>4 DEF Event!Load
  <2>2. CASE eventPage' = "room"
    <3>1. Event!Connect /\ rest' = DOMAIN log
      BY <1>4, <2>2 DEF Event!Load
    <3>2. eventSock = "none"
      BY <1>1, <2>1 DEF EventSocket
    <3> QED BY <1>2, <1>3, <2>2, <3>1, <3>2, EventConnects
  <2>3. CASE eventPage' # "room"
    <3>1. /\ UNCHANGED <<status, eventSock, eventRetry, rest>>
          /\ eventPage' \in {"card", "failed"}
      BY <1>4, <2>3 DEF Event!Load, Event!socket
    <3>2. EventPlace'
      BY <1>1, <1>2, <3>1 DEF EventPlace
    <3>3. eventMember' \in BOOLEAN
      BY <1>1, <1>2 DEF EventLog
    <3> QED BY <1>2, <1>3, <2>1, <3>1, <3>2, <3>3, EventStill
  <2> QED BY <2>2, <2>3
<1>5. CASE Event!Retry \/ Event!Resume
  <2>1. Event!Connect /\ UNCHANGED <<rest, eventPage>> /\ eventPage = "room" /\ eventSock = "none"
    BY <1>1, <1>5 DEF Event!Retry, Event!Resume, Event!screen, EventSocket
  <2> QED BY <1>2, <1>3, <2>1, EventConnects
<1> QED BY <1>4, <1>5

\* The consumer takes the socket, or refuses it.
LEMMA EventAccepts == ASSUME EventInv, Event!Accept PROVE EventInv'
<1>1. /\ EventPlace /\ EventLog /\ EventNet /\ EventSocket /\ EventOrder /\ EventDrafts
      /\ EventCounts
  BY DEF EventInv
<1>2. /\ eventSock = "opening" /\ eventSock' = "open" /\ status' = "connected"
      /\ UNCHANGED <<eventPage, leaving, posting, eventRetry, disposed, reconnected, rest, live,
                     reconciled, eventPending, online, eventTyping, eventInbox, eventLayer, log,
                     eventMember, eventOpen, here, lost, sends, eventDrops, eventMoves>>
  BY DEF Event!Accept, Event!screen, Event!server, Event!counts
<1>3. /\ eventPage = "room" /\ ~ eventRetry /\ eventInbox = 0 /\ eventWire = <<>>
      /\ eventLayer = <<>> /\ ~ eventTyping
  BY <1>1, <1>2 DEF EventSocket
<1> DEFINE hello == [t |-> "snapshot", n |-> IF here THEN 1 ELSE 0]
           past == [t |-> "history", n |-> Len(log)]
           no == [t |-> "denied", n |-> 0]
<1>4. /\ hello \in EventAnswer /\ past \in EventAnswer /\ no \in EventAnswer
      /\ hello.t = "snapshot" /\ past.t = "history" /\ no.t = "denied" /\ past.n = Len(log)
      /\ (hello.n = 1) = here
  <2>1. Len(log) \in Nat
    BY <1>1 DEF EventLog
  <2>2. here \in BOOLEAN
    BY <1>1 DEF EventLog
  <2> QED BY <2>1, <2>2 DEF EventAnswer
<1>5. eventWire' = IF eventMember /\ eventOpen THEN <<hello, past>> ELSE <<no>>
  BY DEF Event!Accept, Event!Frame
<1> HIDE DEF hello, past, no
<1>6. EventPlace' /\ EventCounts' /\ EventLog'
  BY <1>1, <1>2 DEF EventPlace, EventCounts, EventLog
<1>7. EventNet'
  <2>1. eventWire' \in Seq(EventAnswer)
    BY <1>4, <1>5
  <2> QED BY <1>1, <1>2, <2>1 DEF EventNet
<1>8. EventRefused' <=> ~ (eventMember /\ eventOpen)
  BY <1>4, <1>5 DEF EventRefused
<1>9. EventSocket'
  BY <1>2, <1>3, <1>8 DEF EventSocket
<1>10. EventOrder'
  <2>1. \A i \in DOMAIN eventWire' : eventWire'[i].t = "history" => eventWire'[i].n <= Len(log)
    <3>1. Len(log) \in Nat
      BY <1>1 DEF EventLog
    <3> QED BY <1>4, <1>5, <3>1
  <2> QED BY <1>2, <1>3, <2>1 DEF EventOrder
<1>11. EventDrafts'
  <2>1. Marked(eventWire', Refusals) = {}
    BY <1>4, <1>5 DEF Marked, Refusals
  <2>2. Marked(eventWire, Refusals) = {}
    BY <1>3 DEF Marked
  <2>3. Waiting' = Waiting
    BY <1>2, <2>1, <2>2 DEF Waiting, Air
  <2> QED BY <1>1, <1>2, <2>3 DEF EventDrafts
<1>12. EventFilled'
  <2> SUFFICES ASSUME eventMember /\ eventOpen, NEW x \in 1 .. Len(log)
               PROVE  \E j \in DOMAIN eventWire' :
                        eventWire'[j].t = "history" /\ x <= eventWire'[j].n
    BY <1>2, <1>8 DEF EventFilled
  <2>1. 2 \in DOMAIN eventWire' /\ eventWire'[2] = past
    BY <1>5
  <2> QED BY <1>4, <2>1
<1>13. EventPresence'
  <2> SUFFICES ASSUME eventMember /\ eventOpen
               PROVE  /\ \A j \in DOMAIN eventWire' :
                           eventWire'[j].t = "snapshot" => (eventWire'[j].n = 1) = here
                      /\ \E j \in DOMAIN eventWire' : eventWire'[j].t = "snapshot"
    BY <1>2, <1>3, <1>8 DEF EventPresence
  <2>1. eventWire' = <<hello, past>>
    BY <1>5
  <2>2. DOMAIN eventWire' = {1, 2} /\ eventWire'[1] = hello /\ eventWire'[2] = past
    BY <2>1
  <2> QED BY <1>4, <2>2
<1>14. EventTypes'
  BY <1>2, <1>3 DEF EventTypes
<1> QED BY <1>6, <1>7, <1>9, <1>10, <1>11, <1>12, <1>13, <1>14 DEF EventInv

\* The socket closes: what was in the air is lost.
LEMMA EventCloses ==
    ASSUME EventInv, NEW next \in {"connecting", "closed", "denied"}, Event!Closed(next),
           EventPlace', EventCounts', eventRetry' => eventPage = "room", sends' = sends,
           UNCHANGED <<eventPage, rest, live, reconciled, eventPending, log, eventMember,
                       eventOpen, here>>
    PROVE  EventInv'
<1>1. /\ EventLog /\ EventNet /\ EventSocket /\ EventDrafts
  BY DEF EventInv
<1>2. /\ eventSock' = "none" /\ online' = FALSE /\ eventTyping' = FALSE
      /\ eventInbox' = 0 /\ eventWire' = <<>> /\ eventLayer' = <<>> /\ lost' = lost + Waiting
      /\ status' = next
  BY <1>1, EventInAir DEF Event!Closed
<1>3. Waiting \in Nat
  BY <1>1, EventCounting DEF EventNet, Waiting
<1>4. EventLog' /\ EventNet'
  <2>1. EventLog'
    BY <1>1 DEF EventLog
  <2>2. lost' \in Nat
    BY <1>1, <1>2, <1>3 DEF EventNet
  <2> QED BY <1>1, <1>2, <2>1, <2>2, NoFrames DEF EventNet
<1>5. EventSocket'
  BY <1>2 DEF EventSocket, EventRefused
<1>6. EventOrder'
  BY <1>2 DEF EventOrder
<1>7. EventDrafts'
  <2>1. Waiting' = 0
    BY <1>2, MarkedEmpty DEF Waiting, Air
  <2> QED BY <1>1, <1>2, <1>3, <2>1 DEF EventDrafts, EventNet
<1>8. EventFilled' /\ EventPresence' /\ EventTypes'
  BY <1>2 DEF EventFilled, EventPresence, EventTypes
<1> QED BY <1>4, <1>5, <1>6, <1>7, <1>8 DEF EventInv

LEMMA EventClosing ==
    ASSUME EventInv, Event!Drop \/ Event!HearDenied \/ Event!HearClosed
    PROVE  EventInv'
<1>1. EventPlace /\ EventSocket /\ EventCounts
  BY DEF EventInv
<1>2. PICK next \in {"connecting", "closed", "denied"} : Event!Closed(next)
  BY DEF Event!Drop, Event!HearDenied, Event!HearClosed
<1>3. /\ UNCHANGED <<eventPage, leaving, posting, rest, live, reconciled, eventPending, log,
                     eventMember, eventOpen, here, sends, eventMoves>>
      /\ eventDrops' = eventDrops \/ (eventDrops < MaxEventDrops /\ eventDrops' = eventDrops + 1)
      /\ reconnected' \in {reconnected, TRUE} /\ disposed' \in {disposed, TRUE}
      /\ eventRetry' \in {eventRetry, FALSE, TRUE}
  BY DEF Event!Drop, Event!HearDenied, Event!HearClosed, Event!server, Event!counts
<1>4. EventCounts'
  BY <1>1, <1>3, PagesAssumption DEF EventCounts
<1>5. EventPlace'
  BY <1>1, <1>2, <1>3 DEF EventPlace, Event!Closed
<1>6. eventRetry' => eventPage = "room"
  BY <1>1 DEF Event!Drop, Event!HearDenied, Event!HearClosed, EventSocket
<1> QED BY <1>2, <1>3, <1>4, <1>5, <1>6, EventCloses

\* The page is left, or the leave is refused.
LEMMA EventLeaves == ASSUME EventInv, Event!Left PROVE EventInv'
<1>1. EventPlace /\ EventLog /\ EventCounts /\ EventNet
  BY DEF EventInv
<1>2. /\ leaving' = "no" /\ eventPage = "room"
      /\ UNCHANGED <<posting, log, eventMember, eventOpen, here, sends, eventDrops, eventMoves>>
  BY DEF Event!Left, Event!server, Event!counts
<1>3. EventCounts'
  BY <1>1, <1>2 DEF EventCounts
<1>4. CASE eventPage' = "left"
  <2>1. /\ disposed' = TRUE /\ status' = "idle" /\ eventSock' = "none" /\ eventRetry' = FALSE
        /\ live' = {} /\ reconciled' = {} /\ online' = FALSE /\ eventTyping' = FALSE
        /\ eventPending' = 0 /\ lost' = 0
        /\ eventInbox' = 0 /\ eventWire' = <<>> /\ eventLayer' = <<>>
        /\ UNCHANGED <<reconnected, rest>>
    BY <1>2, <1>4 DEF Event!Left
  <2>2. EventPlace'
    BY <1>1, <1>2, <1>4, <2>1 DEF EventPlace
  <2>3. EventLog' /\ EventNet'
    <3>1. EventLog'
      BY <1>1, <1>2, <2>1 DEF EventLog
    <3> QED BY <1>1, <1>2, <2>1, <3>1, NoFrames DEF EventNet
  <2>4. EventSocket'
    BY <2>1 DEF EventSocket, EventRefused
  <2>5. EventOrder'
    BY <2>1 DEF EventOrder
  <2>6. EventDrafts'
    <3>1. Waiting' = 0
      BY <2>1, MarkedEmpty DEF Waiting, Air
    <3> QED BY <1>2, <1>3, <2>1, <3>1 DEF EventDrafts, EventCounts
  <2>7. EventFilled' /\ EventPresence' /\ EventTypes'
    BY <2>1 DEF EventFilled, EventPresence, EventTypes
  <2> QED BY <1>3, <2>2, <2>3, <2>4, <2>5, <2>6, <2>7 DEF EventInv
<1>5. CASE eventPage' # "left"
  <2>1. /\ UNCHANGED <<eventPage, status, eventSock, eventRetry, disposed, reconnected, rest,
                       live, reconciled, eventPending, online, eventTyping, eventInbox,
                       eventWire, eventLayer, lost>>
    BY <1>5 DEF Event!Left, Event!socket, Event!screen, Event!net
  <2>2. EventPlace' /\ eventMember' \in BOOLEAN
    BY <1>1, <1>2, <2>1 DEF EventPlace, EventLog
  <2> QED BY <1>2, <1>3, <2>1, <2>2, EventStill
<1> QED BY <1>4, <1>5

\* What the page takes of new messages; an own one retires a draft.
LEMMA EventTakes ==
    ASSUME NEW S, IsFiniteSet(S), Event!Take(S), EventLog, EventNet
    PROVE  /\ live' = live \cup S /\ reconciled' \subseteq live' /\ eventPending' \in Nat
           /\ eventPending' <= eventPending
           /\ \A n : S = {n} /\ n \notin live /\ log[n] = "socket" /\ eventPending # 0
                     => eventPending' <= eventPending - 1
<1> DEFINE fresh == S \ live
           own == {i \in fresh : Event!Own(i) /\ i \notin reconciled}
<1>1. /\ live' = live \cup fresh /\ reconciled' = reconciled \cup own
      /\ eventPending' = IF Event!Cardinality(own) > eventPending THEN 0
                         ELSE eventPending - Event!Cardinality(own)
  BY DEF Event!Take
<1>2. Event!Cardinality(own) = Cardinality(own)
  BY DEF Event!Cardinality, Cardinality
<1>3. reconciled \subseteq live /\ eventPending \in Nat
  BY DEF EventLog, EventNet
<1>4. own \subseteq S /\ own \subseteq fresh
  OBVIOUS
<1>5. Cardinality(own) \in Nat
  BY <1>4, FS_Subset, FS_CardinalityType
<1>6. ASSUME NEW n, S = {n}, n \notin live, log[n] = "socket" PROVE Cardinality(own) = 1
  <2>1. own = {n}
    BY <1>3, <1>6 DEF Event!Own
  <2>2. Cardinality({n}) = 1
    BY FS_Singleton
  <2> QED BY <2>1, <2>2
<1> HIDE DEF own
<1>7. eventPending' \in Nat /\ eventPending' <= eventPending
  BY <1>1, <1>2, <1>3, <1>5
<1>8. Cardinality(own) = 1 /\ eventPending # 0 => eventPending' <= eventPending - 1
  BY <1>1, <1>2, <1>3
<1> QED BY <1>1, <1>3, <1>4, <1>6, <1>7, <1>8

\* The page reads an answer of the consumer.
LEMMA EventReads ==
    ASSUME EventInv, eventWire # <<>>, eventWire' = Tail(eventWire), Head(eventWire).t # "denied",
           UNCHANGED <<eventPage, leaving, posting, status, eventSock, eventRetry, disposed,
                       reconnected, rest, eventTyping, eventInbox, eventLayer, log, eventMember,
                       eventOpen, here, lost, sends, eventDrops, eventMoves>>,
           online' = IF Head(eventWire).t = "snapshot" THEN Head(eventWire).n = 1 ELSE online,
           live' = live \/ /\ Head(eventWire).t = "history"
                           /\ live' = live \cup 1 .. Head(eventWire).n,
           reconnected /\ Head(eventWire).t = "history" => live' = live \cup 1 .. Head(eventWire).n,
           reconciled' \subseteq live', eventPending' \in Nat, eventPending' <= eventPending,
           Head(eventWire).t = "error" =>
             eventPending' = IF eventPending = 0 THEN 0 ELSE eventPending - 1
    PROVE  EventInv'
<1>1. /\ EventPlace /\ EventLog /\ EventNet /\ EventCounts /\ EventSocket /\ EventOrder
      /\ EventDrafts /\ EventFilled /\ EventPresence /\ EventTypes
  BY DEF EventInv
<1> DEFINE w == eventWire
           h == Head(eventWire)
           wt == Tail(eventWire)
<1>2. /\ wt \in Seq(EventAnswer) /\ 1 \in DOMAIN w /\ h = w[1] /\ h \in EventAnswer
      /\ \A i \in DOMAIN wt : i + 1 \in DOMAIN w /\ wt[i] = w[i + 1]
      /\ \A i \in DOMAIN w : i = 1 \/ (i - 1 \in DOMAIN wt /\ wt[i - 1] = w[i])
  BY <1>1, TailShift DEF EventNet
<1>3. EventPlace' /\ EventCounts'
  BY <1>1 DEF EventPlace, EventCounts
<1>4. h.t = "history" => h.n <= Len(log) /\ h.n \in Nat /\ Len(log) \in Nat
  BY <1>1, <1>2 DEF EventOrder, EventAnswer, EventLog
<1>5. EventLog'
  <2>1. live' \subseteq 1 .. Len(log)
    <3>1. live \subseteq 1 .. Len(log)
      BY <1>1 DEF EventLog
    <3>2. CASE live' = live
      BY <3>1, <3>2
    <3>3. CASE h.t = "history" /\ live' = live \cup 1 .. h.n
      <4>1. 1 .. h.n \subseteq 1 .. Len(log)
        BY <1>4, <3>3
      <4> QED BY <3>1, <3>3, <4>1
    <3> QED BY <3>2, <3>3
  <2> QED BY <1>1, <2>1 DEF EventLog
<1>6. EventNet'
  <2>1. online' \in BOOLEAN
    BY <1>1 DEF EventNet
  <2> QED BY <1>1, <1>2, <2>1 DEF EventNet
<1>7. EventRefused' <=> EventRefused
  BY <1>2 DEF EventRefused
<1>8. EventSocket'
  <2>1. eventSock = "open"
    BY <1>1 DEF EventSocket
  <2> QED BY <1>1, <1>7, <2>1 DEF EventSocket
<1>9. EventOrder'
  <2>1. \A i \in DOMAIN wt : wt[i].t = "history" => wt[i].n <= Len(log)
    BY <1>1, <1>2 DEF EventOrder
  <2> SUFFICES ASSUME NEW i \in DOMAIN eventLayer, eventLayer[i].t = "message"
               PROVE  /\ \A x \in live' : x < eventLayer[i].n
                      /\ \A j \in DOMAIN wt : wt[j].t = "history" => wt[j].n < eventLayer[i].n
    BY <1>1, <2>1 DEF EventOrder
  <2>2. /\ \A x \in live : x < eventLayer[i].n
        /\ \A j \in DOMAIN w : w[j].t = "history" => w[j].n < eventLayer[i].n
        /\ eventLayer[i].n \in 1 .. Len(log)
    BY <1>1 DEF EventOrder
  <2>3. \A x \in live' : x < eventLayer[i].n
    BY <1>2, <1>4, <2>2
  <2>4. \A j \in DOMAIN wt : wt[j].t = "history" => wt[j].n < eventLayer[i].n
    BY <1>2, <2>2
  <2> QED BY <2>3, <2>4
<1>10. EventDrafts'
  <2>1. Cardinality(Marked(w, Refusals)) =
          Cardinality(Marked(wt, Refusals)) + (IF h.t = "error" THEN 1 ELSE 0)
    <3>1. h \in Refusals <=> h.t = "error"
      BY <1>2 DEF Refusals
    <3>2. w \in Seq(EventAnswer)
      BY <1>1 DEF EventNet
    <3> QED BY <3>1, <3>2, MarkedTail
  <2>2. /\ Cardinality(Marked(w, Refusals)) \in Nat /\ Cardinality(Marked(wt, Refusals)) \in Nat
        /\ Cardinality(Marked(eventLayer, Sent(log))) \in Nat
    BY <1>1, <1>2, EventCounting DEF EventNet
  <2> DEFINE a == Cardinality(Marked(w, Refusals))
             b == Cardinality(Marked(wt, Refusals))
             c == Cardinality(Marked(eventLayer, Sent(log)))
  <2>3. Waiting = eventInbox + a + c /\ Waiting' = eventInbox + b + c
    BY DEF Waiting, Air
  <2>4. a \in Nat /\ b \in Nat /\ c \in Nat /\ a = b + (IF h.t = "error" THEN 1 ELSE 0)
    BY <2>1, <2>2
  <2>5. eventInbox \in Nat /\ lost \in Nat /\ eventPending \in Nat /\ sends \in Nat
    BY <1>1 DEF EventNet, EventCounts
  <2> HIDE DEF a, b, c, h
  <2>6. eventPending <= eventInbox + a + c + lost /\ eventInbox + a + c + lost <= sends
    BY <1>1, <2>3 DEF EventDrafts
  <2>7. eventPending' <= eventInbox + b + c + lost
    <3>1. CASE h.t = "error"
      <4>1. eventPending' = IF eventPending = 0 THEN 0 ELSE eventPending - 1
        BY <3>1 DEF h
      <4> QED BY <2>4, <2>5, <2>6, <3>1, <4>1
    <3>2. CASE h.t # "error"
      BY <2>4, <2>5, <2>6, <3>2
    <3> QED BY <3>1, <3>2
  <2>8. eventInbox + b + c + lost <= sends
    BY <2>4, <2>5, <2>6
  <2> QED BY <2>3, <2>7, <2>8 DEF EventDrafts
<1>11. EventFilled'
  <2> SUFFICES ASSUME status = "connected", reconnected, ~ EventRefused, NEW x \in 1 .. Len(log)
               PROVE  \/ x \in rest \cup live'
                      \/ \E i \in DOMAIN eventLayer : eventLayer[i].t = "message" /\ eventLayer[i].n = x
                      \/ \E j \in DOMAIN wt : wt[j].t = "history" /\ x <= wt[j].n
    BY <1>7 DEF EventFilled
  <2>1. \/ x \in rest \cup live
        \/ \E i \in DOMAIN eventLayer : eventLayer[i].t = "message" /\ eventLayer[i].n = x
        \/ \E j \in DOMAIN w : w[j].t = "history" /\ x <= w[j].n
    BY <1>1 DEF EventFilled
  <2>2. live \subseteq live'
    OBVIOUS
  <2>3. CASE \E j \in DOMAIN w : w[j].t = "history" /\ x <= w[j].n
    <3>1. PICK j \in DOMAIN w : w[j].t = "history" /\ x <= w[j].n
      BY <2>3
    <3>2. CASE j = 1
      <4>1. h.t = "history" /\ x <= h.n
        BY <1>2, <3>1, <3>2
      <4>2. x \in 1 .. h.n
        BY <1>4, <4>1
      <4> QED BY <4>1, <4>2
    <3>3. CASE j # 1
      BY <1>2, <3>1, <3>3
    <3> QED BY <3>2, <3>3
  <2> QED BY <2>1, <2>2, <2>3
<1>12. EventPresence'
  <2> SUFFICES ASSUME eventSock = "open", ~ EventRefused,
                      \A j \in DOMAIN eventLayer : eventLayer[j].t \notin Moves
               PROVE  /\ \A j \in DOMAIN wt : wt[j].t = "snapshot" => (wt[j].n = 1) = here
                      /\ (\A j \in DOMAIN wt : wt[j].t # "snapshot") => online' = here
    BY <1>1, <1>7 DEF EventPresence
  <2>1. /\ \A j \in DOMAIN w : w[j].t = "snapshot" => (w[j].n = 1) = here
        /\ (\A j \in DOMAIN w : w[j].t # "snapshot") => online = here
    BY <1>1 DEF EventPresence
  <2>2. \A j \in DOMAIN wt : wt[j].t = "snapshot" => (wt[j].n = 1) = here
    BY <1>2, <2>1
  <2>3. (\A j \in DOMAIN wt : wt[j].t # "snapshot") => online' = here
    <3>1. CASE h.t = "snapshot"
      BY <1>2, <2>1, <3>1
    <3>2. CASE h.t # "snapshot"
      BY <1>2, <2>1, <3>2
    <3> QED BY <3>1, <3>2
  <2> QED BY <2>2, <2>3
<1>13. EventTypes'
  BY <1>1, <1>7 DEF EventTypes
<1> QED BY <1>3, <1>5, <1>6, <1>8, <1>9, <1>10, <1>11, <1>12, <1>13 DEF EventInv

LEMMA EventReading ==
    ASSUME EventInv, Event!HearSnapshot \/ Event!HearHistory \/ Event!HearError
    PROVE  EventInv'
<1>1. EventLog /\ EventNet
  BY DEF EventInv
<1>2. /\ eventWire # <<>> /\ eventWire' = Tail(eventWire)
      /\ UNCHANGED <<eventPage, leaving, posting, status, eventSock, eventRetry, disposed,
                     reconnected, rest, eventTyping, eventInbox, eventLayer, log, eventMember,
                     eventOpen, here, lost, sends, eventDrops, eventMoves>>
  BY DEF Event!HearSnapshot, Event!HearHistory, Event!HearError, Event!Hears, Event!socket,
     Event!server, Event!counts
<1>3. reconciled \subseteq live /\ eventPending \in Nat
  BY <1>1 DEF EventLog, EventNet
<1>4. CASE Event!HearSnapshot
  <2>1. /\ Head(eventWire).t = "snapshot" /\ online' = (Head(eventWire).n = 1)
        /\ UNCHANGED <<live, reconciled, eventPending>>
    BY <1>4 DEF Event!HearSnapshot, Event!Hears
  <2> QED BY <1>2, <1>3, <2>1, EventReads
<1>5. CASE Event!HearHistory
  <2>1. /\ Head(eventWire).t = "history" /\ online' = online
        /\ IF reconnected THEN Event!Take(1 .. Head(eventWire).n)
           ELSE UNCHANGED <<live, reconciled, eventPending>>
    BY <1>5 DEF Event!HearHistory, Event!Hears
  <2>2. CASE reconnected
    <3>1. IsFiniteSet(1 .. Head(eventWire).n)
      <4>1. Head(eventWire) \in EventAnswer
        BY <1>1, <1>2, HeadTailProperties DEF EventNet
      <4>2. Head(eventWire).n \in Int
        BY <4>1 DEF EventAnswer
      <4> QED BY <4>2, FS_Interval
    <3>2. /\ live' = live \cup 1 .. Head(eventWire).n /\ reconciled' \subseteq live'
          /\ eventPending' \in Nat /\ eventPending' <= eventPending
      BY <1>1, <2>1, <2>2, <3>1, EventTakes
    <3> QED BY <1>2, <2>1, <3>2, EventReads
  <2>3. CASE ~ reconnected
    BY <1>2, <1>3, <2>1, <2>3, EventReads
  <2> QED BY <2>2, <2>3
<1>6. CASE Event!HearError
  <2>1. /\ Head(eventWire).t = "error" /\ UNCHANGED <<online, live, reconciled>>
        /\ eventPending' = IF eventPending = 0 THEN 0 ELSE eventPending - 1
    BY <1>6 DEF Event!HearError, Event!Hears
  <2>2. eventPending' \in Nat /\ eventPending' <= eventPending
    BY <1>3, <2>1
  <2> QED BY <1>2, <1>3, <2>1, <2>2, EventReads
<1> QED BY <1>4, <1>5, <1>6

\* The page reads a broadcast.
LEMMA EventHears ==
    ASSUME EventInv, eventWire = <<>>, eventLayer # <<>>, eventLayer' = Tail(eventLayer),
           UNCHANGED <<eventPage, leaving, posting, status, eventSock, eventRetry, disposed,
                       reconnected, rest, eventInbox, eventWire, log, eventMember, eventOpen,
                       here, lost, sends, eventDrops, eventMoves>>,
           live' = IF Head(eventLayer).t = "message" THEN live \cup {Head(eventLayer).n} ELSE live,
           reconciled' \subseteq live', eventPending' \in Nat, eventPending' <= eventPending,
           Head(eventLayer).t = "message" /\ log[Head(eventLayer).n] = "socket" /\ eventPending # 0
             => eventPending' <= eventPending - 1,
           online' = IF Head(eventLayer).t \in Moves THEN Head(eventLayer).t = "joined" ELSE online,
           eventTyping' = IF Head(eventLayer).t = "typing" THEN Head(eventLayer).n = 1
                          ELSE eventTyping /\ Head(eventLayer).t # "left"
    PROVE  EventInv'
<1>1. /\ EventPlace /\ EventLog /\ EventNet /\ EventCounts /\ EventSocket /\ EventOrder
      /\ EventDrafts /\ EventFilled /\ EventPresence /\ EventTypes
  BY DEF EventInv
<1> DEFINE y == eventLayer
           h == Head(eventLayer)
           yt == Tail(eventLayer)
<1>2. /\ yt \in Seq(EventFrame) /\ 1 \in DOMAIN y /\ h = y[1] /\ h \in EventFrame
      /\ \A i \in DOMAIN yt : i + 1 \in DOMAIN y /\ yt[i] = y[i + 1]
      /\ \A i \in DOMAIN y : i = 1 \/ (i - 1 \in DOMAIN yt /\ yt[i - 1] = y[i])
  BY <1>1, TailShift DEF EventNet
<1>3. DOMAIN y \subseteq Nat \ {0} /\ DOMAIN yt \subseteq Nat \ {0}
  BY <1>1, <1>2, LenProperties DEF EventNet
<1>4. EventPlace' /\ EventCounts'
  BY <1>1 DEF EventPlace, EventCounts
<1>5. h.t = "message" => h.n \in 1 .. Len(log)
  BY <1>1, <1>2 DEF EventOrder
<1>6. EventLog'
  <2>1. live' \subseteq 1 .. Len(log)
    BY <1>1, <1>5 DEF EventLog
  <2> QED BY <1>1, <2>1 DEF EventLog
<1>7. EventNet'
  <2>1. online' \in BOOLEAN
    BY <1>1 DEF EventNet
  <2>2. eventTyping' \in BOOLEAN
    <3>1. CASE h.t = "typing"
      BY <3>1
    <3>2. CASE h.t # "typing"
      <4>1. eventTyping' = (eventTyping /\ h.t # "left")
        BY <3>2
      <4> QED BY <4>1, Zenon
    <3> QED BY <3>1, <3>2
  <2> QED BY <1>1, <1>2, <2>1, <2>2 DEF EventNet
<1>8. (EventRefused' <=> EventRefused) /\ ~ EventRefused
  BY DEF EventRefused
<1>9. EventSocket'
  <2>1. eventSock = "open"
    BY <1>1 DEF EventSocket
  <2> QED BY <1>1, <1>8, <2>1 DEF EventSocket
<1>10. EventOrder'
  <2> SUFFICES ASSUME NEW i \in DOMAIN yt, yt[i].t = "message"
               PROVE  /\ yt[i].n \in 1 .. Len(log)
                      /\ \A x \in live' : x < yt[i].n
                      /\ \A j \in DOMAIN yt : j > i /\ yt[j].t = "message" => yt[i].n < yt[j].n
    BY DEF EventOrder
  <2>1. i + 1 \in DOMAIN y /\ yt[i] = y[i + 1] /\ i \in Nat \ {0}
    BY <1>2, <1>3
  <2>2. /\ y[i + 1].n \in 1 .. Len(log)
        /\ \A x \in live : x < y[i + 1].n
        /\ \A j \in DOMAIN y : j > i + 1 /\ y[j].t = "message" => y[i + 1].n < y[j].n
    BY <1>1, <2>1 DEF EventOrder
  <2>3. h.t = "message" => h.n < y[i + 1].n
    <3>1. i + 1 > 1
      BY <2>1
    <3> QED BY <1>1, <1>2, <2>1, <3>1 DEF EventOrder
  <2>4. \A j \in DOMAIN yt : j > i /\ yt[j].t = "message" => yt[i].n < yt[j].n
    <3> SUFFICES ASSUME NEW j \in DOMAIN yt, j > i, yt[j].t = "message" PROVE yt[i].n < yt[j].n
      OBVIOUS
    <3>1. j + 1 \in DOMAIN y /\ yt[j] = y[j + 1] /\ j + 1 > i + 1
      BY <1>2, <1>3, <2>1
    <3> QED BY <2>1, <2>2, <3>1
  <2>5. \A x \in live' : x < yt[i].n
    BY <2>1, <2>2, <2>3
  <2> QED BY <2>1, <2>2, <2>4, <2>5
<1>11. EventDrafts'
  <2> DEFINE a == Cardinality(Marked(y, Sent(log)))
             b == Cardinality(Marked(yt, Sent(log)))
             c == Cardinality(Marked(eventWire, Refusals))
             own == h.t = "message" /\ log[h.n] = "socket"
  <2>1. a = b + (IF own THEN 1 ELSE 0)
    <3>1. h \in Sent(log) <=> own
      BY <1>2 DEF Sent
    <3>2. y \in Seq(EventFrame)
      BY <1>1 DEF EventNet
    <3>3. a = b + (IF h \in Sent(log) THEN 1 ELSE 0)
      BY <3>2, MarkedTail
    <3> QED BY <3>1, <3>3
  <2>2. a \in Nat /\ b \in Nat /\ c \in Nat
    BY <1>1, <1>2, EventCounting DEF EventNet
  <2>3. Waiting = eventInbox + c + a /\ Waiting' = eventInbox + c + b
    BY DEF Waiting, Air
  <2>4. eventInbox \in Nat /\ lost \in Nat /\ eventPending \in Nat /\ sends \in Nat
    BY <1>1 DEF EventNet, EventCounts
  <2>5. eventPending # 0 /\ own => eventPending' <= eventPending - 1
    OBVIOUS
  <2> HIDE DEF a, b, c, own
  <2>6. eventPending <= eventInbox + c + a + lost /\ eventInbox + c + a + lost <= sends
    BY <1>1, <2>3 DEF EventDrafts
  <2>7. eventPending' <= eventInbox + c + b + lost
    <3>1. CASE own
      BY <2>1, <2>2, <2>4, <2>5, <2>6, <3>1
    <3>2. CASE ~ own
      BY <2>1, <2>2, <2>4, <2>6, <3>2
    <3> QED BY <3>1, <3>2
  <2>8. eventInbox + c + b + lost <= sends
    BY <2>1, <2>2, <2>4, <2>6
  <2> QED BY <2>3, <2>7, <2>8 DEF EventDrafts
<1>12. EventFilled'
  <2> SUFFICES ASSUME status = "connected", reconnected, NEW x \in 1 .. Len(log)
               PROVE  \/ x \in rest \cup live'
                      \/ \E i \in DOMAIN yt : yt[i].t = "message" /\ yt[i].n = x
    BY <1>8 DEF EventFilled
  <2>1. \/ x \in rest \cup live
        \/ \E i \in DOMAIN y : y[i].t = "message" /\ y[i].n = x
    BY <1>1, <1>8 DEF EventFilled
  <2>2. live \subseteq live'
    OBVIOUS
  <2>3. CASE \E i \in DOMAIN y : y[i].t = "message" /\ y[i].n = x
    <3>1. PICK i \in DOMAIN y : y[i].t = "message" /\ y[i].n = x
      BY <2>3
    <3>2. CASE i = 1
      BY <1>2, <3>1, <3>2
    <3>3. CASE i # 1
      BY <1>2, <3>1, <3>3
    <3> QED BY <3>2, <3>3
  <2> QED BY <2>1, <2>2, <2>3
<1>13. EventPresence'
  <2> SUFFICES ASSUME eventSock = "open"
               PROVE  /\ \A i \in DOMAIN yt :
                           yt[i].t \in Moves /\ (\A j \in DOMAIN yt : j > i => yt[j].t \notin Moves)
                           => (yt[i].t = "joined") = here
                      /\ (\A j \in DOMAIN yt : yt[j].t \notin Moves) => online' = here
    BY <1>8 DEF EventPresence
  <2>1. /\ \A i \in DOMAIN y :
             y[i].t \in Moves /\ (\A j \in DOMAIN y : j > i => y[j].t \notin Moves)
             => (y[i].t = "joined") = here
        /\ (\A j \in DOMAIN y : y[j].t \notin Moves) => online = here
    <3>1. \A j \in DOMAIN eventWire : eventWire[j].t # "snapshot"
      OBVIOUS
    <3> QED BY <1>1, <1>8, <3>1 DEF EventPresence
  <2>2. ASSUME NEW i \in DOMAIN yt, yt[i].t \in Moves,
               \A j \in DOMAIN yt : j > i => yt[j].t \notin Moves
        PROVE  (yt[i].t = "joined") = here
    <3>1. i + 1 \in DOMAIN y /\ yt[i] = y[i + 1] /\ i \in Nat \ {0}
      BY <1>2, <1>3
    <3>2. ASSUME NEW j \in DOMAIN y, j > i + 1 PROVE y[j].t \notin Moves
      <4>1. j # 1 /\ j \in Nat
        BY <1>3, <3>1, <3>2
      <4>2. j - 1 \in DOMAIN yt /\ yt[j - 1] = y[j]
        BY <1>2, <4>1
      <4>3. j - 1 > i
        BY <3>1, <3>2, <4>1
      <4> QED BY <2>2, <4>2, <4>3
    <3> QED BY <2>1, <2>2, <3>1, <3>2
  <2>3. ASSUME \A j \in DOMAIN yt : yt[j].t \notin Moves PROVE online' = here
    <3>1. \A j \in DOMAIN y : j # 1 => y[j].t \notin Moves
      BY <1>2, <2>3
    <3>2. CASE h.t \in Moves
      <4>1. \A j \in DOMAIN y : j > 1 => y[j].t \notin Moves
        BY <1>3, <3>1
      <4>2. (h.t = "joined") = here
        BY <1>2, <2>1, <3>2, <4>1
      <4> QED BY <3>2, <4>2
    <3>3. CASE h.t \notin Moves
      BY <1>2, <2>1, <3>1, <3>3
    <3> QED BY <3>2, <3>3
  <2> QED BY <2>2, <2>3
<1>14. EventTypes'
  <2> SUFFICES ASSUME eventSock = "open", ~ here
               PROVE  /\ eventTyping' => \E j \in DOMAIN yt : yt[j].t = "left"
                      /\ \A i \in DOMAIN yt : yt[i].t = "typing" /\ yt[i].n = 1 =>
                           \E j \in DOMAIN yt : j > i /\ yt[j].t = "left"
    BY <1>8 DEF EventTypes
  <2>1. /\ eventTyping => \E j \in DOMAIN y : y[j].t = "left"
        /\ \A i \in DOMAIN y : y[i].t = "typing" /\ y[i].n = 1 =>
             \E j \in DOMAIN y : j > i /\ y[j].t = "left"
    BY <1>1, <1>8 DEF EventTypes
  <2>2. ASSUME eventTyping' PROVE \E j \in DOMAIN yt : yt[j].t = "left"
    <3>1. h.t # "left" /\ \E j \in DOMAIN y : y[j].t = "left"
      <4>1. CASE h.t = "typing"
        BY <1>2, <2>1, <2>2, <4>1
      <4>2. CASE h.t # "typing"
        BY <2>1, <2>2, <4>2
      <4> QED BY <4>1, <4>2
    <3>2. PICK j \in DOMAIN y : y[j].t = "left"
      BY <3>1
    <3>3. j # 1
      BY <1>2, <3>1, <3>2
    <3> QED BY <1>2, <3>2, <3>3
  <2>3. ASSUME NEW i \in DOMAIN yt, yt[i].t = "typing", yt[i].n = 1
        PROVE  \E j \in DOMAIN yt : j > i /\ yt[j].t = "left"
    <3>1. i + 1 \in DOMAIN y /\ yt[i] = y[i + 1] /\ i \in Nat \ {0}
      BY <1>2, <1>3
    <3>2. PICK j \in DOMAIN y : j > i + 1 /\ y[j].t = "left"
      BY <2>1, <2>3, <3>1
    <3>3. j # 1 /\ j \in Nat
      BY <1>3, <3>1, <3>2
    <3>4. j - 1 \in DOMAIN yt /\ yt[j - 1] = y[j]
      BY <1>2, <3>3
    <3>5. j - 1 > i
      BY <3>1, <3>2, <3>3
    <3> QED BY <3>2, <3>4, <3>5
  <2> QED BY <2>2, <2>3
<1> QED BY <1>4, <1>6, <1>7, <1>9, <1>10, <1>11, <1>12, <1>13, <1>14 DEF EventInv

LEMMA EventHearing ==
    ASSUME EventInv, Event!HearMessage \/ Event!HearPresence \/ Event!HearTyping
    PROVE  EventInv'
<1>1. EventLog /\ EventNet /\ EventOrder
  BY DEF EventInv
<1>2. /\ eventWire = <<>> /\ eventLayer # <<>> /\ eventLayer' = Tail(eventLayer)
      /\ UNCHANGED <<eventPage, leaving, posting, status, eventSock, eventRetry, disposed,
                     reconnected, rest, eventInbox, eventWire, log, eventMember, eventOpen,
                     here, lost, sends, eventDrops, eventMoves>>
  BY DEF Event!HearMessage, Event!HearPresence, Event!HearTyping, Event!Hear, Event!socket,
     Event!server, Event!counts
<1>3. /\ reconciled \subseteq live /\ eventPending \in Nat /\ eventTyping \in BOOLEAN
  BY <1>1 DEF EventLog, EventNet
<1>4. CASE Event!HearMessage
  <2>1. /\ Head(eventLayer).t = "message" /\ Event!Take({Head(eventLayer).n})
        /\ UNCHANGED <<online, eventTyping>>
    BY <1>4 DEF Event!HearMessage, Event!Hear
  <2>2. Head(eventLayer).n \notin live
    <3>1. 1 \in DOMAIN eventLayer /\ Head(eventLayer) = eventLayer[1]
      BY <1>1, <1>2, TailShift DEF EventNet
    <3>2. /\ \A x \in live : x < eventLayer[1].n
          /\ eventLayer[1].n \in 1 .. Len(log)
      BY <1>1, <2>1, <3>1 DEF EventOrder
    <3>3. ~ (eventLayer[1].n < eventLayer[1].n)
      BY <3>2
    <3> QED BY <3>1, <3>2, <3>3
  <2>3. IsFiniteSet({Head(eventLayer).n})
    BY FS_Singleton
  <2>4. /\ live' = live \cup {Head(eventLayer).n} /\ reconciled' \subseteq live'
        /\ eventPending' \in Nat /\ eventPending' <= eventPending
        /\ log[Head(eventLayer).n] = "socket" /\ eventPending # 0 => eventPending' <= eventPending - 1
    BY <1>1, <2>1, <2>2, <2>3, EventTakes
  <2>5. Head(eventLayer).t \notin Moves
    BY <2>1 DEF Moves
  <2> QED BY <1>2, <1>3, <2>1, <2>4, <2>5, EventHears
<1>5. CASE Event!HearPresence
  <2>1. PICK t \in {"joined", "left"} :
          /\ Head(eventLayer).t = t /\ online' = (t = "joined")
          /\ eventTyping' = (eventTyping /\ t = "joined")
    BY <1>5 DEF Event!HearPresence, Event!Hear
  <2>2. UNCHANGED <<live, reconciled, eventPending>>
    BY <1>5 DEF Event!HearPresence
  <2>3. t \in Moves
    BY DEF Moves
  <2>4. eventTyping' = (eventTyping /\ t # "left")
    BY <2>1
  <2> QED BY <1>2, <1>3, <2>1, <2>2, <2>3, <2>4, EventHears
<1>6. CASE Event!HearTyping
  <2>1. /\ Head(eventLayer).t = "typing" /\ eventTyping' = (Head(eventLayer).n = 1)
        /\ UNCHANGED <<online, live, reconciled, eventPending>>
    BY <1>6 DEF Event!HearTyping, Event!Hear
  <2>2. Head(eventLayer).t \notin Moves
    BY <2>1 DEF Moves
  <2> QED BY <1>2, <1>3, <2>1, <2>2, EventHears
<1> QED BY <1>4, <1>5, <1>6

\* What a broadcast does to the layer.
LEMMA EventBroadcasts ==
    ASSUME EventInv, NEW f \in EventFrame, Event!Broadcast(f)
    PROVE  IF eventSock = "open" /\ ~ EventRefused
           THEN /\ eventLayer' = Append(eventLayer, f) /\ eventLayer' \in Seq(EventFrame)
                /\ \A i \in DOMAIN eventLayer :
                     i \in DOMAIN eventLayer' /\ eventLayer'[i] = eventLayer[i]
                /\ Len(eventLayer) + 1 \in DOMAIN eventLayer'
                /\ eventLayer'[Len(eventLayer) + 1] = f
                /\ \A i \in DOMAIN eventLayer' : i = Len(eventLayer) + 1 \/ i \in DOMAIN eventLayer
                /\ \A i \in DOMAIN eventLayer : i \in Nat /\ i < Len(eventLayer) + 1
           ELSE eventLayer' = eventLayer /\ eventLayer' \in Seq(EventFrame)
<1>1. eventLayer \in Seq(EventFrame)
  BY DEF EventInv, EventNet
<1>2. eventLayer' = IF eventSock = "open" /\ ~ EventRefused THEN Append(eventLayer, f)
                    ELSE eventLayer
  BY DEF Event!Broadcast, Event!InGroup, EventRefused
<1>3. CASE eventSock = "open" /\ ~ EventRefused
  <2>1. eventLayer' = Append(eventLayer, f)
    BY <1>2, <1>3
  <2>2. /\ Append(eventLayer, f) \in Seq(EventFrame)
        /\ Len(Append(eventLayer, f)) = Len(eventLayer) + 1
        /\ \A i \in 1 .. Len(eventLayer) : Append(eventLayer, f)[i] = eventLayer[i]
        /\ Append(eventLayer, f)[Len(eventLayer) + 1] = f
    BY <1>1, AppendProperties
  <2>3. /\ DOMAIN eventLayer = 1 .. Len(eventLayer) /\ Len(eventLayer) \in Nat
        /\ DOMAIN eventLayer' = 1 .. Len(eventLayer) + 1
    BY <1>1, <2>1, <2>2, LenProperties
  <2> QED BY <1>3, <2>1, <2>2, <2>3
<1>4. CASE ~ (eventSock = "open" /\ ~ EventRefused)
  BY <1>1, <1>2, <1>4
<1> QED BY <1>3, <1>4

\* What is broadcast of the other participant comes after what the page has yet to hear.
LEMMA EventNews ==
    ASSUME EventInv, NEW f \in EventFrame, Event!Broadcast(f),
           UNCHANGED <<eventSock, eventWire, online, eventTyping>>,
           here' \in BOOLEAN, f.t \in Moves => (f.t = "joined") = here',
           f.t \notin Moves => here' = here,
           f.t = "typing" => here
    PROVE  EventPresence' /\ EventTypes'
<1>1. EventNet /\ EventPresence /\ EventTypes
  BY DEF EventInv
<1>2. EventRefused' <=> EventRefused
  BY DEF EventRefused
<1> DEFINE top == Len(eventLayer) + 1
<1>3. CASE eventSock = "open" /\ ~ EventRefused
  <2>1. /\ eventLayer' = Append(eventLayer, f) /\ eventLayer' \in Seq(EventFrame)
        /\ \A i \in DOMAIN eventLayer :
             i \in DOMAIN eventLayer' /\ eventLayer'[i] = eventLayer[i]
        /\ top \in DOMAIN eventLayer' /\ eventLayer'[top] = f
        /\ \A i \in DOMAIN eventLayer' : i = top \/ i \in DOMAIN eventLayer
        /\ \A i \in DOMAIN eventLayer : i \in Nat /\ i < top
    BY <1>3, EventBroadcasts
  <2>2. top \in Nat
    BY <1>1 DEF EventNet
  <2> HIDE DEF top
  <2>3. EventPresence'
    <3>1. CASE f.t \in Moves
      <4>1. ASSUME NEW i \in DOMAIN eventLayer', eventLayer'[i].t \in Moves,
                   \A j \in DOMAIN eventLayer' : j > i => eventLayer'[j].t \notin Moves
            PROVE  (eventLayer'[i].t = "joined") = here'
        <5>1. ~ (top > i)
          BY <2>1, <3>1, <4>1
        <5>2. i = top
          BY <2>1, <2>2, <5>1
        <5> QED BY <2>1, <3>1, <5>2
      <4> QED BY <2>1, <3>1, <4>1 DEF EventPresence
    <3>2. CASE f.t \notin Moves
      <4>1. ASSUME NEW i \in DOMAIN eventLayer', eventLayer'[i].t \in Moves,
                   \A j \in DOMAIN eventLayer' : j > i => eventLayer'[j].t \notin Moves
            PROVE  (eventLayer'[i].t = "joined") = here'
        <5>1. i \in DOMAIN eventLayer /\ eventLayer'[i] = eventLayer[i]
          BY <2>1, <3>2, <4>1
        <5>2. \A j \in DOMAIN eventLayer : j > i => eventLayer[j].t \notin Moves
          BY <2>1, <4>1
        <5> QED BY <1>1, <1>3, <3>2, <4>1, <5>1, <5>2 DEF EventPresence
      <4>2. (\A j \in DOMAIN eventLayer' : eventLayer'[j].t \notin Moves) =>
              \A j \in DOMAIN eventLayer : eventLayer[j].t \notin Moves
        BY <2>1
      <4>3. (\A j \in DOMAIN eventLayer : eventLayer[j].t \notin Moves) =>
              /\ \A j \in DOMAIN eventWire :
                   eventWire[j].t = "snapshot" => (eventWire[j].n = 1) = here
              /\ (\A j \in DOMAIN eventWire : eventWire[j].t # "snapshot") => online = here
        BY <1>1, <1>3 DEF EventPresence
      <4>4. here' = here
        BY <3>2
      <4> QED BY <4>1, <4>2, <4>3, <4>4 DEF EventPresence
    <3> QED BY <3>1, <3>2
  <2>4. EventTypes'
    <3> SUFFICES ASSUME ~ here'
                 PROVE  /\ eventTyping => \E j \in DOMAIN eventLayer' : eventLayer'[j].t = "left"
                        /\ \A i \in DOMAIN eventLayer' :
                             eventLayer'[i].t = "typing" /\ eventLayer'[i].n = 1 =>
                               \E j \in DOMAIN eventLayer' : j > i /\ eventLayer'[j].t = "left"
      BY DEF EventTypes
    <3>1. CASE f.t = "left"
      <4>1. \A i \in DOMAIN eventLayer' : eventLayer'[i].t = "typing" => i < top
        BY <2>1, <3>1
      <4> QED BY <2>1, <2>2, <3>1, <4>1
    <3>2. CASE f.t # "left"
      <4>1. ~ here /\ f.t # "typing"
        <5>1. f.t \in Moves => f.t = "joined"
          BY <3>2 DEF Moves
        <5> QED BY <5>1
      <4>2. /\ eventTyping => \E j \in DOMAIN eventLayer : eventLayer[j].t = "left"
            /\ \A i \in DOMAIN eventLayer : eventLayer[i].t = "typing" /\ eventLayer[i].n = 1 =>
                 \E j \in DOMAIN eventLayer : j > i /\ eventLayer[j].t = "left"
        BY <1>1, <1>3, <4>1 DEF EventTypes
      <4>3. ASSUME NEW i \in DOMAIN eventLayer', eventLayer'[i].t = "typing", eventLayer'[i].n = 1
            PROVE  \E j \in DOMAIN eventLayer' : j > i /\ eventLayer'[j].t = "left"
        <5>1. i \in DOMAIN eventLayer /\ eventLayer'[i] = eventLayer[i]
          BY <2>1, <4>1, <4>3
        <5>2. PICK j \in DOMAIN eventLayer : j > i /\ eventLayer[j].t = "left"
          BY <4>2, <4>3, <5>1
        <5> QED BY <2>1, <5>2
      <4>4. eventTyping => \E j \in DOMAIN eventLayer' : eventLayer'[j].t = "left"
        BY <2>1, <4>2
      <4> QED BY <4>3, <4>4
    <3> QED BY <3>1, <3>2
  <2> QED BY <2>3, <2>4
<1>4. CASE ~ (eventSock = "open" /\ ~ EventRefused)
  BY <1>2, <1>4 DEF EventPresence, EventTypes
<1> QED BY <1>3, <1>4

\* Something other than a message is broadcast.
LEMMA EventTells ==
    ASSUME EventInv, NEW f \in EventFrame, f.t # "message", Event!Broadcast(f), EventCounts',
           sends' = sends, leaving' \in {leaving, "done"},
           UNCHANGED <<eventPage, posting, status, eventSock, eventRetry, disposed,
                       reconnected, rest, live, reconciled, eventPending, online, eventTyping,
                       eventInbox, eventWire, log, lost>>,
           eventMember' \in {eventMember, FALSE}, eventOpen' \in {eventOpen, FALSE},
           here' \in BOOLEAN, f.t \in Moves => (f.t = "joined") = here',
           f.t \notin Moves => here' = here,
           f.t = "typing" => here
    PROVE  EventInv'
<1>1. /\ EventPlace /\ EventLog /\ EventNet /\ EventCounts /\ EventSocket /\ EventOrder
      /\ EventDrafts /\ EventFilled /\ EventPresence /\ EventTypes
  BY DEF EventInv
<1> DEFINE top == Len(eventLayer) + 1
<1>2. CASE eventSock = "open" /\ ~ EventRefused
  <2>1. /\ eventLayer' = Append(eventLayer, f) /\ eventLayer' \in Seq(EventFrame)
        /\ \A i \in DOMAIN eventLayer :
             i \in DOMAIN eventLayer' /\ eventLayer'[i] = eventLayer[i]
        /\ top \in DOMAIN eventLayer' /\ eventLayer'[top] = f
        /\ \A i \in DOMAIN eventLayer' : i = top \/ i \in DOMAIN eventLayer
        /\ \A i \in DOMAIN eventLayer : i \in Nat /\ i < top
    BY <1>2, EventBroadcasts
  <2>2. top \in Nat /\ top = Len(eventLayer) + 1
    BY <1>1 DEF EventNet
  <2> HIDE DEF top
  <2>3. EventPlace' /\ EventLog' /\ EventNet'
    <3>1. EventPlace'
      BY <1>1 DEF EventPlace
    <3>2. EventLog'
      BY <1>1 DEF EventLog
    <3>3. EventNet'
      BY <1>1, <2>1 DEF EventNet
    <3> QED BY <3>1, <3>2, <3>3
  <2>4. (EventRefused' <=> EventRefused) /\ ~ EventRefused'
    BY <1>2 DEF EventRefused
  <2>5. EventSocket'
    BY <1>1, <1>2, <2>4 DEF EventSocket
  <2>6. EventOrder'
    <3> SUFFICES ASSUME NEW i \in DOMAIN eventLayer', eventLayer'[i].t = "message"
                 PROVE  /\ eventLayer'[i].n \in 1 .. Len(log)
                        /\ \A x \in live : x < eventLayer'[i].n
                        /\ \A j \in DOMAIN eventWire :
                             eventWire[j].t = "history" => eventWire[j].n < eventLayer'[i].n
                        /\ \A j \in DOMAIN eventLayer' : j > i /\ eventLayer'[j].t = "message"
                             => eventLayer'[i].n < eventLayer'[j].n
      BY <1>1 DEF EventOrder
    <3>1. i \in DOMAIN eventLayer /\ eventLayer'[i] = eventLayer[i]
      BY <2>1
    <3>2. \A j \in DOMAIN eventLayer' : eventLayer'[j].t = "message" =>
            j \in DOMAIN eventLayer /\ eventLayer'[j] = eventLayer[j]
      BY <2>1
    <3> QED BY <1>1, <3>1, <3>2 DEF EventOrder
  <2>7. EventDrafts'
    <3>1. f \notin Sent(log)
      BY DEF Sent
    <3>2. Cardinality(Marked(eventLayer', Sent(log))) = Cardinality(Marked(eventLayer, Sent(log))) + 0
      BY <1>1, <2>1, <3>1, MarkedAppend DEF EventNet
    <3>3. Cardinality(Marked(eventLayer, Sent(log))) \in Nat
      BY <1>1, MarkedFinite DEF EventNet
    <3>4. Waiting' = Waiting
      BY <3>2, <3>3 DEF Waiting, Air
    <3> QED BY <1>1, <3>4 DEF EventDrafts
  <2>8. EventFilled'
    <3> SUFFICES ASSUME status = "connected", reconnected, NEW x \in 1 .. Len(log)
                 PROVE  \/ x \in rest \cup live
                        \/ \E i \in DOMAIN eventLayer' : eventLayer'[i].t = "message" /\ eventLayer'[i].n = x
                        \/ \E j \in DOMAIN eventWire : eventWire[j].t = "history" /\ x <= eventWire[j].n
      BY DEF EventFilled
    <3>1. \/ x \in rest \cup live
          \/ \E i \in DOMAIN eventLayer : eventLayer[i].t = "message" /\ eventLayer[i].n = x
          \/ \E j \in DOMAIN eventWire : eventWire[j].t = "history" /\ x <= eventWire[j].n
      BY <1>1, <1>2 DEF EventFilled
    <3>2. (\E i \in DOMAIN eventLayer : eventLayer[i].t = "message" /\ eventLayer[i].n = x)
          => \E i \in DOMAIN eventLayer' : eventLayer'[i].t = "message" /\ eventLayer'[i].n = x
      BY <2>1
    <3> QED BY <3>1, <3>2
  <2>9. EventPresence' /\ EventTypes'
    BY EventNews
  <2> QED BY <2>3, <2>5, <2>6, <2>7, <2>8, <2>9 DEF EventInv
<1>3. CASE ~ (eventSock = "open" /\ ~ EventRefused)
  <2>1. eventLayer' = eventLayer
    BY <1>3, EventBroadcasts
  <2>2. EventPlace' /\ EventLog' /\ EventNet'
    <3>1. EventPlace'
      BY <1>1 DEF EventPlace
    <3>2. EventLog'
      BY <1>1 DEF EventLog
    <3>3. EventNet'
      BY <1>1, <2>1 DEF EventNet
    <3> QED BY <3>1, <3>2, <3>3
  <2>3. EventRefused' <=> EventRefused
    BY DEF EventRefused
  <2>4. EventSocket'
    <3>1. eventMember' /\ eventOpen' => eventMember /\ eventOpen
      OBVIOUS
    <3> QED BY <1>1, <2>1, <2>3, <3>1 DEF EventSocket
  <2>5. EventOrder'
    BY <1>1, <2>1 DEF EventOrder
  <2>6. EventDrafts'
    <3>1. Waiting' = Waiting
      BY <2>1 DEF Waiting
    <3> QED BY <1>1, <3>1 DEF EventDrafts
  <2>7. EventFilled' /\ EventPresence' /\ EventTypes'
    <3>1. status = "connected" => EventRefused
      BY <1>1, <1>3 DEF EventSocket
    <3> QED BY <2>3, <3>1, EventNews DEF EventFilled
  <2> QED BY <2>2, <2>4, <2>5, <2>6, <2>7 DEF EventInv
<1> QED BY <1>2, <1>3

LEMMA EventTelling ==
    ASSUME EventInv,
           Event!ServeLeave \/ Event!OtherMoves \/ Event!OtherTypes \/ Event!EventEnds
    PROVE  EventInv'
<1>1. EventLog /\ EventCounts
  BY DEF EventInv
<1>2. /\ UNCHANGED <<eventPage, posting, status, eventSock, eventRetry, disposed,
                     reconnected, rest, live, reconciled, eventPending, online, eventTyping,
                     eventInbox, eventWire, log, lost, sends, eventDrops>>
      /\ leaving' \in {leaving, "done"}
      /\ eventMoves' = eventMoves \/ (eventMoves < MaxEventMoves /\ eventMoves' = eventMoves + 1)
      /\ eventMember' \in {eventMember, FALSE} /\ eventOpen' \in {eventOpen, FALSE}
  BY DEF Event!ServeLeave, Event!OtherMoves, Event!OtherTypes, Event!EventEnds, Event!socket,
     Event!screen, Event!server, Event!counts
<1>3. EventCounts'
  BY <1>1, <1>2, PagesAssumption DEF EventCounts
<1>4. CASE Event!ServeLeave \/ Event!EventEnds
  <2> DEFINE f == [t |-> "closed", n |-> 0]
  <2>1. Event!Broadcast(f) /\ here' = here
    BY <1>4 DEF Event!ServeLeave, Event!EventEnds, Event!Frame
  <2>2. f \in EventFrame /\ f.t = "closed"
    BY DEF EventFrame
  <2>3. "closed" \notin Moves
    BY DEF Moves
  <2>4. here \in BOOLEAN
    BY <1>1 DEF EventLog
  <2> HIDE DEF f
  <2> QED BY <1>2, <1>3, <2>1, <2>2, <2>3, <2>4, EventTells
<1>5. CASE Event!OtherMoves
  <2> DEFINE f == [t |-> IF here THEN "left" ELSE "joined", n |-> 0]
  <2>1. Event!Broadcast(f) /\ here' = ~ here
    BY <1>5 DEF Event!OtherMoves, Event!Frame
  <2>2. f \in EventFrame /\ f.t = IF here THEN "left" ELSE "joined"
    BY DEF EventFrame
  <2>3. here' \in BOOLEAN
    <3>1. (~ here) \in BOOLEAN
      BY Zenon
    <3> QED BY <2>1, <3>1
  <2>4. f.t \in Moves /\ f.t \notin {"message", "typing"}
    BY <2>2 DEF Moves
  <2>5. here \in BOOLEAN
    BY <1>1 DEF EventLog
  <2>6. (f.t = "joined") = here'
    BY <2>1, <2>2, <2>5
  <2> HIDE DEF f
  <2> QED BY <1>2, <1>3, <2>1, <2>2, <2>3, <2>4, <2>6, EventTells
<1>6. CASE Event!OtherTypes
  <2>1. PICK k \in {0, 1} : Event!Broadcast([t |-> "typing", n |-> k])
    BY <1>6 DEF Event!OtherTypes, Event!Frame
  <2> DEFINE f == [t |-> "typing", n |-> k]
  <2>2. f \in EventFrame /\ f.t = "typing" /\ "typing" \notin Moves
    BY DEF EventFrame, Moves
  <2>3. here' = here /\ here /\ here \in BOOLEAN
    BY <1>1, <1>6 DEF Event!OtherTypes, Event!server, EventLog
  <2>4. Event!Broadcast(f)
    BY <2>1
  <2> HIDE DEF f
  <2> QED BY <1>2, <1>3, <2>2, <2>3, <2>4, EventTells
<1> QED BY <1>4, <1>5, <1>6

\* A message is saved and broadcast.
LEMMA EventSays ==
    ASSUME EventInv, NEW way \in Ways, Event!Save(way),
           Event!Broadcast(Event!Frame("message", Len(log) + 1)),
           eventInbox' = IF way = "socket" THEN eventInbox - 1 ELSE eventInbox,
           way = "socket" => eventInbox > 0 /\ eventMember /\ eventOpen,
           posting' \in BOOLEAN,
           UNCHANGED <<eventPage, leaving, status, eventSock, eventRetry, disposed, reconnected,
                       rest, live, reconciled, eventPending, online, eventTyping, eventWire,
                       eventMember, eventOpen, here, lost, sends, eventDrops, eventMoves>>
    PROVE  EventInv'
<1> DEFINE f == [t |-> "message", n |-> Len(log) + 1]
           top == Len(eventLayer) + 1
<1>1. /\ EventPlace /\ EventLog /\ EventNet /\ EventCounts /\ EventSocket /\ EventOrder
      /\ EventDrafts /\ EventFilled /\ EventPresence /\ EventTypes
  BY DEF EventInv
<1>2. /\ log' = Append(log, way) /\ Len(log) < MaxMessages /\ Len(log) \in Nat
  BY <1>1 DEF Event!Save, EventLog
<1>3. /\ log' \in Seq(Ways) /\ Len(log') = Len(log) + 1 /\ log'[Len(log) + 1] = way
      /\ \A n \in 1 .. Len(log) : log'[n] = log[n]
  BY <1>1, <1>2, AppendProperties DEF EventLog
<1>4. f \in EventFrame /\ f.t = "message" /\ f.n = Len(log) + 1 /\ Event!Broadcast(f)
  BY <1>2 DEF EventFrame, Event!Frame
<1> HIDE DEF f
<1>5. EventPlace' /\ EventCounts' /\ EventLog'
  <2>1. EventPlace' /\ EventCounts'
    BY <1>1 DEF EventPlace, EventCounts
  <2>2. Len(log') <= MaxMessages /\ live \subseteq 1 .. Len(log')
    BY <1>1, <1>2, <1>3, PagesAssumption DEF EventLog
  <2> QED BY <1>1, <1>3, <2>1, <2>2 DEF EventLog
<1>6. EventNet'
  <2>1. eventLayer' \in Seq(EventFrame)
    BY <1>4, EventBroadcasts
  <2>2. eventInbox' \in Nat
    BY <1>1 DEF EventNet
  <2> QED BY <1>1, <2>1, <2>2 DEF EventNet
<1>7. EventRefused' <=> EventRefused
  BY DEF EventRefused
<1>8. eventInbox > 0 => eventSock = "open"
  BY <1>1 DEF EventSocket
<1>9. EventPresence' /\ EventTypes'
  <2>1. f.t \notin Moves /\ f.t # "typing"
    BY <1>4 DEF Moves
  <2>2. here' \in BOOLEAN
    BY <1>1 DEF EventLog
  <2> QED BY <1>4, <2>1, <2>2, EventNews
<1>10. Marked(eventLayer, Sent(log')) = Marked(eventLayer, Sent(log))
  <2>1. \A i \in DOMAIN eventLayer : eventLayer[i] \in EventFrame
    BY <1>1 DEF EventNet
  <2>2. \A i \in DOMAIN eventLayer : eventLayer[i].t = "message" =>
          log'[eventLayer[i].n] = log[eventLayer[i].n]
    BY <1>1, <1>3 DEF EventOrder
  <2> QED BY <2>1, <2>2 DEF Marked, Sent
<1>11. CASE eventSock = "open" /\ ~ EventRefused
  <2>1. /\ eventLayer' = Append(eventLayer, f)
        /\ \A i \in DOMAIN eventLayer :
             i \in DOMAIN eventLayer' /\ eventLayer'[i] = eventLayer[i]
        /\ top \in DOMAIN eventLayer' /\ eventLayer'[top] = f
        /\ \A i \in DOMAIN eventLayer' : i = top \/ i \in DOMAIN eventLayer
        /\ \A i \in DOMAIN eventLayer : i \in Nat /\ i < top
    BY <1>4, <1>11, EventBroadcasts
  <2>2. top \in Nat
    BY <1>1 DEF EventNet
  <2> HIDE DEF top
  <2>3. EventSocket'
    BY <1>1, <1>7, <1>11 DEF EventSocket
  <2>4. EventOrder'
    <3>1. \A i \in DOMAIN eventWire : eventWire[i].t = "history" =>
            eventWire[i].n <= Len(log) /\ eventWire[i].n \in Nat
      <4>1. \A i \in DOMAIN eventWire : eventWire[i] \in EventAnswer
        BY <1>1 DEF EventNet
      <4>2. \A e \in EventAnswer : e.n \in Nat
        BY DEF EventAnswer
      <4> QED BY <1>1, <4>1, <4>2 DEF EventOrder
    <3>2. \A x \in live : x \in Nat /\ x <= Len(log)
      BY <1>1, <1>2 DEF EventLog
    <3> SUFFICES ASSUME NEW i \in DOMAIN eventLayer', eventLayer'[i].t = "message"
                 PROVE  /\ eventLayer'[i].n \in 1 .. Len(log')
                        /\ \A x \in live : x < eventLayer'[i].n
                        /\ \A j \in DOMAIN eventWire :
                             eventWire[j].t = "history" => eventWire[j].n < eventLayer'[i].n
                        /\ \A j \in DOMAIN eventLayer' : j > i /\ eventLayer'[j].t = "message"
                             => eventLayer'[i].n < eventLayer'[j].n
      BY <1>2, <1>3, <3>1 DEF EventOrder
    <3>3. CASE i = top
      <4>1. eventLayer'[i].n = Len(log) + 1
        BY <1>4, <2>1, <3>3
      <4>2. \A j \in DOMAIN eventLayer' : ~ (j > i)
        BY <2>1, <2>2, <3>3
      <4> QED BY <1>2, <1>3, <3>1, <3>2, <4>1, <4>2
    <3>4. CASE i \in DOMAIN eventLayer
      <4>1. /\ eventLayer'[i] = eventLayer[i] /\ eventLayer[i].n \in 1 .. Len(log)
            /\ \A x \in live : x < eventLayer[i].n
            /\ \A j \in DOMAIN eventWire :
                 eventWire[j].t = "history" => eventWire[j].n < eventLayer[i].n
            /\ \A j \in DOMAIN eventLayer : j > i /\ eventLayer[j].t = "message"
                 => eventLayer[i].n < eventLayer[j].n
        BY <1>1, <2>1, <3>4 DEF EventOrder
      <4>2. \A j \in DOMAIN eventLayer' : j > i /\ eventLayer'[j].t = "message"
              => eventLayer[i].n < eventLayer'[j].n
        <5> SUFFICES ASSUME NEW j \in DOMAIN eventLayer', j > i, eventLayer'[j].t = "message"
                     PROVE  eventLayer[i].n < eventLayer'[j].n
          OBVIOUS
        <5>1. CASE j = top
          BY <1>2, <1>4, <2>1, <4>1, <5>1
        <5>2. CASE j \in DOMAIN eventLayer
          BY <2>1, <4>1, <5>2
        <5> QED BY <2>1, <5>1, <5>2
      <4>3. eventLayer[i].n \in 1 .. Len(log')
        BY <1>2, <1>3, <4>1
      <4> QED BY <4>1, <4>2, <4>3
    <3> QED BY <2>1, <3>3, <3>4
  <2>5. EventDrafts'
    <3> DEFINE a == Cardinality(Marked(eventLayer, Sent(log)))
               b == Cardinality(Marked(eventLayer', Sent(log')))
               c == Cardinality(Marked(eventWire, Refusals))
    <3>1. f \in Sent(log') <=> way = "socket"
      BY <1>3, <1>4 DEF Sent
    <3>2. b = a + (IF f \in Sent(log') THEN 1 ELSE 0)
      <4>1. Cardinality(Marked(Append(eventLayer, f), Sent(log'))) =
              Cardinality(Marked(eventLayer, Sent(log'))) + (IF f \in Sent(log') THEN 1 ELSE 0)
        BY <1>1, <1>4, MarkedAppend DEF EventNet
      <4> QED BY <1>10, <2>1, <4>1
    <3>3. a \in Nat /\ c \in Nat /\ eventInbox \in Nat
      BY <1>1, EventCounting DEF EventNet
    <3>4. Waiting = eventInbox + c + a /\ Waiting' = eventInbox' + c + b
      BY DEF Waiting, Air
    <3> HIDE DEF a, b, c
    <3>5. Waiting' = Waiting
      BY <3>1, <3>2, <3>3, <3>4
    <3> QED BY <1>1, <3>5 DEF EventDrafts
  <2>6. EventFilled'
    <3> SUFFICES ASSUME status = "connected", reconnected, NEW x \in 1 .. Len(log')
                 PROVE  \/ x \in rest \cup live
                        \/ \E i \in DOMAIN eventLayer' : eventLayer'[i].t = "message" /\ eventLayer'[i].n = x
                        \/ \E j \in DOMAIN eventWire : eventWire[j].t = "history" /\ x <= eventWire[j].n
      BY DEF EventFilled
    <3>1. CASE x = Len(log) + 1
      BY <1>4, <2>1, <3>1
    <3>2. CASE x \in 1 .. Len(log)
      <4>1. \/ x \in rest \cup live
            \/ \E i \in DOMAIN eventLayer : eventLayer[i].t = "message" /\ eventLayer[i].n = x
            \/ \E j \in DOMAIN eventWire : eventWire[j].t = "history" /\ x <= eventWire[j].n
        BY <1>1, <1>11, <3>2 DEF EventFilled
      <4>2. (\E i \in DOMAIN eventLayer : eventLayer[i].t = "message" /\ eventLayer[i].n = x)
            => \E i \in DOMAIN eventLayer' : eventLayer'[i].t = "message" /\ eventLayer'[i].n = x
        BY <2>1
      <4> QED BY <4>1, <4>2
    <3> QED BY <1>2, <1>3, <3>1, <3>2
  <2> QED BY <1>5, <1>6, <1>9, <2>3, <2>4, <2>5, <2>6 DEF EventInv
<1>12. CASE ~ (eventSock = "open" /\ ~ EventRefused)
  <2>1. eventLayer' = eventLayer
    BY <1>4, <1>12, EventBroadcasts
  <2>2. way # "socket" /\ eventInbox' = eventInbox
    BY <1>1, <1>8, <1>12 DEF EventSocket
  <2>3. EventSocket'
    BY <1>1, <1>7, <2>1, <2>2 DEF EventSocket
  <2>4. EventOrder'
    <3>1. \A i \in DOMAIN eventWire : eventWire[i].t = "history" =>
            eventWire[i].n <= Len(log) /\ eventWire[i].n \in Nat
      <4>1. \A i \in DOMAIN eventWire : eventWire[i] \in EventAnswer
        BY <1>1 DEF EventNet
      <4>2. \A e \in EventAnswer : e.n \in Nat
        BY DEF EventAnswer
      <4> QED BY <1>1, <4>1, <4>2 DEF EventOrder
    <3>2. 1 .. Len(log) \subseteq 1 .. Len(log')
      BY <1>2, <1>3
    <3>3. \A i \in DOMAIN eventWire : eventWire[i].t = "history" => eventWire[i].n <= Len(log')
      BY <1>2, <1>3, <3>1
    <3> QED BY <1>1, <2>1, <3>2, <3>3 DEF EventOrder
  <2>5. EventDrafts'
    <3>1. Waiting' = Waiting
      BY <1>10, <2>1, <2>2 DEF Waiting, Air
    <3> QED BY <1>1, <3>1 DEF EventDrafts
  <2>6. EventFilled'
    <3>1. status = "connected" => EventRefused
      BY <1>1, <1>12 DEF EventSocket
    <3> QED BY <1>7, <3>1 DEF EventFilled
  <2> QED BY <1>5, <1>6, <1>9, <2>3, <2>4, <2>5, <2>6 DEF EventInv
<1> QED BY <1>11, <1>12

\* A draft goes out, and what the server makes of it.
LEMMA EventSends ==
    ASSUME EventInv,
           Event!Submit \/ Event!ServeSend \/ Event!ServePost \/ Event!OtherSpeaks
    PROVE  EventInv'
<1>1. /\ EventPlace /\ EventLog /\ EventNet /\ EventCounts /\ EventSocket /\ EventOrder
      /\ EventDrafts /\ EventFilled /\ EventPresence /\ EventTypes
  BY DEF EventInv
<1>2. CASE Event!Submit
  <2>1. /\ UNCHANGED <<eventPage, leaving, status, eventSock, eventRetry, disposed, reconnected,
                       rest, live, reconciled, online, eventTyping, eventWire, eventLayer, log,
                       eventMember, eventOpen, here, lost, eventDrops, eventMoves>>
        /\ sends < MaxSends /\ sends' = sends + 1
    BY <1>2 DEF Event!Submit, Event!socket, Event!server
  <2>2. EventCounts'
    BY <1>1, <2>1, PagesAssumption DEF EventCounts
  <2>3. CASE eventSock = "open"
    <3>1. /\ eventInbox' = eventInbox + 1 /\ eventPending' = eventPending + 1
          /\ posting' = posting
      BY <1>2, <2>3 DEF Event!Submit
    <3>2. EventPlace' /\ EventLog' /\ EventNet'
      <4>1. EventPlace'
        BY <1>1, <2>1, <3>1 DEF EventPlace
      <4>2. EventLog'
        BY <1>1, <2>1 DEF EventLog
      <4>3. EventNet'
        BY <1>1, <2>1, <3>1 DEF EventNet
      <4> QED BY <4>1, <4>2, <4>3
    <3>3. EventRefused' <=> EventRefused
      BY <2>1 DEF EventRefused
    <3>4. EventSocket'
      BY <1>1, <2>1, <2>3, <3>3 DEF EventSocket
    <3>5. EventOrder'
      BY <1>1, <2>1 DEF EventOrder
    <3>6. EventDrafts'
      <4>1. Waiting' = Waiting + 1
        <5>1. /\ Cardinality(Marked(eventWire, Refusals)) \in Nat
              /\ Cardinality(Marked(eventLayer, Sent(log))) \in Nat /\ eventInbox \in Nat
          BY <1>1, EventCounting DEF EventNet
        <5> QED BY <2>1, <3>1, <5>1 DEF Waiting, Air
      <4>2. Waiting \in Nat
        BY <1>1, EventCounting DEF EventNet, Waiting
      <4> QED BY <1>1, <2>1, <3>1, <4>1, <4>2 DEF EventDrafts, EventNet, EventCounts
    <3>7. EventFilled' /\ EventPresence' /\ EventTypes'
      <4>1. EventFilled'
        BY <1>1, <2>1, <3>3 DEF EventFilled
      <4>2. EventPresence' /\ EventTypes'
        BY <1>1, <2>1, <3>3 DEF EventPresence, EventTypes
      <4> QED BY <4>1, <4>2
    <3> QED BY <2>2, <3>2, <3>4, <3>5, <3>6, <3>7 DEF EventInv
  <2>4. CASE eventSock # "open"
    <3>1. UNCHANGED <<eventInbox, eventPending>> /\ posting' = TRUE
      BY <1>2, <2>4 DEF Event!Submit
    <3>2. EventPlace' /\ eventMember' \in BOOLEAN
      BY <1>1, <2>1, <3>1 DEF EventPlace, EventLog
    <3> QED BY <2>1, <2>2, <3>1, <3>2, EventStill
  <2> QED BY <2>3, <2>4
<1>3. CASE Event!ServeSend
  <2>1. /\ UNCHANGED <<eventPage, leaving, posting, status, eventSock, eventRetry, disposed,
                       reconnected, rest, live, reconciled, eventPending, online, eventTyping,
                       eventMember, eventOpen, here, lost, sends, eventDrops, eventMoves>>
        /\ eventInbox > 0 /\ eventInbox' = eventInbox - 1
    BY <1>3 DEF Event!ServeSend, Event!socket, Event!screen, Event!counts
  <2>2. posting' \in BOOLEAN
    BY <1>1, <2>1 DEF EventPlace
  <2>3. CASE /\ eventMember /\ eventOpen /\ Event!Save("socket") /\ eventWire' = eventWire
             /\ Event!Broadcast(Event!Frame("message", Len(log) + 1))
    <3>1. "socket" \in Ways
      BY DEF Ways
    <3> QED BY <2>1, <2>2, <2>3, <3>1, EventSays
  <2>4. CASE /\ eventWire' = Append(eventWire, Event!Frame("error", 0))
             /\ UNCHANGED <<log, eventLayer>>
    <3> DEFINE f == [t |-> "error", n |-> 0]
               top == Len(eventWire) + 1
    <3>1. f \in EventAnswer /\ f.t = "error" /\ eventWire' = Append(eventWire, f)
      BY <2>4 DEF EventAnswer, Event!Frame
    <3> HIDE DEF f
    <3>2. /\ eventWire' \in Seq(EventAnswer)
          /\ \A i \in DOMAIN eventWire : i \in DOMAIN eventWire' /\ eventWire'[i] = eventWire[i]
          /\ \A i \in DOMAIN eventWire' : i \in DOMAIN eventWire \/ eventWire'[i] = f
      <4>1. eventWire \in Seq(EventAnswer)
        BY <1>1 DEF EventNet
      <4>2. /\ Append(eventWire, f) \in Seq(EventAnswer)
            /\ Len(Append(eventWire, f)) = Len(eventWire) + 1
            /\ \A i \in 1 .. Len(eventWire) : Append(eventWire, f)[i] = eventWire[i]
            /\ Append(eventWire, f)[Len(eventWire) + 1] = f
        BY <3>1, <4>1, AppendProperties
      <4>3. /\ DOMAIN eventWire = 1 .. Len(eventWire) /\ Len(eventWire) \in Nat
            /\ DOMAIN eventWire' = 1 .. Len(eventWire) + 1
        BY <3>1, <4>1, <4>2, LenProperties
      <4> QED BY <3>1, <4>2, <4>3
    <3>3. EventPlace' /\ EventCounts' /\ EventLog' /\ EventNet'
      <4>1. EventPlace' /\ EventCounts'
        BY <1>1, <2>1 DEF EventPlace, EventCounts
      <4>2. EventLog'
        BY <1>1, <2>1, <2>4 DEF EventLog
      <4>3. EventNet'
        BY <1>1, <2>1, <2>4, <3>2 DEF EventNet
      <4> QED BY <4>1, <4>2, <4>3
    <3>4. EventRefused' <=> EventRefused
      BY <3>1, <3>2 DEF EventRefused
    <3>5. EventSocket'
      <4>1. eventSock = "open"
        BY <1>1, <2>1 DEF EventSocket
      <4> QED BY <1>1, <2>1, <3>4, <4>1 DEF EventSocket
    <3>6. EventOrder'
      <4>1. \A i \in DOMAIN eventWire' : eventWire'[i].t = "history" =>
              i \in DOMAIN eventWire /\ eventWire'[i] = eventWire[i]
        BY <3>1, <3>2
      <4> QED BY <1>1, <2>1, <2>4, <4>1 DEF EventOrder
    <3>7. EventDrafts'
      <4>1. f \in Refusals
        BY <3>1 DEF Refusals
      <4>2. Cardinality(Marked(eventWire', Refusals)) = Cardinality(Marked(eventWire, Refusals)) + 1
        BY <1>1, <3>1, <4>1, MarkedAppend DEF EventNet
      <4>3. /\ Cardinality(Marked(eventWire, Refusals)) \in Nat
            /\ Cardinality(Marked(eventLayer, Sent(log))) \in Nat /\ eventInbox \in Nat
        BY <1>1, EventCounting DEF EventNet
      <4>4. Waiting' = Waiting
        BY <2>1, <2>4, <4>2, <4>3 DEF Waiting, Air
      <4> QED BY <1>1, <2>1, <4>4 DEF EventDrafts
    <3>8. EventFilled'
      <4>1. \A x \in Nat :
              (\E j \in DOMAIN eventWire : eventWire[j].t = "history" /\ x <= eventWire[j].n)
              => \E j \in DOMAIN eventWire' : eventWire'[j].t = "history" /\ x <= eventWire'[j].n
        BY <3>2
      <4> QED BY <1>1, <2>1, <2>4, <3>4, <4>1 DEF EventFilled
    <3>9. EventPresence'
      <4>1. \A j \in DOMAIN eventWire' : eventWire'[j].t = "snapshot" =>
              j \in DOMAIN eventWire /\ eventWire'[j] = eventWire[j]
        BY <3>1, <3>2
      <4>2. (\A j \in DOMAIN eventWire' : eventWire'[j].t # "snapshot") =>
              \A j \in DOMAIN eventWire : eventWire[j].t # "snapshot"
        BY <3>2
      <4> QED BY <1>1, <2>1, <2>4, <3>4, <4>1, <4>2 DEF EventPresence
    <3>10. EventTypes'
      BY <1>1, <2>1, <2>4, <3>4 DEF EventTypes
    <3> QED BY <3>3, <3>5, <3>6, <3>7, <3>8, <3>9, <3>10 DEF EventInv
  <2> QED BY <1>3, <2>3, <2>4 DEF Event!ServeSend
<1>4. CASE Event!ServePost \/ Event!OtherSpeaks
  <2>1. /\ UNCHANGED <<eventPage, leaving, status, eventSock, eventRetry, disposed,
                       reconnected, rest, live, reconciled, eventPending, online, eventTyping,
                       eventInbox, eventWire, eventMember, eventOpen, here, lost, sends,
                       eventDrops, eventMoves>>
        /\ posting' \in {posting, FALSE}
    BY <1>4 DEF Event!ServePost, Event!OtherSpeaks, Event!socket, Event!screen, Event!counts
  <2>2. posting' \in BOOLEAN
    BY <1>1, <2>1 DEF EventPlace
  <2>3. CASE \E way \in {"rest", "other"} :
               Event!Save(way) /\ Event!Broadcast(Event!Frame("message", Len(log) + 1))
    <3>1. PICK way \in {"rest", "other"} :
               Event!Save(way) /\ Event!Broadcast(Event!Frame("message", Len(log) + 1))
      BY <2>3
    <3>2. way \in Ways /\ way # "socket"
      BY DEF Ways
    <3> QED BY <2>1, <2>2, <3>1, <3>2, EventSays
  <2>4. CASE UNCHANGED <<log, eventLayer>>
    <3>1. EventPlace' /\ EventCounts' /\ eventMember' \in BOOLEAN
      BY <1>1, <2>1, <2>2 DEF EventPlace, EventCounts, EventLog
    <3> QED BY <2>1, <2>4, <3>1, EventStill
  <2> QED BY <1>4, <2>3, <2>4 DEF Event!ServePost, Event!OtherSpeaks
<1> QED BY <1>2, <1>3, <1>4

\* No draft stays for an answer that came, an outage leaves no gap, and who is shown is
\* there.
LEMMA EventStaysRight == Spec => [](focus = "event" => Event!TypeOK /\ Event!EventRoomSafe)
<1>1. Event!Init => EventInv
  BY EventBegin
<1>2. EventInv /\ [Event!Next]_Event!vars => EventInv'
  <2>1. ASSUME EventInv, UNCHANGED Event!vars PROVE EventInv'
    <3>1. /\ EventPlace /\ EventCounts /\ EventLog
      BY <2>1 DEF EventInv
    <3>2. /\ UNCHANGED <<eventPage, leaving, posting, status, eventSock, eventRetry, disposed,
                         reconnected, rest, live, reconciled, eventPending, online, eventTyping,
                         eventInbox, eventWire, eventLayer, log, eventMember, eventOpen, here,
                         lost, sends, eventDrops, eventMoves>>
      BY <2>1 DEF Event!vars, Event!socket, Event!screen, Event!net, Event!server, Event!counts
    <3>3. EventPlace' /\ EventCounts' /\ eventMember' \in BOOLEAN
      BY <3>1, <3>2 DEF EventPlace, EventCounts, EventLog
    <3> QED BY <2>1, <3>2, <3>3, EventStill
  <2> QED BY <2>1, EventQuietSteps, EventConnecting, EventAccepts, EventClosing, EventLeaves,
     EventReading, EventHearing, EventTelling, EventSends DEF Event!Next, Event!Progress
<1>3. EventInv => Event!TypeOK /\ Event!EventRoomSafe
  <2> SUFFICES ASSUME EventInv PROVE Event!TypeOK /\ Event!EventRoomSafe
    OBVIOUS
  <2>1. /\ EventPlace /\ EventLog /\ EventNet /\ EventCounts /\ EventSocket /\ EventOrder
        /\ EventDrafts /\ EventFilled /\ EventPresence /\ EventTypes
    BY DEF EventInv
  <2>2. Event!InAir = Waiting /\ Waiting \in Nat
    BY <2>1, EventInAir, EventCounting DEF EventNet, Waiting
  <2>3. Event!TypeOK
    <3>1. /\ eventPending \in 0 .. MaxSends /\ lost \in 0 .. MaxSends
      BY <2>1, <2>2, PagesAssumption DEF EventDrafts, EventCounts, EventNet
    <3>2. eventInbox \in 0 .. MaxSends
      <4>1. eventInbox <= Waiting
        BY <2>1, EventCounting DEF EventNet, Waiting, Air
      <4> QED BY <2>1, <2>2, <4>1, PagesAssumption DEF EventDrafts, EventCounts, EventNet
    <3>3. live \subseteq Event!Id /\ rest \subseteq Event!Id
      <4>1. live \subseteq 1 .. MaxMessages
        BY <2>1, PagesAssumption DEF EventLog
      <4> QED BY <2>1, <4>1 DEF EventLog, Event!Id
    <3>4. /\ eventWire \in Seq([t : {"snapshot", "history", "error", "denied"}, n : Nat])
          /\ eventLayer \in Seq([t : {"message", "joined", "left", "typing", "closed"}, n : Nat])
          /\ log \in Seq({"socket", "rest", "other"})
      BY <2>1 DEF EventNet, EventLog, EventAnswer, EventFrame, Ways
    <3> QED BY <2>1, <3>1, <3>2, <3>3, <3>4 DEF Event!TypeOK, EventPlace, EventLog, EventNet,
       EventCounts
  <2>4. Event!GhostsAreLost
    BY <2>1, <2>2 DEF Event!GhostsAreLost, EventDrafts
  <2>5. Event!OutageFilled
    <3> SUFFICES ASSUME status = "connected", reconnected, eventWire = <<>>, NEW x \in DOMAIN log
                 PROVE  \/ x \in rest \cup live
                        \/ \E i \in DOMAIN eventLayer : eventLayer[i].t = "message" /\ eventLayer[i].n = x
      BY DEF Event!OutageFilled, Event!Shown
    <3>1. x \in 1 .. Len(log)
      BY <2>1 DEF EventLog
    <3>2. ~ EventRefused
      BY DEF EventRefused
    <3> QED BY <2>1, <3>1, <3>2 DEF EventFilled
  <2>6. Event!PresenceTrue
    <3> SUFFICES ASSUME eventSock = "open", eventWire = <<>>, eventLayer = <<>>
                 PROVE  online = here /\ (eventTyping => here)
      BY DEF Event!PresenceTrue
    <3>1. ~ EventRefused
      BY DEF EventRefused
    <3> QED BY <2>1, <3>1 DEF EventPresence, EventTypes
  <2> QED BY <2>3, <2>4, <2>5, <2>6 DEF Event!EventRoomSafe
<1> QED BY <1>1, <1>2, <1>3, EventAlone, PTL DEF Event!Spec

-----------------------------------------------------------------------------
(* The page of an event (EventPage).                                        *)

HostCall == [pc : {"sent", "ok", "already", "refused", "lost"}, text : 0 .. 1]

HostServer == hostEvent \in Host!Event /\ hostMember \in BOOLEAN
HostQueries ==
    /\ hostData \in Host!Event \cup {Host!None}
    /\ hostDataFetch \in Host!Event \cup {Host!None, Host!Asked, Host!Lost}
    /\ failed \in BOOLEAN
    /\ probe \in {"none", "pending", "joined", "notJoined", "failed"}
    /\ probeFetch \in {"none", "asked", "joined", "notJoined", "failed"}
    /\ kept \in BOOLEAN /\ stale \subseteq {"data", "probe"}
    /\ hostOvertaken \in BOOLEAN /\ unaware \in BOOLEAN
HostScreen ==
    /\ host \in {"unknown", "yes", "no"} /\ hostPage \in {"list", "detail", "chat"}
    /\ hostDialog \in {"none", "identity", "edit", "cancel"} /\ form \in 0 .. 1
    /\ asked \in BOOLEAN
HostCalling == hostCalls \in [Host!Kinds -> HostCall \cup {Host!Idle}]
HostCounts ==
    /\ hostTaps \in 0 .. MaxHostTaps /\ faults \in 0 .. MaxFaults
    /\ hostMoves \in 0 .. MaxHostMoves
HostTypes == HostServer /\ HostQueries /\ HostScreen /\ HostCalling /\ HostCounts

\* The messages are asked for where they are needed, and what was once asked for is known
\* or on its way.
HostAsks ==
    /\ probe = "pending" => probeFetch # "none"
    /\ probeFetch # "none" => probe # "none"
    /\ kept => probe # "none"
    /\ hostPage = "detail" /\ hostData.status = "active" => probe # "none"
    /\ hostPage = "detail" => stale = {}

\* Before the details there is nothing, and an event that they say is over is over.
HostBefore ==
    /\ host = "unknown" => /\ hostPage = "list" /\ hostData = Host!None
                           /\ hostDataFetch = Host!None
    /\ hostData = Host!None =>
         probe = "none" /\ hostDialog = "none" /\ \A k \in Host!Kinds : hostCalls[k] = Host!Idle
    /\ hostData.status \in {"ended", "cancelled"} => hostEvent.status # "active"
    /\ hostDataFetch.status \in {"ended", "cancelled"} => hostEvent.status # "active"

\* The host is in the chat, or on the way there, by choice; the form is on this page.
HostChoice ==
    /\ hostCalls["join"] # Host!Idle => asked
    /\ Host!HostKeepsControls
    /\ hostDialog = "edit" => hostPage = "detail" /\ host = "yes"

\* The membership that is shown, or on its way, is the one the server has: while no call
\* has changed it unheard and nobody else has.
HostHeard ==
    /\ hostCalls["join"].pc \notin {"ok", "lost"} /\ hostCalls["leave"].pc \notin {"ok", "lost"}
    /\ ~ unaware /\ hostEvent.status = "active"
HostKnows == HostHeard =>
    /\ probeFetch \in {"joined", "notJoined"} => (probeFetch = "joined") = hostMember
    /\ /\ probeFetch = "none" /\ hostData.status = "active" /\ "probe" \notin stale
       /\ probe \in {"joined", "notJoined"}
       => (probe = "joined") = hostMember

\* So are the details, while no edit has changed them unheard or overtaken them.
HostSettled ==
    /\ hostCalls["edit"].pc \notin {"ok", "lost"} /\ ~ hostOvertaken
    /\ hostEvent.status = "active" /\ hostDialog # "edit"
HostReads == HostSettled =>
    /\ hostDataFetch \in Host!Event => hostDataFetch.text = hostEvent.text
    /\ hostDataFetch = Host!None /\ hostData # Host!None /\ ~ failed /\ "data" \notin stale
       => hostData.text = hostEvent.text

HostInv == HostTypes /\ HostAsks /\ HostBefore /\ HostChoice /\ HostKnows /\ HostReads

\* The values of the queries and of the calls are told apart.
LEMMA HostDiffers ==
    /\ Host!None \notin Host!Event /\ Host!Asked \notin Host!Event /\ Host!Lost \notin Host!Event
    /\ Host!None # Host!Asked /\ Host!None # Host!Lost /\ Host!Asked # Host!Lost
    /\ Host!None.status = "none" /\ Host!Asked.status = "asked" /\ Host!Lost.status = "lost"
    /\ \A e \in Host!Event : e.status \in {"active", "ended", "cancelled"} /\ e.text \in 0 .. 1
    /\ Host!Idle.pc = "idle"
    /\ \A c \in HostCall : c.pc \in {"sent", "ok", "already", "refused", "lost"} /\ c.text \in 0 .. 1
    /\ Host!Kinds = {"join", "leave", "edit", "cancel"}
<1>1. Host!None.status = "none" /\ Host!Asked.status = "asked" /\ Host!Lost.status = "lost"
  BY DEF Host!None, Host!Asked, Host!Lost
<1>2. \A e \in Host!Event : e.status \in {"active", "ended", "cancelled"} /\ e.text \in 0 .. 1
  BY DEF Host!Event
<1>3. \A c \in HostCall : c.pc \in {"sent", "ok", "already", "refused", "lost"} /\ c.text \in 0 .. 1
  BY DEF HostCall
<1> QED BY <1>1, <1>2, <1>3 DEF Host!Idle, Host!Kinds

LEMMA HostBegin == ASSUME Host!Init PROVE HostInv
<1>1. /\ hostMember = FALSE /\ host = "unknown" /\ hostPage = "list" /\ hostData = Host!None
      /\ hostDataFetch = Host!None /\ failed = FALSE /\ probe = "none" /\ probeFetch = "none"
      /\ kept = FALSE /\ stale = {} /\ hostOvertaken = FALSE /\ unaware = FALSE
      /\ hostDialog = "none" /\ form = 0 /\ asked = FALSE /\ hostTaps = 0 /\ faults = 0
      /\ hostMoves = 0
  BY DEF Host!Init
<1>2. hostEvent \in Host!Event
  BY DEF Host!Init, Host!Event
<1>3. hostCalls = [k \in Host!Kinds |-> Host!Idle]
  BY DEF Host!Init
<1>4. HostServer /\ HostScreen
  <2>1. HostServer
    BY <1>1, <1>2 DEF HostServer
  <2>2. form \in 0 .. 1
    BY <1>1
  <2> QED BY <1>1, <2>1, <2>2 DEF HostScreen
<1>5. HostQueries
  BY <1>1 DEF HostQueries
<1>6. HostCalling
  BY <1>3 DEF HostCalling
<1>7. HostCounts
  BY <1>1, PagesAssumption DEF HostCounts
<1>8. HostAsks
  BY <1>1 DEF HostAsks
<1>9. HostBefore
  BY <1>1, <1>3, HostDiffers DEF HostBefore
<1>10. HostChoice
  BY <1>1, <1>3, HostDiffers DEF HostChoice, Host!HostKeepsControls
<1>11. HostKnows /\ HostReads
  BY <1>1, HostDiffers DEF HostKnows, HostReads
<1> QED BY <1>4, <1>5, <1>6, <1>7, <1>8, <1>9, <1>10, <1>11 DEF HostInv, HostTypes

LEMMA HostCounting ==
    ASSUME HostCounts, Host!Tap \/ Host!Move \/ Host!Fault \/ UNCHANGED Host!counts
    PROVE  HostCounts'
<1>1. MaxHostTaps \in Nat /\ MaxFaults \in Nat /\ MaxHostMoves \in Nat
  BY PagesAssumption
<1>2. CASE Host!Tap
  BY <1>1, <1>2 DEF HostCounts, Host!Tap
<1>3. CASE Host!Move
  BY <1>1, <1>3 DEF HostCounts, Host!Move
<1>4. CASE Host!Fault
  BY <1>1, <1>4 DEF HostCounts, Host!Fault
<1>5. CASE UNCHANGED Host!counts
  BY <1>5 DEF HostCounts, Host!counts
<1> QED BY <1>2, <1>3, <1>4, <1>5

\* A page that uses the queries comes on the screen: what it shows at once was right, or is
\* asked for.
LEMMA HostMounts ==
    ASSUME HostInv, Host!Mount, UNCHANGED <<hostEvent, hostCalls>>,
           hostDialog # "edit", hostDialog' # "edit",
           hostMember' = hostMember \/ host = "unknown",
           hostData = Host!None => hostDialog' = "none", host' # "unknown"
    PROVE  HostQueries' /\ HostAsks' /\ HostBefore' /\ HostKnows' /\ HostReads'
<1>1. /\ stale' = {} /\ UNCHANGED <<hostData, failed, kept, hostOvertaken, unaware>>
      /\ hostDataFetch' \in {hostDataFetch, Host!Asked}
      /\ "data" \in stale /\ hostDataFetch = Host!None => hostDataFetch' = Host!Asked
  BY HostDiffers DEF Host!Mount
<1>2. \/ /\ hostData.status = "active" /\ probeFetch = "none" /\ probeFetch' = "asked"
         /\ probe' = IF kept THEN probe ELSE "pending"
      \/ /\ hostData.status = "active" /\ probeFetch = "none" => kept /\ "probe" \notin stale
         /\ probe' = probe /\ probeFetch' = probeFetch
  BY DEF Host!Mount, Host!isActive, Host!AskProbe
<1>3. HostQueries /\ HostAsks /\ HostBefore /\ HostKnows /\ HostReads
  BY DEF HostInv, HostTypes
<1>4. HostQueries'
  <2>1. /\ hostDataFetch' \in Host!Event \cup {Host!None, Host!Asked, Host!Lost}
        /\ probe' \in {"none", "pending", "joined", "notJoined", "failed"}
        /\ probeFetch' \in {"none", "asked", "joined", "notJoined", "failed"}
    BY <1>1, <1>2, <1>3 DEF HostQueries
  <2> QED BY <1>1, <1>3, <2>1 DEF HostQueries
<1>5. HostAsks'
  BY <1>1, <1>2, <1>3 DEF HostAsks
<1>6. HostBefore'
  <2>1. hostData = Host!None => probe' = "none" /\ probeFetch' = probeFetch
    BY <1>2, <1>3, HostDiffers DEF HostBefore
  <2>2. hostDataFetch'.status \in {"ended", "cancelled"} => hostEvent.status # "active"
    BY <1>1, <1>3, HostDiffers DEF HostBefore
  <2> QED BY <1>1, <1>3, <2>1, <2>2 DEF HostBefore
<1>7. HostKnows'
  <2>1. CASE host = "unknown"
    <3>1. probe' = "none" /\ probeFetch' = "none"
      BY <1>2, <1>3, <2>1, HostDiffers DEF HostBefore, HostAsks
    <3> QED BY <3>1 DEF HostKnows
  <2>2. CASE hostMember' = hostMember
    BY <1>1, <1>2, <1>3, <2>2 DEF HostKnows, HostHeard
  <2> QED BY <2>1, <2>2
<1>8. HostReads'
  BY <1>1, <1>3, HostDiffers DEF HostReads, HostSettled
<1> QED BY <1>4, <1>5, <1>6, <1>7, <1>8

\* What is invalidated is asked for, or marked, or known to be old.
LEMMA HostInvalidates ==
    ASSUME HostInv, NEW keys \in SUBSET {"data", "probe"}, "probe" \in keys,
           Host!Invalidate(keys),
           UNCHANGED <<hostEvent, hostMember, host>>, hostPage' \in {hostPage, "list", "chat"},
           hostData = Host!None => hostDialog' = "none" /\ \A k \in Host!Kinds : hostCalls'[k] = Host!Idle,
           "data" \in keys \/ /\ hostCalls'["edit"] = hostCalls["edit"]
                              /\ hostDialog' = hostDialog \/ hostPage' # hostPage,
           host = "unknown" => hostPage' = "list"
    PROVE  HostQueries' /\ HostAsks' /\ HostBefore' /\ HostKnows' /\ HostReads'
<1>1. /\ UNCHANGED <<hostData, failed, kept>>
      /\ unaware' = (unaware \/ (probeFetch # "none" /\ probeFetch' # "asked"))
      /\ hostOvertaken' = (\/ hostOvertaken \/ (hostDialog = "edit" /\ hostPage' # hostPage)
                           \/ "data" \in keys /\ hostDataFetch # Host!None /\ hostDataFetch' # Host!Asked)
  BY DEF Host!Invalidate
<1>2. \/ /\ hostPage' \in {"detail", "chat"} /\ stale' = stale
         /\ hostDataFetch' = IF "data" \in keys /\ (hostData # Host!None \/ hostDataFetch = Host!None)
                             THEN Host!Asked ELSE hostDataFetch
         /\ \/ /\ hostData.status = "active" /\ (kept \/ probeFetch = "none")
               /\ probeFetch' = "asked" /\ probe' = IF kept THEN probe ELSE "pending"
            \/ /\ ~ (hostData.status = "active" /\ (kept \/ probeFetch = "none"))
               /\ probe' = probe /\ probeFetch' = probeFetch
      \/ /\ hostPage' \notin {"detail", "chat"} /\ stale' = stale \cup keys
         /\ UNCHANGED <<hostDataFetch, probe, probeFetch>>
  BY DEF Host!Invalidate, Host!Observed, Host!isActive, Host!AskProbe
<1>3. HostQueries /\ HostAsks /\ HostBefore /\ HostKnows /\ HostReads
  BY DEF HostInv, HostTypes
<1>4. HostQueries'
  <2>1. /\ hostDataFetch' \in Host!Event \cup {Host!None, Host!Asked, Host!Lost}
        /\ probe' \in {"none", "pending", "joined", "notJoined", "failed"}
        /\ probeFetch' \in {"none", "asked", "joined", "notJoined", "failed"}
        /\ stale' \subseteq {"data", "probe"}
    BY <1>2, <1>3 DEF HostQueries
  <2>2. hostOvertaken' \in BOOLEAN /\ unaware' \in BOOLEAN
    BY <1>1, Zenon
  <2> QED BY <1>1, <1>3, <2>1, <2>2 DEF HostQueries
<1>5. HostAsks'
  BY <1>1, <1>2, <1>3 DEF HostAsks
<1>6. HostBefore'
  <2>1. hostData = Host!None => probe' = "none"
    <3>1. hostData = Host!None => hostData.status # "active"
      BY HostDiffers
    <3>2. hostData = Host!None => probe = "none"
      BY <1>3 DEF HostBefore
    <3>3. hostData.status # "active" => probe' = probe
      BY <1>2
    <3> QED BY <3>1, <3>2, <3>3
  <2>2. hostDataFetch'.status \in {"ended", "cancelled"} => hostEvent.status # "active"
    BY <1>2, <1>3, HostDiffers DEF HostBefore
  <2>3. host = "unknown" => hostDataFetch' = Host!None
    BY <1>2, <1>3 DEF HostBefore
  <2> QED BY <1>1, <1>3, <2>1, <2>2, <2>3 DEF HostBefore
<1>7. HostKnows'
  BY <1>1, <1>2 DEF HostKnows, HostHeard
<1>8. HostReads'
  <2>1. CASE "data" \in keys
    BY <1>1, <1>2, <2>1, HostDiffers DEF HostReads, HostSettled
  <2>2. CASE "data" \notin keys
    <3>1. UNCHANGED <<hostData, hostDataFetch, failed>> /\ stale \subseteq stale'
      BY <1>1, <1>2, <2>2
    <3>2. HostSettled' => HostSettled
      BY <1>1, <2>2 DEF HostSettled
    <3> QED BY <1>3, <3>1, <3>2 DEF HostReads
  <2> QED BY <2>1, <2>2
<1> QED BY <1>4, <1>5, <1>6, <1>7, <1>8

\* The answers of the queries.
LEMMA HostQuerySteps ==
    ASSUME HostInv, Host!ServeQuery \/ Host!LoseQuery \/ Host!HearProbe \/ Host!HearData
    PROVE  HostInv'
<1>1. UNCHANGED <<hostEvent, hostMember, kept, host, hostPage, hostDialog, asked, hostCalls>>
      \/ (Host!HearProbe /\ UNCHANGED <<hostEvent, hostMember, host, hostPage, hostDialog, asked,
                                        hostCalls>>)
  BY DEF Host!ServeQuery, Host!LoseQuery, Host!HearProbe, Host!HearData, Host!server, Host!screen
<1>i. UNCHANGED <<hostEvent, hostMember, host, hostPage, hostDialog, asked, hostCalls>>
  BY <1>1
<1>2. /\ HostServer /\ HostQueries /\ HostScreen /\ HostCalling /\ HostCounts /\ HostAsks
      /\ HostBefore /\ HostChoice /\ HostKnows /\ HostReads
  BY DEF HostInv, HostTypes
<1>3. HostServer' /\ HostCalling' /\ HostChoice'
  BY <1>i, <1>2 DEF HostServer, HostCalling, HostChoice, Host!HostKeepsControls
<1>4. HostCounts'
  <2>1. Host!Fault \/ UNCHANGED Host!counts
    BY DEF Host!ServeQuery, Host!LoseQuery, Host!HearProbe, Host!HearData
  <2> QED BY <1>2, <2>1, HostCounting
<1>5. CASE Host!ServeQuery \/ Host!LoseQuery
  <2>1. /\ UNCHANGED <<hostData, failed, probe, kept, stale, form>>
        /\ \/ /\ hostDataFetch = Host!Asked /\ probeFetch' = probeFetch
              /\ unaware' = unaware
              /\ \/ hostDataFetch' = hostEvent /\ hostOvertaken' = FALSE
                 \/ hostDataFetch' = Host!Lost /\ hostOvertaken' = hostOvertaken
           \/ /\ probeFetch = "asked" /\ hostDataFetch' = hostDataFetch
              /\ hostOvertaken' = hostOvertaken
              /\ \/ unaware' = FALSE /\ probeFetch' = IF hostMember THEN "joined" ELSE "notJoined"
                 \/ unaware' = unaware /\ probeFetch' = "failed"
    BY <1>5 DEF Host!ServeQuery, Host!LoseQuery, Host!screen
  <2>2. HostQueries'
    BY <1>2, <2>1 DEF HostQueries, HostServer
  <2>3. HostScreen'
    BY <1>i, <1>2, <2>1 DEF HostScreen
  <2>4. HostAsks'
    BY <1>i, <1>2, <2>1 DEF HostAsks
  <2>5. HostBefore'
    <3>1. hostDataFetch'.status \in {"ended", "cancelled"} => hostEvent.status # "active"
      BY <1>2, <2>1, HostDiffers DEF HostBefore
    <3>2. hostDataFetch = Host!None => hostDataFetch' = Host!None
      BY <2>1, HostDiffers
    <3> QED BY <1>i, <1>2, <2>1, <3>1, <3>2 DEF HostBefore
  <2>6. HostKnows'
    BY <1>i, <1>2, <2>1 DEF HostKnows, HostHeard, HostServer
  <2>7. HostReads'
    BY <1>i, <1>2, <2>1, HostDiffers DEF HostReads, HostSettled, HostServer
  <2> QED BY <1>3, <1>4, <2>2, <2>3, <2>4, <2>5, <2>6, <2>7 DEF HostInv, HostTypes
<1>6. CASE Host!HearProbe
  <2>1. /\ UNCHANGED <<hostData, hostDataFetch, failed, hostOvertaken, unaware, form>>
        /\ probeFetch \in {"joined", "notJoined", "failed"} /\ probeFetch' = "none"
        /\ probe' = probeFetch /\ stale' = stale \ {"probe"}
        /\ kept' = (kept \/ probeFetch = "joined")
    BY <1>2, <1>6 DEF Host!HearProbe, Host!screen, HostQueries
  <2>2. HostQueries'
    <3>1. kept' \in BOOLEAN
      BY <2>1, Zenon
    <3>2. stale' \subseteq {"data", "probe"}
      BY <1>2, <2>1 DEF HostQueries
    <3> QED BY <1>2, <2>1, <3>1, <3>2 DEF HostQueries
  <2>3. HostScreen'
    BY <1>i, <1>2, <2>1 DEF HostScreen
  <2>4. HostAsks'
    BY <1>i, <1>2, <2>1 DEF HostAsks
  <2>5. HostBefore'
    <3>1. hostData # Host!None
      BY <1>2, <2>1 DEF HostBefore, HostAsks
    <3> QED BY <1>i, <1>2, <2>1, <3>1 DEF HostBefore
  <2>6. HostKnows'
    BY <1>i, <1>2, <2>1 DEF HostKnows, HostHeard
  <2>7. HostReads'
    BY <1>i, <1>2, <2>1 DEF HostReads, HostSettled
  <2> QED BY <1>3, <1>4, <2>2, <2>3, <2>4, <2>5, <2>6, <2>7 DEF HostInv, HostTypes
<1>7. CASE Host!HearData
  <2>1. /\ UNCHANGED <<kept, hostOvertaken, unaware>>
        /\ hostDataFetch \in Host!Event \cup {Host!Lost} /\ hostDataFetch' = Host!None
        /\ failed' = (hostDataFetch = Host!Lost)
        /\ hostData' = IF hostDataFetch = Host!Lost THEN hostData ELSE hostDataFetch
        /\ stale' = stale \ {"data"}
        /\ form' = IF hostDialog = "edit" /\ hostData' # hostData THEN hostData'.text ELSE form
    BY <1>2, <1>7 DEF Host!HearData, HostQueries
  <2>2. IF hostData'.status = "active" /\ probe = "none" /\ hostPage # "list"
        THEN probeFetch' = "asked" /\ probe' = IF kept THEN probe ELSE "pending"
        ELSE probe' = probe /\ probeFetch' = probeFetch
    BY <1>7 DEF Host!HearData, Host!AskProbe
  <2>3. HostQueries'
    <3>1. failed' \in BOOLEAN
      BY <2>1, Zenon
    <3>2. /\ hostData' \in Host!Event \cup {Host!None} /\ stale' \subseteq {"data", "probe"}
          /\ hostDataFetch' = Host!None
      BY <1>2, <2>1 DEF HostQueries
    <3>3. /\ probe' \in {"none", "pending", "joined", "notJoined", "failed"}
          /\ probeFetch' \in {"none", "asked", "joined", "notJoined", "failed"}
      BY <1>2, <2>2 DEF HostQueries
    <3> QED BY <1>2, <2>1, <3>1, <3>2, <3>3 DEF HostQueries
  <2>4. HostScreen'
    <3>1. form' \in 0 .. 1
      <4>1. hostData' # hostData => hostData' \in Host!Event
        BY <1>2, <2>1, HostDiffers
      <4>2. hostData' \in Host!Event => hostData'.text \in 0 .. 1
        BY HostDiffers
      <4> QED BY <1>2, <2>1, <4>1, <4>2 DEF HostScreen
    <3> QED BY <1>i, <1>2, <3>1 DEF HostScreen
  <2>5. HostAsks'
    BY <1>i, <1>2, <2>1, <2>2 DEF HostAsks
  <2>6. HostBefore'
    <3>1. host # "unknown"
      BY <1>2, <2>1, HostDiffers DEF HostBefore
    <3>2. hostData' = Host!None => hostData = Host!None
      BY <2>1, HostDiffers
    <3>3. hostData' = Host!None => hostData'.status # "active"
      BY HostDiffers
    <3>4. hostData' = Host!None => probe' = "none"
      BY <1>2, <2>2, <3>2, <3>3 DEF HostBefore
    <3>5. hostData'.status \in {"ended", "cancelled"} => hostEvent.status # "active"
      BY <1>2, <2>1 DEF HostBefore
    <3>6. hostDataFetch'.status \notin {"ended", "cancelled"}
      BY <2>1, HostDiffers
    <3> QED BY <1>i, <1>2, <3>1, <3>2, <3>4, <3>5, <3>6 DEF HostBefore
  <2>7. HostKnows'
    <3>1. CASE probe = "none"
      <4>1. probe' \in {"none", "pending"} /\ probeFetch' \in {"none", "asked"}
        BY <1>2, <2>2, <3>1 DEF HostAsks
      <4> QED BY <4>1 DEF HostKnows
    <3>2. CASE probe # "none"
      <4>1. probe' = probe /\ probeFetch' = probeFetch
        BY <2>2, <3>2
      <4>2. hostData # Host!None
        BY <1>2, <3>2 DEF HostBefore
      <4>3. hostData.status = "active" \/ hostEvent.status # "active"
        BY <1>2, <4>2, HostDiffers DEF HostBefore, HostQueries
      <4>4. "probe" \in stale' <=> "probe" \in stale
        BY <2>1
      <4> QED BY <1>i, <1>2, <2>1, <4>1, <4>3, <4>4 DEF HostKnows, HostHeard
    <3> QED BY <3>1, <3>2
  <2>8. HostReads'
    BY <1>i, <1>2, <2>1, HostDiffers DEF HostReads, HostSettled
  <2> QED BY <1>3, <1>4, <2>3, <2>4, <2>5, <2>6, <2>7, <2>8 DEF HostInv, HostTypes
<1> QED BY <1>5, <1>6, <1>7

\* Nothing that the queries say changes, nor on the server.
LEMMA HostStays ==
    ASSUME HostInv,
           UNCHANGED <<hostEvent, hostMember, hostData, hostDataFetch, failed, probe, probeFetch,
                       kept, stale, host>>,
           hostOvertaken' \in BOOLEAN, unaware' \in BOOLEAN, hostPage' \in {hostPage, "list"},
           HostScreen', HostCalling', HostCounts', HostChoice',
           hostData = Host!None =>
             hostDialog' = "none" /\ \A k \in Host!Kinds : hostCalls'[k] = Host!Idle,
           HostHeard' => HostHeard, HostSettled' => HostSettled
    PROVE  HostInv'
<1>1. /\ HostServer /\ HostQueries /\ HostAsks /\ HostBefore /\ HostKnows /\ HostReads
  BY DEF HostInv, HostTypes
<1>2. HostServer' /\ HostQueries'
  BY <1>1 DEF HostServer, HostQueries
<1>3. HostAsks'
  BY <1>1 DEF HostAsks
<1>4. HostBefore'
  BY <1>1 DEF HostBefore
<1>5. HostKnows'
  BY <1>1 DEF HostKnows
<1>6. HostReads'
  BY <1>1 DEF HostReads
<1> QED BY <1>2, <1>3, <1>4, <1>5, <1>6 DEF HostInv, HostTypes

\* A page is opened.
LEMMA HostScreens ==
    ASSUME HostInv, Host!Visit \/ Host!OpenChat \/ Host!Redirect
    PROVE  HostInv'
<1>1. /\ HostServer /\ HostScreen /\ HostCalling /\ HostCounts /\ HostBefore /\ HostChoice
      /\ HostAsks
  BY DEF HostInv, HostTypes
<1>2. HostCounts'
  <2>1. Host!Tap \/ UNCHANGED Host!counts
    BY DEF Host!Visit, Host!OpenChat, Host!Redirect
  <2> QED BY <1>1, <2>1, HostCounting
<1>3. Host!Mount /\ UNCHANGED <<hostEvent, hostCalls>> /\ form' = form
  BY DEF Host!Visit, Host!OpenChat, Host!Redirect, Host!server
<1>4. /\ hostDialog # "edit" /\ hostDialog' \in {hostDialog, "none"}
      /\ hostMember' = hostMember \/ host = "unknown"
      /\ hostMember' \in BOOLEAN /\ host' \in {"yes", "no"} /\ hostPage' \in {"detail", "chat"}
      /\ asked' \in BOOLEAN
  <2>1. CASE Host!Visit
    <3>1. /\ hostDialog' = hostDialog /\ hostPage = "list" /\ hostPage' = "detail"
          /\ asked' = (hostCalls["join"].pc # "idle")
          /\ IF host = "unknown" THEN host' \in {"yes", "no"} /\ hostMember' \in BOOLEAN
             ELSE UNCHANGED <<host, hostMember>>
      BY <2>1 DEF Host!Visit
    <3>2. asked' \in BOOLEAN
      BY <3>1, Zenon
    <3> QED BY <1>1, <3>1, <3>2 DEF HostChoice, HostServer, HostScreen
  <2>2. CASE Host!OpenChat
    <3>1. /\ hostDialog = "none" /\ hostDialog' = "none" /\ hostData # Host!None
          /\ UNCHANGED <<hostMember, host>> /\ hostPage' = "chat" /\ asked' = TRUE
      BY <2>2 DEF Host!OpenChat, Host!Shown, Host!server
    <3> QED BY <1>1, <3>1 DEF HostBefore, HostServer, HostScreen
  <2>3. CASE Host!Redirect
    <3>1. /\ host = "no" /\ hostDialog' = "none" /\ UNCHANGED <<hostMember, host, asked>>
          /\ hostPage' = "chat"
      BY <2>3 DEF Host!Redirect, Host!server
    <3> QED BY <1>1, <3>1 DEF HostChoice, HostServer, HostScreen
  <2> QED BY <2>1, <2>2, <2>3
<1>5. HostQueries' /\ HostAsks' /\ HostBefore' /\ HostKnows' /\ HostReads'
  <2>1. hostDialog' # "edit" /\ host' # "unknown"
    BY <1>4
  <2>2. hostData = Host!None => hostDialog' = "none"
    BY <1>1, <1>4 DEF HostBefore
  <2> QED BY <1>3, <1>4, <2>1, <2>2, HostMounts
<1>6. HostServer' /\ HostScreen' /\ HostCalling'
  BY <1>1, <1>3, <1>4 DEF HostServer, HostScreen, HostCalling
<1>7. HostChoice'
  <2>1. hostDialog' # "edit"
    BY <1>4
  <2>2. hostCalls["join"] # Host!Idle => asked'
    <3>1. CASE Host!Visit
      <4>1. hostCalls["join"] # Host!Idle => hostCalls["join"].pc # "idle"
        BY <1>1, HostDiffers DEF HostCalling
      <4> QED BY <3>1, <4>1 DEF Host!Visit
    <3>2. CASE Host!OpenChat
      BY <3>2 DEF Host!OpenChat
    <3>3. CASE Host!Redirect
      BY <1>1, <3>3 DEF Host!Redirect, HostChoice
    <3> QED BY <3>1, <3>2, <3>3
  <2>3. hostPage' = "chat" /\ host' = "yes" => asked'
    BY DEF Host!Visit, Host!OpenChat, Host!Redirect
  <2> QED BY <1>3, <2>1, <2>2, <2>3 DEF HostChoice, Host!HostKeepsControls
<1> QED BY <1>2, <1>5, <1>6, <1>7 DEF HostInv, HostTypes

\* A call goes out, once.
LEMMA HostSending ==
    ASSUME HostInv, NEW k \in Host!Kinds, NEW text \in 0 .. 1, Host!Send(k, text)
    PROVE  /\ HostCalling' /\ hostCalls[k] = Host!Idle /\ hostCalls'[k].pc = "sent"
           /\ \A j \in Host!Kinds : j # k => hostCalls'[j] = hostCalls[j]
<1>1. HostCalling
  BY DEF HostInv, HostTypes
<1> QED BY <1>1 DEF Host!Send, HostCalling, HostCall

\* What the user taps.
LEMMA HostTapsSteps ==
    ASSUME HostInv,
           \/ Host!Back \/ Host!TapJoin \/ Host!ConfirmJoin \/ Host!Leave \/ Host!Submit
           \/ Host!ConfirmCancel \/ \E d \in {"edit", "cancel"} : Host!OpenDialog(d)
    PROVE  HostInv'
<1>1. /\ HostQueries /\ HostScreen /\ HostCalling /\ HostCounts /\ HostBefore /\ HostChoice
      /\ HostAsks
  BY DEF HostInv, HostTypes
<1>2. HostCounts'
  <2>1. Host!Tap \/ UNCHANGED Host!counts
    BY DEF Host!Back, Host!TapJoin, Host!ConfirmJoin, Host!Leave, Host!Submit,
       Host!ConfirmCancel, Host!OpenDialog
  <2> QED BY <1>1, <2>1, HostCounting
<1>3. /\ UNCHANGED <<hostEvent, hostMember, hostData, hostDataFetch, failed, probe, probeFetch,
                     kept, stale, host, hostOvertaken, unaware>>
      /\ hostPage' \in {hostPage, "list"}
  BY DEF Host!Back, Host!TapJoin, Host!ConfirmJoin, Host!Leave, Host!Submit,
     Host!ConfirmCancel, Host!OpenDialog, Host!server, Host!queries, Host!screen
<1>4. hostOvertaken' \in BOOLEAN /\ unaware' \in BOOLEAN
  BY <1>1, <1>3 DEF HostQueries
<1>5. hostData.status = "active" => hostData # Host!None
  BY HostDiffers
<1>6. CASE Host!Back
  <2>1. /\ hostDialog = "none" /\ UNCHANGED <<hostDialog, form, asked, hostCalls>>
        /\ hostPage' = "list"
    BY <1>6 DEF Host!Back
  <2>2. HostScreen' /\ HostCalling' /\ HostChoice'
    BY <1>1, <1>3, <2>1 DEF HostScreen, HostCalling, HostChoice, Host!HostKeepsControls
  <2>3. /\ HostHeard' => HostHeard
        /\ HostSettled' => HostSettled
    BY <1>3, <2>1 DEF HostHeard, HostSettled
  <2>4. hostData = Host!None =>
          hostDialog' = "none" /\ \A k \in Host!Kinds : hostCalls'[k] = Host!Idle
    BY <1>1, <2>1 DEF HostBefore
  <2> QED BY <1>2, <1>3, <1>4, <2>2, <2>3, <2>4, HostStays
<1>7. CASE Host!TapJoin \/ Host!ConfirmJoin
  <2>1. /\ UNCHANGED <<hostPage, form>> /\ hostData # Host!None
        /\ hostDialog \in {"none", "identity"} /\ hostDialog' \in {"none", "identity"}
        /\ asked' \in {asked, TRUE}
    BY <1>1, <1>5, <1>7 DEF Host!TapJoin, Host!ConfirmJoin, Host!Shown, HostBefore
  <2>2. \/ Host!Send("join", 0) /\ asked' = TRUE
        \/ UNCHANGED <<hostCalls, asked>>
    BY <1>7 DEF Host!TapJoin, Host!ConfirmJoin
  <2>3. /\ HostCalling' /\ hostCalls'["edit"] = hostCalls["edit"]
        /\ hostCalls'["leave"] = hostCalls["leave"]
        /\ \/ hostCalls["join"].pc = "idle" /\ asked' = TRUE
           \/ hostCalls'["join"] = hostCalls["join"] /\ asked' = asked
    <3>1. CASE Host!Send("join", 0) /\ asked' = TRUE
      <4>1. "join" \in Host!Kinds /\ "edit" \in Host!Kinds /\ "leave" \in Host!Kinds /\ 0 \in 0 .. 1
        BY DEF Host!Kinds
      <4> QED BY <3>1, <4>1, HostSending, HostDiffers
    <3>2. CASE UNCHANGED <<hostCalls, asked>>
      BY <1>1, <3>2 DEF HostCalling
    <3> QED BY <2>2, <3>1, <3>2
  <2>4. HostScreen' /\ HostChoice'
    <3>1. HostScreen'
      <4>1. asked' \in BOOLEAN
        BY <1>1, <2>1 DEF HostScreen
      <4> QED BY <1>1, <1>3, <2>1, <4>1 DEF HostScreen
    <3>2. hostCalls'["join"] # Host!Idle => asked'
      BY <1>1, <2>3 DEF HostChoice
    <3>3. asked => asked'
      BY <2>1
    <3> QED BY <1>1, <1>3, <2>1, <3>1, <3>2, <3>3 DEF HostChoice, Host!HostKeepsControls
  <2>5. /\ HostHeard' => HostHeard
        /\ HostSettled' => HostSettled
    BY <1>3, <2>1, <2>3 DEF HostHeard, HostSettled
  <2> QED BY <1>2, <1>3, <1>4, <2>1, <2>3, <2>4, <2>5, HostStays
<1>8. CASE Host!Leave \/ Host!ConfirmCancel
  <2>1. UNCHANGED <<hostPage, form, hostDialog, asked>> /\ hostData # Host!None
    BY <1>1, <1>5, <1>8 DEF Host!Leave, Host!ConfirmCancel, Host!screen, Host!isActive,
       HostBefore
  <2>2. Host!Send("leave", 0) \/ Host!Send("cancel", 0)
    BY <1>8 DEF Host!Leave, Host!ConfirmCancel
  <2>3. /\ HostCalling' /\ hostCalls'["edit"] = hostCalls["edit"]
        /\ hostCalls'["join"] = hostCalls["join"]
        /\ hostCalls["leave"].pc = "idle" \/ hostCalls'["leave"] = hostCalls["leave"]
    <3>1. Host!Kinds = {"join", "leave", "edit", "cancel"} /\ 0 \in 0 .. 1
      BY DEF Host!Kinds
    <3> QED BY <2>2, <3>1, HostSending, HostDiffers
  <2>4. HostScreen' /\ HostChoice'
    BY <1>1, <1>3, <2>1, <2>3 DEF HostScreen, HostChoice, Host!HostKeepsControls
  <2>5. /\ HostHeard' => HostHeard
        /\ HostSettled' => HostSettled
    BY <1>3, <2>1, <2>3 DEF HostHeard, HostSettled
  <2> QED BY <1>2, <1>3, <1>4, <2>1, <2>3, <2>4, <2>5, HostStays
<1>9. CASE Host!Submit
  <2>1. /\ UNCHANGED <<hostPage, hostDialog, asked>> /\ hostDialog = "edit"
        /\ hostData # Host!None
    BY <1>1, <1>9 DEF Host!Submit, HostBefore
  <2>2. PICK text \in 0 .. 1 : form' = text /\ Host!Send("edit", text)
    BY <1>9 DEF Host!Submit
  <2>3. /\ HostCalling' /\ hostCalls'["leave"] = hostCalls["leave"]
        /\ hostCalls'["join"] = hostCalls["join"]
    <3>1. "join" \in Host!Kinds /\ "edit" \in Host!Kinds /\ "leave" \in Host!Kinds
      BY DEF Host!Kinds
    <3> QED BY <2>2, <3>1, HostSending
  <2>4. HostScreen' /\ HostChoice'
    BY <1>1, <1>3, <2>1, <2>2, <2>3 DEF HostScreen, HostChoice, Host!HostKeepsControls
  <2>5. /\ HostHeard' => HostHeard
        /\ HostSettled' => HostSettled
    BY <1>3, <2>1, <2>3 DEF HostHeard, HostSettled
  <2> QED BY <1>2, <1>3, <1>4, <2>1, <2>3, <2>4, <2>5, HostStays
<1>10. CASE \E d \in {"edit", "cancel"} : Host!OpenDialog(d)
  <2>1. PICK d \in {"edit", "cancel"} : Host!OpenDialog(d)
    BY <1>10
  <2>2. /\ UNCHANGED <<hostPage, asked, hostCalls>> /\ hostDialog = "none" /\ hostDialog' = d
        /\ hostData # Host!None /\ hostPage = "detail" /\ host = "yes"
        /\ form' = IF d = "edit" THEN hostData.text ELSE form
    BY <2>1 DEF Host!OpenDialog, Host!Shown
  <2>3. form' \in 0 .. 1
    <3>1. hostData \in Host!Event
      BY <1>1, <2>2 DEF HostQueries
    <3>2. hostData.text \in 0 .. 1
      BY <3>1, HostDiffers
    <3> QED BY <1>1, <2>2, <3>2 DEF HostScreen
  <2>4. HostScreen' /\ HostChoice' /\ HostCalling'
    BY <1>1, <1>3, <2>2, <2>3 DEF HostScreen, HostChoice, HostCalling, Host!HostKeepsControls
  <2>5. /\ HostHeard' => HostHeard
        /\ HostSettled' => HostSettled
    BY <1>3, <2>2 DEF HostHeard, HostSettled
  <2> QED BY <1>2, <1>3, <1>4, <2>2, <2>4, <2>5, HostStays
<1> QED BY <1>6, <1>7, <1>8, <1>9, <1>10

\* The server answers a call, or nothing answers.
LEMMA HostServes ==
    ASSUME HostInv, NEW k \in Host!Kinds, Host!Serve(k)
    PROVE  HostInv'
<1> DEFINE v == Host!Verdict(k)
<1>1. /\ HostServer /\ HostQueries /\ HostScreen /\ HostCalling /\ HostCounts /\ HostBefore
      /\ HostChoice /\ HostAsks /\ HostKnows /\ HostReads
  BY DEF HostInv, HostTypes
<1>2. /\ hostCalls[k].pc = "sent"
      /\ UNCHANGED <<hostData, hostDataFetch, failed, probe, probeFetch, kept, stale,
                     hostOvertaken, unaware, host, hostPage, hostDialog, form, asked>>
  BY DEF Host!Serve, Host!queries, Host!screen
<1>3. /\ v \in {"ok", "already", "refused"}
      /\ v = "ok" => hostEvent.status = "active"
  BY DEF Host!Verdict
<1>4. \/ hostCalls' = [hostCalls EXCEPT ![k].pc = v] /\ UNCHANGED Host!counts
      \/ hostCalls' = [hostCalls EXCEPT ![k].pc = "lost"] /\ Host!Fault
  BY DEF Host!Serve
<1>5. /\ hostMember' = IF v # "ok" THEN hostMember
                       ELSE (hostMember \/ k = "join") /\ k \notin {"leave", "cancel"}
      /\ hostEvent' = IF v # "ok" THEN hostEvent
                      ELSE CASE k = "edit"   -> [hostEvent EXCEPT !.text = hostCalls[k].text]
                             [] k = "cancel" -> [hostEvent EXCEPT !.status = "cancelled"]
                             [] OTHER        -> hostEvent
  BY DEF Host!Serve
<1> HIDE DEF v
<1>6. hostCalls[k] \in HostCall
  BY <1>1, <1>2, HostDiffers DEF HostCalling
<1>7. hostEvent' \in Host!Event
  <2>1. hostCalls[k].text \in 0 .. 1
    BY <1>6, HostDiffers
  <2>2. [hostEvent EXCEPT !.text = hostCalls[k].text] \in Host!Event
    BY <1>1, <2>1 DEF HostServer, Host!Event
  <2>3. [hostEvent EXCEPT !.status = "cancelled"] \in Host!Event
    BY <1>1 DEF HostServer, Host!Event
  <2>4. hostEvent \in Host!Event
    BY <1>1 DEF HostServer
  <2> QED BY <1>5, <2>2, <2>3, <2>4
<1>8. hostMember' \in BOOLEAN
  <2>1. CASE v # "ok"
    BY <1>1, <1>5, <2>1 DEF HostServer
  <2>2. CASE v = "ok"
    <3>1. hostMember' = ((hostMember \/ k = "join") /\ k \notin {"leave", "cancel"})
      BY <1>5, <2>2
    <3> QED BY <3>1, Zenon
  <2> QED BY <2>1, <2>2
<1>9. /\ HostCalling' /\ hostCalls'[k].pc \in {v, "lost"}
      /\ \A j \in Host!Kinds : j # k => hostCalls'[j] = hostCalls[j]
  <2>1. \A w \in {v, "lost"} : [hostCalls[k] EXCEPT !.pc = w] \in HostCall
    BY <1>3, <1>6 DEF HostCall
  <2>2. \A w \in {v, "lost"} : hostCalls' = [hostCalls EXCEPT ![k].pc = w] =>
          /\ HostCalling' /\ hostCalls'[k] = [hostCalls[k] EXCEPT !.pc = w]
          /\ \A j \in Host!Kinds : j # k => hostCalls'[j] = hostCalls[j]
    BY <1>1, <2>1 DEF HostCalling
  <2>3. \A w \in {v, "lost"} : [hostCalls[k] EXCEPT !.pc = w].pc = w
    BY <1>6 DEF HostCall
  <2> QED BY <1>4, <2>2, <2>3
<1>10. HostCounts'
  <2>1. Host!Fault \/ UNCHANGED Host!counts
    BY <1>4
  <2> QED BY <1>1, <2>1, HostCounting
<1>11. HostServer' /\ HostQueries' /\ HostScreen' /\ HostAsks'
  BY <1>1, <1>2, <1>7, <1>8 DEF HostServer, HostQueries, HostScreen, HostAsks
<1>12. hostCalls[k] # Host!Idle
  BY <1>2, HostDiffers
<1>13. hostEvent'.status = "active" => hostEvent.status = "active"
  BY <1>1, <1>5 DEF HostServer, Host!Event
<1>14. HostBefore'
  BY <1>1, <1>2, <1>12, <1>13 DEF HostBefore
<1>15. HostChoice'
  <2>1. hostCalls'["join"] # Host!Idle => asked
    <3>1. CASE k = "join"
      BY <1>1, <1>12, <3>1 DEF HostChoice
    <3>2. CASE k # "join"
      <4>1. hostCalls'["join"] = hostCalls["join"]
        BY <1>9, <3>2, HostDiffers
      <4> QED BY <1>1, <4>1 DEF HostChoice
    <3> QED BY <3>1, <3>2
  <2> QED BY <1>1, <1>2, <2>1 DEF HostChoice, Host!HostKeepsControls
<1>16. HostKnows'
  <2> SUFFICES ASSUME HostHeard' PROVE HostHeard /\ hostMember' = hostMember
    BY <1>1, <1>2 DEF HostKnows
  <2>1. /\ hostCalls'["join"].pc \notin {"ok", "lost"} /\ hostCalls'["leave"].pc \notin {"ok", "lost"}
        /\ ~ unaware /\ hostEvent'.status = "active"
    BY <1>2 DEF HostHeard
  <2>2. /\ k \in {"join", "leave", "edit", "cancel"}
        /\ "join" \in Host!Kinds /\ "leave" \in Host!Kinds
    BY HostDiffers
  <2>3. HostHeard
    <3>1. hostCalls["join"].pc \notin {"ok", "lost"}
      BY <1>2, <1>9, <2>1, <2>2
    <3>2. hostCalls["leave"].pc \notin {"ok", "lost"}
      BY <1>2, <1>9, <2>1, <2>2
    <3> QED BY <1>13, <2>1, <3>1, <3>2 DEF HostHeard
  <2>4. v = "ok" => k \notin {"join", "leave"}
    BY <1>9, <2>1, <2>2
  <2>5. v = "ok" => k # "cancel"
    BY <1>1, <1>5, <2>1 DEF HostServer, Host!Event
  <2>6. hostMember \in BOOLEAN
    BY <1>1 DEF HostServer
  <2>7. hostMember' = hostMember
    BY <1>5, <2>4, <2>5, <2>6
  <2> QED BY <2>3, <2>7
<1>17. HostReads'
  <2> SUFFICES ASSUME HostSettled' PROVE HostSettled /\ hostEvent'.text = hostEvent.text
    BY <1>1, <1>2, <1>7, HostDiffers DEF HostReads, HostQueries
  <2>1. /\ hostCalls'["edit"].pc \notin {"ok", "lost"} /\ ~ hostOvertaken
        /\ hostEvent'.status = "active" /\ hostDialog # "edit"
    BY <1>2 DEF HostSettled
  <2>2. "edit" \in Host!Kinds
    BY HostDiffers
  <2>3. hostCalls["edit"].pc \notin {"ok", "lost"}
    BY <1>2, <1>9, <2>1, <2>2
  <2>4. v = "ok" => k # "edit"
    BY <1>9, <2>1
  <2>5. hostEvent'.text = hostEvent.text
    BY <1>1, <1>5, <2>4 DEF HostServer, Host!Event
  <2> QED BY <1>13, <2>1, <2>3, <2>5 DEF HostSettled
<1> QED BY <1>9, <1>10, <1>11, <1>14, <1>15, <1>16, <1>17 DEF HostInv, HostTypes

LEMMA HostLoses ==
    ASSUME HostInv, NEW k \in Host!Kinds, Host!LoseCall(k)
    PROVE  HostInv'
<1>1. /\ HostQueries /\ HostScreen /\ HostCalling /\ HostCounts /\ HostBefore /\ HostChoice
  BY DEF HostInv, HostTypes
<1>2. /\ hostCalls[k].pc = "sent" /\ hostCalls' = [hostCalls EXCEPT ![k].pc = "lost"]
      /\ UNCHANGED <<hostEvent, hostMember, hostData, hostDataFetch, failed, probe, probeFetch,
                     kept, stale, hostOvertaken, unaware, host, hostPage, hostDialog, form,
                     asked>>
  BY DEF Host!LoseCall, Host!server, Host!queries, Host!screen
<1>3. hostCalls[k] \in HostCall
  BY <1>1, <1>2, HostDiffers DEF HostCalling
<1>4. /\ HostCalling'
      /\ \A j \in Host!Kinds : j # k => hostCalls'[j] = hostCalls[j]
  <2>1. [hostCalls[k] EXCEPT !.pc = "lost"] \in HostCall
    BY <1>3 DEF HostCall
  <2> QED BY <1>1, <1>2, <2>1 DEF HostCalling
<1>5. HostCounts'
  BY <1>1, HostCounting DEF Host!LoseCall
<1>6. HostScreen' /\ hostOvertaken' \in BOOLEAN /\ unaware' \in BOOLEAN
  BY <1>1, <1>2 DEF HostScreen, HostQueries
<1>7. hostCalls[k] # Host!Idle
  BY <1>2, HostDiffers
<1>8. hostData # Host!None
  BY <1>1, <1>7 DEF HostBefore
<1>9. k = "join" \/ hostCalls'["join"] = hostCalls["join"]
  BY <1>4, HostDiffers
<1>10. HostChoice'
  <2>1. hostCalls'["join"] # Host!Idle => asked
    BY <1>1, <1>7, <1>9 DEF HostChoice
  <2> QED BY <1>1, <1>2, <2>1 DEF HostChoice, Host!HostKeepsControls
<1>11. /\ HostHeard' => HostHeard
       /\ HostSettled' => HostSettled
  <2>1. "join" \in Host!Kinds /\ "leave" \in Host!Kinds /\ "edit" \in Host!Kinds
    BY HostDiffers
  <2>2. \A j \in Host!Kinds : hostCalls'[j].pc \notin {"ok", "lost"}
                              => hostCalls[j].pc \notin {"ok", "lost"}
    BY <1>2, <1>4
  <2> QED BY <1>2, <2>1, <2>2 DEF HostHeard, HostSettled
<1> QED BY <1>2, <1>4, <1>5, <1>6, <1>8, <1>10, <1>11, HostStays

\* What others do.
LEMMA HostMeanwhile == ASSUME HostInv, Host!Meanwhile PROVE HostInv'
<1>1. /\ HostServer /\ HostQueries /\ HostScreen /\ HostCalling /\ HostCounts /\ HostBefore
      /\ HostChoice /\ HostAsks /\ HostKnows /\ HostReads
  BY DEF HostInv, HostTypes
<1>2. /\ hostEvent.status = "active" /\ host # "unknown" /\ Host!Move
      /\ UNCHANGED <<hostData, hostDataFetch, failed, probe, probeFetch, kept, stale,
                     hostOvertaken, host, hostPage, hostDialog, form, asked, hostCalls>>
  BY DEF Host!Meanwhile, Host!screen
<1>3. \/ hostEvent' = [hostEvent EXCEPT !.crowd = TRUE] /\ UNCHANGED <<hostMember, unaware>>
      \/ hostEvent' = [hostEvent EXCEPT !.status = "ended"] /\ UNCHANGED <<hostMember, unaware>>
      \/ hostMember' = ~ hostMember /\ unaware' = TRUE /\ UNCHANGED hostEvent
  BY DEF Host!Meanwhile
<1>4. /\ hostEvent' \in Host!Event /\ hostEvent'.text = hostEvent.text
  BY <1>1, <1>3 DEF HostServer, Host!Event
<1>5. hostMember' \in BOOLEAN /\ unaware' \in BOOLEAN
  <2>1. CASE UNCHANGED <<hostMember, unaware>>
    BY <1>1, <2>1 DEF HostServer, HostQueries
  <2>2. CASE hostMember' = (~ hostMember) /\ unaware' = TRUE
    <3>1. (~ hostMember) \in BOOLEAN
      BY Zenon
    <3> QED BY <2>2, <3>1
  <2> QED BY <1>3, <2>1, <2>2
<1>6. HostServer' /\ HostQueries' /\ HostScreen' /\ HostCalling' /\ HostAsks'
  BY <1>1, <1>2, <1>4, <1>5 DEF HostServer, HostQueries, HostScreen, HostCalling, HostAsks
<1>7. HostCounts'
  BY <1>1, <1>2, HostCounting
<1>8. HostBefore'
  BY <1>1, <1>2 DEF HostBefore
<1>9. HostChoice'
  BY <1>1, <1>2 DEF HostChoice, Host!HostKeepsControls
<1>10. HostKnows'
  BY <1>1, <1>2, <1>3 DEF HostKnows, HostHeard
<1>11. HostReads'
  BY <1>1, <1>2, <1>4, HostDiffers DEF HostReads, HostSettled, HostQueries
<1> QED BY <1>6, <1>7, <1>8, <1>9, <1>10, <1>11 DEF HostInv, HostTypes

\* A dialog is closed.
LEMMA HostCloses == ASSUME HostInv, Host!CloseDialog PROVE HostInv'
<1>1. /\ HostServer /\ HostQueries /\ HostScreen /\ HostCalling /\ HostCounts /\ HostBefore
      /\ HostChoice
  BY DEF HostInv, HostTypes
<1>2. /\ hostDialog # "none" /\ hostDialog' = "none"
      /\ UNCHANGED <<hostPage, hostEvent, hostMember, host, form, asked, hostCalls>>
      /\ UNCHANGED Host!counts
  BY DEF Host!CloseDialog, Host!server
<1>3. HostServer' /\ HostScreen' /\ HostCalling' /\ HostChoice'
  BY <1>1, <1>2 DEF HostServer, HostScreen, HostCalling, HostChoice, Host!HostKeepsControls
<1>4. HostCounts'
  BY <1>1, <1>2, HostCounting
<1>5. hostData # Host!None /\ host # "unknown"
  BY <1>1, <1>2 DEF HostBefore
<1>6. CASE hostDialog = "edit"
  <2>1. Host!Invalidate({"data", "probe"})
    BY <1>6 DEF Host!CloseDialog
  <2>2. {"data", "probe"} \in SUBSET {"data", "probe"} /\ "data" \in {"data", "probe"}
        /\ "probe" \in {"data", "probe"} /\ hostPage' \in {hostPage, "list", "chat"}
    BY <1>2
  <2>3. HostQueries' /\ HostAsks' /\ HostBefore' /\ HostKnows' /\ HostReads'
    BY <1>2, <1>5, <2>1, <2>2, HostInvalidates
  <2> QED BY <1>3, <1>4, <2>3 DEF HostInv, HostTypes
<1>7. CASE hostDialog # "edit"
  <2>1. UNCHANGED <<hostData, hostDataFetch, failed, probe, probeFetch, kept, stale,
                    hostOvertaken, unaware>>
    BY <1>7 DEF Host!CloseDialog, Host!queries
  <2>2. /\ HostHeard' => HostHeard
        /\ HostSettled' => HostSettled
    BY <1>2, <1>7, <2>1 DEF HostHeard, HostSettled
  <2>3. hostOvertaken' \in BOOLEAN /\ unaware' \in BOOLEAN /\ hostPage' \in {hostPage, "list"}
    BY <1>1, <1>2, <2>1 DEF HostQueries
  <2> QED BY <1>2, <1>3, <1>4, <1>5, <2>1, <2>2, <2>3, HostStays
<1> QED BY <1>6, <1>7

\* What is common to the answers of the calls.
LEMMA HostHearing ==
    ASSUME HostInv, NEW k \in Host!Kinds, hostCalls[k].pc # "idle",
           hostCalls' = [hostCalls EXCEPT ![k] = Host!Idle], UNCHANGED Host!counts
    PROVE  /\ HostCalling' /\ HostCounts' /\ hostCalls'[k].pc = "idle"
           /\ \A j \in Host!Kinds : j # k => hostCalls'[j] = hostCalls[j]
           /\ hostCalls[k] # Host!Idle /\ hostData # Host!None /\ host # "unknown"
           /\ hostCalls'["join"] # Host!Idle => asked
<1>1. HostCalling /\ HostCounts /\ HostBefore /\ HostChoice
  BY DEF HostInv, HostTypes
<1>2. HostCounts'
  BY <1>1, HostCounting
<1>3. /\ HostCalling' /\ hostCalls'[k] = Host!Idle
      /\ \A j \in Host!Kinds : j # k => hostCalls'[j] = hostCalls[j]
  BY <1>1 DEF HostCalling
<1>4. hostCalls[k] # Host!Idle
  BY HostDiffers
<1>5. hostData # Host!None /\ host # "unknown"
  BY <1>1, <1>4 DEF HostBefore
<1>6. hostCalls'["join"] # Host!Idle => asked
  <2>1. "join" \in Host!Kinds
    BY HostDiffers
  <2> QED BY <1>1, <1>3, <2>1 DEF HostChoice
<1> QED BY <1>2, <1>3, <1>4, <1>5, <1>6, HostDiffers

\* The answer to a join, however it went.
LEMMA HostHearsJoin == ASSUME HostInv, Host!HearJoin PROVE HostInv'
<1> DEFINE keys == IF hostCalls["join"].pc = "ok" THEN {"data", "probe"} ELSE {"probe"}
<1>1. /\ HostServer /\ HostQueries /\ HostScreen /\ HostCalling /\ HostChoice
  BY DEF HostInv, HostTypes
<1>2. /\ hostCalls["join"].pc # "idle" /\ hostCalls' = [hostCalls EXCEPT !["join"] = Host!Idle]
      /\ hostPage' \in {hostPage, "chat"} /\ Host!Invalidate(keys)
      /\ hostDialog' = IF hostPage' = hostPage THEN hostDialog ELSE "none"
      /\ UNCHANGED <<hostEvent, hostMember, host, form, asked>> /\ UNCHANGED Host!counts
  BY DEF Host!HearJoin, Host!server
<1>3. keys \in SUBSET {"data", "probe"} /\ "probe" \in keys
  OBVIOUS
<1> HIDE DEF keys
<1>4. "join" \in Host!Kinds /\ "edit" \in Host!Kinds /\ "join" # "edit"
  BY HostDiffers
<1>5. /\ HostCalling' /\ HostCounts' /\ hostCalls'["edit"] = hostCalls["edit"]
      /\ hostData # Host!None /\ host # "unknown" /\ hostCalls["join"] # Host!Idle
      /\ hostCalls'["join"] # Host!Idle => asked
  BY <1>2, <1>4, HostHearing
<1>6. HostQueries' /\ HostAsks' /\ HostBefore' /\ HostKnows' /\ HostReads'
  <2>1. hostPage' \in {hostPage, "list", "chat"}
    BY <1>2
  <2>2. hostDialog' = hostDialog \/ hostPage' # hostPage
    BY <1>2
  <2> QED BY <1>2, <1>3, <1>5, <2>1, <2>2, HostInvalidates
<1>7. HostServer' /\ HostScreen'
  BY <1>1, <1>2 DEF HostServer, HostScreen
<1>8. HostChoice'
  <2>1. asked
    BY <1>1, <1>5 DEF HostChoice
  <2> QED BY <1>1, <1>2, <2>1 DEF HostChoice, Host!HostKeepsControls
<1> QED BY <1>5, <1>6, <1>7, <1>8 DEF HostInv, HostTypes

\* The answer to a leave.
LEMMA HostHearsLeave == ASSUME HostInv, Host!HearLeave PROVE HostInv'
<1>1. /\ HostServer /\ HostQueries /\ HostScreen /\ HostCalling /\ HostChoice /\ HostAsks
      /\ HostBefore
  BY DEF HostInv, HostTypes
<1>2. /\ hostCalls["leave"].pc # "idle" /\ hostCalls' = [hostCalls EXCEPT !["leave"] = Host!Idle]
      /\ UNCHANGED <<hostEvent, hostMember, host, form, asked>> /\ UNCHANGED Host!counts
  BY DEF Host!HearLeave, Host!server
<1>3. /\ "leave" \in Host!Kinds /\ "edit" \in Host!Kinds /\ "join" \in Host!Kinds
      /\ "leave" # "edit" /\ "leave" # "join"
  BY HostDiffers
<1>4. /\ HostCalling' /\ HostCounts' /\ hostCalls'["edit"] = hostCalls["edit"]
      /\ hostCalls'["join"] = hostCalls["join"] /\ hostCalls'["leave"].pc = "idle"
      /\ hostData # Host!None /\ host # "unknown"
      /\ hostCalls'["join"] # Host!Idle => asked
  BY <1>2, <1>3, HostHearing
<1>5. CASE hostCalls["leave"].pc = "ok"
  <2>1. /\ hostPage' = "list" /\ hostDialog' = "none" /\ hostDataFetch' = Host!Asked
        /\ probe' = "pending" /\ probeFetch' = "asked" /\ kept' = FALSE
        /\ UNCHANGED <<hostData, failed, stale, hostOvertaken, unaware>>
    BY <1>5 DEF Host!HearLeave
  <2>2. HostServer' /\ HostScreen'
    BY <1>1, <1>2, <2>1 DEF HostServer, HostScreen
  <2>3. HostQueries'
    BY <1>1, <2>1 DEF HostQueries
  <2>4. HostAsks'
    BY <2>1 DEF HostAsks
  <2>5. HostBefore'
    BY <1>1, <1>2, <1>4, <2>1, HostDiffers DEF HostBefore
  <2>6. HostChoice'
    BY <1>2, <1>4, <2>1 DEF HostChoice, Host!HostKeepsControls
  <2>7. HostKnows' /\ HostReads'
    BY <2>1, HostDiffers DEF HostKnows, HostReads
  <2> QED BY <1>4, <2>2, <2>3, <2>4, <2>5, <2>6, <2>7 DEF HostInv, HostTypes
<1>6. CASE hostCalls["leave"].pc # "ok"
  <2>1. /\ unaware' = (unaware \/ hostCalls["leave"].pc = "lost")
        /\ UNCHANGED <<hostPage, hostDialog, hostData, hostDataFetch, failed, probe, probeFetch,
                       kept, stale, hostOvertaken>>
    BY <1>6 DEF Host!HearLeave
  <2>2. unaware' \in BOOLEAN
    BY <2>1, Zenon
  <2>3. hostOvertaken' \in BOOLEAN /\ hostPage' \in {hostPage, "list"}
    BY <1>1, <2>1 DEF HostQueries
  <2>4. HostScreen' /\ HostChoice'
    BY <1>1, <1>2, <1>4, <2>1 DEF HostScreen, HostChoice, Host!HostKeepsControls
  <2>5. /\ HostHeard' => HostHeard
        /\ HostSettled' => HostSettled
    BY <1>2, <1>4, <1>6, <2>1 DEF HostHeard, HostSettled
  <2> QED BY <1>2, <1>4, <2>1, <2>2, <2>3, <2>4, <2>5, HostStays
<1> QED BY <1>5, <1>6

\* The answer to an edit.
LEMMA HostHearsEdit == ASSUME HostInv, Host!HearEdit PROVE HostInv'
<1>1. /\ HostServer /\ HostQueries /\ HostScreen /\ HostCalling /\ HostChoice
  BY DEF HostInv, HostTypes
<1>2. /\ hostCalls["edit"].pc # "idle" /\ hostCalls' = [hostCalls EXCEPT !["edit"] = Host!Idle]
      /\ UNCHANGED <<hostEvent, hostMember, host, hostPage, form, asked>>
      /\ UNCHANGED Host!counts
  BY DEF Host!HearEdit, Host!server
<1>3. /\ "leave" \in Host!Kinds /\ "edit" \in Host!Kinds /\ "join" \in Host!Kinds
      /\ "leave" # "edit" /\ "edit" # "join"
  BY HostDiffers
<1>4. /\ HostCalling' /\ HostCounts' /\ hostCalls'["leave"] = hostCalls["leave"]
      /\ hostCalls'["join"] = hostCalls["join"] /\ hostCalls'["edit"].pc = "idle"
      /\ hostData # Host!None /\ host # "unknown"
      /\ hostCalls'["join"] # Host!Idle => asked
  BY <1>2, <1>3, HostHearing
<1>5. HostServer'
  BY <1>1, <1>2 DEF HostServer
<1>6. CASE hostCalls["edit"].pc = "ok"
  <2>1. /\ hostDialog' = IF hostDialog = "edit" THEN "none" ELSE hostDialog
        /\ Host!Invalidate({"data", "probe"})
    BY <1>6 DEF Host!HearEdit
  <2>2. {"data", "probe"} \in SUBSET {"data", "probe"} /\ "data" \in {"data", "probe"}
        /\ "probe" \in {"data", "probe"} /\ hostPage' \in {hostPage, "list", "chat"}
    BY <1>2
  <2>3. HostQueries' /\ HostAsks' /\ HostBefore' /\ HostKnows' /\ HostReads'
    BY <1>2, <1>4, <2>1, <2>2, HostInvalidates
  <2>4. HostScreen' /\ HostChoice'
    BY <1>1, <1>2, <1>4, <2>1 DEF HostScreen, HostChoice, Host!HostKeepsControls
  <2> QED BY <1>4, <1>5, <2>3, <2>4 DEF HostInv, HostTypes
<1>7. CASE hostCalls["edit"].pc # "ok"
  <2>1. /\ hostOvertaken' = (hostOvertaken \/ (hostCalls["edit"].pc = "lost" /\ hostDialog # "edit"))
        /\ UNCHANGED <<hostDialog, hostData, hostDataFetch, failed, probe, probeFetch, kept,
                       stale, unaware>>
    BY <1>7 DEF Host!HearEdit
  <2>2. hostOvertaken' \in BOOLEAN
    BY <2>1, Zenon
  <2>3. unaware' \in BOOLEAN /\ hostPage' \in {hostPage, "list"}
    BY <1>1, <1>2, <2>1 DEF HostQueries
  <2>4. HostScreen' /\ HostChoice'
    BY <1>1, <1>2, <1>4, <2>1 DEF HostScreen, HostChoice, Host!HostKeepsControls
  <2>5. /\ HostHeard' => HostHeard
        /\ HostSettled' => HostSettled
    BY <1>2, <1>4, <1>7, <2>1 DEF HostHeard, HostSettled
  <2> QED BY <1>2, <1>4, <2>1, <2>2, <2>3, <2>4, <2>5, HostStays
<1> QED BY <1>6, <1>7

\* The answer to a cancellation.
LEMMA HostHearsCancel == ASSUME HostInv, Host!HearCancel PROVE HostInv'
<1>1. /\ HostServer /\ HostQueries /\ HostScreen /\ HostCalling /\ HostChoice
  BY DEF HostInv, HostTypes
<1>2. /\ hostCalls["cancel"].pc # "idle"
      /\ hostCalls' = [hostCalls EXCEPT !["cancel"] = Host!Idle]
      /\ UNCHANGED <<hostEvent, hostMember, host, form, asked>>
      /\ UNCHANGED Host!counts
  BY DEF Host!HearCancel, Host!server
<1>3. /\ Host!Kinds = {"join", "leave", "edit", "cancel"} /\ "cancel" \in Host!Kinds
  BY HostDiffers
<1>4. /\ HostCalling' /\ HostCounts' /\ hostCalls'["leave"] = hostCalls["leave"]
      /\ hostCalls'["join"] = hostCalls["join"] /\ hostCalls'["edit"] = hostCalls["edit"]
      /\ hostData # Host!None /\ host # "unknown"
      /\ hostCalls'["join"] # Host!Idle => asked
  BY <1>2, <1>3, HostHearing
<1>5. HostServer'
  BY <1>1, <1>2 DEF HostServer
<1>6. CASE hostCalls["cancel"].pc = "ok"
  <2>1. /\ hostPage' = "list" /\ hostDialog' = "none"
        /\ Host!Invalidate({"data", "probe"})
    BY <1>6 DEF Host!HearCancel
  <2>2. {"data", "probe"} \in SUBSET {"data", "probe"} /\ "data" \in {"data", "probe"}
        /\ "probe" \in {"data", "probe"} /\ hostPage' \in {hostPage, "list", "chat"}
    BY <2>1
  <2>3. HostQueries' /\ HostAsks' /\ HostBefore' /\ HostKnows' /\ HostReads'
    BY <1>2, <1>4, <2>1, <2>2, HostInvalidates
  <2>4. HostScreen' /\ HostChoice'
    BY <1>1, <1>2, <1>4, <2>1 DEF HostScreen, HostChoice, Host!HostKeepsControls
  <2> QED BY <1>4, <1>5, <2>3, <2>4 DEF HostInv, HostTypes
<1>7. CASE hostCalls["cancel"].pc # "ok"
  <2>1. UNCHANGED <<hostPage, hostDialog, hostData, hostDataFetch, failed, probe, probeFetch,
                    kept, stale, hostOvertaken, unaware>>
    BY <1>7 DEF Host!HearCancel, Host!queries
  <2>2. hostOvertaken' \in BOOLEAN /\ unaware' \in BOOLEAN /\ hostPage' \in {hostPage, "list"}
    BY <1>1, <2>1 DEF HostQueries
  <2>3. HostScreen' /\ HostChoice'
    BY <1>1, <1>2, <1>4, <2>1 DEF HostScreen, HostChoice, Host!HostKeepsControls
  <2>4. /\ HostHeard' => HostHeard
        /\ HostSettled' => HostSettled
    BY <1>2, <1>4, <2>1 DEF HostHeard, HostSettled
  <2> QED BY <1>2, <1>4, <2>1, <2>2, <2>3, <2>4, HostStays
<1> QED BY <1>6, <1>7

\* With nothing in the air a participant is not left on the page that offers to join, and
\* what the page shows of the event is what was saved.
LEMMA HostStaysRight == Spec => [](focus = "host" => Host!TypeOK /\ Host!EventPageSafe)
<1>1. Host!Init => HostInv
  BY HostBegin
<1>2. HostInv /\ [Host!Next]_Host!vars => HostInv'
  <2>1. ASSUME HostInv, Host!Progress PROVE HostInv'
    BY <2>1, HostQuerySteps, HostScreens, HostHearsJoin, HostHearsLeave, HostHearsEdit,
       HostHearsCancel, HostServes DEF Host!Progress
  <2>2. ASSUME HostInv, UNCHANGED Host!vars PROVE HostInv'
    <3>1. /\ UNCHANGED <<hostEvent, hostMember, hostData, hostDataFetch, failed, probe,
                         probeFetch, kept, stale, hostOvertaken, unaware, host, hostPage,
                         hostDialog, form, asked, hostCalls>>
          /\ UNCHANGED <<hostTaps, faults, hostMoves>>
      BY <2>2 DEF Host!vars, Host!server, Host!queries, Host!screen, Host!counts
    <3>2. /\ HostQueries /\ HostScreen /\ HostCalling /\ HostCounts /\ HostChoice /\ HostBefore
      BY <2>2 DEF HostInv, HostTypes
    <3>3. HostScreen' /\ HostCalling' /\ HostCounts' /\ HostChoice'
      BY <3>1, <3>2 DEF HostScreen, HostCalling, HostCounts, HostChoice, Host!HostKeepsControls
    <3>4. hostOvertaken' \in BOOLEAN /\ unaware' \in BOOLEAN
      BY <3>1, <3>2 DEF HostQueries
    <3>5. /\ HostHeard' => HostHeard
          /\ HostSettled' => HostSettled
      BY <3>1 DEF HostHeard, HostSettled
    <3>6. hostData = Host!None =>
            hostDialog' = "none" /\ \A k \in Host!Kinds : hostCalls'[k] = Host!Idle
      BY <3>1, <3>2 DEF HostBefore
    <3> QED BY <2>2, <3>1, <3>3, <3>4, <3>5, <3>6, HostStays
  <2> QED BY <2>1, <2>2, HostQuerySteps, HostScreens, HostTapsSteps, HostCloses, HostMeanwhile,
     HostLoses DEF Host!Next
<1>3. HostInv => Host!TypeOK /\ Host!EventPageSafe
  <2> SUFFICES ASSUME HostInv PROVE Host!TypeOK /\ Host!EventPageSafe
    OBVIOUS
  <2>1. /\ HostServer /\ HostQueries /\ HostScreen /\ HostCalling /\ HostCounts /\ HostAsks
        /\ HostChoice /\ HostKnows /\ HostReads
    BY DEF HostInv, HostTypes
  <2>2. Host!TypeOK
    <3>1. \A k \in Host!Kinds :
            hostCalls[k].pc \in {"idle", "sent", "ok", "already", "refused", "lost"}
      BY <2>1, HostDiffers DEF HostCalling
    <3> QED BY <2>1, <3>1 DEF Host!TypeOK, HostServer, HostQueries, HostScreen, HostCounts
  <2>3. Host!PageAgrees
    <3> SUFFICES ASSUME Host!Quiet, Host!Shown, Host!isActive, hostEvent.status = "active"
                 PROVE  /\ probe # "failed" /\ ~ unaware => (probe = "joined") = hostMember
                        /\ hostDialog # "edit" /\ ~ hostOvertaken => hostData.text = hostEvent.text
      BY DEF Host!PageAgrees
    <3>1. /\ hostDataFetch = Host!None /\ probeFetch = "none" /\ hostPage = "detail"
          /\ hostData # Host!None /\ ~ failed /\ hostData.status = "active"
          /\ \A k \in Host!Kinds : hostCalls[k].pc = "idle"
      BY HostDiffers DEF Host!Quiet, Host!Shown, Host!isActive
    <3>2. /\ hostCalls["join"].pc = "idle" /\ hostCalls["leave"].pc = "idle"
          /\ hostCalls["edit"].pc = "idle"
      BY <3>1, HostDiffers
    <3>3. stale = {} /\ probe \in {"joined", "notJoined", "failed"}
      BY <2>1, <3>1 DEF HostAsks, HostQueries
    <3>4. probe # "failed" /\ ~ unaware => (probe = "joined") = hostMember
      BY <2>1, <3>1, <3>2, <3>3 DEF HostKnows, HostHeard
    <3>5. hostDialog # "edit" /\ ~ hostOvertaken => hostData.text = hostEvent.text
      BY <2>1, <3>1, <3>2, <3>3 DEF HostReads, HostSettled
    <3> QED BY <3>4, <3>5
  <2> QED BY <2>1, <2>2, <2>3 DEF HostChoice, Host!EventPageSafe
<1> QED BY <1>1, <1>2, <1>3, HostAlone, PTL DEF Host!Spec

-----------------------------------------------------------------------------
(* The page of the discussion (Speaking).                                   *)

SpeakFrame == [t : {"post", "vote", "posted", "error", "ack", "upvote_error", "message",
                    "upvote", "typing"}, m : Speak!Message, b : BOOLEAN]
Asks       == {f \in SpeakFrame : f.t \in {"post", "vote"}}
Answers    == {f \in SpeakFrame : f.t = "ack" => f.m = "theirs"}
                \cap {f \in SpeakFrame : f.t = "upvote_error" => f.m = "own"}
                \cap {f \in SpeakFrame : f.t \in {"posted", "error", "ack", "upvote_error"}}
Broadcasts == {f \in SpeakFrame : f.t = "message" => f.m = "own"}
                \cap {f \in SpeakFrame : f.t = "upvote" => f.m = "theirs"}

SpeakQueries ==
    /\ introDone \in BOOLEAN /\ discussion \in {"asked", "live", "none", "failed"}
    /\ state \in Speak!Call /\ joining \in Speak!Call
    /\ resolved \in BOOLEAN /\ joined \in BOOLEAN /\ hasPosted \in BOOLEAN
    /\ postedEarlier \in BOOLEAN /\ firstVerdict \in BOOLEAN /\ seeded \in BOOLEAN
SpeakScreen ==
    /\ speakingSock \in {"none", "open"} /\ speakingRetry \in BOOLEAN
    /\ isOwn \in BOOLEAN /\ speakingPending \subseteq Speak!Message
    /\ draft \in BOOLEAN /\ lastDraft \in BOOLEAN /\ sending \in BOOLEAN
    /\ speakingDialog \in {"closed", "open", "paused"} /\ speakingTyping \in BOOLEAN
    /\ participant \in BOOLEAN /\ posted \in BOOLEAN /\ told \in BOOLEAN /\ refused \in BOOLEAN
    /\ unread \in BOOLEAN
    /\ speakingTaps \in 0 .. MaxSpeakTaps /\ posts \in 0 .. MaxPosts
SpeakPlace == SpeakQueries /\ SpeakScreen

\* Who was told of a response has one, and the wall is loaded by one verdict and one join.
SpeakTold ==
    /\ told => hasPosted
    /\ seeded = joined /\ (~ joined => loads = 0)
    /\ joined => joining.pc = "idle" \/ loads = 1

SpeakLine == speakingInbox \in Seq(Asks) /\ speakingWire \in Seq(Answers)
SpeakHall == speakingLayer \in Seq(Broadcasts)

\* Only a load brings the response of somebody else, and only its votes are answered.
SpeakHearts ==
    /\ history \in [Speak!Loader -> Speak!Rows] /\ loads \in 0 .. 2
    /\ wall \subseteq Speak!Message /\ upvoted \subseteq Speak!Message
    /\ voted \subseteq {"theirs"}
    /\ queue \in [Speak!Message -> {"none", "yes", "no", "count"}] /\ queue["own"] = "none"
    /\ speakingDrops \in 0 .. MaxSpeakDrops
    /\ \A l \in Speak!Loader :
         /\ history[l].upvoted \subseteq {"theirs"}
         /\ history[l].pc = "answer" => "theirs" \in history[l].wall
    /\ loads = 0 => "theirs" \notin wall /\ \A l \in Speak!Loader : history[l].pc = "idle"

\* A vote for oneself is on its way to its refusal.
SpeakOwn == speakingDrops = 0 /\ "own" \in upvoted =>
    \/ \E i \in DOMAIN speakingInbox : speakingInbox[i].t = "vote" /\ speakingInbox[i].m = "own"
    \/ \E i \in DOMAIN speakingWire : speakingWire[i].t = "upvote_error"

NoVote == \A i \in DOMAIN speakingInbox :
             ~ (speakingInbox[i].t = "vote" /\ speakingInbox[i].m = "theirs")
NoAck  == \A i \in DOMAIN speakingWire : speakingWire[i].t # "ack"

\* Until the one load is shown, there is nothing to vote for.
SpeakBefore == speakingDrops = 0 /\ loads <= 1 /\ "theirs" \notin wall =>
    /\ "theirs" \notin upvoted /\ voted = {} /\ NoVote /\ NoAck
    /\ queue["theirs"] \in {"none", "count"}
    /\ \A l \in Speak!Loader : history[l].upvoted = {}
    /\ \A k, l \in Speak!Loader : history[k].pc # "idle" /\ history[l].pc # "idle" => k = l

\* From then on, with no vote on its way, the vote of the server is what the last answer
\* on the wire says, or else the queue, or else the heart.
SpeakAfter == speakingDrops = 0 /\ loads <= 1 /\ "theirs" \in wall =>
    /\ \A l \in Speak!Loader : history[l].pc = "idle"
    /\ NoVote =>
        /\ \A i \in DOMAIN speakingWire :
             /\ speakingWire[i].t = "ack"
             /\ \A j \in DOMAIN speakingWire : j > i => speakingWire[j].t # "ack"
             => speakingWire[i].b = (voted # {})
        /\ NoAck =>
             /\ queue["theirs"] = "yes" => voted # {}
             /\ queue["theirs"] = "no" => voted = {}
             /\ queue["theirs"] \in {"none", "count"} => ("theirs" \in upvoted <=> voted # {})

SpeakInv == SpeakPlace /\ SpeakTold /\ SpeakLine /\ SpeakHall /\ SpeakHearts
              /\ SpeakOwn /\ SpeakBefore /\ SpeakAfter

\* What is read of the kinds of frames.
LEMMA SpeakFrames ==
    /\ Asks \subseteq SpeakFrame /\ Answers \subseteq SpeakFrame /\ Broadcasts \subseteq SpeakFrame
    /\ \A f \in Asks : f.t \in {"post", "vote"}
    /\ \A f \in Answers : /\ f.t \in {"posted", "error", "ack", "upvote_error"}
                          /\ f.t = "ack" => f.m = "theirs"
                          /\ f.t = "upvote_error" => f.m = "own"
    /\ \A f \in Broadcasts : (f.t = "message" => f.m = "own") /\ (f.t = "upvote" => f.m = "theirs")
    /\ \A m \in Speak!Message, b \in BOOLEAN :
         /\ Speak!Frame("post", m, b) \in Asks /\ Speak!Frame("vote", m, b) \in Asks
         /\ Speak!Frame("error", m, b) \in Answers /\ Speak!Frame("posted", m, b) \in Answers
         /\ Speak!Frame("typing", m, b) \in Broadcasts
    /\ \A b \in BOOLEAN :
         /\ Speak!Frame("ack", "theirs", b) \in Answers
         /\ Speak!Frame("upvote_error", "own", b) \in Answers
         /\ Speak!Frame("message", "own", b) \in Broadcasts
         /\ Speak!Frame("upvote", "theirs", b) \in Broadcasts
    /\ \A t, m, b : /\ Speak!Frame(t, m, b).t = t /\ Speak!Frame(t, m, b).m = m
                    /\ Speak!Frame(t, m, b).b = b
<1>1. "theirs" \in Speak!Message /\ "own" \in Speak!Message
  BY DEF Speak!Message
<1>2. \A t \in {"post", "vote", "posted", "error", "ack", "upvote_error", "message",
                "upvote", "typing"}, m \in Speak!Message, b \in BOOLEAN :
        /\ Speak!Frame(t, m, b) \in SpeakFrame /\ Speak!Frame(t, m, b).t = t
        /\ Speak!Frame(t, m, b).m = m
  BY DEF SpeakFrame, Speak!Frame
<1>3. \A t, m, b : /\ Speak!Frame(t, m, b).t = t /\ Speak!Frame(t, m, b).m = m
                   /\ Speak!Frame(t, m, b).b = b
  BY DEF Speak!Frame
<1>4. \A m \in Speak!Message, b \in BOOLEAN :
        Speak!Frame("post", m, b) \in Asks /\ Speak!Frame("vote", m, b) \in Asks
  BY <1>2 DEF Asks
<1>5. \A m \in Speak!Message, b \in BOOLEAN :
        Speak!Frame("error", m, b) \in Answers /\ Speak!Frame("posted", m, b) \in Answers
  BY <1>2 DEF Answers
<1>6. \A m \in Speak!Message, b \in BOOLEAN : Speak!Frame("typing", m, b) \in Broadcasts
  BY <1>2 DEF Broadcasts
<1>7. \A b \in BOOLEAN :
         /\ Speak!Frame("ack", "theirs", b) \in Answers
         /\ Speak!Frame("upvote_error", "own", b) \in Answers
         /\ Speak!Frame("message", "own", b) \in Broadcasts
         /\ Speak!Frame("upvote", "theirs", b) \in Broadcasts
  BY <1>1, <1>2 DEF Answers, Broadcasts
<1>8. Asks \subseteq SpeakFrame /\ Answers \subseteq SpeakFrame /\ Broadcasts \subseteq SpeakFrame
  BY DEF Asks, Answers, Broadcasts
<1>9. /\ \A f \in Asks : f.t \in {"post", "vote"}
      /\ \A f \in Answers : /\ f.t \in {"posted", "error", "ack", "upvote_error"}
                            /\ f.t = "ack" => f.m = "theirs"
                            /\ f.t = "upvote_error" => f.m = "own"
      /\ \A f \in Broadcasts : (f.t = "message" => f.m = "own") /\ (f.t = "upvote" => f.m = "theirs")
  BY DEF Asks, Answers, Broadcasts
<1> QED BY <1>3, <1>4, <1>5, <1>6, <1>7, <1>8, <1>9

LEMMA SpeakBegin == ASSUME Speak!Init PROVE SpeakInv
<1>1. /\ introDone = FALSE /\ discussion = "asked"
      /\ state = Speak!Idle /\ joining = Speak!Idle
      /\ resolved = FALSE /\ joined = FALSE /\ hasPosted = FALSE /\ postedEarlier = FALSE
      /\ firstVerdict = TRUE /\ seeded = FALSE
      /\ speakingSock = "none" /\ speakingRetry = FALSE
      /\ isOwn = FALSE /\ speakingPending = {}
      /\ draft = FALSE /\ lastDraft = FALSE /\ sending = FALSE
      /\ speakingDialog = "closed" /\ speakingTyping = FALSE
      /\ participant = FALSE /\ posted = FALSE
      /\ told = FALSE /\ refused = FALSE /\ unread = FALSE /\ speakingTaps = 0 /\ posts = 0
  BY DEF Speak!Init
<1>2. /\ history = [l \in Speak!Loader |-> Speak!NoRows] /\ loads = 0
      /\ wall = {} /\ upvoted = {} /\ voted = {} /\ queue = [m \in Speak!Message |-> "none"]
      /\ speakingDrops = 0
  BY DEF Speak!Init
<1>3. speakingInbox = <<>> /\ speakingWire = <<>> /\ speakingLayer = <<>>
  BY DEF Speak!Init
<1>4. SpeakPlace
  <2>1. Speak!Idle \in Speak!Call
    BY DEF Speak!Idle, Speak!Call
  <2>2. 0 \in 0 .. MaxSpeakTaps /\ 0 \in 0 .. MaxPosts
    BY PagesAssumption
  <2> QED BY <1>1, <2>1, <2>2 DEF SpeakPlace, SpeakQueries, SpeakScreen
<1>5. SpeakTold
  BY <1>1, <1>2 DEF SpeakTold
<1>6. SpeakLine /\ SpeakHall
  BY <1>3, NoFrames DEF SpeakLine, SpeakHall
<1>7. SpeakHearts
  <2>1. /\ Speak!NoRows \in Speak!Rows /\ Speak!NoRows.pc = "idle" /\ Speak!NoRows.upvoted = {}
    BY DEF Speak!NoRows, Speak!Rows
  <2>2. history \in [Speak!Loader -> Speak!Rows]
        /\ \A l \in Speak!Loader : history[l].pc = "idle" /\ history[l].upvoted = {}
    BY <1>2, <2>1
  <2>3. queue \in [Speak!Message -> {"none", "yes", "no", "count"}] /\ queue["own"] = "none"
    BY <1>2 DEF Speak!Message
  <2>4. speakingDrops \in 0 .. MaxSpeakDrops
    BY <1>2, PagesAssumption
  <2> QED BY <1>2, <2>2, <2>3, <2>4 DEF SpeakHearts
<1>8. SpeakOwn
  BY <1>2 DEF SpeakOwn
<1>9. SpeakBefore
  <2>1. queue["theirs"] = "none"
    BY <1>2 DEF Speak!Message
  <2>2. \A l \in Speak!Loader : history[l].pc = "idle" /\ history[l].upvoted = {}
    BY <1>2 DEF Speak!NoRows
  <2> QED BY <1>2, <1>3, <2>1, <2>2 DEF SpeakBefore, NoVote, NoAck
<1>10. SpeakAfter
  BY <1>2 DEF SpeakAfter
<1> QED BY <1>4, <1>5, <1>6, <1>7, <1>8, <1>9, <1>10 DEF SpeakInv

\* The hearts and the votes stand still.
LEMMA SpeakStill ==
    ASSUME SpeakInv, SpeakPlace', SpeakTold', SpeakHall',
           UNCHANGED <<history, loads, speakingInbox, speakingWire, wall, upvoted, voted, queue>>,
           speakingDrops' \in 0 .. MaxSpeakDrops, speakingDrops' = 0 => speakingDrops = 0
    PROVE  SpeakInv'
<1>1. SpeakLine /\ SpeakHearts /\ SpeakOwn /\ SpeakBefore /\ SpeakAfter
  BY DEF SpeakInv
<1>2. SpeakLine' /\ SpeakHearts'
  BY <1>1 DEF SpeakLine, SpeakHearts
<1>3. SpeakOwn'
  BY <1>1 DEF SpeakOwn
<1>4. (NoVote' <=> NoVote) /\ (NoAck' <=> NoAck)
  BY DEF NoVote, NoAck
<1>5. SpeakBefore'
  BY <1>1, <1>4 DEF SpeakBefore
<1>6. SpeakAfter'
  BY <1>1, <1>4 DEF SpeakAfter
<1> QED BY <1>2, <1>3, <1>5, <1>6 DEF SpeakInv

\* The loader, the queries and the composer leave the hearts and the votes alone.
LEMMA SpeakQuiet ==
    ASSUME SpeakInv,
           \/ Speak!IntroEnds \/ Speak!Discussion \/ Speak!Focus \/ Speak!ServeState
           \/ Speak!StateFails \/ Speak!Join \/ Speak!ServeJoin \/ Speak!Connect
           \/ Speak!Type \/ Speak!SendingEnds \/ Speak!OtherJoins \/ Speak!Dialog
           \/ Speak!DialogCloses \/ Speak!Reconnect \/ Speak!JoinFails
    PROVE  SpeakInv'
<1>1. SpeakPlace /\ SpeakTold /\ SpeakHall /\ speakingDrops \in 0 .. MaxSpeakDrops
  BY DEF SpeakInv, SpeakHearts
<1>2. MaxSpeakTaps \in Nat /\ MaxPosts \in Nat /\ MaxSpeakDrops \in Nat
  BY PagesAssumption
<1>3. ASSUME SpeakPlace', SpeakTold', speakingLayer' = speakingLayer,
             UNCHANGED <<history, loads, speakingInbox, speakingWire, wall, upvoted, voted, queue>>,
             speakingDrops' \in 0 .. MaxSpeakDrops, speakingDrops' = 0 => speakingDrops = 0
      PROVE  SpeakInv'
  <2>1. SpeakHall'
    BY <1>1, <1>3 DEF SpeakHall
  <2> QED BY <1>3, <2>1, SpeakStill
<1>4. CASE Speak!IntroEnds
  <2>1. SpeakQueries'
    BY <1>1, <1>2, <1>4
    DEF SpeakPlace, SpeakQueries, Speak!IntroEnds, Speak!query, Speak!verdict
  <2>2. SpeakScreen'
    BY <1>1, <1>2, <1>4
    DEF SpeakPlace, SpeakScreen, Speak!IntroEnds, Speak!line, Speak!hearts, Speak!composer, Speak!server,
       Speak!ghost, Speak!counts
  <2>3. SpeakTold'
    BY <1>1, <1>2, <1>4
    DEF SpeakTold, Speak!IntroEnds, Speak!query, Speak!verdict, Speak!ghost
  <2>4. /\ UNCHANGED <<history, loads, speakingInbox, speakingWire, speakingLayer, wall, upvoted,
                        voted, queue>>
        /\ speakingDrops' \in 0 .. MaxSpeakDrops /\ (speakingDrops' = 0 => speakingDrops = 0)
    BY <1>1, <1>2, <1>4
    DEF Speak!IntroEnds, Speak!query, Speak!line, Speak!hearts, Speak!server, Speak!ghost, Speak!counts
  <2> QED BY <1>3, <2>1, <2>2, <2>3, <2>4 DEF SpeakPlace
<1>5. CASE Speak!Discussion
  <2>1. SpeakQueries'
    <3>1. Speak!Asked(Speak!Idle) \in Speak!Call
      BY DEF Speak!Asked, Speak!Idle, Speak!Call
    <3>2. UNCHANGED <<introDone, joining, resolved, joined, hasPosted, postedEarlier,
                      firstVerdict, seeded>>
      BY <1>5 DEF Speak!Discussion, Speak!verdict
    <3>3. discussion' \in {"live", "none", "failed"} /\ state' \in {state, Speak!Asked(Speak!Idle)}
      BY <1>5 DEF Speak!Discussion
    <3> QED BY <1>1, <3>1, <3>2, <3>3 DEF SpeakPlace, SpeakQueries
  <2>2. SpeakScreen'
    BY <1>1, <1>2, <1>5
    DEF SpeakPlace, SpeakScreen, Speak!Discussion, Speak!line, Speak!hearts, Speak!composer, Speak!server,
       Speak!ghost, Speak!counts
  <2>3. SpeakTold'
    BY <1>1, <1>2, <1>5
    DEF SpeakTold, Speak!Discussion, Speak!Asked, Speak!Idle, Speak!Call, Speak!query, Speak!verdict, Speak!ghost
  <2>4. /\ UNCHANGED <<history, loads, speakingInbox, speakingWire, speakingLayer, wall, upvoted,
                        voted, queue>>
        /\ speakingDrops' \in 0 .. MaxSpeakDrops /\ (speakingDrops' = 0 => speakingDrops = 0)
    BY <1>1, <1>2, <1>5
    DEF Speak!Discussion, Speak!query, Speak!line, Speak!hearts, Speak!server, Speak!ghost, Speak!counts
  <2> QED BY <1>3, <2>1, <2>2, <2>3, <2>4 DEF SpeakPlace
<1>6. CASE Speak!Focus
  <2>1. SpeakQueries'
    BY <1>1, <1>2, <1>6
    DEF SpeakPlace, SpeakQueries, Speak!Focus, Speak!Asked, Speak!Idle, Speak!Call, Speak!query, Speak!verdict
  <2>2. SpeakScreen'
    BY <1>1, <1>2, <1>6
    DEF SpeakPlace, SpeakScreen, Speak!Focus, Speak!line, Speak!hearts, Speak!composer, Speak!server,
       Speak!ghost, Speak!counts
  <2>3. SpeakTold'
    BY <1>1, <1>2, <1>6
    DEF SpeakTold, Speak!Focus, Speak!Asked, Speak!Idle, Speak!Call, Speak!query, Speak!verdict, Speak!ghost
  <2>4. /\ UNCHANGED <<history, loads, speakingInbox, speakingWire, speakingLayer, wall, upvoted,
                        voted, queue>>
        /\ speakingDrops' \in 0 .. MaxSpeakDrops /\ (speakingDrops' = 0 => speakingDrops = 0)
    BY <1>1, <1>2, <1>6
    DEF Speak!Focus, Speak!query, Speak!line, Speak!hearts, Speak!server, Speak!ghost, Speak!counts
  <2> QED BY <1>3, <2>1, <2>2, <2>3, <2>4 DEF SpeakPlace
<1>7. CASE Speak!ServeState
  <2>1. Speak!Now \in Speak!Call
    BY <1>1 DEF SpeakPlace, SpeakScreen, Speak!Now, Speak!Call
  <2>2. SpeakQueries'
    BY <1>1, <1>7, <2>1
    DEF SpeakPlace, SpeakQueries, Speak!ServeState, Speak!query, Speak!verdict
  <2>3. SpeakScreen'
    BY <1>1, <1>2, <1>7
    DEF SpeakPlace, SpeakScreen, Speak!ServeState, Speak!line, Speak!hearts, Speak!composer, Speak!server,
       Speak!ghost, Speak!counts
  <2>4. SpeakTold'
    BY <1>1, <1>2, <1>7
    DEF SpeakTold, Speak!ServeState, Speak!Now, Speak!Call, Speak!query, Speak!verdict, Speak!ghost
  <2>5. /\ UNCHANGED <<history, loads, speakingInbox, speakingWire, speakingLayer, wall, upvoted,
                        voted, queue>>
        /\ speakingDrops' \in 0 .. MaxSpeakDrops /\ (speakingDrops' = 0 => speakingDrops = 0)
    BY <1>1, <1>2, <1>7
    DEF Speak!ServeState, Speak!query, Speak!line, Speak!hearts, Speak!server, Speak!ghost, Speak!counts
  <2> QED BY <1>3, <2>2, <2>3, <2>4, <2>5 DEF SpeakPlace
<1>8. CASE Speak!StateFails
  <2>1. SpeakQueries'
    BY <1>1, <1>2, <1>8
    DEF SpeakPlace, SpeakQueries, Speak!StateFails, Speak!Idle, Speak!Call, Speak!query, Speak!verdict
  <2>2. SpeakScreen'
    BY <1>1, <1>2, <1>8
    DEF SpeakPlace, SpeakScreen, Speak!StateFails, Speak!line, Speak!hearts, Speak!composer, Speak!server,
       Speak!ghost, Speak!counts
  <2>3. SpeakTold'
    BY <1>1, <1>2, <1>8
    DEF SpeakTold, Speak!StateFails, Speak!Idle, Speak!Call, Speak!query, Speak!verdict, Speak!ghost
  <2>4. /\ UNCHANGED <<history, loads, speakingInbox, speakingWire, speakingLayer, wall, upvoted,
                        voted, queue>>
        /\ speakingDrops' \in 0 .. MaxSpeakDrops /\ (speakingDrops' = 0 => speakingDrops = 0)
    BY <1>1, <1>2, <1>8
    DEF Speak!StateFails, Speak!query, Speak!line, Speak!hearts, Speak!server, Speak!ghost, Speak!counts
  <2> QED BY <1>3, <2>1, <2>2, <2>3, <2>4 DEF SpeakPlace
<1>9. CASE Speak!Join
  <2>1. SpeakQueries'
    BY <1>1, <1>2, <1>9
    DEF SpeakPlace, SpeakQueries, Speak!Join, Speak!Asked, Speak!Idle, Speak!Call, Speak!query, Speak!verdict
  <2>2. SpeakScreen'
    BY <1>1, <1>2, <1>9
    DEF SpeakPlace, SpeakScreen, Speak!Join, Speak!line, Speak!hearts, Speak!composer, Speak!server,
       Speak!ghost, Speak!counts
  <2>3. SpeakTold'
    BY <1>1, <1>2, <1>9
    DEF SpeakTold, Speak!Join, Speak!Asked, Speak!Idle, Speak!Call, Speak!query, Speak!verdict, Speak!ghost
  <2>4. /\ UNCHANGED <<history, loads, speakingInbox, speakingWire, speakingLayer, wall, upvoted,
                        voted, queue>>
        /\ speakingDrops' \in 0 .. MaxSpeakDrops /\ (speakingDrops' = 0 => speakingDrops = 0)
    BY <1>1, <1>2, <1>9
    DEF Speak!Join, Speak!query, Speak!line, Speak!hearts, Speak!server, Speak!ghost, Speak!counts
  <2> QED BY <1>3, <2>1, <2>2, <2>3, <2>4 DEF SpeakPlace
<1>10. CASE Speak!ServeJoin
  <2>1. [Speak!Now EXCEPT !.joined = TRUE] \in Speak!Call
    BY <1>1 DEF SpeakPlace, SpeakScreen, Speak!Now, Speak!Call
  <2>2. SpeakQueries'
    BY <1>1, <1>10, <2>1
    DEF SpeakPlace, SpeakQueries, Speak!ServeJoin, Speak!query, Speak!verdict
  <2>3. SpeakScreen'
    BY <1>1, <1>2, <1>10
    DEF SpeakPlace, SpeakScreen, Speak!ServeJoin, Speak!line, Speak!hearts, Speak!composer, Speak!server,
       Speak!ghost, Speak!counts
  <2>4. SpeakTold'
    BY <1>1, <1>2, <1>10
    DEF SpeakTold, Speak!ServeJoin, Speak!Now, Speak!Call, Speak!query, Speak!verdict, Speak!ghost
  <2>5. /\ UNCHANGED <<history, loads, speakingInbox, speakingWire, speakingLayer, wall, upvoted,
                        voted, queue>>
        /\ speakingDrops' \in 0 .. MaxSpeakDrops /\ (speakingDrops' = 0 => speakingDrops = 0)
    BY <1>1, <1>2, <1>10
    DEF Speak!ServeJoin, Speak!query, Speak!line, Speak!hearts, Speak!server, Speak!ghost, Speak!counts
  <2> QED BY <1>3, <2>2, <2>3, <2>4, <2>5 DEF SpeakPlace
<1>11. CASE Speak!Connect
  <2>1. SpeakQueries'
    BY <1>1, <1>2, <1>11
    DEF SpeakPlace, SpeakQueries, Speak!Connect, Speak!query, Speak!verdict
  <2>2. SpeakScreen'
    <3>1. UNCHANGED <<isOwn, speakingPending, draft, lastDraft, sending,
                      speakingDialog, speakingTyping, participant, posted, told,
                      refused, unread, speakingTaps, posts>>
      BY <1>11 DEF Speak!Connect, Speak!line, Speak!hearts, Speak!composer, Speak!server,
         Speak!ghost, Speak!counts
    <3>2. speakingSock' = "open" /\ speakingRetry' = FALSE
      BY <1>11 DEF Speak!Connect
    <3> QED BY <1>1, <3>1, <3>2 DEF SpeakPlace, SpeakScreen
  <2>3. SpeakTold'
    BY <1>1, <1>2, <1>11
    DEF SpeakTold, Speak!Connect, Speak!query, Speak!verdict, Speak!ghost
  <2>4. /\ UNCHANGED <<history, loads, speakingInbox, speakingWire, speakingLayer, wall, upvoted,
                        voted, queue>>
        /\ speakingDrops' \in 0 .. MaxSpeakDrops /\ (speakingDrops' = 0 => speakingDrops = 0)
    BY <1>1, <1>2, <1>11
    DEF Speak!Connect, Speak!query, Speak!line, Speak!hearts, Speak!server, Speak!ghost, Speak!counts
  <2> QED BY <1>3, <2>1, <2>2, <2>3, <2>4 DEF SpeakPlace
<1>12. CASE Speak!Type
  <2>1. SpeakQueries'
    BY <1>1, <1>2, <1>12
    DEF SpeakPlace, SpeakQueries, Speak!Type, Speak!query, Speak!verdict
  <2>2. SpeakScreen'
    BY <1>1, <1>2, <1>12
    DEF SpeakPlace, SpeakScreen, Speak!Type, Speak!line, Speak!hearts, Speak!composer, Speak!server,
       Speak!ghost, Speak!counts
  <2>3. SpeakTold'
    BY <1>1, <1>2, <1>12
    DEF SpeakTold, Speak!Type, Speak!query, Speak!verdict, Speak!ghost
  <2>4. /\ UNCHANGED <<history, loads, speakingInbox, speakingWire, speakingLayer, wall, upvoted,
                        voted, queue>>
        /\ speakingDrops' \in 0 .. MaxSpeakDrops /\ (speakingDrops' = 0 => speakingDrops = 0)
    BY <1>1, <1>2, <1>12
    DEF Speak!Type, Speak!query, Speak!line, Speak!hearts, Speak!server, Speak!ghost, Speak!counts
  <2> QED BY <1>3, <2>1, <2>2, <2>3, <2>4 DEF SpeakPlace
<1>13. CASE Speak!SendingEnds
  <2>1. SpeakQueries'
    BY <1>1, <1>2, <1>13
    DEF SpeakPlace, SpeakQueries, Speak!SendingEnds, Speak!query, Speak!verdict
  <2>2. SpeakScreen'
    <3>1. UNCHANGED <<speakingSock, speakingRetry, isOwn, speakingPending, draft,
                      lastDraft, speakingDialog, speakingTyping, participant, posted,
                      told, refused, unread, speakingTaps, posts>>
      BY <1>13 DEF Speak!SendingEnds, Speak!line, Speak!hearts, Speak!composer, Speak!server,
         Speak!ghost, Speak!counts
    <3>2. sending' \in BOOLEAN
      BY <1>13 DEF Speak!SendingEnds
    <3> QED BY <1>1, <3>1, <3>2 DEF SpeakPlace, SpeakScreen
  <2>3. SpeakTold'
    BY <1>1, <1>2, <1>13
    DEF SpeakTold, Speak!SendingEnds, Speak!query, Speak!verdict, Speak!ghost
  <2>4. /\ UNCHANGED <<history, loads, speakingInbox, speakingWire, speakingLayer, wall, upvoted,
                        voted, queue>>
        /\ speakingDrops' \in 0 .. MaxSpeakDrops /\ (speakingDrops' = 0 => speakingDrops = 0)
    BY <1>1, <1>2, <1>13
    DEF Speak!SendingEnds, Speak!query, Speak!line, Speak!hearts, Speak!server, Speak!ghost, Speak!counts
  <2> QED BY <1>3, <2>1, <2>2, <2>3, <2>4 DEF SpeakPlace
<1>14. CASE Speak!OtherJoins
  <2>1. SpeakQueries'
    BY <1>1, <1>2, <1>14
    DEF SpeakPlace, SpeakQueries, Speak!OtherJoins, Speak!query, Speak!verdict
  <2>2. SpeakScreen'
    BY <1>1, <1>2, <1>14
    DEF SpeakPlace, SpeakScreen, Speak!OtherJoins, Speak!line, Speak!hearts, Speak!composer, Speak!server,
       Speak!ghost, Speak!counts
  <2>3. SpeakTold'
    BY <1>1, <1>2, <1>14
    DEF SpeakTold, Speak!OtherJoins, Speak!query, Speak!verdict, Speak!ghost
  <2>4. /\ UNCHANGED <<history, loads, speakingInbox, speakingWire, speakingLayer, wall, upvoted,
                        voted, queue>>
        /\ speakingDrops' \in 0 .. MaxSpeakDrops /\ (speakingDrops' = 0 => speakingDrops = 0)
    BY <1>1, <1>2, <1>14
    DEF Speak!OtherJoins, Speak!query, Speak!line, Speak!hearts, Speak!server, Speak!ghost, Speak!counts
  <2> QED BY <1>3, <2>1, <2>2, <2>3, <2>4 DEF SpeakPlace
<1>15. CASE Speak!Dialog
  <2>1. SpeakQueries'
    BY <1>1, <1>2, <1>15
    DEF SpeakPlace, SpeakQueries, Speak!Dialog, Speak!query, Speak!verdict
  <2>2. SpeakScreen'
    BY <1>1, <1>2, <1>15
    DEF SpeakPlace, SpeakScreen, Speak!Dialog, Speak!line, Speak!hearts, Speak!composer, Speak!server,
       Speak!ghost, Speak!counts
  <2>3. SpeakTold'
    BY <1>1, <1>2, <1>15
    DEF SpeakTold, Speak!Dialog, Speak!query, Speak!verdict, Speak!ghost
  <2>4. /\ UNCHANGED <<history, loads, speakingInbox, speakingWire, speakingLayer, wall, upvoted,
                        voted, queue>>
        /\ speakingDrops' \in 0 .. MaxSpeakDrops /\ (speakingDrops' = 0 => speakingDrops = 0)
    BY <1>1, <1>2, <1>15
    DEF Speak!Dialog, Speak!query, Speak!line, Speak!hearts, Speak!server, Speak!ghost, Speak!counts
  <2> QED BY <1>3, <2>1, <2>2, <2>3, <2>4 DEF SpeakPlace
<1>16. CASE Speak!DialogCloses
  <2>1. SpeakQueries'
    BY <1>1, <1>2, <1>16
    DEF SpeakPlace, SpeakQueries, Speak!DialogCloses, Speak!query, Speak!verdict
  <2>2. SpeakScreen'
    BY <1>1, <1>2, <1>16
    DEF SpeakPlace, SpeakScreen, Speak!DialogCloses, Speak!line, Speak!hearts, Speak!composer, Speak!server,
       Speak!ghost, Speak!counts
  <2>3. SpeakTold'
    BY <1>1, <1>2, <1>16
    DEF SpeakTold, Speak!DialogCloses, Speak!query, Speak!verdict, Speak!ghost
  <2>4. /\ UNCHANGED <<history, loads, speakingInbox, speakingWire, speakingLayer, wall, upvoted,
                        voted, queue>>
        /\ speakingDrops' \in 0 .. MaxSpeakDrops /\ (speakingDrops' = 0 => speakingDrops = 0)
    BY <1>1, <1>2, <1>16
    DEF Speak!DialogCloses, Speak!query, Speak!line, Speak!hearts, Speak!server, Speak!ghost, Speak!counts
  <2> QED BY <1>3, <2>1, <2>2, <2>3, <2>4 DEF SpeakPlace
<1>17. CASE Speak!Reconnect
  <2>1. SpeakQueries'
    BY <1>1, <1>2, <1>17
    DEF SpeakPlace, SpeakQueries, Speak!Reconnect, Speak!query, Speak!verdict
  <2>2. SpeakScreen'
    BY <1>1, <1>2, <1>17
    DEF SpeakPlace, SpeakScreen, Speak!Reconnect, Speak!line, Speak!hearts, Speak!composer, Speak!server,
       Speak!ghost, Speak!counts
  <2>3. SpeakTold'
    BY <1>1, <1>2, <1>17
    DEF SpeakTold, Speak!Reconnect, Speak!query, Speak!verdict, Speak!ghost
  <2>4. /\ UNCHANGED <<history, loads, speakingInbox, speakingWire, speakingLayer, wall, upvoted,
                        voted, queue>>
        /\ speakingDrops' \in 0 .. MaxSpeakDrops /\ (speakingDrops' = 0 => speakingDrops = 0)
    BY <1>1, <1>2, <1>17
    DEF Speak!Reconnect, Speak!query, Speak!line, Speak!hearts, Speak!server, Speak!ghost, Speak!counts
  <2> QED BY <1>3, <2>1, <2>2, <2>3, <2>4 DEF SpeakPlace
<1>18. CASE Speak!JoinFails
  <2>1. SpeakQueries'
    BY <1>1, <1>2, <1>18
    DEF SpeakPlace, SpeakQueries, Speak!JoinFails, Speak!Idle, Speak!Call, Speak!query, Speak!verdict
  <2>2. SpeakScreen'
    <3>1. UNCHANGED <<speakingSock, speakingRetry, isOwn, speakingPending, draft,
                      lastDraft, sending, speakingDialog, speakingTyping, posted, told,
                      refused, unread, posts>>
      BY <1>18 DEF Speak!JoinFails, Speak!line, Speak!hearts, Speak!composer, Speak!server,
         Speak!ghost, Speak!counts
    <3>2. speakingTaps' \in 0 .. MaxSpeakTaps
      <4>1. speakingTaps \in 0 .. MaxSpeakTaps
        BY <1>1 DEF SpeakPlace, SpeakScreen
      <4>2. speakingTaps < MaxSpeakTaps /\ speakingTaps' = speakingTaps + 1
        BY <1>18 DEF Speak!JoinFails
      <4> QED BY <1>2, <4>1, <4>2
    <3>3. participant' \in BOOLEAN
      <4>1. participant \in BOOLEAN
        BY <1>1 DEF SpeakPlace, SpeakScreen
      <4>2. participant' = participant \/ participant' = TRUE
        BY <1>18 DEF Speak!JoinFails
      <4> QED BY <4>1, <4>2
    <3> QED BY <1>1, <3>1, <3>2, <3>3 DEF SpeakPlace, SpeakScreen
  <2>3. SpeakTold'
    BY <1>1, <1>2, <1>18
    DEF SpeakTold, Speak!JoinFails, Speak!Idle, Speak!Call, Speak!query, Speak!verdict, Speak!ghost
  <2>4. /\ UNCHANGED <<history, loads, speakingInbox, speakingWire, speakingLayer, wall, upvoted,
                        voted, queue>>
        /\ speakingDrops' \in 0 .. MaxSpeakDrops /\ (speakingDrops' = 0 => speakingDrops = 0)
    BY <1>1, <1>2, <1>18
    DEF Speak!JoinFails, Speak!query, Speak!line, Speak!hearts, Speak!server, Speak!ghost, Speak!counts
  <2> QED BY <1>3, <2>1, <2>2, <2>3, <2>4 DEF SpeakPlace
<1> QED BY <1>4, <1>5, <1>6, <1>7, <1>8, <1>9, <1>10, <1>11, <1>12, <1>13, <1>14, <1>15, <1>16,
           <1>17, <1>18

\* What others do is broadcast, and a heart can be tapped again.
LEMMA SpeakHearing ==
    ASSUME SpeakInv,
           \/ Speak!OtherTab \/ Speak!SomebodyTypes \/ Speak!HearTyping
           \/ \E m \in Speak!Message : Speak!VoteTimeout(m)
    PROVE  SpeakInv'
<1>1. /\ SpeakPlace /\ SpeakTold /\ SpeakHall
      /\ speakingDrops \in 0 .. MaxSpeakDrops
  BY DEF SpeakInv, SpeakHearts
<1>2. SpeakQueries /\ SpeakScreen
  BY <1>1 DEF SpeakPlace
<1>3. MaxSpeakTaps \in Nat
  BY PagesAssumption
<1>4. "own" \in Speak!Message /\ "theirs" \in Speak!Message
  BY DEF Speak!Message
<1>9. /\ speakingLayer \in Seq(Broadcasts)
      /\ \A f \in Broadcasts : Append(speakingLayer, f) \in Seq(Broadcasts)
  BY <1>1, AppendProperties DEF SpeakHall
<1>5. CASE Speak!OtherTab
  <2>1. SpeakHall'
    <3>1. Speak!Frame("message", "own", TRUE) \in Broadcasts
      BY SpeakFrames
    <3>2. \/ speakingLayer' = Append(speakingLayer, Speak!Frame("message", "own", TRUE))
          \/ speakingLayer' = speakingLayer
      BY <1>5 DEF Speak!OtherTab
    <3> QED BY <1>9, <3>1, <3>2 DEF SpeakHall
  <2>2. SpeakQueries' /\ SpeakTold'
    BY <1>1, <1>2, <1>5 DEF SpeakQueries, SpeakTold, Speak!OtherTab, Speak!query, Speak!verdict,
       Speak!ghost
  <2>3. SpeakScreen'
    BY <1>2, <1>5 DEF SpeakScreen, Speak!OtherTab, Speak!hearts, Speak!composer, Speak!ghost,
       Speak!counts
  <2>4. UNCHANGED <<history, loads, speakingInbox, speakingWire, wall, upvoted, voted, queue,
                    speakingDrops>>
    BY <1>5 DEF Speak!OtherTab, Speak!query, Speak!hearts, Speak!ghost, Speak!counts
  <2> QED BY <1>1, <2>1, <2>2, <2>3, <2>4, SpeakStill DEF SpeakPlace
<1>6. CASE Speak!SomebodyTypes
  <2>1. SpeakHall'
    <3>1. /\ Speak!Frame("typing", "theirs", TRUE) \in Broadcasts
          /\ Speak!Frame("typing", "theirs", FALSE) \in Broadcasts
      BY <1>4, SpeakFrames
    <3>2. \/ speakingLayer' = Append(speakingLayer, Speak!Frame("typing", "theirs", TRUE))
          \/ speakingLayer' = <<Speak!Frame("typing", "theirs", TRUE),
                                Speak!Frame("typing", "theirs", FALSE)>>
      BY <1>6 DEF Speak!SomebodyTypes, Speak!Broadcasts
    <3>3. <<Speak!Frame("typing", "theirs", TRUE), Speak!Frame("typing", "theirs", FALSE)>>
            \in Seq(Broadcasts)
      BY <3>1, TwoFrames
    <3> QED BY <1>9, <3>1, <3>2, <3>3 DEF SpeakHall
  <2>2. SpeakQueries' /\ SpeakTold'
    BY <1>1, <1>2, <1>6 DEF SpeakQueries, SpeakTold, Speak!SomebodyTypes, Speak!query,
       Speak!verdict, Speak!ghost
  <2>3. SpeakScreen'
    BY <1>2, <1>3, <1>6 DEF SpeakScreen, Speak!SomebodyTypes, Speak!hearts, Speak!composer,
       Speak!server, Speak!ghost
  <2>4. UNCHANGED <<history, loads, speakingInbox, speakingWire, wall, upvoted, voted, queue,
                    speakingDrops>>
    BY <1>6 DEF Speak!SomebodyTypes, Speak!query, Speak!hearts, Speak!server, Speak!ghost
  <2> QED BY <1>1, <2>1, <2>2, <2>3, <2>4, SpeakStill DEF SpeakPlace
<1>7. CASE Speak!HearTyping
  <2>1. SpeakHall' /\ Head(speakingLayer).b \in BOOLEAN
    <3>1. speakingLayer # <<>> /\ speakingLayer' = Tail(speakingLayer)
      BY <1>7 DEF Speak!HearTyping, Speak!Relays
    <3>2. Tail(speakingLayer) \in Seq(Broadcasts) /\ Head(speakingLayer) \in Broadcasts
      BY <1>1, <3>1, TailShift DEF SpeakHall
    <3>3. \A f \in SpeakFrame : f.b \in BOOLEAN
      BY DEF SpeakFrame
    <3> QED BY <3>1, <3>2, <3>3, SpeakFrames DEF SpeakHall
  <2>2. SpeakQueries' /\ SpeakTold'
    BY <1>1, <1>2, <1>7 DEF SpeakQueries, SpeakTold, Speak!HearTyping, Speak!query,
       Speak!verdict, Speak!ghost
  <2>3. SpeakScreen'
    BY <1>2, <1>7, <2>1 DEF SpeakScreen, Speak!HearTyping, Speak!hearts, Speak!server,
       Speak!ghost, Speak!counts
  <2>4. UNCHANGED <<history, loads, speakingInbox, speakingWire, wall, upvoted, voted, queue,
                    speakingDrops>>
    BY <1>7 DEF Speak!HearTyping, Speak!query, Speak!hearts, Speak!server, Speak!ghost,
       Speak!counts
  <2> QED BY <1>1, <2>1, <2>2, <2>3, <2>4, SpeakStill DEF SpeakPlace
<1>8. ASSUME NEW m \in Speak!Message, Speak!VoteTimeout(m) PROVE SpeakInv'
  <2>1. SpeakHall'
    BY <1>1, <1>8 DEF SpeakHall, Speak!VoteTimeout, Speak!line
  <2>2. SpeakQueries' /\ SpeakTold'
    BY <1>1, <1>2, <1>8 DEF SpeakQueries, SpeakTold, Speak!VoteTimeout, Speak!query,
       Speak!verdict, Speak!ghost
  <2>3. SpeakScreen'
    BY <1>2, <1>8 DEF SpeakScreen, Speak!VoteTimeout, Speak!line, Speak!composer, Speak!server,
       Speak!ghost, Speak!counts
  <2>4. UNCHANGED <<history, loads, speakingInbox, speakingWire, wall, upvoted, voted, queue,
                    speakingDrops>>
    BY <1>8 DEF Speak!VoteTimeout, Speak!query, Speak!line, Speak!server, Speak!ghost,
       Speak!counts
  <2> QED BY <1>1, <2>1, <2>2, <2>3, <2>4, SpeakStill DEF SpeakPlace
<1> QED BY <1>5, <1>6, <1>7, <1>8

\* A verdict, and the load that it may start.
LEMMA SpeakVerdicts ==
    ASSUME SpeakInv, Speak!State \/ Speak!Joined
    PROVE  SpeakInv'
<1>1. /\ SpeakPlace /\ SpeakTold /\ SpeakLine /\ SpeakHall /\ SpeakHearts /\ SpeakOwn
      /\ SpeakBefore /\ SpeakAfter
  BY DEF SpeakInv
<1>2. SpeakQueries /\ SpeakScreen
  BY <1>1 DEF SpeakPlace
<1>3. Speak!Idle \in Speak!Call
  BY DEF Speak!Idle, Speak!Call
<1>4. state.joined \in BOOLEAN /\ state.posted \in BOOLEAN /\ joining.posted \in BOOLEAN
  BY <1>2 DEF SpeakQueries, Speak!Call
<1>5. SpeakQueries'
  <2>1. CASE Speak!State
    BY <1>2, <1>3, <1>4, <2>1 DEF SpeakQueries, Speak!State, Speak!Adopt
  <2>2. CASE Speak!Joined
    BY <1>2, <1>3, <1>4, <2>2 DEF SpeakQueries, Speak!Joined
  <2> QED BY <2>1, <2>2
<1>6. UNCHANGED <<speakingSock, speakingRetry, isOwn, speakingPending, draft, lastDraft, sending,
                  speakingDialog, speakingTyping, participant, posted, refused, unread,
                  speakingTaps, posts, speakingInbox, speakingWire, speakingLayer, wall, upvoted, voted, queue,
                  speakingDrops>>
  BY DEF Speak!State, Speak!Joined, Speak!line, Speak!hearts, Speak!composer, Speak!server,
     Speak!counts
<1>7. SpeakScreen'
  <2>1. told' \in BOOLEAN
    BY <1>2, <1>4 DEF SpeakScreen, Speak!State, Speak!Joined, Speak!Adopt
  <2> QED BY <1>2, <1>6, <2>1 DEF SpeakScreen
<1>8. SpeakLine' /\ SpeakHall'
  BY <1>1, <1>6 DEF SpeakLine, SpeakHall
<1>9. told' => hasPosted'
  BY <1>1 DEF SpeakTold, Speak!State, Speak!Joined, Speak!Adopt
<1>10. seeded' = joined'
  <2>1. CASE Speak!State
    <3>1. joined' = (joined \/ state.joined) /\ seeded' = (seeded \/ state.joined)
      BY <2>1 DEF Speak!State
    <3>2. seeded = joined
      BY <1>1 DEF SpeakTold
    <3> QED BY <3>1, <3>2, Zenon
  <2>2. CASE Speak!Joined
    BY <2>2 DEF Speak!Joined
  <2> QED BY <2>1, <2>2
<1>11. \/ UNCHANGED <<history, loads>>
       \/ (\E l \in Speak!Loader : Speak!Load(l)) /\ joined' /\ joining'.pc = "idle" /\ loads <= 1
       \/ (\E l \in Speak!Loader : Speak!Load(l)) /\ joined' /\ loads = 0
  <2>1. "state" \in Speak!Loader /\ "join" \in Speak!Loader /\ Speak!Idle.pc = "idle"
    BY DEF Speak!Loader, Speak!Idle
  <2>2. CASE Speak!State
    BY <1>1, <2>1, <2>2 DEF Speak!State, SpeakTold
  <2>3. CASE Speak!Joined
    <3>1. loads <= 1
      BY <1>1, <2>3 DEF SpeakTold, Speak!Joined
    <3> QED BY <2>1, <2>3, <3>1 DEF Speak!Joined
  <2> QED BY <2>2, <2>3
<1>12. loads \in 0 .. 2
  BY <1>1 DEF SpeakHearts
<1>13. (~ joined' => loads' = 0) /\ (joined' => joining'.pc = "idle" \/ loads' = 1)
  <2>1. CASE Speak!State
    <3>1. joining' = joining
      BY <2>1 DEF Speak!State
    <3>2. CASE state.joined /\ ~ seeded
      <4>1. loads' = loads + 1 /\ loads = 0 /\ joined'
        BY <1>1, <2>1, <3>2 DEF Speak!State, Speak!Load, SpeakTold
      <4> QED BY <4>1
    <3>3. CASE ~ (state.joined /\ ~ seeded)
      <4>1. loads' = loads /\ (joined' <=> joined)
        BY <1>1, <2>1, <3>3 DEF Speak!State, SpeakTold
      <4> QED BY <1>1, <3>1, <4>1 DEF SpeakTold
    <3> QED BY <3>2, <3>3
  <2>2. CASE Speak!Joined
    BY <2>2 DEF Speak!Joined, Speak!Idle
  <2> QED BY <2>1, <2>2
<1>14. SpeakTold'
  BY <1>9, <1>10, <1>13 DEF SpeakTold
<1>15. (NoVote' <=> NoVote) /\ (NoAck' <=> NoAck)
  BY <1>6 DEF NoVote, NoAck
<1>16. SpeakOwn'
  BY <1>1, <1>6 DEF SpeakOwn
<1>17. CASE UNCHANGED <<history, loads>>
  <2>1. SpeakPlace'
    BY <1>5, <1>7 DEF SpeakPlace
  <2>2. speakingDrops' \in 0 .. MaxSpeakDrops
    BY <1>1, <1>6 DEF SpeakHearts
  <2> QED BY <1>6, <1>8, <1>14, <1>17, <2>1, <2>2, SpeakStill
<1>18. ASSUME NEW l \in Speak!Loader, Speak!Load(l), loads <= 1 PROVE SpeakInv'
  <2>1. /\ Speak!Asked(Speak!NoRows) \in Speak!Rows /\ Speak!Asked(Speak!NoRows).pc = "asked"
        /\ Speak!Asked(Speak!NoRows).upvoted = {}
    BY DEF Speak!Asked, Speak!NoRows, Speak!Rows
  <2>2. loads' = loads + 1 /\ loads' \in 1 .. 2
    BY <1>12, <1>18 DEF Speak!Load
  <2>3. /\ history' \in [Speak!Loader -> Speak!Rows] /\ history'[l] = Speak!Asked(Speak!NoRows)
        /\ \A k \in Speak!Loader : k # l => history'[k] = history[k]
    BY <1>1, <1>18, <2>1 DEF SpeakHearts, Speak!Load
  <2>4. SpeakHearts'
    BY <1>1, <1>6, <2>1, <2>2, <2>3 DEF SpeakHearts
  <2>5. SpeakBefore'
    <3> SUFFICES ASSUME speakingDrops' = 0, loads' <= 1, "theirs" \notin wall'
                 PROVE  /\ "theirs" \notin upvoted' /\ voted' = {} /\ NoVote' /\ NoAck'
                        /\ queue'["theirs"] \in {"none", "count"}
                        /\ \A k \in Speak!Loader : history'[k].upvoted = {}
                        /\ \A j, k \in Speak!Loader :
                             history'[j].pc # "idle" /\ history'[k].pc # "idle" => j = k
      BY DEF SpeakBefore
    <3>1. loads = 0 /\ \A k \in Speak!Loader : history[k].pc = "idle"
      BY <1>1, <1>12, <2>2 DEF SpeakHearts
    <3>2. /\ "theirs" \notin upvoted /\ voted = {} /\ NoVote /\ NoAck
          /\ queue["theirs"] \in {"none", "count"}
          /\ \A k \in Speak!Loader : history[k].upvoted = {}
      BY <1>1, <1>6, <3>1 DEF SpeakBefore
    <3> QED BY <1>6, <1>15, <2>1, <2>3, <3>1, <3>2
  <2>6. SpeakAfter'
    <3> SUFFICES ASSUME loads' <= 1, "theirs" \in wall' PROVE FALSE
      BY DEF SpeakAfter
    <3>1. loads = 0
      BY <1>12, <2>2
    <3> QED BY <1>1, <1>6, <3>1 DEF SpeakHearts
  <2> QED BY <1>5, <1>7, <1>8, <1>14, <1>16, <2>4, <2>5, <2>6 DEF SpeakInv, SpeakPlace
<1> QED BY <1>11, <1>17, <1>18

\* The rows of the wall are read, and shown, or not.
LEMMA SpeakRows ==
    ASSUME SpeakInv, Speak!ServeHistory \/ Speak!History \/ Speak!HistoryFails
    PROVE  SpeakInv'
<1>1. /\ SpeakPlace /\ SpeakTold /\ SpeakLine /\ SpeakHall /\ SpeakHearts /\ SpeakOwn
      /\ SpeakBefore /\ SpeakAfter
  BY DEF SpeakInv
<1>2. SpeakQueries /\ SpeakScreen
  BY <1>1 DEF SpeakPlace
<1>3. /\ UNCHANGED <<introDone, discussion, state, joining, resolved, joined, hasPosted,
                     postedEarlier, firstVerdict, seeded>>
      /\ UNCHANGED <<speakingSock, speakingRetry, speakingPending, draft, lastDraft, sending,
                  speakingDialog, speakingTyping, participant, posted, told, refused, speakingTaps,
                  posts, speakingInbox, speakingWire, speakingLayer, queue, voted, speakingDrops,
                  loads>>
      /\ isOwn' \in BOOLEAN /\ unread' \in BOOLEAN
  <2>1. CASE Speak!ServeHistory
    <3>1. isOwn \in BOOLEAN /\ unread \in BOOLEAN
      BY <1>2 DEF SpeakScreen
    <3> QED BY <2>1, <3>1 DEF Speak!ServeHistory, Speak!line, Speak!verdict, Speak!hearts,
       Speak!composer, Speak!server, Speak!ghost, Speak!counts
  <2>2. CASE Speak!History
    <3>1. PICK l \in Speak!Loader : isOwn' = ("own" \in history[l].wall)
      BY <2>2 DEF Speak!History
    <3>2. isOwn' \in BOOLEAN /\ unread \in BOOLEAN
      BY <1>2, <3>1 DEF SpeakScreen
    <3> QED BY <2>2, <3>2 DEF Speak!History, Speak!line, Speak!verdict, Speak!composer,
       Speak!server, Speak!ghost, Speak!counts
  <2>3. CASE Speak!HistoryFails
    <3>1. isOwn \in BOOLEAN
      BY <1>2 DEF SpeakScreen
    <3> QED BY <2>3, <3>1 DEF Speak!HistoryFails, Speak!line, Speak!verdict, Speak!hearts,
       Speak!composer, Speak!server, Speak!counts
  <2> QED BY <2>1, <2>2, <2>3
<1>4. SpeakPlace' /\ SpeakTold'
  <2>1. SpeakQueries'
    BY <1>2, <1>3 DEF SpeakQueries
  <2>2. SpeakScreen'
    BY <1>2, <1>3 DEF SpeakScreen
  <2>3. SpeakTold'
    BY <1>1, <1>3 DEF SpeakTold
  <2> QED BY <2>1, <2>2, <2>3 DEF SpeakPlace
<1>5. SpeakLine' /\ SpeakHall'
  BY <1>1, <1>3 DEF SpeakLine, SpeakHall
<1>6. (NoVote' <=> NoVote) /\ (NoAck' <=> NoAck)
  BY <1>3 DEF NoVote, NoAck
<1>7. ASSUME NEW l \in Speak!Loader, history[l].pc = "asked",
             history' = [history EXCEPT ![l] =
               [pc |-> "answer", wall |-> IF posted THEN Speak!Message ELSE {"theirs"},
                upvoted |-> voted]],
             UNCHANGED <<wall, upvoted>>
      PROVE  SpeakInv'
  <2> DEFINE row == [pc |-> "answer", wall |-> IF posted THEN Speak!Message ELSE {"theirs"},
                     upvoted |-> voted]
  <2>1. /\ row \in Speak!Rows /\ row.pc = "answer" /\ row.upvoted = voted
        /\ "theirs" \in row.wall /\ voted \subseteq {"theirs"}
    BY <1>1 DEF SpeakHearts, Speak!Rows, Speak!Message
  <2>2. /\ history' \in [Speak!Loader -> Speak!Rows] /\ history'[l] = row
        /\ \A k \in Speak!Loader : k # l => history'[k] = history[k]
    BY <1>1, <1>7, <2>1 DEF SpeakHearts
  <2> HIDE DEF row
  <2>3. loads # 0
    BY <1>1, <1>7 DEF SpeakHearts
  <2>4. SpeakHearts'
    BY <1>1, <1>3, <1>7, <2>1, <2>2, <2>3 DEF SpeakHearts
  <2>5. SpeakOwn'
    BY <1>1, <1>3, <1>7 DEF SpeakOwn
  <2>6. SpeakBefore'
    <3> SUFFICES ASSUME speakingDrops' = 0, loads' <= 1, "theirs" \notin wall'
                 PROVE  /\ "theirs" \notin upvoted' /\ voted' = {} /\ NoVote' /\ NoAck'
                        /\ queue'["theirs"] \in {"none", "count"}
                        /\ \A k \in Speak!Loader : history'[k].upvoted = {}
                        /\ \A j, k \in Speak!Loader :
                             history'[j].pc # "idle" /\ history'[k].pc # "idle" => j = k
      BY DEF SpeakBefore
    <3>1. /\ "theirs" \notin upvoted /\ voted = {} /\ NoVote /\ NoAck
          /\ queue["theirs"] \in {"none", "count"}
          /\ \A k \in Speak!Loader : history[k].upvoted = {}
          /\ \A j, k \in Speak!Loader : history[j].pc # "idle" /\ history[k].pc # "idle" => j = k
      BY <1>1, <1>3, <1>7 DEF SpeakBefore
    <3> QED BY <1>3, <1>6, <1>7, <2>1, <2>2, <3>1
  <2>7. SpeakAfter'
    BY <1>1, <1>3, <1>7 DEF SpeakAfter
  <2> QED BY <1>4, <1>5, <2>4, <2>5, <2>6, <2>7 DEF SpeakInv
<1>8. ASSUME NEW l \in Speak!Loader, history[l].pc = "answer",
             history' = [history EXCEPT ![l] = Speak!NoRows],
             wall' = history[l].wall, upvoted' = history[l].upvoted
      PROVE  SpeakInv'
  <2>1. /\ Speak!NoRows \in Speak!Rows /\ Speak!NoRows.pc = "idle" /\ Speak!NoRows.upvoted = {}
    BY DEF Speak!NoRows, Speak!Rows
  <2>2. /\ history' \in [Speak!Loader -> Speak!Rows] /\ history'[l] = Speak!NoRows
        /\ \A k \in Speak!Loader : k # l => history'[k] = history[k]
    BY <1>1, <1>8, <2>1 DEF SpeakHearts
  <2>3. /\ wall' \subseteq Speak!Message /\ upvoted' \subseteq {"theirs"}
        /\ upvoted' \subseteq Speak!Message /\ "theirs" \in wall'
    BY <1>1, <1>8 DEF SpeakHearts, Speak!Rows
  <2>4. loads # 0
    BY <1>1, <1>8 DEF SpeakHearts
  <2>5. SpeakHearts'
    BY <1>1, <1>3, <2>1, <2>2, <2>3, <2>4 DEF SpeakHearts
  <2>6. SpeakOwn'
    BY <2>3 DEF SpeakOwn
  <2>7. SpeakBefore'
    BY <2>3 DEF SpeakBefore
  <2>8. SpeakAfter'
    <3> SUFFICES ASSUME speakingDrops' = 0, loads' <= 1
                 PROVE  /\ \A k \in Speak!Loader : history'[k].pc = "idle"
                        /\ NoAck' /\ queue'["theirs"] \in {"none", "count"}
                        /\ "theirs" \notin upvoted' /\ voted' = {}
      BY DEF SpeakAfter, NoAck
    <3>1. "theirs" \notin wall
      BY <1>1, <1>3, <1>8 DEF SpeakAfter
    <3>2. /\ voted = {} /\ NoAck /\ queue["theirs"] \in {"none", "count"}
          /\ \A k \in Speak!Loader : history[k].upvoted = {}
          /\ \A j, k \in Speak!Loader : history[j].pc # "idle" /\ history[k].pc # "idle" => j = k
      BY <1>1, <1>3, <3>1 DEF SpeakBefore
    <3> QED BY <1>3, <1>6, <1>8, <2>1, <2>2, <3>2
  <2> QED BY <1>4, <1>5, <2>5, <2>6, <2>7, <2>8 DEF SpeakInv
<1>9. CASE Speak!ServeHistory
  BY <1>7, <1>9 DEF Speak!ServeHistory, Speak!hearts
<1>10. CASE Speak!History
  BY <1>8, <1>10 DEF Speak!History
<1>11. ASSUME NEW l \in Speak!Loader, history[l].pc = "asked",
              history' = [history EXCEPT ![l] = Speak!NoRows],
              UNCHANGED <<wall, upvoted>>
       PROVE  SpeakInv'
  <2>1. /\ Speak!NoRows \in Speak!Rows /\ Speak!NoRows.pc = "idle" /\ Speak!NoRows.upvoted = {}
    BY DEF Speak!NoRows, Speak!Rows
  <2>2. /\ history' \in [Speak!Loader -> Speak!Rows] /\ history'[l] = Speak!NoRows
        /\ \A k \in Speak!Loader : k # l => history'[k] = history[k]
    BY <1>1, <1>11, <2>1 DEF SpeakHearts
  <2>3. loads # 0
    BY <1>1, <1>11 DEF SpeakHearts
  <2>4. SpeakHearts'
    BY <1>1, <1>3, <1>11, <2>1, <2>2, <2>3 DEF SpeakHearts
  <2>5. SpeakOwn'
    BY <1>1, <1>3, <1>11 DEF SpeakOwn
  <2>6. SpeakBefore'
    <3> SUFFICES ASSUME speakingDrops' = 0, loads' <= 1, "theirs" \notin wall'
                 PROVE  /\ "theirs" \notin upvoted' /\ voted' = {} /\ NoVote' /\ NoAck'
                        /\ queue'["theirs"] \in {"none", "count"}
                        /\ \A k \in Speak!Loader : history'[k].upvoted = {}
                        /\ \A j, k \in Speak!Loader :
                             history'[j].pc # "idle" /\ history'[k].pc # "idle" => j = k
      BY DEF SpeakBefore
    <3>1. /\ "theirs" \notin upvoted /\ voted = {} /\ NoVote /\ NoAck
          /\ queue["theirs"] \in {"none", "count"}
          /\ \A k \in Speak!Loader : history[k].upvoted = {}
          /\ \A j, k \in Speak!Loader : history[j].pc # "idle" /\ history[k].pc # "idle" => j = k
      BY <1>1, <1>3, <1>11 DEF SpeakBefore
    <3> QED BY <1>3, <1>6, <1>11, <2>1, <2>2, <3>1
  <2>7. SpeakAfter'
    BY <1>1, <1>3, <1>11 DEF SpeakAfter
  <2> QED BY <1>4, <1>5, <2>4, <2>5, <2>6, <2>7 DEF SpeakInv
<1>12. CASE Speak!HistoryFails
  BY <1>11, <1>12 DEF Speak!HistoryFails, Speak!hearts
<1> QED BY <1>9, <1>10, <1>12

\* An outage empties the line; a response is sent.
LEMMA SpeakDrops == ASSUME SpeakInv, Speak!Drop PROVE SpeakInv'
<1>1. /\ SpeakPlace /\ SpeakTold /\ SpeakHearts
  BY DEF SpeakInv
<1>2. SpeakQueries /\ SpeakScreen
  BY <1>1 DEF SpeakPlace
<1>3. speakingDrops' \in 0 .. MaxSpeakDrops /\ speakingDrops' # 0
  BY <1>1, PagesAssumption DEF SpeakHearts, Speak!Drop
<1>4. SpeakQueries' /\ SpeakTold'
  BY <1>1, <1>2 DEF SpeakQueries, SpeakTold, Speak!Drop, Speak!query, Speak!verdict, Speak!ghost
<1>5. SpeakScreen'
  BY <1>2 DEF SpeakScreen, Speak!Drop, Speak!hearts, Speak!server, Speak!ghost
<1>6. SpeakLine' /\ SpeakHall'
  BY NoFrames DEF SpeakLine, SpeakHall, Speak!Drop
<1>7. SpeakHearts'
  BY <1>1, <1>3 DEF SpeakHearts, Speak!Drop, Speak!query, Speak!hearts, Speak!server, Speak!ghost
<1>8. SpeakOwn' /\ SpeakBefore' /\ SpeakAfter'
  BY <1>3 DEF SpeakOwn, SpeakBefore, SpeakAfter
<1> QED BY <1>4, <1>5, <1>6, <1>7, <1>8 DEF SpeakInv, SpeakPlace

LEMMA SpeakSubmits == ASSUME SpeakInv, Speak!Submit PROVE SpeakInv'
<1>1. /\ SpeakPlace /\ SpeakTold /\ SpeakLine /\ SpeakHall /\ SpeakHearts /\ SpeakOwn
      /\ SpeakBefore /\ SpeakAfter
  BY DEF SpeakInv
<1>2. SpeakQueries /\ SpeakScreen
  BY <1>1 DEF SpeakPlace
<1>3. /\ UNCHANGED <<history, loads, wall, upvoted, voted, queue, speakingDrops, speakingWire,
                     speakingLayer>>
      /\ speakingInbox' = Append(speakingInbox, Speak!Frame("post", "own", TRUE))
  BY DEF Speak!Submit, Speak!query, Speak!hearts, Speak!server, Speak!ghost
<1>4. SpeakQueries' /\ SpeakTold'
  BY <1>1, <1>2 DEF SpeakQueries, SpeakTold, Speak!Submit, Speak!query, Speak!verdict, Speak!ghost
<1>5. SpeakScreen'
  <2>1. posts' \in 0 .. MaxPosts
    BY <1>2, PagesAssumption DEF SpeakScreen, Speak!Submit
  <2> QED BY <1>2, <2>1 DEF SpeakScreen, Speak!Submit, Speak!hearts, Speak!server, Speak!ghost
<1>6. Speak!Frame("post", "own", TRUE) \in Asks /\ Speak!Frame("post", "own", TRUE).t = "post"
  <2>1. "own" \in Speak!Message
    BY DEF Speak!Message
  <2>2. Speak!Frame("post", "own", TRUE) \in Asks
    BY <2>1, SpeakFrames
  <2>3. Speak!Frame("post", "own", TRUE).t = "post"
    BY DEF Speak!Frame
  <2> QED BY <2>2, <2>3
<1>7. speakingInbox \in Seq(Asks)
  BY <1>1 DEF SpeakLine
<1>8. /\ speakingInbox' \in Seq(Asks)
      /\ speakingInbox'[Len(speakingInbox) + 1].t = "post"
      /\ DOMAIN speakingInbox' = DOMAIN speakingInbox \cup {Len(speakingInbox) + 1}
      /\ \A i \in DOMAIN speakingInbox : speakingInbox'[i] = speakingInbox[i]
  <2> DEFINE f == Speak!Frame("post", "own", TRUE)
  <2>1. f \in Asks /\ f.t = "post" /\ speakingInbox' = Append(speakingInbox, f)
    BY <1>3, <1>6
  <2> HIDE DEF f
  <2> QED BY <1>7, <2>1, AppendShift
<1>9. SpeakLine' /\ SpeakHall'
  BY <1>1, <1>3, <1>8 DEF SpeakLine, SpeakHall
<1>10. SpeakHearts'
  BY <1>1, <1>3 DEF SpeakHearts
<1>11. SpeakOwn'
  BY <1>1, <1>3, <1>8 DEF SpeakOwn
<1>12. (NoVote' <=> NoVote) /\ (NoAck' <=> NoAck)
  BY <1>3, <1>8 DEF NoVote, NoAck
<1>13. SpeakBefore'
  BY <1>1, <1>3, <1>12 DEF SpeakBefore
<1>14. SpeakAfter'
  BY <1>1, <1>3, <1>12 DEF SpeakAfter
<1> QED BY <1>4, <1>5, <1>9, <1>10, <1>11, <1>13, <1>14 DEF SpeakInv, SpeakPlace

\* A heart is tapped.
LEMMA SpeakVotes ==
    ASSUME SpeakInv, NEW m \in Speak!Message, Speak!Vote(m)
    PROVE  SpeakInv'
<1>1. /\ SpeakPlace /\ SpeakTold /\ SpeakLine /\ SpeakHall /\ SpeakHearts /\ SpeakOwn
      /\ SpeakBefore /\ SpeakAfter
  BY DEF SpeakInv
<1>2. SpeakQueries /\ SpeakScreen
  BY <1>1 DEF SpeakPlace
<1>3. /\ UNCHANGED <<history, loads, wall, voted, speakingDrops, speakingWire, speakingLayer>>
      /\ speakingInbox' = Append(speakingInbox, Speak!Frame("vote", m, TRUE))
      /\ m \in wall /\ queue' = [queue EXCEPT ![m] = "none"]
      /\ upvoted' = IF m \in upvoted THEN upvoted \ {m} ELSE upvoted \cup {m}
  BY DEF Speak!Vote, Speak!query, Speak!server, Speak!ghost
<1>4. SpeakQueries' /\ SpeakTold'
  BY <1>1, <1>2 DEF SpeakQueries, SpeakTold, Speak!Vote, Speak!query, Speak!verdict, Speak!ghost
<1>5. SpeakScreen'
  <2>1. speakingTaps' \in 0 .. MaxSpeakTaps
    BY <1>2, PagesAssumption DEF SpeakScreen, Speak!Vote
  <2> QED BY <1>2, <2>1 DEF SpeakScreen, Speak!Vote, Speak!composer, Speak!server, Speak!ghost
<1>6. /\ speakingInbox' \in Seq(Asks)
      /\ speakingInbox'[Len(speakingInbox) + 1].t = "vote"
      /\ speakingInbox'[Len(speakingInbox) + 1].m = m
      /\ DOMAIN speakingInbox' = DOMAIN speakingInbox \cup {Len(speakingInbox) + 1}
      /\ \A i \in DOMAIN speakingInbox : speakingInbox'[i] = speakingInbox[i]
  <2> DEFINE f == Speak!Frame("vote", m, TRUE)
  <2>1. f \in Asks
    BY SpeakFrames
  <2>2. f.t = "vote" /\ f.m = m
    BY DEF Speak!Frame
  <2>3. speakingInbox' = Append(speakingInbox, f) /\ speakingInbox \in Seq(Asks)
    BY <1>1, <1>3 DEF SpeakLine
  <2> HIDE DEF f
  <2> QED BY <2>1, <2>2, <2>3, AppendShift
<1>7. SpeakLine' /\ SpeakHall'
  BY <1>1, <1>3, <1>6 DEF SpeakLine, SpeakHall
<1>8. m \in {"own", "theirs"}
  BY DEF Speak!Message
<1>9. /\ queue \in [Speak!Message -> {"none", "yes", "no", "count"}] /\ queue'[m] = "none"
      /\ queue' \in [Speak!Message -> {"none", "yes", "no", "count"}]
      /\ \A k \in Speak!Message : k # m => queue'[k] = queue[k]
  BY <1>1, <1>3 DEF SpeakHearts
<1>10. "own" \in Speak!Message /\ "theirs" \in Speak!Message
  BY DEF Speak!Message
<1>11. SpeakHearts'
  <2>1. queue'["own"] = "none"
    BY <1>1, <1>9, <1>10 DEF SpeakHearts
  <2>2. upvoted' \subseteq Speak!Message
    BY <1>1, <1>3 DEF SpeakHearts
  <2> QED BY <1>1, <1>3, <1>9, <2>1, <2>2 DEF SpeakHearts
<1>12. SpeakOwn'
  <2>1. CASE m = "own"
    BY <1>6, <2>1 DEF SpeakOwn
  <2>2. CASE m # "own"
    <3>1. "own" \in upvoted' <=> "own" \in upvoted
      BY <1>3, <2>2
    <3> QED BY <1>1, <1>3, <1>6, <3>1 DEF SpeakOwn
  <2> QED BY <2>1, <2>2
<1>13. CASE m = "own"
  <2>1. "theirs" \in upvoted' <=> "theirs" \in upvoted
    BY <1>3, <1>13
  <2>2. queue'["theirs"] = queue["theirs"]
    BY <1>9, <1>10, <1>13
  <2>3. (NoVote' <=> NoVote) /\ (NoAck' <=> NoAck)
    BY <1>3, <1>6, <1>13 DEF NoVote, NoAck
  <2>4. SpeakBefore'
    BY <1>1, <1>3, <2>1, <2>2, <2>3 DEF SpeakBefore
  <2>5. SpeakAfter'
    BY <1>1, <1>3, <2>1, <2>2, <2>3 DEF SpeakAfter
  <2> QED BY <1>4, <1>5, <1>7, <1>11, <1>12, <2>4, <2>5 DEF SpeakInv, SpeakPlace
<1>14. CASE m = "theirs"
  <2>1. "theirs" \in wall' /\ ~ NoVote'
    BY <1>3, <1>6, <1>14 DEF NoVote
  <2>2. SpeakBefore'
    BY <2>1 DEF SpeakBefore
  <2>3. SpeakAfter'
    BY <1>1, <1>3, <1>14, <2>1 DEF SpeakAfter
  <2> QED BY <1>4, <1>5, <1>7, <1>11, <1>12, <2>2, <2>3 DEF SpeakInv, SpeakPlace
<1> QED BY <1>8, <1>13, <1>14

\* The consumer answers a response, or refuses a vote.
LEMMA SpeakSays ==
    ASSUME SpeakInv, SpeakPlace', SpeakTold', SpeakHall', NEW g \in Answers, g.t # "ack",
           speakingInbox # <<>>, speakingInbox' = Tail(speakingInbox),
           speakingWire' = Append(speakingWire, g),
           UNCHANGED <<history, loads, wall, upvoted, voted, queue, speakingDrops>>,
           Head(speakingInbox).t = "vote" =>
             Head(speakingInbox).m = "own" /\ g.t = "upvote_error"
    PROVE  SpeakInv'
<1>1. /\ SpeakLine /\ SpeakHearts /\ SpeakOwn /\ SpeakBefore /\ SpeakAfter
  BY DEF SpeakInv
<1>2. /\ speakingWire' \in Seq(Answers) /\ speakingWire'[Len(speakingWire) + 1] = g
      /\ DOMAIN speakingWire' = DOMAIN speakingWire \cup {Len(speakingWire) + 1}
      /\ \A i \in DOMAIN speakingWire : speakingWire'[i] = speakingWire[i]
  BY <1>1, AppendShift DEF SpeakLine
<1>3. /\ speakingInbox' \in Seq(Asks) /\ Head(speakingInbox) = speakingInbox[1]
      /\ 1 \in DOMAIN speakingInbox
      /\ \A i \in DOMAIN speakingInbox' :
           i + 1 \in DOMAIN speakingInbox /\ speakingInbox'[i] = speakingInbox[i + 1]
      /\ \A i \in DOMAIN speakingInbox :
           i = 1 \/ (i - 1 \in DOMAIN speakingInbox' /\ speakingInbox'[i - 1] = speakingInbox[i])
  BY <1>1, TailShift DEF SpeakLine
<1>4. SpeakLine' /\ SpeakHearts'
  BY <1>1, <1>2, <1>3 DEF SpeakLine, SpeakHearts
<1>5. SpeakOwn'
  <2> SUFFICES ASSUME speakingDrops = 0, "own" \in upvoted,
                      \A i \in DOMAIN speakingWire' : speakingWire'[i].t # "upvote_error"
               PROVE  \E i \in DOMAIN speakingInbox' :
                        speakingInbox'[i].t = "vote" /\ speakingInbox'[i].m = "own"
    BY DEF SpeakOwn
  <2>1. \A i \in DOMAIN speakingWire : speakingWire[i].t # "upvote_error"
    BY <1>2
  <2>2. PICK i \in DOMAIN speakingInbox :
               speakingInbox[i].t = "vote" /\ speakingInbox[i].m = "own"
    BY <1>1, <2>1 DEF SpeakOwn
  <2>3. i # 1
    BY <1>2, <1>3, <2>2
  <2> QED BY <1>3, <2>2, <2>3
<1>6. NoAck' <=> NoAck
  BY <1>2 DEF NoAck
<1>7. NoVote' <=> NoVote
  <2>1. NoVote' => NoVote
    BY <1>3 DEF NoVote
  <2>2. NoVote => NoVote'
    BY <1>3 DEF NoVote
  <2> QED BY <2>1, <2>2
<1>8. SpeakBefore'
  BY <1>1, <1>6, <1>7 DEF SpeakBefore
<1>9. SpeakAfter'
  <2> SUFFICES ASSUME speakingDrops = 0, loads <= 1, "theirs" \in wall
               PROVE  /\ \A l \in Speak!Loader : history[l].pc = "idle"
                      /\ NoVote =>
                          /\ \A i \in DOMAIN speakingWire' :
                               /\ speakingWire'[i].t = "ack"
                               /\ \A j \in DOMAIN speakingWire' : j > i => speakingWire'[j].t # "ack"
                               => speakingWire'[i].b = (voted # {})
                          /\ NoAck =>
                               /\ queue["theirs"] = "yes" => voted # {}
                               /\ queue["theirs"] = "no" => voted = {}
                               /\ queue["theirs"] \in {"none", "count"} =>
                                    ("theirs" \in upvoted <=> voted # {})
    BY <1>6, <1>7 DEF SpeakAfter
  <2>1. \A i \in DOMAIN speakingWire' :
          /\ speakingWire'[i].t = "ack"
          /\ \A j \in DOMAIN speakingWire' : j > i => speakingWire'[j].t # "ack"
          => /\ i \in DOMAIN speakingWire /\ speakingWire'[i] = speakingWire[i]
             /\ \A j \in DOMAIN speakingWire : j > i => speakingWire[j].t # "ack"
    BY <1>2
  <2> QED BY <1>1, <2>1 DEF SpeakAfter
<1> QED BY <1>4, <1>5, <1>8, <1>9 DEF SpeakInv

LEMMA SpeakServes ==
    ASSUME SpeakInv, Speak!ServePost \/ Speak!ServeVote
    PROVE  SpeakInv'
<1>1. /\ SpeakPlace /\ SpeakTold /\ SpeakLine /\ SpeakHall /\ SpeakHearts /\ SpeakOwn
      /\ SpeakBefore /\ SpeakAfter
  BY DEF SpeakInv
<1>2. SpeakQueries /\ SpeakScreen
  BY <1>1 DEF SpeakPlace
<1>3. /\ "own" \in Speak!Message /\ "theirs" \in Speak!Message
      /\ speakingLayer \in Seq(Broadcasts)
      /\ \A f \in Broadcasts : Append(speakingLayer, f) \in Seq(Broadcasts)
  BY <1>1, AppendProperties DEF SpeakHall, Speak!Message
<1>4. SpeakQueries' /\ SpeakTold'
  <2>1. /\ UNCHANGED <<introDone, discussion, state, joining, resolved, joined, hasPosted>>
        /\ UNCHANGED <<postedEarlier, firstVerdict, seeded, told, loads>>
    BY DEF Speak!ServePost, Speak!ServeVote, Speak!query, Speak!verdict, Speak!ghost
  <2> QED BY <1>1, <1>2, <2>1 DEF SpeakQueries, SpeakTold
<1>5. posted' \in BOOLEAN
  BY <1>2 DEF SpeakScreen, Speak!ServePost, Speak!ServeVote
<1>6. SpeakScreen'
  <2>1. UNCHANGED <<speakingSock, speakingRetry, isOwn, speakingPending, draft, lastDraft, sending,
                    speakingDialog, speakingTyping, participant, told, refused, unread, speakingTaps, posts>>
    BY DEF Speak!ServePost, Speak!ServeVote, Speak!hearts, Speak!composer, Speak!ghost,
       Speak!counts
  <2> QED BY <1>2, <1>5, <2>1 DEF SpeakScreen
<1>7. /\ UNCHANGED <<history, loads, wall, upvoted, queue, speakingDrops>>
      /\ speakingInbox # <<>> /\ speakingInbox' = Tail(speakingInbox)
  BY DEF Speak!ServePost, Speak!ServeVote, Speak!query, Speak!hearts, Speak!ghost, Speak!counts
<1>8. CASE Speak!ServePost
  <2>1. /\ Speak!Frame("error", "own", FALSE) \in Answers
        /\ Speak!Frame("error", "own", TRUE) \in Answers
        /\ Speak!Frame("posted", "own", TRUE) \in Answers
        /\ Speak!Frame("message", "own", TRUE) \in Broadcasts
    BY <1>3, SpeakFrames
  <2>2. /\ Speak!Frame("error", "own", FALSE).t = "error"
        /\ Speak!Frame("error", "own", TRUE).t = "error"
        /\ Speak!Frame("posted", "own", TRUE).t = "posted"
    BY DEF Speak!Frame
  <2>3. SpeakHall'
    <3>1. \/ speakingLayer' = speakingLayer
          \/ speakingLayer' = Append(speakingLayer, Speak!Frame("message", "own", TRUE))
      BY <1>8 DEF Speak!ServePost, Speak!Broadcasts
    <3> QED BY <1>3, <2>1, <3>1 DEF SpeakHall
  <2>4. voted' = voted /\ Head(speakingInbox).t = "post"
    BY <1>8 DEF Speak!ServePost
  <2>5. \E g \in Answers : g.t # "ack" /\ speakingWire' = Append(speakingWire, g)
    <3>1. \/ speakingWire' = Append(speakingWire, Speak!Frame("error", "own", FALSE))
          \/ speakingWire' = Append(speakingWire, Speak!Frame("error", "own", TRUE))
          \/ speakingWire' = Append(speakingWire, Speak!Frame("posted", "own", TRUE))
      BY <1>8 DEF Speak!ServePost, Speak!Says
    <3> QED BY <2>1, <2>2, <3>1
  <2> QED BY <1>4, <1>6, <1>7, <2>3, <2>4, <2>5, SpeakSays DEF SpeakPlace
<1>9. CASE Speak!ServeVote /\ Head(speakingInbox).m = "own"
  <2>1. Speak!Frame("upvote_error", "own", FALSE) \in Answers
    BY SpeakFrames
  <2>2. Speak!Frame("upvote_error", "own", FALSE).t = "upvote_error"
    BY DEF Speak!Frame
  <2>3. SpeakHall' /\ voted' = voted
    BY <1>1, <1>9 DEF SpeakHall, Speak!ServeVote
  <2>4. speakingWire' = Append(speakingWire, Speak!Frame("upvote_error", "own", FALSE))
    BY <1>9 DEF Speak!ServeVote, Speak!Says
  <2> DEFINE g == Speak!Frame("upvote_error", "own", FALSE)
  <2>5. g \in Answers /\ g.t = "upvote_error" /\ speakingWire' = Append(speakingWire, g)
    BY <2>1, <2>2, <2>4
  <2> HIDE DEF g
  <2> QED BY <1>4, <1>6, <1>7, <1>9, <2>3, <2>5, SpeakSays DEF SpeakPlace
<1>10. CASE Speak!ServeVote /\ Head(speakingInbox).m # "own"
  <2> DEFINE g == Speak!Frame("ack", "theirs", voted = {})
  <2>1. /\ voted' = {"theirs"} \ voted
        /\ speakingWire' = Append(speakingWire, g)
        /\ speakingLayer' = Append(speakingLayer, Speak!Frame("upvote", "theirs", TRUE))
        /\ Head(speakingInbox).t = "vote"
    BY <1>10 DEF Speak!ServeVote, Speak!Says, Speak!Broadcasts
  <2>2. g \in Answers
    <3>1. (voted = {}) \in BOOLEAN
      OBVIOUS
    <3> QED BY <3>1, SpeakFrames
  <2>3. g.t = "ack" /\ g.b = (voted = {})
    BY DEF Speak!Frame
  <2>4. SpeakHall'
    <3>1. Speak!Frame("upvote", "theirs", TRUE) \in Broadcasts
      BY SpeakFrames
    <3> QED BY <1>3, <2>1, <3>1 DEF SpeakHall
  <2> HIDE DEF g
  <2>5. /\ speakingWire' \in Seq(Answers) /\ speakingWire'[Len(speakingWire) + 1] = g
        /\ DOMAIN speakingWire' = DOMAIN speakingWire \cup {Len(speakingWire) + 1}
        /\ \A i \in DOMAIN speakingWire :
             speakingWire'[i] = speakingWire[i] /\ i < Len(speakingWire) + 1
    BY <1>1, <2>1, <2>2, AppendShift DEF SpeakLine
  <2>6. /\ speakingInbox' \in Seq(Asks) /\ Head(speakingInbox) = speakingInbox[1]
        /\ 1 \in DOMAIN speakingInbox /\ Head(speakingInbox) \in Asks
        /\ \A i \in DOMAIN speakingInbox :
             i = 1 \/ (i - 1 \in DOMAIN speakingInbox' /\ speakingInbox'[i - 1] = speakingInbox[i])
    BY <1>1, <1>7, TailShift DEF SpeakLine
  <2>7. Head(speakingInbox).m = "theirs"
    <3>1. \A f \in Asks : f.m \in {"own", "theirs"}
      BY DEF Asks, SpeakFrame, Speak!Message
    <3> QED BY <1>10, <2>6, <3>1
  <2>8. ~ NoVote
    BY <2>1, <2>6, <2>7 DEF NoVote
  <2>9. SpeakLine'
    BY <2>5, <2>6 DEF SpeakLine
  <2>10. SpeakHearts'
    BY <1>1, <1>7, <2>1 DEF SpeakHearts
  <2>11. SpeakOwn'
    BY <1>1, <1>7, <1>10, <2>5, <2>6 DEF SpeakOwn
  <2>12. SpeakBefore'
    BY <1>1, <1>7, <2>8 DEF SpeakBefore
  <2>13. SpeakAfter'
    <3>1. /\ ~ NoAck'
          /\ \A i \in DOMAIN speakingWire' :
               \/ i = Len(speakingWire) + 1
               \/ \E j \in DOMAIN speakingWire' : j > i /\ speakingWire'[j].t = "ack"
      BY <2>3, <2>5 DEF NoAck
    <3>2. speakingWire'[Len(speakingWire) + 1].b = (voted' # {})
      <4>1. (voted = {}) <=> (voted' # {})
        BY <1>1, <2>1 DEF SpeakHearts
      <4> QED BY <2>3, <2>5, <4>1
    <3>3. \A i \in DOMAIN speakingWire' :
            /\ speakingWire'[i].t = "ack"
            /\ \A j \in DOMAIN speakingWire' : j > i => speakingWire'[j].t # "ack"
            => speakingWire'[i].b = (voted' # {})
      BY <3>1, <3>2
    <3> QED BY <1>1, <1>7, <3>1, <3>3 DEF SpeakAfter
  <2> QED BY <1>4, <1>6, <2>4, <2>9, <2>10, <2>11, <2>12, <2>13 DEF SpeakInv, SpeakPlace
<1> QED BY <1>8, <1>9, <1>10

\* The page hears that its response is in, or is refused.
LEMMA SpeakHears ==
    ASSUME SpeakInv, Speak!HearPosted \/ Speak!HearError
    PROVE  SpeakInv'
<1>1. /\ SpeakPlace /\ SpeakTold /\ SpeakLine /\ SpeakHall /\ SpeakHearts /\ SpeakOwn
      /\ SpeakBefore /\ SpeakAfter
  BY DEF SpeakInv
<1>2. SpeakQueries /\ SpeakScreen
  BY <1>1 DEF SpeakPlace
<1>3. /\ UNCHANGED <<history, loads, wall, upvoted, voted, queue, speakingDrops, speakingInbox,
                     speakingLayer>>
      /\ speakingWire # <<>> /\ speakingWire' = Tail(speakingWire)
      /\ Head(speakingWire).t \in {"posted", "error"}
  BY DEF Speak!HearPosted, Speak!HearError, Speak!Hears, Speak!query, Speak!hearts,
     Speak!server, Speak!counts
<1>4. /\ speakingWire' \in Seq(Answers) /\ Head(speakingWire) = speakingWire[1]
      /\ Head(speakingWire) \in Answers
      /\ \A i \in DOMAIN speakingWire' :
           i + 1 \in DOMAIN speakingWire /\ speakingWire'[i] = speakingWire[i + 1]
      /\ \A i \in DOMAIN speakingWire :
           i = 1 \/ (i - 1 \in DOMAIN speakingWire' /\ speakingWire'[i - 1] = speakingWire[i])
  BY <1>1, <1>3, TailShift DEF SpeakLine
<1>5. SpeakQueries'
  <2>1. CASE Speak!HearPosted
    BY <1>2, <2>1 DEF SpeakQueries, Speak!HearPosted, Speak!query
  <2>2. CASE Speak!HearError
    BY <1>2, <2>2 DEF SpeakQueries, Speak!HearError, Speak!query, Speak!verdict
  <2> QED BY <2>1, <2>2
<1>6. SpeakTold'
  <2>1. CASE Speak!HearPosted
    BY <1>1, <2>1 DEF SpeakTold, Speak!HearPosted, Speak!query
  <2>2. CASE Speak!HearError
    BY <1>1, <2>2 DEF SpeakTold, Speak!HearError, Speak!query, Speak!verdict
  <2> QED BY <2>1, <2>2
<1>7. SpeakScreen'
  <2>1. CASE Speak!HearPosted
    <3>1. isOwn' \in BOOLEAN
      <4>1. isOwn' = (isOwn \/ "own" \in wall)
        BY <2>1 DEF Speak!HearPosted
      <4> QED BY <4>1
    <3> QED BY <1>2, <2>1, <3>1 DEF SpeakScreen, Speak!HearPosted, Speak!server, Speak!counts
  <2>2. CASE Speak!HearError
    <3>1. refused' \in BOOLEAN
      <4>1. refused' = (refused \/ Head(speakingWire).b)
        BY <2>2 DEF Speak!HearError
      <4> QED BY <4>1
    <3> QED BY <1>2, <2>2, <3>1 DEF SpeakScreen, Speak!HearError, Speak!hearts, Speak!server,
       Speak!counts
  <2> QED BY <2>1, <2>2
<1>8. SpeakLine' /\ SpeakHall'
  BY <1>1, <1>3, <1>4 DEF SpeakLine, SpeakHall
<1>9. SpeakHearts'
  BY <1>1, <1>3 DEF SpeakHearts
<1>10. SpeakOwn'
  <2> SUFFICES ASSUME speakingDrops = 0, "own" \in upvoted,
                      ~ \E i \in DOMAIN speakingInbox :
                          speakingInbox[i].t = "vote" /\ speakingInbox[i].m = "own"
               PROVE  \E i \in DOMAIN speakingWire' : speakingWire'[i].t = "upvote_error"
    BY <1>3 DEF SpeakOwn
  <2>1. PICK i \in DOMAIN speakingWire : speakingWire[i].t = "upvote_error"
    BY <1>1 DEF SpeakOwn
  <2>2. i # 1
    BY <1>3, <1>4, <2>1
  <2> QED BY <1>4, <2>1, <2>2
<1>11. NoVote' <=> NoVote
  BY <1>3 DEF NoVote
<1>12. NoAck' <=> NoAck
  <2>1. NoAck' => NoAck
    BY <1>3, <1>4 DEF NoAck
  <2>2. NoAck => NoAck'
    BY <1>4 DEF NoAck
  <2> QED BY <2>1, <2>2
<1>13. SpeakBefore'
  BY <1>1, <1>3, <1>11, <1>12 DEF SpeakBefore
<1>14. SpeakAfter'
  <2>1. \A i \in DOMAIN speakingWire' :
          /\ speakingWire'[i].t = "ack"
          /\ \A j \in DOMAIN speakingWire' : j > i => speakingWire'[j].t # "ack"
          => /\ i + 1 \in DOMAIN speakingWire /\ speakingWire'[i] = speakingWire[i + 1]
             /\ \A j \in DOMAIN speakingWire : j > i + 1 => speakingWire[j].t # "ack"
    <3> SUFFICES ASSUME NEW i \in DOMAIN speakingWire',
                        \A j \in DOMAIN speakingWire' : j > i => speakingWire'[j].t # "ack",
                        NEW j \in DOMAIN speakingWire, j > i + 1
                 PROVE  speakingWire[j].t # "ack"
      BY <1>4
    <3>1. i \in Nat \ {0} /\ j \in Nat
      BY <1>1, <1>4, LenProperties DEF SpeakLine
    <3>2. j - 1 \in DOMAIN speakingWire' /\ speakingWire'[j - 1] = speakingWire[j] /\ j - 1 > i
      BY <1>4, <3>1
    <3> QED BY <3>2
  <2> QED BY <1>1, <1>3, <1>11, <1>12, <2>1 DEF SpeakAfter
<1> QED BY <1>5, <1>6, <1>7, <1>8, <1>9, <1>10, <1>13, <1>14 DEF SpeakInv, SpeakPlace

\* The answer to a vote goes to the queue; a refusal takes the heart back.
LEMMA SpeakAnswered ==
    ASSUME SpeakInv, Speak!HearAck \/ Speak!HearVoteError
    PROVE  SpeakInv'
<1>1. /\ SpeakPlace /\ SpeakTold /\ SpeakLine /\ SpeakHall /\ SpeakHearts /\ SpeakOwn
      /\ SpeakBefore /\ SpeakAfter
  BY DEF SpeakInv
<1>2. SpeakQueries /\ SpeakScreen
  BY <1>1 DEF SpeakPlace
<1>3. /\ UNCHANGED <<history, loads, wall, voted, speakingDrops, speakingInbox, speakingLayer>>
      /\ speakingWire # <<>> /\ speakingWire' = Tail(speakingWire)
  BY DEF Speak!HearAck, Speak!HearVoteError, Speak!Hears, Speak!query, Speak!server,
     Speak!ghost, Speak!counts
<1>4. /\ speakingWire' \in Seq(Answers) /\ Head(speakingWire) = speakingWire[1]
      /\ Head(speakingWire) \in Answers /\ 1 \in DOMAIN speakingWire
      /\ \A i \in DOMAIN speakingWire' :
           i + 1 \in DOMAIN speakingWire /\ speakingWire'[i] = speakingWire[i + 1]
      /\ \A i \in DOMAIN speakingWire :
           i = 1 \/ (i - 1 \in DOMAIN speakingWire' /\ speakingWire'[i - 1] = speakingWire[i])
  BY <1>1, <1>3, TailShift DEF SpeakLine
<1>5. SpeakQueries' /\ SpeakTold'
  <2>1. /\ UNCHANGED <<introDone, discussion, state, joining, resolved, joined, hasPosted>>
        /\ UNCHANGED <<postedEarlier, firstVerdict, seeded, told, loads>>
    BY DEF Speak!HearAck, Speak!HearVoteError, Speak!query, Speak!verdict, Speak!ghost
  <2> QED BY <1>1, <1>2, <2>1 DEF SpeakQueries, SpeakTold
<1>6. SpeakScreen'
  <2>1. UNCHANGED <<speakingSock, speakingRetry, isOwn, draft, lastDraft, sending, speakingDialog,
                    speakingTyping, participant, posted, told, refused, unread, speakingTaps, posts>>
    BY DEF Speak!HearAck, Speak!HearVoteError, Speak!composer, Speak!server, Speak!ghost,
       Speak!counts
  <2>2. speakingPending' \subseteq Speak!Message
    BY <1>2 DEF SpeakScreen, Speak!HearAck, Speak!HearVoteError
  <2> QED BY <1>2, <2>1, <2>2 DEF SpeakScreen
<1>7. SpeakLine' /\ SpeakHall' /\ (NoVote' <=> NoVote)
  BY <1>1, <1>3, <1>4 DEF SpeakLine, SpeakHall, NoVote
<1>8. /\ "own" \in Speak!Message /\ "theirs" \in Speak!Message
      /\ queue \in [Speak!Message -> {"none", "yes", "no", "count"}] /\ queue["own"] = "none"
  BY <1>1 DEF SpeakHearts, Speak!Message
<1>9. \A i \in DOMAIN speakingWire' :
        /\ speakingWire'[i].t = "ack"
        /\ \A j \in DOMAIN speakingWire' : j > i => speakingWire'[j].t # "ack"
        => /\ i + 1 \in DOMAIN speakingWire /\ speakingWire'[i] = speakingWire[i + 1]
           /\ \A j \in DOMAIN speakingWire : j > i + 1 => speakingWire[j].t # "ack"
  <2> SUFFICES ASSUME NEW i \in DOMAIN speakingWire',
                      \A j \in DOMAIN speakingWire' : j > i => speakingWire'[j].t # "ack",
                      NEW j \in DOMAIN speakingWire, j > i + 1
               PROVE  speakingWire[j].t # "ack"
    BY <1>4
  <2>1. i \in Nat \ {0} /\ j \in Nat
    BY <1>1, <1>4, LenProperties DEF SpeakLine
  <2>2. j - 1 \in DOMAIN speakingWire' /\ speakingWire'[j - 1] = speakingWire[j] /\ j - 1 > i
    BY <1>4, <2>1
  <2> QED BY <2>2
<1>10. CASE Speak!HearAck
  <2>1. Head(speakingWire).t = "ack" /\ upvoted' = upvoted
    BY <1>10 DEF Speak!HearAck, Speak!Hears
  <2>2. Head(speakingWire).m = "theirs"
    BY <1>4, <2>1, SpeakFrames
  <2>3. queue' = [queue EXCEPT !["theirs"] = IF Head(speakingWire).b THEN "yes" ELSE "no"]
    BY <1>10, <2>2 DEF Speak!HearAck, Speak!Enqueue
  <2>4. /\ queue' \in [Speak!Message -> {"none", "yes", "no", "count"}] /\ queue'["own"] = "none"
        /\ queue'["theirs"] = IF Head(speakingWire).b THEN "yes" ELSE "no"
    BY <1>8, <2>3
  <2>5. SpeakHearts'
    BY <1>1, <1>3, <2>1, <2>4 DEF SpeakHearts
  <2>6. SpeakOwn'
    <3> SUFFICES ASSUME speakingDrops = 0, "own" \in upvoted,
                        ~ \E i \in DOMAIN speakingInbox :
                            speakingInbox[i].t = "vote" /\ speakingInbox[i].m = "own"
                 PROVE  \E i \in DOMAIN speakingWire' : speakingWire'[i].t = "upvote_error"
      BY <1>3, <2>1 DEF SpeakOwn
    <3>1. PICK i \in DOMAIN speakingWire : speakingWire[i].t = "upvote_error"
      BY <1>1 DEF SpeakOwn
    <3>2. i # 1
      BY <1>4, <2>1, <3>1
    <3> QED BY <1>4, <3>1, <3>2
  <2>7. ~ NoAck
    BY <1>4, <2>1 DEF NoAck
  <2>8. SpeakBefore'
    BY <1>1, <1>3, <2>7 DEF SpeakBefore
  <2>9. SpeakAfter'
    <3> SUFFICES ASSUME speakingDrops = 0, loads <= 1, "theirs" \in wall
                 PROVE  /\ \A l \in Speak!Loader : history[l].pc = "idle"
                        /\ NoVote =>
                            /\ \A i \in DOMAIN speakingWire' :
                                 /\ speakingWire'[i].t = "ack"
                                 /\ \A j \in DOMAIN speakingWire' : j > i => speakingWire'[j].t # "ack"
                                 => speakingWire'[i].b = (voted # {})
                            /\ NoAck' => (/\ queue'["theirs"] = "yes" => voted # {}
                                          /\ queue'["theirs"] = "no" => voted = {}
                                          /\ queue'["theirs"] \notin {"none", "count"})
      BY <1>3, <1>7 DEF SpeakAfter
    <3>1. \A l \in Speak!Loader : history[l].pc = "idle"
      BY <1>1 DEF SpeakAfter
    <3>2. NoVote => \A i \in DOMAIN speakingWire :
            /\ speakingWire[i].t = "ack"
            /\ \A j \in DOMAIN speakingWire : j > i => speakingWire[j].t # "ack"
            => speakingWire[i].b = (voted # {})
      BY <1>1 DEF SpeakAfter
    <3>3. NoVote => \A i \in DOMAIN speakingWire' :
            /\ speakingWire'[i].t = "ack"
            /\ \A j \in DOMAIN speakingWire' : j > i => speakingWire'[j].t # "ack"
            => speakingWire'[i].b = (voted # {})
      BY <1>9, <3>2
    <3>4. ASSUME NoVote, NoAck' PROVE Head(speakingWire).b <=> (voted # {})
      <4>1. \A j \in DOMAIN speakingWire : j > 1 => speakingWire[j].t # "ack"
        BY <1>4, <3>4 DEF NoAck
      <4>2. Head(speakingWire).b = (voted # {})
        BY <1>4, <2>1, <3>2, <3>4, <4>1
      <4> QED BY <4>2
    <3> QED BY <2>4, <3>1, <3>3, <3>4
  <2> QED BY <1>5, <1>6, <1>7, <2>5, <2>6, <2>8, <2>9 DEF SpeakInv, SpeakPlace
<1>11. CASE Speak!HearVoteError
  <2>1. Head(speakingWire).t = "upvote_error"
    BY <1>11 DEF Speak!HearVoteError, Speak!Hears
  <2>2. Head(speakingWire).m = "own"
    BY <1>4, <2>1, SpeakFrames
  <2>3. queue' = [queue EXCEPT !["own"] = "none"] /\ upvoted' = upvoted \ {"own"}
    BY <1>11, <2>2 DEF Speak!HearVoteError
  <2>4. queue' = queue
    BY <1>8, <2>3
  <2>5. SpeakHearts'
    BY <1>1, <1>3, <2>3, <2>4 DEF SpeakHearts
  <2>6. SpeakOwn'
    BY <2>3 DEF SpeakOwn
  <2>7. "theirs" \in upvoted' <=> "theirs" \in upvoted
    BY <2>3
  <2>8. NoAck' <=> NoAck
    <3>1. NoAck' => NoAck
      BY <1>4, <2>1 DEF NoAck
    <3>2. NoAck => NoAck'
      BY <1>4 DEF NoAck
    <3> QED BY <3>1, <3>2
  <2>9. SpeakBefore'
    BY <1>1, <1>3, <1>7, <2>4, <2>7, <2>8 DEF SpeakBefore
  <2>10. SpeakAfter'
    BY <1>1, <1>3, <1>7, <1>9, <2>4, <2>7, <2>8 DEF SpeakAfter
  <2> QED BY <1>5, <1>6, <1>7, <2>5, <2>6, <2>9, <2>10 DEF SpeakInv, SpeakPlace
<1> QED BY <1>10, <1>11

\* A broadcast is shown, and the queue is painted.
LEMMA SpeakPaints ==
    ASSUME SpeakInv, Speak!HearMessage \/ Speak!HearUpvote \/ Speak!Flush
    PROVE  SpeakInv'
<1>1. /\ SpeakPlace /\ SpeakTold /\ SpeakLine /\ SpeakHall /\ SpeakHearts /\ SpeakOwn
      /\ SpeakBefore /\ SpeakAfter
  BY DEF SpeakInv
<1>2. SpeakQueries /\ SpeakScreen
  BY <1>1 DEF SpeakPlace
<1>3. UNCHANGED <<history, loads, voted, speakingDrops, speakingInbox, speakingWire>>
  BY DEF Speak!HearMessage, Speak!HearUpvote, Speak!Flush, Speak!query, Speak!line,
     Speak!server, Speak!ghost, Speak!counts
<1>4. SpeakQueries' /\ SpeakTold'
  <2>1. /\ UNCHANGED <<introDone, discussion, state, joining, resolved, joined, hasPosted>>
        /\ UNCHANGED <<postedEarlier, firstVerdict, seeded, told, loads>>
    BY DEF Speak!HearMessage, Speak!HearUpvote, Speak!Flush, Speak!query, Speak!verdict,
       Speak!ghost
  <2> QED BY <1>1, <1>2, <2>1 DEF SpeakQueries, SpeakTold
<1>5. SpeakScreen'
  <2>1. UNCHANGED <<speakingSock, speakingRetry, isOwn, speakingPending, draft, lastDraft, sending,
                    speakingDialog, speakingTyping, participant, posted, told, refused, unread,
                    speakingTaps, posts>>
    BY DEF Speak!HearMessage, Speak!HearUpvote, Speak!Flush, Speak!line, Speak!composer,
       Speak!server, Speak!ghost, Speak!counts
  <2> QED BY <1>2, <2>1 DEF SpeakScreen
<1>6. SpeakLine' /\ (NoVote' <=> NoVote) /\ (NoAck' <=> NoAck)
  BY <1>1, <1>3 DEF SpeakLine, NoVote, NoAck
<1>7. /\ "own" \in Speak!Message /\ "theirs" \in Speak!Message
      /\ queue \in [Speak!Message -> {"none", "yes", "no", "count"}] /\ queue["own"] = "none"
  BY <1>1 DEF SpeakHearts, Speak!Message
<1>8. CASE Speak!HearMessage
  <2>1. /\ speakingLayer # <<>> /\ speakingLayer' = Tail(speakingLayer)
        /\ Head(speakingLayer).t = "message" /\ wall' = wall \cup {Head(speakingLayer).m}
        /\ UNCHANGED <<upvoted, queue>>
    BY <1>8 DEF Speak!HearMessage, Speak!Relays
  <2>2. Tail(speakingLayer) \in Seq(Broadcasts) /\ Head(speakingLayer) \in Broadcasts
    BY <1>1, <2>1, TailShift DEF SpeakHall
  <2>3. Head(speakingLayer).m = "own"
    BY <2>1, <2>2, SpeakFrames
  <2>4. /\ SpeakHall' /\ wall' \subseteq Speak!Message
        /\ "theirs" \in wall' <=> "theirs" \in wall
    BY <1>1, <1>7, <2>1, <2>2, <2>3 DEF SpeakHall, SpeakHearts
  <2>5. SpeakHearts'
    BY <1>1, <1>3, <2>1, <2>4 DEF SpeakHearts
  <2>6. SpeakOwn'
    BY <1>1, <1>3, <2>1 DEF SpeakOwn
  <2>7. SpeakBefore'
    BY <1>1, <1>3, <1>6, <2>1, <2>4 DEF SpeakBefore
  <2>8. SpeakAfter'
    BY <1>1, <1>3, <1>6, <2>1, <2>4 DEF SpeakAfter
  <2> QED BY <1>4, <1>5, <1>6, <2>4, <2>5, <2>6, <2>7, <2>8 DEF SpeakInv, SpeakPlace
<1>9. CASE Speak!HearUpvote
  <2>1. /\ speakingLayer # <<>> /\ speakingLayer' = Tail(speakingLayer)
        /\ Head(speakingLayer).t = "upvote" /\ UNCHANGED <<upvoted, wall>>
    BY <1>9 DEF Speak!HearUpvote, Speak!Relays
  <2>2. Tail(speakingLayer) \in Seq(Broadcasts) /\ Head(speakingLayer) \in Broadcasts
    BY <1>1, <2>1, TailShift DEF SpeakHall
  <2>3. Head(speakingLayer).m = "theirs"
    BY <2>1, <2>2, SpeakFrames
  <2>4. queue' = [queue EXCEPT !["theirs"] = IF @ # "none" THEN @ ELSE "count"]
    BY <1>9, <2>3 DEF Speak!HearUpvote, Speak!Enqueue
  <2>5. /\ queue' \in [Speak!Message -> {"none", "yes", "no", "count"}] /\ queue'["own"] = "none"
        /\ queue'["theirs"] \in {"none", "count"} <=> queue["theirs"] \in {"none", "count"}
        /\ queue'["theirs"] = "yes" <=> queue["theirs"] = "yes"
        /\ queue'["theirs"] = "no" <=> queue["theirs"] = "no"
    BY <1>7, <2>4
  <2>6. SpeakHall'
    BY <2>1, <2>2 DEF SpeakHall
  <2>7. SpeakHearts'
    BY <1>1, <1>3, <2>1, <2>5 DEF SpeakHearts
  <2>8. SpeakOwn'
    BY <1>1, <1>3, <2>1 DEF SpeakOwn
  <2>9. SpeakBefore'
    BY <1>1, <1>3, <1>6, <2>1, <2>5 DEF SpeakBefore
  <2>10. SpeakAfter'
    BY <1>1, <1>3, <1>6, <2>1, <2>5 DEF SpeakAfter
  <2> QED BY <1>4, <1>5, <1>6, <2>6, <2>7, <2>8, <2>9, <2>10 DEF SpeakInv, SpeakPlace
<1>10. CASE Speak!Flush
  <2>1. /\ upvoted' = {m \in Speak!Message :
                          queue[m] = "yes" \/ (m \in upvoted /\ queue[m] # "no")}
        /\ queue' = [m \in Speak!Message |-> "none"] /\ UNCHANGED <<wall, speakingLayer>>
    BY <1>10 DEF Speak!Flush, Speak!line
  <2>2. /\ queue' \in [Speak!Message -> {"none", "yes", "no", "count"}] /\ queue'["own"] = "none"
        /\ queue'["theirs"] = "none" /\ upvoted' \subseteq Speak!Message
        /\ "own" \in upvoted' <=> "own" \in upvoted
        /\ "theirs" \in upvoted' <=>
             queue["theirs"] = "yes" \/ ("theirs" \in upvoted /\ queue["theirs"] # "no")
        /\ queue["theirs"] \in {"none", "yes", "no", "count"}
    BY <1>7, <2>1
  <2>3. SpeakHall'
    BY <1>1, <2>1 DEF SpeakHall
  <2>4. SpeakHearts'
    BY <1>1, <1>3, <2>1, <2>2 DEF SpeakHearts
  <2>5. SpeakOwn'
    BY <1>1, <1>3, <2>2 DEF SpeakOwn
  <2>6. SpeakBefore'
    BY <1>1, <1>3, <1>6, <2>1, <2>2 DEF SpeakBefore
  <2>7. SpeakAfter'
    BY <1>1, <1>3, <1>6, <2>1, <2>2 DEF SpeakAfter
  <2> QED BY <1>4, <1>5, <1>6, <2>3, <2>4, <2>5, <2>6, <2>7 DEF SpeakInv, SpeakPlace
<1> QED BY <1>8, <1>9, <1>10

\* Who was told of a response is offered no other, and the hearts at rest are the votes.
LEMMA SpeakStaysRight == Spec => [](focus = "speaking" => Speak!TypeOK /\ Speak!SpeakingSafe)
<1>1. Speak!Init => SpeakInv
  BY SpeakBegin
<1>2. SpeakInv /\ [Speak!Next]_Speak!vars => SpeakInv'
  <2>1. ASSUME SpeakInv, UNCHANGED Speak!vars PROVE SpeakInv'
    <3>1. /\ SpeakQueries /\ SpeakScreen /\ SpeakTold /\ SpeakHall
          /\ speakingDrops \in 0 .. MaxSpeakDrops
      BY <2>1 DEF SpeakInv, SpeakPlace, SpeakHearts
    <3>2. /\ UNCHANGED <<introDone, discussion, state, joining, resolved, joined, hasPosted>>
          /\ UNCHANGED <<postedEarlier, firstVerdict, seeded, told, loads>>
      BY <2>1 DEF Speak!vars, Speak!query, Speak!verdict, Speak!ghost
    <3>3. UNCHANGED <<speakingSock, speakingRetry, isOwn, speakingPending, draft, lastDraft,
                      sending, speakingDialog, speakingTyping, participant, posted, told, refused, unread,
                      speakingTaps, posts>>
      BY <2>1 DEF Speak!vars, Speak!line, Speak!hearts, Speak!composer, Speak!server,
         Speak!ghost, Speak!counts
    <3>4. UNCHANGED <<history, loads, speakingInbox, speakingWire, speakingLayer, wall, upvoted,
                      voted, queue, speakingDrops>>
      BY <2>1 DEF Speak!vars, Speak!query, Speak!line, Speak!hearts, Speak!server, Speak!ghost,
         Speak!counts
    <3>5. SpeakQueries' /\ SpeakTold'
      BY <3>1, <3>2 DEF SpeakQueries, SpeakTold
    <3>6. SpeakScreen'
      BY <3>1, <3>3 DEF SpeakScreen
    <3>7. SpeakHall'
      BY <3>1, <3>4 DEF SpeakHall
    <3> QED BY <2>1, <3>1, <3>4, <3>5, <3>6, <3>7, SpeakStill DEF SpeakPlace
  <2> QED BY <2>1, SpeakQuiet, SpeakHearing, SpeakVerdicts, SpeakRows, SpeakDrops, SpeakSubmits,
     SpeakVotes, SpeakServes, SpeakHears, SpeakAnswered, SpeakPaints DEF Speak!Next, Speak!Progress
<1>3. SpeakInv => Speak!TypeOK /\ Speak!SpeakingSafe
  <2> SUFFICES ASSUME SpeakInv PROVE Speak!TypeOK /\ Speak!SpeakingSafe
    OBVIOUS
  <2>1. /\ SpeakQueries /\ SpeakScreen /\ SpeakTold /\ SpeakLine /\ SpeakHall /\ SpeakHearts
        /\ SpeakOwn /\ SpeakBefore /\ SpeakAfter
    BY DEF SpeakInv, SpeakPlace
  <2>2. Speak!TypeOK
    <3>1. \A f \in {speakingInbox, speakingWire, speakingLayer} : f \in Seq(SpeakFrame)
      <4>1. \A S : S \subseteq SpeakFrame => \A f \in Seq(S) : f \in Seq(SpeakFrame)
        BY SeqWider
      <4> QED BY <2>1, <4>1, SpeakFrames DEF SpeakLine, SpeakHall
    <3>2. /\ introDone \in BOOLEAN /\ discussion \in {"asked", "live", "none", "failed"}
          /\ state \in Speak!Call /\ joining \in Speak!Call
          /\ {resolved, joined, hasPosted, postedEarlier, firstVerdict, seeded} \subseteq BOOLEAN
      BY <2>1 DEF SpeakQueries
    <3>3. /\ speakingSock \in {"none", "open"} /\ speakingRetry \in BOOLEAN /\ isOwn \in BOOLEAN
          /\ speakingPending \subseteq Speak!Message
          /\ {draft, lastDraft, sending, speakingTyping} \subseteq BOOLEAN
          /\ speakingDialog \in {"closed", "open", "paused"}
          /\ {participant, posted, told, refused, unread} \subseteq BOOLEAN
          /\ speakingTaps \in 0 .. MaxSpeakTaps /\ posts \in 0 .. MaxPosts
      BY <2>1 DEF SpeakScreen
    <3>4. /\ history \in [Speak!Loader -> Speak!Rows] /\ loads \in 0 .. 2
          /\ wall \subseteq Speak!Message /\ upvoted \subseteq Speak!Message
          /\ voted \subseteq {"theirs"} /\ speakingDrops \in 0 .. MaxSpeakDrops
          /\ queue \in [Speak!Message -> {"none", "yes", "no", "count"}]
      BY <2>1 DEF SpeakHearts
    <3> QED BY <3>1, <3>2, <3>3, <3>4 DEF Speak!TypeOK, SpeakFrame
  <2>3. Speak!ComposerLocked
    BY <2>1 DEF Speak!ComposerLocked, Speak!Offered, SpeakTold
  <2>4. Speak!VotesAgree
    <3> SUFFICES ASSUME speakingDrops = 0, speakingInbox = <<>>, speakingWire = <<>>,
                        queue = [m \in Speak!Message |-> "none"], loads <= 1
                 PROVE  upvoted = IF "theirs" \in wall THEN voted ELSE {}
      BY DEF Speak!VotesAgree
    <3>1. NoVote /\ NoAck
      BY DEF NoVote, NoAck
    <3>2. queue["theirs"] = "none"
      BY DEF Speak!Message
    <3>3. "own" \notin upvoted
      BY <2>1 DEF SpeakOwn
    <3>4. upvoted \subseteq {"theirs"} /\ voted \subseteq {"theirs"}
      BY <2>1, <3>3 DEF SpeakHearts, Speak!Message
    <3>5. "theirs" \in wall => ("theirs" \in upvoted <=> voted # {})
      BY <2>1, <3>1, <3>2 DEF SpeakAfter
    <3>6. "theirs" \notin wall => "theirs" \notin upvoted
      BY <2>1 DEF SpeakBefore
    <3>7. /\ upvoted = {} \/ upvoted = {"theirs"}
          /\ voted = {} \/ voted = {"theirs"}
      BY <3>4
    <3> QED BY <3>5, <3>6, <3>7
  <2> QED BY <2>2, <2>3, <2>4 DEF Speak!SpeakingSafe
<1> QED BY <1>1, <1>2, <1>3, SpeakAlone, PTL DEF Speak!Spec

-----------------------------------------------------------------------------
(* The accounts of the portal (AdminUsers).                                 *)

\* What a page, a dialog and a call hold of an account is one that there was.
PageRows == {p \in Users!Page : p.row # 0 => p.was # Users!Absent}
UserDialogs ==
    {d \in [kind : Users!Kinds \cup {"none"}, id : {0} \cup Accounts, was : Users!Account] :
       d.kind \in {"edit", "toggle", "delete"} => d.id # 0 /\ d.was # Users!Absent}
UserCall == [pc : {"sent", "ok", "failed"}, id : {0} \cup Accounts, was : Users!Account]
DeleteCall == [pc : {"sent", "ok", "failed"}, id : {0} \cup Accounts, was : Users!Account,
               before : PageRows \cup {Users!Nothing}, key : Users!Keys, back : BOOLEAN]

UserScreen ==
    /\ usersFilter \in {"all", "active"} /\ usersPage \in 1 .. Cardinality(Accounts)
    /\ broken \subseteq Users!Keys /\ usersOvertaken \subseteq Users!Keys
    /\ held \in PageRows
    /\ cache \in [Users!Keys -> PageRows \cup {Users!Nothing}]
    /\ usersFetch \in [Users!Keys -> PageRows \cup {Users!Nothing, Users!Asked, Users!Missing}]
    /\ usersDialog \in UserDialogs
UserServer ==
    /\ accounts \in [Accounts -> Users!Account]
    /\ usersCalls \in [Users!Kinds -> UserCall \cup DeleteCall \cup {Users!NoCall}]
    /\ usersCalls["delete"] \in DeleteCall \cup {Users!NoCall}
    /\ \A k \in {"create", "edit", "toggle"} : usersCalls[k] \in UserCall \cup {Users!NoCall}
    /\ usersCalls["edit"] # Users!NoCall => usersCalls["edit"].was # Users!Absent
UserCounts == usersTaps \in 0 .. MaxUserTaps /\ usersMoves \in 0 .. MaxUserMoves

\* While the server has answered no call, a list on its way is what the server lists,
\* and so are the rows of a page that is not fetched, but while a deletion is shown early.
UsersSee ==
    (\A kind \in Users!Kinds : usersCalls[kind].pc \in {"idle", "sent"}) =>
        /\ \A k \in Users!Keys : usersFetch[k] \notin {Users!Nothing, Users!Asked} =>
             k \in usersOvertaken \/ usersFetch[k] = Users!PageOf(k)
        /\ usersCalls["delete"] = Users!NoCall /\ usersFetch[Users!Key] = Users!Nothing =>
             \/ Users!Key \in broken \cup usersOvertaken
             \/ cache[Users!Key] = Users!PageOf(Users!Key)

UsersInv == UserScreen /\ UserServer /\ UserCounts /\ UsersSee

\* The accounts are finitely many, and at least one.
LEMMA Portal ==
    /\ Cardinality(Accounts) \in Nat \ {0} /\ IsFiniteSet(Accounts)
    /\ \A S : Users!Cardinality(S) = Cardinality(S)
    /\ MaxUserTaps \in Nat /\ MaxUserMoves \in Nat
<1>1. IsFiniteSet(Accounts) /\ Accounts # {} /\ MaxUserTaps \in Nat /\ MaxUserMoves \in Nat
  BY PagesAssumption
<1>2. \A S : Users!Cardinality(S) = Cardinality(S)
  BY DEF Users!Cardinality, Cardinality
<1>3. Cardinality(Accounts) \in Nat \ {0}
  BY <1>1, FS_EmptySet, FS_CardinalityType
<1> QED BY <1>1, <1>2, <1>3

\* A page, no page, a question and a page that is missing are told apart.
LEMMA PagesDiffer ==
    /\ Users!Nothing \notin PageRows /\ Users!Asked \notin PageRows
    /\ Users!Missing \notin PageRows
    /\ Users!Nothing # Users!Asked /\ Users!Nothing # Users!Missing /\ Users!Asked # Users!Missing
    /\ Users!NoCall \notin UserCall /\ Users!NoCall \notin DeleteCall
    /\ Users!NoRows \in PageRows
<1>1. Users!Nothing.count = -2 /\ Users!Asked.count = -3 /\ Users!Missing.count = -1
  BY DEF Users!Nothing, Users!Asked, Users!Missing, Users!NoRows
<1>2. \A p \in PageRows : p.count \in 0 .. Cardinality(Accounts)
  BY Portal DEF PageRows, Users!Page
<1>3. Users!NoCall.pc = "idle" /\ \A c \in UserCall \cup DeleteCall : c.pc # "idle"
  BY DEF Users!NoCall, UserCall, DeleteCall
<1>4. 0 \in 0 .. Users!Cardinality(Accounts)
  BY Portal
<1>5. Users!NoRows \in PageRows
  BY <1>4 DEF PageRows, Users!Page, Users!NoRows, Users!Account, Users!Absent
<1> QED BY <1>1, <1>2, <1>3, <1>5

\* What the server lists of a set of accounts, as an expression of the set.
PageIn(s, k) ==
    LET those == {a \in Accounts : s[a] # Users!Absent /\ (k.filter = "active" => s[a].on)}
        At(a) == Users!Cardinality({b \in those : b <= a}) = k.page
    IN  IF \E a \in those : At(a)
        THEN LET a == CHOOSE x \in those : At(x)
             IN  [count |-> Users!Cardinality(those), row |-> a, was |-> s[a]]
        ELSE IF k.page = 1 THEN Users!NoRows ELSE Users!Missing

LEMMA PageOfAccounts ==
    /\ \A k : Users!PageOf(k) = PageIn(accounts, k)
    /\ \A k : Users!PageOf(k)' = PageIn(accounts', k)
BY DEF Users!PageOf, Users!Listed, PageIn, Users!NoRows, Users!Missing, Users!Absent

\* It is a page, or missing.
LEMMA ListedPage ==
    ASSUME NEW k \in Users!Keys, accounts \in [Accounts -> Users!Account]
    PROVE  Users!PageOf(k) \in PageRows \cup {Users!Missing}
<1> DEFINE those == {a \in Accounts : accounts[a] # Users!Absent
                                       /\ (k.filter = "active" => accounts[a].on)}
           At(a) == Users!Cardinality({b \in those : b <= a}) = k.page
           x == CHOOSE a \in those : At(a)
<1>1. Users!PageOf(k) = IF \E a \in those : At(a)
                        THEN [count |-> Users!Cardinality(those), row |-> x, was |-> accounts[x]]
                        ELSE IF k.page = 1 THEN Users!NoRows ELSE Users!Missing
  BY DEF Users!PageOf, Users!Listed
<1>2. Users!Cardinality(those) \in 0 .. Users!Cardinality(Accounts)
  <2>1. those \subseteq Accounts
    OBVIOUS
  <2> HIDE DEF those
  <2>2. IsFiniteSet(those) /\ Cardinality(those) <= Cardinality(Accounts)
    BY <2>1, Portal, FS_Subset
  <2> QED BY <2>2, Portal, FS_CardinalityType
<1>3. CASE \E a \in those : At(a)
  <2> HIDE DEF At
  <2>1. x \in those
    BY <1>3
  <2>2. x \in Accounts /\ accounts[x] # Users!Absent
    BY <2>1
  <2>3. accounts[x] \in Users!Account
    BY <2>2
  <2> HIDE DEF x, those
  <2>4. [count |-> Users!Cardinality(those), row |-> x, was |-> accounts[x]] \in PageRows
    BY <1>2, <2>2, <2>3 DEF PageRows, Users!Page
  <2> QED BY <1>1, <1>3, <2>4
<1>4. CASE ~ \E a \in those : At(a)
  <2> HIDE DEF At, those
  <2> QED BY <1>1, <1>4, PagesDiffer
<1> QED BY <1>3, <1>4

LEMMA UsersBegin == ASSUME Users!Init PROVE UsersInv
<1>1. /\ Users!Key \in Users!Keys /\ usersFilter = "all" /\ usersPage = 1
      /\ 1 \in 1 .. Cardinality(Accounts)
  BY Portal DEF Users!Init, Users!Key, Users!Keys
<1>2. /\ cache \in [Users!Keys -> PageRows \cup {Users!Nothing}]
      /\ usersFetch \in [Users!Keys -> PageRows \cup {Users!Nothing, Users!Asked, Users!Missing}]
  BY DEF Users!Init
<1>3. UserScreen
  <2>1. usersDialog \in UserDialogs
    BY DEF Users!Init, Users!NoDialog, UserDialogs, Users!Account, Users!Kinds
  <2> QED BY <1>1, <1>2, <2>1, PagesDiffer DEF UserScreen, Users!Init
<1>4. UserServer
  <2>1. accounts \in [Accounts -> Users!Account]
    BY DEF Users!Init, Users!Account
  <2>2. usersCalls = [k \in Users!Kinds |-> Users!NoCall]
    BY DEF Users!Init
  <2> QED BY <2>1, <2>2 DEF UserServer, Users!Kinds
<1>5. UserCounts
  BY Portal DEF UserCounts, Users!Init
<1>6. UsersSee
  <2>1. usersFetch[Users!Key] = Users!Asked
    BY <1>1 DEF Users!Init
  <2>2. \A k \in Users!Keys : usersFetch[k] \in {Users!Nothing, Users!Asked}
    BY DEF Users!Init
  <2> QED BY <2>1, <2>2, PagesDiffer DEF UsersSee
<1> QED BY <1>3, <1>4, <1>5, <1>6 DEF UsersInv

\* A step that changes neither the accounts nor a call keeps what UsersSee says of the
\* lists on their way, when those that it does not drop or ask for stay as they are.
LEMMA UsersLook ==
    ASSUME UsersSee, UNCHANGED <<accounts, usersCalls>>,
           \A k \in Users!Keys :
              \/ usersFetch'[k] \in {Users!Nothing, Users!Asked}
              \/ usersFetch'[k] = usersFetch[k] /\ (k \in usersOvertaken => k \in usersOvertaken'),
           usersFetch'[Users!Key'] # Users!Nothing
    PROVE  UsersSee'
<1>1. \A k : Users!PageOf(k)' = Users!PageOf(k)
  BY PageOfAccounts
<1>2. (\A k \in Users!Keys : usersFetch[k] \notin {Users!Nothing, Users!Asked} =>
             k \in usersOvertaken \/ usersFetch[k] = Users!PageOf(k))
      => \A k \in Users!Keys : usersFetch'[k] \notin {Users!Nothing, Users!Asked} =>
             k \in usersOvertaken' \/ usersFetch'[k] = Users!PageOf(k)'
  BY <1>1
<1> QED BY <1>2 DEF UsersSee, Users!Nothing, Users!Asked, Users!NoRows, Users!Absent, Users!Keys,
        Users!Kinds, Users!NoCall

\* The key of what is shown, and the rows.
LEMMA UsersShown ==
    ASSUME UserScreen
    PROVE  /\ Users!Key \in Users!Keys /\ Users!Shown \in PageRows
           /\ \A f \in {"all", "active"}, p \in 1 .. Cardinality(Accounts) :
                [filter |-> f, page |-> p] \in Users!Keys
<1>1. \A f \in {"all", "active"}, p \in 1 .. Cardinality(Accounts) :
        [filter |-> f, page |-> p] \in Users!Keys
  BY Portal DEF Users!Keys
<1>2. Users!Key \in Users!Keys
  BY <1>1 DEF UserScreen, Users!Key
<1> QED BY <1>1, <1>2 DEF UserScreen, Users!Shown

\* Another filter or page comes on the screen.
LEMMA UsersTurn ==
    ASSUME UsersInv,
           \/ \E f \in {"all", "active"} : Users!SetFilter(f)
           \/ \E p \in 1 .. Users!Cardinality(Accounts) : Users!Turn(p)
    PROVE  UsersInv'
<1>1. /\ UNCHANGED <<accounts, cache, broken, usersDialog, usersCalls, usersTaps>>
      /\ usersMoves' \in 0 .. MaxUserMoves /\ Users!Fresh
  <2>1. MaxUserMoves \in Nat /\ usersMoves \in 0 .. MaxUserMoves
    BY Portal DEF UsersInv, UserCounts
  <2>2. CASE \E f \in {"all", "active"} : Users!SetFilter(f)
    BY <2>1, <2>2 DEF Users!SetFilter, Users!Move
  <2>3. CASE \E p \in 1 .. Users!Cardinality(Accounts) : Users!Turn(p)
    BY <2>1, <2>3 DEF Users!Turn, Users!Move
  <2> QED BY <2>2, <2>3
<1>2. UserScreen /\ UsersSee /\ UserServer /\ UserCounts
  BY DEF UsersInv
<1>3. PICK f \in {"all", "active"}, p \in 1 .. Cardinality(Accounts), k \in Users!Keys :
        /\ Users!Goto([filter |-> f, page |-> p])
        /\ \/ usersFetch' = Users!Look(Users!Look(usersFetch, k), [filter |-> f, page |-> p])
           \/ usersFetch' = Users!Look(usersFetch, [filter |-> f, page |-> p])
  <2>1. CASE \E f \in {"all", "active"} : Users!SetFilter(f)
    <3>1. PICK f \in {"all", "active"} : Users!SetFilter(f)
      BY <2>1
    <3>2. [filter |-> f, page |-> usersPage] \in Users!Keys /\ 1 \in 1 .. Cardinality(Accounts)
      BY <1>2, UsersShown, Portal DEF UserScreen
    <3> QED BY <3>1, <3>2 DEF Users!SetFilter
  <2>2. CASE \E p \in 1 .. Users!Cardinality(Accounts) : Users!Turn(p)
    <3>1. PICK p \in 1 .. Users!Cardinality(Accounts) : Users!Turn(p)
      BY <2>2
    <3> QED BY <1>2, <3>1, UsersShown, Portal DEF Users!Turn, UserScreen
  <2> QED BY <2>1, <2>2
<1> DEFINE key == [filter |-> f, page |-> p]
<1>4. key \in Users!Keys /\ Users!Shown \in PageRows
  BY <1>2, UsersShown
<1>5. /\ usersFilter' = f /\ usersPage' = p /\ held' = Users!Shown
      /\ Users!Key' = key
  BY <1>3 DEF Users!Goto, Users!Key
<1>6. /\ usersFetch' \in [Users!Keys -> PageRows \cup {Users!Nothing, Users!Asked, Users!Missing}]
      /\ \A i \in Users!Keys : usersFetch'[i] \in {usersFetch[i], Users!Asked}
      /\ usersFetch'[key] # Users!Nothing
  <2> HIDE DEF key
  <2>1. \A g \in [Users!Keys -> PageRows \cup {Users!Nothing, Users!Asked, Users!Missing}],
           i \in Users!Keys :
           /\ Users!Look(g, i)
                \in [Users!Keys -> PageRows \cup {Users!Nothing, Users!Asked, Users!Missing}]
           /\ \A j \in Users!Keys : Users!Look(g, i)[j] \in {g[j], Users!Asked}
           /\ Users!Look(g, i)[i] # Users!Nothing
    BY PagesDiffer DEF Users!Look
  <2>2. usersFetch \in [Users!Keys -> PageRows \cup {Users!Nothing, Users!Asked, Users!Missing}]
    BY <1>2 DEF UserScreen
  <2>3. CASE usersFetch' = Users!Look(usersFetch, key)
    BY <1>4, <2>1, <2>2, <2>3
  <2>4. CASE usersFetch' = Users!Look(Users!Look(usersFetch, k), key)
    <3> DEFINE g == Users!Look(usersFetch, k)
    <3>1. /\ g \in [Users!Keys -> PageRows \cup {Users!Nothing, Users!Asked, Users!Missing}]
          /\ \A j \in Users!Keys : g[j] \in {usersFetch[j], Users!Asked}
      BY <2>1, <2>2
    <3>2. usersFetch' = Users!Look(g, key)
      BY <2>4
    <3> HIDE DEF g
    <3> QED BY <1>4, <2>1, <3>1, <3>2
  <2> QED BY <1>3, <2>3, <2>4 DEF key
<1> HIDE DEF key
<1>7. usersOvertaken' \subseteq Users!Keys
  BY <1>1, <1>2 DEF Users!Fresh, UserScreen
<1>8. UserScreen'
  BY <1>1, <1>2, <1>4, <1>5, <1>6, <1>7 DEF UserScreen, PageRows, UserDialogs, Users!Kinds,
     Users!Page, Users!Account, Users!Absent, Users!Keys, Users!Nothing, Users!Asked,
     Users!Missing, Users!NoRows
<1>9. UsersSee'
  <2>1. \A i \in Users!Keys :
           \/ usersFetch'[i] \in {Users!Nothing, Users!Asked}
           \/ usersFetch'[i] = usersFetch[i] /\ (i \in usersOvertaken => i \in usersOvertaken')
    BY <1>1, <1>6 DEF Users!Fresh
  <2> QED BY <1>1, <1>2, <1>5, <1>6, <2>1, UsersLook
<1> QED BY <1>1, <1>2, <1>8, <1>9 DEF UsersInv, UserServer, UserCounts, Users!Kinds, UserCall,
        DeleteCall, Users!NoCall, Users!Account, Users!Absent, PageRows, Users!Page, Users!Keys,
        Users!Nothing, Users!NoRows

\* The list is asked for again, read, and heard.
LEMMA UsersLists ==
    ASSUME UsersInv, Users!Refocus \/ Users!ServeList \/ Users!HearList
    PROVE  UsersInv'
<1> DEFINE Fetched == PageRows \cup {Users!Nothing, Users!Asked, Users!Missing}
<1>1. UNCHANGED <<accounts, usersFilter, usersPage, held, usersDialog, usersCalls, usersTaps>>
  BY DEF Users!Refocus, Users!ServeList, Users!HearList, Users!Move
<1>2. UserScreen /\ UsersSee /\ UserServer /\ UserCounts
  BY DEF UsersInv
<1>3. Users!Key' = Users!Key /\ Users!Key \in Users!Keys
  BY <1>1, <1>2, UsersShown DEF Users!Key
<1>4. \A k : Users!PageOf(k)' = Users!PageOf(k)
  BY <1>1, PageOfAccounts
<1>5. /\ usersFetch \in [Users!Keys -> Fetched] /\ broken \subseteq Users!Keys
      /\ cache \in [Users!Keys -> PageRows \cup {Users!Nothing}]
      /\ usersOvertaken \subseteq Users!Keys
  BY <1>2 DEF UserScreen
<1>6. ASSUME usersFetch' \in [Users!Keys -> Fetched], broken' \subseteq Users!Keys,
             cache' \in [Users!Keys -> PageRows \cup {Users!Nothing}],
             usersOvertaken' \subseteq Users!Keys, usersMoves' \in 0 .. MaxUserMoves,
             UsersSee'
      PROVE  UsersInv'
  <2>1. UserScreen'
    BY <1>1, <1>2, <1>6 DEF UserScreen, PageRows, UserDialogs, Users!Kinds, Users!Page,
       Users!Account, Users!Absent, Users!Keys, Users!Nothing, Users!Asked, Users!Missing,
       Users!NoRows
  <2> QED BY <1>1, <1>2, <1>6, <2>1 DEF UsersInv, UserServer, UserCounts, Users!Kinds, UserCall,
        DeleteCall, Users!NoCall, Users!Account, Users!Absent, PageRows, Users!Page, Users!Keys,
        Users!Nothing, Users!NoRows
<1>7. CASE Users!Refocus
  <2>1. /\ UNCHANGED <<broken, cache>> /\ usersFetch' = [usersFetch EXCEPT ![Users!Key] = Users!Asked]
        /\ usersOvertaken' = usersOvertaken \ {Users!Key} /\ usersMoves' = usersMoves + 1
        /\ usersMoves < MaxUserMoves
    BY <1>7 DEF Users!Refocus, Users!Move
  <2>2. usersMoves' \in 0 .. MaxUserMoves
    BY <1>2, <2>1, Portal DEF UserCounts
  <2>3. UsersSee'
    <3>1. usersFetch'[Users!Key'] # Users!Nothing
      BY <1>3, <1>5, <2>1, PagesDiffer
    <3>2. \A k \in Users!Keys :
             \/ usersFetch'[k] \in {Users!Nothing, Users!Asked}
             \/ usersFetch'[k] = usersFetch[k] /\ (k \in usersOvertaken => k \in usersOvertaken')
      BY <1>5, <2>1
    <3> QED BY <1>1, <1>2, <3>1, <3>2, UsersLook
  <2>4. usersFetch' \in [Users!Keys -> Fetched] /\ usersOvertaken' \subseteq Users!Keys
    BY <1>5, <2>1
  <2> QED BY <1>5, <1>6, <2>1, <2>2, <2>3, <2>4
<1>8. CASE Users!ServeList
  <2>1. PICK i \in Users!Keys :
          usersFetch[i] = Users!Asked /\ usersFetch' = [usersFetch EXCEPT ![i] = Users!PageOf(i)]
    BY <1>8 DEF Users!ServeList
  <2>2. UNCHANGED <<broken, cache, usersOvertaken, usersMoves>>
    BY <1>8 DEF Users!ServeList
  <2>3. Users!PageOf(i) \in PageRows \cup {Users!Missing}
    BY <1>2, ListedPage DEF UserServer
  <2>4. usersFetch' \in [Users!Keys -> Fetched]
    BY <1>5, <2>1, <2>3
  <2>5. /\ Users!PageOf(i) # Users!Nothing
        /\ \A k \in Users!Keys : usersFetch'[k] = IF k = i THEN Users!PageOf(k) ELSE usersFetch[k]
    BY <1>5, <2>1, <2>3, PagesDiffer
  <2>6. usersFetch'[Users!Key] = Users!Nothing => usersFetch[Users!Key] = Users!Nothing
    BY <1>3, <2>5
  <2>7. UsersSee'
    BY <1>1, <1>2, <1>3, <1>4, <2>2, <2>5, <2>6 DEF UsersSee, Users!Nothing, Users!Asked,
       Users!NoRows, Users!Absent, Users!Keys, Users!Kinds, Users!NoCall
  <2> QED BY <1>2, <1>5, <1>6, <2>2, <2>4, <2>7 DEF UserCounts
<1>9. CASE Users!HearList
  <2>1. PICK i \in Users!Keys :
          /\ usersFetch[i] \notin {Users!Nothing, Users!Asked}
          /\ usersFetch' = [usersFetch EXCEPT ![i] = Users!Nothing]
          /\ IF usersFetch[i] = Users!Missing
             THEN broken' = broken \cup {i} /\ cache' = cache
             ELSE broken' = broken \ {i} /\ cache' = [cache EXCEPT ![i] = usersFetch[i]]
    BY <1>9 DEF Users!HearList
  <2>2. UNCHANGED <<usersOvertaken, usersMoves>>
    BY <1>9 DEF Users!HearList
  <2>3. usersFetch' \in [Users!Keys -> Fetched] /\ broken' \subseteq Users!Keys
    BY <1>5, <2>1
  <2>4. cache' \in [Users!Keys -> PageRows \cup {Users!Nothing}]
    <3>1. usersFetch[i] # Users!Missing => usersFetch[i] \in PageRows
      BY <1>5, <2>1
    <3> QED BY <1>5, <2>1, <3>1
  <2>5. ASSUME \A kind \in Users!Kinds : usersCalls[kind].pc \in {"idle", "sent"}
        PROVE  /\ \A k \in Users!Keys : usersFetch'[k] \notin {Users!Nothing, Users!Asked} =>
                    k \in usersOvertaken \/ usersFetch'[k] = Users!PageOf(k)
               /\ usersCalls["delete"] = Users!NoCall /\ usersFetch'[Users!Key] = Users!Nothing =>
                    \/ Users!Key \in broken' \cup usersOvertaken
                    \/ cache'[Users!Key] = Users!PageOf(Users!Key)
    <3>1. \A k \in Users!Keys : usersFetch[k] \notin {Users!Nothing, Users!Asked} =>
             k \in usersOvertaken \/ usersFetch[k] = Users!PageOf(k)
      BY <1>2, <2>5 DEF UsersSee
    <3>2. \A k \in Users!Keys : usersFetch'[k] = IF k = i THEN Users!Nothing ELSE usersFetch[k]
      BY <1>5, <2>1
    <3>3. CASE Users!Key = i
      <4>1. usersFetch[i] = Users!Missing => i \in broken'
        BY <2>1
      <4>2. usersFetch[i] # Users!Missing => cache'[i] = usersFetch[i]
        BY <1>5, <2>1
      <4>3. i \in usersOvertaken \/ usersFetch[i] = Users!PageOf(i)
        BY <2>1, <3>1
      <4> QED BY <3>1, <3>2, <3>3, <4>1, <4>2, <4>3
    <3>4. CASE Users!Key # i
      <4>1. cache'[Users!Key] = cache[Users!Key]
        BY <1>3, <1>5, <2>1, <3>4
      <4>2. Users!Key \in broken => Users!Key \in broken'
        BY <2>1, <3>4
      <4>3. usersFetch'[Users!Key] = usersFetch[Users!Key]
        BY <1>3, <3>2, <3>4
      <4>4. usersCalls["delete"] = Users!NoCall /\ usersFetch[Users!Key] = Users!Nothing =>
               \/ Users!Key \in broken \cup usersOvertaken
               \/ cache[Users!Key] = Users!PageOf(Users!Key)
        BY <1>2, <2>5 DEF UsersSee
      <4> QED BY <3>1, <3>2, <4>1, <4>2, <4>3, <4>4
    <3> QED BY <3>3, <3>4
  <2>6. UsersSee'
    BY <1>1, <1>3, <1>4, <2>2, <2>5 DEF UsersSee, Users!Nothing, Users!Asked, Users!NoRows,
       Users!Absent, Users!Keys, Users!Kinds, Users!NoCall
  <2> QED BY <1>2, <1>5, <1>6, <2>2, <2>3, <2>4, <2>6 DEF UserCounts
<1> QED BY <1>7, <1>8, <1>9

\* A dialog opens on a row that is shown.
LEMMA UsersOpen ==
    ASSUME UsersInv,
           Users!Close \/ (\E kind \in Users!Kinds : Users!Open(kind)) \/ UNCHANGED Users!vars
    PROVE  UsersInv'
<1>1. UNCHANGED <<accounts, usersFilter, usersPage, cache, usersFetch, broken, usersOvertaken,
                  held, usersCalls, usersTaps, usersMoves>>
  BY DEF Users!Close, Users!Open, Users!vars
<1>2. UserScreen /\ UsersSee /\ UserServer /\ UserCounts
  BY DEF UsersInv
<1>3. usersDialog' \in UserDialogs
  <2>1. Users!NoDialog \in UserDialogs
    BY DEF Users!NoDialog, UserDialogs, Users!Account
  <2>2. ASSUME NEW kind \in Users!Kinds, Users!Open(kind)
        PROVE  usersDialog' \in UserDialogs
    <3>1. CASE kind = "create"
      BY <2>2, <3>1 DEF Users!Open, Users!NoDialog, UserDialogs, Users!Account
    <3>2. CASE kind # "create"
      <4>1. /\ usersDialog' = [kind |-> kind, id |-> Users!Shown.row, was |-> Users!Shown.was]
            /\ Users!Shown.row # 0 /\ Users!Shown \in PageRows
        BY <1>2, <2>2, <3>2, UsersShown DEF Users!Open
      <4>2. /\ Users!Shown.row \in {0} \cup Accounts /\ Users!Shown.was \in Users!Account
            /\ Users!Shown.was # Users!Absent
        BY <4>1 DEF PageRows, Users!Page
      <4> QED BY <4>1, <4>2 DEF UserDialogs
    <3> QED BY <3>1, <3>2
  <2> QED BY <1>2, <2>1, <2>2 DEF Users!Close, Users!vars, UserScreen
<1>4. UserScreen'
  BY <1>1, <1>2, <1>3 DEF UserScreen, PageRows, UserDialogs, Users!Kinds, Users!Page,
     Users!Account, Users!Absent, Users!Keys, Users!Nothing, Users!Asked, Users!Missing,
     Users!NoRows
<1>5. \A k : Users!PageOf(k)' = Users!PageOf(k)
  BY <1>1, PageOfAccounts
<1>6. UsersSee'
  <2>1. Users!Key' = Users!Key
    BY <1>1 DEF Users!Key
  <2> QED BY <1>1, <1>2, <1>5, <2>1 DEF UsersSee, Users!Nothing, Users!Asked, Users!NoRows,
          Users!Absent, Users!Keys, Users!Kinds, Users!NoCall
<1> QED BY <1>1, <1>2, <1>4, <1>6 DEF UsersInv, UserServer, UserCounts, Users!Kinds, UserCall,
        DeleteCall, Users!NoCall, Users!Account, Users!Absent, PageRows, Users!Page, Users!Keys,
        Users!Nothing, Users!NoRows

\* The accounts and the calls, when a call of a kind is replaced by one of its type.
LEMMA UserCallTyped ==
    ASSUME UserServer, accounts' \in [Accounts -> Users!Account],
           NEW kind \in Users!Kinds, NEW c,
           usersCalls' = [usersCalls EXCEPT ![kind] = c],
           c \in (IF kind = "delete" THEN DeleteCall ELSE UserCall) \cup {Users!NoCall},
           kind = "edit" /\ c # Users!NoCall => c.was # Users!Absent
    PROVE  /\ UserServer'
           /\ \A k \in Users!Kinds : usersCalls'[k] = IF k = kind THEN c ELSE usersCalls[k]
<1>1. usersCalls \in [Users!Kinds -> UserCall \cup DeleteCall \cup {Users!NoCall}]
  BY DEF UserServer
<1>2. \A k \in Users!Kinds : usersCalls'[k] = IF k = kind THEN c ELSE usersCalls[k]
  BY <1>1
<1>3. usersCalls' \in [Users!Kinds -> UserCall \cup DeleteCall \cup {Users!NoCall}]
  BY <1>1
<1>4. /\ "delete" \in Users!Kinds /\ "edit" \in Users!Kinds
      /\ \A k \in {"create", "edit", "toggle"} : k \in Users!Kinds /\ k # "delete"
  BY DEF Users!Kinds
<1>5. usersCalls'["delete"] \in DeleteCall \cup {Users!NoCall}
  BY <1>2, <1>4 DEF UserServer
<1>6. \A k \in {"create", "edit", "toggle"} : usersCalls'[k] \in UserCall \cup {Users!NoCall}
  BY <1>2, <1>4 DEF UserServer
<1>7. usersCalls'["edit"] # Users!NoCall => usersCalls'["edit"].was # Users!Absent
  BY <1>2, <1>4 DEF UserServer
<1> QED BY <1>2, <1>3, <1>5, <1>6, <1>7 DEF UserServer, Users!Kinds, UserCall,
        DeleteCall, Users!NoCall, Users!Account, Users!Absent, PageRows, Users!Page, Users!Keys,
        Users!Nothing, Users!NoRows

\* What is sent has no answer yet.
LEMMA UsersSubmit ==
    ASSUME UsersInv, NEW kind \in Users!Kinds, Users!Submit(kind)
    PROVE  UsersInv'
<1> DEFINE c == [pc |-> "sent", id |-> usersDialog.id, was |-> usersDialog.was]
<1>1. UNCHANGED <<accounts, usersFilter, usersPage, cache, usersFetch, broken, usersOvertaken,
                  held, usersDialog, usersMoves>>
  BY DEF Users!Submit, Users!Send, Users!Tap
<1>2. UserScreen /\ UsersSee /\ UserServer /\ UserCounts
  BY DEF UsersInv
<1>3. /\ kind # "delete" /\ usersDialog.kind = kind /\ usersCalls[kind] = Users!NoCall
      /\ usersCalls' = [usersCalls EXCEPT ![kind] = c] /\ usersTaps' = usersTaps + 1
      /\ usersTaps < MaxUserTaps
  BY DEF Users!Submit, Users!Send, Users!Tap
<1>4. c \in UserCall /\ (kind = "edit" => c.was # Users!Absent)
  BY <1>2, <1>3 DEF UserScreen, UserDialogs, UserCall
<1>5. c.pc = "sent"
  OBVIOUS
<1>6. accounts' \in [Accounts -> Users!Account]
  BY <1>1, <1>2 DEF UserServer
<1> HIDE DEF c
<1>7. /\ UserServer'
      /\ \A k \in Users!Kinds : usersCalls'[k] = IF k = kind THEN c ELSE usersCalls[k]
  BY <1>2, <1>3, <1>4, <1>6, UserCallTyped
<1>8. UserScreen'
  BY <1>1, <1>2 DEF UserScreen, PageRows, UserDialogs, Users!Kinds, Users!Page,
     Users!Account, Users!Absent, Users!Keys, Users!Nothing, Users!Asked, Users!Missing,
     Users!NoRows
<1>9. UserCounts'
  BY <1>1, <1>2, <1>3, Portal DEF UserCounts
<1>10. UsersSee'
  <2>1. Users!Key' = Users!Key /\ \A k : Users!PageOf(k)' = Users!PageOf(k)
    BY <1>1, PageOfAccounts DEF Users!Key
  <2>2. usersCalls[kind].pc = "idle"
    BY <1>3 DEF Users!NoCall
  <2>3. /\ "delete" \in Users!Kinds
        /\ usersCalls'["delete"] = usersCalls["delete"]
        /\ \A k \in Users!Kinds : usersCalls'[k].pc \in {"idle", "sent"} =>
                                    usersCalls[k].pc \in {"idle", "sent"}
    BY <1>3, <1>7, <2>2 DEF Users!Kinds
  <2>4. (\A k \in Users!Kinds : usersCalls'[k].pc \in {"idle", "sent"})
           => \A k \in Users!Kinds : usersCalls[k].pc \in {"idle", "sent"}
    BY <2>3
  <2> QED BY <1>1, <1>2, <2>1, <2>3, <2>4 DEF UsersSee, Users!Nothing, Users!Asked,
          Users!NoRows, Users!Absent, Users!Keys, Users!Kinds, Users!NoCall
<1> QED BY <1>7, <1>8, <1>9, <1>10 DEF UsersInv

\* A deletion drops every list on its way and shows the page without the row.
LEMMA UsersDelete == ASSUME UsersInv, Users!ConfirmDelete PROVE UsersInv'
<1> DEFINE before == cache[Users!Key]
           back == before # Users!Nothing /\ before.row # 0 /\ usersPage > 1
           key == [filter |-> usersFilter, page |-> IF back THEN usersPage - 1 ELSE usersPage]
           c == [pc |-> "sent", id |-> usersDialog.id, was |-> usersDialog.was,
                 before |-> before, key |-> Users!Key, back |-> back]
<1>1. UserScreen /\ UserServer /\ UserCounts /\ UsersSee
  BY DEF UsersInv
<1>2. /\ UNCHANGED <<accounts, broken, usersMoves>>
      /\ usersOvertaken' = {} /\ usersDialog' = Users!NoDialog
      /\ usersTaps < MaxUserTaps /\ usersTaps' = usersTaps + 1
  BY DEF Users!ConfirmDelete, Users!Send, Users!Tap
<1>3. /\ usersCalls' = [usersCalls EXCEPT !["delete"] = c]
      /\ cache' = IF before = Users!Nothing THEN cache
                  ELSE [cache EXCEPT ![Users!Key] = Users!Without(before, usersDialog.id)]
      /\ usersFilter' = usersFilter /\ usersPage' = key.page /\ held' = Users!Shown
      /\ usersFetch' = [k \in Users!Keys |-> IF back /\ k = key THEN Users!Asked
                                              ELSE Users!Nothing]
      /\ usersDialog.kind = "delete" /\ usersCalls["delete"] = Users!NoCall
  BY DEF Users!ConfirmDelete, Users!Send, Users!Goto
<1>4. /\ usersFilter \in {"all", "active"} /\ usersPage \in 1 .. Cardinality(Accounts)
      /\ before \in PageRows \cup {Users!Nothing} /\ Users!Key \in Users!Keys
      /\ cache \in [Users!Keys -> PageRows \cup {Users!Nothing}]
      /\ Users!Shown \in PageRows /\ usersDialog \in UserDialogs
  BY <1>1, UsersShown DEF UserScreen
<1>5. back \in BOOLEAN
  BY Zenon
<1>6. c \in DeleteCall
  <2>1. usersDialog.id \in {0} \cup Accounts /\ usersDialog.was \in Users!Account
    BY <1>4 DEF UserDialogs
  <2> HIDE DEF back, before
  <2> QED BY <1>4, <1>5, <2>1 DEF DeleteCall
<1>7. key.page \in 1 .. Cardinality(Accounts)
  <2>1. back => usersPage > 1
    OBVIOUS
  <2> HIDE DEF back
  <2> QED BY <1>4, <2>1, Portal
<1>8. cache' \in [Users!Keys -> PageRows \cup {Users!Nothing}]
  <2>1. CASE before = Users!Nothing
    BY <1>3, <1>4, <2>1
  <2>2. CASE before # Users!Nothing
    <3> DEFINE without == Users!Without(before, usersDialog.id)
    <3>1. before \in PageRows
      BY <1>4, <2>2
    <3> HIDE DEF before
    <3>2. /\ before \in [count : 0 .. Users!Cardinality(Accounts), row : {0} \cup Accounts,
                         was : Users!Account]
          /\ before.row # 0 => before.was # Users!Absent
      BY <3>1 DEF PageRows, Users!Page
    <3>3. PICK n \in 0 .. Users!Cardinality(Accounts) :
             without \in {[Users!NoRows EXCEPT !.count = n], [before EXCEPT !.count = n]}
      <4>1. before.count \in 0 .. Users!Cardinality(Accounts)
        BY <3>2
      <4>2. (IF before.count = 0 THEN 0 ELSE before.count - 1) \in 0 .. Users!Cardinality(Accounts)
        BY <4>1, Portal
      <4>3. without \in {[Users!NoRows EXCEPT
                            !.count = IF before.count = 0 THEN 0 ELSE before.count - 1],
                         [before EXCEPT
                            !.count = IF before.count = 0 THEN 0 ELSE before.count - 1]}
        BY DEF Users!Without
      <4> QED BY <4>2, <4>3
    <3>4. [Users!NoRows EXCEPT !.count = n] \in PageRows
      BY DEF PageRows, Users!Page, Users!NoRows, Users!Account
    <3>5. [before EXCEPT !.count = n] \in PageRows
      BY <3>2 DEF PageRows, Users!Page
    <3>6. without \in PageRows
      BY <3>3, <3>4, <3>5
    <3>7. cache' = [cache EXCEPT ![Users!Key] = without]
      BY <1>3, <2>2
    <3> HIDE DEF without
    <3> QED BY <1>4, <3>6, <3>7
  <2> QED BY <2>1, <2>2
<1>9. /\ usersFetch' \in [Users!Keys -> PageRows \cup {Users!Nothing, Users!Asked, Users!Missing}]
      /\ \A k \in Users!Keys : usersFetch'[k] \in {Users!Nothing, Users!Asked}
  <2> HIDE DEF key, back
  <2> QED BY <1>3
<1>10. usersDialog' \in UserDialogs
  BY <1>2 DEF Users!NoDialog, UserDialogs, Users!Account
<1>11. UserScreen'
  <2>1. /\ usersFilter' \in {"all", "active"} /\ usersPage' \in 1 .. Cardinality(Accounts)
        /\ held' \in PageRows /\ broken' \subseteq Users!Keys
    BY <1>1, <1>2, <1>3, <1>4, <1>7 DEF UserScreen
  <2> QED BY <1>2, <1>8, <1>9, <1>10, <2>1 DEF UserScreen, PageRows, UserDialogs, Users!Kinds,
          Users!Page, Users!Account, Users!Absent, Users!Keys, Users!Nothing, Users!Asked,
          Users!Missing, Users!NoRows
<1>12. UserCounts'
  BY <1>1, <1>2, Portal DEF UserCounts
<1>13. c.pc = "sent"
  OBVIOUS
<1> HIDE DEF c
<1>14. /\ UserServer' /\ usersCalls'["delete"] = c
  <2> HIDE DEF before, back, key
  <2>1. "delete" \in Users!Kinds
    BY DEF Users!Kinds
  <2>2. accounts' \in [Accounts -> Users!Account]
    BY <1>1, <1>2 DEF UserServer
  <2>3. usersCalls' = [usersCalls EXCEPT !["delete"] = c]
    BY <1>3
  <2>4. /\ c \in (IF "delete" = "delete" THEN DeleteCall ELSE UserCall) \cup {Users!NoCall}
        /\ "delete" = "edit" /\ c # Users!NoCall => c.was # Users!Absent
    BY <1>6
  <2>5. /\ UserServer'
        /\ \A k \in Users!Kinds : usersCalls'[k] = IF k = "delete" THEN c ELSE usersCalls[k]
    BY <1>1, <2>1, <2>2, <2>3, <2>4, UserCallTyped
  <2> QED BY <2>1, <2>5
<1>15. UsersSee'
  <2>1. usersCalls'["delete"] # Users!NoCall
    BY <1>13, <1>14 DEF Users!NoCall
  <2>2. \A k \in Users!Keys : usersFetch'[k] \in {Users!Nothing, Users!Asked}
    BY <1>9
  <2> QED BY <2>1, <2>2 DEF UsersSee, Users!Nothing, Users!Asked, Users!NoRows, Users!Absent,
          Users!Keys, Users!Kinds, Users!NoCall
<1> QED BY <1>11, <1>12, <1>14, <1>15 DEF UsersInv

\* The server: from its answer to the arrival of the answer nothing is claimed.
LEMMA UsersServe ==
    ASSUME UsersInv, NEW kind \in Users!Kinds, Users!Serve(kind)
    PROVE  UsersInv'
<1>1. UNCHANGED <<usersFilter, usersPage, cache, usersFetch, broken, usersOvertaken, held,
                  usersDialog, usersTaps, usersMoves>>
  BY DEF Users!Serve
<1>2. UserScreen /\ UserServer /\ UserCounts
  BY DEF UsersInv
<1>3. /\ usersCalls[kind] \in (IF kind = "delete" THEN DeleteCall ELSE UserCall)
      /\ kind = "edit" => usersCalls[kind].was # Users!Absent
  <2>1. usersCalls[kind].pc = "sent"
    BY DEF Users!Serve
  <2>2. usersCalls[kind] # Users!NoCall
    BY <2>1 DEF Users!NoCall
  <2>3. kind \in {"create", "edit", "toggle", "delete"}
    BY DEF Users!Kinds
  <2> QED BY <1>2, <2>2, <2>3 DEF UserServer
<1>4. PICK pc \in {"ok", "failed"} : usersCalls' = [usersCalls EXCEPT ![kind].pc = pc]
  BY DEF Users!Serve
<1> DEFINE d == usersCalls[kind]
           c == [d EXCEPT !.pc = pc]
<1>5. /\ c \in (IF kind = "delete" THEN DeleteCall ELSE UserCall)
      /\ kind = "edit" => c.was # Users!Absent
      /\ c.pc = pc
  <2> HIDE DEF d
  <2>1. CASE kind = "delete"
    BY <1>3, <2>1 DEF DeleteCall, d
  <2>2. CASE kind # "delete"
    BY <1>3, <2>2 DEF UserCall, d
  <2> QED BY <2>1, <2>2
<1>6. accounts' \in [Accounts -> Users!Account]
  <2>1. accounts \in [Accounts -> Users!Account]
    BY <1>2 DEF UserServer
  <2>2. CASE accounts' = accounts
    BY <2>1, <2>2
  <2>3. ASSUME NEW a \in Accounts,
               IF kind = "create" THEN accounts[a] = Users!Absent
               ELSE a = d.id /\ accounts[a] # Users!Absent,
               accounts' = [accounts EXCEPT ![a] = Users!Changed(kind, d)]
        PROVE  accounts' \in [Accounts -> Users!Account]
    <3>1. Users!Changed(kind, d) \in Users!Account
      <4>1. CASE kind = "delete"
        BY <4>1 DEF Users!Changed, Users!Account
      <4>2. CASE kind = "create"
        BY <4>2 DEF Users!Changed, Users!Account
      <4>3. CASE kind \in {"edit", "toggle"}
        <5>1. /\ accounts[d.id] \in [on : BOOLEAN, name : 0 .. 1]
              /\ d.was \in Users!Account
              /\ kind = "edit" => d.was # Users!Absent
          BY <1>3, <2>1, <2>3, <4>3 DEF Users!Account, UserCall
        <5> HIDE DEF d
        <5>2. CASE kind = "toggle"
          <6>1. (~ d.was.on) \in BOOLEAN
            BY Zenon
          <6> QED BY <5>1, <5>2, <6>1 DEF Users!Changed, Users!Account
        <5>3. CASE kind = "edit"
          <6>1. 1 - d.was.name \in 0 .. 1
            BY <5>1, <5>3 DEF Users!Account
          <6> QED BY <5>1, <5>3, <6>1 DEF Users!Changed, Users!Account
        <5> QED BY <4>3, <5>2, <5>3
      <4>4. kind \in {"create", "edit", "toggle", "delete"}
        BY DEF Users!Kinds
      <4> QED BY <4>1, <4>2, <4>3, <4>4
    <3> QED BY <2>1, <2>3, <3>1
  <2> QED BY <2>2, <2>3 DEF Users!Serve
<1>7. usersCalls' = [usersCalls EXCEPT ![kind] = c]
  BY <1>4
<1> HIDE DEF c
<1>8. UserServer' /\ usersCalls'[kind] = c
  BY <1>2, <1>5, <1>6, <1>7, UserCallTyped
<1>9. UsersSee'
  BY <1>5, <1>8 DEF UsersSee, Users!Kinds
<1>10. UserScreen'
  BY <1>1, <1>2 DEF UserScreen, PageRows, UserDialogs, Users!Kinds, Users!Page,
     Users!Account, Users!Absent, Users!Keys, Users!Nothing, Users!Asked, Users!Missing,
     Users!NoRows
<1>11. UserCounts'
  BY <1>1, <1>2 DEF UserCounts
<1> QED BY <1>8, <1>9, <1>10, <1>11 DEF UsersInv

\* An answer asks for the list that is shown; what was on its way is overtaken.
LEMMA UsersAnswer ==
    ASSUME UsersInv, NEW kind \in Users!Kinds, Users!Answer(kind)
    PROVE  UsersInv'
<1>1. UNCHANGED <<accounts, broken, usersTaps, usersMoves>>
  BY DEF Users!Answer
<1>2. UserScreen /\ UserServer /\ UserCounts
  BY DEF UsersInv
<1>3. /\ usersCalls[kind] \in (IF kind = "delete" THEN DeleteCall ELSE UserCall)
  <2>1. usersCalls[kind].pc \in {"ok", "failed"}
    BY DEF Users!Answer
  <2>2. usersCalls[kind] # Users!NoCall
    BY <2>1 DEF Users!NoCall
  <2>3. kind \in {"create", "edit", "toggle", "delete"}
    BY DEF Users!Kinds
  <2> QED BY <1>2, <2>2, <2>3 DEF UserServer
<1>4. /\ usersCalls' = [usersCalls EXCEPT ![kind] = Users!NoCall]
      /\ usersDialog' \in {usersDialog, Users!NoDialog}
  BY DEF Users!Answer, Users!Ended
<1>5. /\ cache' \in [Users!Keys -> PageRows \cup {Users!Nothing}]
      /\ usersFilter' \in {"all", "active"} /\ usersPage' \in 1 .. Cardinality(Accounts)
      /\ held' \in PageRows
  <2>1. /\ cache \in [Users!Keys -> PageRows \cup {Users!Nothing}]
        /\ usersFilter \in {"all", "active"} /\ usersPage \in 1 .. Cardinality(Accounts)
        /\ held \in PageRows /\ Users!Shown \in PageRows
    BY <1>2, UsersShown DEF UserScreen
  <2>2. CASE kind = "delete" /\ usersCalls[kind].pc = "failed"
    <3> DEFINE c == usersCalls[kind]
    <3>1. c \in DeleteCall
      BY <1>3, <2>2
    <3>2. /\ cache' = IF c.before # Users!Nothing THEN [cache EXCEPT ![c.key] = c.before] ELSE cache
          /\ IF c.back THEN /\ usersFilter' = usersFilter /\ usersPage' = c.key.page
                            /\ held' = Users!Shown
             ELSE UNCHANGED <<usersFilter, usersPage, held>>
      BY <2>2 DEF Users!Answer, Users!Ended, Users!Goto
    <3> HIDE DEF c
    <3>3. /\ c.before \in PageRows \cup {Users!Nothing} /\ c.key \in Users!Keys
          /\ c.key.page \in 1 .. Cardinality(Accounts)
      BY <3>1, Portal DEF DeleteCall, Users!Keys
    <3>4. cache' \in [Users!Keys -> PageRows \cup {Users!Nothing}]
      BY <2>1, <3>2, <3>3
    <3> QED BY <2>1, <3>2, <3>3, <3>4
  <2>3. CASE ~ (kind = "delete" /\ usersCalls[kind].pc = "failed")
    BY <2>1, <2>3 DEF Users!Answer, Users!Ended
  <2> QED BY <2>2, <2>3
<1>6. Users!Key' \in Users!Keys
  BY <1>5, Portal DEF Users!Key, Users!Keys
<1>7. /\ \/ usersFetch' = usersFetch /\ usersFetch[Users!Key'] # Users!Nothing
         \/ usersFetch' = [usersFetch EXCEPT ![Users!Key'] = Users!Asked]
      /\ usersOvertaken' = {k \in Users!Keys : usersFetch'[k] \notin {Users!Nothing, Users!Asked}}
  BY DEF Users!Answer, Users!Refetch
<1>8. /\ usersFetch' \in [Users!Keys -> PageRows \cup {Users!Nothing, Users!Asked, Users!Missing}]
      /\ usersFetch'[Users!Key'] # Users!Nothing
  <2>1. usersFetch \in [Users!Keys -> PageRows \cup {Users!Nothing, Users!Asked, Users!Missing}]
    BY <1>2 DEF UserScreen
  <2> QED BY <1>6, <1>7, <2>1, PagesDiffer
<1>9. usersDialog' \in UserDialogs
  <2>1. Users!NoDialog \in UserDialogs
    BY DEF Users!NoDialog, UserDialogs, Users!Account
  <2> QED BY <1>2, <1>4, <2>1 DEF UserScreen
<1>10. UserScreen'
  <2>1. broken' \subseteq Users!Keys /\ usersOvertaken' \subseteq Users!Keys
    BY <1>1, <1>2, <1>7 DEF UserScreen
  <2> QED BY <1>5, <1>8, <1>9, <2>1 DEF UserScreen, PageRows, UserDialogs, Users!Kinds,
          Users!Page, Users!Account, Users!Absent, Users!Keys, Users!Nothing, Users!Asked,
          Users!Missing, Users!NoRows
<1>11. UserServer'
  <2>1. accounts' \in [Accounts -> Users!Account]
    BY <1>1, <1>2 DEF UserServer
  <2> QED BY <1>2, <1>4, <2>1, UserCallTyped
<1>12. UsersSee'
  <2>1. \A k \in Users!Keys : usersFetch'[k] \notin {Users!Nothing, Users!Asked} =>
           k \in usersOvertaken'
    BY <1>7
  <2>2. usersFetch'[Users!Key'] # Users!Nothing
    BY <1>8
  <2> QED BY <2>1, <2>2 DEF UsersSee, Users!Nothing, Users!Asked, Users!NoRows, Users!Absent,
          Users!Keys, Users!Kinds, Users!NoCall
<1>13. UserCounts'
  BY <1>1, <1>2 DEF UserCounts
<1> QED BY <1>10, <1>11, <1>12, <1>13 DEF UsersInv

\* With nothing in the air the page shows what the server lists, or says that it cannot.
LEMMA UsersStayRight == Spec => [](focus = "users" => Users!TypeOK /\ Users!UsersAgree)
<1>1. Users!Init => UsersInv
  BY UsersBegin
<1>2. UsersInv /\ [Users!Next]_Users!vars => UsersInv'
  BY UsersTurn, UsersLists, UsersOpen, UsersSubmit, UsersDelete, UsersServe, UsersAnswer
     DEF Users!Next, Users!Progress
<1>3. UsersInv => Users!TypeOK /\ Users!UsersAgree
  <2> SUFFICES ASSUME UsersInv PROVE Users!TypeOK /\ Users!UsersAgree
    OBVIOUS
  <2>1. UserScreen /\ UserServer /\ UserCounts /\ UsersSee
    BY DEF UsersInv
  <2>2. Users!UsersAgree
    <3>1. "delete" \in Users!Kinds /\ Users!NoCall.pc = "idle"
      BY DEF Users!Kinds, Users!NoCall
    <3>2. Users!Key \in Users!Keys
      BY <2>1, UsersShown
    <3> QED BY <2>1, <3>1, <3>2 DEF UsersSee, Users!UsersAgree, Users!Quiet
  <2>3. Users!TypeOK
    <3>1. held \in Users!Page /\ cache \in [Users!Keys -> Users!Page \cup {Users!Nothing}]
      BY <2>1 DEF UserScreen, PageRows
    <3>2. usersFetch \in [Users!Keys -> Users!Page \cup {Users!Nothing, Users!Asked, Users!Missing}]
      BY <2>1 DEF UserScreen, PageRows
    <3>3. usersDialog \in [kind : Users!Kinds \cup {"none"}, id : {0} \cup Accounts,
                           was : Users!Account]
      BY <2>1 DEF UserScreen, UserDialogs
    <3>4. Users!Key \in Users!Keys
      BY <2>1, UsersShown
    <3>5. /\ DOMAIN usersCalls = Users!Kinds
          /\ \A k \in Users!Kinds : usersCalls[k].pc \in {"idle", "sent", "ok", "failed"}
      <4>1. \A c \in UserCall \cup DeleteCall \cup {Users!NoCall} :
               c.pc \in {"idle", "sent", "ok", "failed"}
        BY DEF UserCall, DeleteCall, Users!NoCall
      <4> QED BY <2>1, <4>1 DEF UserServer
    <3>6. /\ accounts \in [Accounts -> Users!Account] /\ broken \subseteq Users!Keys
          /\ usersOvertaken \subseteq Users!Keys
      BY <2>1 DEF UserServer, UserScreen
    <3> QED BY <2>1, <3>1, <3>2, <3>3, <3>4, <3>5, <3>6 DEF Users!TypeOK, UserCounts
  <2> QED BY <2>2, <2>3
<1> QED BY <1>1, <1>2, <1>3, UsersAlone, PTL DEF Users!Spec

-----------------------------------------------------------------------------
(* The reports of the portal (AdminReports).                                *)

\* While the server has answered no setting, a list that is not overtaken misses none: on
\* its way for any filter, and in the cache for the one on the screen.
ListRight(f) ==
    /\ reportsFetch[f] \in {Reports!Nothing, Reports!Asked, Reports!Failed, Reports!Listed(f)}
    /\ f = reportsFilter /\ reportsFetch[f] = Reports!Nothing =>
         f \in reportsBroken \/ reportsCache[f] = Reports!Listed(f)
RowsRight ==
    (\A c \in reportsCalls : c.pc = "sent") =>
        \A f \in Reports!Filters : f \notin reportsOvertaken => ListRight(f)

ReportsInv == Reports!TypeOK /\ RowsRight

\* A list, no list, one that is asked for and one that failed are told apart.
LEMMA ListsDiffer ==
    /\ Reports!Nothing \notin Reports!Lists /\ Reports!Asked \notin Reports!Lists
    /\ Reports!Failed \notin Reports!Lists
    /\ Reports!Nothing # Reports!Asked /\ Reports!Nothing # Reports!Failed
    /\ Reports!Asked # Reports!Failed
<1>1. PICK r \in ReportIds : TRUE
  BY PagesAssumption
<1>2. Reports!Nothing[r] = "none" /\ Reports!Asked[r] = "asked" /\ Reports!Failed[r] = "failed"
  BY DEF Reports!Nothing, Reports!Asked, Reports!Failed, Reports!None
<1>3. \A l \in Reports!Lists : l[r] \in {"pending", "reviewed", "resolved", "out"}
  BY DEF Reports!Lists, Reports!Statuses, Reports!Out
<1> QED BY <1>2, <1>3

\* What the server lists is a list, and so are the rows on the screen.
LEMMA ListsAreLists ==
    ASSUME Reports!TypeOK
    PROVE  /\ \A f \in Reports!Filters : Reports!Listed(f) \in Reports!Lists
           /\ Reports!Rows \in Reports!Lists
<1>1. \A f \in Reports!Filters : Reports!Listed(f) \in Reports!Lists
  <2>1. reportsStored \in [ReportIds -> Reports!Statuses]
    BY DEF Reports!TypeOK
  <2> QED BY <2>1 DEF Reports!Listed, Reports!Lists, Reports!Statuses, Reports!Out
<1>2. reportsCache[reportsFilter] \in Reports!Lists \cup {Reports!Nothing}
  BY DEF Reports!TypeOK
<1> QED BY <1>1, <1>2 DEF Reports!Rows, Reports!TypeOK

LEMMA ReportsBegin == ASSUME Reports!Init PROVE ReportsInv
<1>1. 0 \in 0 .. MaxReportTaps
  BY PagesAssumption
<1>2. /\ reportsCalls = {} /\ newest = 0 /\ reportsTaps = 0 /\ reportsFilter = "all"
      /\ reportsBroken = {} /\ reportsOvertaken = {} /\ selected = "none" /\ last = "none"
      /\ \A f \in Reports!Filters :
           reportsFetch[f] = IF f = reportsFilter THEN Reports!Asked ELSE Reports!Nothing
  BY DEF Reports!Init, Reports!None
<1>3. /\ reportsHeld \in Reports!Lists /\ reportsStored \in [ReportIds -> Reports!Statuses]
  BY DEF Reports!Init, Reports!Lists, Reports!Statuses
<1>4. /\ reportsFetch \in [Reports!Filters ->
                             Reports!Lists \cup {Reports!Nothing, Reports!Asked, Reports!Failed}]
      /\ reportsCache \in [Reports!Filters -> Reports!Lists \cup {Reports!Nothing}]
  BY DEF Reports!Init
<1>5. Reports!TypeOK
  BY <1>1, <1>2, <1>3, <1>4 DEF Reports!TypeOK, Reports!Filters, Reports!None
<1>6. RowsRight
  BY <1>2, ListsDiffer DEF RowsRight, ListRight
<1> QED BY <1>5, <1>6 DEF ReportsInv

\* The lists are asked for: by another filter, and by the one on the screen.
LEMMA ReportsAsks ==
    ASSUME ReportsInv, Reports!Refocus \/ \E f \in Reports!Filters : Reports!SetFilter(f)
    PROVE  ReportsInv'
<1>1. UNCHANGED <<reportsStored, reportsCache, reportsBroken, selected, last, reportsCalls, newest>>
  BY DEF Reports!Refocus, Reports!SetFilter
<1>2. /\ MaxReportTaps \in Nat /\ reportsTaps \in 0 .. MaxReportTaps
      /\ reportsFilter \in Reports!Filters /\ reportsHeld \in Reports!Lists
      /\ reportsFetch \in [Reports!Filters ->
                             Reports!Lists \cup {Reports!Nothing, Reports!Asked, Reports!Failed}]
      /\ reportsOvertaken \subseteq Reports!Filters /\ RowsRight
  BY PagesAssumption DEF ReportsInv, Reports!TypeOK
<1>3. reportsTaps < MaxReportTaps /\ reportsTaps' = reportsTaps + 1
  BY DEF Reports!Refocus, Reports!SetFilter, Reports!Tap
<1>4. reportsTaps' \in 0 .. MaxReportTaps
  BY <1>2, <1>3
<1>5. /\ reportsFilter' \in Reports!Filters /\ reportsHeld' \in Reports!Lists
      /\ \/ Reports!Ask(reportsFilter')
         \/ /\ UNCHANGED <<reportsFetch, reportsOvertaken>>
            /\ reportsFetch[reportsFilter'] # Reports!Nothing
  <2>1. CASE Reports!Refocus
    BY <1>2, <2>1 DEF Reports!Refocus
  <2>2. CASE \E f \in Reports!Filters : Reports!SetFilter(f)
    <3> PICK f \in Reports!Filters : Reports!SetFilter(f)
      BY <2>2
    <3>1. reportsFilter' = f /\ reportsHeld' = Reports!Rows
      BY DEF Reports!SetFilter
    <3>2. Reports!Rows \in Reports!Lists
      BY ListsAreLists DEF ReportsInv
    <3>3. \/ Reports!Ask(f)
          \/ /\ UNCHANGED <<reportsFetch, reportsOvertaken>>
             /\ reportsFetch[f] # Reports!Nothing
      BY DEF Reports!SetFilter
    <3> QED BY <3>1, <3>2, <3>3
  <2> QED BY <2>1, <2>2
<1>6. /\ reportsFetch' \in [Reports!Filters ->
                              Reports!Lists \cup {Reports!Nothing, Reports!Asked, Reports!Failed}]
      /\ reportsOvertaken' \subseteq Reports!Filters
      /\ reportsFetch'[reportsFilter'] # Reports!Nothing
      /\ \A f \in Reports!Filters :
           \/ reportsFetch'[f] = Reports!Asked
           \/ reportsFetch'[f] = reportsFetch[f] /\ (f \notin reportsOvertaken' => f \notin reportsOvertaken)
  <2>1. CASE Reports!Ask(reportsFilter')
    BY <1>2, <1>5, <2>1, ListsDiffer DEF Reports!Ask
  <2>2. CASE ~ Reports!Ask(reportsFilter')
    BY <1>2, <1>5, <2>2
  <2> QED BY <2>1, <2>2
<1>7. \A f \in Reports!Filters :
         /\ UNCHANGED Reports!Listed(f)
         /\ f # reportsFilter' \/ reportsFetch'[f] # Reports!Nothing
  BY <1>1, <1>6 DEF Reports!Listed
<1>8. RowsRight'
  <2>1. SUFFICES ASSUME \A c \in reportsCalls : c.pc = "sent",
                        NEW f \in Reports!Filters, f \notin reportsOvertaken'
                 PROVE  ListRight(f)'
    BY <1>1 DEF RowsRight
  <2>2. CASE reportsFetch'[f] = Reports!Asked
    BY <1>7, <2>2 DEF ListRight, Reports!Asked
  <2>3. CASE reportsFetch'[f] # Reports!Asked
    <3>1. reportsFetch'[f] = reportsFetch[f] /\ f \notin reportsOvertaken
      BY <1>6, <2>1, <2>3
    <3>2. ListRight(f)
      BY <1>2, <2>1, <3>1 DEF RowsRight
    <3> QED BY <1>7, <3>1, <3>2 DEF ListRight, Reports!Nothing, Reports!Asked, Reports!Failed
  <2> QED BY <2>2, <2>3
<1>9. Reports!TypeOK'
  BY <1>1, <1>4, <1>5, <1>6 DEF ReportsInv, Reports!TypeOK, Reports!Lists, Reports!Nothing,
     Reports!Asked, Reports!Failed
<1> QED BY <1>8, <1>9 DEF ReportsInv

\* The lists are read, and come in.
LEMMA ReportsLists ==
    ASSUME ReportsInv, Reports!ServeList \/ Reports!HearList
    PROVE  ReportsInv'
<1>1. UNCHANGED <<reportsStored, reportsFilter, reportsOvertaken, reportsHeld, selected, reportsCalls,
                  newest, reportsTaps>>
  BY DEF Reports!ServeList, Reports!HearList
<1>2. /\ reportsFilter \in Reports!Filters
      /\ reportsFetch \in [Reports!Filters ->
                             Reports!Lists \cup {Reports!Nothing, Reports!Asked, Reports!Failed}]
      /\ reportsCache \in [Reports!Filters -> Reports!Lists \cup {Reports!Nothing}]
      /\ reportsBroken \subseteq Reports!Filters
      /\ selected \in ReportIds \cup {"none"} /\ last \in Reports!Statuses \cup {"none"}
      /\ RowsRight
  BY DEF ReportsInv, Reports!TypeOK, Reports!None
<1>3. \A f \in Reports!Filters : Reports!Listed(f) \in Reports!Lists /\ UNCHANGED Reports!Listed(f)
  <2>1. \A f \in Reports!Filters : Reports!Listed(f) \in Reports!Lists
    BY ListsAreLists DEF ReportsInv
  <2> QED BY <1>1, <2>1 DEF Reports!Listed
<1>4. CASE Reports!ServeList
  <2>0. PICK g \in Reports!Filters :
          /\ reportsFetch[g] = Reports!Asked
          /\ \E l \in {Reports!Listed(g), Reports!Failed} :
               reportsFetch' = [reportsFetch EXCEPT ![g] = l]
    BY <1>4 DEF Reports!ServeList
  <2>1. PICK l \in {Reports!Listed(g), Reports!Failed} :
          reportsFetch' = [reportsFetch EXCEPT ![g] = l]
    BY <2>0
  <2>2. UNCHANGED <<reportsCache, reportsBroken, last>>
    BY <1>4 DEF Reports!ServeList
  <2>3. /\ l \in Reports!Lists \cup {Reports!Failed} /\ l # Reports!Nothing
    BY <1>3, ListsDiffer
  <2>4. reportsFetch' \in [Reports!Filters ->
                             Reports!Lists \cup {Reports!Nothing, Reports!Asked, Reports!Failed}]
    BY <1>2, <2>1, <2>3
  <2>5. RowsRight'
    <3>1. SUFFICES ASSUME \A c \in reportsCalls : c.pc = "sent",
                          NEW f \in Reports!Filters, f \notin reportsOvertaken
                   PROVE  ListRight(f)'
      BY <1>1 DEF RowsRight
    <3>2. CASE f = g
      <4>1. reportsFetch'[f] = l
        BY <1>2, <2>1, <3>2
      <4> QED BY <1>3, <2>1, <2>3, <3>2, <4>1 DEF ListRight, Reports!Nothing, Reports!Failed
    <3>3. CASE f # g
      <4>1. reportsFetch'[f] = reportsFetch[f]
        BY <1>2, <2>1, <3>3
      <4>2. ListRight(f)
        BY <1>2, <3>1 DEF RowsRight
      <4> QED BY <1>1, <1>3, <2>2, <4>1, <4>2 DEF ListRight, Reports!Nothing, Reports!Asked,
              Reports!Failed
    <3> QED BY <3>2, <3>3
  <2>6. Reports!TypeOK'
    BY <1>1, <2>2, <2>4 DEF ReportsInv, Reports!TypeOK, Reports!Lists, Reports!Nothing,
       Reports!Asked, Reports!Failed
  <2> QED BY <2>5, <2>6 DEF ReportsInv
<1>5. CASE Reports!HearList
  <2>1. PICK g \in Reports!Filters :
          /\ reportsFetch[g] \notin {Reports!Nothing, Reports!Asked}
          /\ reportsFetch' = [reportsFetch EXCEPT ![g] = Reports!Nothing]
          /\ IF reportsFetch[g] = Reports!Failed
             THEN reportsBroken' = reportsBroken \cup {g} /\ UNCHANGED <<reportsCache, last>>
             ELSE /\ reportsBroken' = reportsBroken \ {g}
                  /\ reportsCache' = [reportsCache EXCEPT ![g] = reportsFetch[g]]
                  /\ last' = IF /\ g = reportsFilter /\ selected # "none"
                                /\ reportsFetch[g][selected] # "out"
                             THEN reportsFetch[g][selected] ELSE last
    BY <1>5 DEF Reports!HearList, Reports!None, Reports!Out
  <2>2. reportsFetch[g] \in Reports!Lists \cup {Reports!Failed}
    BY <1>2, <2>1
  <2>3. /\ reportsCache' \in [Reports!Filters -> Reports!Lists \cup {Reports!Nothing}]
        /\ reportsBroken' \subseteq Reports!Filters
        /\ reportsFetch' \in [Reports!Filters ->
                             Reports!Lists \cup {Reports!Nothing, Reports!Asked, Reports!Failed}]
    BY <1>2, <2>1, <2>2
  <2>4. last' \in Reports!Statuses \cup {"none"}
    <3>1. CASE last' = last
      BY <1>2, <3>1
    <3>2. CASE last' # last
      <4>1. /\ selected \in ReportIds /\ reportsFetch[g] \in Reports!Lists
            /\ reportsFetch[g][selected] # "out" /\ last' = reportsFetch[g][selected]
        BY <1>2, <2>1, <2>2, <3>2
      <4> QED BY <4>1 DEF Reports!Lists, Reports!Out
    <3> QED BY <3>1, <3>2
  <2>5. RowsRight'
    <3>1. SUFFICES ASSUME \A c \in reportsCalls : c.pc = "sent",
                          NEW f \in Reports!Filters, f \notin reportsOvertaken
                   PROVE  ListRight(f)'
      BY <1>1 DEF RowsRight
    <3>2. ListRight(f)
      BY <1>2, <3>1 DEF RowsRight
    <3>3. CASE f = g
      <4>1. reportsFetch'[f] = Reports!Nothing
        BY <1>2, <2>1, <3>3
      <4>2. f \in reportsBroken' \/ reportsCache'[f] = Reports!Listed(f)
        <5>1. CASE reportsFetch[f] = Reports!Failed
          BY <2>1, <3>3, <5>1
        <5>2. CASE reportsFetch[f] # Reports!Failed
          <6>1. reportsFetch[f] = Reports!Listed(f)
            BY <2>1, <3>2, <3>3, <5>2 DEF ListRight
          <6> QED BY <1>2, <2>1, <3>3, <5>2, <6>1
        <5> QED BY <5>1, <5>2
      <4> QED BY <1>3, <4>1, <4>2 DEF ListRight, Reports!Nothing
    <3>4. CASE f # g
      <4>1. /\ reportsFetch'[f] = reportsFetch[f] /\ reportsCache'[f] = reportsCache[f]
            /\ f \in reportsBroken' <=> f \in reportsBroken
        BY <1>2, <2>1, <3>4
      <4> QED BY <1>1, <1>3, <3>2, <4>1 DEF ListRight, Reports!Nothing, Reports!Asked,
              Reports!Failed
    <3> QED BY <3>3, <3>4
  <2>6. Reports!TypeOK'
    BY <1>1, <2>3, <2>4 DEF ReportsInv, Reports!TypeOK, Reports!Lists, Reports!Nothing,
       Reports!Asked, Reports!Failed, Reports!None
  <2> QED BY <2>5, <2>6 DEF ReportsInv
<1> QED BY <1>4, <1>5

\* What the lists are made of does not move.
LEMMA RowsKept ==
    ASSUME ReportsInv,
           UNCHANGED <<reportsStored, reportsFilter, reportsCache, reportsFetch, reportsBroken,
                       reportsOvertaken>>,
           (\A c \in reportsCalls' : c.pc = "sent") => \A c \in reportsCalls : c.pc = "sent"
    PROVE  RowsRight'
<1>1. RowsRight
  BY DEF ReportsInv
<1>2. \A f \in Reports!Filters : ListRight(f) => ListRight(f)'
  BY DEF ListRight, Reports!Listed, Reports!Nothing, Reports!Asked, Reports!Failed
<1> QED BY <1>1, <1>2 DEF RowsRight

\* The steps of the dialog.
LEMMA ReportsDialog ==
    ASSUME ReportsInv,
           \/ Reports!CloseReport \/ \E r \in ReportIds : Reports!OpenReport(r)
           \/ \E s \in Reports!Statuses : Reports!SetStatus(s)
           \/ UNCHANGED Reports!vars
    PROVE  ReportsInv'
<1>1. UNCHANGED <<reportsStored, reportsFilter, reportsCache, reportsFetch, reportsBroken,
                  reportsOvertaken, reportsHeld>>
  BY DEF Reports!CloseReport, Reports!OpenReport, Reports!SetStatus, Reports!vars, Reports!lists
<1>2. /\ MaxReportTaps \in Nat /\ reportsTaps \in 0 .. MaxReportTaps
      /\ selected \in ReportIds \cup {"none"}
      /\ reportsCalls \subseteq [n : 1 .. MaxReportTaps, id : ReportIds,
                                 status : Reports!Statuses, pc : {"sent", "ok", "failed"}]
  BY PagesAssumption DEF ReportsInv, Reports!TypeOK, Reports!None
<1>r. Reports!Rows \in [ReportIds -> Reports!Statuses \cup {"out"}]
  BY ListsAreLists DEF ReportsInv, Reports!Lists, Reports!Out
<1>3. CASE UNCHANGED <<reportsCalls, newest, reportsTaps>>
  <2>1. /\ selected' \in ReportIds \cup {selected, "none"}
        /\ last' \in Reports!Statuses \cup {last, "none"}
    <3>1. CASE Reports!CloseReport
      BY <3>1 DEF Reports!CloseReport, Reports!None
    <3>2. CASE \E r \in ReportIds : Reports!OpenReport(r)
      BY <1>r, <3>2 DEF Reports!OpenReport, Reports!Out
    <3>3. CASE \E s \in Reports!Statuses : Reports!SetStatus(s)
      BY <3>3 DEF Reports!SetStatus
    <3>4. CASE UNCHANGED Reports!vars
      BY <3>4 DEF Reports!vars
    <3> QED BY <3>1, <3>2, <3>3, <3>4
  <2>2. Reports!TypeOK'
    BY <1>1, <1>3, <2>1 DEF ReportsInv, Reports!TypeOK, Reports!None, Reports!Nothing,
       Reports!Asked, Reports!Failed, Reports!Lists
  <2>3. RowsRight'
    BY <1>1, <1>3, RowsKept
  <2> QED BY <2>2, <2>3 DEF ReportsInv
<1>4. ASSUME NEW s \in Reports!Statuses, Reports!SetStatus(s)
      PROVE  ReportsInv'
  <2>1. /\ UNCHANGED <<selected, last>> /\ reportsTaps + 1 \in 1 .. MaxReportTaps
        /\ reportsTaps' = reportsTaps + 1 /\ newest' = reportsTaps + 1
        /\ selected \in ReportIds
        /\ reportsCalls' = reportsCalls \cup {[n |-> reportsTaps + 1, id |-> selected,
                                               status |-> s, pc |-> "sent"]}
    BY <1>2, <1>4 DEF Reports!SetStatus, Reports!Tap, Reports!None
  <2>2. reportsCalls' \subseteq [n : 1 .. MaxReportTaps, id : ReportIds,
                                 status : Reports!Statuses, pc : {"sent", "ok", "failed"}]
    BY <1>2, <2>1
  <2>3. Reports!TypeOK'
    BY <1>1, <2>1, <2>2 DEF ReportsInv, Reports!TypeOK, Reports!Nothing, Reports!Asked,
       Reports!Failed, Reports!Lists
  <2>4. RowsRight'
    BY <1>1, <2>1, RowsKept
  <2> QED BY <2>3, <2>4 DEF ReportsInv
<1>5. CASE \/ Reports!CloseReport \/ \E r \in ReportIds : Reports!OpenReport(r)
           \/ UNCHANGED Reports!vars
  BY <1>3, <1>5 DEF Reports!CloseReport, Reports!OpenReport, Reports!vars
<1> QED BY <1>4, <1>5

\* The server's answer to a setting, and its arrival: the list on the screen is asked for
\* anew, and the others on their way are overtaken.
LEMMA ReportsCalls ==
    ASSUME ReportsInv, Reports!Serve \/ Reports!Answer
    PROVE  ReportsInv'
<1> DEFINE PC == [n : 1 .. MaxReportTaps, id : ReportIds, status : Reports!Statuses,
                  pc : {"sent", "ok", "failed"}]
<1>1. UNCHANGED <<reportsFilter, reportsCache, reportsBroken, reportsHeld, newest, reportsTaps>>
  BY DEF Reports!Serve, Reports!Answer, Reports!lists
<1>2. /\ reportsCalls \subseteq PC
      /\ reportsStored \in [ReportIds -> Reports!Statuses]
  BY DEF ReportsInv, Reports!TypeOK
<1>3. CASE Reports!Serve
  <2>1. PICK c \in reportsCalls, pc \in {"ok", "failed"} :
          /\ reportsCalls' = (reportsCalls \ {c}) \cup {[c EXCEPT !.pc = pc]}
          /\ reportsStored' \in {reportsStored, [reportsStored EXCEPT ![c.id] = c.status]}
    BY <1>3 DEF Reports!Serve
  <2>2. UNCHANGED <<reportsFetch, reportsOvertaken, selected, last>>
    BY <1>3 DEF Reports!Serve, Reports!lists
  <2>3. [c EXCEPT !.pc = pc] \in PC /\ [c EXCEPT !.pc = pc].pc = pc /\ c \in PC
    BY <1>2
  <2>4. reportsCalls' \subseteq PC /\ [c EXCEPT !.pc = pc] \in reportsCalls'
    BY <1>2, <2>1, <2>3
  <2>5. reportsStored' \in [ReportIds -> Reports!Statuses]
    BY <1>2, <2>1, <2>3
  <2>6. RowsRight'
    BY <2>3, <2>4 DEF RowsRight
  <2>7. Reports!TypeOK'
    BY <1>1, <2>2, <2>4, <2>5 DEF ReportsInv, Reports!TypeOK, Reports!Nothing, Reports!Asked,
       Reports!Failed, Reports!Lists
  <2> QED BY <2>6, <2>7 DEF ReportsInv
<1>4. CASE Reports!Answer
  <2>1. /\ reportsCalls' \subseteq reportsCalls
        /\ selected' \in {selected, "none"} /\ last' \in {last, "none"}
        /\ UNCHANGED reportsStored
        /\ reportsOvertaken' = {f \in Reports!Filters :
                                  reportsFetch'[f] \notin {Reports!Nothing, Reports!Asked}}
    BY <1>4 DEF Reports!Answer, Reports!Answered, Reports!None
  <2>2. /\ reportsFilter \in Reports!Filters
        /\ reportsFetch \in [Reports!Filters ->
                              Reports!Lists \cup {Reports!Nothing, Reports!Asked, Reports!Failed}]
    BY DEF ReportsInv, Reports!TypeOK
  <2>3. \/ UNCHANGED reportsFetch /\ reportsFetch[reportsFilter] # Reports!Nothing
        \/ reportsFetch' = [reportsFetch EXCEPT ![reportsFilter] = Reports!Asked]
    BY <1>4 DEF Reports!Answer, Reports!Refetch
  <2>4. /\ reportsFetch' \in [Reports!Filters ->
                              Reports!Lists \cup {Reports!Nothing, Reports!Asked, Reports!Failed}]
        /\ reportsFetch'[reportsFilter'] # Reports!Nothing
    BY <1>1, <2>2, <2>3, ListsDiffer
  <2>5. \A f \in Reports!Filters \ reportsOvertaken' : ListRight(f)'
    BY <2>1, <2>4 DEF ListRight, Reports!Nothing, Reports!Asked
  <2>6. RowsRight'
    BY <2>5 DEF RowsRight
  <2>7. Reports!TypeOK'
    BY <1>1, <2>1, <2>4 DEF ReportsInv, Reports!TypeOK, Reports!None, Reports!Nothing,
       Reports!Asked, Reports!Failed, Reports!Lists
  <2> QED BY <2>6, <2>7 DEF ReportsInv
<1> QED BY <1>3, <1>4

\* With nothing in the air the rows show what is stored.
LEMMA ReportsStayRight == Spec => [](focus = "reports" => Reports!TypeOK /\ Reports!BadgeAgrees)
<1>1. Reports!Init => ReportsInv
  BY ReportsBegin
<1>2. ReportsInv /\ [Reports!Next]_Reports!vars => ReportsInv'
  BY ReportsAsks, ReportsLists, ReportsDialog, ReportsCalls DEF Reports!Next, Reports!Progress
<1>3. ReportsInv => Reports!TypeOK /\ Reports!BadgeAgrees
  <2>1. ReportsInv => reportsFilter \in Reports!Filters
    BY DEF ReportsInv, Reports!TypeOK
  <2> QED BY <2>1 DEF ReportsInv, RowsRight, ListRight, Reports!BadgeAgrees, Reports!Quiet
<1> QED BY <1>1, <1>2, <1>3, ReportsAlone, PTL DEF Reports!Spec

-----------------------------------------------------------------------------
(* The events of the portal (AdminEvents).                                  *)

DeskKinds == {"create", "edit", "cancel"}
DeskForm == [Events!Fields -> 0 .. 1]
DeskCall == [pc : {"sent", "ok", "failed"}, fields : SUBSET Events!Fields, form : DeskForm]

\* The types, with what a call holds.
DeskTypes ==
    /\ eventsEvent \in Events!Event /\ events \in 1 .. 2
    /\ owned \in DeskForm /\ claimed \subseteq Events!Fields
    /\ list \in Events!Listing \cup {Events!NoList}
    /\ listFetch \in Events!Listing \cup {Events!NoList, Events!AskedList, Events!LostList}
    /\ eventsData \in Events!Event \cup {Events!NoEvent}
    /\ eventsDataFetch \in Events!Event \cup {Events!NoEvent, Events!Asked, Events!Lost}
    /\ eventsOpen \in BOOLEAN /\ eventsBroken \subseteq {"list", "data"}
    /\ behind \subseteq {"list", "data"}
    /\ editing \in Events!Event \cup {Events!NoEvent}
    /\ cancelling \in Events!Event \cup {Events!NoEvent}
    /\ creating \in BOOLEAN /\ owner \in BOOLEAN
    /\ eventsCalls \in [DeskKinds -> DeskCall \cup {Events!Idle}]
    /\ eventsTaps \in 0 .. MaxEventTaps

\* While the server has answered no call, what is on its way and what is shown miss
\* nothing, but for what is behind.
ListSees ==
    "list" \notin behind =>
        /\ listFetch \in {Events!NoList, Events!AskedList, Events!LostList, Events!Listed}
        /\ listFetch = Events!NoList => "list" \in eventsBroken \/ list = Events!Listed
DataSees ==
    "data" \notin behind =>
        /\ eventsDataFetch \in {Events!NoEvent, Events!Asked, Events!Lost, eventsEvent}
        /\ eventsOpen /\ eventsDataFetch = Events!NoEvent =>
             "data" \in eventsBroken \/ eventsData = eventsEvent
Unanswered == \A k \in DeskKinds : eventsCalls[k].pc \in {"idle", "sent"}
PortalSees == Unanswered => ListSees /\ DataSees

\* What a form on its way changes counts as changed.
FormClaims == eventsCalls["edit"].pc = "sent" => eventsCalls["edit"].fields \subseteq claimed

EventsInv == DeskTypes /\ Events!OwnerKeeps /\ FormClaims /\ PortalSees

\* An answer, no answer, a question and a failure are told apart.
LEMMA DeskDiffers ==
    /\ \A e \in {Events!NoEvent, Events!Asked, Events!Lost} : e \notin Events!Event
    /\ Events!NoEvent # Events!Asked /\ Events!NoEvent # Events!Lost
    /\ Events!Asked # Events!Lost
    /\ \A l \in {Events!NoList, Events!AskedList, Events!LostList} : l \notin Events!Listing
    /\ Events!NoList # Events!AskedList /\ Events!NoList # Events!LostList
    /\ Events!AskedList # Events!LostList
    /\ Events!Idle \notin DeskCall
<1>1. /\ Events!NoEvent.status = "none" /\ Events!Asked.status = "asked"
      /\ Events!Lost.status = "lost"
  BY DEF Events!NoEvent, Events!Asked, Events!Lost
<1>2. \A e \in Events!Event : e.status \in {"active", "ended", "cancelled"}
  BY DEF Events!Event
<1>3. Events!NoList.count = 0 /\ Events!AskedList.count = 9 /\ Events!LostList.count = 8
  BY DEF Events!NoList, Events!AskedList, Events!LostList
<1>4. \A l \in Events!Listing : l.count \in 1 .. 2
  BY DEF Events!Listing
<1>5. Events!Idle.pc = "idle" /\ \A c \in DeskCall : c.pc # "idle"
  BY DEF Events!Idle, DeskCall
<1>6. \A e \in {Events!NoEvent, Events!Asked, Events!Lost} : e \notin Events!Event
  BY <1>1, <1>2
<1>7. \A l \in {Events!NoList, Events!AskedList, Events!LostList} : l \notin Events!Listing
  BY <1>3, <1>4
<1> QED BY <1>1, <1>3, <1>5, <1>6, <1>7

LEMMA EventsBegin == ASSUME Events!Init PROVE EventsInv
<1>1. 0 \in 0 .. MaxEventTaps
  BY PagesAssumption
<1>2. eventsEvent = [status |-> "active", venue |-> 0, anonymous |-> 0, joined |-> FALSE]
  BY DEF Events!Init
<1>3. eventsEvent \in Events!Event
  BY <1>2 DEF Events!Event
<1>4. /\ events = 1 /\ claimed = {} /\ list = Events!NoList /\ listFetch = Events!AskedList
      /\ eventsData = Events!NoEvent /\ eventsDataFetch = Events!NoEvent /\ eventsBroken = {}
      /\ behind = {} /\ eventsOpen = FALSE /\ editing = Events!NoEvent
      /\ cancelling = Events!NoEvent /\ creating = FALSE /\ owner = FALSE /\ eventsTaps = 0
      /\ owned = [f \in Events!Fields |-> 0]
      /\ eventsCalls = [k \in DeskKinds |-> Events!Idle]
  BY DEF Events!Init, Events!Kinds, DeskKinds
<1>c. eventsCalls \in [DeskKinds -> DeskCall \cup {Events!Idle}] /\ owned \in DeskForm
  BY <1>4 DEF DeskForm
<1>5. DeskTypes
  <2>1. /\ events \in 1 .. 2 /\ claimed \subseteq Events!Fields
        /\ eventsTaps \in 0 .. MaxEventTaps
        /\ eventsBroken \subseteq {"list", "data"} /\ behind \subseteq {"list", "data"}
    <3>1. events = 1 /\ claimed = {} /\ eventsTaps = 0 /\ eventsBroken = {} /\ behind = {}
      BY <1>4
    <3> QED BY <1>1, <3>1
  <2>b. eventsOpen \in BOOLEAN /\ creating \in BOOLEAN /\ owner \in BOOLEAN
    BY <1>4, Zenon
  <2>2. /\ list = Events!NoList /\ listFetch = Events!AskedList
        /\ eventsData = Events!NoEvent /\ eventsDataFetch = Events!NoEvent
        /\ editing = Events!NoEvent /\ cancelling = Events!NoEvent
    BY <1>4
  <2> QED BY <1>3, <1>c, <2>1, <2>b, <2>2 DEF DeskTypes
<1>6. Events!OwnerKeeps
  BY <1>2, <1>4 DEF Events!OwnerKeeps, Events!Fields
<1>7. FormClaims
  BY <1>4 DEF FormClaims, DeskKinds, Events!Idle
<1>8. PortalSees
  BY <1>4, DeskDiffers DEF PortalSees, ListSees, DataSees
<1> QED BY <1>5, <1>6, <1>7, <1>8 DEF EventsInv

\* Nothing that the list, or the details, depend on has moved.
LEMMA ListKept ==
    ASSUME ListSees, UNCHANGED <<eventsEvent, events, list, listFetch>>,
           "list" \in eventsBroken' <=> "list" \in eventsBroken,
           "list" \in behind' <=> "list" \in behind
    PROVE  ListSees'
BY DEF ListSees, Events!Listed, Events!NoList, Events!AskedList, Events!LostList

LEMMA DataKept ==
    ASSUME DataSees, UNCHANGED <<eventsEvent, eventsData, eventsDataFetch>>,
           eventsOpen' => eventsOpen,
           "data" \in eventsBroken' <=> "data" \in eventsBroken,
           "data" \in behind' <=> "data" \in behind
    PROVE  DataSees'
BY DEF DataSees, Events!NoEvent, Events!Asked, Events!Lost

\* The queries.
LEMMA EventsQueries ==
    ASSUME EventsInv, Events!ServeQuery \/ Events!HearQuery
    PROVE  EventsInv'
<1>1. UNCHANGED <<eventsEvent, events, owned, claimed, eventsOpen, editing, cancelling,
                  creating, owner, eventsCalls, eventsTaps>>
  BY DEF Events!ServeQuery, Events!HearQuery, Events!server, Events!create
<1>2. DeskTypes /\ PortalSees
  BY DEF EventsInv
<1>l. Events!Listed \in Events!Listing
  BY <1>2 DEF DeskTypes, Events!Listing, Events!Listed
<1>3. /\ list' \in Events!Listing \cup {Events!NoList}
      /\ listFetch' \in Events!Listing \cup {Events!NoList, Events!AskedList, Events!LostList}
      /\ eventsData' \in Events!Event \cup {Events!NoEvent}
      /\ eventsDataFetch' \in Events!Event \cup {Events!NoEvent, Events!Asked, Events!Lost}
      /\ eventsBroken' \subseteq {"list", "data"} /\ behind' \subseteq {"list", "data"}
      /\ ListSees /\ DataSees => ListSees' /\ DataSees'
  <2>1. CASE /\ listFetch = Events!AskedList /\ listFetch' \in {Events!Listed, Events!LostList}
             /\ behind' = behind \ {"list"}
             /\ UNCHANGED <<list, eventsData, eventsDataFetch, eventsBroken>>
    <3>1. listFetch' # Events!NoList
      BY <1>l, <2>1, DeskDiffers
    <3>2. ListSees'
      BY <1>1, <2>1, <3>1 DEF ListSees, Events!Listed, Events!NoList, Events!LostList
    <3>3. DataSees => DataSees'
      BY <1>1, <2>1, DataKept
    <3> QED BY <1>2, <1>l, <2>1, <3>2, <3>3 DEF DeskTypes
  <2>2. CASE /\ eventsDataFetch = Events!Asked /\ eventsDataFetch' \in {eventsEvent, Events!Lost}
             /\ behind' = behind \ {"data"}
             /\ UNCHANGED <<list, eventsData, listFetch, eventsBroken>>
    <3>0. eventsEvent \in Events!Event
      BY <1>2 DEF DeskTypes
    <3>1. eventsDataFetch' # Events!NoEvent
      BY <2>2, <3>0, DeskDiffers
    <3>2. DataSees'
      BY <1>1, <2>2, <3>1 DEF DataSees, Events!NoEvent, Events!Lost
    <3>3. ListSees => ListSees'
      BY <1>1, <2>2, ListKept
    <3> QED BY <1>2, <2>2, <3>0, <3>2, <3>3 DEF DeskTypes
  <2>3. CASE /\ listFetch \notin {Events!NoList, Events!AskedList} /\ listFetch' = Events!NoList
             /\ list' = (IF listFetch = Events!LostList THEN list ELSE listFetch)
             /\ Events!Heard("list", listFetch = Events!LostList)
             /\ UNCHANGED <<eventsData, eventsDataFetch, behind>>
    <3>1. /\ eventsBroken' = IF listFetch = Events!LostList THEN eventsBroken \cup {"list"}
                             ELSE eventsBroken \ {"list"}
      BY <2>3 DEF Events!Heard
    <3>2. ListSees => ListSees'
      BY <1>1, <2>3, <3>1 DEF ListSees, Events!Listed, Events!NoList
    <3>3. DataSees => DataSees'
      BY <1>1, <2>3, <3>1, DataKept
    <3>4. /\ list' \in Events!Listing \cup {Events!NoList}
          /\ eventsBroken' \subseteq {"list", "data"}
      BY <1>2, <2>3, <3>1 DEF DeskTypes
    <3> QED BY <1>2, <2>3, <3>2, <3>3, <3>4 DEF DeskTypes
  <2>4. CASE /\ eventsDataFetch \notin {Events!NoEvent, Events!Asked}
             /\ eventsDataFetch' = Events!NoEvent
             /\ eventsData' = (IF eventsDataFetch = Events!Lost THEN eventsData ELSE eventsDataFetch)
             /\ Events!Heard("data", eventsDataFetch = Events!Lost)
             /\ UNCHANGED <<list, listFetch, behind>>
    <3>1. /\ eventsBroken' = IF eventsDataFetch = Events!Lost THEN eventsBroken \cup {"data"}
                             ELSE eventsBroken \ {"data"}
      BY <2>4 DEF Events!Heard
    <3>2. DataSees => DataSees'
      BY <1>1, <2>4, <3>1 DEF DataSees, Events!NoEvent
    <3>3. ListSees => ListSees'
      BY <1>1, <2>4, <3>1, ListKept
    <3>4. /\ eventsData' \in Events!Event \cup {Events!NoEvent}
          /\ eventsBroken' \subseteq {"list", "data"}
      BY <1>2, <2>4, <3>1 DEF DeskTypes
    <3> QED BY <1>2, <2>4, <3>2, <3>3, <3>4 DEF DeskTypes
  <2>5. CASE Events!ServeQuery
    BY <2>1, <2>2, <2>5 DEF Events!ServeQuery
  <2>6. CASE Events!HearQuery
    BY <2>3, <2>4, <2>6 DEF Events!HearQuery
  <2> QED BY <2>5, <2>6
<1>4. DeskTypes'
  BY <1>1, <1>2, <1>3 DEF DeskTypes, Events!Event, Events!Listing, Events!NoList,
     Events!AskedList, Events!LostList, Events!NoEvent, Events!Asked, Events!Lost, Events!Idle,
     Events!Fields, DeskKinds, DeskCall, DeskForm
<1>5. Events!OwnerKeeps' /\ FormClaims'
  BY <1>1 DEF EventsInv, Events!OwnerKeeps, FormClaims, Events!Fields
<1>6. PortalSees'
  BY <1>1, <1>2, <1>3 DEF PortalSees, Unanswered, DeskKinds
<1> QED BY <1>4, <1>5, <1>6 DEF EventsInv

\* What is shown is asked for, when the window comes back and when the details open.
LEMMA EventsAsks ==
    ASSUME EventsInv, Events!Refocus \/ Events!OpenDetail
    PROVE  EventsInv'
<1>1. UNCHANGED <<eventsEvent, events, owned, claimed, list, eventsData, eventsBroken, behind,
                  editing, cancelling, creating, owner, eventsCalls>>
  BY DEF Events!Refocus, Events!OpenDetail, Events!server, Events!create
<1>2. /\ DeskTypes /\ PortalSees /\ MaxEventTaps \in Nat
  BY PagesAssumption DEF EventsInv
<1>3. /\ listFetch' \in {listFetch, Events!AskedList} /\ eventsDataFetch' \in {eventsDataFetch, Events!Asked}
      /\ listFetch' = Events!NoList => UNCHANGED listFetch
      /\ eventsOpen' /\ eventsDataFetch' = Events!NoEvent => FALSE
      /\ eventsOpen' \in {eventsOpen, TRUE} /\ eventsTaps' \in 0 .. MaxEventTaps
  <2>1. CASE Events!Refocus
    BY <1>2, <2>1, DeskDiffers DEF Events!Refocus, DeskTypes
  <2>2. CASE Events!OpenDetail
    BY <1>2, <2>2, DeskDiffers DEF Events!OpenDetail, DeskTypes
  <2> QED BY <2>1, <2>2
<1>b. /\ eventsOpen' \in BOOLEAN
      /\ listFetch' \in Events!Listing \cup {Events!NoList, Events!AskedList, Events!LostList}
      /\ eventsDataFetch' \in Events!Event \cup {Events!NoEvent, Events!Asked, Events!Lost}
  BY <1>2, <1>3 DEF DeskTypes
<1>4. DeskTypes'
  BY <1>1, <1>2, <1>3, <1>b DEF DeskTypes, Events!Event, Events!Listing, Events!NoList,
     Events!AskedList, Events!LostList, Events!NoEvent, Events!Asked, Events!Lost, Events!Idle,
     Events!Fields, DeskKinds, DeskCall, DeskForm
<1>5. Events!OwnerKeeps' /\ FormClaims'
  BY <1>1 DEF EventsInv, Events!OwnerKeeps, FormClaims, Events!Fields
<1>6. ListSees => ListSees'
  BY <1>1, <1>3 DEF ListSees, Events!Listed, Events!NoList, Events!AskedList, Events!LostList
<1>7. DataSees => DataSees'
  BY <1>1, <1>3 DEF DataSees, Events!NoEvent, Events!Asked, Events!Lost
<1>8. PortalSees'
  BY <1>1, <1>2, <1>6, <1>7 DEF PortalSees, Unanswered, DeskKinds
<1> QED BY <1>4, <1>5, <1>8 DEF EventsInv

\* The other steps of the dialogs send nothing.
LEMMA EventsDialogs ==
    ASSUME EventsInv,
           \/ Events!CloseDetail \/ Events!StartEdit \/ Events!StartCancel
           \/ Events!CloseDialog \/ Events!OpenCreate \/ Events!PickOwner
           \/ UNCHANGED Events!vars
    PROVE  EventsInv'
<1>1. /\ UNCHANGED <<eventsEvent, events, owned, claimed, list, listFetch, eventsData,
                     eventsDataFetch, eventsBroken, behind, eventsCalls>>
      /\ eventsOpen' \in {eventsOpen, FALSE}
  BY DEF Events!CloseDetail, Events!StartEdit, Events!StartCancel,
     Events!CloseDialog, Events!OpenCreate, Events!PickOwner, Events!vars, Events!server,
     Events!queries
<1>2. DeskTypes /\ PortalSees /\ MaxEventTaps \in Nat
  BY PagesAssumption DEF EventsInv
<1>d. eventsData.status = "active" => eventsData \in Events!Event
  BY <1>2 DEF DeskTypes, Events!NoEvent
<1>3. /\ creating' \in BOOLEAN /\ owner' \in BOOLEAN /\ eventsTaps' \in 0 .. MaxEventTaps
      /\ editing' \in Events!Event \cup {Events!NoEvent}
      /\ cancelling' \in Events!Event \cup {Events!NoEvent}
  <2>0. /\ creating \in BOOLEAN /\ owner \in BOOLEAN /\ eventsTaps \in 0 .. MaxEventTaps
        /\ editing \in Events!Event \cup {Events!NoEvent}
        /\ cancelling \in Events!Event \cup {Events!NoEvent}
    BY <1>2 DEF DeskTypes
  <2>1. CASE Events!CloseDetail \/ UNCHANGED Events!vars
    BY <2>0, <2>1 DEF Events!CloseDetail, Events!vars, Events!create
  <2>2. CASE Events!StartEdit
    BY <1>d, <2>0, <2>2 DEF Events!StartEdit, Events!create, Events!Offered
  <2>3. CASE Events!StartCancel
    BY <1>d, <2>0, <2>3 DEF Events!StartCancel, Events!create, Events!Offered
  <2>4. CASE Events!CloseDialog
    BY <2>0, <2>4 DEF Events!CloseDialog
  <2>5. CASE Events!OpenCreate
    BY <1>2, <2>0, <2>5 DEF Events!OpenCreate
  <2>6. CASE Events!PickOwner
    BY <2>0, <2>6 DEF Events!PickOwner
  <2> QED BY <2>1, <2>2, <2>3, <2>4, <2>5, <2>6
<1>b. eventsOpen' \in BOOLEAN
  BY <1>1, <1>2 DEF DeskTypes
<1>4. DeskTypes'
  BY <1>1, <1>2, <1>3, <1>b DEF DeskTypes, Events!Event, Events!Listing, Events!NoList,
     Events!AskedList, Events!LostList, Events!NoEvent, Events!Asked, Events!Lost, Events!Idle,
     Events!Fields, DeskKinds, DeskCall, DeskForm
<1>5. Events!OwnerKeeps' /\ FormClaims'
  BY <1>1 DEF EventsInv, Events!OwnerKeeps, FormClaims, Events!Fields
<1>6. PortalSees'
  <2>1. Unanswered' => Unanswered
    BY <1>1 DEF Unanswered, DeskKinds
  <2>2. ListSees => ListSees'
    BY <1>1, ListKept
  <2>3. DataSees => DataSees'
    <3>1. eventsOpen' => eventsOpen
      BY <1>1
    <3> QED BY <1>1, <3>1, DataKept
  <2> QED BY <1>2, <2>1, <2>2, <2>3 DEF PortalSees
<1> QED BY <1>4, <1>5, <1>6 DEF EventsInv

\* What is sent is not yet answered, and what a form changes is claimed with it.
LEMMA EventsSends ==
    ASSUME EventsInv, Events!Create \/ Events!Save \/ Events!ConfirmCancel
    PROVE  EventsInv'
<1>1. UNCHANGED <<eventsEvent, events, owned, list, listFetch, eventsData, eventsDataFetch,
                  eventsBroken, behind, eventsOpen, editing, cancelling, creating, owner>>
  BY DEF Events!Create, Events!Save, Events!ConfirmCancel, Events!server, Events!queries,
     Events!create
<1>2. DeskTypes /\ PortalSees /\ FormClaims /\ MaxEventTaps \in Nat
  BY PagesAssumption DEF EventsInv
<1>c. eventsCalls \in [DeskKinds -> DeskCall \cup {Events!Idle}]
  BY <1>2 DEF DeskTypes
<1>3. PICK kind \in DeskKinds, fields \in SUBSET Events!Fields, filled \in DeskForm :
        /\ Events!Send(kind, fields, filled)
        /\ claimed' = claimed \cup fields
  <2>1. Events!Blank \in DeskForm /\ {} \in SUBSET Events!Fields
    BY DEF Events!Blank, DeskForm
  <2>2. CASE Events!Create
    <3>1. Events!Send("create", {}, Events!Blank) /\ claimed' = claimed \cup {}
      BY <2>2 DEF Events!Create, Events!server
    <3> QED BY <2>1, <3>1 DEF DeskKinds
  <2>3. CASE Events!Save
    <3>1. PICK filled \in DeskForm :
            /\ Events!Send("edit", Events!Dirty(filled), filled)
            /\ claimed' = claimed \cup Events!Dirty(filled)
      BY <2>3 DEF Events!Save, Events!Dirty, DeskForm
    <3>2. Events!Dirty(filled) \in SUBSET Events!Fields
      BY DEF Events!Dirty
    <3> QED BY <3>1, <3>2 DEF DeskKinds
  <2>4. CASE Events!ConfirmCancel
    <3>1. Events!Send("cancel", {}, Events!Blank) /\ claimed' = claimed \cup {}
      BY <2>4 DEF Events!ConfirmCancel, Events!server
    <3> QED BY <2>1, <3>1 DEF DeskKinds
  <2> QED BY <2>2, <2>3, <2>4
<1>4. /\ eventsTaps' \in 0 .. MaxEventTaps /\ eventsCalls[kind] = Events!Idle
      /\ eventsCalls' = [eventsCalls EXCEPT ![kind] =
                           [pc |-> "sent", fields |-> fields, form |-> filled]]
  BY <1>2, <1>3 DEF Events!Send, DeskTypes
<1>s. [pc |-> "sent", fields |-> fields, form |-> filled] \in DeskCall
  BY DEF DeskCall
<1>5. eventsCalls' \in [DeskKinds -> DeskCall \cup {Events!Idle}]
  BY <1>c, <1>4, <1>s
<1>6. \A k \in DeskKinds : eventsCalls'[k] = eventsCalls[k] \/ k = kind
  BY <1>c, <1>4
<1>i. eventsCalls[kind].pc = "idle" /\ eventsCalls'[kind].fields = fields
  BY <1>c, <1>4 DEF Events!Idle
<1>7. Unanswered' => Unanswered
  BY <1>6, <1>i DEF Unanswered, DeskKinds
<1>8. PortalSees'
  BY <1>1, <1>2, <1>7, ListKept, DataKept DEF PortalSees
<1>9. FormClaims'
  <2>1. "edit" \in DeskKinds
    BY DEF DeskKinds
  <2>2. CASE kind = "edit"
    BY <1>3, <1>i, <2>2 DEF FormClaims
  <2>3. CASE kind # "edit"
    BY <1>2, <1>3, <1>6, <2>1, <2>3 DEF FormClaims
  <2> QED BY <2>2, <2>3
<1>10. Events!OwnerKeeps'
  BY <1>1, <1>3 DEF EventsInv, Events!OwnerKeeps, Events!Fields
<1>11. claimed' \subseteq Events!Fields
  BY <1>2, <1>3 DEF DeskTypes
<1>12. DeskTypes'
  BY <1>1, <1>2, <1>4, <1>5, <1>11 DEF DeskTypes, Events!Event, Events!Listing, Events!NoList,
     Events!AskedList, Events!LostList, Events!NoEvent, Events!Asked, Events!Lost, Events!Idle,
     Events!Fields, DeskKinds, DeskCall, DeskForm
<1> QED BY <1>8, <1>9, <1>10, <1>12 DEF EventsInv

\* What the owner and the students do meanwhile leaves the portal behind; what the owner
\* changes is no longer claimed, but for what is on its way.
LEMMA EventsMeanwhile == ASSUME EventsInv, Events!Meanwhile PROVE EventsInv'
<1>1. UNCHANGED <<events, list, listFetch, eventsData, eventsDataFetch, eventsBroken,
                  eventsOpen, editing, cancelling, creating, owner, eventsCalls>>
  BY DEF Events!Meanwhile, Events!create
<1>2. DeskTypes /\ FormClaims /\ Events!OwnerKeeps /\ MaxEventTaps \in Nat
  BY PagesAssumption DEF EventsInv
<1>3. /\ eventsTaps' \in 0 .. MaxEventTaps /\ behind' = {"list", "data"}
  BY <1>2 DEF Events!Meanwhile, DeskTypes
<1>e. /\ eventsEvent \in Events!Event /\ owned \in DeskForm /\ claimed \subseteq Events!Fields
  BY <1>2 DEF DeskTypes
<1>k. \A f \in Events!Fields : eventsEvent[f] = owned[f] \/ f \in claimed
  BY <1>2 DEF Events!OwnerKeeps
<1>4. /\ eventsEvent' \in Events!Event /\ owned' \in DeskForm /\ claimed' \subseteq Events!Fields
      /\ Events!OwnerKeeps' /\ FormClaims'
  <2>1. CASE Events!OwnerSaves
    <3>1. PICK venue \in 0 .. 1 :
            /\ eventsEvent' = [eventsEvent EXCEPT !.venue = venue]
            /\ owned' = [owned EXCEPT !["venue"] = venue]
            /\ claimed' = {f \in claimed : f = "anonymous" \/ Events!InAir(f)}
      BY <2>1 DEF Events!OwnerSaves
    <3>2. eventsEvent' \in Events!Event /\ owned' \in DeskForm
      BY <1>e, <3>1 DEF Events!Event, DeskForm
    <3>3. eventsEvent'["venue"] = owned'["venue"]
      BY <1>e, <3>1 DEF Events!Event, DeskForm, Events!Fields
    <3>4. /\ eventsEvent'["anonymous"] = eventsEvent["anonymous"]
          /\ owned'["anonymous"] = owned["anonymous"]
      BY <1>e, <3>1 DEF Events!Event, DeskForm, Events!Fields
    <3>5. Events!OwnerKeeps'
      BY <1>k, <3>1, <3>3, <3>4 DEF Events!OwnerKeeps, Events!Fields
    <3>6. FormClaims'
      BY <1>1, <1>2, <3>1 DEF FormClaims, Events!InAir
    <3> QED BY <1>e, <3>1, <3>2, <3>5, <3>6
  <2>2. CASE /\ eventsEvent' = [eventsEvent EXCEPT !.joined = TRUE] /\ UNCHANGED <<owned, claimed>>
    <3>1. /\ eventsEvent' \in Events!Event /\ eventsEvent'["venue"] = eventsEvent["venue"]
          /\ eventsEvent'["anonymous"] = eventsEvent["anonymous"]
      BY <1>e, <2>2 DEF Events!Event
    <3> QED BY <1>1, <1>2, <1>e, <1>k, <2>2, <3>1 DEF Events!OwnerKeeps, FormClaims, Events!Fields
  <2>3. CASE /\ eventsEvent' = [eventsEvent EXCEPT !.status = "ended"] /\ UNCHANGED <<owned, claimed>>
    <3>1. /\ eventsEvent' \in Events!Event /\ eventsEvent'["venue"] = eventsEvent["venue"]
          /\ eventsEvent'["anonymous"] = eventsEvent["anonymous"]
      BY <1>e, <2>3 DEF Events!Event
    <3> QED BY <1>1, <1>2, <1>e, <1>k, <2>3, <3>1 DEF Events!OwnerKeeps, FormClaims, Events!Fields
  <2> QED BY <2>1, <2>2, <2>3 DEF Events!Meanwhile
<1>5. PortalSees'
  BY <1>3 DEF PortalSees, ListSees, DataSees
<1>6. DeskTypes'
  BY <1>1, <1>2, <1>3, <1>4 DEF DeskTypes, Events!Event, Events!Listing, Events!NoList,
     Events!AskedList, Events!LostList, Events!NoEvent, Events!Asked, Events!Lost, Events!Idle,
     Events!Fields, DeskKinds, DeskCall, DeskForm
<1> QED BY <1>4, <1>5, <1>6 DEF EventsInv

\* The server writes only what is claimed; from its answer to the arrival of the answer
\* nothing is said of what is shown.
LEMMA EventsServes ==
    ASSUME EventsInv, NEW kind \in DeskKinds, Events!Serve(kind)
    PROVE  EventsInv'
<1>1. UNCHANGED <<owned, claimed, list, listFetch, eventsData, eventsDataFetch, eventsBroken,
                  behind, eventsOpen, editing, cancelling, creating, owner, eventsTaps>>
  BY DEF Events!Serve, Events!queries, Events!create
<1>2. DeskTypes /\ FormClaims /\ Events!OwnerKeeps
  BY DEF EventsInv
<1>e. /\ eventsEvent \in Events!Event /\ events \in 1 .. 2
      /\ eventsCalls \in [DeskKinds -> DeskCall \cup {Events!Idle}]
  BY <1>2 DEF DeskTypes
<1>3. eventsCalls[kind] \in DeskCall /\ eventsCalls[kind].pc = "sent"
  <2>1. eventsCalls[kind].pc = "sent"
    BY DEF Events!Serve
  <2> QED BY <1>e, <2>1 DEF Events!Idle
<1>4. PICK pc \in {"ok", "failed"} : eventsCalls' = [eventsCalls EXCEPT ![kind].pc = pc]
  BY DEF Events!Serve
<1>5. /\ eventsCalls' \in [DeskKinds -> DeskCall \cup {Events!Idle}]
      /\ eventsCalls'[kind].pc = pc
      /\ \A k \in DeskKinds : k # kind => eventsCalls'[k] = eventsCalls[k]
  BY <1>e, <1>3, <1>4 DEF DeskCall
<1>6. /\ eventsEvent' \in Events!Event /\ events' \in 1 .. 2
      /\ \A f \in Events!Fields : f \notin claimed => eventsEvent'[f] = eventsEvent[f]
  <2>1. CASE eventsEvent' = eventsEvent /\ events' \in {events, 2}
    BY <1>e, <2>1
  <2>2. CASE /\ kind = "edit" /\ eventsEvent' = Events!Edited(eventsCalls[kind])
             /\ UNCHANGED events
    <3> DEFINE Now(f) == IF f \in eventsCalls[kind].fields THEN eventsCalls[kind].form[f]
                         ELSE eventsEvent[f]
    <3>1. eventsEvent' = [eventsEvent EXCEPT !.venue = Now("venue"), !.anonymous = Now("anonymous")]
      BY <2>2 DEF Events!Edited
    <3>2. \A f \in Events!Fields : Now(f) \in 0 .. 1
      <4>1. eventsCalls[kind].form \in [Events!Fields -> 0 .. 1]
        BY <1>3 DEF DeskCall, DeskForm
      <4>2. eventsEvent["venue"] \in 0 .. 1 /\ eventsEvent["anonymous"] \in 0 .. 1
        BY <1>e DEF Events!Event
      <4> QED BY <4>1, <4>2 DEF Events!Fields
    <3>3. eventsCalls[kind].fields \subseteq claimed
      BY <1>2, <1>3, <2>2 DEF FormClaims
    <3>4. \A f \in Events!Fields : f \notin claimed => Now(f) = eventsEvent[f]
      BY <3>3
    <3> HIDE DEF Now
    <3>5. Now("venue") \in 0 .. 1 /\ Now("anonymous") \in 0 .. 1
      BY <3>2 DEF Events!Fields
    <3>6. /\ eventsEvent' \in Events!Event /\ eventsEvent'["venue"] = Now("venue")
          /\ eventsEvent'["anonymous"] = Now("anonymous")
      BY <1>e, <3>1, <3>5 DEF Events!Event
    <3> QED BY <1>e, <2>2, <3>4, <3>6 DEF Events!Fields
  <2>3. CASE /\ eventsEvent' = [eventsEvent EXCEPT !.status = "cancelled", !.joined = FALSE]
             /\ UNCHANGED events
    <3>1. /\ eventsEvent' \in Events!Event /\ eventsEvent'["venue"] = eventsEvent["venue"]
          /\ eventsEvent'["anonymous"] = eventsEvent["anonymous"]
      BY <1>e, <2>3 DEF Events!Event
    <3> QED BY <1>e, <2>3, <3>1 DEF Events!Fields
  <2>4. kind \in {"create", "edit", "cancel"}
    BY DEF DeskKinds
  <2> QED BY <2>1, <2>2, <2>3, <2>4 DEF Events!Serve
<1>7. PortalSees'
  BY <1>5 DEF PortalSees, Unanswered
<1>8. FormClaims'
  BY <1>1, <1>2, <1>5 DEF FormClaims, DeskKinds
<1>9. Events!OwnerKeeps'
  BY <1>1, <1>2, <1>6 DEF Events!OwnerKeeps, Events!Fields
<1>10. DeskTypes'
  BY <1>1, <1>2, <1>5, <1>6 DEF DeskTypes, Events!Event, Events!Listing, Events!NoList,
     Events!AskedList, Events!LostList, Events!NoEvent, Events!Asked, Events!Lost, Events!Idle,
     Events!Fields, DeskKinds, DeskCall, DeskForm
<1> QED BY <1>7, <1>8, <1>9, <1>10 DEF EventsInv

\* An answer asks for the list and for details that are shown; a query whose fetch it
\* leaves on its way is behind.
LEMMA EventsAnswers ==
    ASSUME EventsInv, NEW kind \in DeskKinds, Events!Answer(kind)
    PROVE  EventsInv'
<1>1. UNCHANGED <<eventsEvent, events, owned, claimed, list, eventsData, eventsBroken,
                  eventsTaps>>
  BY DEF Events!Answer, Events!server
<1>2. DeskTypes /\ FormClaims /\ Events!OwnerKeeps
  BY DEF EventsInv
<1>e. /\ eventsCalls \in [DeskKinds -> DeskCall \cup {Events!Idle}]
      /\ eventsOpen \in BOOLEAN /\ creating \in BOOLEAN /\ owner \in BOOLEAN
      /\ listFetch \in Events!Listing \cup {Events!NoList, Events!AskedList, Events!LostList}
      /\ eventsDataFetch \in Events!Event \cup {Events!NoEvent, Events!Asked, Events!Lost}
      /\ behind \subseteq {"list", "data"}
      /\ editing \in Events!Event \cup {Events!NoEvent}
      /\ cancelling \in Events!Event \cup {Events!NoEvent}
  BY <1>2 DEF DeskTypes
<1>3. /\ listFetch' = IF list = Events!NoList /\ listFetch # Events!NoList THEN listFetch
                      ELSE Events!AskedList
      /\ eventsDataFetch' =
           IF eventsOpen' /\ (eventsData # Events!NoEvent \/ eventsDataFetch = Events!NoEvent)
           THEN Events!Asked ELSE eventsDataFetch
      /\ behind' = behind \cup (IF listFetch' # Events!AskedList THEN {"list"} ELSE {})
                     \cup (IF eventsDataFetch' \notin {Events!NoEvent, Events!Asked}
                           THEN {"data"} ELSE {})
      /\ eventsCalls' = [eventsCalls EXCEPT ![kind] = Events!Idle]
  BY DEF Events!Answer, Events!Invalidate
<1>4. eventsOpen' \in BOOLEAN
  BY Zenon DEF Events!Answer
<1>5. creating' \in BOOLEAN /\ owner' \in BOOLEAN
  <2>1. CASE kind = "create"
    <3>1. \E done : creating' = (creating /\ ~ done) /\ owner' = (owner /\ ~ done)
      BY <2>1 DEF Events!Answer
    <3> QED BY <3>1, Zenon
  <2>2. CASE kind # "create"
    BY <1>e, <2>2 DEF Events!Answer, Events!create
  <2> QED BY <2>1, <2>2
<1>6. editing' \in {editing, Events!NoEvent} /\ cancelling' \in {cancelling, Events!NoEvent}
  BY DEF Events!Answer
<1>7. /\ eventsCalls' \in [DeskKinds -> DeskCall \cup {Events!Idle}]
      /\ eventsCalls'[kind] = Events!Idle
      /\ \A k \in DeskKinds : k # kind => eventsCalls'[k] = eventsCalls[k]
  BY <1>e, <1>3
<1>8. /\ listFetch' \in Events!Listing \cup {Events!NoList, Events!AskedList, Events!LostList}
      /\ eventsDataFetch' \in Events!Event \cup {Events!NoEvent, Events!Asked, Events!Lost}
      /\ behind' \subseteq {"list", "data"}
  BY <1>e, <1>3
<1>9. ListSees'
  <2>1. "list" \notin behind' => listFetch' = Events!AskedList
    BY <1>3
  <2>2. Events!AskedList # Events!NoList
    BY DeskDiffers
  <2> QED BY <2>1, <2>2 DEF ListSees, Events!AskedList, Events!NoList
<1>10. DataSees'
  <2>1. "data" \notin behind' => eventsDataFetch' \in {Events!NoEvent, Events!Asked}
    BY <1>3
  <2>2. ~ (eventsOpen' /\ eventsDataFetch' = Events!NoEvent)
    BY <1>3, DeskDiffers
  <2> QED BY <2>1, <2>2 DEF DataSees, Events!NoEvent, Events!Asked
<1>11. FormClaims'
  <2>1. Events!Idle.pc # "sent" /\ "edit" \in DeskKinds
    BY DEF Events!Idle, DeskKinds
  <2> QED BY <1>1, <1>2, <1>7, <2>1 DEF FormClaims
<1>12. Events!OwnerKeeps'
  BY <1>1, <1>2 DEF Events!OwnerKeeps, Events!Fields
<1>13. DeskTypes'
  BY <1>1, <1>2, <1>4, <1>5, <1>6, <1>7, <1>8, <1>e DEF DeskTypes, Events!Event,
     Events!Listing, Events!NoList, Events!AskedList, Events!LostList, Events!NoEvent,
     Events!Asked, Events!Lost, Events!Idle, Events!Fields, DeskKinds, DeskCall, DeskForm
<1> QED BY <1>9, <1>10, <1>11, <1>12, <1>13 DEF EventsInv, PortalSees

\* With nothing in the air the portal shows what it did, and a form that is saved undoes
\* nothing of the owner's but what was changed in it.
LEMMA EventsStayRight == Spec => [](focus = "events" => Events!TypeOK /\ Events!EventDeskSafe)
<1>1. Events!Init => EventsInv
  BY EventsBegin
<1>2. EventsInv /\ [Events!Next]_Events!vars => EventsInv'
  BY EventsQueries, EventsAsks, EventsDialogs, EventsSends, EventsMeanwhile, EventsServes,
     EventsAnswers DEF Events!Next, Events!Reading, Events!Calling, Events!Kinds, DeskKinds
<1>3. EventsInv => Events!TypeOK /\ Events!EventDeskSafe
  <2>1. ASSUME EventsInv PROVE Events!TypeOK
    <3>1. \A c \in DeskCall \cup {Events!Idle} : c.pc \in {"idle", "sent", "ok", "failed"}
      BY DEF DeskCall, Events!Idle
    <3>2. \A k \in Events!Kinds : eventsCalls[k].pc \in {"idle", "sent", "ok", "failed"}
      BY <2>1, <3>1 DEF EventsInv, DeskTypes, DeskKinds, Events!Kinds
    <3> QED BY <2>1, <3>2 DEF EventsInv, DeskTypes, DeskForm, Events!TypeOK
  <2>2. ASSUME EventsInv PROVE Events!EventsAgree
    <3>1. SUFFICES ASSUME Events!Quiet PROVE Events!EventsAgree
      BY DEF Events!EventsAgree
    <3>2. Unanswered
      BY <3>1 DEF Events!Quiet, Unanswered, DeskKinds, Events!Kinds, Events!Idle
    <3> QED BY <2>2, <3>1, <3>2 DEF EventsInv, PortalSees, ListSees, DataSees, Events!Quiet,
            Events!EventsAgree
  <2> QED BY <2>1, <2>2 DEF Events!EventDeskSafe, EventsInv
<1> QED BY <1>1, <1>2, <1>3, EventsAlone, PTL DEF Events!Spec

-----------------------------------------------------------------------------
(* What holds of the pages.                                                 *)

\* The pages keep their types (every page and desk of PageClient).
THEOREM PagesTypeCorrect == Spec => []TypeOK
<1>1. (/\ focus = "forms" => Forms!TypeOK /\ Forms!OneResetMail
       /\ focus = "photo" => Photo!TypeOK /\ Photo!PhotoSafe
       /\ focus = "event" => Event!TypeOK /\ Event!EventRoomSafe
       /\ focus = "host" => Host!TypeOK /\ Host!EventPageSafe
       /\ focus = "speaking" => Speak!TypeOK /\ Speak!SpeakingSafe
       /\ focus = "users" => Users!TypeOK /\ Users!UsersAgree
       /\ focus = "reports" => Reports!TypeOK /\ Reports!BadgeAgrees
       /\ focus = "events" => Events!TypeOK /\ Events!EventDeskSafe) => TypeOK
  BY DEF TypeOK
<1> QED BY <1>1, FormsSafe, PhotoStaysSafe, EventStaysRight, HostStaysRight, SpeakStaysRight,
   UsersStayRight, ReportsStayRight, EventsStayRight, PTL

\* One reset mail is asked for at a time, however the dialogs of AuthModal.tsx are
\* closed and opened over their calls. The photo shown is the one the server holds, but
\* after a lost answer or a load that overtook it, and no preview of a picture is left
\* behind but by a page that was left while it was prepared (ProfilePhotoUploader.tsx,
\* ProfilePage.tsx).
THEOREM AccountStaysSafe == Spec => []AccountSafe
<1>1. (/\ focus = "forms" => Forms!TypeOK /\ Forms!OneResetMail
       /\ focus = "photo" => Photo!TypeOK /\ Photo!PhotoSafe) => AccountSafe
  BY DEF AccountSafe
<1> QED BY <1>1, FormsSafe, PhotoStaysSafe, PTL

\* The chat of an event has no gap after an outage and no draft that stays
\* (EventChatPage.tsx); its page knows the membership and the details that the server
\* holds, and sends no host past the controls (EventDetailPage.tsx).
THEOREM EventStaysSafe == Spec => []EventSafe
<1>1. (/\ focus = "event" => Event!TypeOK /\ Event!EventRoomSafe
       /\ focus = "host" => Host!TypeOK /\ Host!EventPageSafe) => EventSafe
  BY DEF EventSafe
<1> QED BY <1>1, EventStaysRight, HostStaysRight, PTL

\* Who was told of a response is offered no composer, and the hearts at rest are the votes
\* that the server holds (PublicSpeakingPage.tsx).
THEOREM SpeakingStaysSafe == Spec => []SpeakingSafe
<1>1. (focus = "speaking" => Speak!TypeOK /\ Speak!SpeakingSafe) => SpeakingSafe
  BY DEF SpeakingSafe
<1> QED BY <1>1, SpeakStaysRight, PTL

\* With nothing in the air the portal shows the accounts, the reports and the events that
\* the server holds, also after a lost answer, or an error; but for a read that was made
\* before a call settled and not asked for again, and for what others did since. A form
\* that is saved undoes no more of an owner's changes than the fields changed in it
\* (features/admin: UsersPage.tsx, ReportsPage.tsx, EventsPage.tsx).
THEOREM DeskStaysSafe == Spec => []DeskSafe
<1>1. (/\ focus = "users" => Users!TypeOK /\ Users!UsersAgree
       /\ focus = "reports" => Reports!TypeOK /\ Reports!BadgeAgrees
       /\ focus = "events" => Events!TypeOK /\ Events!EventDeskSafe) => DeskSafe
  BY DEF DeskSafe
<1> QED BY <1>1, UsersStayRight, ReportsStayRight, EventsStayRight, PTL
=============================================================================
