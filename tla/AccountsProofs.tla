--------------------------- MODULE AccountsProofs ---------------------------
(***************************************************************************)
(* Proofs about Sessions: an account has one record, and the flag in       *)
(* UserDefaults agrees with Auth, in every order of taps, answers and      *)
(* writes, for any accounts and any number of taps and killed processes.   *)
(* And about PhoneField, the P of MCAccounts: a number keeps its digits    *)
(* under every edit, paste and selection, for any digits and pastes.       *)
(***************************************************************************)
EXTENDS MCAccounts, SequenceTheorems, FiniteSetTheorems, WellFoundedInduction, TLAPS

-----------------------------------------------------------------------------
(* Types, in parts that one action hardly ever disturbs together.          *)

UsersType ==
  /\ flag \in BOOLEAN /\ auth \in existing \cup {NoUser} /\ existing \subseteq Account
  /\ record \in [Account -> SUBSET Field]

OutboxType == outbox \in Seq(UserWrite)

ScreenType ==
  /\ navs \in Seq(View) /\ navs # <<>>
  /\ modal \in {"none", "signup", "editor"}
  /\ leaving \in BOOLEAN

LoginsType == logins \subseteq Login /\ \A l \in logins : l.nav \in DOMAIN navs

SignUpsType == signups \subseteq SignUp /\ \A s \in signups : s.attached => modal = "signup"

EditsType == edits \subseteq Edit /\ \A e \in edits : e.attached => modal = "editor"

CountsType ==
  doubled \in BOOLEAN /\ torn \in BOOLEAN /\ taps \in 0 .. MaxTaps /\ kills \in Nat

TypeInv ==
  /\ UsersType /\ OutboxType /\ ScreenType /\ LoginsType /\ SignUpsType /\ EditsType
  /\ CountsType

LEMMA TypeInvParts == TypeInv <=> TypeOK
BY DEF TypeInv, TypeOK, UsersType, OutboxType, ScreenType, LoginsType, SignUpsType, EditsType,
       CountsType

LEMMA Tapped == ASSUME CountsType, Tap PROVE taps' \in 0 .. MaxTaps /\ taps + 1 \in Id
BY SessionsAssumption DEF CountsType, Tap, Id

\* The last navigation controller.
LEMMA LastNav ==
  ASSUME ScreenType
  PROVE  /\ Len(navs) \in Nat /\ Len(navs) \in DOMAIN navs /\ DOMAIN navs = 1 .. Len(navs)
<1>1. Len(navs) \in Nat /\ DOMAIN navs = 1 .. Len(navs) /\ Len(navs) # 0
  BY LenProperties, EmptySeq DEF ScreenType
<1> QED
  BY <1>1

LEMMA NavSet ==
  ASSUME ScreenType, NEW n \in DOMAIN navs, NEW v \in View, navs' = [navs EXCEPT ![n] = v]
  PROVE  /\ navs' \in Seq(View) /\ navs' # <<>> /\ Len(navs') = Len(navs)
         /\ DOMAIN navs' = DOMAIN navs
         /\ \A m \in DOMAIN navs : navs'[m] = IF m = n THEN v ELSE navs[m]
<1>1. navs \in Seq(View) /\ DOMAIN navs = 1 .. Len(navs)
  BY LastNav DEF ScreenType
<1>2. /\ navs' \in Seq(View) /\ Len(navs') = Len(navs)
      /\ \A m \in 1 .. Len(navs) : navs'[m] = IF m = n THEN v ELSE navs[m]
  BY <1>1, ExceptSeq
<1>3. DOMAIN navs' = DOMAIN navs
  BY <1>1, <1>2, LenProperties
<1> QED
  BY <1>1, <1>2, <1>3

LEMMA NavPush ==
  ASSUME ScreenType, NEW v \in View, navs' = Append(navs, v)
  PROVE  /\ navs' \in Seq(View) /\ navs' # <<>> /\ Len(navs') = Len(navs) + 1
         /\ DOMAIN navs \subseteq DOMAIN navs'
         /\ navs'[Len(navs) + 1] = v
<1>1. navs \in Seq(View) /\ DOMAIN navs = 1 .. Len(navs) /\ Len(navs) \in Nat
  BY LastNav DEF ScreenType
<1>2. /\ navs' \in Seq(View) /\ navs' # <<>> /\ Len(navs') = Len(navs) + 1
      /\ navs'[Len(navs) + 1] = v
  BY <1>1, AppendProperties
<1>3. DOMAIN navs' = 1 .. Len(navs) + 1
  BY <1>2, LenProperties
<1> QED
  BY <1>1, <1>2, <1>3

LEMMA FirstScreenType == FirstScreen \in Seq(View) /\ FirstScreen # <<>>
BY DEF FirstScreen, View

LEMMA TypeInvInit == Init => TypeInv
<1> SUFFICES ASSUME Init PROVE TypeInv
  OBVIOUS
<1>1. UsersType
  BY SessionsAssumption DEF Init, UsersType, Field
<1>2. OutboxType /\ LoginsType /\ SignUpsType /\ EditsType
  BY DEF Init, OutboxType, LoginsType, SignUpsType, EditsType
<1>3. ScreenType
  BY FirstScreenType DEF Init, ScreenType
<1>4. CountsType
  <2>1. doubled \in BOOLEAN /\ torn \in BOOLEAN
    BY DEF Init
  <2>2. taps \in 0 .. MaxTaps /\ kills \in Nat
    BY SessionsAssumption DEF Init
  <2> QED
    BY <2>1, <2>2 DEF CountsType
<1> QED
  BY <1>1, <1>2, <1>3, <1>4 DEF TypeInv

LEMMA RestartTypes ==
  ASSUME TypeInv, Restart
  PROVE  TypeInv'
<1>1. UsersType'
  BY DEF Restart, TypeInv, UsersType, deviceVars, serverVars
<1>2. OutboxType' /\ LoginsType' /\ SignUpsType' /\ EditsType'
  BY DEF Restart, OutboxType, LoginsType, SignUpsType, EditsType
<1>3. ScreenType'
  <2>1. navs' = FirstScreen /\ modal' = "none" /\ leaving' = FALSE
    BY DEF Restart
  <2> QED
    BY <2>1, FirstScreenType DEF ScreenType
<1>4. CountsType'
  BY DEF Restart, TypeInv, CountsType, ScreenType
<1> QED
  BY <1>1, <1>2, <1>3, <1>4 DEF TypeInv

-----------------------------------------------------------------------------
(* Logging in and out.                                                     *)

\* The variables that the steps of a sign-in leave alone.
Elsewhere == <<serverVars, outbox, signups, edits>>

LEMMA ElsewhereTypes ==
  ASSUME TypeInv, UNCHANGED Elsewhere, modal' = modal
  PROVE  OutboxType' /\ SignUpsType' /\ EditsType'
BY DEF TypeInv, Elsewhere, OutboxType, SignUpsType, EditsType

LEMMA GetStartedTypes == ASSUME TypeInv, GetStarted PROVE TypeInv'
<1>1. navs' = [navs EXCEPT ![Len(navs)] = "login"] /\ "login" \in View
  BY DEF GetStarted, View
<1>2. /\ navs' \in Seq(View) /\ navs' # <<>> /\ DOMAIN navs' = DOMAIN navs
  BY <1>1, NavSet, LastNav DEF TypeInv
<1>3. UNCHANGED Elsewhere /\ UNCHANGED <<modal, leaving, flag, auth, existing, record, logins, doubled, torn, taps, kills>>
  BY DEF GetStarted, Elsewhere, deviceVars, serverVars
<1>4. ScreenType' /\ LoginsType' /\ UsersType' /\ CountsType'
  BY <1>2, <1>3 DEF TypeInv, ScreenType, LoginsType, UsersType, CountsType
<1> QED
  BY <1>3, <1>4, ElsewhereTypes DEF TypeInv

LEMMA LoginPressedTypes ==
  ASSUME TypeInv, NEW u \in Account, LoginPressed(u)
  PROVE  TypeInv'
<1> DEFINE l == [id |-> taps + 1, who |-> u, nav |-> Len(navs), stage |-> "asked"]
<1>1. taps' \in 0 .. MaxTaps /\ taps + 1 \in Id
  BY Tapped DEF TypeInv, LoginPressed
<1>2. Len(navs) \in Nat /\ Len(navs) \in DOMAIN navs
  BY LastNav DEF TypeInv
<1>3. l \in Login /\ l.nav \in DOMAIN navs
  BY <1>1, <1>2 DEF Login
<1>4. /\ logins' = logins \cup {l} /\ doubled' = (doubled \/ logins # {})
      /\ UNCHANGED Elsewhere /\ UNCHANGED <<navs, modal, leaving, flag, auth, existing, record, torn, kills>>
  BY DEF LoginPressed, Elsewhere, deviceVars, serverVars, screenVars
<1> HIDE DEF l
<1>5. LoginsType'
  BY <1>3, <1>4 DEF TypeInv, LoginsType
<1>6. ScreenType' /\ UsersType' /\ CountsType'
  BY <1>1, <1>4 DEF TypeInv, ScreenType, UsersType, CountsType
<1> QED
  BY <1>4, <1>5, <1>6, ElsewhereTypes DEF TypeInv

LEMMA SignInTypes == ASSUME TypeInv, NEW l, SignIn(l) PROVE TypeInv'
<1> DEFINE m == [l EXCEPT !.stage = "answered"]
<1>1. l \in Login /\ l.nav \in DOMAIN navs
  BY DEF SignIn, TypeInv, LoginsType
<1>2. m \in Login /\ m.nav = l.nav
  BY <1>1 DEF Login
<1>3. /\ logins' = (logins \ {l}) \cup {m} /\ auth' = l.who /\ l.who \in existing
      /\ UNCHANGED Elsewhere
      /\ UNCHANGED <<navs, modal, leaving, flag, existing, record, doubled, torn, taps, kills>>
  BY DEF SignIn, Elsewhere, serverVars, screenVars
<1> HIDE DEF m
<1>4. LoginsType'
  BY <1>1, <1>2, <1>3 DEF TypeInv, LoginsType
<1>5. ScreenType' /\ UsersType' /\ CountsType'
  BY <1>3 DEF TypeInv, ScreenType, UsersType, CountsType
<1> QED
  BY <1>3, <1>4, <1>5, ElsewhereTypes DEF TypeInv

LEMMA SignInFailsTypes == ASSUME TypeInv, NEW l, SignInFails(l) PROVE TypeInv'
<1>1. /\ logins' \subseteq logins /\ UNCHANGED Elsewhere
      /\ UNCHANGED <<navs, modal, leaving, flag, auth, existing, record, doubled, torn, taps, kills>>
  BY DEF SignInFails, Elsewhere, deviceVars, serverVars, screenVars
<1>2. ScreenType' /\ UsersType' /\ CountsType' /\ LoginsType'
  BY <1>1 DEF TypeInv, ScreenType, UsersType, CountsType, LoginsType
<1> QED
  BY <1>1, <1>2, ElsewhereTypes DEF TypeInv

LEMMA LoggedInTypes == ASSUME TypeInv, NEW l, LoggedIn(l) PROVE TypeInv'
<1>1. /\ l \in logins /\ logins' = logins \ {l} /\ flag' = TRUE
      /\ navs' = [navs EXCEPT ![l.nav] = "tabs"]
      /\ UNCHANGED Elsewhere
      /\ UNCHANGED <<modal, leaving, auth, existing, record, doubled, torn, taps, kills>>
  BY DEF LoggedIn, Elsewhere, serverVars
<1>2. l.nav \in DOMAIN navs
  BY <1>1 DEF TypeInv, LoginsType
<1>3. navs' \in Seq(View) /\ navs' # <<>> /\ DOMAIN navs' = DOMAIN navs
  BY <1>1, <1>2, NavSet DEF TypeInv, View
<1>4. ScreenType'
  BY <1>1, <1>3 DEF TypeInv, ScreenType
<1>5. UsersType' /\ CountsType' /\ LoginsType'
  BY <1>1, <1>3 DEF TypeInv, UsersType, CountsType, LoginsType
<1> QED
  BY <1>1, <1>4, <1>5, ElsewhereTypes DEF TypeInv

LEMMA LogoutTypes == ASSUME TypeInv, Logout PROVE TypeInv'
<1>1. /\ auth' = NoUser /\ leaving' = TRUE
      /\ UNCHANGED Elsewhere
      /\ UNCHANGED <<navs, modal, flag, existing, record, logins, doubled, torn, kills>>
  BY DEF Logout, Elsewhere, serverVars
<1>2. taps' \in 0 .. MaxTaps
  BY Tapped DEF TypeInv, Logout
<1>3. ScreenType' /\ UsersType' /\ CountsType' /\ LoginsType'
  BY <1>1, <1>2 DEF TypeInv, ScreenType, UsersType, CountsType, LoginsType
<1> QED
  BY <1>1, <1>3, ElsewhereTypes DEF TypeInv

LEMMA ClearFlagTypes == ASSUME TypeInv, ClearFlag PROVE TypeInv'
<1>1. /\ flag' = FALSE /\ navs' = Append(navs, "login") /\ leaving' = FALSE /\ torn' = FALSE
      /\ UNCHANGED Elsewhere
      /\ UNCHANGED <<modal, auth, existing, record, logins, doubled, taps, kills>>
  BY DEF ClearFlag, Elsewhere, serverVars
<1>2. navs' \in Seq(View) /\ navs' # <<>> /\ DOMAIN navs \subseteq DOMAIN navs'
  BY <1>1, NavPush DEF TypeInv, View
<1>3. ScreenType'
  BY <1>1, <1>2 DEF TypeInv, ScreenType
<1>4. UsersType' /\ CountsType' /\ LoginsType'
  BY <1>1, <1>2 DEF TypeInv, UsersType, CountsType, LoginsType
<1> QED
  BY <1>1, <1>3, <1>4, ElsewhereTypes DEF TypeInv

-----------------------------------------------------------------------------
(* Signing up.                                                             *)

\* The variables that the forms leave alone.
Behind == <<navs, leaving, logins, doubled, torn>>

LEMMA BehindTypes ==
  ASSUME TypeInv, UNCHANGED Behind, modal' \in {"none", "signup", "editor"},
         taps' \in 0 .. MaxTaps, kills' = kills
  PROVE  ScreenType' /\ LoginsType' /\ CountsType'
BY DEF TypeInv, Behind, ScreenType, LoginsType, CountsType

LEMMA DetachedSignUps ==
  ASSUME NEW S, S \subseteq SignUp
  PROVE  Detached(S) \subseteq SignUp /\ \A s \in Detached(S) : ~s.attached
BY DEF Detached, SignUp

LEMMA DetachedEdits ==
  ASSUME NEW E, E \subseteq Edit
  PROVE  Detached(E) \subseteq Edit /\ \A e \in Detached(E) : ~e.attached
BY DEF Detached, Edit

LEMMA OpenSignUpTypes == ASSUME TypeInv, OpenSignUp PROVE TypeInv'
<1>1. /\ modal = "none" /\ modal' = "signup" /\ UNCHANGED Behind
      /\ UNCHANGED <<flag, auth, existing, record, outbox, signups, edits, kills>>
  BY DEF OpenSignUp, Shown, Behind, deviceVars, serverVars
<1>2. taps' \in 0 .. MaxTaps
  BY Tapped DEF TypeInv, OpenSignUp
<1>3. UsersType' /\ OutboxType' /\ SignUpsType' /\ EditsType'
  BY <1>1 DEF TypeInv, UsersType, OutboxType, SignUpsType, EditsType
<1> QED
  BY <1>1, <1>2, <1>3, BehindTypes DEF TypeInv

LEMMA CancelSignUpTypes == ASSUME TypeInv, CancelSignUp PROVE TypeInv'
<1>1. /\ modal = "signup" /\ modal' = "none" /\ signups' = Detached(signups) /\ UNCHANGED Behind
      /\ UNCHANGED <<flag, auth, existing, record, outbox, edits, kills>>
  BY DEF CancelSignUp, Behind, deviceVars, serverVars
<1>2. taps' \in 0 .. MaxTaps
  BY Tapped DEF TypeInv, CancelSignUp
<1>3. SignUpsType'
  BY <1>1, DetachedSignUps DEF TypeInv, SignUpsType
<1>4. UsersType' /\ OutboxType' /\ EditsType'
  BY <1>1 DEF TypeInv, UsersType, OutboxType, EditsType
<1> QED
  BY <1>1, <1>2, <1>3, <1>4, BehindTypes DEF TypeInv

LEMMA SignUpPressedTypes ==
  ASSUME TypeInv, NEW u \in Account, SignUpPressed(u)
  PROVE  TypeInv'
<1> DEFINE s == [id |-> taps + 1, who |-> u, stage |-> "upload", attached |-> TRUE]
<1>1. /\ modal = "signup" /\ modal' = modal /\ signups' = signups \cup {s} /\ UNCHANGED Behind
      /\ UNCHANGED <<flag, auth, existing, record, outbox, edits, kills>>
  BY DEF SignUpPressed, Behind, deviceVars, serverVars, screenVars
<1>2. taps' \in 0 .. MaxTaps /\ taps + 1 \in Id
  BY Tapped DEF TypeInv, SignUpPressed
<1>3. s \in SignUp
  BY <1>2 DEF SignUp
<1> HIDE DEF s
<1>4. SignUpsType'
  BY <1>1, <1>3 DEF TypeInv, SignUpsType
<1>5. UsersType' /\ OutboxType' /\ EditsType'
  BY <1>1 DEF TypeInv, UsersType, OutboxType, EditsType
<1> QED
  BY <1>1, <1>2, <1>4, <1>5, BehindTypes DEF TypeInv, ScreenType

\* A sign-up goes to another stage.
LEMMA AtTypes ==
  ASSUME SignUpsType, NEW s \in signups, NEW stage \in {"upload", "create", "created"},
         signups' = At(s, stage), modal' = modal
  PROVE  SignUpsType'
<1> DEFINE t == [s EXCEPT !.stage = stage]
<1>1. s \in SignUp /\ (s.attached => modal = "signup")
  BY DEF SignUpsType
<1>2. t \in SignUp /\ t.attached = s.attached
  BY <1>1 DEF SignUp
<1>3. signups' = (signups \ {s}) \cup {t}
  BY DEF At
<1> HIDE DEF t
<1> QED
  BY <1>1, <1>2, <1>3 DEF SignUpsType

LEMMA PhotoUploadedTypes == ASSUME TypeInv, NEW s, PhotoUploaded(s) PROVE TypeInv'
<1>1. /\ s \in signups /\ signups' = At(s, "create") /\ modal' = modal /\ UNCHANGED Behind
      /\ UNCHANGED <<flag, auth, existing, record, outbox, edits, taps, kills>>
  BY DEF PhotoUploaded, Behind, deviceVars, serverVars, screenVars
<1>2. SignUpsType'
  BY <1>1, AtTypes DEF TypeInv
<1>3. UsersType' /\ OutboxType' /\ EditsType'
  BY <1>1 DEF TypeInv, UsersType, OutboxType, EditsType
<1> QED
  BY <1>1, <1>2, <1>3, BehindTypes DEF TypeInv, ScreenType, CountsType

LEMMA SignUpFailsTypes == ASSUME TypeInv, NEW s, SignUpFails(s) PROVE TypeInv'
<1>1. /\ signups' \subseteq signups /\ modal' = modal /\ UNCHANGED Behind
      /\ UNCHANGED <<flag, auth, existing, record, outbox, edits, taps, kills>>
  BY DEF SignUpFails, Behind, deviceVars, serverVars, screenVars
<1>2. UsersType' /\ OutboxType' /\ EditsType' /\ SignUpsType'
  BY <1>1 DEF TypeInv, UsersType, OutboxType, EditsType, SignUpsType
<1> QED
  BY <1>1, <1>2, BehindTypes DEF TypeInv, ScreenType, CountsType

LEMMA CreateAccountTypes == ASSUME TypeInv, NEW s, CreateAccount(s) PROVE TypeInv'
<1>1. /\ s \in signups /\ signups' = At(s, "created") /\ modal' = modal /\ UNCHANGED Behind
      /\ existing' = existing \cup {s.who} /\ auth' = s.who
      /\ UNCHANGED <<flag, record, outbox, edits, taps, kills>>
  BY DEF CreateAccount, Behind, screenVars
<1>2. SignUpsType'
  BY <1>1, AtTypes DEF TypeInv
<1>3. s.who \in Account
  BY <1>1 DEF TypeInv, SignUpsType, SignUp
<1>4. UsersType' /\ OutboxType' /\ EditsType'
  BY <1>1, <1>3 DEF TypeInv, UsersType, OutboxType, EditsType
<1> QED
  BY <1>1, <1>2, <1>4, BehindTypes DEF TypeInv, ScreenType, CountsType

LEMMA AccountCreatedTypes == ASSUME TypeInv, NEW s, AccountCreated(s) PROVE TypeInv'
<1> DEFINE w == Write(s.who, Field, NoEdit)
<1>1. /\ s \in signups /\ outbox' = Append(outbox, w) /\ flag' = FALSE
      /\ modal' = (IF s.attached THEN "none" ELSE modal)
      /\ signups' = (IF s.attached THEN Detached(signups \ {s}) ELSE signups \ {s})
      /\ UNCHANGED Behind /\ UNCHANGED <<auth, existing, record, edits, taps, kills>>
  BY DEF AccountCreated, Behind, serverVars
<1>2. s \in SignUp
  BY <1>1 DEF TypeInv, SignUpsType
<1>3. w \in UserWrite
  BY <1>2, SessionsAssumption DEF SignUp, Write, UserWrite, NoEdit
<1> HIDE DEF w
<1>4. OutboxType'
  BY <1>1, <1>3, AppendProperties DEF TypeInv, OutboxType
<1>5. UsersType'
  BY <1>1 DEF TypeInv, UsersType
<1>6. SignUpsType' /\ EditsType'
  <2>1. CASE s.attached
    <3>1. modal = "signup" /\ modal' = "none" /\ signups' = Detached(signups \ {s})
      BY <1>1, <2>1 DEF TypeInv, SignUpsType
    <3>2. signups' \subseteq SignUp /\ \A t \in signups' : ~t.attached
      BY <3>1, DetachedSignUps DEF TypeInv, SignUpsType
    <3>3. \A e \in edits : ~e.attached
      BY <3>1 DEF TypeInv, EditsType
    <3> QED
      BY <1>1, <3>2, <3>3 DEF TypeInv, SignUpsType, EditsType
  <2>2. CASE ~s.attached
    <3>1. modal' = modal /\ signups' = signups \ {s}
      BY <1>1, <2>2
    <3> QED
      BY <1>1, <3>1 DEF TypeInv, SignUpsType, EditsType
  <2> QED
    BY <2>1, <2>2
<1>7. modal' \in {"none", "signup", "editor"}
  BY <1>1 DEF TypeInv, ScreenType
<1> QED
  BY <1>1, <1>4, <1>5, <1>6, <1>7, BehindTypes DEF TypeInv, CountsType

-----------------------------------------------------------------------------
(* The profile editor, and the outbox.                                     *)

LEMMA OpenEditorTypes == ASSUME TypeInv, OpenEditor PROVE TypeInv'
<1>1. /\ modal = "none" /\ modal' = "editor" /\ UNCHANGED Behind
      /\ UNCHANGED <<flag, auth, existing, record, outbox, signups, edits, kills>>
  BY DEF OpenEditor, Shown, Behind, deviceVars, serverVars
<1>2. taps' \in 0 .. MaxTaps
  BY Tapped DEF TypeInv, OpenEditor
<1>3. UsersType' /\ OutboxType' /\ SignUpsType' /\ EditsType'
  BY <1>1 DEF TypeInv, UsersType, OutboxType, SignUpsType, EditsType
<1> QED
  BY <1>1, <1>2, <1>3, BehindTypes DEF TypeInv

LEMMA CancelEditorTypes == ASSUME TypeInv, CancelEditor PROVE TypeInv'
<1>1. /\ modal = "editor" /\ modal' = "none" /\ edits' = Detached(edits) /\ UNCHANGED Behind
      /\ UNCHANGED <<flag, auth, existing, record, outbox, signups, kills>>
  BY DEF CancelEditor, Behind, deviceVars, serverVars
<1>2. taps' \in 0 .. MaxTaps
  BY Tapped DEF TypeInv, CancelEditor
<1>3. EditsType'
  BY <1>1, DetachedEdits DEF TypeInv, EditsType
<1>4. UsersType' /\ OutboxType' /\ SignUpsType'
  BY <1>1 DEF TypeInv, UsersType, OutboxType, SignUpsType
<1> QED
  BY <1>1, <1>2, <1>3, <1>4, BehindTypes DEF TypeInv

LEMMA UpdatePressedTypes == ASSUME TypeInv, UpdatePressed PROVE TypeInv'
<1> DEFINE e == [id |-> taps + 1, stage |-> "upload", attached |-> TRUE]
<1>1. /\ modal = "editor" /\ modal' = modal /\ edits' = edits \cup {e} /\ UNCHANGED Behind
      /\ UNCHANGED <<flag, auth, existing, record, outbox, signups, kills>>
  BY DEF UpdatePressed, Behind, deviceVars, serverVars, screenVars
<1>2. taps' \in 0 .. MaxTaps /\ taps + 1 \in Id
  BY Tapped DEF TypeInv, UpdatePressed
<1>3. e \in Edit
  BY <1>2 DEF Edit
<1> HIDE DEF e
<1>4. EditsType'
  BY <1>1, <1>3 DEF TypeInv, EditsType
<1>5. UsersType' /\ OutboxType' /\ SignUpsType'
  BY <1>1 DEF TypeInv, UsersType, OutboxType, SignUpsType
<1> QED
  BY <1>1, <1>2, <1>4, <1>5, BehindTypes DEF TypeInv, ScreenType

LEMMA EditFailsTypes == ASSUME TypeInv, NEW e, EditFails(e) PROVE TypeInv'
<1>1. /\ edits' \subseteq edits /\ modal' = modal /\ UNCHANGED Behind
      /\ UNCHANGED <<flag, auth, existing, record, outbox, signups, taps, kills>>
  BY DEF EditFails, Behind, deviceVars, serverVars, screenVars
<1>2. UsersType' /\ OutboxType' /\ EditsType' /\ SignUpsType'
  BY <1>1 DEF TypeInv, UsersType, OutboxType, EditsType, SignUpsType
<1> QED
  BY <1>1, <1>2, BehindTypes DEF TypeInv, ScreenType, CountsType

LEMMA EditUploadedTypes == ASSUME TypeInv, NEW e, EditUploaded(e) PROVE TypeInv'
<1> DEFINE w == Write(auth, {"username"}, e.id)
           f == [e EXCEPT !.stage = "write"]
<1>1. /\ e \in edits /\ auth # NoUser /\ outbox' = Append(outbox, w)
      /\ edits' = (edits \ {e}) \cup {f} /\ modal' = modal /\ UNCHANGED Behind
      /\ UNCHANGED <<flag, auth, existing, record, signups, taps, kills>>
  BY DEF EditUploaded, Behind, deviceVars, serverVars, screenVars
<1>2. e \in Edit /\ (e.attached => modal = "editor")
  BY <1>1 DEF TypeInv, EditsType
<1>3. f \in Edit /\ f.attached = e.attached
  BY <1>2 DEF Edit
<1>4. w \in UserWrite
  <2>1. auth \in Account
    BY <1>1 DEF TypeInv, UsersType
  <2>2. e.id \in 0 .. MaxTaps
    BY <1>2, SessionsAssumption DEF Edit, Id
  <2> QED
    BY <2>1, <2>2 DEF Write, UserWrite
<1> HIDE DEF w, f
<1>5. OutboxType'
  BY <1>1, <1>4, AppendProperties DEF TypeInv, OutboxType
<1>6. EditsType'
  BY <1>1, <1>2, <1>3 DEF TypeInv, EditsType
<1>7. UsersType' /\ SignUpsType'
  BY <1>1 DEF TypeInv, UsersType, SignUpsType
<1> QED
  BY <1>1, <1>5, <1>6, <1>7, BehindTypes DEF TypeInv, ScreenType, CountsType

\* The oldest write.
LEMMA OldestWrite ==
  ASSUME OutboxType, outbox # <<>>
  PROVE  /\ Head(outbox) \in UserWrite /\ Tail(outbox) \in Seq(UserWrite)
         /\ Head(outbox) = outbox[1] /\ 1 \in DOMAIN outbox
         /\ DOMAIN Tail(outbox) = 1 .. Len(outbox) - 1 /\ DOMAIN outbox = 1 .. Len(outbox)
         /\ Len(outbox) \in Nat
         /\ \A i \in DOMAIN Tail(outbox) : Tail(outbox)[i] = outbox[i + 1]
<1>1. outbox \in Seq(UserWrite)
  BY DEF OutboxType
<1>2. /\ Head(outbox) \in UserWrite /\ Tail(outbox) \in Seq(UserWrite)
      /\ Len(Tail(outbox)) = Len(outbox) - 1
      /\ \A i \in 1 .. Len(Tail(outbox)) : Tail(outbox)[i] = outbox[i + 1]
  BY <1>1, HeadTailProperties
<1>3. Len(outbox) \in Nat /\ DOMAIN outbox = 1 .. Len(outbox) /\ Len(outbox) # 0
  BY <1>1, LenProperties, EmptySeq
<1>4. DOMAIN Tail(outbox) = 1 .. Len(outbox) - 1
  BY <1>2, LenProperties
<1>5. Head(outbox) = outbox[1]
  BY <1>1
<1> QED
  BY <1>2, <1>3, <1>4, <1>5

LEMMA SendTypes == ASSUME TypeInv, Send PROVE TypeInv'
<1> DEFINE w == Head(outbox)
           shown == \E e \in edits : e.id = w.edit /\ e.attached
<1>1. /\ outbox # <<>> /\ record' = [record EXCEPT ![w.to] = @ \cup w.fields]
      /\ outbox' = Tail(outbox) /\ modal' = (IF shown THEN "none" ELSE modal)
      /\ edits' = {IF shown THEN [e EXCEPT !.attached = FALSE] ELSE e :
                      e \in {f \in edits : f.id # w.edit}}
      /\ UNCHANGED Behind /\ UNCHANGED <<flag, auth, existing, signups, taps, kills>>
  BY DEF Send, Behind, deviceVars
<1>2. w \in UserWrite /\ Tail(outbox) \in Seq(UserWrite)
  BY <1>1, OldestWrite DEF TypeInv
<1> HIDE DEF w
<1>3. UsersType'
  <2>1. w.fields \subseteq Field /\ w.to \in Account
    BY <1>2 DEF UserWrite, Field
  <2>2. record' \in [Account -> SUBSET Field]
    BY <1>1, <2>1 DEF TypeInv, UsersType
  <2> QED
    BY <1>1, <2>2 DEF TypeInv, UsersType
<1>4. OutboxType'
  BY <1>1, <1>2 DEF OutboxType
<1>5. SignUpsType' /\ EditsType'
  <2>1. CASE shown
    <3>1. modal = "editor" /\ modal' = "none"
      BY <1>1, <2>1 DEF TypeInv, EditsType
    <3>2. \A s \in signups : ~s.attached
      BY <3>1 DEF TypeInv, SignUpsType
    <3>3. edits' = Detached({f \in edits : f.id # w.edit})
      BY <1>1, <2>1 DEF Detached
    <3>4. edits' \subseteq Edit /\ \A e \in edits' : ~e.attached
      BY <3>3, DetachedEdits DEF TypeInv, EditsType
    <3> QED
      BY <1>1, <3>2, <3>4 DEF TypeInv, SignUpsType, EditsType
  <2>2. CASE ~shown
    <3>1. modal' = modal /\ edits' \subseteq edits
      BY <1>1, <2>2
    <3> QED
      BY <1>1, <3>1 DEF TypeInv, SignUpsType, EditsType
  <2> QED
    BY <2>1, <2>2
<1>6. modal' \in {"none", "signup", "editor"}
  BY <1>1 DEF TypeInv, ScreenType
<1> QED
  BY <1>1, <1>3, <1>4, <1>5, <1>6, BehindTypes DEF TypeInv, CountsType

LEMMA TypeInvNext ==
  ASSUME TypeInv, [Next]_vars
  PROVE  TypeInv'
<1>1. ASSUME NEW l \in logins, SignIn(l) \/ SignInFails(l) \/ LoggedIn(l) PROVE TypeInv'
  BY <1>1, SignInTypes, SignInFailsTypes, LoggedInTypes
<1>2. ASSUME NEW s \in signups,
             PhotoUploaded(s) \/ SignUpFails(s) \/ CreateAccount(s) \/ AccountCreated(s)
      PROVE  TypeInv'
  BY <1>2, PhotoUploadedTypes, SignUpFailsTypes, CreateAccountTypes, AccountCreatedTypes
<1>3. ASSUME NEW e \in edits, EditFails(e) \/ EditUploaded(e) \/ EditTraps(e) PROVE TypeInv'
  BY <1>3, EditFailsTypes, EditUploadedTypes, RestartTypes DEF EditTraps
<1>4. CASE ClearFlag
  BY <1>4, ClearFlagTypes
<1>5. CASE Send
  BY <1>5, SendTypes
<1>6. ASSUME NEW u \in Account, LoginPressed(u) \/ SignUpPressed(u) PROVE TypeInv'
  BY <1>6, LoginPressedTypes, SignUpPressedTypes
<1>7. CASE GetStarted \/ Logout
  BY <1>7, GetStartedTypes, LogoutTypes
<1>8. CASE OpenSignUp \/ CancelSignUp
  BY <1>8, OpenSignUpTypes, CancelSignUpTypes
<1>9. CASE OpenEditor \/ CancelEditor \/ UpdatePressed
  BY <1>9, OpenEditorTypes, CancelEditorTypes, UpdatePressedTypes
<1>10. CASE Kill
  BY <1>10, RestartTypes DEF Kill
<1>11. CASE UNCHANGED vars
  BY <1>11 DEF vars, deviceVars, serverVars, screenVars, TypeInv, UsersType, OutboxType, ScreenType,
               LoginsType, SignUpsType, EditsType, CountsType
<1> QED
  BY <1>1, <1>2, <1>3, <1>4, <1>5, <1>6, <1>7, <1>8, <1>9, <1>10, <1>11
  DEF Next, Callback, AuthStep, Answer, Touch

LEMMA TypeInvHolds == Spec => []TypeInv
<1>1. TypeInv /\ [Next]_vars => TypeInv'
  BY TypeInvNext
<1> QED
  BY <1>1, TypeInvInit, PTL DEF Spec

\* Every variable has its type, a sign-in knows the navigation controller it
\* will push on, and a callback dismisses only what is presented.
\* (LoginController, SignUpController, UserInfoController.)
THEOREM SessionsTypeCorrect == Spec => []TypeOK
BY TypeInvHolds, TypeInvParts, PTL

-----------------------------------------------------------------------------
(* The flag and Auth.  FlagMeansSignedIn is not inductive: the callback of a *)
(* sign-in sets the flag whoever is signed in by then.  As long as Login was *)
(* not tapped twice there is one sign-in, its login screen is in front until *)
(* the callback has run, and so nobody can log out in between.  A process    *)
(* that ends in the middle of a logout leaves `torn' behind.                 *)

OneLogin == ~doubled => \A l, m \in logins : l = m

LoginShown == ~doubled => \A l \in logins : l.nav = Len(navs) /\ Last(navs) = "login"

AnsweredSignedIn ==
  ~doubled => \A l \in logins : l.stage = "answered" => auth # NoUser

\* The tab bar is in front until handleLogout has reset the flag.
LeavesTabs == leaving => Last(navs) = "tabs"

FlagInv ==
  OneLogin /\ LoginShown /\ AnsweredSignedIn /\ LeavesTabs /\ FlagMeansSignedIn

LEMMA FlagInvInit == Init => FlagInv
BY DEF Init, FlagInv, OneLogin, LoginShown, AnsweredSignedIn, LeavesTabs,
         FlagMeansSignedIn

\* Steps of the sign-up, of the editor and of the outbox: one may sign somebody
\* in, and one may take the flag away.
LEMMA FlagAlone ==
  ASSUME FlagInv, UNCHANGED <<navs, leaving, torn, logins, doubled>>,
         flag' = flag \/ flag' = FALSE,
         auth' = auth \/ auth' # NoUser
  PROVE  FlagInv'
BY DEF FlagInv, OneLogin, LoginShown, AnsweredSignedIn, LeavesTabs,
         FlagMeansSignedIn, Last

\* A sign-in that fails.
LEMMA FewerLogins ==
  ASSUME FlagInv, UNCHANGED <<flag, auth, leaving, torn, doubled, navs>>,
         logins' \subseteq logins
  PROVE  FlagInv'
BY DEF FlagInv, OneLogin, LoginShown, AnsweredSignedIn, LeavesTabs,
         FlagMeansSignedIn, Last

LEMMA NobodyLogsIn ==
  ASSUME FlagInv, NEW view \in {"welcome", "tabs"}, Shown(view), ~doubled
  PROVE  logins = {}
BY DEF FlagInv, LoginShown, Shown

LEMMA FlagInvNext ==
  ASSUME TypeInv, FlagInv, [Next]_vars
  PROVE  FlagInv'
<1>1. CASE GetStarted
  <2>1. ~doubled => logins = {}
    BY <1>1, NobodyLogsIn DEF GetStarted
  <2>2. ~leaving /\ UNCHANGED <<flag, auth, leaving, torn, logins, doubled>>
    BY <1>1 DEF GetStarted, Shown, deviceVars
  <2> QED
    BY <2>1, <2>2 DEF FlagInv, OneLogin, LoginShown, AnsweredSignedIn, LeavesTabs,
         FlagMeansSignedIn
<1>2. ASSUME NEW u \in Account, LoginPressed(u) PROVE FlagInv'
  <2> DEFINE l == [id |-> taps + 1, who |-> u, nav |-> Len(navs), stage |-> "asked"]
  <2>1. /\ Last(navs) = "login" /\ logins' = logins \cup {l} /\ doubled' = (doubled \/ logins # {})
        /\ UNCHANGED <<flag, auth, navs, leaving, torn>>
    BY <1>2 DEF LoginPressed, Shown, deviceVars, screenVars
  <2>2. l.nav = Len(navs) /\ l.stage = "asked"
    OBVIOUS
  <2> HIDE DEF l
  <2>3. ~doubled' => ~doubled /\ logins' = {l}
    BY <2>1
  <2> QED
    BY <2>1, <2>2, <2>3 DEF FlagInv, OneLogin, LoginShown, AnsweredSignedIn, LeavesTabs,
         FlagMeansSignedIn, Last
<1>3. ASSUME NEW l \in logins, SignIn(l) PROVE FlagInv'
  <2> DEFINE m == [l EXCEPT !.stage = "answered"]
  <2>1. /\ auth' = l.who /\ l.who \in existing /\ logins' = (logins \ {l}) \cup {m}
        /\ UNCHANGED <<flag, doubled, navs, leaving, torn>>
    BY <1>3 DEF SignIn, screenVars
  <2>2. auth' # NoUser
    BY <2>1, SessionsAssumption DEF TypeInv, UsersType
  <2>3. m.nav = l.nav
    BY DEF TypeInv, LoginsType, Login
  <2> HIDE DEF m
  <2>4. ~doubled => logins' = {m}
    BY <2>1 DEF FlagInv, OneLogin
  <2> QED
    BY <2>1, <2>2, <2>3, <2>4
    DEF FlagInv, OneLogin, LoginShown, AnsweredSignedIn, LeavesTabs,
         FlagMeansSignedIn, Last
<1>4. ASSUME NEW l \in logins, SignInFails(l) PROVE FlagInv'
  BY <1>4, FewerLogins DEF SignInFails, deviceVars, screenVars
<1>5. ASSUME NEW l \in logins, LoggedIn(l), ~leaving PROVE FlagInv'
  <2>1. /\ l.stage = "answered" /\ logins' = logins \ {l}
        /\ UNCHANGED <<auth, doubled, leaving>>
    BY <1>5 DEF LoggedIn
  <2>2. ~doubled => auth # NoUser /\ logins' = {}
    BY <2>1 DEF FlagInv, OneLogin, AnsweredSignedIn
  <2> QED
    BY <1>5, <2>1, <2>2
    DEF FlagInv, OneLogin, LoginShown, AnsweredSignedIn, LeavesTabs, FlagMeansSignedIn
<1>6. CASE Logout
  <2>1. ~doubled => logins = {}
    BY <1>6, NobodyLogsIn DEF Logout
  <2>2. Last(navs) = "tabs" /\ UNCHANGED <<navs, logins, doubled>>
    BY <1>6 DEF Logout, Shown
  <2>3. leaving' = TRUE
    BY <1>6 DEF Logout
  <2>4. OneLogin' /\ LoginShown' /\ AnsweredSignedIn' /\ LeavesTabs'
    BY <2>1, <2>2 DEF FlagInv, OneLogin, LoginShown, AnsweredSignedIn, LeavesTabs, Last
  <2>5. FlagMeansSignedIn'
    BY <2>3 DEF FlagMeansSignedIn
  <2> QED
    BY <2>4, <2>5 DEF FlagInv
<1>7. ASSUME NEW s \in signups,
             PhotoUploaded(s) \/ SignUpFails(s) \/ CreateAccount(s) \/ AccountCreated(s)
      PROVE  FlagInv'
  <2>1. s.who # NoUser
    BY SessionsAssumption DEF TypeInv, SignUpsType, SignUp
  <2> QED
    BY <1>7, <2>1, FlagAlone DEF PhotoUploaded, SignUpFails, CreateAccount, AccountCreated,
                                 deviceVars, screenVars
<1>8. CASE Restart
  <2>1. /\ logins' = {} /\ leaving' = FALSE /\ torn' = (torn \/ leaving)
        /\ UNCHANGED <<flag, auth, doubled>>
    BY <1>8 DEF Restart, deviceVars
  <2>2. OneLogin' /\ LoginShown' /\ AnsweredSignedIn' /\ LeavesTabs'
    BY <2>1 DEF OneLogin, LoginShown, AnsweredSignedIn, LeavesTabs
  <2>3. FlagMeansSignedIn'
    BY <2>1, Zenon DEF FlagInv, FlagMeansSignedIn
  <2> QED
    BY <2>2, <2>3 DEF FlagInv
<1>9. ASSUME NEW e \in edits, EditFails(e) \/ EditUploaded(e) PROVE FlagInv'
  BY <1>9, FlagAlone DEF EditFails, EditUploaded, deviceVars, screenVars
<1>10. CASE Send
  BY <1>10, FlagAlone DEF Send, deviceVars
<1>14. CASE ClearFlag
  <2>1. ~doubled => logins = {}
    BY <1>14 DEF ClearFlag, FlagInv, LoginShown, LeavesTabs
  <2>2. flag' = FALSE /\ leaving' = FALSE /\ UNCHANGED <<logins, doubled>>
    BY <1>14 DEF ClearFlag
  <2> QED
    BY <2>1, <2>2 DEF FlagInv, OneLogin, LoginShown, AnsweredSignedIn, LeavesTabs,
                      FlagMeansSignedIn
<1>11. ASSUME NEW u \in Account, SignUpPressed(u) PROVE FlagInv'
  BY <1>11, FlagAlone DEF SignUpPressed, deviceVars, screenVars
<1>12. CASE OpenSignUp \/ CancelSignUp \/ OpenEditor \/ CancelEditor \/ UpdatePressed
  BY <1>12, FlagAlone DEF OpenSignUp, CancelSignUp, OpenEditor, CancelEditor, UpdatePressed,
                          deviceVars, screenVars
<1>13. CASE UNCHANGED vars
  BY <1>13, FlagAlone DEF vars, deviceVars, screenVars
<1> QED
  BY <1>1, <1>2, <1>3, <1>4, <1>5, <1>6, <1>7, <1>8, <1>9, <1>10, <1>11, <1>12, <1>13,
     <1>14
  DEF Next, Callback, AuthStep, Answer, Touch, Kill, EditTraps

\* The flag with which a process starts says that somebody is logged in only if
\* Auth agrees, in every order of taps, answers and ends of processes, unless
\* Login was tapped again while a sign-in was under way, or a process ended
\* inside the last handleLogout, between its two writes.
\* (AppDelegate, LoginController.loginPressed, handleLogout.)
THEOREM FlagAgreesWithAuth == Spec => []FlagMeansSignedIn
<1>1. TypeInv /\ FlagInv /\ [Next]_vars => FlagInv'
  BY FlagInvNext
<1>2. FlagInv => FlagMeansSignedIn
  BY DEF FlagInv
<1> QED
  BY <1>1, <1>2, FlagInvInit, TypeInvHolds, PTL DEF Spec

-----------------------------------------------------------------------------
(* Accounts and their records.  What is counted are the sign-ups whose        *)
(* account has been created, the writes of a whole record on their way, and  *)
(* the records on the server.  An account can be created only once because   *)
(* it exists from then on, and so there is one of the three (OnePlace) from  *)
(* then on and none before (NoneYet).                                        *)

NoneYet == \A u \in Account \ existing :
  Created(u) = {} /\ FirstWrites(u) = {} /\ ~HasPoints(u)

OnePlace == \A u \in Account :
  /\ \A s, t \in Created(u) : s = t
  /\ \A i, j \in FirstWrites(u) : i = j
  /\ Created(u) = {} \/ FirstWrites(u) = {}
  /\ HasPoints(u) => Created(u) = {} /\ FirstWrites(u) = {}

\* Only a sign-up writes points.
WholeWrites == \A i \in DOMAIN outbox :
  "karmaPoints" \in outbox[i].fields => outbox[i] = Write(outbox[i].to, Field, NoEdit)

RecordInv == NoneYet /\ OnePlace /\ WholeWrites /\ AccountsHaveRecords

LEMMA RecordInvInit == Init => RecordInv
<1> SUFFICES ASSUME Init PROVE RecordInv
  OBVIOUS
<1>1. /\ \A u \in Account : Created(u) = {} /\ FirstWrites(u) = {}
      /\ WholeWrites
  BY DEF Init, Created, FirstWrites, WholeWrites
<1>2. \A u \in Account : HasPoints(u) <=> u \in Members
  BY DEF Init, HasPoints, Field
<1>3. existing = Members \cup CutShort
  BY DEF Init
<1>4. NoneYet /\ OnePlace
  BY <1>1, <1>2, <1>3 DEF NoneYet, OnePlace
<1>5. AccountsHaveRecords
  BY <1>2, <1>3, SessionsAssumption DEF AccountsHaveRecords
<1> QED
  BY <1>1, <1>4, <1>5 DEF RecordInv

\* Steps that touch neither the accounts nor the writes, and leave each account
\* with the created sign-up it had, if any.
LEMMA RecordsAlone ==
  ASSUME TypeInv, RecordInv, UNCHANGED <<existing, record, outbox, kills>>,
         \A u \in Account :
           /\ (Created(u) = {}) <=> (Created(u)' = {})
           /\ (\A s, t \in Created(u) : s = t) => (\A s, t \in Created(u)' : s = t)
  PROVE  RecordInv'
<1>1. \A u \in Account : FirstWrites(u)' = FirstWrites(u) /\ (HasPoints(u)' <=> HasPoints(u))
  BY DEF FirstWrites, HasPoints
<1>2. NoneYet' /\ OnePlace'
  BY <1>1 DEF RecordInv, NoneYet, OnePlace
<1>3. WholeWrites'
  BY DEF RecordInv, WholeWrites
<1>4. AccountsHaveRecords'
  <2> SUFFICES ASSUME kills = 0, NEW u \in existing \ CutShort
               PROVE  HasPoints(u)' \/ Created(u)' # {} \/ FirstWrites(u)' # {}
    BY DEF AccountsHaveRecords
  <2>1. u \in Account
    BY DEF TypeInv, UsersType
  <2> QED
    BY <1>1, <2>1 DEF RecordInv, AccountsHaveRecords
<1> QED
  BY <1>2, <1>3, <1>4 DEF RecordInv

LEMMA DetachedCount ==
  ASSUME NEW S
  PROVE  /\ (S = {}) <=> (Detached(S) = {})
         /\ (\A s, t \in S : s = t) => (\A s, t \in Detached(S) : s = t)
BY DEF Detached

\* Dismissing a form leaves its sign-ups what they are.
LEMMA CreatedDetached ==
  ASSUME TypeInv, NEW S, S \subseteq signups, signups' = Detached(S), NEW u
  PROVE  Created(u)' = Detached({s \in S : s.who = u /\ s.stage = "created"})
<1>1. \A s \in S : s \in SignUp
  BY DEF TypeInv, SignUpsType
<1>2. \A s \in S : LET d == [s EXCEPT !.attached = FALSE] IN d.who = s.who /\ d.stage = s.stage
  BY <1>1 DEF SignUp
<1> QED
  BY <1>2 DEF Created, Detached

\* A sign-up that goes to another stage.
LEMMA CreatedAt ==
  ASSUME TypeInv, NEW s \in signups, s.stage # "created", NEW stage \in {"create", "created"},
         signups' = At(s, stage), NEW u
  PROVE  /\ u # s.who \/ stage = "create" => Created(u)' = Created(u)
         /\ u = s.who /\ stage = "created" =>
               Created(u)' = Created(u) \cup {[s EXCEPT !.stage = stage]}
<1> DEFINE t == [s EXCEPT !.stage = stage]
<1>1. s \in SignUp
  BY DEF TypeInv, SignUpsType
<1>2. t.who = s.who /\ t.stage = stage
  BY <1>1 DEF SignUp
<1>3. signups' = (signups \ {s}) \cup {t}
  BY DEF At
<1> HIDE DEF t
<1>4. u # s.who \/ stage = "create" => Created(u)' = Created(u)
  BY <1>2, <1>3 DEF Created
<1>5. u = s.who /\ stage = "created" => Created(u)' = Created(u) \cup {t}
  BY <1>2, <1>3 DEF Created
<1> QED
  BY <1>4, <1>5 DEF t

\* A write that goes to the end of the outbox.
LEMMA FirstWritesAppended ==
  ASSUME OutboxType, NEW w \in UserWrite, outbox' = Append(outbox, w), NEW u
  PROVE  /\ Len(outbox) + 1 \notin FirstWrites(u)
         /\ FirstWrites(u)' = IF w = Write(u, Field, NoEdit)
                              THEN FirstWrites(u) \cup {Len(outbox) + 1} ELSE FirstWrites(u)
<1>1. outbox \in Seq(UserWrite) /\ Len(outbox) \in Nat /\ DOMAIN outbox = 1 .. Len(outbox)
  BY LenProperties DEF OutboxType
<1>2. /\ outbox' \in Seq(UserWrite) /\ Len(outbox') = Len(outbox) + 1
      /\ outbox'[Len(outbox) + 1] = w /\ \A i \in 1 .. Len(outbox) : outbox'[i] = outbox[i]
  BY <1>1, AppendProperties
<1>3. DOMAIN outbox' = 1 .. Len(outbox) + 1
  BY <1>2, LenProperties
<1>4. DOMAIN outbox' = DOMAIN outbox \cup {Len(outbox) + 1} /\ Len(outbox) + 1 \notin DOMAIN outbox
  BY <1>1, <1>3
<1> QED
  BY <1>1, <1>2, <1>4 DEF FirstWrites

LEMMA WholeWritesAppended ==
  ASSUME OutboxType, WholeWrites, NEW w \in UserWrite, outbox' = Append(outbox, w),
         "karmaPoints" \in w.fields => w = Write(w.to, Field, NoEdit)
  PROVE  WholeWrites'
<1>1. outbox \in Seq(UserWrite) /\ Len(outbox) \in Nat /\ DOMAIN outbox = 1 .. Len(outbox)
  BY LenProperties DEF OutboxType
<1>2. /\ outbox' \in Seq(UserWrite) /\ Len(outbox') = Len(outbox) + 1
      /\ outbox'[Len(outbox) + 1] = w /\ \A i \in 1 .. Len(outbox) : outbox'[i] = outbox[i]
  BY <1>1, AppendProperties
<1>3. DOMAIN outbox' = 1 .. Len(outbox) + 1
  BY <1>2, LenProperties
<1>4. DOMAIN outbox' = DOMAIN outbox \cup {Len(outbox) + 1}
  BY <1>1, <1>3
<1> QED
  BY <1>1, <1>2, <1>4 DEF WholeWrites

LEMMA RestartRecords ==
  ASSUME TypeInv, RecordInv, Restart
  PROVE  RecordInv'
<1>1. signups' = {} /\ outbox' = <<>> /\ kills' = kills + 1 /\ UNCHANGED <<existing, record>>
  BY DEF Restart, serverVars
<1>2. \A u \in Account : Created(u)' = {} /\ FirstWrites(u)' = {} /\ (HasPoints(u)' <=> HasPoints(u))
  BY <1>1 DEF Created, FirstWrites, HasPoints
<1>3. NoneYet' /\ OnePlace'
  BY <1>1, <1>2 DEF RecordInv, NoneYet, OnePlace
<1>4. WholeWrites'
  BY <1>1 DEF WholeWrites
<1>5. AccountsHaveRecords'
  BY <1>1 DEF AccountsHaveRecords, TypeInv, CountsType
<1> QED
  BY <1>3, <1>4, <1>5 DEF RecordInv

\* The account is new, and so is its place.
LEMMA CreateAccountRecords ==
  ASSUME TypeInv, RecordInv, NEW s \in signups, CreateAccount(s)
  PROVE  RecordInv'
<1> DEFINE t == [s EXCEPT !.stage = "created"]
<1>1. /\ s.stage # "created" /\ s.who \notin existing /\ existing' = existing \cup {s.who}
      /\ signups' = At(s, "created") /\ UNCHANGED <<record, outbox, kills>>
  BY DEF CreateAccount
<1>2. s.who \in Account /\ existing \subseteq Account
  BY DEF TypeInv, UsersType, SignUpsType, SignUp
<1>3. /\ \A u \in Account : u # s.who => Created(u)' = Created(u)
      /\ Created(s.who)' = Created(s.who) \cup {t}
  BY <1>1, CreatedAt
<1> HIDE DEF t
<1>4. Created(s.who) = {} /\ FirstWrites(s.who) = {} /\ ~HasPoints(s.who)
  BY <1>1, <1>2 DEF RecordInv, NoneYet
<1>5. \A u \in Account : FirstWrites(u)' = FirstWrites(u) /\ (HasPoints(u)' <=> HasPoints(u))
  BY <1>1 DEF FirstWrites, HasPoints
<1>6. NoneYet'
  BY <1>1, <1>3, <1>5 DEF RecordInv, NoneYet
<1>7. OnePlace'
  <2> SUFFICES ASSUME NEW u \in Account
               PROVE  /\ \A x, y \in Created(u)' : x = y
                      /\ \A i, j \in FirstWrites(u)' : i = j
                      /\ Created(u)' = {} \/ FirstWrites(u)' = {}
                      /\ HasPoints(u)' => Created(u)' = {} /\ FirstWrites(u)' = {}
    BY DEF OnePlace
  <2>1. CASE u = s.who
    BY <1>3, <1>4, <1>5, <2>1
  <2>2. CASE u # s.who
    BY <1>3, <1>5, <2>2 DEF RecordInv, OnePlace
  <2> QED
    BY <2>1, <2>2
<1>8. WholeWrites'
  BY <1>1 DEF RecordInv, WholeWrites
<1>9. AccountsHaveRecords'
  <2> SUFFICES ASSUME kills = 0, NEW u \in existing' \ CutShort
               PROVE  HasPoints(u)' \/ Created(u)' # {} \/ FirstWrites(u)' # {}
    BY <1>1 DEF AccountsHaveRecords
  <2>1. CASE u = s.who
    BY <1>3, <2>1
  <2>2. CASE u # s.who
    <3>1. u \in existing \ CutShort /\ u \in Account
      BY <1>1, <1>2, <2>2
    <3> QED
      BY <1>3, <1>5, <2>2, <3>1 DEF RecordInv, AccountsHaveRecords
  <2> QED
    BY <2>1, <2>2
<1> QED
  BY <1>6, <1>7, <1>8, <1>9 DEF RecordInv

\* From the created account to the write.
LEMMA AccountCreatedRecords ==
  ASSUME TypeInv, RecordInv, NEW s \in signups, AccountCreated(s)
  PROVE  RecordInv'
<1> DEFINE w == Write(s.who, Field, NoEdit)
           rest == {t \in signups \ {s} : t.stage = "created"}
<1>1. /\ s.stage = "created" /\ outbox' = Append(outbox, w)
      /\ signups' = (IF s.attached THEN Detached(signups \ {s}) ELSE signups \ {s})
      /\ UNCHANGED <<existing, record, kills>>
  BY DEF AccountCreated, serverVars
<1>2. s.who \in Account /\ existing \subseteq Account
  BY DEF TypeInv, UsersType, SignUpsType, SignUp
<1>3. w \in UserWrite
  BY <1>2, SessionsAssumption DEF Write, UserWrite, NoEdit
<1>4. s \in Created(s.who)
  BY <1>1 DEF Created
<1>5. FirstWrites(s.who) = {} /\ ~HasPoints(s.who) /\ Created(s.who) = {s}
  BY <1>2, <1>4 DEF RecordInv, OnePlace
<1>6. \A u \in Account : w = Write(u, Field, NoEdit) <=> u = s.who
  BY DEF Write
<1>7. \A u \in Account : /\ FirstWrites(u)' = IF u = s.who THEN {Len(outbox) + 1} ELSE FirstWrites(u)
                         /\ HasPoints(u)' <=> HasPoints(u)
  BY <1>1, <1>3, <1>5, <1>6, FirstWritesAppended DEF TypeInv, HasPoints
<1>8. \A u \in Account : Created(u)' = IF s.attached THEN Detached(Created(u) \ {s})
                                       ELSE Created(u) \ {s}
  <2>1. CASE s.attached
    <3> SUFFICES ASSUME NEW u \in Account PROVE Created(u)' = Detached(Created(u) \ {s})
      BY <2>1
    <3>1. Created(u)' = Detached({t \in signups \ {s} : t.who = u /\ t.stage = "created"})
      BY <1>1, <2>1, CreatedDetached
    <3>2. {t \in signups \ {s} : t.who = u /\ t.stage = "created"} = Created(u) \ {s}
      BY DEF Created
    <3> QED
      BY <3>1, <3>2
  <2>2. CASE ~s.attached
    BY <1>1, <2>2 DEF Created
  <2> QED
    BY <2>1, <2>2
<1>9. \A u \in Account : u # s.who => s \notin Created(u)
  BY DEF Created
<1>10. Created(s.who)' = {}
  BY <1>2, <1>5, <1>8 DEF Detached
<1>11. \A u \in Account : u # s.who =>
         /\ (Created(u) = {}) <=> (Created(u)' = {})
         /\ (\A x, y \in Created(u) : x = y) => (\A x, y \in Created(u)' : x = y)
  <2> SUFFICES ASSUME NEW u \in Account, u # s.who
               PROVE  /\ (Created(u) = {}) <=> (Created(u)' = {})
                      /\ (\A x, y \in Created(u) : x = y) => (\A x, y \in Created(u)' : x = y)
    OBVIOUS
  <2>1. Created(u) \ {s} = Created(u)
    BY <1>9
  <2>2. Created(u)' = Detached(Created(u)) \/ Created(u)' = Created(u)
    BY <1>8, <2>1
  <2>3. CASE Created(u)' = Detached(Created(u))
    BY <2>3, DetachedCount
  <2>4. CASE Created(u)' = Created(u)
    BY <2>4
  <2> QED
    BY <2>2, <2>3, <2>4
<1> HIDE DEF w
<1>12. NoneYet'
  <2> SUFFICES ASSUME NEW u \in Account \ existing
               PROVE  Created(u)' = {} /\ FirstWrites(u)' = {} /\ ~HasPoints(u)'
    BY <1>1 DEF NoneYet
  <2>1. u # s.who
    BY <1>5 DEF RecordInv, NoneYet
  <2> QED
    BY <1>7, <1>11, <2>1 DEF RecordInv, NoneYet
<1>13. OnePlace'
  <2> SUFFICES ASSUME NEW u \in Account
               PROVE  /\ \A x, y \in Created(u)' : x = y
                      /\ \A i, j \in FirstWrites(u)' : i = j
                      /\ Created(u)' = {} \/ FirstWrites(u)' = {}
                      /\ HasPoints(u)' => Created(u)' = {} /\ FirstWrites(u)' = {}
    BY DEF OnePlace
  <2>1. CASE u = s.who
    BY <1>5, <1>7, <1>10, <2>1
  <2>2. CASE u # s.who
    BY <1>7, <1>11, <2>2 DEF RecordInv, OnePlace
  <2> QED
    BY <2>1, <2>2
<1>14. WholeWrites'
  <2>1. w = Write(w.to, Field, NoEdit)
    BY DEF w, Write
  <2> QED
    BY <1>1, <1>3, <2>1, WholeWritesAppended DEF TypeInv, RecordInv
<1>15. AccountsHaveRecords'
  <2> SUFFICES ASSUME kills = 0, NEW u \in existing \ CutShort
               PROVE  HasPoints(u)' \/ Created(u)' # {} \/ FirstWrites(u)' # {}
    BY <1>1 DEF AccountsHaveRecords
  <2>1. u \in Account
    BY <1>2
  <2>2. CASE u = s.who
    BY <1>7, <2>1, <2>2
  <2>3. CASE u # s.who
    BY <1>7, <1>11, <2>1, <2>3 DEF RecordInv, AccountsHaveRecords
  <2> QED
    BY <2>2, <2>3
<1> QED
  BY <1>12, <1>13, <1>14, <1>15 DEF RecordInv

\* A name that is edited is no first write.
LEMMA EditUploadedRecords ==
  ASSUME TypeInv, RecordInv, NEW e \in edits, EditUploaded(e)
  PROVE  RecordInv'
<1> DEFINE w == Write(auth, {"username"}, e.id)
<1>1. /\ auth # NoUser /\ outbox' = Append(outbox, w)
      /\ UNCHANGED <<existing, record, signups, kills>>
  BY DEF EditUploaded, serverVars
<1>2. e.id \in 0 .. MaxTaps
  BY SessionsAssumption DEF TypeInv, EditsType, Edit, Id
<1>3. w \in UserWrite
  BY <1>1, <1>2 DEF TypeInv, UsersType, Write, UserWrite
<1>4. "karmaPoints" \notin w.fields
  BY DEF Write
<1>5. \A u \in Account : w # Write(u, Field, NoEdit)
  BY <1>4 DEF Write, Field
<1> HIDE DEF w
<1>6. \A u \in Account : FirstWrites(u)' = FirstWrites(u) /\ Created(u)' = Created(u)
                         /\ (HasPoints(u)' <=> HasPoints(u))
  BY <1>1, <1>3, <1>5, FirstWritesAppended DEF TypeInv, Created, HasPoints
<1>7. NoneYet' /\ OnePlace'
  BY <1>1, <1>6 DEF RecordInv, NoneYet, OnePlace
<1>8. WholeWrites'
  BY <1>1, <1>3, <1>4, WholeWritesAppended DEF TypeInv, RecordInv
<1>9. AccountsHaveRecords'
  BY <1>1, <1>6 DEF RecordInv, AccountsHaveRecords, TypeInv, UsersType
<1> QED
  BY <1>7, <1>8, <1>9 DEF RecordInv

\* The oldest write reaches the server: a first write makes the points, and no
\* other one does.
LEMMA SendRecords ==
  ASSUME TypeInv, RecordInv, Send
  PROVE  RecordInv'
<1> DEFINE w == Head(outbox)
<1>1. /\ outbox # <<>> /\ record' = [record EXCEPT ![w.to] = @ \cup w.fields]
      /\ outbox' = Tail(outbox) /\ UNCHANGED <<existing, signups, kills>>
  BY DEF Send
<1>2. /\ w \in UserWrite /\ w = outbox[1] /\ 1 \in DOMAIN outbox
      /\ DOMAIN outbox' = 1 .. Len(outbox) - 1 /\ DOMAIN outbox = 1 .. Len(outbox)
      /\ Len(outbox) \in Nat
      /\ \A i \in DOMAIN outbox' : outbox'[i] = outbox[i + 1]
  BY <1>1, OldestWrite DEF TypeInv
<1>3. w.to \in Account
  BY <1>2 DEF UserWrite
<1>4. "karmaPoints" \in w.fields <=> w = Write(w.to, Field, NoEdit)
  BY <1>2 DEF RecordInv, WholeWrites, Write, Field
<1>5. \A u \in Account : w = Write(u, Field, NoEdit) <=> 1 \in FirstWrites(u)
  BY <1>2 DEF FirstWrites
<1>6. \A u \in Account : HasPoints(u)' <=> HasPoints(u) \/ 1 \in FirstWrites(u)
  <2> SUFFICES ASSUME NEW u \in Account
               PROVE  HasPoints(u)' <=> HasPoints(u) \/ 1 \in FirstWrites(u)
    OBVIOUS
  <2>1. record'[u] = IF u = w.to THEN record[u] \cup w.fields ELSE record[u]
    BY <1>1, <1>3 DEF TypeInv, UsersType
  <2>2. u = w.to /\ "karmaPoints" \in w.fields <=> w = Write(u, Field, NoEdit)
    BY <1>4 DEF Write, Field
  <2> QED
    BY <1>5, <2>1, <2>2 DEF HasPoints
<1>7. \A i \in DOMAIN outbox' : i + 1 \in DOMAIN outbox /\ i + 1 # 1
  BY <1>2
<1>8. \A i \in DOMAIN outbox : i # 1 => i - 1 \in DOMAIN outbox' /\ (i - 1) + 1 = i
  BY <1>2
<1>9. \A u \in Account : \A i : i \in FirstWrites(u)' <=> i \in DOMAIN outbox' /\ i + 1 \in FirstWrites(u)
  BY <1>2, <1>7 DEF FirstWrites
<1> HIDE DEF w
<1>10. \A u \in Account : FirstWrites(u)' = {} <=> FirstWrites(u) \subseteq {1}
  <2> SUFFICES ASSUME NEW u \in Account
               PROVE  FirstWrites(u)' = {} <=> FirstWrites(u) \subseteq {1}
    OBVIOUS
  <2>1. FirstWrites(u) \subseteq DOMAIN outbox
    BY DEF FirstWrites
  <2>2. ASSUME NEW i \in FirstWrites(u), i # 1 PROVE i - 1 \in FirstWrites(u)'
    BY <1>8, <1>9, <2>1, <2>2
  <2>3. ASSUME NEW i \in FirstWrites(u)' PROVE i + 1 \in FirstWrites(u) /\ i + 1 # 1
    BY <1>7, <1>9
  <2> QED
    BY <2>2, <2>3
<1>11. \A u \in Account : Created(u)' = Created(u)
  BY <1>1 DEF Created
<1>12. NoneYet'
  BY <1>1, <1>6, <1>10, <1>11 DEF RecordInv, NoneYet
<1>13. OnePlace'
  <2> SUFFICES ASSUME NEW u \in Account
               PROVE  /\ \A x, y \in Created(u)' : x = y
                      /\ \A i, j \in FirstWrites(u)' : i = j
                      /\ Created(u)' = {} \/ FirstWrites(u)' = {}
                      /\ HasPoints(u)' => Created(u)' = {} /\ FirstWrites(u)' = {}
    BY DEF OnePlace
  <2>1. \A i, j \in FirstWrites(u) : i = j
    BY DEF RecordInv, OnePlace
  <2>2. CASE 1 \in FirstWrites(u)
    <3>1. FirstWrites(u)' = {} /\ Created(u)' = {}
      BY <1>10, <1>11, <2>1, <2>2 DEF RecordInv, OnePlace
    <3> QED
      BY <3>1
  <2>3. CASE 1 \notin FirstWrites(u)
    <3>1. HasPoints(u)' <=> HasPoints(u)
      BY <1>6, <2>3
    <3>2. FirstWrites(u) = {} => FirstWrites(u)' = {}
      BY <1>10
    <3>3. \A i, j \in FirstWrites(u)' : i = j
      <4> SUFFICES ASSUME NEW i \in FirstWrites(u)', NEW j \in FirstWrites(u)' PROVE i = j
        OBVIOUS
      <4>1. i \in DOMAIN outbox' /\ j \in DOMAIN outbox' /\ i + 1 = j + 1
        BY <1>9, <2>1
      <4> QED
        BY <1>2, <4>1
    <3> QED
      BY <1>11, <3>1, <3>2, <3>3 DEF RecordInv, OnePlace
  <2> QED
    BY <2>2, <2>3
<1>14. WholeWrites'
  BY <1>2, <1>7 DEF RecordInv, WholeWrites
<1>15. AccountsHaveRecords'
  <2> SUFFICES ASSUME kills = 0, NEW u \in existing \ CutShort
               PROVE  HasPoints(u)' \/ Created(u)' # {} \/ FirstWrites(u)' # {}
    BY <1>1 DEF AccountsHaveRecords
  <2>1. u \in Account
    BY DEF TypeInv, UsersType
  <2>2. HasPoints(u) \/ Created(u) # {} \/ FirstWrites(u) # {}
    BY DEF RecordInv, AccountsHaveRecords
  <2> QED
    BY <1>6, <1>10, <1>11, <2>1, <2>2
<1> QED
  BY <1>12, <1>13, <1>14, <1>15 DEF RecordInv

LEMMA RecordInvNext ==
  ASSUME TypeInv, RecordInv, [Next]_vars
  PROVE  RecordInv'
<1>1. CASE UNCHANGED <<existing, record, outbox, signups, kills>>
  BY <1>1, RecordsAlone DEF Created
<1>2. ASSUME NEW l \in logins, SignIn(l) \/ SignInFails(l) \/ LoggedIn(l) PROVE RecordInv'
  BY <1>1, <1>2 DEF SignIn, SignInFails, LoggedIn, serverVars
<1>3. ASSUME NEW s \in signups, PhotoUploaded(s) PROVE RecordInv'
  <2>1. /\ s.stage # "created" /\ signups' = At(s, "create")
        /\ UNCHANGED <<existing, record, outbox, kills>>
    BY <1>3 DEF PhotoUploaded, serverVars
  <2>2. \A u \in Account : Created(u)' = Created(u)
    BY <2>1, CreatedAt
  <2> QED
    BY <2>1, <2>2, RecordsAlone
<1>4. ASSUME NEW s \in signups, SignUpFails(s) PROVE RecordInv'
  <2>1. /\ s.stage # "created" /\ signups' = signups \ {s}
        /\ UNCHANGED <<existing, record, outbox, kills>>
    BY <1>4 DEF SignUpFails, serverVars
  <2>2. \A u \in Account : Created(u)' = Created(u)
    BY <2>1 DEF Created
  <2> QED
    BY <2>1, <2>2, RecordsAlone
<1>5. ASSUME NEW s \in signups, CreateAccount(s) \/ AccountCreated(s) PROVE RecordInv'
  BY <1>5, CreateAccountRecords, AccountCreatedRecords
<1>6. ASSUME NEW e \in edits, EditUploaded(e) PROVE RecordInv'
  BY <1>6, EditUploadedRecords
<1>7. ASSUME NEW e \in edits, EditFails(e) PROVE RecordInv'
  BY <1>1, <1>7 DEF EditFails, serverVars
<1>8. CASE ClearFlag
  BY <1>1, <1>8 DEF ClearFlag, serverVars
<1>9. CASE Send
  BY <1>9, SendRecords
<1>10. CASE GetStarted \/ Logout \/ OpenSignUp
  BY <1>1, <1>10 DEF GetStarted, Logout, OpenSignUp, serverVars
<1>11. ASSUME NEW u \in Account, LoginPressed(u) PROVE RecordInv'
  BY <1>1, <1>11 DEF LoginPressed, serverVars
<1>12. ASSUME NEW u \in Account, SignUpPressed(u) PROVE RecordInv'
  <2> DEFINE t == [id |-> taps + 1, who |-> u, stage |-> "upload", attached |-> TRUE]
  <2>1. signups' = signups \cup {t} /\ UNCHANGED <<existing, record, outbox, kills>>
    BY <1>12 DEF SignUpPressed, serverVars
  <2>2. t.stage # "created"
    OBVIOUS
  <2> HIDE DEF t
  <2>3. \A v \in Account : Created(v)' = Created(v)
    BY <2>1, <2>2 DEF Created
  <2> QED
    BY <2>1, <2>3, RecordsAlone
<1>13. CASE CancelSignUp
  <2>1. signups' = Detached(signups) /\ UNCHANGED <<existing, record, outbox, kills>>
    BY <1>13 DEF CancelSignUp, serverVars
  <2>2. \A u \in Account : Created(u)' = Detached(Created(u))
    <3> SUFFICES ASSUME NEW u \in Account PROVE Created(u)' = Detached(Created(u))
      OBVIOUS
    <3>1. Created(u)' = Detached({s \in signups : s.who = u /\ s.stage = "created"})
      BY <2>1, CreatedDetached
    <3> QED
      BY <3>1 DEF Created
  <2> QED
    BY <2>1, <2>2, DetachedCount, RecordsAlone
<1>14. CASE OpenEditor \/ CancelEditor \/ UpdatePressed
  BY <1>1, <1>14 DEF OpenEditor, CancelEditor, UpdatePressed, serverVars
<1>15. CASE Restart
  BY <1>15, RestartRecords
<1>16. CASE UNCHANGED vars
  BY <1>1, <1>16 DEF vars, serverVars
<1> QED
  BY <1>2, <1>3, <1>4, <1>5, <1>6, <1>7, <1>8, <1>9, <1>10, <1>11, <1>12, <1>13, <1>14, <1>15,
     <1>16
  DEF Next, Callback, AuthStep, Answer, Touch, Kill, EditTraps

\* A set whose elements are all the same.
LEMMA AtMostOne ==
  ASSUME NEW S, \A x, y \in S : x = y
  PROVE  Cardinality(S) = IF S = {} THEN 0 ELSE 1
<1>1. CASE S = {}
  BY <1>1, FS_EmptySet
<1>2. CASE S # {}
  <2>1. PICK x : x \in S
    BY <1>2
  <2>2. S = {} \cup {x} /\ x \notin {}
    BY <2>1
  <2> QED
    BY <1>2, <2>2, FS_EmptySet, FS_AddElement
<1> QED
  BY <1>1, <1>2

\* An account has one record, in every order of taps, answers and writes: as
\* long as no process ends it is there or on its way, and points that were
\* earned are never set back to zero.  (SignUpController.submitPressed.)
THEOREM OneRecord == Spec => []OneRecordPerAccount
<1>1. TypeInv /\ RecordInv /\ [Next]_vars => RecordInv'
  BY RecordInvNext
<1>2. RecordInv => OneRecordPerAccount
  <2> SUFFICES ASSUME RecordInv, NEW u \in Account
               PROVE  Cardinality(Created(u)) + Cardinality(FirstWrites(u))
                         + (IF HasPoints(u) THEN 1 ELSE 0) <= 1
    BY DEF OneRecordPerAccount, RecordWrittenOnce, RecordInv
  <2>1. /\ Cardinality(Created(u)) = IF Created(u) = {} THEN 0 ELSE 1
        /\ Cardinality(FirstWrites(u)) = IF FirstWrites(u) = {} THEN 0 ELSE 1
    BY AtMostOne DEF RecordInv, OnePlace
  <2> QED
    BY <2>1 DEF RecordInv, OnePlace
<1> QED
  BY <1>1, <1>2, RecordInvInit, TypeInvHolds, PTL DEF Spec

-----------------------------------------------------------------------------
(* The phone field.  The prover cannot instantiate the induction theorems of   *)
(* the library; a least counterexample does the same for a text, character by  *)
(* character.                                                                  *)

\* A set of numbers has a least element: the way to an induction here.
LEMMA LeastNumber ==
  ASSUME NEW S, S \subseteq Nat, S # {}
  PROVE  \E m \in S : \A n \in S : m <= n
<1>1. IsWellFoundedOn(OpToRel(<, Nat), Nat)
  BY NatLessThanWellFounded
<1>2. PICK x \in S : \A y \in S : ~ (<<y, x>> \in OpToRel(<, Nat))
  BY <1>1, WFMin
<1>3. \A y \in S : ~ (y < x)
  BY <1>2 DEF OpToRel
<1> QED
  BY <1>3

\* A function does what the definition of Digits says, up to the N-th character.
KeepsDigits(f, s, N) ==
    f = [n \in 0 .. N |-> IF n = 0 THEN <<>>
                          ELSE IF s[n] \in Digit THEN Append(f[n - 1], s[n])
                          ELSE f[n - 1]]
UpTo(s) == CHOOSE f : KeepsDigits(f, s, Len(s))

\* The digits of a text are what that function has at its end.
LEMMA DigitsUpTo == \A s : P!Digits(s) = UpTo(s)[Len(s)]
BY DEF P!Digits, UpTo, KeepsDigits

\* There is such a function: otherwise take the least number of characters for
\* which there is none.
LEMMA UpToExists ==
  ASSUME NEW s, Len(s) \in Nat
  PROVE  KeepsDigits(UpTo(s), s, Len(s))
<1> DEFINE Bad == {N \in Nat : ~\E f : KeepsDigits(f, s, N)}
<1>1. ASSUME Bad # {} PROVE FALSE
  <2>1. PICK N \in Bad : \A m \in Bad : N <= m
    <3>1. Bad \subseteq Nat
      OBVIOUS
    <3> HIDE DEF Bad
    <3> QED
      BY <1>1, <3>1, LeastNumber
  <2>2. CASE N = 0
    <3> DEFINE g == [n \in 0 .. 0 |-> <<>>]
    <3>1. KeepsDigits(g, s, 0)
      BY DEF KeepsDigits
    <3> QED
      BY <2>1, <2>2, <3>1
  <2>3. CASE N # 0
    <3>1. N - 1 \in Nat /\ N - 1 \notin Bad
      BY <2>1, <2>3
    <3>2. PICK f : KeepsDigits(f, s, N - 1)
      BY <3>1
    <3> DEFINE last == IF s[N] \in Digit THEN Append(f[N - 1], s[N]) ELSE f[N - 1]
               g == [n \in 0 .. N |-> IF n = N THEN last ELSE f[n]]
               h == [n \in 0 .. N |-> IF n = 0 THEN <<>>
                                      ELSE IF s[n] \in Digit THEN Append(g[n - 1], s[n])
                                      ELSE g[n - 1]]
    <3>3. ASSUME NEW n \in 0 .. N PROVE g[n] = h[n]
      <4>1. CASE n = N
        <5>1. g[n - 1] = f[N - 1]
          BY <3>1, <4>1, <2>3
        <5> QED
          BY <4>1, <5>1, <2>3
      <4>2. CASE n # N
        <5>1. n \in 0 .. N - 1
          BY <4>2
        <5>2. f[n] = IF n = 0 THEN <<>>
                     ELSE IF s[n] \in Digit THEN Append(f[n - 1], s[n]) ELSE f[n - 1]
          BY <3>2, <5>1 DEF KeepsDigits
        <5>3. n # 0 => g[n - 1] = f[n - 1]
          BY <5>1
        <5> QED
          BY <4>2, <5>2, <5>3
      <4> QED
        BY <4>1, <4>2
    <3>4. g = h
      BY <3>3
    <3>5. KeepsDigits(g, s, N)
      BY <3>4 DEF KeepsDigits
    <3> QED
      BY <2>1, <3>5
  <2> QED
    BY <2>2, <2>3
<1>2. \E f : KeepsDigits(f, s, Len(s))
  BY <1>1
<1> QED
  BY <1>2 DEF UpTo

\* What that function is, number by number.
LEMMA UpToStep ==
  ASSUME NEW s, Len(s) \in Nat, NEW n \in 0 .. Len(s)
  PROVE  /\ n = 0 => UpTo(s)[n] = <<>>
         /\ n # 0 => UpTo(s)[n] = IF s[n] \in Digit THEN Append(UpTo(s)[n - 1], s[n])
                                  ELSE UpTo(s)[n - 1]
<1>1. KeepsDigits(UpTo(s), s, Len(s))
  BY UpToExists
<1> QED
  BY <1>1 DEF KeepsDigits

\* Two sequences with a common beginning keep the same digits of it.
LEMMA UpToSame ==
  ASSUME NEW s, NEW t, Len(s) \in Nat, Len(t) \in Nat, NEW k \in Nat,
         k <= Len(s), k <= Len(t), \A i \in 1 .. k : s[i] = t[i]
  PROVE  UpTo(s)[k] = UpTo(t)[k]
<1> DEFINE Bad == {n \in 0 .. k : UpTo(s)[n] # UpTo(t)[n]}
<1>1. ASSUME Bad # {} PROVE FALSE
  <2>1. PICK n \in Bad : \A m \in Bad : n <= m
    <3>1. Bad \subseteq Nat
      OBVIOUS
    <3> HIDE DEF Bad
    <3> QED
      BY <1>1, <3>1, LeastNumber
  <2>2. n # 0
    BY <2>1, UpToStep
  <2>3. UpTo(s)[n - 1] = UpTo(t)[n - 1] /\ s[n] = t[n]
    BY <2>1, <2>2
  <2> QED
    BY <2>1, <2>2, <2>3, UpToStep
<1> QED
  BY <1>1

\* The digits of an empty text.
LEMMA DigitsOfNothing == P!Digits(<<>>) = <<>>
BY DigitsUpTo, UpToStep, Len(<<>>) = 0

\* One more character, and its digit if it is one.
LEMMA DigitsAppend ==
  ASSUME NEW S, NEW s \in Seq(S), NEW c \in S
  PROVE  P!Digits(Append(s, c)) = IF c \in Digit THEN Append(P!Digits(s), c) ELSE P!Digits(s)
<1> DEFINE t == Append(s, c)
<1>1. Len(s) \in Nat /\ Len(t) = Len(s) + 1 /\ t[Len(s) + 1] = c /\ \A i \in 1 .. Len(s) : t[i] = s[i]
  OBVIOUS
<1> HIDE DEF t
<1>2. UpTo(t)[Len(s)] = UpTo(s)[Len(s)]
  BY <1>1, UpToSame
<1>3. UpTo(t)[Len(t)] = IF c \in Digit THEN Append(UpTo(t)[Len(s)], c) ELSE UpTo(t)[Len(s)]
  BY <1>1, UpToStep
<1> QED
  BY <1>1, <1>2, <1>3, DigitsUpTo DEF t

\* What is in front of the n-th character, and the n-th.
LEMMA FrontAppend ==
  ASSUME NEW S, NEW s \in Seq(S), NEW n \in 1 .. Len(s)
  PROVE  /\ SubSeq(s, 1, n) = Append(SubSeq(s, 1, n - 1), s[n])
         /\ SubSeq(s, 1, n) \in Seq(S) /\ SubSeq(s, 1, n - 1) \in Seq(S) /\ s[n] \in S
OBVIOUS

\* Digits are digits.
LEMMA DigitsType ==
  ASSUME NEW S, NEW s \in Seq(S)
  PROVE  P!Digits(s) \in Seq(Digit)
<1> DEFINE F(n) == SubSeq(s, 1, n)
           Bad == {n \in 0 .. Len(s) : P!Digits(F(n)) \notin Seq(Digit)}
<1>1. F(0) = <<>> /\ F(Len(s)) = s
  OBVIOUS
<1>2. \A n \in 1 .. Len(s) : F(n) = Append(F(n - 1), s[n]) /\ F(n - 1) \in Seq(S) /\ s[n] \in S
  BY FrontAppend
<1> HIDE DEF F
<1>3. ASSUME Bad # {} PROVE FALSE
  <2>1. PICK n \in Bad : \A m \in Bad : n <= m
    <3>1. Bad \subseteq Nat
      OBVIOUS
    <3> HIDE DEF Bad
    <3> QED
      BY <1>3, <3>1, LeastNumber
  <2>2. n # 0
    <3>1. P!Digits(F(0)) \in Seq(Digit)
      <4>1. <<>> \in Seq(Digit)
        OBVIOUS
      <4> QED
        BY <1>1, <4>1, DigitsOfNothing
    <3> QED
      BY <2>1, <3>1
  <2>3. P!Digits(F(n - 1)) \in Seq(Digit)
    BY <2>1, <2>2
  <2>4. F(n) = Append(F(n - 1), s[n]) /\ F(n - 1) \in Seq(S) /\ s[n] \in S
    BY <1>2, <2>1, <2>2
  <2>5. P!Digits(F(n)) = IF s[n] \in Digit THEN Append(P!Digits(F(n - 1)), s[n])
                         ELSE P!Digits(F(n - 1))
    BY ONLY <2>4, DigitsAppend
  <2>6. s[n] \in Digit => Append(P!Digits(F(n - 1)), s[n]) \in Seq(Digit)
    BY <2>3
  <2> QED
    BY <2>1, <2>3, <2>5, <2>6
<1>4. P!Digits(F(Len(s))) \in Seq(Digit)
  BY <1>3, Len(s) \in Nat
<1> QED
  BY <1>1, <1>4

\* What is kept of two texts, one behind the other.
LEMMA DigitsConcat ==
  ASSUME NEW S, NEW a \in Seq(S), NEW b \in Seq(S)
  PROVE  P!Digits(a \o b) = P!Digits(a) \o P!Digits(b)
<1> DEFINE F(n) == SubSeq(b, 1, n)
           AF(n) == a \o F(n)
           Bad == {n \in 0 .. Len(b) : P!Digits(AF(n)) # P!Digits(a) \o P!Digits(F(n))}
<1>0. P!Digits(a) \in Seq(Digit)
  BY DigitsType
<1>1. F(0) = <<>> /\ F(Len(b)) = b /\ AF(0) = a /\ AF(Len(b)) = a \o b
  OBVIOUS
<1>2. ASSUME NEW n \in 1 .. Len(b)
      PROVE  /\ F(n) = Append(F(n - 1), b[n]) /\ F(n - 1) \in Seq(S) /\ b[n] \in S
             /\ AF(n) = Append(AF(n - 1), b[n]) /\ AF(n - 1) \in Seq(S)
  <2>1. F(n) = Append(F(n - 1), b[n]) /\ F(n - 1) \in Seq(S) /\ b[n] \in S
    BY FrontAppend
  <2> HIDE DEF F
  <2> QED
    BY <2>1
<1> HIDE DEF F, AF
<1>3. ASSUME Bad # {} PROVE FALSE
  <2>1. PICK n \in Bad : \A m \in Bad : n <= m
    <3>1. Bad \subseteq Nat
      OBVIOUS
    <3> HIDE DEF Bad
    <3> QED
      BY <1>3, <3>1, LeastNumber
  <2>2. n # 0
    <3>1. P!Digits(a) \o <<>> = P!Digits(a)
      BY <1>0
    <3> QED
      BY <1>1, <2>1, <3>1, DigitsOfNothing
  <2>3. P!Digits(AF(n - 1)) = P!Digits(a) \o P!Digits(F(n - 1))
    BY <2>1, <2>2
  <2>4. n \in 1 .. Len(b)
    BY <2>1, <2>2
  <2>5. P!Digits(F(n - 1)) \in Seq(Digit)
    BY <1>2, <2>4, DigitsType
  <2>6. P!Digits(AF(n)) = IF b[n] \in Digit THEN Append(P!Digits(AF(n - 1)), b[n])
                          ELSE P!Digits(AF(n - 1))
    BY <1>2, <2>4, DigitsAppend
  <2>7. F(n) = Append(F(n - 1), b[n]) /\ F(n - 1) \in Seq(S) /\ b[n] \in S
    BY <1>2, <2>4
  <2>8. P!Digits(F(n)) = IF b[n] \in Digit THEN Append(P!Digits(F(n - 1)), b[n])
                         ELSE P!Digits(F(n - 1))
    <3>1. \A x \in Seq(S) : \A c \in S :
            P!Digits(Append(x, c)) = IF c \in Digit THEN Append(P!Digits(x), c) ELSE P!Digits(x)
      BY DigitsAppend
    <3> QED
      BY ONLY <2>7, <3>1
  <2>9. ASSUME b[n] \in Digit
        PROVE  P!Digits(a) \o Append(P!Digits(F(n - 1)), b[n])
                 = Append(P!Digits(a) \o P!Digits(F(n - 1)), b[n])
    BY <1>0, <2>5, <2>9
  <2> QED
    BY <2>1, <2>3, <2>6, <2>8, <2>9
<1>4. P!Digits(AF(Len(b))) = P!Digits(a) \o P!Digits(F(Len(b)))
  BY <1>3, Len(b) \in Nat
<1> QED
  BY <1>1, <1>4

\* Nothing is taken from a text of digits.
LEMMA DigitsOfDigits ==
  ASSUME NEW s \in Seq(Digit)
  PROVE  P!Digits(s) = s
<1> DEFINE F(n) == SubSeq(s, 1, n)
           Bad == {n \in 0 .. Len(s) : P!Digits(F(n)) # F(n)}
<1>1. F(0) = <<>> /\ F(Len(s)) = s
  OBVIOUS
<1>2. \A n \in 1 .. Len(s) : F(n) = Append(F(n - 1), s[n]) /\ F(n - 1) \in Seq(Digit) /\ s[n] \in Digit
  BY FrontAppend
<1> HIDE DEF F
<1>3. ASSUME Bad # {} PROVE FALSE
  <2>1. PICK n \in Bad : \A m \in Bad : n <= m
    <3>1. Bad \subseteq Nat
      OBVIOUS
    <3> HIDE DEF Bad
    <3> QED
      BY <1>3, <3>1, LeastNumber
  <2>2. n # 0
    BY <1>1, <2>1, DigitsOfNothing
  <2>3. P!Digits(F(n - 1)) = F(n - 1)
    BY <2>1, <2>2
  <2>4. F(n) = Append(F(n - 1), s[n]) /\ F(n - 1) \in Seq(Digit) /\ s[n] \in Digit
    BY <1>2, <2>1, <2>2
  <2>5. P!Digits(F(n)) = Append(P!Digits(F(n - 1)), s[n])
    BY ONLY <2>4, DigitsAppend
  <2> QED
    BY <2>1, <2>3, <2>4, <2>5
<1>4. P!Digits(F(Len(s))) = F(Len(s))
  BY <1>3, Len(s) \in Nat
<1> QED
  BY <1>1, <1>4

-----------------------------------------------------------------------------

\* The digits of a part of a text are some of the digits.
LEMMA DigitsOfLess ==
  ASSUME NEW S, NEW a \in Seq(S), NEW b \in Seq(S), NEW c \in Seq(S)
  PROVE  /\ P!Digits(a \o b \o c) = P!Digits(a) \o P!Digits(b) \o P!Digits(c)
         /\ Len(P!Digits(a \o c)) <= Len(P!Digits(a \o b \o c))
<1>1. a \o b \in Seq(S)
  OBVIOUS
<1>2. P!Digits(a \o b \o c) = P!Digits(a) \o P!Digits(b) \o P!Digits(c)
  <2>1. P!Digits((a \o b) \o c) = P!Digits(a \o b) \o P!Digits(c)
    BY <1>1, DigitsConcat
  <2> QED
    BY <2>1, DigitsConcat
<1>3. P!Digits(a \o c) = P!Digits(a) \o P!Digits(c)
  BY DigitsConcat
<1>4. P!Digits(a) \in Seq(Digit) /\ P!Digits(b) \in Seq(Digit) /\ P!Digits(c) \in Seq(Digit)
  BY DigitsType
<1>5. \A x, y, z \in Seq(Digit) : Len(x \o z) <= Len(x \o y \o z)
  OBVIOUS
<1> QED
  BY <1>2, <1>3, <1>4, <1>5

-----------------------------------------------------------------------------
(* The mask. *)

\* What the field may show: digits and separators.
Shows == Digit \cup P!Separator

\* The digits between two positions of a number, which may end in between.
Piece(num, a, b) == SubSeq(num, a, IF b < Len(num) THEN b ELSE Len(num))

\* A piece of a number is a number.
LEMMA PieceType ==
  ASSUME NEW num \in Seq(Digit), NEW a \in Nat \ {0}, NEW b \in Nat
  PROVE  Piece(num, a, b) \in Seq(Digit)
<1>1. \A k \in Nat : k <= Len(num) => SubSeq(num, a, k) \in Seq(Digit)
  OBVIOUS
<1>2. (IF b < Len(num) THEN b ELSE Len(num)) \in 0 .. Len(num)
  OBVIOUS
<1> QED
  BY <1>1, <1>2 DEF Piece

\* Separators are no digits.
LEMMA SeparatorsApart ==
  /\ \A c \in P!Separator : c \notin Digit /\ c \in Shows
  /\ Digit \subseteq Shows /\ Shows \subseteq P!Char
BY MCPhoneAssumption DEF P!PhoneAssumption, Shows, P!Char

\* What the field may show, character by character and piece by piece.
LEMMA ShowsBuilt ==
  /\ <<>> \in Seq(Shows)
  /\ \A s \in Seq(Shows) : \A c \in Shows :
       /\ Append(s, c) \in Seq(Shows)
       /\ P!Digits(Append(s, c)) = IF c \in Digit THEN Append(P!Digits(s), c) ELSE P!Digits(s)
  /\ \A s, t \in Seq(Shows) :
       s \o t \in Seq(Shows) /\ P!Digits(s \o t) = P!Digits(s) \o P!Digits(t)
<1>1. <<>> \in Seq(Shows)
  OBVIOUS
<1>2. \A s \in Seq(Shows) : \A c \in Shows : Append(s, c) \in Seq(Shows)
  OBVIOUS
<1>3. \A s, t \in Seq(Shows) : s \o t \in Seq(Shows)
  OBVIOUS
<1> QED
  BY <1>1, <1>2, <1>3, DigitsAppend, DigitsConcat

\* The digits of what the mask is made of.
LEMMA DigitsOfHead ==
  ASSUME NEW d \in Digit
  PROVE  <<"+", d, "(">> \in Seq(Shows) /\ P!Digits(<<"+", d, "(">>) = <<d>>
<1>1. "+" \in Shows /\ "(" \in Shows /\ d \in Shows /\ "+" \notin Digit /\ "(" \notin Digit
  BY SeparatorsApart DEF P!Separator
<1> DEFINE s == <<"+", d, "(">>
<1>2. s \in Seq(Shows) /\ Len(s) = 3 /\ s[1] = "+" /\ s[2] = d /\ s[3] = "("
  BY <1>1
<1> HIDE DEF s
<1>3. UpTo(s)[0] = <<>>
  BY <1>2, UpToStep
<1>4. UpTo(s)[1] = UpTo(s)[0]
  BY <1>1, <1>2, UpToStep
<1>5. UpTo(s)[2] = Append(UpTo(s)[1], d)
  <2>1. 2 \in 0 .. Len(s) /\ 2 # 0 /\ 2 - 1 = 1 /\ Len(s) \in Nat /\ s[2] \in Digit
    BY <1>2
  <2> QED
    BY ONLY <1>2, <2>1, UpToStep
<1>6. UpTo(s)[3] = UpTo(s)[2]
  BY <1>1, <1>2, UpToStep
<1>7. Append(<<>>, d) = <<d>>
  OBVIOUS
<1>8. P!Digits(s) = <<d>>
  BY <1>2, <1>3, <1>4, <1>5, <1>6, <1>7, DigitsUpTo
<1> QED
  BY <1>2, <1>8 DEF s

\* One separator or two have no digits.
LEMMA NoDigits ==
  ASSUME NEW c \in Shows \ Digit, NEW e \in Shows \ Digit
  PROVE  /\ <<c>> \in Seq(Shows) /\ P!Digits(<<c>>) = <<>>
         /\ <<c, e>> \in Seq(Shows) /\ P!Digits(<<c, e>>) = <<>>
<1>1. <<c>> \in Seq(Shows) /\ <<c, e>> \in Seq(Shows)
  OBVIOUS
<1>2. P!Digits(<<c>>) = <<>>
  <2> DEFINE s == <<c>>
  <2>1. Len(s) = 1 /\ s[1] = c
    OBVIOUS
  <2> HIDE DEF s
  <2>2. UpTo(s)[0] = <<>>
    BY <2>1, UpToStep
  <2>3. UpTo(s)[1] = UpTo(s)[0]
    BY <2>1, UpToStep
  <2>4. P!Digits(s) = <<>>
    BY <2>1, <2>2, <2>3, DigitsUpTo
  <2> QED
    BY <2>4 DEF s
<1>3. P!Digits(<<c, e>>) = <<>>
  <2> DEFINE s == <<c, e>>
  <2>1. Len(s) = 2 /\ s[1] = c /\ s[2] = e
    OBVIOUS
  <2> HIDE DEF s
  <2>2. UpTo(s)[0] = <<>>
    BY <2>1, UpToStep
  <2>3. UpTo(s)[1] = UpTo(s)[0]
    BY <2>1, UpToStep
  <2>4. UpTo(s)[2] = UpTo(s)[1]
    BY <2>1, UpToStep
  <2>5. P!Digits(s) = <<>>
    BY <2>1, <2>2, <2>3, <2>4, DigitsUpTo
  <2> QED
    BY <2>5 DEF s
<1> QED
  BY <1>1, <1>2, <1>3

\* The separators of the mask.
LEMMA DigitsOfSeparators ==
  /\ <<")", " ">> \in Seq(Shows) /\ P!Digits(<<")", " ">>) = <<>>
  /\ <<"-">> \in Seq(Shows) /\ P!Digits(<<"-">>) = <<>>
  /\ <<"+">> \in Seq(Shows) /\ P!Digits(<<"+">>) = <<>>
<1>1. \A c \in {")", " ", "-", "+"} : c \in Shows \ Digit
  BY SeparatorsApart DEF P!Separator
<1> QED
  BY <1>1, NoDigits

\* The mask is made of digits and of separators, and the digits are the number.
LEMMA MaskKeeps ==
  ASSUME NEW num \in Seq(Digit)
  PROVE  P!Mask(num) \in Seq(Shows) /\ P!Digits(P!Mask(num)) = num
<1> DEFINE n == Len(num)
           m1 == IF n > 0 THEN <<"+", num[1], "(">> ELSE <<>>
           m2 == IF n > 1 THEN Piece(num, 2, 4) ELSE <<>>
           m3 == IF n >= 4 THEN <<")", " ">> ELSE <<>>
           m4 == IF n > 4 THEN Piece(num, 5, 7) ELSE <<>>
           m5 == IF n >= 7 THEN <<"-">> ELSE <<>>
           m6 == IF n > 7 THEN Piece(num, 8, n) ELSE <<>>
           d1 == IF n > 0 THEN <<num[1]>> ELSE <<>>
<1>1. P!Mask(num) = m1 \o m2 \o m3 \o m4 \o m5 \o m6
  BY DEF P!Mask, Piece
<1>2. <<>> \in Seq(Digit) /\ <<>> \in Seq(Shows)
  OBVIOUS
<1>3. m1 \in Seq(Shows) /\ P!Digits(m1) = d1
  <2>1. n > 0 => num[1] \in Digit
    OBVIOUS
  <2> QED
    BY <1>2, <2>1, DigitsOfHead, DigitsOfNothing
<1>4. m2 \in Seq(Digit) /\ m4 \in Seq(Digit) /\ m6 \in Seq(Digit) /\ n \in Nat
  <2>1. n \in Nat
    OBVIOUS
  <2>2. /\ Piece(num, 2, 4) \in Seq(Digit) /\ Piece(num, 5, 7) \in Seq(Digit)
        /\ Piece(num, 8, n) \in Seq(Digit)
    <3> HIDE DEF n
    <3>1. Piece(num, 2, 4) \in Seq(Digit)
      BY PieceType, 2 \in Nat \ {0}, 4 \in Nat
    <3>2. Piece(num, 5, 7) \in Seq(Digit)
      BY PieceType, 5 \in Nat \ {0}, 7 \in Nat
    <3>3. Piece(num, 8, n) \in Seq(Digit)
      BY <2>1, PieceType, 8 \in Nat \ {0}
    <3> QED
      BY <3>1, <3>2, <3>3
  <2> QED
    BY <1>2, <2>1, <2>2
<1>5. /\ m3 \in Seq(Shows) /\ P!Digits(m3) = <<>>
      /\ m5 \in Seq(Shows) /\ P!Digits(m5) = <<>>
  BY <1>2, DigitsOfSeparators, DigitsOfNothing
<1>6. d1 \o m2 \o m4 \o m6 = num
  <2>1. CASE n = 0
    BY <2>1
  <2>2. CASE n = 1
    BY <2>2
  <2>3. CASE n > 1
    <3> DEFINE b == IF 4 < n THEN 4 ELSE n
               c == IF 7 < n THEN 7 ELSE n
    <3>1. b \in 1 .. n /\ c \in b .. n /\ n \in Nat
      BY <1>4, <2>3
    <3>2. d1 = SubSeq(num, 1, 1)
      BY <2>3
    <3>3. m2 = SubSeq(num, 2, b)
      BY <2>3 DEF Piece
    <3>4. m4 = SubSeq(num, b + 1, c)
      <4>1. CASE n > 4
        BY <4>1 DEF Piece
      <4>2. CASE ~ n > 4
        <5>1. b + 1 > c /\ b \in Nat /\ c \in Nat
          BY <3>1, <4>2
        <5> HIDE DEF b, c
        <5>2. SubSeq(num, b + 1, c) = <<>>
          BY <5>1, SubSeqEmpty
        <5> QED
          BY <4>2, <5>2
      <4> QED
        BY <4>1, <4>2
    <3>5. m6 = SubSeq(num, c + 1, n)
      <4>1. CASE n > 7
        BY <4>1 DEF Piece
      <4>2. CASE ~ n > 7
        <5>1. c + 1 > n /\ n \in Nat /\ c \in Nat
          BY <3>1, <4>2
        <5> HIDE DEF c, n
        <5>2. SubSeq(num, c + 1, n) = <<>>
          BY <5>1, SubSeqEmpty
        <5> QED
          BY <4>2, <5>2
      <4> QED
        BY <4>1, <4>2
    <3> HIDE DEF b, c, d1, m2, m4, m6
    <3>6. d1 \o m2 = SubSeq(num, 1, b)
      BY <3>1, <3>2, <3>3, ConcatAdjacentSubSeq
    <3>7. d1 \o m2 \o m4 = SubSeq(num, 1, c)
      BY <3>1, <3>4, <3>6, ConcatAdjacentSubSeq
    <3>8. d1 \o m2 \o m4 \o m6 = SubSeq(num, 1, n)
      <4>1. 1 \in 1 .. n + 1 /\ c \in 1 - 1 .. n /\ n \in c .. n
        BY <3>1
      <4>2. SubSeq(num, 1, c) \o SubSeq(num, c + 1, n) = SubSeq(num, 1, n)
        BY ONLY <4>1, num \in Seq(Digit), ConcatAdjacentSubSeq DEF n
      <4> QED
        BY <3>5, <3>7, <4>2
    <3> QED
      BY <3>8, SubSeqFull
  <2>4. n = 0 \/ n = 1 \/ n > 1
    BY <1>4
  <2> QED
    BY ONLY <2>1, <2>2, <2>3, <2>4
<1>7. d1 \in Seq(Digit)
  OBVIOUS
<1> HIDE DEF m1, m2, m3, m4, m5, m6, d1, n
<1>8. \A s \in Seq(Digit) : s \in Seq(Shows)
  BY SeparatorsApart
<1>9. /\ m2 \in Seq(Shows) /\ P!Digits(m2) = m2
      /\ m4 \in Seq(Shows) /\ P!Digits(m4) = m4
      /\ m6 \in Seq(Shows) /\ P!Digits(m6) = m6
  BY <1>4, <1>8, DigitsOfDigits
<1> DEFINE k2 == m1 \o m2
           k3 == k2 \o m3
           k4 == k3 \o m4
           k5 == k4 \o m5
           k6 == k5 \o m6
<1>10. ASSUME NEW s \in Seq(Shows), NEW t \in Seq(Shows)
       PROVE  s \o t \in Seq(Shows) /\ P!Digits(s \o t) = P!Digits(s) \o P!Digits(t)
  BY ShowsBuilt
<1>11. k2 \in Seq(Shows) /\ P!Digits(k2) = d1 \o m2
  <2>1. k2 \in Seq(Shows) /\ P!Digits(k2) = P!Digits(m1) \o P!Digits(m2)
    BY <1>3, <1>9, <1>10
  <2> QED
    BY <1>3, <1>9, <2>1
<1>12. k3 \in Seq(Shows) /\ P!Digits(k3) = d1 \o m2
  <2>1. k3 \in Seq(Shows) /\ P!Digits(k3) = P!Digits(k2) \o P!Digits(m3)
    BY <1>5, <1>11, <1>10
  <2>2. (d1 \o m2) \o <<>> = d1 \o m2
    BY <1>4, <1>7
  <2> QED
    BY <1>5, <1>11, <2>1, <2>2
<1>13. k4 \in Seq(Shows) /\ P!Digits(k4) = d1 \o m2 \o m4
  <2>1. k4 \in Seq(Shows) /\ P!Digits(k4) = P!Digits(k3) \o P!Digits(m4)
    BY <1>9, <1>12, <1>10
  <2> QED
    BY <1>9, <1>12, <2>1
<1>14. k5 \in Seq(Shows) /\ P!Digits(k5) = d1 \o m2 \o m4
  <2>1. k5 \in Seq(Shows) /\ P!Digits(k5) = P!Digits(k4) \o P!Digits(m5)
    BY <1>5, <1>13, <1>10
  <2>2. (d1 \o m2 \o m4) \o <<>> = d1 \o m2 \o m4
    BY <1>4, <1>7
  <2> QED
    BY <1>5, <1>13, <2>1, <2>2
<1>15. k6 \in Seq(Shows) /\ P!Digits(k6) = d1 \o m2 \o m4 \o m6
  <2>1. k6 \in Seq(Shows) /\ P!Digits(k6) = P!Digits(k5) \o P!Digits(m6)
    BY <1>9, <1>14, <1>10
  <2> QED
    BY <1>9, <1>14, <2>1
<1>16. P!Mask(num) = k6
  BY <1>1
<1> QED
  BY <1>6, <1>15, <1>16

-----------------------------------------------------------------------------
(* Edits. *)

\* What is typed and pasted is a text.
LEMMA InputType ==
  ASSUME NEW s \in P!Input
  PROVE  s \in Seq(P!Char)
<1>1. <<>> \in Seq(P!Char)
  OBVIOUS
<1>2. "+" \in P!Char /\ Digit \subseteq P!Char
  BY DEF P!Char, P!Separator
<1>3. <<"+">> \in Seq(P!Char) /\ \A d \in Digit : <<d>> \in Seq(P!Char)
  BY <1>2
<1>4. Pastes \subseteq Seq(P!Char)
  BY MCPhoneAssumption DEF P!PhoneAssumption
<1> QED
  BY <1>1, <1>3, <1>4 DEF P!Input

\* The text in front of a range, and behind it.
LEMMA Around ==
  ASSUME NEW S, text \in Seq(S), NEW i \in P!From(0), NEW j \in P!From(i)
  PROVE  LET front == SubSeq(text, 1, i)
             back == SubSeq(text, j + 1, Len(text))
         IN  /\ front \in Seq(S) /\ back \in Seq(S)
             /\ Len(front) + Len(back) = Len(text) - (j - i)
             /\ i \in Nat /\ j \in Nat /\ i <= j /\ j <= Len(text) /\ Len(text) \in Nat
             /\ text = front \o SubSeq(text, i + 1, j) \o back
             /\ SubSeq(text, i + 1, j) \in Seq(S)
<1>1. i \in Nat /\ j \in Nat /\ i <= j /\ j <= Len(text) /\ Len(text) \in Nat
  BY DEF P!From
<1> DEFINE a == SubSeq(text, 1, i)
           b == SubSeq(text, i + 1, j)
           c == SubSeq(text, j + 1, Len(text))
<1>2. a \in Seq(S) /\ b \in Seq(S) /\ c \in Seq(S)
  BY <1>1
<1>3. Len(a) = i /\ Len(c) = Len(text) - j
  BY <1>1
<1>4. text = a \o b \o c
  <2>1. a \o b = SubSeq(text, 1, j)
    BY <1>1, ConcatAdjacentSubSeq
  <2>2. SubSeq(text, 1, j) \o c = SubSeq(text, 1, Len(text))
    <3>1. 1 \in 1 .. Len(text) + 1 /\ j \in 1 - 1 .. Len(text) /\ Len(text) \in j .. Len(text)
      BY <1>1
    <3> QED
      BY ONLY <3>1, text \in Seq(S), ConcatAdjacentSubSeq
  <2>3. SubSeq(text, 1, Len(text)) = text
    BY SubSeqFull
  <2> QED
    BY <2>1, <2>2, <2>3
<1>5. Len(a) + Len(c) = Len(text) - (j - i)
  <2> HIDE DEF a, c
  <2> QED
    BY <1>1, <1>3
<1> QED
  BY ONLY <1>1, <1>2, <1>4, <1>5

\* The text that UIKit asks about.
LEMMA ReplacedFacts ==
  ASSUME NEW S, text \in Seq(S), NEW i \in P!From(0), NEW j \in P!From(i), NEW s \in Seq(S)
  PROVE  /\ P!Replaced(i, j, s) \in Seq(S)
         /\ Len(P!Replaced(i, j, s)) = Len(text) - (j - i) + Len(s)
         /\ i \in Nat /\ j \in Nat /\ i <= j /\ j <= Len(text) /\ Len(text) \in Nat
         /\ s = <<>> => Len(P!Digits(P!Replaced(i, j, s))) <= Len(P!Digits(text))
<1> DEFINE a == SubSeq(text, 1, i)
           b == SubSeq(text, i + 1, j)
           c == SubSeq(text, j + 1, Len(text))
<1>1. /\ a \in Seq(S) /\ b \in Seq(S) /\ c \in Seq(S)
      /\ Len(a) + Len(c) = Len(text) - (j - i)
      /\ i \in Nat /\ j \in Nat /\ i <= j /\ j <= Len(text) /\ Len(text) \in Nat
      /\ text = a \o b \o c
  BY Around
<1>2. P!Replaced(i, j, s) = a \o s \o c
  BY DEF P!Replaced
<1> HIDE DEF a, b, c
<1>3. a \o s \o c \in Seq(S) /\ Len(a \o s \o c) = Len(a) + Len(c) + Len(s)
  BY <1>1
<1>4. ASSUME s = <<>> PROVE Len(P!Digits(P!Replaced(i, j, s))) <= Len(P!Digits(text))
  <2>1. a \o s \o c = a \o c
    BY <1>1, <1>4
  <2> QED
    BY <1>1, <1>2, <2>1, DigitsOfLess
<1> QED
  BY <1>1, <1>2, <1>3, <1>4

\* A text that is masked has the digits that it should have, at most eleven.
LEMMA ExtendedFacts ==
  ASSUME text \in Seq(P!Char), NEW new \in Seq(P!Char)
  PROVE  /\ P!Extended(new) = text \/ P!Extended(new) \in Seq(Shows)
         /\ P!Extended(new) = text \/ /\ P!Digits(P!Extended(new)) = P!Digits(new)
                                      /\ Len(P!Digits(new)) <= P!MaxCharInPhone
<1> DEFINE num == P!Digits(new)
<1>1. num \in Seq(Digit) /\ Len(num) \in Nat
  BY DigitsType
<1>2. CASE Len(num) > P!MaxCharInPhone
  BY <1>2 DEF P!Extended
<1>3. CASE ~ (Len(num) > P!MaxCharInPhone) /\ new = <<"+">>
  <2>1. P!Extended(new) = new
    BY <1>3 DEF P!Extended
  <2>2. Len(num) <= P!MaxCharInPhone
    BY <1>1, <1>3 DEF P!MaxCharInPhone
  <2>3. new \in Seq(Shows)
    BY <1>3, DigitsOfSeparators
  <2> QED
    BY <2>1, <2>2, <2>3
<1>4. CASE ~ (Len(num) > P!MaxCharInPhone) /\ new # <<"+">>
  <2>1. P!Extended(new) = P!Mask(num)
    BY <1>4 DEF P!Extended
  <2>2. Len(num) <= P!MaxCharInPhone
    BY <1>1, <1>4 DEF P!MaxCharInPhone
  <2> HIDE DEF num
  <2>3. P!Mask(num) \in Seq(Shows) /\ P!Digits(P!Mask(num)) = num
    BY <1>1, MaskKeeps
  <2> USE DEF num
  <2> QED
    BY <2>1, <2>2, <2>3
<1> QED
  BY <1>2, <1>3, <1>4

\* The invariant: the types, and the number of digits.
PhoneInv == P!TypeOK /\ P!ElevenDigits

\* The text after an edit, which the field shows, and DigitsStay for one edit.
LEMMA EditedFacts ==
  ASSUME PhoneInv, NEW i \in P!From(0), NEW j \in P!From(i), NEW s \in P!Input
  PROVE  LET new == P!Replaced(i, j, s)
             next == P!Edited(i, j, s)
         IN  /\ new \in Seq(P!Char) /\ next \in Seq(P!Char)
             /\ P!Digits(next) \in {P!Digits(text), <<>>, P!Digits(new)}
             /\ Len(new) < Len(text) =>
                  next = P!Shortened(new) /\ Len(next) <= Len(new)
             /\ ~ (Len(new) < Len(text) /\ s # <<>>) =>
                  /\ text \in Seq(Shows) => next \in Seq(Shows)
                  /\ Len(P!Digits(text)) <= P!MaxCharInPhone =>
                       Len(P!Digits(next)) <= P!MaxCharInPhone
<1> DEFINE new == P!Replaced(i, j, s)
           next == P!Edited(i, j, s)
<1>1. text \in Seq(P!Char)
  BY DEF PhoneInv, P!TypeOK
<1>2. s \in Seq(P!Char)
  BY InputType
<1>3. /\ new \in Seq(P!Char) /\ Len(new) \in Nat /\ Len(text) \in Nat
      /\ s = <<>> => Len(P!Digits(new)) <= Len(P!Digits(text))
  BY <1>1, <1>2, ReplacedFacts
<1>4. s = <<>> /\ text \in Seq(Shows) => new \in Seq(Shows)
  <2>1. ASSUME s = <<>>, text \in Seq(Shows) PROVE new \in Seq(Shows)
    <3>1. s \in Seq(Shows)
      BY <2>1
    <3> QED
      BY <2>1, <3>1, ReplacedFacts
  <2> QED
    BY <2>1
<1>5. next = IF Len(new) < Len(text) THEN P!Shortened(new) ELSE P!Extended(new)
  BY DEF P!Edited
<1>6. \A t \in Seq(P!Char) : Len(P!Digits(t)) \in Nat
  BY DigitsType
<1> HIDE DEF new, next
<1>7. CASE Len(new) < Len(text)
  <2>1. next = IF Len(new) <= 2 THEN <<>> ELSE new
    BY <1>5, <1>7 DEF P!Shortened
  <2>2. <<>> \in Seq(P!Char) /\ <<>> \in Seq(Shows) /\ Len(<<>>) = 0
    OBVIOUS
  <2>3. P!Digits(<<>>) = <<>>
    BY DigitsOfNothing
  <2>4. CASE Len(new) <= 2
    <3>1. next = <<>>
      BY <2>1, <2>4
    <3> QED
      BY <1>3, <1>5, <1>7, <2>2, <2>3, <3>1 DEF new, next, P!MaxCharInPhone
  <2>5. CASE ~ (Len(new) <= 2)
    <3>1. next = new
      BY <2>1, <2>5
    <3>2. s = <<>> => /\ text \in Seq(Shows) => next \in Seq(Shows)
                      /\ Len(P!Digits(text)) <= P!MaxCharInPhone =>
                           Len(P!Digits(next)) <= P!MaxCharInPhone
      BY <1>1, <1>3, <1>4, <1>6, <3>1 DEF P!MaxCharInPhone
    <3> QED
      BY <1>3, <1>5, <1>7, <3>1, <3>2 DEF new, next
  <2> QED
    BY <2>4, <2>5
<1>8. CASE ~ (Len(new) < Len(text))
  <2>1. next = P!Extended(new)
    BY <1>5, <1>8
  <2>2. /\ next = text \/ next \in Seq(Shows)
        /\ next = text \/ /\ P!Digits(next) = P!Digits(new)
                          /\ Len(P!Digits(new)) <= P!MaxCharInPhone
    BY <1>1, <1>3, <2>1, ExtendedFacts
  <2>3. next \in Seq(Shows) => next \in Seq(P!Char)
    BY SeparatorsApart
  <2> QED
    BY <1>1, <1>3, <1>8, <2>2, <2>3 DEF new, next
<1> QED
  BY <1>7, <1>8

\* The country code that the field starts with.
LEMMA DigitsOfPrefix ==
  ASSUME NEW d \in Digit, NEW a \in Shows \ Digit, NEW b \in Shows \ Digit, NEW c \in Shows \ Digit
  PROVE  <<a, d, b, c>> \in Seq(Shows) /\ P!Digits(<<a, d, b, c>>) = Append(<<>>, d)
<1> DEFINE s == <<a, d, b, c>>
<1>1. d \in Shows
  BY SeparatorsApart
<1>2. s \in Seq(Shows)
  BY <1>1
<1>3. Len(s) = 4 /\ s[1] = a /\ s[2] = d /\ s[3] = b /\ s[4] = c
  OBVIOUS
<1> HIDE DEF s
<1>4. UpTo(s)[0] = <<>>
  BY <1>3, UpToStep
<1>5. UpTo(s)[1] = UpTo(s)[0]
  BY <1>3, UpToStep
<1>6. UpTo(s)[2] = Append(UpTo(s)[1], d)
  <2>1. 2 \in 0 .. Len(s) /\ 2 # 0 /\ 2 - 1 = 1 /\ Len(s) \in Nat /\ s[2] \in Digit
    BY <1>3
  <2> QED
    BY ONLY <1>3, <2>1, UpToStep
<1>7. UpTo(s)[3] = UpTo(s)[2]
  <2>1. 3 \in 0 .. Len(s) /\ 3 # 0 /\ 3 - 1 = 2 /\ Len(s) \in Nat /\ s[3] \notin Digit
    BY <1>3
  <2> QED
    BY ONLY <1>3, <2>1, UpToStep
<1>8. UpTo(s)[4] = UpTo(s)[3]
  <2>1. 4 \in 0 .. Len(s) /\ 4 # 0 /\ 4 - 1 = 3 /\ Len(s) \in Nat /\ s[4] \notin Digit
    BY <1>3
  <2> QED
    BY ONLY <1>3, <2>1, UpToStep
<1>9. P!Digits(s) = Append(<<>>, d)
  BY <1>3, <1>4, <1>5, <1>6, <1>7, <1>8, DigitsUpTo
<1> QED
  BY <1>2, <1>9 DEF s

\* An empty field.
LEMMA PhoneInit ==
  ASSUME P!Init
  PROVE  PhoneInv
<1>1. text = <<>> /\ focused = FALSE /\ squeezed = FALSE /\ typings = 0
  BY DEF P!Init
<1>2. <<>> \in Seq(P!Char) /\ <<>> \in Seq(Digit \cup P!Separator)
  OBVIOUS
<1>3. typings \in 0 .. MaxEdits
  BY <1>1, MCPhoneAssumption DEF P!PhoneAssumption
<1>4. Len(P!Digits(text)) = 0
  BY <1>1, DigitsOfNothing
<1>5. text \in Seq(P!Char) /\ text \in Seq(Digit \cup P!Separator)
  BY <1>1, <1>2
<1>6. focused \in BOOLEAN /\ squeezed \in BOOLEAN
  BY <1>1
<1> QED
  BY ONLY <1>3, <1>4, <1>5, <1>6 DEF PhoneInv, P!TypeOK, P!ElevenDigits, P!MaxCharInPhone

\* A step of the field keeps its invariant.
LEMMA PhoneStep ==
  ASSUME PhoneInv, P!Next
  PROVE  PhoneInv'
<1> USE DEF PhoneInv, P!TypeOK
<1>1. CASE P!BeginEditing
  <2>1. UNCHANGED <<squeezed, typings>> /\ focused' = TRUE
    BY <1>1 DEF P!BeginEditing
  <2>2. CASE text # <<>>
    <3>1. text' = text
      BY <1>1, <2>2 DEF P!BeginEditing
    <3> QED
      BY <2>1, <3>1 DEF P!ElevenDigits
  <2>3. CASE text = <<>>
    <3> DEFINE t == <<"+", Country, " ", "(">>
    <3>1. text' = t
      BY <1>1, <2>3 DEF P!BeginEditing
    <3>2. /\ Country \in Digit
          /\ "+" \in Shows \ Digit /\ " " \in Shows \ Digit /\ "(" \in Shows \ Digit
      BY MCPhoneAssumption, SeparatorsApart DEF P!PhoneAssumption, P!Separator
    <3>3. t \in Seq(Shows) /\ P!Digits(t) = Append(<<>>, Country)
      BY <3>2, DigitsOfPrefix
    <3> HIDE DEF t
    <3>4. Len(P!Digits(text')) <= P!MaxCharInPhone
      BY <3>1, <3>3, Len(Append(<<>>, Country)) = 1 DEF P!MaxCharInPhone
    <3>5. text' \in Seq(P!Char) /\ text' \in Seq(Digit \cup P!Separator)
      <4>1. \A s \in Seq(Shows) : s \in Seq(P!Char)
        BY SeparatorsApart
      <4> QED
        BY <3>1, <3>3, <4>1 DEF Shows
    <3> QED
      BY <2>1, <3>4, <3>5 DEF P!ElevenDigits
  <2> QED
    BY <2>2, <2>3
<1>2. CASE P!EndEditing
  BY <1>2 DEF P!EndEditing, P!ElevenDigits
<1>3. ASSUME NEW i \in P!From(0), NEW j \in P!From(i), NEW s \in P!Input, P!Edit(i, j, s)
      PROVE  PhoneInv'
  <2> DEFINE new == P!Replaced(i, j, s)
             next == P!Edited(i, j, s)
  <2>1. /\ text' = next
        /\ focused' \in BOOLEAN
        /\ squeezed' = (squeezed \/ (Len(new) < Len(text) /\ s # <<>>))
        /\ typings' = typings + 1 /\ typings < MaxEdits
    BY <1>3 DEF P!Edit
  <2>2. /\ next \in Seq(P!Char)
        /\ ~ (Len(new) < Len(text) /\ s # <<>>) =>
             /\ text \in Seq(Shows) => next \in Seq(Shows)
             /\ Len(P!Digits(text)) <= P!MaxCharInPhone =>
                  Len(P!Digits(next)) <= P!MaxCharInPhone
    BY EditedFacts
  <2> HIDE DEF new, next
  <2>3. typings' \in 0 .. MaxEdits
    BY <2>1, MCPhoneAssumption DEF P!PhoneAssumption
  <2>4. squeezed' \in BOOLEAN
    BY <2>1
  <2>5. ASSUME ~squeezed' PROVE text' \in Seq(Digit \cup P!Separator)
    BY <2>1, <2>2, <2>5 DEF Shows
  <2>6. ASSUME ~squeezed' PROVE Len(P!Digits(text')) <= P!MaxCharInPhone
    BY <2>1, <2>2, <2>6 DEF P!ElevenDigits
  <2> QED
    BY <2>1, <2>2, <2>3, <2>4, <2>5, <2>6 DEF P!ElevenDigits
<1> QED
  BY <1>1, <1>2, <1>3 DEF P!Next

\* DigitsStay and BackspaceWorks follow from the types.
LEMMA PhoneSafe ==
  ASSUME PhoneInv
  PROVE  P!DigitsStay /\ P!BackspaceWorks
<1>1. P!DigitsStay
  BY EditedFacts DEF P!DigitsStay
<1>2. ASSUME NEW i \in P!From(0), NEW j \in P!From(i) \ {i}
      PROVE  Len(P!Edited(i, j, <<>>)) < Len(text)
  <2> DEFINE new == P!Replaced(i, j, <<>>)
             next == P!Edited(i, j, <<>>)
  <2>1. text \in Seq(P!Char) /\ <<>> \in Seq(P!Char) /\ Len(<<>>) = 0 /\ <<>> \in P!Input
    BY DEF PhoneInv, P!TypeOK, P!Input
  <2>2. /\ Len(new) = Len(text) - (j - i) + 0
        /\ i \in Nat /\ j \in Nat /\ i <= j /\ j <= Len(text) /\ Len(text) \in Nat
    BY <2>1, ReplacedFacts
  <2>3. i < j
    BY <2>2
  <2>4. Len(new) < Len(text) => Len(next) <= Len(new)
    BY <2>1, EditedFacts
  <2>5. next \in Seq(P!Char)
    BY <2>1, EditedFacts
  <2>6. Len(next) \in Nat
    BY <2>5
  <2> HIDE DEF new, next
  <2>7. Len(next) < Len(text)
    BY <2>2, <2>3, <2>4, <2>6
  <2> QED
    BY <2>7 DEF next
<1> QED
  BY <1>1, <1>2 DEF P!BackspaceWorks

\* A phone number is what was typed and pasted, has at most eleven digits, and
\* can be deleted, whatever the edits, pastes, carets and selections.
\* (phoneMask.)
THEOREM TheNumberIsKept == MCSpec => []NumberKept
<1>1. MCInit => PhoneInv
  BY PhoneInit DEF MCInit
<1>2. PhoneInv /\ [MCNext]_<<part, vars, phoneVars>> => PhoneInv'
  <2>1. ASSUME PhoneInv, UNCHANGED phoneVars PROVE PhoneInv'
    BY <2>1 DEF phoneVars, PhoneInv, P!TypeOK, P!ElevenDigits
  <2>2. ASSUME PhoneInv, MCNext PROVE PhoneInv'
    BY <2>1, <2>2, PhoneStep DEF MCNext
  <2> QED
    BY <2>1, <2>2
<1>3. PhoneInv => NumberKept
  BY PhoneSafe DEF PhoneInv, NumberKept
<1> QED
  BY <1>1, <1>2, <1>3, PTL DEF MCSpec
=============================================================================
