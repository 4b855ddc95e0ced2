------------------------------ MODULE Sessions ------------------------------
(***************************************************************************)
(* Who uses the app: starting it (AppDelegate), signing up                 *)
(* (SignUpController), logging in (LoginController) and out (handleLogout  *)
(* of every tab), and the profile editor (UserInfoController), on one      *)
(* device, with the accounts of Auth and the records under users/ that     *)
(* these leave and that KarmaController shows on every device.             *)
(*                                                                         *)
(* That somebody is logged in is recorded twice on the device, by Auth in  *)
(* the keychain and by the app in UserDefaults, and that somebody has an   *)
(* account twice on the server, by Auth and by the record.  Each pair is   *)
(* brought up to date by callbacks that answer after their screen may have *)
(* been left and another request been made.                                *)
(***************************************************************************)
EXTENDS Naturals, Sequences, FiniteSets

CONSTANTS
    Account,    \* e-mail addresses, each with its password
    NoUser,     \* nobody is signed in
    Members,    \* the accounts that exist when the model starts,
    CutShort,   \* and those of a sign-up that ended before the record
    MaxTaps,    \* bound on what the user does
    MaxKills    \* bound on the processes that end from outside

ASSUME SessionsAssumption ==
    /\ NoUser \notin Account
    /\ Members \subseteq Account
    /\ CutShort \subseteq Account \ Members
    /\ MaxTaps \in Nat /\ MaxKills \in Nat

\* What the Karma tab unwraps of a record.
Field == {"username", "karmaPoints"}

VARIABLES
    flag,       \* UserIsLoggedIn in UserDefaults
    auth,       \* the user of Auth, kept in the keychain
    existing,   \* the accounts that Auth knows
    record,     \* record[u]: the fields of users/u on the server
    outbox,     \* the outstanding writes to users/, oldest first
    navs,       \* what each navigation controller shows, each presented
                \* over the one before
    modal,      \* what is presented over the last: "none", "signup", "editor"
    leaving,    \* handleLogout is between its two writes
    logins,     \* the sign-ins under way
    signups,    \* the sign-ups under way
    edits,      \* the profile edits under way
    doubled,    \* history: Login was tapped with a sign-in still under way
    torn,       \* history: a process ended inside the last handleLogout
    taps, kills     \* how much of each bound is used

deviceVars == <<flag, auth>>
serverVars == <<existing, record>>
screenVars == <<navs, modal, leaving>>
vars == <<deviceVars, serverVars, outbox, screenVars, logins, signups, edits,
          doubled, torn, taps, kills>>

View == {"welcome", "login", "tabs"}

Last(s) == s[Len(s)]

\* The screen that takes touches, while nothing runs on the main thread.
Shown(view) == Last(navs) = view /\ modal = "none" /\ ~leaving

Tap ==
    /\ taps < MaxTaps
    /\ taps' = taps + 1

-----------------------------------------------------------------------------
(* The start of a process.                                                 *)

\* The tab bar or the welcome pages, as the flag says.
FirstScreen == <<IF flag THEN "tabs" ELSE "welcome">>

Init ==
    /\ flag = FALSE /\ auth = NoUser
    /\ existing = Members \cup CutShort
    /\ record = [u \in Account |-> IF u \in Members THEN Field ELSE {}]
    /\ outbox = <<>>
    /\ navs = FirstScreen /\ modal = "none" /\ leaving = FALSE
    /\ logins = {} /\ signups = {} /\ edits = {}
    /\ doubled = FALSE /\ torn = FALSE
    /\ taps = 0 /\ kills = 0

\* The process ends, with everything that it waits for and has not sent, and
\* is started again.
Restart ==
    /\ outbox' = <<>>
    /\ navs' = FirstScreen /\ modal' = "none" /\ leaving' = FALSE
    /\ logins' = {} /\ signups' = {} /\ edits' = {}
    /\ torn' = (torn \/ leaving)
    /\ kills' = kills + 1
    /\ UNCHANGED <<deviceVars, serverVars, doubled, taps>>

Kill ==
    /\ kills < MaxKills
    /\ Restart

\* jumpToLogin.
GetStarted ==
    /\ Shown("welcome")
    /\ navs' = [navs EXCEPT ![Len(navs)] = "login"]
    /\ UNCHANGED <<deviceVars, serverVars, outbox, modal, leaving, logins,
                   signups, edits, doubled, torn, taps, kills>>

-----------------------------------------------------------------------------
(* Logging in and out.  The callback of a sign-in pushes a tab bar onto    *)
(* the navigation controller where Login was tapped.                       *)

\* loginPressed.  Nothing disables the button until the answer.
LoginPressed(u) ==
    /\ Shown("login")
    /\ Tap
    /\ logins' = logins \cup
           {[id |-> taps + 1, who |-> u, nav |-> Len(navs), stage |-> "asked"]}
    /\ doubled' = (doubled \/ logins # {})
    /\ UNCHANGED <<deviceVars, serverVars, outbox, screenVars, signups, edits,
                   torn, kills>>

\* Auth signs the user in, and will call back on the main queue.
SignIn(l) ==
    /\ l \in logins /\ l.stage = "asked"
    /\ l.who \in existing
    /\ auth' = l.who
    /\ logins' = (logins \ {l}) \cup {[l EXCEPT !.stage = "answered"]}
    /\ UNCHANGED <<flag, serverVars, outbox, screenVars, signups, edits,
                   doubled, torn, taps, kills>>

\* A wrong password, an unknown address, no network.
SignInFails(l) ==
    /\ l \in logins /\ l.stage = "asked"
    /\ logins' = logins \ {l}
    /\ UNCHANGED <<deviceVars, serverVars, outbox, screenVars, signups, edits,
                   doubled, torn, taps, kills>>

\* The callback of signIn.
LoggedIn(l) ==
    /\ l \in logins /\ l.stage = "answered"
    /\ logins' = logins \ {l}
    /\ flag' = TRUE
    /\ navs' = [navs EXCEPT ![l.nav] = "tabs"]
    /\ UNCHANGED <<auth, serverVars, outbox, modal, leaving, signups, edits,
                   doubled, torn, taps, kills>>

\* handleLogout: first Auth forgets the user,
Logout ==
    /\ Shown("tabs")
    /\ Tap
    /\ auth' = NoUser
    /\ leaving' = TRUE
    /\ UNCHANGED <<flag, serverVars, outbox, navs, modal, logins, signups,
                   edits, doubled, torn, kills>>

\* With a bug: the flag is not reset.
ClearNothing ==
    /\ leaving
    /\ navs' = Append(navs, "login")
    /\ leaving' = FALSE /\ torn' = FALSE
    /\ UNCHANGED <<deviceVars, serverVars, outbox, modal, logins, signups,
                   edits, doubled, torn, taps, kills>>

\* and then the flag is reset.  The tab bar stays, below a new login screen.
ClearFlag ==
    /\ leaving
    /\ flag' = FALSE
    /\ navs' = Append(navs, "login")
    /\ leaving' = FALSE /\ torn' = FALSE
    /\ UNCHANGED <<auth, serverVars, outbox, modal, logins, signups, edits,
                   doubled, torn, taps, kills>>

-----------------------------------------------------------------------------
(* The outbox: writes to users/, in order.                                 *)

Write(u, fields, edit) == [to |-> u, fields |-> fields, edit |-> edit]
NoEdit == 0

\* The server applies the oldest write and its completion block runs: the one
\* of an edit closes the editor, if that is still presented.
Send ==
    LET w == Head(outbox)
        shown == \E e \in edits : e.id = w.edit /\ e.attached
    IN  /\ outbox # <<>>
        /\ record' = [record EXCEPT ![w.to] = @ \cup w.fields]
        /\ outbox' = Tail(outbox)
        /\ modal' = IF shown THEN "none" ELSE modal
        /\ edits' = {IF shown THEN [e EXCEPT !.attached = FALSE] ELSE e :
                        e \in {f \in edits : f.id # w.edit}}
        /\ UNCHANGED <<deviceVars, existing, navs, leaving, logins, signups,
                       doubled, torn, taps, kills>>

-----------------------------------------------------------------------------
(* Signing up: upload the photo, create the account, write the record.     *)

\* A dismissed controller stays alive for its callbacks.
Detached(ops) == {[o EXCEPT !.attached = FALSE] : o \in ops}

OpenSignUp ==
    /\ Shown("login")
    /\ Tap
    /\ modal' = "signup"
    /\ UNCHANGED <<deviceVars, serverVars, outbox, navs, leaving, logins,
                   signups, edits, doubled, torn, kills>>

\* With a bug: the controller does not notice that it was dismissed.
CancelUnnoticed ==
    /\ modal = "signup"
    /\ Tap
    /\ modal' = "none"
    /\ UNCHANGED <<deviceVars, serverVars, outbox, navs, leaving, logins,
                   signups, edits, doubled, torn, kills>>

CancelSignUp ==
    /\ modal = "signup"
    /\ Tap
    /\ modal' = "none"
    /\ signups' = Detached(signups)
    /\ UNCHANGED <<deviceVars, serverVars, outbox, navs, leaving, logins,
                   edits, doubled, torn, kills>>

\* submitPressed.  Nothing disables the button here either.
SignUpPressed(u) ==
    /\ modal = "signup"
    /\ Tap
    /\ signups' = signups \cup
           {[id |-> taps + 1, who |-> u, stage |-> "upload", attached |-> TRUE]}
    /\ UNCHANGED <<deviceVars, serverVars, outbox, screenVars, logins, edits,
                   doubled, torn, kills>>

At(s, stage) == (signups \ {s}) \cup {[s EXCEPT !.stage = stage]}

PhotoUploaded(s) ==
    /\ s \in signups /\ s.stage = "upload"
    /\ signups' = At(s, "create")
    /\ UNCHANGED <<deviceVars, serverVars, outbox, screenVars, logins, edits,
                   doubled, torn, taps, kills>>

\* The upload fails, or the account cannot be created: its address is in use,
\* or malformed, or the password is too short.
SignUpFails(s) ==
    /\ s \in signups /\ s.stage \in {"upload", "create"}
    /\ signups' = signups \ {s}
    /\ UNCHANGED <<deviceVars, serverVars, outbox, screenVars, logins, edits,
                   doubled, torn, taps, kills>>

\* With a bug: an address in use is no error.
CreateAccountAgain(s) ==
    /\ s \in signups /\ s.stage = "create"
    /\ existing' = existing \cup {s.who}
    /\ auth' = s.who
    /\ signups' = At(s, "created")
    /\ UNCHANGED <<flag, record, outbox, screenVars, logins, edits, doubled,
                   torn, taps, kills>>

\* Auth creates the account and signs it in, whoever was signed in before.
CreateAccount(s) ==
    /\ s \in signups /\ s.stage = "create"
    /\ s.who \notin existing
    /\ existing' = existing \cup {s.who}
    /\ auth' = s.who
    /\ signups' = At(s, "created")
    /\ UNCHANGED <<flag, record, outbox, screenVars, logins, edits, doubled,
                   torn, taps, kills>>

\* With a bug: the record is written only while the form is presented.
AccountCreatedOnForm(s) ==
    /\ s \in signups /\ s.stage = "created"
    /\ outbox' = IF s.attached THEN Append(outbox, Write(s.who, Field, NoEdit))
                 ELSE outbox
    /\ flag' = FALSE
    /\ modal' = IF s.attached THEN "none" ELSE modal
    /\ signups' = IF s.attached THEN Detached(signups \ {s})
                  ELSE signups \ {s}
    /\ UNCHANGED <<auth, serverVars, navs, leaving, logins, edits, doubled,
                   torn, taps, kills>>

\* The callback of createUser: the record, the flag and the form.
AccountCreated(s) ==
    /\ s \in signups /\ s.stage = "created"
    /\ outbox' = Append(outbox, Write(s.who, Field, NoEdit))
    /\ flag' = FALSE
    /\ modal' = IF s.attached THEN "none" ELSE modal
    /\ signups' = IF s.attached THEN Detached(signups \ {s})
                  ELSE signups \ {s}
    /\ UNCHANGED <<auth, serverVars, navs, leaving, logins, edits, doubled,
                   torn, taps, kills>>

-----------------------------------------------------------------------------
(* The profile editor: upload the photo, then write the name, both for     *)
(* whoever is signed in when the upload has ended.                         *)

\* handleUserInfo, behind the title of every tab.  That of Add Post is there
\* before, and whether or not, a record has been fetched.
OpenEditor ==
    /\ Shown("tabs")
    /\ Tap
    /\ modal' = "editor"
    /\ UNCHANGED <<deviceVars, serverVars, outbox, navs, leaving, logins,
                   signups, edits, doubled, torn, kills>>

CancelEditor ==
    /\ modal = "editor"
    /\ Tap
    /\ modal' = "none"
    /\ edits' = Detached(edits)
    /\ UNCHANGED <<deviceVars, serverVars, outbox, navs, leaving, logins,
                   signups, doubled, torn, kills>>

UpdatePressed ==
    /\ modal = "editor"
    /\ Tap
    /\ edits' = edits \cup
           {[id |-> taps + 1, stage |-> "upload", attached |-> TRUE]}
    /\ UNCHANGED <<deviceVars, serverVars, outbox, screenVars, logins, signups,
                   doubled, torn, kills>>

EditFails(e) ==
    /\ e \in edits /\ e.stage = "upload"
    /\ edits' = edits \ {e}
    /\ UNCHANGED <<deviceVars, serverVars, outbox, screenVars, logins, signups,
                   doubled, torn, taps, kills>>

\* The callback of the upload.
EditUploaded(e) ==
    /\ e \in edits /\ e.stage = "upload"
    /\ auth # NoUser
    /\ outbox' = Append(outbox, Write(auth, {"username"}, e.id))
    /\ edits' = (edits \ {e}) \cup {[e EXCEPT !.stage = "write"]}
    /\ UNCHANGED <<deviceVars, serverVars, screenVars, logins, signups,
                   doubled, torn, taps, kills>>

\* It unwraps the current user: with nobody signed in the process traps.
EditTraps(e) ==
    /\ e \in edits /\ e.stage = "upload"
    /\ auth = NoUser
    /\ Restart

-----------------------------------------------------------------------------
\* The rows of the Karma tab, on whatever device: every record there is.
KarmaRows == {u \in Account : record[u] # {}}

-----------------------------------------------------------------------------
\* What Auth does on its own queue, also between two steps of a handler.
AuthStep ==
    \/ \E l \in logins : SignIn(l)
    \/ \E s \in signups : CreateAccount(s)

Answer ==
    \/ \E l \in logins : SignInFails(l) \/ LoggedIn(l)
    \/ \E s \in signups : PhotoUploaded(s) \/ SignUpFails(s) \/ AccountCreated(s)
    \/ \E e \in edits : EditFails(e) \/ EditUploaded(e) \/ EditTraps(e)
    \/ Send

\* Callbacks, like touches, wait for the handler that runs on the main thread.
Callback == AuthStep \/ ClearFlag \/ (~leaving /\ Answer)

Touch ==
    \/ GetStarted
    \/ \E u \in Account : LoginPressed(u) \/ SignUpPressed(u)
    \/ Logout
    \/ OpenSignUp \/ CancelSignUp
    \/ OpenEditor \/ CancelEditor \/ UpdatePressed

Next == Callback \/ Touch \/ Kill

Spec == Init /\ [][Next]_vars

(***************************************************************************)
(* Every request is answered, with success or failure, and what is         *)
(* outstanding is sent.  Nobody has to tap anything.                       *)
(***************************************************************************)
FairSpec == Spec /\ WF_vars(Callback)

-----------------------------------------------------------------------------
(***************************************************************************)
(* Types.                                                                  *)
(***************************************************************************)
Id == 1 .. MaxTaps
Login == [id : Id, who : Account, nav : Nat, stage : {"asked", "answered"}]
SignUp == [id : Id, who : Account, stage : {"upload", "create", "created"},
           attached : BOOLEAN]
Edit == [id : Id, stage : {"upload", "write"}, attached : BOOLEAN]
UserWrite == [to : Account, fields : {Field, {"username"}},
              edit : 0 .. MaxTaps]

\* Every variable has its type, a sign-in knows the navigation controller it
\* will push on, and a callback dismisses only what is presented.
TypeOK ==
    /\ flag \in BOOLEAN /\ auth \in existing \cup {NoUser}
    /\ existing \subseteq Account
    /\ record \in [Account -> SUBSET Field]
    /\ outbox \in Seq(UserWrite)
    /\ navs \in Seq(View) /\ navs # <<>>
    /\ modal \in {"none", "signup", "editor"}
    /\ leaving \in BOOLEAN
    /\ logins \subseteq Login /\ \A l \in logins : l.nav \in DOMAIN navs
    /\ signups \subseteq SignUp
    /\ (\E s \in signups : s.attached) => modal = "signup"
    /\ edits \subseteq Edit
    /\ (\E e \in edits : e.attached) => modal = "editor"
    /\ doubled \in BOOLEAN /\ torn \in BOOLEAN
    /\ taps \in 0 .. MaxTaps /\ kills \in Nat

-----------------------------------------------------------------------------
(***************************************************************************)
(* Safety.                                                                 *)
(***************************************************************************)
Created(u) == {s \in signups : s.who = u /\ s.stage = "created"}
FirstWrites(u) == {i \in DOMAIN outbox : outbox[i] = Write(u, Field, NoEdit)}
HasPoints(u) == "karmaPoints" \in record[u]

\* As long as no process ends, an account has its record, or the record is on
\* its way: nothing the user taps between the upload, the creation of the
\* account and the write, not even leaving the form or logging in as somebody
\* else, leaves an account that the tabs know nothing of.
\* (SignUpController.submitPressed.)
AccountsHaveRecords ==
    kills = 0 =>
        \A u \in existing \ CutShort :
            HasPoints(u) \/ Created(u) # {} \/ FirstWrites(u) # {}

\* A record is written as a whole, with no points, at most once: however
\* often the form is submitted, with an address that is in use or twice at
\* the same time, points that were earned are not set back to zero.
\* (SignUpController.submitPressed: setValue only after createUser.)
RecordWrittenOnce ==
    \A u \in Account :
        Cardinality(Created(u)) + Cardinality(FirstWrites(u))
            + (IF HasPoints(u) THEN 1 ELSE 0) <= 1

\* An account has one record, in every order of taps, answers and writes: as
\* long as no process ends it is there or on its way, and nothing resets it.
\* (SignUpController.submitPressed.)
OneRecordPerAccount == AccountsHaveRecords /\ RecordWrittenOnce

\* The flag with which a process starts says that somebody is logged in only
\* if Auth agrees, so that the Home tab, which unwraps the current user, is
\* not opened with nobody signed in; in every order of taps and late answers,
\* with two exceptions.  Login was tapped again while a sign-in was still
\* under way: the second answer sets the flag even after a logout.  Or the
\* process ended inside handleLogout, behind signOut and before the flag is
\* reset: it stays wrong until somebody logs out once more.
\* (AppDelegate, LoginController.loginPressed, handleLogout.)
FlagMeansSignedIn == flag /\ ~doubled /\ ~leaving /\ ~torn => auth # NoUser

\* "let karmaPoints = usersArray[indexPath.row].karmaPoints!"
\* (KarmaController.swift:189): every user that the Karma tab lists, whoever
\* wrote the record, has points and a name.
RecordsWhole == \A u \in KarmaRows : record[u] = Field

-----------------------------------------------------------------------------
(***************************************************************************)
(* Liveness, under FairSpec.                                               *)
(***************************************************************************)

\* Whoever has an account gets the record, unless a process ended in between.
RecordArrives ==
    \A u \in Account \ CutShort :
        u \in existing ~> (HasPoints(u) \/ kills > 0)
=============================================================================
