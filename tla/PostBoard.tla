----------------------------- MODULE PostBoard ------------------------------
(***************************************************************************)
(* The board of requests for help: the Home tab (HomeViewCollection and    *)
(* the cells that inherit from it), the Pinned tab (PinController), the    *)
(* writes of the Add Post tab, and the sessions that own them, on several  *)
(* devices that share one Realtime Database.                               *)
(*                                                                         *)
(* A tap never changes a list.  It issues writes, and the lists follow     *)
(* when the observers report what the database now holds, so every list    *)
(* may be stale when it is tapped.  Completing a post is two writes from   *)
(* Home and four from Pinned, and nothing makes them one.                  *)
(*                                                                         *)
(* A callback or a tap runs on the main queue from beginning to end, and   *)
(* UIKit lays a reloaded list out before it delivers the next touch: each  *)
(* is one action here, and a tapped row is the post that its list holds.   *)
(***************************************************************************)
EXTENDS RealtimeDatabase, FiniteSets

CONSTANTS
    User,       \* accounts, each with its record delivered to users/
    NoUser,     \* nobody is signed in
    Accounts,   \* Accounts[c]: the accounts whose owners use device c
    Post,       \* posts, each with the id that submitPressed drew for it
    Category,   \* the pages of the Home tab, one list each
    CategoryOf, \* CategoryOf[p]: the category chosen for p
    OldPosts,   \* the posts that are open when the model starts,
    OldPins,    \* and the pins of those posts: pairs of a user and a post
    OldKarma,   \* OldKarma[u]: the points that u has by then
    Refusable,  \* the trees where the server may refuse a write
    MaxTaps,    \* bound on what the users do, all together
    MaxDrops,   \* bound on the connections lost with writes unacknowledged
    MaxKills    \* bound on the processes that end from outside

KarmaAward == 50

(***************************************************************************)
(* The database.  A copy of a post never changes once written, so one      *)
(* value stands for its eight fields.                                      *)
(***************************************************************************)
Tree == {"posts", "pinned", "completed", "users"}

PostAt(p) == <<"posts", p>>
PinAt(u, p) == <<"pinned", <<u, p>>>>
CompletedAt(p) == <<"completed", p>>
KarmaAt(u) == <<"users", u>>

PostLocation == {PostAt(p) : p \in Post}
PinLocation == {PinAt(u, p) : u \in User, p \in Post}
CompletedLocation == {CompletedAt(p) : p \in Post}
KarmaLocation == {KarmaAt(u) : u \in User}

Location ==
    PostLocation \cup PinLocation \cup CompletedLocation \cup KarmaLocation

Copy == "copy of the post"

\* completedBy names the helper by the uid or by the username.
Completion == [by : User, shown : {"uid", "username"}]

ASSUME BoardAssumption ==
    /\ NoUser \notin User
    /\ Accounts \in [Client -> SUBSET User]
    /\ CategoryOf \in [Post -> Category]
    /\ OldPosts \subseteq Post
    /\ OldPins \subseteq User \X OldPosts
    /\ OldKarma \in [User -> Nat]
    /\ Refusable \subseteq Tree
    /\ Absent \notin Nat \cup {Copy} \cup Completion
    /\ MaxTaps \in Nat /\ MaxDrops \in Nat /\ MaxKills \in Nat

CreatePost(p) == Write(PostAt(p), Copy)
RemovePost(p) == Write(PostAt(p), Absent)
Pin(u, p) == Write(PinAt(u, p), Copy)
Unpin(u, p) == Write(PinAt(u, p), Absent)
Complete(p, u, how) == Write(CompletedAt(p), [by |-> u, shown |-> how])
SetKarma(u, k) == Write(KarmaAt(u), k)

VARIABLES
    user,       \* user[c]: the user of Auth
    present,    \* present[c]: who has been signed in while the tab bar on the
                \* screen was there; none without a tab bar
    uploading,  \* uploading[c]: posts whose photo is on its way to Storage
    home,       \* home[c]: the posts of the lists of the Home tab
    marked,     \* marked[c]: the posts whose pin button is selected there
    opened,     \* opened[c]: the Pinned tab has been shown in this session
    fav,        \* fav[c]: favArray, the rows of the Pinned tab
    asked,      \* asked[c]: whose record PinController's viewDidLoad asked for
    me,         \* me[c]: the karmaPoints in PinController's appUser
    minted,     \* history: the ids drawn so far
    published,  \* history: the posts the server has ever held under posts/
    checks,     \* history, checks[u]: how often u completed a row of Pinned
    checked,    \* history, checked[u]: which posts u completed there
    mixed,      \* history: <<u, v>> if a row was completed with the appUser of
                \* u while v was signed in
    taps, drops, kills      \* how much of each bound is used

sessionVars == <<user, present>>
listVars == <<home, marked, opened, fav, asked, me>>
historyVars == <<minted, published, checks, checked, mixed>>
vars == <<dbVars, sessionVars, uploading, listVars, historyVars,
          taps, drops, kills>>

OldValue(loc) ==
    CASE loc[1] = "posts" /\ loc[2] \in OldPosts -> Copy
      [] loc[1] = "pinned" /\ loc[2] \in OldPins -> Copy
      [] loc[1] = "users" -> OldKarma[loc[2]]
      [] OTHER -> Absent

\* A board that may be in use already, and devices that have just been
\* installed.
Init ==
    /\ db = [loc \in Location |-> OldValue(loc)]
    /\ outbox = [c \in Client |-> <<>>]
    /\ applied = [c \in Client |-> 0]
    /\ user = [c \in Client |-> NoUser]
    /\ present = [c \in Client |-> {}]
    /\ uploading = [c \in Client |-> {}]
    /\ home = [c \in Client |-> {}]
    /\ marked = [c \in Client |-> {}]
    /\ opened = [c \in Client |-> FALSE]
    /\ fav = [c \in Client |-> {}]
    /\ asked = [c \in Client |-> NoUser]
    /\ me = [c \in Client |-> Absent]
    /\ minted = OldPosts
    /\ published = OldPosts
    /\ checks = [u \in User |-> 0]
    /\ checked = [u \in User |-> {}]
    /\ mixed = {}
    /\ taps = 0 /\ drops = 0 /\ kills = 0

Tap ==
    /\ taps < MaxTaps
    /\ taps' = taps + 1

-----------------------------------------------------------------------------
(* Sessions.  The controllers of the tabs live from a login, or from the   *)
(* start of the process, to the logout; a login makes new ones.  The       *)
(* outbox and the uploads belong to the process and outlive a logout.      *)
(*                                                                         *)
(* The user of Auth may change below a tab bar: nothing keeps Login from   *)
(* being tapped twice, and a sign-up whose form was left goes on.          *)

\* With a bug: the rows of the Pinned tab survive.
KeepFavorites(c) ==
    /\ home' = [home EXCEPT ![c] = {}]
    /\ marked' = [marked EXCEPT ![c] = {}]
    /\ opened' = [opened EXCEPT ![c] = FALSE]
    /\ asked' = [asked EXCEPT ![c] = NoUser]
    /\ me' = [me EXCEPT ![c] = Absent]
    /\ UNCHANGED fav

EmptyLists(c) ==
    /\ home' = [home EXCEPT ![c] = {}]
    /\ marked' = [marked EXCEPT ![c] = {}]
    /\ opened' = [opened EXCEPT ![c] = FALSE]
    /\ fav' = [fav EXCEPT ![c] = {}]
    /\ asked' = [asked EXCEPT ![c] = NoUser]
    /\ me' = [me EXCEPT ![c] = Absent]

\* A sign-in and its callback, which pushes a tab bar.
Login(c, u) ==
    /\ present[c] = {}
    /\ u \in Accounts[c]
    /\ user' = [user EXCEPT ![c] = u]
    /\ present' = [present EXCEPT ![c] = {u}]
    /\ UNCHANGED <<dbVars, uploading, listVars, historyVars, taps, drops,
                   kills>>

\* The late answer to another sign-in, or to a sign-up: the tab bar stays.
SignIn(c, u) ==
    /\ present[c] # {}
    /\ u \in Accounts[c] \ {user[c]}
    /\ Tap
    /\ user' = [user EXCEPT ![c] = u]
    /\ present' = [present EXCEPT ![c] = @ \cup {u}]
    /\ UNCHANGED <<dbVars, uploading, listVars, historyVars, drops, kills>>

\* The callback of the other sign-in pushes a new tab bar over the first.
LoginAgain(c) ==
    /\ present[c] # {}
    /\ Tap
    /\ present' = [present EXCEPT ![c] = {user[c]}]
    /\ EmptyLists(c)
    /\ UNCHANGED <<dbVars, user, uploading, historyVars, drops, kills>>

\* With a bug: the outstanding writes are purged.
LogoutAndPurge(c) ==
    /\ present[c] # {}
    /\ Tap
    /\ user' = [user EXCEPT ![c] = NoUser]
    /\ present' = [present EXCEPT ![c] = {}]
    /\ EmptyLists(c)
    /\ LoseOutbox(c)
    /\ UNCHANGED <<uploading, historyVars, drops, kills>>

Logout(c) ==
    /\ present[c] # {}
    /\ Tap
    /\ user' = [user EXCEPT ![c] = NoUser]
    /\ present' = [present EXCEPT ![c] = {}]
    /\ EmptyLists(c)
    /\ UNCHANGED <<dbVars, uploading, historyVars, drops, kills>>

\* The process ends and is started again: the flag in UserDefaults, which
\* decides between a tab bar and the welcome pages, and the credentials in
\* the keychain survive, memory does not.
Restart(c) ==
    /\ LoseOutbox(c)
    /\ EmptyLists(c)
    /\ \E shown \in SUBSET ({user[c]} \ {NoUser}) :
            present' = [present EXCEPT ![c] = shown]
    /\ uploading' = [uploading EXCEPT ![c] = {}]
    /\ kills' = kills + 1
    /\ UNCHANGED <<user, historyVars, drops>>

Kill(c) ==
    /\ kills < MaxKills
    /\ Restart(c)
    /\ UNCHANGED taps

-----------------------------------------------------------------------------
(* Add Post: submitPressed draws the id, and the callback of the upload    *)
(* writes the post, whoever is signed in by then.                          *)

Submit(c, p) ==
    /\ present[c] # {}
    /\ p \notin minted
    /\ Tap
    /\ minted' = minted \cup {p}
    /\ uploading' = [uploading EXCEPT ![c] = @ \cup {p}]
    /\ UNCHANGED <<dbVars, sessionVars, listVars, published, checks, checked,
                   mixed, drops, kills>>

EndUpload(c, p) ==
    /\ p \in uploading[c]
    /\ uploading' = [uploading EXCEPT ![c] = @ \ {p}]
    /\ UNCHANGED <<sessionVars, listVars, historyVars, taps, drops, kills>>

UploadDone(c, p) ==
    /\ EndUpload(c, p)
    /\ Issue(c, <<CreatePost(p)>>)

UploadFails(c, p) ==
    /\ EndUpload(c, p)
    /\ UNCHANGED dbVars

-----------------------------------------------------------------------------
(* Home tab.                                                               *)

OnPage(k) == {p \in Post : CategoryOf[p] = k}

\* After reloadData the cells are dequeued for other rows and keep the
\* button of the row they showed before, until an observer of pinned/
\* corrects it: which buttons are selected is anyone's guess.
Reload(c, posts) ==
    \E m \in SUBSET posts : marked' = [marked EXCEPT ![c] = m]

\* With a bug: a post is listed while its photo is still being uploaded.
HeldOrUploading(c, k) ==
    {p \in OnPage(k) : Shows(c, PostAt(p)) \/ p \in uploading[c]}

Held(c, k) == {p \in OnPage(k) : Shows(c, PostAt(p))}

\* The observer of fetchData replaces the list of one page.
HomeEvent(c, k) ==
    LET posts == (home[c] \ OnPage(k)) \cup Held(c, k)
    IN  /\ present[c] # {}
        /\ posts # home[c]
        /\ home' = [home EXCEPT ![c] = posts]
        /\ Reload(c, posts)
        /\ UNCHANGED <<dbVars, sessionVars, uploading, opened, fav, asked, me,
                       historyVars, taps, drops, kills>>

\* The observer that a cell left on the pins of a user sets its button.
MarkEvent(c, p) ==
    /\ p \in home[c]
    /\ \E u \in present[c] : (p \in marked[c]) # Shows(c, PinAt(u, p))
    /\ marked' = [marked EXCEPT ![c] = IF p \in @ THEN @ \ {p} ELSE @ \cup {p}]
    /\ UNCHANGED <<dbVars, sessionVars, uploading, home, opened, fav, asked,
                   me, historyVars, taps, drops, kills>>

HomePin(c, p) ==
    /\ p \in home[c] \ marked[c]
    /\ Tap
    /\ marked' = [marked EXCEPT ![c] = @ \cup {p}]
    /\ Issue(c, <<Pin(user[c], p)>>)
    /\ UNCHANGED <<sessionVars, uploading, home, opened, fav, asked, me,
                   historyVars, drops, kills>>

HomeUnpin(c, p) ==
    /\ p \in home[c] \cap marked[c]
    /\ Tap
    /\ Issue(c, <<Unpin(user[c], p)>>)
    /\ Reload(c, home[c])
    /\ UNCHANGED <<sessionVars, uploading, home, opened, fav, asked, me,
                   historyVars, drops, kills>>

\* With a bug: the post is removed first.
RemoveThenComplete(c, p) ==
    <<RemovePost(p), Complete(p, user[c], "uid")>>

\* With a bug: the post is not removed.
CompleteOnly(c, p) == <<Complete(p, user[c], "uid")>>

HomeCheckWrites(c, p) == <<Complete(p, user[c], "uid"), RemovePost(p)>>

HomeCheck(c, p) ==
    /\ p \in home[c]
    /\ Tap
    /\ Issue(c, HomeCheckWrites(c, p))
    /\ Reload(c, home[c])
    /\ UNCHANGED <<sessionVars, uploading, home, opened, fav, asked, me,
                   historyVars, drops, kills>>

\* Rows that come into view take the cells of rows that went out of it.
Scroll(c) ==
    /\ home[c] # {}
    /\ Tap
    /\ Reload(c, home[c])
    /\ UNCHANGED <<dbVars, sessionVars, uploading, home, opened, fav, asked,
                   me, historyVars, drops, kills>>

-----------------------------------------------------------------------------
(* Pinned tab.                                                             *)

\* The tab is shown for the first time: viewDidLoad asks for a record.
OpenPinned(c) ==
    /\ present[c] # {}
    /\ ~opened[c]
    /\ opened' = [opened EXCEPT ![c] = TRUE]
    /\ asked' = [asked EXCEPT ![c] = user[c]]
    /\ UNCHANGED <<dbVars, sessionVars, uploading, home, marked, fav, me,
                   historyVars, taps, drops, kills>>

PinnedPosts(c, u) == {p \in Post : Shows(c, PinAt(u, p))}

\* With a bug: observeSingleEvent in place of observe.
FavEventOnce(c) ==
    /\ opened[c]
    /\ fav[c] = {}
    /\ \E u \in present[c] : fav' = [fav EXCEPT ![c] = PinnedPosts(c, u)]
    /\ UNCHANGED <<dbVars, sessionVars, uploading, home, marked, opened, asked,
                   me, historyVars, taps, drops, kills>>

\* Each time the tab appears it observes the pins of the user of Auth, and
\* keeps the observers that it had.
FavEvent(c) ==
    /\ opened[c]
    /\ \E u \in present[c] :
        /\ fav[c] # PinnedPosts(c, u)
        /\ fav' = [fav EXCEPT ![c] = PinnedPosts(c, u)]
    /\ UNCHANGED <<dbVars, sessionVars, uploading, home, marked, opened, asked,
                   me, historyVars, taps, drops, kills>>

\* The one answer to viewDidLoad's observeSingleEvent.
FetchUserInfo(c) ==
    /\ opened[c]
    /\ me[c] = Absent
    /\ \E k \in Seen(c, KarmaAt(asked[c])) : me' = [me EXCEPT ![c] = k]
    /\ UNCHANGED <<dbVars, sessionVars, uploading, home, marked, opened, fav,
                   asked, historyVars, taps, drops, kills>>

\* With a bug: the points are added twice.
DoubleAward(c, p) ==
    <<SetKarma(user[c], me[c] + 2 * KarmaAward),
      Complete(p, asked[c], "username"), Unpin(user[c], p), RemovePost(p)>>

\* With a bug: the points come last.
AwardLast(c, p) ==
    <<Complete(p, asked[c], "username"), Unpin(user[c], p), RemovePost(p),
      SetKarma(user[c], me[c] + KarmaAward)>>

\* With a bug: the record is saved as it was read, after the sum.
SaveOldRecord(c, p) ==
    <<SetKarma(user[c], me[c] + KarmaAward),
      Complete(p, asked[c], "username"), Unpin(user[c], p), RemovePost(p),
      SetKarma(user[c], me[c])>>

\* The sum and the name are those of appUser, the record that was asked for
\* once, in viewDidLoad; they are written for the user of Auth.
FavCheckWrites(c, p) ==
    <<SetKarma(user[c], me[c] + KarmaAward),
      Complete(p, asked[c], "username"), Unpin(user[c], p), RemovePost(p)>>

\* The check button of a row.  Nothing at all happens before the record has
\* arrived.
FavCheck(c, p) ==
    /\ p \in fav[c]
    /\ me[c] # Absent
    /\ Tap
    /\ Issue(c, FavCheckWrites(c, p))
    /\ checks' = [checks EXCEPT ![user[c]] = @ + 1]
    /\ checked' = [checked EXCEPT ![user[c]] = @ \cup {p}]
    /\ mixed' = mixed \cup ({<<asked[c], user[c]>>} \ {<<u, u>> : u \in User})
    /\ UNCHANGED <<sessionVars, uploading, listVars, minted, published, drops,
                   kills>>

\* The pin button of a row.  The handler indexes postArray, which nothing
\* ever fills, so the process traps before anything is issued.
FavPinTap(c, p) ==
    /\ p \in fav[c]
    /\ Tap
    /\ Restart(c)

-----------------------------------------------------------------------------
(* The database and the connections.                                       *)

Apply(c) ==
    /\ ServerApply(c)
    /\ published' = published \cup {p \in Post : db'[PostAt(p)] # Absent}
    /\ UNCHANGED <<sessionVars, uploading, listVars, minted, checks, checked,
                   mixed, taps, drops, kills>>

Refuse(c) ==
    /\ ServerRefuse(c)
    /\ NextWrite(c).loc[1] \in Refusable
    /\ UNCHANGED <<sessionVars, uploading, listVars, historyVars, taps, drops,
                   kills>>

Hear(c) ==
    /\ Acknowledge(c)
    /\ UNCHANGED <<sessionVars, uploading, listVars, historyVars, taps, drops,
                   kills>>

Drop(c) ==
    /\ drops < MaxDrops
    /\ Reconnect(c)
    /\ drops' = drops + 1
    /\ UNCHANGED <<sessionVars, uploading, listVars, historyVars, taps, kills>>

-----------------------------------------------------------------------------
Screen(c) ==
    \/ \E k \in Category : HomeEvent(c, k)
    \/ \E p \in Post : MarkEvent(c, p)
    \/ FavEvent(c)
    \/ FetchUserInfo(c)

Touch(c) ==
    \/ \E u \in User : Login(c, u) \/ SignIn(c, u)
    \/ LoginAgain(c)
    \/ Logout(c)
    \/ Scroll(c)
    \/ OpenPinned(c)
    \/ \E p \in Post :
        \/ Submit(c, p)
        \/ HomePin(c, p) \/ HomeUnpin(c, p) \/ HomeCheck(c, p)
        \/ FavCheck(c, p) \/ FavPinTap(c, p)

Network(c) ==
    \/ Apply(c) \/ Refuse(c) \/ Hear(c) \/ Drop(c)
    \/ \E p \in Post : UploadDone(c, p) \/ UploadFails(c, p)

Next == \E c \in Client : Screen(c) \/ Touch(c) \/ Network(c) \/ Kill(c)

Spec == Init /\ [][Next]_vars

(***************************************************************************)
(* The system keeps moving: the server takes what it receives and answers, *)
(* and observers report.  Nobody has to tap, and no upload has to succeed. *)
(***************************************************************************)
Fairness ==
    \A c \in Client :
        /\ WF_vars(Apply(c)) /\ WF_vars(Hear(c))
        /\ \A k \in Category : WF_vars(HomeEvent(c, k))
        /\ \A p \in Post : WF_vars(MarkEvent(c, p))
        /\ WF_vars(FavEvent(c)) /\ WF_vars(FetchUserInfo(c))

FairSpec == Spec /\ Fairness

-----------------------------------------------------------------------------
(***************************************************************************)
(* Types.                                                                  *)
(***************************************************************************)
PostWrite == [loc : PostLocation, val : {Copy, Absent}]
PinWrite == [loc : PinLocation, val : {Copy, Absent}]
CompletedWrite == [loc : CompletedLocation, val : Completion]
KarmaWrite == [loc : KarmaLocation, val : Nat]

AnyWrite == PostWrite \cup PinWrite \cup CompletedWrite \cup KarmaWrite

DbType ==
    /\ DOMAIN db = Location
    /\ \A p \in Post : db[PostAt(p)] \in {Copy, Absent}
    /\ \A u \in User, p \in Post : db[PinAt(u, p)] \in {Copy, Absent}
    /\ \A p \in Post : db[CompletedAt(p)] \in Completion \cup {Absent}
    /\ \A u \in User : db[KarmaAt(u)] \in Nat

OutboxType ==
    /\ outbox \in [Client -> Seq(AnyWrite)]
    /\ applied \in [Client -> Nat]
    /\ \A c \in Client : applied[c] <= Len(outbox[c])

SessionType ==
    /\ user \in [Client -> User \cup {NoUser}]
    /\ present \in [Client -> SUBSET User]
    /\ uploading \in [Client -> SUBSET Post]
    /\ home \in [Client -> SUBSET Post]
    /\ marked \in [Client -> SUBSET Post]
    /\ opened \in [Client -> BOOLEAN]
    /\ fav \in [Client -> SUBSET Post]
    /\ asked \in [Client -> User \cup {NoUser}]
    /\ me \in [Client -> Nat \cup {Absent}]
    /\ \A c \in Client :
        \* Somebody is signed in behind a tab bar,
        /\ present[c] # {} => user[c] \in present[c]
        \* and without one nothing is left on the screen.
        /\ home[c] # {} => present[c] # {}
        /\ opened[c] => asked[c] \in present[c]
        /\ fav[c] # {} \/ me[c] # Absent => opened[c]

HistoryType ==
    /\ minted \subseteq Post
    /\ published \subseteq Post
    /\ checks \in [User -> Nat]
    /\ checked \in [User -> SUBSET Post]
    /\ mixed \subseteq User \X User
    /\ taps \in 0 .. MaxTaps
    /\ drops \in 0 .. MaxDrops
    /\ kills \in Nat

\* Every location holds a value of its tree, every outstanding write fits the
\* location it is for, and a device without a tab bar shows nothing.
TypeOK == DbType /\ OutboxType /\ SessionType /\ HistoryType

-----------------------------------------------------------------------------
(***************************************************************************)
(* Safety.                                                                 *)
(***************************************************************************)
Open(p) == db[PostAt(p)] # Absent
Completed(p) == db[CompletedAt(p)] # Absent
Pinned(u, p) == db[PinAt(u, p)] # Absent

\* No request for help is ever lost: whatever interleaving of devices, lost
\* connections and killed processes separates the writes of one tap, a post
\* that reached the server is still in posts/ or is in completed/.
\* (HomeViewCollection.handleCheckClick, PinController.handleCheckClick:
\* the completion is issued before the removal.)
NoPostLost == \A p \in published : Open(p) \/ Completed(p)

\* Nobody pins or completes a post the server has never held, although a
\* device shows its own posts before they get there.
PostedBeforeUse ==
    \A p \in Post \ published : ~Completed(p) /\ \A u \in User : ~Pinned(u, p)

\* One tap may read two accounts: the sum and the name are of the record that
\* viewDidLoad asked for, the points go to the user of Auth.  That user is
\* then mixed up: what the record holds may be any sum of somebody else's.
\* The account whose record it was is mixed away: named as the helper, and
\* not awarded.  The properties of karma below except them.
MixedUp(u) == \E v \in User : <<v, u>> \in mixed
MixedAway(u) == \E v \in User : <<u, v>> \in mixed

\* Writes that are sent again, several devices of one account and a record
\* read long ago never earn a user more than the award of each tap that
\* completed a row of the Pinned tab; unless the user was signed in late,
\* below the tab bar of somebody else, and completed a row there.
Earned(u) == OldKarma[u] + KarmaAward * checks[u]

KarmaWithinChecks ==
    \A u \in User : db[KarmaAt(u)] <= Earned(u) \/ MixedUp(u)

\* Whoever completed the post that completed/ shows under a username has
\* been awarded for it: the karma is issued first, so not even a process that
\* ends between the four writes can leave the helper with nothing; unless
\* the helper's name or points were mixed up with somebody else's.
HelperRewarded ==
    \A p \in Post, u \in User :
        db[CompletedAt(p)] = [by |-> u, shown |-> "username"]
            => \/ db[KarmaAt(u)] >= OldKarma[u] + KarmaAward
               \/ MixedAway(u) \/ MixedUp(u)

\* When everything has been delivered, and no connection or process was lost
\* on the way, a completed post is not offered in the Home tab any more.
NoGhosts ==
    Settled /\ drops = 0 /\ kills = 0
        => \A p \in Post : ~(Open(p) /\ Completed(p))

OneDeviceEach ==
    \A c, d \in Client : c # d => Accounts[c] \cap Accounts[d] = {}

NobodysPointsFall ==
    \A u \in User : db'[KarmaAt(u)] >= db[KarmaAt(u)] \/ MixedUp(u)'

\* With one device per account and no resent writes nobody's points ever
\* fall, although PinController writes a sum it computed from an old record;
\* unless it is the record of somebody else.
KarmaNeverFalls ==
    [][OneDeviceEach /\ drops' = 0 => NobodysPointsFall]_vars

\* "Add points to Karma database" (PinController.swift:309): when everything
\* has been delivered, a user has at least the award of every post that the
\* user completed in the Pinned tab.
PointsAdded ==
    Settled /\ drops = 0 /\ kills = 0
        => \A u \in User :
               db[KarmaAt(u)]
                   >= OldKarma[u] + KarmaAward * Cardinality(checked[u])

\* What the tree promises about each post: published, then completed, and
\* that for good, whatever the copies under posts/ do.
stageOfPosts ==
    [p \in Post |-> IF Completed(p) THEN "done"
                    ELSE IF Open(p) THEN "open" ELSE "unpublished"]

Lifecycle == INSTANCE PostLifecycle WITH stage <- stageOfPosts

FollowsLifecycle == Lifecycle!LifecycleSpec

-----------------------------------------------------------------------------
(***************************************************************************)
(* Liveness, under FairSpec.                                               *)
(***************************************************************************)
Completing(c, p) ==
    \E i \in DOMAIN outbox[c] : outbox[c][i].loc = CompletedAt(p)

\* A tap that completed a post takes effect on the server, however often the
\* connection is lost, unless a process ended with the writes in memory.
CompletionArrives ==
    \A c \in Client, p \in Post :
        Completing(c, p) ~> (Completed(p) \/ kills > 0)

HomeCurrent(c) == home[c] = {p \in Post : Open(p)}
MarksCurrent(c) == marked[c] = {p \in home[c] : Pinned(user[c], p)}
FavCurrent(c) == fav[c] = {p \in Post : Pinned(user[c], p)}

\* Every list and every pin button on a screen comes to agree with the server
\* again and again: no stale row, and no button that a reused cell left
\* wrong, stays for ever; as long as one account at most has been signed in
\* behind them.
ScreensConverge ==
    \A c \in Client :
        []<>(\/ present[c] # {user[c]}
             \/ /\ HomeCurrent(c)
                /\ MarksCurrent(c)
                /\ opened[c] => FavCurrent(c) /\ me[c] # Absent)
=============================================================================
