# CommServeApp in TLA+

CommServeApp is an iOS app in which people post requests for help, pin the ones
they want to take on, complete them and collect karma points.  There is no
server code of its own: every running app reads and writes one shared Firebase
Realtime Database, and the rules that make the whole system correct exist only
as the order in which the handlers of the app issue their writes and as the
observers that bring other devices' writes to the screen.

The repository also holds, under `Pods/`, the source of two libraries that are
compiled into the app: LevelDB, in which Firebase's client can keep its cache
and outbox on disk, and nanopb, the protobuf codec of Firebase's analytics.
They are most of the repository's implementation and its only code with
threads, files and crash recovery, and they are modelled here as well.  They
are libraries beneath closed frameworks: the app calls neither of them itself,
it never enables persistence (`Database.isPersistenceEnabled`), and no property
of the app in this project rests on them.

So there are two halves, which share nothing: the app (sections 2.1, "app" runs)
and the libraries (2.2).  Paths of the app below are relative to
`src/CommServeApp/CommServeApp/CommServeApp/`, with `VC/` for
`Views and Controllers/`; paths of the libraries to
`src/CommServeApp/CommServeApp/Pods/`.

## 1. The system

| Part | Code | State it keeps | Operations | Module |
|---|---|---|---|---|
| Realtime Database | Pods (external) | the tree `posts/<category>/<id>`, `pinned/<uid>/<id>`, `completed/<id>`, `users/<uid>`; in each app the unacknowledged writes | `updateChildValues`, `setValue`, `removeValue`, `observe`, `observeSingleEvent` | `RealtimeDatabase` |
| Home tab | `VC/CollectionViews/Home/*` | one `postArray` per category page; the pin button of each reused cell | observer of `fetchData`, `cellForItemAt` with an observer of the pins, pin and check buttons | `PostBoard` |
| Pinned tab | `VC/TableViews/Pinned/PinController.swift` | `favArray`, `appUser` (read once), `postArray` (never filled) | `viewDidAppear`, `fetchUserInfo`, check button (four writes, karma award), pin button | `PostBoard` |
| Add Post: form | `VC/Views/AddPost/AddPostController.swift`, `AddPostViewCollection.swift`, `DropDownButtons.swift` | the fields, the image, the selected category and the title of its button, `location`, `userId` | typing, category button, photo picker, Submit (record, upload, write, clear) | `AddPostForm`; the part the board sees in `PostBoard` |
| Add Post: map | `VC/Views/AddPost/LocationController.swift` | `latitude`, `longitude`, the geocoder | position updates, search (touches ignored), check mark, reverse geocoding | `AddPostForm` |
| Sessions | `AppDelegate.swift`, `VC/Views/Login+SignUp/LoginController.swift`, `Helpers/CustomTabBarController.swift`, the four `handleLogout` | `UserIsLoggedIn` in UserDefaults, the user of Auth, the controllers of the tab bar | start, login, logout | `Sessions`; also in `PostBoard` and `AddPostForm` |
| Sign-up | `VC/Views/Login+SignUp/SignUpController.swift` | the form | upload, create account, write record | `Sessions` |
| Profile editor | `VC/Views/UserInfo/*` | name and photo | upload, then write the name | `Sessions` |
| Completed tab | `VC/TableViews/Checked/*` | `checkedArray` | observer only; what it shows of `completedBy` is in `PostBoard` | `PostBoard`, in part |
| Karma tab | `VC/TableViews/Karma/*` | `usersArray` | observer only; the fields its rows unwrap are in `Sessions` | `Sessions`, in part |
| Image cache | `Helpers/Extensions.swift` 12-40 | `imageCache` | download into a cell | not modelled |
| Phone field | `Helpers/Extensions.swift` 224-308, `SignUpController`, `UserInfoController` | the text of the field | begin editing, type, paste, delete | `PhoneField` |
| Welcome pages, menu bar | `VC/CollectionViews/Welcome/*`, `Helpers/Menu/*` | the page | swipe, previous, next, menu | not modelled |
| LevelDB: database | `leveldb-library/db/db_impl.cc`, `version_set.cc` | log files, memtables, versions, MANIFEST and CURRENT, queue of writers, background thread | open, write, get, iterate, snapshot, flush, compact, recover | `Store`, `Levels` |
| LevelDB: repair | `db/repair.cc` | the directory, `lost/` | convert logs, scan tables, write a descriptor | `Repair` |
| LevelDB: formats | `db/log_*.cc`, `write_batch.cc`, `version_edit.cc`, `table/*` | bytes of logs, batches, edits, tables | write, damage, read; iterators | `RecordLog`, `Records`, `Tables`, `DBIterators` |
| LevelDB: shared structures | `db/skiplist.h`, `memtable.cc`, `util/arena.cc`, `util/cache.cc`, `db/table_cache.cc`, `util/env_posix.cc` | skip list, arena, LRU cache, lock table, work queue | insert, search; look up, insert, evict; lock, unlock; schedule | `MemTable`, `TableCache`, `PosixEnv` |
| nanopb | `nanopb/pb_encode.c`, `pb_decode.c`, `pb_common.c` | streams, field iterator | encode, decode | `Messages` |
| Other Pods | Firebase (closed frameworks), GTMSessionFetcher, GoogleToolboxForMac | | network and utilities | not modelled; seen by the app as `RealtimeDatabase` and callbacks |
| Layout, assets | the `*ViewCollection` files | | | not modelled: no behaviour |

How they interact.  All tabs share the database and nothing else: a tap never
changes a list, it issues writes, and every list on every device, the tapped
one included, follows when its observer reports.  Controllers live from a login
(or the start of the process) to the logout; the writes still unacknowledged
and the uploads still running belong to the process and outlive the logout.
The map hands its address to the form through the navigation controller.

What is hard about it: several devices act on lists that may be stale; one tap
is two or four independent writes, and the process may end, a connection may
break or the server may refuse between any two of them; unacknowledged writes
are sent again; the karma award is computed from a record read long before;
callbacks of uploads, searches and geocoders arrive after their screen has been
left or its user has logged out.  `PROJECT.json` lists each of these hazards at
its line, with the property that would catch it, or with the reason why there
is none.

What makes each part correct:

- Board: no post is lost between `posts/` and `completed/`; a completed post
  leaves the Home tab; points are awarded once for each completion and never
  for less; nobody's points fall; screens converge.
- Form: a post carries the text, category, place, photo and author of its tap;
  a failure keeps the draft; every submission ends.
- Map: ignored touches come back.
- Phone field: the mask loses no digit, stops at eleven, and never gets in the way
  of a deletion.
- Sessions: an account gets its record, and gets it once; a process that starts
  with the tabs has somebody signed in; every record has what its readers
  unwrap.

In the libraries the hard parts are others: the writer at the head of the queue
works without the mutex while readers pin and the background thread merges and
deletes; the process or the power may go between any two file operations, and
each of them may fail; a skip list is searched without a lock; damaged or cut
files are read.  What makes them correct: acknowledged writes survive an exit
and synced ones a loss of power; every read sees the newest write its snapshot
covers; a reader's files stay; what is written is read as it was written, and
damage costs what it hit; a thread that waits is woken.

## 2. Modules

### 2.1 The app

#### `RealtimeDatabase`
State: `db` (the server's tree), `outbox[c]` (unacknowledged writes of app `c`,
oldest first), `applied[c]` (how many of them the server has applied over the
connection of now).  `Issue` is every write call; `Seen` is what an observer of
`c` reports, the newest outstanding write of `c` at a location or else the
server's value, as the client library applies local writes at once.
`ServerApply`, `ServerRefuse`, `Acknowledge`, `Reconnect` (everything
unacknowledged is sent again) and `LoseOutbox` (the app never enables
persistence) are the connection.  Everything here is external: it is modelled
from how the app uses it.

#### `PostBoard` (core)
The Home and Pinned tabs, publishing, and the sessions, on the devices
`Client`.  `Accounts[c]` says whose owners use device `c`, so that one account
on two devices and one device with two accounts are both instances, and
`OldKarma` what points the accounts have at the start.  `user[c]` is the user
of Auth, `present[c]` the users that Auth has had since the tab bar on the
screen was made: an observer of the pins may be that of any of them.  The
Pinned tab keeps `asked[c]`, whose record `viewDidLoad` asked for, and `me[c]`,
the points in it; a check in the tab writes a sum from `me[c]` and the name of
`asked[c]`, for the account `user[c]`.

| Action | Code |
|---|---|
| `Login`, `Logout`, `Restart`, `Kill` | `LoginController.loginPressed`, `handleLogout`, `AppDelegate` |
| `SignIn`, `LoginAgain` | below a tab bar: the late answer to a second sign-in or to a sign-up; the callback of the second sign-in, which pushes a new tab bar |
| `Submit`, `UploadDone`, `UploadFails` | `AddPostController.submitPressed`, as the board sees it |
| `HomeEvent` | the observer in `HomeViewCollection.fetchData` and its overrides in the cells of the other categories |
| `MarkEvent` | the observer of the pins that `cellForItemAt` leaves behind |
| `HomePin`, `HomeUnpin`, `HomeCheck` | `handlePinClick`, `handleCheckClick` of `HomeViewCollection` |
| `Scroll`, `Reload` | cells that are dequeued for other rows keep the button state of the old row |
| `OpenPinned`, `FavEvent`, `FetchUserInfo` | `PinController.viewDidLoad`, `viewDidAppear`, `fetchUserInfo` |
| `FavCheck`, `FavPinTap` | `PinController.handleCheckClick`, `handlePinClick` |
| `Apply`, `Refuse`, `Hear`, `Drop` | the connection |

A handler or callback runs on the main queue from its beginning to its end, and
UIKit lays a reloaded list out before the next touch, so each is one action and
a tapped row is the post its list holds.  A copy of a post is one value: its
fields never change after creation.  A page of the Home tab that has never been
shown has no observer; in the model its `HomeEvent` just has not happened yet.
Every account has a complete record under `users/` here, and nobody's first
record is sent again; how accounts come to have one, or not, is the subject of
`Sessions`.

#### `PostLifecycle`
The abstract specification: a post is unpublished, then open, then done, and
done for good.  `PostBoard` implements it under the refinement mapping
`stageOfPosts`, which reads the stage off `completed/` first and `posts/`
second.  The mapping matters: copies under `posts/` come back when an old
creation is sent again, and a completion may be written several times, and
neither is a step of the abstract post.

#### `AddPostForm`
One device, all tab bars it has made since its process started (`forms`; the
last one is in use, the older ones stay behind the login screen with their
callbacks), the map pushed over the form, and the submissions.  A submission is
a record with a stage: `record` (waiting for the user's record), `upload`,
`write`, then `posted` or `failed`.  What is read when is the point of the
module: text, category and place at the tap, the photo when the record arrives
(`TakePhoto`), the author when the controller was made (`Author`), the form to
clear when the server accepts (`Accepted`).

| Action | Code |
|---|---|
| `TypeText`, `TypePlace`, `ChooseCategory` | the fields, `dropDownBtn.dropDownPressed` |
| `OpenPhotos`, `PickPhoto`, `CancelPhotos` | the photo picker, after which `viewWillAppear` runs (`Appear`) |
| `SelectTab`, `LoginAgain` | the tab bar; `handleLogout` and a login |
| `OpenMap`, `Back`, `Gps`, `OpenSearch`, `CancelSearch`, `Search`, `SearchAnswer` | `LocationController` |
| `Done`, `GeocodeFails`, `GeocodeAnswer`, `OrphanAnswer`, `OrphanFails` | `doneAction`, `processResponse`, also after the map was left |
| `Submit`, `RecordArrives`, `UploadFails`, `UploadDone`, `Refused`, `Accepted` | the steps of `submitPressed` |

`Trap` stands for unwrapping nil: the process ends and a new one starts.  The
geocoder takes one request at a time; a second one fails at once, as its
documentation says.  The text stands for title and description, which are
always read and reset together.

#### `Sessions`
One device, on which people sign up, log in and out and edit their profile.
What survives the process is `flag` (`UserIsLoggedIn` in UserDefaults) and
`auth` (the user Auth keeps in the keychain); what is on the server is
`existing` (the accounts of Auth) and `record` (which fields `users/<uid>`
has).  `outbox` holds the writes to `users/` in order; here the server's
application of one and the completion block of the app are one step (`Send`),
as nothing that this module is about happens between them.  `navs` is the stack
of screens: a logout presents a new navigation controller over the tab bar,
which stays, and a late login pushes onto the controller its button was on,
which may be covered by then.  `logins`, `signups` and `edits` are the requests
under way; several may be, since no button is disabled.

| Action | Code |
|---|---|
| `FirstScreen`, `Init`, `Kill` with `Restart` | `AppDelegate.application(didFinishLaunching...)` |
| `GetStarted` | `WelcomeController.jumpToLogin` |
| `LoginPressed`, `SignInFails`, `LoggedIn`; `SignIn` is Auth | `LoginController.loginPressed` |
| `Logout`, `ClearFlag` | `handleLogout` of every tab: `signOut`, then the flag and the login screen |
| `OpenSignUp`, `CancelSignUp`, `SignUpPressed`, `PhotoUploaded`, `SignUpFails`, `AccountCreated`; `CreateAccount` is Auth | `LoginController.signupPressed`, `SignUpController` |
| `OpenEditor`, `CancelEditor` | `handleUserInfo`, `cancelPressed` |
| `UpdatePressed`, `EditFails`, `EditUploaded`, `EditTraps` | `UserInfoController.submitPressed` |

`signOut` and the reset of the flag are two writes that outlive the process
(`auth`, `flag`).  `leaving` says that `handleLogout` is between them: it holds
the main thread, so taps and callbacks wait, but Auth and the server go on and
the process may end (`torn`).  Left out: the photo pickers, the checks of the
fields before the first request, the record that fills the title button and the
editor, the swipe that goes back from a pushed screen, and a server that refuses
the write of a record.

#### `PhoneField`
The phone number field of two forms: a `text` of characters, an `Edit` of any
range of it (a caret or a selection, replaced by nothing, a key or a paste), and
what `phoneMask` and UIKit make of it: `Shortened` for what it takes for a
backspace, `Extended` and `Mask` otherwise.  `Digits`, `Mask` and `Edited` are
operators, so that `DigitsStay` and `BackspaceWorks` speak of every next edit of
every text that the field reaches.  `squeezed` remembers that a selection was
replaced by something shorter, which `phoneMask` neither masks nor measures: the
number may then have twelve digits, or letters that were pasted, and the
invariants say so.

### 2.2 LevelDB and nanopb

#### `Store`
One database.  The disk is `logs`, `tables`, `manifests` and `current`; the
process has the queue of writers, the group that is being written, memtables,
the version set, what the background thread is doing, and the readers.  A write
is its sequence number, a record of a log the set of writes of a group, a
record of the MANIFEST an edit.

| Action | Code |
|---|---|
| `Enqueue`, `Yield`, `SwitchMemtable`, `SwitchFails`, `BeginWrite`, `AppendRecord`, `SyncLog`, `InsertInto`, `AppendFails`, `SyncFails` | `DBImpl::Write`, `MakeRoomForWrite`, `BuildBatchGroup` |
| `NothingToDo`, `StartFlush`, `BuildTable`, `LogFlush`, `InstallFlush` and their failures | `BackgroundCall`, `CompactMemTable`, `WriteLevel0Table`, `LogAndApply` |
| `StartCompaction`, `StartMove`, `OpenOutput`, `FinishOutput`, `LogCompaction`, `InstallCompaction`, `AbandonMerge` | `BackgroundCompaction`, `DoCompactionWork`, `InstallCompactionResults`, `DeleteObsoleteFiles` |
| `AskManual`, `CancelManual`, `NothingInRange`, `NullManual`, `TEST_CompactMemTable` | `TEST_CompactRange`, `TEST_CompactMemTable` |
| `Pin`, `Unpin` | `Get`, iterators: references on memtables and the version |
| `StartClose`, `Closed`, `Exit`, `LosePower` | `~DBImpl`; the end of the process; the end of what was never synced |
| `NewDB`, `RecoverVersions`, `RecoverLogFile`, `ReadLogFails`, `OpenLog`, `SaveManifest`, `SetCurrentFile`, `OpenDone` | `DB::Open`, `VersionSet::Recover`, `SetCurrentFile` |

Wherever the mutex is released there is a boundary between two actions.
An append that fails leaves its record out of the file, in it, or torn in the
middle (`TornAt`): of what is behind the tear in a log, a recovery finds any part
(`Readings`); a torn MANIFEST ends there for a recovery, or is a corruption
(`phase` is `broken`).  A recovery that cannot read a log goes on without it
(`ReadLogFails`).  `acked` and `durable` are what was reported done, less what a
loss of power or such a recovery has undone (`Forget`).
Abstractions: the bytes of a torn record are in `RecordLog`, and a reader that
passes over a torn record in the middle of a MANIFEST and reads on is left out;
a loss of power cuts between two records; creations, renames and deletions of
files are durable in their order; the file lock is the fact that one process is
open (`PosixEnv` has the lock); any other error inside `DB::Open` is an `Exit`; a
merge has one output;
snapshot and edit of a new MANIFEST are one record; the delay of a millisecond
in `MakeRoomForWrite` is a stutter; a NULL batch inside a group leaves with it.
`DestroyDB`, `GetProperty`, `paranoid_checks` and `reuse_logs` are left out.

#### `Levels`, over `InternalKeys`
The tables of every level, with their entries: where a memtable goes
(`PickLevelForMemTableOutput`), what a compaction takes (`PickCompaction`,
`SetupOtherInputs`, `CompactRange`), what it drops (`Hidden`, `Obsolete`) and
where its outputs end (`PassGrandparents`), reads over all levels (`Get`),
snapshots, and wasted seeks (`UpdateStats`).  A merge is started and finished in
two actions; writes, snapshots, reads and a flush of the memtable come between.
Two properties name an exception which the code makes: `lapped` remembers that
a memtable was flushed during a manual compaction, `split` the keys that two
outputs of one merge share (see the observations in section 3).

#### `Repair`, over `InternalKeys`
A small database leaves its files behind, they are damaged, and `RepairDB`
runs: `FindFiles`, `ConvertLog` (`LogUnread`, `BuildTable`, `ArchiveLog`),
`ScanTable` (`ScanEndsBadly`, `SizeUnknown`, `DropTable`), `OpenCopy` (`NoCopy`),
`ArchiveTable`, `FinishCopy`, `RenameCopy` (which are `RepairTable`),
`WriteDescriptor`, `ArchiveManifest`, `RenameDescriptor`, `SetCurrentFile`.  Each
operation on a file may fail, and the process may end between any two, after
which `RepairDB` runs again.  A read that fails is one of them: a log then ends
early without an error (`ConvertLog`), a scan ends badly though the table is
whole, and a copy is incomplete without anybody asking (`OpenCopy`, any subset of
the entries); a table whose size cannot be found out is archived unseen.
`failures` counts the operations of the last call that failed, and the
properties say what each number of them costs.  A directory that cannot be
listed ends the call at once and is left out.  Power is not lost: neither
the copies nor the descriptor are synced by the code.  The directory lists its
files in any order, so logs, tables and manifests are taken in any order
(`n \in r.logs`, ...).  What is local to the conversion of a log or to
`RepairTable` is forgotten when it returns (`Returned`).  `NothingDestroyed`
speaks of what could be read when `FindFiles` ran last (`had`): a file that an
earlier call left in `lost/` is outside of it, since a later one may replace
it, and so is a call in which two operations fail.  `OnlyReplacedIsDestroyed`
says step by step that these are the two ways to lose anything (see the
observations in section 3).  `MCFormats` extends it: a
repair is the reader that takes most of what damage leaves.

#### `RecordLog`
A log file as a sequence of cells: `Writer::AddRecord` cuts a record into
fragments, appends may fail after any part of them, cells are flipped, the end
is cut, the log is reopened for appending (`reuse_logs`), and `Reader` reads
from any initial offset.

#### `Records`
What is in a record: batches with put and delete, the append of one batch to
another, the numbering of a group, `MemTableInserter`; version edits field by
field.  A byte is a digit of a small radix, so that numbers take one byte or
two and overflow as they do in `coding.cc`.  Records are cut and changed.

#### `Tables`, `DBIterators`
A table as `TableBuilder` makes it: blocks with shared key prefixes and restart
points, shortened index keys, Bloom filters per range of offsets; and the
operators that read it: `Block::Iter`, the two-level iterator, `InternalGet`.
`DBIterators` moves a `DBIter` over a `MergingIterator` over a table of level 0
and a level of two files, from every choice of keys and damages that the run
names, and compares each move with a cursor over what the snapshot holds.  A
damaged block is one that cannot be read; a file that cannot be opened is not
modelled.

#### `MemTable`
The skip list with its memory: stores in program order, a reader with a clock
of what it has acquired, loads that may return any store that the clock does
not exclude.  So `Link` with a plain store shows the reader a node before its
key.  What a load of an unset pointer may return is `Junk`, a number that is no
node and no height.  The arena counts blocks, alignment and what was handed out.
A loop of the code (the search of the writer, the sum over the blocks) is a
function of the number of turns, whose last value is the result, here and in
`TableCache`.

#### `TableCache`
Threads look up, open, insert, use and release tables while the background
thread evicts; one shard of `LRUCache` with its two lists and hash chains, and
the limits of `PosixEnv` on mapped and open files.

#### `PosixEnv`
`LockFile` and `UnlockFile`, step by step, over the lock of the kernel (one per
process, gone when any descriptor of the file is closed) and the table of
locked files; `Schedule` and `BGThread` with the mutex, the signal and
spurious wake-ups.

#### `Messages`
Encoder and decoder of nanopb over descriptions of fields: required, optional,
repeated and oneof fields; varints, fixed-width integers, bytes, strings,
submessages, callbacks, extensions; packed arrays, delimited messages, merging.
A group of a varint has three bits and a word two groups in the run, integers
keep their width.  Buffers are cut, bytes changed, and callbacks may grow
between the sizing and the writing pass.

### 2.3 Composition and proofs

`MCPostBoard`, `MCAddPostForm`, `MCSessions`, `MCLevels` and `MCStore` only give
constants.  `MCAccounts`, `MCFormats` and `MCShared` check several modules that
share no state in one run: the variable `part` says which of them a behaviour
is about, all others stay in their initial states, and a property of the run is
the conjunction of properties of the modules.  Such a composition has exactly
the behaviours of its parts, one after the other; the conjuncts are named and
commented in the modules they are from.

Each property of a passing run has a mutant, a definition marked "With a bug"
in its module that stands for a plausible mistake in the code (the removal
before the completion, the points last, a forgotten signal, a plain store, a
deletion dropped too early, ...) and breaks the property.

`PostBoardProofs`, `AddPostFormProofs`, `AccountsProofs`, `StoreProofs`,
`StoreDurableProofs`, `LevelsProofs`, `RepairProofs` and `SharedProofs` hold the
theorems.

## 3. Runs

| Run | Instance | Checks |
|---|---|---|
| `crash` | 2 devices, 2 accounts, a new post, 3 taps, 1 lost connection, 1 killed process | `TypeOK`, `NoPostLost`, `PostedBeforeUse`, `NoGhosts`, `KarmaWithinChecks`, `HelperRewarded`, refinement of `PostLifecycle` |
| `rivals` | 2 devices, the second shared by 2 accounts, 1 pinned post, 2 taps; every write but a completion may be refused | refinement of `PostLifecycle`: one row completed by one account twice, or by two accounts |
| `pages` | 1 device shared by 2 accounts, 2 posts on 2 pages, both pinned by one of them, 3 taps, refused awards | `KarmaNeverFalls` |
| `live` | 2 fair devices, 2 taps, 1 lost connection | `ScreensConverge`, `CompletionArrives` |
| `form` | 2 users in 2 tab bars, 2 photos, 2 submissions, 8 touches, fair | `TypeOK`, `InputKept`, `SubmissionsEnd`, `TouchesComeBack` |
| `accounts` | 1 member and 1 newcomer on 1 device, 6 taps, 1 killed process, fair; phone field: 2 digits, 3 edits, 3 pastes | `TypeOK`, `OneRecordPerAccount`, `FlagMeansSignedIn`, `NumberKept`, `RecordArrives` |
| `levels` | 2 keys, 4 levels, 4 writes, 1 deletion, 1 snapshot, 1 seek or manual compaction | `LevelsWellFormed`, `ReadsNewest` |
| `store` | 2 writes, 2 writers in the queue, 1 reader, 1 failure (a torn append and an unreadable log among them), 1 exit or loss of power, 1 manual request, fair threads | `TypeOK`, `AckedSurviveExit`, `SyncedSurvivePower`, `ReadersSeeAll`, `WritersReturn` |
| `formats` | log: 2 records in blocks of 4 cells; batches of 2 operations, 3 edits; tables: 5 writes to 3 keys; messages: 5 pairs of writer and reader; 1 fault each; repair: 2 writes to 1 key, 1 damage, 2 failures or crashes | `RecordsRead`, `LookupFindsNewest`, `MovesAsCursor`, `MessagesRoundTrip`, `FramesKept`, `NothingDestroyed`, `RepairedIsWhole`, `OnlyReplacedIsDestroyed` |
| `shared` | memtable: 3 entries, 2 keys, height 2; cache: 3 tables, capacity 0 to 3, 2 clients; lock: 2 processes, 3 threads; queue: 3 items | `SearchesSound`, `CacheSound`, `OneThreadPerProcess`, `OneHolderUnlessCrowded`, `ItemsRun` |
| `points` | 2 posts, 3 taps | **violated**: `PointsAdded` |
| `karma` | 1 member and 1 account without a record, 6 taps | **violated**: `RecordsWhole` |

What the passing runs of the libraries show, beyond their instances' words:
`store` ends the process or the power in every state of the write path, of a
flush, of a merge and of a recovery, and then recovers; `levels` reaches every
way a table gets to a level (flush to level 0 to 2, trivial move, merge with one
or several outputs, manual compaction with a flush inside); `formats` cuts and
changes a byte at every place, and damages files of a database in every stage of
its use and repairs them; `shared` lets the reader's searches meet an
insert at every store.

Bounds.  `MaxTaps`, `MaxDrops`, `MaxKills`, `MaxTouches`, `MaxSubmits` and
`MaxLogins` bound what users and the environment do, in the guards; what the
server, the observers and the callbacks do is not bounded.  Two devices, two
accounts, one or two posts: every property of the board is about one post and
one account, and at most two actors disagree about it.  Two taps are two
concurrent completions; three are a pin, a completion and a second completion,
or a submission, a pin and a completion.  Seven touches of the form are two
complete submissions from two logins, the eighth is a photo or a place between
them.  Six taps of `Sessions` are a double sign-up, a cancel, two logins and a
logout, and the callbacks fall in every order between them; the killed process
is the restart that the flag is for.  `CutShort` has the accounts whose process
ended between the creation and the record: a state that `accounts` reaches with
its killed process, and that `karma` starts from, to spend its taps on what
follows.  Three edits of the phone field are a pasted number, a deletion
anywhere in it, and a key or paste anywhere in what is left; two digits
are enough to notice one that is lost, doubled or moved.  `CHECK_DEADLOCK FALSE` is right everywhere: users may stop tapping, and
a board where everything is delivered has nothing left to do.  `NoGhosts` and
`PointsAdded` are stated for runs without a lost connection or process, because
a resent creation may bring back a completed post, and a killed process may lose
a removal.
`HelperRewarded` and `NoGhosts` are not part of `rivals`, where a refused award
loses the points and a refused removal leaves the post on offer; with two
accounts on the second device, `rivals` and `crash` cover one account on two
devices and two accounts on one.
`FlagMeansSignedIn` is not stated once Login was tapped again with a sign-in
still under way: the callback of one of them may then find, and set the flag
for, a user that a logout between the two has signed out.  Nor is it stated
between the two writes of a logout, or after a process has ended there.
The properties of karma leave out the accounts that were mixed up (`mixed`): a
row was completed with the record of one while Auth had the other, which takes
a second sign-in, or a sign-up, that is answered below a tab bar.  The runs
contain these steps (`SignIn`, `LoginAgain`), and the properties hold for every
other account.

`store` has two writes so that one may be in a table, or a memtable that is
being written out, while the next is in the log or in a group with it; a
limit of one for memtables makes every write switch the memtable, a trigger of
one for level 0 makes every table a candidate of a compaction, and writers stop
at two tables, so that a memtable may be written out during a merge.  One crash is enough for the properties of
the files, because each says of every state what a recovery from it would find;
that a recovery may itself be interrupted is in them for the same reason, as
its states are states too.  `MaxFlushes` bounds the memtables written out in the
middle of one merge.  `levels` has as many levels as the code treats
differently (0, a flush target, one between, the last) and four writes, two to
make a level overlap and two above it; one deletion and one snapshot are what a
drop depends on.  In `formats` the sizes are the smallest at which everything is
cut somewhere: a record over three blocks, a block with a trailer, tables of two
blocks, numbers of two bytes.  In `shared` a third entry is what a search can
jump over, a third client adds nothing to two and the background thread, and a
third item is one that is scheduled while another runs and one waits.
`WritersReturn` is stated with unbounded fairness of the threads but a bounded
number of writes and failures.

Fairness.  On the board: a connection that is up carries writes and
acknowledgements (`Apply`, `Hear`) and observers report (`HomeEvent`,
`MarkEvent`, `FavEvent`, `FetchUserInfo`), because the library sends and
reports by itself whenever there is something to send or report.  No tap, no
upload and no refusal is fair.  On the form: a requested record, upload, write
or search is answered, with success or failure (the storage library gives up
after its retry time, the search reports errors).  A write is answered only
when the device comes online again, which is assumed.  The reverse geocoder is
not assumed to answer.  In `accounts` the callbacks are fair as a whole: every
request is answered, with success or failure, and each answer ends it or moves
it on, so that between two taps all of them come to an end.  In `store` the
operating system runs the threads of an open process (`Writer`, `Background`),
and in `shared` the background thread; no client, failure, crash or wake-up is
fair.

Findings (the two violation runs).

1. `points`.  `PinController.handleCheckClick` adds 50 to an `appUser` that was
   read once and is never refreshed: the second completion of a session writes
   the same sum.  Two posts completed, 50 points.
2. `karma`.  `UserInfoController.submitPressed` writes the name under the uid of
   whoever is signed in when its upload ends.  If that is an account without a
   record, the write makes one with a name and no points, and
   `usersArray[indexPath.row].karmaPoints!` traps in the Karma tab of every
   device.

Observations made while modelling, without a run of their own.  Either the
model has the behaviour and a property would only restate one assignment, or a
property above is stated so as to leave it out, as its comment says.

- The pin button of the Pinned tab indexes `postArray`, which nothing fills
  (`PinController.swift:293`): every tap traps in place of removing the pin.
- `HomeViewCollection.swift:204` writes the uid under `completedBy`, where
  `PinController.swift:346` writes, and the Completed tab shows, a user name.
- `PinController.handleCheckClick` reads the user of Auth at the tap (lines 303,
  331) and the points and the name from a record that `viewDidLoad` asked for
  (lines 311, 312).  Nothing keeps Login from being tapped twice
  (`LoginController.swift:55`), and a sign-up signs in whenever its account has
  been created (`SignUpController.swift:173`), so Auth's user may change below a
  tab bar.  A check then writes the sum of one account into the record of the
  other, which may rise by any number or fall, and names the first as the helper
  (lines 318, 346): `MixedUp`, `MixedAway`.
- `handleLogout` signs out and then resets `UserIsLoggedIn`
  (`HomeController.swift:265-266`).  If the process ends in between, the next
  start shows the tab bar with nobody signed in, and the first row of the Home
  tab unwraps the current user (`HomeViewCollection.swift:120`): `torn`.
- `resetValues` (`AddPostController.swift:339`) gives the category button its
  prompt back and keeps the selected category: the next post goes out under the
  old category without "Please select a Category!".
- LevelDB's log: an append that fails in the middle (`db/log_writer.cc:107`)
  fails its own write only (`db/db_impl.cc:1223`).  Later records go behind the
  torn fragment, and the writer's idea of where blocks end is off: they are
  acknowledged, with `sync` too, and may not be found by a recovery
  (`include/leveldb/options.h:187`).  `RecordLog` has the torn fragment
  (`UndamagedAreRead` is stated without failures), `Store` what becomes of the
  writes: `AckedSurviveExit` and `SyncedSurvivePower` leave out those that are
  behind a tear in a log (`Astray`), until they are in a table or are lost.
- A recovery ignores a log that it cannot read, as long as `paranoid_checks` is
  off (`db/db_impl.cc:386-389`, and 397 for an error in the middle), and
  `DeleteObsoleteFiles` removes the log afterwards, with acknowledged writes that
  are nowhere else: `ReadLogFails`, and `Forget`, which takes them out of what the
  properties speak of.
- `NewDB` closes the first MANIFEST without a sync (`db/db_impl.cc:196`).  With
  `reuse_logs`, an experimental option, `DB::Open` goes on with that file
  instead of a new one, and the first write with `sync` is reported done while
  nothing of the MANIFEST that CURRENT names is synced: a loss of power may leave
  no way to find it (`include/leveldb/options.h:199`).  The option is off by
  default, and `Store` does not model it: each recovery writes a MANIFEST anew and
  syncs it.
- A `TEST_CompactRange` that stops waiting (`db_impl.cc:616`) leaves a merge
  under way whose end dereferences a NULL `manual_compaction_`
  (`db_impl.cc:756-767`): `NullManual`.
- Two outputs of one merge may share a user key whose versions are divided between
  them (`split`): `ShouldStopBefore` looks at an entry, not at a user key, and the
  assertion of `version_set.cc:742` compares entries too.  A later compaction that
  takes only the table with the newer versions moves them below the older, against
  the comment of `db_impl.cc:963`, and a read finds the older ones first.  Without
  this exception `levels` finds `NewerAbove` and `ReadsNewest` broken after ten
  steps.
- A flush during a manual compaction may place its table between two tables that
  are being merged into one range (`lapped`): tables of one level then overlap,
  which `version_set.cc:742` asserts they do not, and a `Get` that looks for its
  key by bisection may look into the wrong one.  The instance of `levels` is too
  small to show it.  With three keys and five writes, no deletions and no
  snapshots, and without this exception, TLC finds `LevelsDisjoint` broken after 13
  steps and `ReadsNewest` after 14.
- `repair.cc:189-194` says that the reader checks checksums and passes `false`
  ("do not checksum"): damaged records of a log are taken in, also with sequence
  numbers that were never given out.  Repaired tables all go to level 0, where
  reads take the newest file number for the newest data, which need not be so.
- `FindFiles` (`repair.cc:116-147`) does not look into `lost/`.  When a call has
  archived the table with the highest number and then fails or ends, the next
  call gives that number out again, and if a table of that number is archived
  too, `ArchiveFile` (line 434) replaces the one in `lost/`, with whatever only
  it had.  No document promises otherwise; `OnlyReplacedIsDestroyed` shows that
  it takes a damaged table, or a whole one and a failed operation, and that a log
  is never replaced.
- A whole table goes to `lost/` when its size cannot be found out
  (`repair.cc:262-279`), and to `RepairTable` when it cannot be opened or read for
  once (305-317).  The loop that copies it (335-341) does not ask the iterator for
  its status: a read that fails leaves an incomplete copy, which takes the
  table's name.  The rest is in `lost/`, unless archiving it has failed too, which
  is ignored: then the rename destroys it.  `formats` does not reach that with its
  bounds (a third write, or a third failure, is needed for the copy to miss
  something that no other file has); `failures >= 2` of the properties is this
  case, and the theorems cover it.  The entry of a table that was repaired also
  has the key range and the last sequence number of the scan, not of the copy:
  with a failed read the descriptor's `last` may be too low, so `RepairedIsWhole`
  promises it only when no operation failed.
- A lookup of a key that does not exist may report the corruption of another
  key's entry (`SaveValue`, `version_set.cc`).
- `LockFile` closes the descriptor when the table refuses (`env_posix.cc:471`),
  which drops the kernel's lock of the thread that has it: another process may
  then lock the database (`env.h:112`); `OneHolderUnlessCrowded`.
- nanopb: a packed array that overflows returns without closing its substream
  (`pb_decode.c:396` against the reminder of line 320), so the next message is
  read from inside it; a message may have more required fields than
  `PB_MAX_REQUIRED_FIELDS` and those behind are not checked (line 947);
  `pb_check_proto3_default_value` looks at the first item only.

## 4. Proofs

`PostBoardProofs` starts with the facts about the outbox that the rest needs: what
`Issue`, `ServerApply`, `ServerRefuse` (with `Without`), `Acknowledge`,
`Reconnect` and `LoseOutbox` of `RealtimeDatabase` do to the values held in the
tree and in the outboxes, for any type of writes.  Then:

- `TypeCorrect`: `Spec => []TypeOK`, for all constants that satisfy
  `BoardAssumption`.  `TypeOK` is inductive as it stands; its last conjunct (a
  device without a tab bar shows nothing, and behind one somebody is signed in)
  is what makes the taps well-typed, since a row is tapped by a signed-in user.
- `KarmaBounded`: `Spec => []KarmaWithinChecks`.  The bound on the tree is not
  inductive: the points there come from an outbox, and those in an outbox from
  an `appUser` on a screen.  The invariant `KarmaInv` therefore bounds all three
  by the number of taps of the user: every value of `users/` in the tree or in
  any outbox (`KarmaInTree`) and every `me[c]` (`KarmaOnScreens`).  A tap raises
  the bound by 50 exactly when it issues a sum that is at most 50 above one of
  the values bounded already; resent, reordered across devices or refused, a
  value never exceeds the bound it was issued under, and the bound never falls.
  A tap that takes the sum from the record of somebody else puts the account on
  the list of exceptions (`MixedUp`), which only grows, in the same step; so a
  record on a screen is bounded unless it is that of an account on the list.

The second part of `PostBoardProofs` is about the order of the writes.  Its theorems
name what they ask of the server, since a refused completion really does lose a post:

- `PostsKept`: if `completed/` is not refusable, `Spec => []NoPostLost`.
- `UsesPublished`: if `posts/` is not refusable, `Spec => []PostedBeforeUse`.
- `HelpersRewarded`: if `users/` is not refusable, `Spec => []HelperRewarded`;
  the award (`Award`) stands in front of the completion, unless the tap mixed
  two accounts (`Confused`).
- `ImplementsLifecycle`: if neither `posts/` nor `completed/` is refusable,
  `Spec => FollowsLifecycle`, the refinement of `PostLifecycle` under
  `stageOfPosts`.

One inductive invariant, `OrderInv`, carries all four.  None of the properties
is inductive, because the next write of any outbox may break it.  `NeedsFirst`
says what a write needs to have been stored before it (a removal needs the
completion, a completion under a username needs the award, any use of a post
needs its creation), and `WritesInOrder` says that for every write of every
outbox this is stored already or stands in front of it, not yet applied over
the connection of now (`Ahead`).  A lost connection makes everything in the
outbox outstanding again, and so leaves what was in front in front; an
acknowledgement or an application removes a write from the front only after it
was stored; a refusal is the one step that can remove it unstored, hence the
assumptions.  `StoredStays` shows that what has been stored is only ever
replaced by something as good.  `ListsBacked` says the same of the posts on
every screen, which is what makes a tap on a stale row safe, and
`CreationsPublished` that a creation the server has applied stays known to the
history even while its acknowledgement is under way.  For the refinement, a
step changes the tree only if the server applies a write; of one post at most,
and `WritesInOrder` makes that an `Open`, a `Finish` or a stutter.

Its third part is about what holds only while nothing
is sent twice.  Its theorems speak of the positions of an outbox, so its first
lemmas say how a step of a connection moves them (`Slides`): the order stays, nothing becomes
outstanding again, and only the next write stops being so (`Pending`).

- `CompletedPostsGo`: if `posts/` is not refusable, `Spec => []NoGhosts`.  The
  inductive invariant `GhostInv` says, as long as no connection and no process
  was lost, that behind every outstanding completion comes the removal of the
  post (`RemovalsBehind`) and that the removal of a post which is open and
  completed is outstanding somewhere (`GhostsLeave`).  What could undo a removal
  is a creation that is applied later; so the invariant also says that a post
  which is still to be created, by a write (`CreationsAhead`) or by an upload
  (`UploadsAhead`), has one creation only and was never published, and
  `OrderInv` says that such a post has not been completed.
- `PointsNeverFall`: `Spec => KarmaNeverFalls`, an action property.  The
  invariant `RisingInv` says whose points an outbox may hold (`OwnKarma`), and,
  with one device per account and no lost connection, that the tree is never
  above the last write of a user's points that reached it nor above those that
  will, which come in a rising order (`KarmaRises`), and that the record which
  `PinController` keeps is at most one award behind the tree and the outbox
  (`RecordRecent`): the next sum it computes is again at least all of them.
  Both are stated of the accounts that were not mixed up; `asked[c]` belongs to
  an account of device `c`, whose record no other device writes.
  Only an application by the server changes the tree, and it applies a write
  that `KarmaRises` bounds from below.

`AddPostFormProofs`:

- `FormTypeCorrect`: `Spec => []TypeOK`, and `InputSurvives`:
  `Spec => []InputKept`, from one inductive invariant `FormInv`.  `TypeOK` says
  that the queue holds exactly the posts on their way, which is preserved only
  because no post is in it twice (`QueuedOnce`).  `InputKept` speaks of the
  photo and of the author of a post, which are read when the user's record
  arrives and when the write is made; until then the form has to have the photo
  of the tap (`WaitingSees`) and the user of the tap (`SameUser`), across
  photos picked, forms cleared by older posts, and logins as somebody else.

`AccountsProofs` is about `Sessions` and `PhoneField`:

- `SessionsTypeCorrect`: `Spec => []TypeOK` of `Sessions`.
- `FlagAgreesWithAuth`: `Spec => []FlagMeansSignedIn`.  A sign-in's callback
  sets the flag whoever is signed in by then.  `FlagInv` therefore says that
  while Login was not tapped twice there is at most one sign-in (`OneLogin`),
  that its login screen is in front until the callback has run, so that nobody
  can log out meanwhile (`LoginShown`), and that Auth has a user from the answer
  on (`AnsweredSignedIn`); a logout begins and ends on a tab bar (`LeavesTabs`),
  and between its writes, and after a process that ended there, the flag is
  excepted.
- `TheNumberIsKept`: `MCSpec => []NumberKept`, about `PhoneField` as `MCAccounts`
  instantiates it, for any digits, any pastes and any number of edits.
  `TypeOK` and `ElevenDigits` are inductive together (`PhoneInv`); `DigitsStay`
  and `BackspaceWorks` follow from the types.  What carries the proof is about
  texts of any length: `DigitsConcat` (the digits of two texts, one behind the
  other, are those of the first and those of the second), `DigitsOfDigits`, and
  from them `MaskKeeps`: the six parts of `phoneMask` leave nothing out and
  repeat nothing.
- `OneRecord`: `Spec => []OneRecordPerAccount`.  `RecordInv` follows the record
  of an account through three places, the sign-up whose account was created, the
  outbox and the server: it is in none of them before the account exists
  (`NoneYet`) and in one of them at most afterwards (`OnePlace`), and nothing
  but a sign-up writes points (`WholeWrites`).

`StoreProofs` is about a LevelDB database:

- `NothingAckedIsLost`: `Spec => []AckedSurviveExit`, `PinnedFilesStay`:
  `Spec => []ReadersSeeAll`, and `StoreTypeCorrect`: `Spec => []TypeOK`, for any
  sizes of memtables and levels, and whatever the bounds.  The first says nothing
  of writes that are behind a failed append in a log and nowhere else (`Astray`),
  of those that a recovery failed to read, and of a recovery that stops at a torn
  MANIFEST; the second and third have no exception.  `AckedSurviveExit` speaks of files only, and no step preserves it by
  itself: a deletion of logs keeps it because tables hold their writes, a merge
  because its output does, the opening of a database because it goes through
  the logs in order.  One inductive invariant, `StoreInv`, carries all three:
  - `CoverInv`, of a running process: what was acknowledged is in the memtable,
    in the one being written out, or in tables of the version; what is in a
    memtable is in logs that neither the process nor the MANIFEST has given up;
    the MANIFEST's version has at least the data of the one in memory.  That ends
    when a failed append tears the MANIFEST (`Torn`): no later version gets there.
    But then there is an error, nothing is deleted any more, and the files that the
    MANIFEST had in mind have everything.
  - `ExactInv`: without a background error the MANIFEST says what the process
    believes, but for an edit that is logged and not yet installed.  This is why
    `DeleteObsoleteFiles` may go by the version in memory, and why it must not
    after an error (`MayCollect`).
  - `FlushInv`, `CompactionInv`: a completed edit adds tables that hold what it
    takes away; a merge's output is named by nobody until it is finished
    (`Unused`), although a memtable may be written out and installed meanwhile.
  - `OpeningInv`, of a recovery: what was acknowledged is in tables of the
    version, in tables that the recovery has made, or in logs still to be read; the new MANIFEST, before CURRENT names it, already stands
    for the version that will be installed.
  - `FreshInv`, and in `DiskInv` the order of the edits' file numbers
    (`InOrder`): no file that a version names has a number that may be given out
    again.  A recovery may do that with leftover tables, whose numbers no edit
    mentions.
  - `ReadersInv`, `WritingInv`: what is pinned, and what the group that is being
    written has in the log already.

  `Replay` gives the version of a MANIFEST as a set, what an edit adds and no
  later one deletes; `ReplayAppend` is the lemma that one more edit does to it
  what `VersionSet::Builder` does.  There is one lemma for each action or pair of
  actions (`...Keeps`), and lemmas for what several of them have in common: an
  edit reaches the MANIFEST or may have (`EditLogged`), is installed and files
  go (`EditInstalled`), tables come (`TablesStep`), the end of a process
  (`DownInv`).

`StoreDurableProofs` goes on about losses of power:

- `SyncedWritesSurvive`: `Spec => []SyncedSurvivePower`, for any constants and
  with the exceptions of `NothingAckedIsLost`; `reuse_logs`, with which it would
  be false (section 3), is outside of the model.  A loss of power may take the unsynced end of
  every log and of the MANIFEST, so the property asks that *each* part of the
  MANIFEST which may be left finds the synced writes, in tables that exist or in
  the synced part of the logs that this part starts from.  `DurableInv`, beside
  `StoreInv`, is inductive:
  - `PrefixInv` is the property itself, over the parts of the MANIFEST
    (`Finds`).  An edit whose sync failed may be in the file or not, and a flush
    in the middle of a merge may log another one behind it; after an error
    nothing is deleted (`MayCollect`), which is what keeps the shorter parts
    whole.
  - `PlacesInv`, of a running process: without an error all of the MANIFEST is
    synced; a synced write is in tables, in the memtable being written out, or in
    the synced part of the log of now, and of the logs that the version starts
    from.  The memtable itself does not count, and a log that is rotated before
    its end was synced keeps what was.
  - `GroupInv`: nobody who asked for sync is in a group whose first writer did
    not (`Joins`), and a group with sync is in the synced part of the log before
    it is reported done.
  - `MergeInv`: the output of a merge is empty until it is finished, so that
    finishing it takes nothing from any part of the MANIFEST.
  - `FreshManifestInv`: when CURRENT names the MANIFEST of a recovery, that is one
    synced record.  It never is the file that CURRENT named before, whose numbers
    are all beyond its own (`NumberInv`, in `DiskInv`), and the memtables of the
    logs are all in tables by then.

`LevelsProofs` is about the tables of a database in use, for any numbers of levels,
keys, writes and snapshots and any limits on sizes (`LevelsAssumption`, which
`MCLevels` assumes of its constants):

- `TablesStayInOrder`: `Spec => []LevelsWellFormed`, and `ReadsTheNewest`:
  `Spec => []ReadsNewest`, from one inductive invariant, `IInv`.  Its `Base` holds
  always: every entry has a sequence number of its own, tables have numbers of
  their own, a memtable is newer than every table (`MemOK`), and so are the newer
  tables of level 0 than the older.  The rest, `Right`, holds until a memtable is
  flushed during a manual compaction, and but for the keys in `split`; these are
  the two exceptions in the properties; section 3 says what happens without
  them, and on which instances TLC shows it.
  - `LevelsApart` and `LevelsNewer` say of the tables what the properties say, entry
    by entry: two tables of a level behind level 0 lie one before the other, and an
    entry above is newer than one of the same key below.
  - `Retained`: in what memtable and tables still hold, each read point sees the
    value that it sees in everything ever written.
  - `JobRight`, of the compaction under way, is what makes these survive.  It is a
    statement about tables that other actions add while the merge runs: those of the
    level it writes to lie outside all that it takes and share no key with what it
    takes from above (`Isolated`), those of the level it takes from are newer
    (`OthersNewer`), and those added further down since it began have none of its
    keys (`NoneDeeper`), since it will not look at them when it asks whether a
    deletion has something left to hide.

  Why a flush keeps `JobRight` is the heart of the proof.  `PickLevelForMemTableOutput`
  compares the memtable with the tables one by one, and would put it between two
  tables that are being merged into one range.  A compaction that picks its
  inputs itself starts from one table, or in level 0 from all that overlap it, and
  what it adds overlaps what it has: no range that touches its inputs as a whole
  passes between them (`Covered`, which grows with each table that touches the
  others, `CoveredGrows`).  The inputs of a manual compaction, all tables of a level
  in a range, may leave such a gap.
  - `GetOverlappingInputs` in level 0 widens its range until no table reaches beyond
    it: the model says that this is the least closed range, and `LeastClosed` that
    there is one.  From it follows that no table that was not found shares a key
    with one that was (`OverlapFacts`).
  - `OutputsHold` goes through the loop of `DoCompactionWork`, turn by turn
    (`Written`): whichever grandparents cut the output, its tables are in order and
    hold exactly the entries that are `Kept`.  `Outputs` is a function on the turns,
    so the proof needs no induction over a fold.
  - A trivial move and a merge are one lemma, `ReplacedKeeps`: tables are replaced by
    others with the same entries but for those dropped.  `DroppedUnseen` shows that
    a read point whose newest entry is dropped sees nothing any more: the entry is
    not hidden, for what hides it would be newer, so it is a deletion at its base
    level, and by `NoneOlder` whatever the merge did not take is newer.
  - `TableFound` and `GetFindsNewest`: the binary search of a level ends at the
    table that has the key, and the first table of `ForEachOverlapping` that has an
    entry has the newest.

`RepairProofs` is about `RepairDB`, for every number of writes, damages, failed
operations and ends of the process, every set of keys, and any order of files:

- `RepairInvariant`: `Spec => []TInv`, the inductive invariant, and from it
  `RepairTypeCorrect`: `Spec => []TypeOK`.
- `NothingIsDestroyed`: `Spec => []NothingDestroyed`.  That is not inductive:
  archiving a table replaces a file of `lost/`.  `Kept` says more, that each
  entry is in the directory or in a file of `lost/` that this call will not
  replace, because no table with its number is still to be archived (`Pending`).
  A log is in one of the two places only (`Apart`).  `Copying` counts: a table
  that is still there when its copy is renamed over it has the same entries,
  unless two operations failed, and one that is not there is in `lost/` with
  them.
- `ARepairedDatabaseIsWhole`: `Spec => []RepairedIsWhole`.  `Taken` says that the
  tables taken over stay where they are, whole, with numbers below the next one;
  `Converting`, `Doubting` and `Copying` what is on disk, in `lost/` and in the
  hands of the Repairer between the steps of `ConvertLogToTable`, `ScanTable` and
  `RepairTable`; `Seen` that a scan has seen what the copy has, if nothing failed;
  `Accounted` that, as long as nothing failed, the entries in all these places
  are exactly those there were; `Installing` that the new manifest says so.
  `Using` and `Bounded` are about the database before: what it numbers next is
  behind its files, and there are finitely many.
- `OnlyReplacedFilesAreDestroyed`: `Spec => OnlyReplacedIsDestroyed`, an action
  property: an entry that a step removes from its file is in another file by
  then, or was in the file of `lost/` that the step replaces, but for the rename
  of a copy after two failures.

The highest number in the directory exists because the numbers have a bound:
`LeastNumber` and `BoundedMax` show it by way of the least bound, with the
library's theorem that `<` on the naturals is well-founded.

`SharedProofs` is about what LevelDB's threads share: `MemTable` and `TableCache`
as `MCShared` instantiates them, and the locks and the background thread of
`PosixEnv`.

- `SearchesAreSound`: `MCSpec => []SearchesSound`, for any keys, heights, sizes of
  blocks and numbers of entries.  The writer inserts, the reader searches without
  a lock, and a load returns any store its clock does not exclude.
  `SharedInv` is inductive:
  - `MemInv`, of the stores in their order: a pointer leads to a node whose key,
    height and lower links were stored before it (`WholeFirst`), and to one behind
    its own node in the order of keys (`Sorted`); only the first store of a link
    is a plain one (`PlainFirst`); the newest links of the lowest level skip no
    entry (`Successors`).  The last part is what the reader's old loads need:
    when an entry is linked, each link stored earlier that leads past it has a
    newer store by then (`NonePassed`), so whoever has the clock of the first
    cannot load the older one.
  - `PublishedInv`: who has the clock that was published has all links of the
    entries below the published sequence number (`Links`).
  - `ReaderInv`: the reader is at a node it can see whole (`Visible`) and in
    front of its target (`Behind`), and an iterator that has landed has skipped
    none of the entries its snapshot covers (`Right`).

  The search of the writer is followed turn by turn (`WalkInv`), until it has a
  place for the new node on every level (`Placed`); that it ends within as many
  turns as there are nodes and levels is shown with the rank of a node
  (`RankOf`).  `ArenaInv` says that the regions are inside their blocks, aligned,
  apart, and in the block of now behind where allocation goes on.
- `CacheIsSound`: `MCSpec => []CacheSound`, for any tables, hash values, charges,
  capacities, limits on files, numbers of entries and of clients.  The five parts
  of `CacheSound` follow from one invariant, `CacheInv`, in two halves.  `CacheOK`
  is about the cache alone, given how many handles there are to each entry and
  which files clients have opened that are no entry's yet: an entry counts its
  handles, and one more for the cache (`EntryOK`); `lru_` lists what only the cache
  refers to and `in_use_` the rest, each once (`ListsOK`); each chain of the hash
  table lists the entries with its hash, no two of one key (`ChainsOK`,
  `OnePerTable`); `usage_` is the sum of the charges; what is open and what the
  limiters have left add up (`FilesOK`).  `Sound` adds that these are the handles
  and the files that the clients really have.

  A call goes through states in which `CacheOK` does not hold: `Insert` has its
  entry on a list before it is in the table, and an entry that was replaced or
  removed is still on its list.  `CacheOK` therefore takes a set of entries, `out`,
  that are in the cache and not in the table.  Each helper of the code has a lemma
  that says what it does to the handles, the files and `out` (`RefOK`, `UnrefOK`,
  `FinishEraseOK`, `ChainNewOK`, `ChainOldOK`, `RemoveOK`, `ResizeOK`, `InsertOK`,
  `PruneAllOK`, `DropAllOK`), and a step of a client puts a few of them together.
  The loops of the code are functions on the turns: `LoopExists` says that there is
  such a function, `LoopKeeps` that it keeps what each turn keeps.
- `OneThread`: `Spec => []OneThreadPerProcess`, and `OneHolder`:
  `Spec => []OneHolderUnlessCrowded`, for any number of processes and threads.
  Neither is inductive.  The kernel's lock does not tell the threads of a
  process apart, so what keeps them apart is the table; but a thread is in the
  table before it has the lock and after it gave it back, and a refused thread
  drops the lock of another one.  `LockInv` therefore says that at most one
  thread of a process is between `Insert` and `Remove` (`OneInside`), that the
  process is in the table while one is (`InsideInTable`), that a process which
  is not crowded has at most one thread in the two functions at all
  (`AloneUnlessCrowded`), and that such a process owns the kernel's lock while
  its thread holds the database (`OwnerUnlessCrowded`).  The lemmas are about
  the effect of one thread's step on each conjunct.
- `InOrder`: `Spec => []RunInOrder`: what ran and what waits are together the
  numbers of the scheduled items in order; a step moves the head of one sequence
  to the end of the other.
- `EnvTypeCorrect`: `Spec => []TypeOK` of `PosixEnv`.

Assumptions: only the named `ASSUME`s of the modules, which TLC evaluates in
every run of them, and the hypotheses above.  Model-checked only: the two
properties that the code breaks, `PointsAdded` and `RecordsWhole` (section 3),
and of the libraries the formats (`RecordLog`, `Records`, `Tables`,
`DBIterators`, `Messages`).  Liveness is
beyond the prover as it needs `ENABLED`.  The library's induction theorems take
the statement as an operator, which the provers cannot instantiate; where a proof
needs an induction it takes the least counterexample instead (`LeastNumber`,
from the theorem that `<` is well-founded on the naturals), which is how the
highest number of a directory is found and how the digits of a text are counted.

## 5. Not modelled

- Photos of reused cells and the image cache (`Extensions.swift:12-40`): a late
  download may show the picture of another post for a while; no record depends
  on it.
- Welcome pages and menu bar: page arithmetic; layout, colours, labels.
- The swipe from a tab bar back to a screen below it, also to an older tab bar; a
  tab bar that a start has opened with nobody signed in, which traps at the first
  row of Home; a first record of an account that is sent again after a lost
  connection, over the points its owner has by then.
- Firebase itself (closed frameworks: what the app sees of it is
  `RealtimeDatabase` and callbacks that come late, fail or never come),
  GTMSessionFetcher and GoogleToolboxForMac, which only Firebase uses.
- LevelDB: `DestroyDB`, properties and statistics, compression and block
  checksums, old `.sst` names, the C interface, `NewId` of the cache, custom
  comparators and filter policies, Windows and atomic-operation ports other than
  the fences that `AtomicPointer` promises.
- nanopb: custom streams and their I/O errors, pointer fields (the build has no
  `PB_ENABLE_MALLOC`), callbacks that fail or sit inside repeated or oneof
  submessages, extensions with callbacks of their own, more than 64 required
  fields, field descriptions that its generator would refuse.

Worth proving next: the formats.  Their codecs are written with folds and
RECURSIVE operators over sequences of any length, which TLC runs and the prover
cannot use; each would first have to become a function on the turns of its loop, as
`Outputs` of `Levels` and the helpers of `TableCache` are.
