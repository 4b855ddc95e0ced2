---------------------------- MODULE AddPostForm -----------------------------
(***************************************************************************)
(* The Add Post tab of one running app: the form (AddPostController,       *)
(* AddPostViewCollection and the category button of DropDownButtons), the  *)
(* map that picks a place (LocationController), and the submissions.       *)
(*                                                                         *)
(* A submission takes the text, the category and the place at the tap, the *)
(* photo when the record of the user has arrived, and clears the form when *)
(* the server has accepted the post.  Nothing stops the user from changing *)
(* the form, submitting again, opening the map, leaving the tab or logging *)
(* out meanwhile, and the photos are uploaded in any order.                *)
(***************************************************************************)
EXTENDS Naturals, Sequences

CONSTANTS
    User,       \* accounts that sign in on this device
    Text,       \* what may be typed as title and description
    Category,   \* the entries of the category button
    Place,      \* addresses, each with its coordinates
    Photo,      \* photos in the library
    Nothing,    \* an empty field, no category, no coordinates, default image
    MaxTouches, \* bound on what the user does
    MaxSubmits, \* bound on the submissions of a process
    MaxLogins   \* bound on the tab bars that a process makes

ASSUME FormAssumption ==
    /\ Nothing \notin Text \cup Category \cup Place \cup Photo
    /\ MaxTouches \in Nat /\ MaxSubmits \in Nat /\ MaxLogins \in Nat \ {0}

VARIABLES
    forms,      \* one per tab bar made so far; the last one is in use
    tab,        \* the selected tab, "add" or any "other" one
    map,        \* LocationController is on top of the form
    modal,      \* what covers the screen: "none", "photos" or "search"
    hidden,     \* the tab bar is hidden
    here,       \* latitude and longitude in LocationController
    searching,  \* a search is under way, and touches are ignored
    asking,     \* the coordinates the open map is reverse-geocoding
    orphan,     \* a map that was left still waits for its geocoder
    subs,       \* the submissions, in the order of their taps
    queue,      \* those whose post is on its way, in the order of the writes
    tapped,     \* history: what the form held at each tap
    calm,       \* history: the submissions whose photo was left alone
    typed,      \* history: what the user last put into the form in use
    cleared,    \* history: an accepted post has cleared the form in use
    touches     \* how much of MaxTouches is used

screenVars == <<tab, map, modal, hidden>>
mapVars == <<here, searching, asking, orphan>>
subVars == <<subs, queue, tapped>>
historyVars == <<calm, typed, cleared>>
vars == <<forms, screenVars, mapVars, subVars, historyVars, touches>>

\* The fields, the title of the category button, the place that the
\* controller puts in its field, and the userId read when it was made.
FormOf(u) ==
    [user |-> u, text |-> Nothing, category |-> Nothing, label |-> Nothing,
     place |-> Nothing, photo |-> Nothing, location |-> Nothing]

NothingTyped == [text |-> Nothing, photo |-> Nothing]

Init ==
    /\ \E u \in User : forms = <<FormOf(u)>>
    /\ tab = "other" /\ map = FALSE /\ modal = "none" /\ hidden = FALSE
    /\ here = Nothing /\ searching = FALSE
    /\ asking = Nothing /\ orphan = FALSE
    /\ subs = <<>> /\ queue = <<>> /\ tapped = <<>>
    /\ calm = {} /\ typed = NothingTyped /\ cleared = FALSE
    /\ touches = 0

InUse == Len(forms)
form == forms[InUse]

Touch ==
    /\ ~searching
    /\ touches < MaxTouches
    /\ touches' = touches + 1

FormShown == tab = "add" /\ ~map /\ modal = "none"
MapShown == tab = "add" /\ map /\ modal = "none"

SetForm(f) == forms' = [forms EXCEPT ![InUse] = f]

\* viewWillAppear writes the controller's place over what the field holds,
\* and shows the tab bar.
Appear(f) ==
    /\ SetForm([f EXCEPT !.place = f.location])
    /\ hidden' = FALSE

Waiting == {i \in DOMAIN subs : subs[i].stage = "record"}

-----------------------------------------------------------------------------
(* The form.                                                               *)

Edit(f) ==
    /\ FormShown
    /\ Touch
    /\ SetForm(f)
    /\ UNCHANGED <<screenVars, mapVars, subVars, calm, cleared>>

TypeText(t) ==
    /\ Edit([form EXCEPT !.text = t])
    /\ typed' = [typed EXCEPT !.text = t]

TypePlace(x) == Edit([form EXCEPT !.place = x]) /\ UNCHANGED typed

\* dropDownPressed: the entry becomes the selected category and the title.
ChooseCategory(k) ==
    /\ Edit([form EXCEPT !.category = k, !.label = k])
    /\ UNCHANGED typed

OpenPhotos ==
    /\ FormShown
    /\ Touch
    /\ modal' = "photos"
    /\ UNCHANGED <<forms, tab, map, hidden, mapVars, subVars, historyVars>>

\* The picker covers the whole screen, so the form appears again behind it,
\* if its tab is still the selected one.
ClosePhotos(f) ==
    /\ modal = "photos"
    /\ Touch
    /\ modal' = "none"
    /\ IF tab = "add" THEN Appear(f) ELSE SetForm(f) /\ UNCHANGED hidden
    /\ UNCHANGED <<tab, map, mapVars, subVars, cleared>>

PickPhoto(ph) ==
    /\ ClosePhotos([form EXCEPT !.photo = ph])
    /\ typed' = [typed EXCEPT !.photo = ph]
    /\ calm' = {i \in calm : i \notin Waiting \/ subs[i].of # InUse}

CancelPhotos == ClosePhotos(form) /\ UNCHANGED <<typed, calm>>

SelectTab(t) ==
    /\ tab # t
    /\ ~hidden /\ modal = "none"
    /\ Touch
    /\ tab' = t
    /\ IF t = "add" THEN Appear(form) ELSE UNCHANGED <<forms, hidden>>
    /\ UNCHANGED <<map, modal, mapVars, subVars, historyVars>>

\* handleLogout and a login: a new tab bar, with controllers of its own.  The
\* old ones stay behind it, and their submissions go on.
LoginAgain(u) ==
    /\ modal = "none" /\ ~MapShown
    /\ InUse < MaxLogins
    /\ Touch
    /\ forms' = Append(forms, FormOf(u))
    /\ tab' = "other" /\ map' = FALSE /\ hidden' = FALSE
    /\ here' = Nothing /\ asking' = Nothing
    /\ typed' = NothingTyped /\ cleared' = FALSE
    /\ UNCHANGED <<modal, searching, orphan, subVars, calm>>

-----------------------------------------------------------------------------
(* The map.                                                                *)

OpenMap ==
    /\ FormShown
    /\ Touch
    /\ map' = TRUE
    /\ hidden' = TRUE
    /\ UNCHANGED <<forms, tab, modal, mapVars, subVars, historyVars>>

Back ==
    /\ MapShown
    /\ Touch
    /\ map' = FALSE /\ here' = Nothing /\ asking' = Nothing
    /\ orphan' = (orphan \/ asking # Nothing)
    /\ Appear(form)
    /\ UNCHANGED <<tab, modal, searching, subVars, historyVars>>

\* The device reports where it is, whatever has been searched for.
Gps(x) ==
    /\ map
    /\ here' = x
    /\ UNCHANGED <<forms, screenVars, searching, asking, orphan, subVars,
                   historyVars, touches>>

OpenSearch ==
    /\ MapShown
    /\ Touch
    /\ modal' = "search"
    /\ UNCHANGED <<forms, tab, map, hidden, mapVars, subVars, historyVars>>

CloseSearch ==
    /\ modal = "search"
    /\ Touch
    /\ modal' = "none"
    /\ UNCHANGED <<forms, tab, map, hidden, here, asking, orphan, subVars,
                   historyVars>>

CancelSearch == CloseSearch /\ UNCHANGED searching

\* searchBarSearchButtonClicked
Search == map /\ CloseSearch /\ searching' = TRUE

\* With a bug: a map that is gone does not handle the answer.
AnswerOnMap ==
    /\ searching /\ map
    /\ searching' = FALSE
    /\ here' \in Place \cup {here}
    /\ UNCHANGED <<forms, screenVars, asking, orphan, subVars, historyVars,
                   touches>>

\* The answer finds a place or nothing; the map may have been popped by then.
SearchAnswer ==
    /\ searching
    /\ searching' = FALSE
    /\ here' \in IF map THEN Place \cup {here} ELSE {here}
    /\ UNCHANGED <<forms, screenVars, asking, orphan, subVars, historyVars,
                   touches>>

\* A trap ends the process, and a new one starts.
Trap ==
    /\ forms' = <<FormOf(form.user)>>
    /\ tab' = "other" /\ map' = FALSE /\ modal' = "none" /\ hidden' = FALSE
    /\ here' = Nothing /\ searching' = FALSE
    /\ asking' = Nothing /\ orphan' = FALSE
    /\ subs' = <<>> /\ queue' = <<>> /\ tapped' = <<>>
    /\ calm' = {} /\ typed' = NothingTyped /\ cleared' = FALSE

\* The check mark.  Without coordinates latitude! traps.  The geocoder takes
\* one request at a time and fails the others at once.
Done ==
    /\ MapShown
    /\ Touch
    /\ IF here = Nothing
       THEN Trap
       ELSE /\ asking' = IF asking = Nothing THEN here ELSE asking
            /\ UNCHANGED <<forms, screenVars, here, searching, orphan, subVars,
                           historyVars>>

GeocodeFails ==
    /\ asking # Nothing
    /\ asking' = Nothing
    /\ UNCHANGED <<forms, screenVars, here, searching, orphan, subVars,
                   historyVars, touches>>

\* The address goes to the form, which appears if its tab is selected.
GeocodeAnswer ==
    /\ asking # Nothing
    /\ map' = FALSE /\ here' = Nothing /\ asking' = Nothing
    /\ LET f == [form EXCEPT !.location = asking]
       IN  IF tab = "add" THEN Appear(f) ELSE SetForm(f) /\ UNCHANGED hidden
    /\ UNCHANGED <<tab, modal, searching, orphan, subVars, historyVars, touches>>

\* A map that was left has no navigation controller: the answer traps.
OrphanAnswer == orphan /\ Trap /\ UNCHANGED touches

OrphanFails ==
    /\ orphan
    /\ orphan' = FALSE
    /\ UNCHANGED <<forms, screenVars, here, searching, asking, subVars,
                   historyVars, touches>>

-----------------------------------------------------------------------------
(* Submissions.                                                            *)

Draft(f) == [text |-> f.text, category |-> f.category, place |-> f.place]

Cleared(f) ==
    [f EXCEPT !.text = Nothing, !.label = Nothing, !.place = Nothing,
              !.photo = Nothing, !.location = Nothing]

\* What a tap on Submit sends.  The category stays with the button; the photo
\* is not looked at yet.
Send ==
    /\ FormShown
    /\ Len(subs) < MaxSubmits
    /\ Touch
    /\ subs' = Append(subs, [stage |-> "record", of |-> InUse,
                             draft |-> Draft(form), photo |-> Nothing,
                             by |-> Nothing])
    /\ tapped' = Append(tapped, form)
    /\ calm' = calm \cup {Len(subs) + 1}
    /\ UNCHANGED <<screenVars, mapVars, queue, typed, cleared>>

\* With a bug: the form is cleared at the tap.
SubmitAndClear == form.category # Nothing /\ Send /\ SetForm(Cleared(form))

\* With a bug: the category is not asked for.
SubmitAnyway == Send /\ UNCHANGED forms

\* submitPressed; without a selected category it only shows an alert.
Submit == form.category # Nothing /\ Send /\ UNCHANGED forms

TakePhoto(i) ==
    /\ i \in Waiting
    /\ subs' = [subs EXCEPT ![i].stage = "upload",
                            ![i].photo = forms[subs[i].of].photo]
    /\ UNCHANGED <<forms, screenVars, mapVars, queue, tapped, historyVars,
                   touches>>

\* With a bug: the callback is dropped when its form is not on the screen.
RecordArrivesOnForm(i) == FormShown /\ TakePhoto(i)

\* The record of the user arrives: the photo that the form now shows is sent
\* to Storage.  The answers come in the order of the requests.
RecordArrives(i) == TakePhoto(i) /\ \A j \in Waiting : i <= j

UploadFails(i) ==
    /\ i \in DOMAIN subs /\ subs[i].stage = "upload"
    /\ subs' = [subs EXCEPT ![i].stage = "failed"]
    /\ UNCHANGED <<forms, screenVars, mapVars, queue, tapped, historyVars,
                   touches>>

Author(i) == forms[subs[i].of].user

UploadDone(i) ==
    /\ i \in DOMAIN subs /\ subs[i].stage = "upload"
    /\ subs' = [subs EXCEPT ![i].stage = "write", ![i].by = Author(i)]
    /\ queue' = Append(queue, i)
    /\ UNCHANGED <<forms, screenVars, mapVars, tapped, historyVars, touches>>

\* The completion block of the oldest write: the post was refused,
Refused ==
    /\ queue # <<>>
    /\ subs' = [subs EXCEPT ![Head(queue)].stage = "failed"]
    /\ queue' = Tail(queue)
    /\ UNCHANGED <<forms, screenVars, mapVars, tapped, historyVars, touches>>

\* or accepted: its tab bar turns to Home and its form is cleared, whatever
\* they show by then.  The category stays selected.
Accepted ==
    /\ queue # <<>>
    /\ LET i == Head(queue)
           g == subs[i].of
       IN  /\ subs' = [subs EXCEPT ![i].stage = "posted"]
           /\ forms' = [forms EXCEPT ![g] = Cleared(@)]
           /\ tab' = IF g = InUse THEN "other" ELSE tab
           /\ calm' = {j \in calm : j \notin Waiting \/ subs[j].of # g}
           /\ cleared' = (cleared \/ g = InUse)
    /\ queue' = Tail(queue)
    /\ UNCHANGED <<map, modal, hidden, mapVars, tapped, typed, touches>>

-----------------------------------------------------------------------------
OnForm ==
    \/ \E t \in Text \cup {Nothing} : TypeText(t)
    \/ \E x \in Place \cup {Nothing} : TypePlace(x)
    \/ \E k \in Category : ChooseCategory(k)
    \/ OpenPhotos \/ CancelPhotos \/ \E ph \in Photo : PickPhoto(ph)
    \/ \E t \in {"add", "other"} : SelectTab(t)
    \/ \E u \in User : LoginAgain(u)
    \/ Submit

OnMap ==
    \/ OpenMap \/ Back \/ \E x \in Place : Gps(x)
    \/ OpenSearch \/ CancelSearch \/ Search \/ SearchAnswer
    \/ Done \/ GeocodeFails \/ GeocodeAnswer \/ OrphanAnswer \/ OrphanFails

Progress(i) == RecordArrives(i) \/ UploadFails(i) \/ UploadDone(i)

Submitting ==
    \/ \E i \in DOMAIN subs : Progress(i)
    \/ Refused \/ Accepted

Next == OnForm \/ OnMap \/ Submitting

Spec == Init /\ [][Next]_vars

\* Requests are answered, one way or the other.
Fairness ==
    /\ \A i \in 1 .. MaxSubmits : WF_vars(Progress(i))
    /\ WF_vars(Refused \/ Accepted)
    /\ WF_vars(SearchAnswer)

FairSpec == Spec /\ Fairness

-----------------------------------------------------------------------------
FormType ==
    [user : User, text : Text \cup {Nothing}, category : Category \cup {Nothing},
     label : Category \cup {Nothing}, place : Place \cup {Nothing},
     photo : Photo \cup {Nothing}, location : Place \cup {Nothing}]

DraftType ==
    [text : Text \cup {Nothing}, category : Category, place : Place \cup {Nothing}]

SubType ==
    [stage : {"record", "upload", "write", "posted", "failed"},
     of : 1 .. MaxLogins, draft : DraftType, photo : Photo \cup {Nothing},
     by : User \cup {Nothing}]

\* The values of the variables, and how they hang together: every submission
\* belongs to a form, and the queue holds exactly the posts on their way.
TypeOK ==
    /\ forms \in Seq(FormType) /\ InUse \in 1 .. MaxLogins
    /\ tab \in {"add", "other"} /\ map \in BOOLEAN /\ hidden \in BOOLEAN
    /\ modal \in {"none", "photos", "search"}
    /\ here \in Place \cup {Nothing} /\ asking \in Place \cup {Nothing}
    /\ searching \in BOOLEAN /\ orphan \in BOOLEAN
    /\ subs \in Seq(SubType) /\ Len(subs) <= MaxSubmits
    /\ \A i \in DOMAIN subs : subs[i].of <= InUse
    /\ queue \in Seq(DOMAIN subs)
    /\ {queue[n] : n \in DOMAIN queue}
          = {i \in DOMAIN subs : subs[i].stage = "write"}
    /\ tapped \in Seq(FormType) /\ Len(tapped) = Len(subs)
    /\ calm \subseteq DOMAIN subs
    /\ typed \in [text : Text \cup {Nothing}, photo : Photo \cup {Nothing}]
    /\ cleared \in BOOLEAN
    /\ touches \in 0 .. MaxTouches

\* A post carries the photo that the form showed when it was submitted,
\* unless the user picked another one or an older post of the same form was
\* accepted before the record of the user arrived
\* (AddPostController.submitPressed reads the image in the callback).
PhotoOfDraft ==
    \A i \in calm :
        subs[i].stage # "record" => subs[i].photo = tapped[i].photo

\* A post names the user who tapped Submit, even if somebody else is signed
\* in by the time its photo has been uploaded (userId is read when the
\* controller is made).
PostedBySubmitter ==
    \A i \in DOMAIN subs :
        subs[i].stage \in {"write", "posted"} => subs[i].by = tapped[i].user

\* What the user put into the form stays there, whatever fails, until a post
\* has been accepted (resetValues is called in the completion block only).
DraftKept == ~cleared => form.text = typed.text /\ form.photo = typed.photo

\* What the user put into the form is what it holds until a post is accepted,
\* and what a post carries, under the name of whoever tapped Submit.
\* (submitPressed with its three callbacks, resetValues.)
InputKept == PhotoOfDraft /\ PostedBySubmitter /\ DraftKept

\* Every submission comes to an end, wherever the user goes meanwhile, unless
\* the process traps.
InFlight(i) ==
    i \in DOMAIN subs /\ subs[i].stage \in {"record", "upload", "write"}

SubmissionsEnd == \A i \in 1 .. MaxSubmits : InFlight(i) ~> ~InFlight(i)

\* Touches that a search ignores are taken again later (beginIgnoring- and
\* endIgnoringInteractionEvents in searchBarSearchButtonClicked).
TouchesComeBack == searching ~> ~searching
=============================================================================
