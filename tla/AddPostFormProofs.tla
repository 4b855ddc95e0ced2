------------------------- MODULE AddPostFormProofs --------------------------
(***************************************************************************)
(* Proofs about AddPostForm: what the user put into the form is what a     *)
(* post carries, for any accounts, texts, categories, places and photos,   *)
(* and any number of touches, submissions and tab bars.                    *)
(***************************************************************************)
EXTENDS AddPostForm, SequenceTheorems, TLAPS

-----------------------------------------------------------------------------
(* The invariant.  TypeOK is not inductive: that the queue holds exactly the *)
(* posts on their way is broken by the end of one of them if it could be in  *)
(* the queue twice.  Nor is InputKept: a photo is read, and an author found, *)
(* later than the tap, so until then the form has to have what it had.       *)

QueuedOnce == \A m, n \in DOMAIN queue : queue[m] = queue[n] => m = n

WaitingSees == \A i \in calm :
  subs[i].stage = "record" => forms[subs[i].of].photo = tapped[i].photo

SameUser == \A i \in DOMAIN subs : forms[subs[i].of].user = tapped[i].user

Posts == WaitingSees /\ SameUser /\ InputKept

FormInv == TypeOK /\ QueuedOnce /\ Posts

-----------------------------------------------------------------------------
(* What the operators do.                                                  *)

LEMMA FormOfType == ASSUME NEW u \in User PROVE FormOf(u) \in FormType
BY DEF FormOf, FormType

LEMMA NothingTypedType ==
  NothingTyped \in [text : Text \cup {Nothing}, photo : Photo \cup {Nothing}]
BY DEF NothingTyped

LEMMA FormInUse == ASSUME TypeOK PROVE form \in FormType /\ InUse \in DOMAIN forms
BY DEF TypeOK, form, InUse

LEMMA ClearedType ==
  ASSUME NEW f \in FormType
  PROVE  /\ Cleared(f) \in FormType /\ Cleared(f).user = f.user
BY DEF Cleared, FormType

\* A step that changes the form in use leaves those behind it alone.
LEMMA SetFormEffect ==
  ASSUME TypeOK, NEW f \in FormType, SetForm(f)
  PROVE  /\ forms' \in Seq(FormType) /\ InUse' = InUse /\ form' = f
         /\ \A g \in DOMAIN forms : forms'[g] = IF g = InUse THEN f ELSE forms[g]
BY ExceptSeq DEF TypeOK, SetForm, form, InUse

\* The type of the queue, which most steps leave alone.
QueueType ==
  /\ queue \in Seq(DOMAIN subs)
  /\ {queue[n] : n \in DOMAIN queue} = {i \in DOMAIN subs : subs[i].stage = "write"}

SubsType ==
  /\ subs \in Seq(SubType) /\ Len(subs) <= MaxSubmits
  /\ \A i \in DOMAIN subs : subs[i].of <= InUse
  /\ tapped \in Seq(FormType) /\ Len(tapped) = Len(subs)
  /\ calm \subseteq DOMAIN subs

RestType ==
  /\ forms \in Seq(FormType) /\ InUse \in 1 .. MaxLogins
  /\ tab \in {"add", "other"} /\ map \in BOOLEAN /\ hidden \in BOOLEAN
  /\ modal \in {"none", "photos", "search"}
  /\ here \in Place \cup {Nothing} /\ asking \in Place \cup {Nothing}
  /\ searching \in BOOLEAN /\ orphan \in BOOLEAN
  /\ typed \in [text : Text \cup {Nothing}, photo : Photo \cup {Nothing}]
  /\ cleared \in BOOLEAN
  /\ touches \in 0 .. MaxTouches

LEMMA TypeParts == TypeOK <=> RestType /\ SubsType /\ QueueType
BY DEF TypeOK, RestType, SubsType, QueueType

\* A submission belongs to one of the forms.
LEMMA SubmissionType ==
  ASSUME TypeOK, NEW i \in DOMAIN subs
  PROVE  subs[i] \in SubType /\ subs[i].of \in DOMAIN forms
<1>1. subs[i] \in SubType /\ subs[i].of <= InUse
  BY DEF TypeOK
<1>2. subs[i].of \in 1 .. MaxLogins /\ MaxLogins \in Nat
  BY <1>1, FormAssumption DEF SubType
<1>3. Len(forms) \in Nat /\ DOMAIN forms = 1 .. Len(forms)
  BY LenProperties DEF TypeOK
<1> QED
  BY <1>1, <1>2, <1>3 DEF InUse

LEMMA Touched == ASSUME TypeOK, Touch PROVE touches' \in 0 .. MaxTouches
BY FormAssumption DEF TypeOK, Touch

-----------------------------------------------------------------------------
(* Steps that leave the submissions alone.                                 *)

\* One that changes nothing that the invariant relates.
LEMMA FormsAlone ==
  ASSUME FormInv, UNCHANGED <<forms, subVars, historyVars>>, RestType'
  PROVE  FormInv'
<1>1. UNCHANGED <<forms, subs, queue, tapped, calm, typed, cleared>>
  BY DEF subVars, historyVars
<1>2. SubsType' /\ QueueType'
  BY <1>1 DEF FormInv, TypeOK, SubsType, QueueType, InUse
<1>3. QueuedOnce' /\ Posts'
  BY <1>1 DEF FormInv, QueuedOnce, Posts, WaitingSees, SameUser, InputKept, PhotoOfDraft,
              PostedBySubmitter, DraftKept, form, InUse
<1> QED
  BY <1>2, <1>3 DEF FormInv, TypeOK, RestType, SubsType, QueueType

\* One that changes the form in use: its photo only behind the back of those
\* that wait for it and are no longer calm.
LEMMA FormChanged ==
  ASSUME FormInv, NEW f \in FormType, SetForm(f), f.user = form.user,
         UNCHANGED <<subVars, cleared>>, calm' \subseteq calm,
         f.photo = form.photo \/ \A i \in calm' : subs[i].stage = "record" => subs[i].of # InUse,
         ~cleared => f.text = typed'.text /\ f.photo = typed'.photo,
         RestType'
  PROVE  FormInv'
<1>1. UNCHANGED <<subs, queue, tapped, cleared>>
  BY DEF subVars
<1>2. TypeOK
  BY DEF FormInv
<1>3. /\ InUse' = InUse /\ form' = f
      /\ \A g \in DOMAIN forms : forms'[g] = IF g = InUse THEN f ELSE forms[g]
  BY <1>2, SetFormEffect
<1>4. \A i \in DOMAIN subs : subs[i].of \in DOMAIN forms
  BY <1>2, SubmissionType
<1>5. calm \subseteq DOMAIN subs
  BY <1>2 DEF TypeOK
<1>6. SubsType' /\ QueueType'
  BY <1>1, <1>3 DEF FormInv, TypeOK, SubsType, QueueType
<1>7. SameUser'
  BY <1>1, <1>3, <1>4 DEF FormInv, Posts, SameUser, form
<1>8. WaitingSees'
  BY <1>1, <1>3, <1>4, <1>5 DEF FormInv, Posts, WaitingSees, form
<1>9. InputKept'
  <2>1. PhotoOfDraft'
    BY <1>1 DEF FormInv, Posts, InputKept, PhotoOfDraft
  <2>2. PostedBySubmitter'
    BY <1>1 DEF FormInv, Posts, InputKept, PostedBySubmitter
  <2>3. DraftKept'
    BY <1>1, <1>3 DEF DraftKept
  <2> QED
    BY <2>1, <2>2, <2>3 DEF InputKept
<1>10. QueuedOnce'
  BY <1>1 DEF FormInv, QueuedOnce
<1> QED
  BY <1>6, <1>7, <1>8, <1>9, <1>10 DEF FormInv, Posts, TypeOK, RestType, SubsType, QueueType

-----------------------------------------------------------------------------
(* The form, on the screen and behind it.                                  *)

LEMMA EditKeeps ==
  ASSUME FormInv, NEW f \in FormType, Edit(f), f.user = form.user, f.photo = form.photo,
         typed' \in [text : Text \cup {Nothing}, photo : Photo \cup {Nothing}],
         ~cleared => f.text = typed'.text /\ f.photo = typed'.photo
  PROVE  FormInv'
<1>1. TypeOK /\ SetForm(f) /\ Touch /\ UNCHANGED <<screenVars, mapVars, subVars, calm, cleared>>
  BY DEF FormInv, Edit
<1>2. touches' \in 0 .. MaxTouches
  BY <1>1, Touched
<1>3. forms' \in Seq(FormType) /\ InUse' = InUse
  BY <1>1, SetFormEffect
<1>4. RestType'
  BY <1>1, <1>2, <1>3 DEF TypeOK, RestType, screenVars, mapVars
<1> QED
  BY <1>1, <1>4, FormChanged

LEMMA TypeTextKeeps ==
  ASSUME FormInv, NEW t \in Text \cup {Nothing}, TypeText(t)
  PROVE  FormInv'
<1> DEFINE f == [form EXCEPT !.text = t]
<1>1. form \in FormType /\ typed \in [text : Text \cup {Nothing}, photo : Photo \cup {Nothing}]
  BY FormInUse DEF FormInv, TypeOK
<1>2. f \in FormType /\ f.user = form.user /\ f.photo = form.photo /\ f.text = t
  BY <1>1 DEF FormType
<1>3. Edit(f) /\ typed' = [typed EXCEPT !.text = t]
  BY DEF TypeText
<1>4. ~cleared => form.photo = typed.photo
  BY DEF FormInv, Posts, InputKept, DraftKept
<1>5. /\ typed' \in [text : Text \cup {Nothing}, photo : Photo \cup {Nothing}]
      /\ typed'.text = t /\ typed'.photo = typed.photo
  BY <1>1, <1>3
<1>6. ~cleared => f.text = typed'.text /\ f.photo = typed'.photo
  BY <1>2, <1>4, <1>5
<1> HIDE DEF f
<1> QED
  BY <1>2, <1>3, <1>5, <1>6, EditKeeps

LEMMA TypePlaceKeeps ==
  ASSUME FormInv, NEW x \in Place \cup {Nothing}, TypePlace(x)
  PROVE  FormInv'
<1> DEFINE f == [form EXCEPT !.place = x]
<1>1. form \in FormType
  BY FormInUse DEF FormInv
<1>2. f \in FormType /\ f.user = form.user /\ f.photo = form.photo /\ f.text = form.text
  BY <1>1 DEF FormType
<1>3. Edit(f) /\ typed' = typed
  BY DEF TypePlace
<1>4. /\ ~cleared => form.text = typed.text /\ form.photo = typed.photo
      /\ typed \in [text : Text \cup {Nothing}, photo : Photo \cup {Nothing}]
  BY DEF FormInv, Posts, InputKept, DraftKept, TypeOK
<1> HIDE DEF f
<1> QED
  BY <1>2, <1>3, <1>4, EditKeeps

LEMMA ChooseCategoryKeeps ==
  ASSUME FormInv, NEW k \in Category, ChooseCategory(k)
  PROVE  FormInv'
<1> DEFINE f == [form EXCEPT !.category = k, !.label = k]
<1>1. form \in FormType
  BY FormInUse DEF FormInv
<1>2. f \in FormType /\ f.user = form.user /\ f.photo = form.photo /\ f.text = form.text
  BY <1>1 DEF FormType
<1>3. Edit(f) /\ typed' = typed
  BY DEF ChooseCategory
<1>4. /\ ~cleared => form.text = typed.text /\ form.photo = typed.photo
      /\ typed \in [text : Text \cup {Nothing}, photo : Photo \cup {Nothing}]
  BY DEF FormInv, Posts, InputKept, DraftKept, TypeOK
<1> HIDE DEF f
<1> QED
  BY <1>2, <1>3, <1>4, EditKeeps

\* The form may appear with a step: its place becomes the controller's.
LEMMA AppearEffect ==
  ASSUME TypeOK, NEW f \in FormType, Appear(f) \/ (SetForm(f) /\ UNCHANGED hidden)
  PROVE  /\ hidden' \in BOOLEAN
         /\ \E g \in FormType : /\ SetForm(g)
                                /\ g.user = f.user /\ g.photo = f.photo /\ g.text = f.text
<1>1. CASE Appear(f)
  <2> DEFINE g == [f EXCEPT !.place = f.location]
  <2>1. g \in FormType /\ g.user = f.user /\ g.photo = f.photo /\ g.text = f.text
    BY DEF FormType
  <2>2. SetForm(g) /\ hidden' = FALSE
    BY <1>1 DEF Appear
  <2> QED
    BY <2>1, <2>2
<1>2. CASE SetForm(f) /\ UNCHANGED hidden
  BY <1>2 DEF TypeOK
<1> QED
  BY <1>1, <1>2

\* A step that only makes the form appear, if that: the screen and the map are
\* up to the caller.
LEMMA AppearKeeps ==
  ASSUME FormInv, NEW f \in FormType, Appear(f) \/ (SetForm(f) /\ UNCHANGED hidden),
         f.user = form.user, f.photo = form.photo, f.text = form.text,
         tab' \in {"add", "other"}, map' \in BOOLEAN, modal' \in {"none", "photos", "search"},
         here' \in Place \cup {Nothing}, asking' \in Place \cup {Nothing},
         orphan' \in BOOLEAN, touches' \in 0 .. MaxTouches,
         UNCHANGED <<searching, subVars, historyVars>>
  PROVE  FormInv'
<1>1. TypeOK
  BY DEF FormInv
<1>2. PICK g \in FormType : SetForm(g) /\ g.user = f.user /\ g.photo = f.photo /\ g.text = f.text
  BY <1>1, AppearEffect
<1>3. forms' \in Seq(FormType) /\ InUse' = InUse
  BY <1>1, <1>2, SetFormEffect
<1>4. UNCHANGED <<searching, subVars, calm, typed, cleared>>
  BY DEF historyVars
<1>5. hidden' \in BOOLEAN
  BY <1>1, AppearEffect
<1>6. RestType'
  BY <1>1, <1>3, <1>4, <1>5 DEF TypeOK, RestType
<1>7. ~cleared => g.text = typed'.text /\ g.photo = typed'.photo
  BY <1>2, <1>4 DEF FormInv, Posts, InputKept, DraftKept
<1> QED
  BY <1>2, <1>4, <1>6, <1>7, FormChanged

LEMMA CancelPhotosKeeps ==
  ASSUME FormInv, CancelPhotos
  PROVE  FormInv'
<1>1. form \in FormType /\ TypeOK
  BY FormInUse DEF FormInv
<1>2. touches' \in 0 .. MaxTouches
  BY <1>1, Touched DEF CancelPhotos, ClosePhotos
<1>3. /\ Appear(form) \/ (SetForm(form) /\ UNCHANGED hidden)
      /\ modal' = "none" /\ UNCHANGED <<tab, map, here, asking, orphan>>
      /\ UNCHANGED <<searching, subVars, historyVars>>
  BY DEF CancelPhotos, ClosePhotos, mapVars, historyVars
<1> QED
  BY <1>1, <1>2, <1>3, AppearKeeps DEF TypeOK

LEMMA PickPhotoKeeps ==
  ASSUME FormInv, NEW ph \in Photo, PickPhoto(ph)
  PROVE  FormInv'
<1> DEFINE f == [form EXCEPT !.photo = ph]
<1>1. /\ form \in FormType /\ TypeOK
      /\ typed \in [text : Text \cup {Nothing}, photo : Photo \cup {Nothing}]
  BY FormInUse DEF FormInv, TypeOK
<1>2. f \in FormType /\ f.user = form.user /\ f.photo = ph /\ f.text = form.text
  BY <1>1 DEF FormType
<1>3. /\ ClosePhotos(f) /\ typed' = [typed EXCEPT !.photo = ph]
      /\ calm' = {i \in calm : i \notin Waiting \/ subs[i].of # InUse}
  BY DEF PickPhoto
<1>4. touches' \in 0 .. MaxTouches
  BY <1>1, <1>3, Touched DEF ClosePhotos
<1> HIDE DEF f
<1>5. /\ Appear(f) \/ (SetForm(f) /\ UNCHANGED hidden)
      /\ modal' = "none" /\ UNCHANGED <<tab, map, mapVars, subVars, cleared>>
  BY <1>3 DEF ClosePhotos
<1>6. PICK g \in FormType : SetForm(g) /\ g.user = f.user /\ g.photo = f.photo /\ g.text = f.text
  BY <1>1, <1>2, <1>5, AppearEffect
<1>7. hidden' \in BOOLEAN
  BY <1>1, <1>2, <1>5, AppearEffect
<1>8. forms' \in Seq(FormType) /\ InUse' = InUse
  BY <1>1, <1>6, SetFormEffect
<1>9. /\ typed' \in [text : Text \cup {Nothing}, photo : Photo \cup {Nothing}]
      /\ typed'.text = typed.text /\ typed'.photo = ph
  BY <1>1, <1>3
<1>10. RestType'
  BY <1>1, <1>4, <1>5, <1>7, <1>8, <1>9 DEF TypeOK, RestType, mapVars
<1>11. calm' \subseteq calm /\ \A i \in calm' : subs[i].stage = "record" => subs[i].of # InUse
  BY <1>1, <1>3 DEF Waiting, TypeOK
<1>12. ~cleared => g.text = typed'.text /\ g.photo = typed'.photo
  BY <1>2, <1>6, <1>9 DEF FormInv, Posts, InputKept, DraftKept
<1>13. UNCHANGED <<subVars, cleared>>
  BY <1>5
<1> QED
  BY <1>2, <1>6, <1>10, <1>11, <1>12, <1>13, FormChanged

LEMMA SelectTabKeeps ==
  ASSUME FormInv, NEW t \in {"add", "other"}, SelectTab(t)
  PROVE  FormInv'
<1>1. form \in FormType /\ TypeOK
  BY FormInUse DEF FormInv
<1>2. touches' \in 0 .. MaxTouches
  BY <1>1, Touched DEF SelectTab
<1>3. /\ tab' = t /\ UNCHANGED <<map, modal, here, asking, orphan>>
      /\ UNCHANGED <<searching, subVars, historyVars>>
  BY DEF SelectTab, mapVars
<1>4. CASE t = "add"
  <2>1. Appear(form)
    BY <1>4 DEF SelectTab
  <2> QED
    BY <1>1, <1>2, <1>3, <2>1, AppearKeeps DEF TypeOK
<1>5. CASE t # "add"
  <2>1. UNCHANGED <<forms, hidden>>
    BY <1>5 DEF SelectTab
  <2>2. RestType'
    BY <1>1, <1>2, <1>3, <2>1 DEF TypeOK, RestType, historyVars, InUse
  <2> QED
    BY <1>3, <2>1, <2>2, FormsAlone
<1> QED
  BY <1>4, <1>5

\* OpenPhotos, and what a touch does to the map without changing the form.
LEMMA ScreenKeeps ==
  ASSUME FormInv, UNCHANGED <<forms, tab, subVars, historyVars>>,
         hidden' \in BOOLEAN, map' \in BOOLEAN, modal' \in {"none", "photos", "search"},
         here' \in Place \cup {Nothing}, asking' \in Place \cup {Nothing},
         searching' \in BOOLEAN, orphan' \in BOOLEAN, touches' \in 0 .. MaxTouches
  PROVE  FormInv'
<1>1. UNCHANGED <<forms, tab, typed, cleared>>
  BY DEF historyVars
<1>2. RestType'
  BY <1>1 DEF FormInv, TypeOK, RestType, InUse
<1> QED
  BY <1>2, FormsAlone

\* A login makes a tab bar of its own: the forms behind it stay what they are,
\* and the submissions belong to those.
LEMMA LoginAgainKeeps ==
  ASSUME FormInv, NEW u \in User, LoginAgain(u)
  PROVE  FormInv'
<1>1. TypeOK /\ FormOf(u) \in FormType /\ touches' \in 0 .. MaxTouches
  BY FormOfType, Touched DEF FormInv, LoginAgain
<1>2. /\ UNCHANGED <<subs, queue, tapped, calm, modal, searching, orphan>>
      /\ forms' = Append(forms, FormOf(u)) /\ InUse < MaxLogins
      /\ tab' = "other" /\ map' = FALSE /\ hidden' = FALSE
      /\ here' = Nothing /\ asking' = Nothing
      /\ typed' = NothingTyped /\ cleared' = FALSE
  BY DEF LoginAgain, subVars
<1>3. /\ forms' \in Seq(FormType) /\ InUse' = InUse + 1 /\ form' = FormOf(u)
      /\ \A g \in DOMAIN forms : forms'[g] = forms[g]
  BY <1>1, <1>2, AppendProperties, LenProperties DEF TypeOK, InUse, form
<1>4. InUse \in Nat /\ MaxLogins \in Nat
  BY <1>1, FormAssumption DEF TypeOK
<1>5. \A i \in DOMAIN subs : subs[i].of \in DOMAIN forms /\ subs[i].of \in Nat
  BY <1>1, SubmissionType, LenProperties DEF TypeOK
<1>6. RestType'
  <2>1. InUse' \in 1 .. MaxLogins
    BY <1>1, <1>2, <1>3, <1>4 DEF TypeOK
  <2>2. map' \in BOOLEAN /\ hidden' \in BOOLEAN /\ searching' \in BOOLEAN
    BY <1>1, <1>2 DEF TypeOK
  <2>3. orphan' \in BOOLEAN /\ cleared' \in BOOLEAN
    BY <1>1, <1>2 DEF TypeOK
  <2>4. /\ tab' \in {"add", "other"} /\ modal' \in {"none", "photos", "search"}
        /\ here' \in Place \cup {Nothing} /\ asking' \in Place \cup {Nothing}
    BY <1>1, <1>2 DEF TypeOK
  <2>5. typed' \in [text : Text \cup {Nothing}, photo : Photo \cup {Nothing}]
    BY <1>2, NothingTypedType
  <2> QED
    BY <1>1, <1>3, <2>1, <2>2, <2>3, <2>4, <2>5 DEF RestType
<1>7. SubsType' /\ QueueType'
  BY <1>1, <1>2, <1>3, <1>4, <1>5 DEF TypeOK, SubsType, QueueType
<1>8. WaitingSees' /\ SameUser'
  BY <1>1, <1>2, <1>3, <1>5 DEF FormInv, Posts, WaitingSees, SameUser, TypeOK
<1>9. InputKept'
  <2>1. PhotoOfDraft' /\ PostedBySubmitter'
    BY <1>2 DEF FormInv, Posts, InputKept, PhotoOfDraft, PostedBySubmitter
  <2>2. DraftKept'
    BY <1>2, <1>3 DEF DraftKept, FormOf, NothingTyped
  <2> QED
    BY <2>1, <2>2 DEF InputKept
<1>10. QueuedOnce'
  BY <1>2 DEF FormInv, QueuedOnce
<1> QED
  BY <1>6, <1>7, <1>8, <1>9, <1>10 DEF FormInv, Posts, TypeOK, RestType, SubsType, QueueType

\* A new process, in whatever state the one before it ended.
LEMMA Fresh ==
  ASSUME NEW u \in User, forms = <<FormOf(u)>>,
         tab = "other", map = FALSE, modal = "none", hidden = FALSE,
         here = Nothing, searching = FALSE, asking = Nothing, orphan = FALSE,
         subs = <<>>, queue = <<>>, tapped = <<>>,
         calm = {}, typed = NothingTyped, cleared = FALSE, touches \in 0 .. MaxTouches
  PROVE  FormInv
<1>1. /\ forms \in Seq(FormType) /\ InUse = 1 /\ form = FormOf(u)
  BY FormOfType DEF InUse, form
<1>2. RestType
  <2>1. InUse \in 1 .. MaxLogins
    BY <1>1, FormAssumption
  <2>2. map \in BOOLEAN /\ hidden \in BOOLEAN /\ searching \in BOOLEAN
    OBVIOUS
  <2>3. orphan \in BOOLEAN /\ cleared \in BOOLEAN
    OBVIOUS
  <2> QED
    BY <1>1, <2>1, <2>2, <2>3, NothingTypedType DEF RestType
<1>3. SubsType /\ QueueType
  BY FormAssumption DEF SubsType, QueueType
<1>4. WaitingSees /\ SameUser /\ QueuedOnce
  BY DEF WaitingSees, SameUser, QueuedOnce
<1>5. InputKept
  BY <1>1 DEF InputKept, PhotoOfDraft, PostedBySubmitter, DraftKept, FormOf, NothingTyped
<1> QED
  BY <1>2, <1>3, <1>4, <1>5, TypeParts DEF FormInv, Posts

LEMMA FormInvInit == Init => FormInv
<1> SUFFICES ASSUME Init PROVE FormInv
  OBVIOUS
<1>1. PICK u \in User : forms = <<FormOf(u)>>
  BY DEF Init
<1>2. touches \in 0 .. MaxTouches
  BY FormAssumption DEF Init
<1> QED
  BY <1>1, <1>2, Fresh DEF Init

LEMMA TrapKeeps ==
  ASSUME FormInv, Trap, touches' \in 0 .. MaxTouches
  PROVE  FormInv'
<1>1. form.user \in User
  BY FormInUse DEF FormInv, FormType
<1>2. /\ forms' \in Seq(FormType) /\ InUse' = 1 /\ form' = FormOf(form.user)
  BY <1>1, FormOfType DEF Trap, InUse, form
<1>3. RestType'
  <2>1. InUse' \in 1 .. MaxLogins
    BY <1>2, FormAssumption
  <2>2. map' \in BOOLEAN /\ hidden' \in BOOLEAN /\ searching' \in BOOLEAN
    BY DEF Trap
  <2>3. orphan' \in BOOLEAN /\ cleared' \in BOOLEAN
    BY DEF Trap
  <2>4. /\ tab' \in {"add", "other"} /\ modal' \in {"none", "photos", "search"}
        /\ here' \in Place \cup {Nothing} /\ asking' \in Place \cup {Nothing}
    BY DEF Trap
  <2>5. typed' \in [text : Text \cup {Nothing}, photo : Photo \cup {Nothing}]
    BY NothingTypedType DEF Trap
  <2> QED
    BY <1>2, <2>1, <2>2, <2>3, <2>4, <2>5 DEF RestType
<1>4. SubsType' /\ QueueType'
  BY FormAssumption DEF Trap, SubsType, QueueType
<1>5. WaitingSees' /\ SameUser' /\ QueuedOnce'
  BY DEF Trap, WaitingSees, SameUser, QueuedOnce
<1>6. InputKept'
  BY <1>2 DEF Trap, InputKept, PhotoOfDraft, PostedBySubmitter, DraftKept, FormOf, NothingTyped
<1> QED
  BY <1>3, <1>4, <1>5, <1>6 DEF FormInv, Posts, TypeOK, RestType, SubsType, QueueType

-----------------------------------------------------------------------------
(* The map.                                                                *)

LEMMA BackKeeps ==
  ASSUME FormInv, Back
  PROVE  FormInv'
<1>1. form \in FormType /\ TypeOK
  BY FormInUse DEF FormInv
<1>2. touches' \in 0 .. MaxTouches
  BY <1>1, Touched DEF Back
<1>3. orphan' \in BOOLEAN
  BY <1>1 DEF Back, TypeOK
<1> QED
  BY <1>1, <1>2, <1>3, AppearKeeps DEF Back, TypeOK

LEMMA GeocodeAnswerKeeps ==
  ASSUME FormInv, GeocodeAnswer
  PROVE  FormInv'
<1> DEFINE f == [form EXCEPT !.location = asking]
<1>1. form \in FormType /\ TypeOK /\ asking \in Place \cup {Nothing}
  BY FormInUse DEF FormInv, TypeOK
<1>2. f \in FormType /\ f.user = form.user /\ f.photo = form.photo /\ f.text = form.text
  BY <1>1 DEF FormType
<1>3. /\ Appear(f) \/ (SetForm(f) /\ UNCHANGED hidden)
      /\ map' = FALSE /\ here' = Nothing /\ asking' = Nothing
      /\ UNCHANGED <<tab, modal, orphan, touches>>
      /\ UNCHANGED <<searching, subVars, historyVars>>
  BY DEF GeocodeAnswer
<1> HIDE DEF f
<1> QED
  BY <1>1, <1>2, <1>3, AppearKeeps DEF TypeOK

LEMMA OnMapKeeps ==
  ASSUME FormInv, OnMap
  PROVE  FormInv'
<1>1. TypeOK /\ (Touch => touches' \in 0 .. MaxTouches)
  BY Touched DEF FormInv
<1>2. CASE OpenMap
  BY <1>1, <1>2, ScreenKeeps DEF OpenMap, mapVars, TypeOK
<1>3. CASE Back
  BY <1>3, BackKeeps
<1>4. ASSUME NEW x \in Place, Gps(x) PROVE FormInv'
  BY <1>1, <1>4, ScreenKeeps DEF Gps, screenVars, TypeOK
<1>5. CASE OpenSearch
  BY <1>1, <1>5, ScreenKeeps DEF OpenSearch, mapVars, TypeOK
<1>6. CASE CancelSearch
  BY <1>1, <1>6, ScreenKeeps DEF CancelSearch, CloseSearch, TypeOK
<1>7. CASE Search
  BY <1>1, <1>7, ScreenKeeps DEF Search, CloseSearch, TypeOK
<1>8. CASE SearchAnswer
  BY <1>1, <1>8, ScreenKeeps DEF SearchAnswer, screenVars, TypeOK
<1>9. CASE Done
  <2>1. touches' \in 0 .. MaxTouches
    BY <1>1, <1>9 DEF Done
  <2>2. CASE here = Nothing
    BY <1>9, <2>1, <2>2, TrapKeeps DEF Done
  <2>3. CASE here # Nothing
    BY <1>1, <1>9, <2>1, <2>3, ScreenKeeps DEF Done, screenVars, TypeOK
  <2> QED
    BY <2>2, <2>3
<1>10. CASE GeocodeFails
  BY <1>1, <1>10, ScreenKeeps DEF GeocodeFails, screenVars, TypeOK
<1>11. CASE GeocodeAnswer
  BY <1>11, GeocodeAnswerKeeps
<1>12. CASE OrphanAnswer
  BY <1>1, <1>12, TrapKeeps DEF OrphanAnswer, TypeOK
<1>13. CASE OrphanFails
  BY <1>1, <1>13, ScreenKeeps DEF OrphanFails, screenVars, TypeOK
<1> QED
  BY <1>2, <1>3, <1>4, <1>5, <1>6, <1>7, <1>8, <1>9, <1>10, <1>11, <1>12, <1>13 DEF OnMap

-----------------------------------------------------------------------------
(* Submissions.                                                            *)

\* What a step of submission i does to the sequence of all of them.
LEMMA SubChanged ==
  ASSUME TypeOK, NEW i \in DOMAIN subs, NEW s \in SubType, s.of = subs[i].of,
         subs' = [subs EXCEPT ![i] = s]
  PROVE  /\ subs' \in Seq(SubType) /\ Len(subs') = Len(subs) /\ DOMAIN subs' = DOMAIN subs
         /\ subs'[i] = s /\ \A j \in DOMAIN subs : j # i => subs'[j] = subs[j]
         /\ \A j \in DOMAIN subs : subs'[j].of = subs[j].of
<1>1. subs \in Seq(SubType) /\ DOMAIN subs = 1 .. Len(subs)
  BY LenProperties DEF TypeOK
<1>2. /\ subs' \in Seq(SubType) /\ Len(subs') = Len(subs)
      /\ \A j \in 1 .. Len(subs) : subs'[j] = IF j = i THEN s ELSE subs[j]
  BY <1>1, ExceptSeq
<1>3. DOMAIN subs' = 1 .. Len(subs')
  BY <1>2, LenProperties
<1> QED
  BY <1>1, <1>2, <1>3

LEMMA SubmitKeeps ==
  ASSUME FormInv, Submit
  PROVE  FormInv'
<1> DEFINE s == [stage |-> "record", of |-> InUse, draft |-> Draft(form),
                 photo |-> Nothing, by |-> Nothing]
           new == Len(subs) + 1
<1>1. /\ TypeOK /\ form \in FormType /\ InUse \in DOMAIN forms
      /\ touches' \in 0 .. MaxTouches
  BY FormInUse, Touched DEF FormInv, Submit, Send
<1>2. /\ form.category # Nothing /\ Len(subs) < MaxSubmits
      /\ subs' = Append(subs, s) /\ tapped' = Append(tapped, form)
      /\ calm' = calm \cup {new}
      /\ UNCHANGED <<forms, screenVars, mapVars, queue, typed, cleared>>
  BY DEF Submit, Send
<1>3. s \in SubType
  <2>1. Draft(form) \in DraftType
    BY <1>1, <1>2 DEF Draft, DraftType, FormType
  <2>2. InUse \in 1 .. MaxLogins
    BY <1>1 DEF TypeOK
  <2> QED
    BY <2>1, <2>2 DEF SubType
<1>4. /\ s.stage = "record" /\ s.of = InUse
  OBVIOUS
<1>5. subs \in Seq(SubType) /\ tapped \in Seq(FormType) /\ Len(tapped) = Len(subs)
  BY <1>1 DEF TypeOK
<1>6. /\ Len(subs) \in Nat /\ DOMAIN subs = 1 .. Len(subs) /\ DOMAIN tapped = 1 .. Len(subs)
  BY <1>5, LenProperties
<1> HIDE DEF s
<1>7. /\ subs' \in Seq(SubType) /\ Len(subs') = new /\ subs'[new] = s
      /\ \A i \in DOMAIN subs : subs'[i] = subs[i]
  BY <1>2, <1>3, <1>5, <1>6, AppendProperties
<1>8. /\ tapped' \in Seq(FormType) /\ Len(tapped') = new /\ tapped'[new] = form
      /\ \A i \in DOMAIN subs : tapped'[i] = tapped[i]
  BY <1>1, <1>2, <1>5, <1>6, AppendProperties
<1>9. DOMAIN subs' = DOMAIN subs \cup {new} /\ new \notin DOMAIN subs
  BY <1>6, <1>7, LenProperties
<1>10. RestType'
  BY <1>1, <1>2 DEF TypeOK, RestType, screenVars, mapVars, InUse
<1>11. SubsType'
  <2>1. Len(subs') <= MaxSubmits
    BY <1>2, <1>6, <1>7, FormAssumption
  <2>2. \A i \in DOMAIN subs' : subs'[i].of <= InUse'
    <3>1. InUse' = InUse /\ InUse \in Nat
      BY <1>1, <1>2, LenProperties DEF TypeOK, InUse
    <3> QED
      BY <1>1, <1>4, <1>7, <1>9, <3>1 DEF TypeOK
  <2>3. calm' \subseteq DOMAIN subs'
    BY <1>1, <1>2, <1>9 DEF TypeOK
  <2> QED
    BY <1>7, <1>8, <2>1, <2>2, <2>3 DEF SubsType
<1>12. QueueType'
  <2>1. queue \in Seq(DOMAIN subs')
    BY <1>1, <1>9, SeqMonotonic DEF TypeOK
  <2>2. {i \in DOMAIN subs' : subs'[i].stage = "write"}
           = {i \in DOMAIN subs : subs[i].stage = "write"}
    BY <1>4, <1>7, <1>9
  <2> QED
    BY <1>1, <1>2, <2>1, <2>2 DEF TypeOK, QueueType
<1>13. SameUser'
  BY <1>1, <1>2, <1>4, <1>7, <1>8, <1>9 DEF FormInv, Posts, SameUser, form
<1>14. WaitingSees'
  BY <1>1, <1>2, <1>4, <1>7, <1>8, <1>9 DEF FormInv, Posts, WaitingSees, TypeOK, form
<1>15. InputKept'
  <2>1. PhotoOfDraft'
    BY <1>1, <1>2, <1>4, <1>7, <1>8, <1>9 DEF FormInv, Posts, InputKept, PhotoOfDraft, TypeOK
  <2>2. PostedBySubmitter'
    BY <1>4, <1>7, <1>8, <1>9 DEF FormInv, Posts, InputKept, PostedBySubmitter
  <2>3. DraftKept'
    BY <1>2 DEF FormInv, Posts, InputKept, DraftKept, form, InUse
  <2> QED
    BY <2>1, <2>2, <2>3 DEF InputKept
<1>16. QueuedOnce'
  BY <1>2 DEF FormInv, QueuedOnce
<1> QED
  BY <1>10, <1>11, <1>12, <1>13, <1>14, <1>15, <1>16
  DEF FormInv, Posts, TypeOK, RestType, SubsType, QueueType

\* A step of one submission, with the forms left alone: what is left to show is
\* what it does to the queue, the photo it takes and the name it puts.
LEMMA ProgressKeeps ==
  ASSUME FormInv, NEW i \in DOMAIN subs, NEW s \in SubType, s.of = subs[i].of,
         subs' = [subs EXCEPT ![i] = s],
         UNCHANGED <<forms, screenVars, mapVars, tapped, historyVars, touches>>,
         s.stage # "record",
         i \in calm => s.photo = tapped[i].photo,
         s.stage \in {"write", "posted"} => s.by = tapped[i].user,
         QueueType', QueuedOnce'
  PROVE  FormInv'
<1>1. TypeOK /\ UNCHANGED <<forms, tapped, calm, typed, cleared>>
  BY DEF FormInv, historyVars
<1>2. /\ subs' \in Seq(SubType) /\ Len(subs') = Len(subs) /\ DOMAIN subs' = DOMAIN subs
      /\ subs'[i] = s /\ \A j \in DOMAIN subs : j # i => subs'[j] = subs[j]
      /\ \A j \in DOMAIN subs : subs'[j].of = subs[j].of
  BY <1>1, SubChanged
<1>3. RestType'
  BY <1>1 DEF TypeOK, RestType, screenVars, mapVars, InUse
<1>4. SubsType'
  BY <1>1, <1>2 DEF TypeOK, SubsType, InUse
<1>5. WaitingSees'
  BY <1>1, <1>2 DEF FormInv, Posts, WaitingSees, TypeOK
<1>6. SameUser'
  BY <1>1, <1>2 DEF FormInv, Posts, SameUser
<1>7. InputKept'
  <2>1. PhotoOfDraft'
    BY <1>1, <1>2 DEF FormInv, Posts, InputKept, PhotoOfDraft, TypeOK
  <2>2. PostedBySubmitter'
    BY <1>1, <1>2 DEF FormInv, Posts, InputKept, PostedBySubmitter
  <2>3. DraftKept'
    BY <1>1 DEF FormInv, Posts, InputKept, DraftKept, form, InUse
  <2> QED
    BY <2>1, <2>2, <2>3 DEF InputKept
<1> QED
  BY <1>3, <1>4, <1>5, <1>6, <1>7 DEF FormInv, Posts, TypeOK, RestType, SubsType, QueueType

LEMMA RecordArrivesKeeps ==
  ASSUME FormInv, NEW i, RecordArrives(i)
  PROVE  FormInv'
<1> DEFINE s == [subs[i] EXCEPT !.stage = "upload", !.photo = forms[subs[i].of].photo]
<1>1. /\ TypeOK /\ i \in DOMAIN subs /\ subs[i].stage = "record"
      /\ UNCHANGED <<forms, screenVars, mapVars, queue, tapped, historyVars, touches>>
  BY DEF FormInv, RecordArrives, TakePhoto, Waiting
<1>2. subs[i] \in SubType /\ subs[i].of \in DOMAIN forms
  BY <1>1, SubmissionType
<1>3. forms[subs[i].of] \in FormType
  BY <1>1, <1>2 DEF TypeOK
<1>4. s \in SubType /\ s.of = subs[i].of /\ s.stage = "upload" /\ s.photo = forms[subs[i].of].photo
  BY <1>2, <1>3 DEF SubType, FormType
<1>5. subs' = [subs EXCEPT ![i] = s]
  BY <1>1, <1>2 DEF RecordArrives, TakePhoto, TypeOK
<1>6. i \in calm => s.photo = tapped[i].photo
  BY <1>1, <1>4 DEF FormInv, Posts, WaitingSees
<1> HIDE DEF s
<1>7. QueueType'
  <2>1. /\ DOMAIN subs' = DOMAIN subs
        /\ subs'[i] = s /\ \A j \in DOMAIN subs : j # i => subs'[j] = subs[j]
    BY <1>1, <1>4, <1>5, SubChanged
  <2>2. {j \in DOMAIN subs' : subs'[j].stage = "write"} = {j \in DOMAIN subs : subs[j].stage = "write"}
    BY <1>1, <1>4, <2>1
  <2> QED
    BY <1>1, <2>1, <2>2 DEF TypeOK, QueueType
<1>8. QueuedOnce'
  BY <1>1 DEF FormInv, QueuedOnce
<1> QED
  BY <1>1, <1>4, <1>5, <1>6, <1>7, <1>8, ProgressKeeps

LEMMA UploadFailsKeeps ==
  ASSUME FormInv, NEW i, UploadFails(i)
  PROVE  FormInv'
<1> DEFINE s == [subs[i] EXCEPT !.stage = "failed"]
<1>1. /\ TypeOK /\ i \in DOMAIN subs /\ subs[i].stage = "upload"
      /\ UNCHANGED <<forms, screenVars, mapVars, queue, tapped, historyVars, touches>>
  BY DEF FormInv, UploadFails
<1>2. subs[i] \in SubType
  BY <1>1, SubmissionType
<1>3. s \in SubType /\ s.of = subs[i].of /\ s.stage = "failed" /\ s.photo = subs[i].photo
  BY <1>2 DEF SubType
<1>4. subs' = [subs EXCEPT ![i] = s]
  BY DEF UploadFails
<1>5. i \in calm => s.photo = tapped[i].photo
  BY <1>1, <1>3 DEF FormInv, Posts, InputKept, PhotoOfDraft
<1> HIDE DEF s
<1>6. QueueType'
  <2>1. /\ DOMAIN subs' = DOMAIN subs
        /\ subs'[i] = s /\ \A j \in DOMAIN subs : j # i => subs'[j] = subs[j]
    BY <1>1, <1>3, <1>4, SubChanged
  <2>2. {j \in DOMAIN subs' : subs'[j].stage = "write"} = {j \in DOMAIN subs : subs[j].stage = "write"}
    BY <1>1, <1>3, <2>1
  <2> QED
    BY <1>1, <2>1, <2>2 DEF TypeOK, QueueType
<1>7. QueuedOnce'
  BY <1>1 DEF FormInv, QueuedOnce
<1> QED
  BY <1>1, <1>3, <1>4, <1>5, <1>6, <1>7, ProgressKeeps

LEMMA UploadDoneKeeps ==
  ASSUME FormInv, NEW i, UploadDone(i)
  PROVE  FormInv'
<1> DEFINE s == [subs[i] EXCEPT !.stage = "write", !.by = Author(i)]
<1>1. /\ TypeOK /\ i \in DOMAIN subs /\ subs[i].stage = "upload"
      /\ queue' = Append(queue, i)
      /\ UNCHANGED <<forms, screenVars, mapVars, tapped, historyVars, touches>>
  BY DEF FormInv, UploadDone
<1>2. subs[i] \in SubType /\ subs[i].of \in DOMAIN forms
  BY <1>1, SubmissionType
<1>3. Author(i) \in User /\ Author(i) = tapped[i].user
  <2>1. forms[subs[i].of] \in FormType
    BY <1>1, <1>2 DEF TypeOK
  <2>2. forms[subs[i].of].user = tapped[i].user
    BY <1>1 DEF FormInv, Posts, SameUser
  <2> QED
    BY <2>1, <2>2 DEF Author, FormType
<1>4. /\ s \in SubType /\ s.of = subs[i].of /\ s.stage = "write" /\ s.by = Author(i)
      /\ s.photo = subs[i].photo
  BY <1>2, <1>3 DEF SubType
<1>5. subs' = [subs EXCEPT ![i] = s]
  BY <1>1, <1>2 DEF UploadDone, TypeOK
<1>6. i \in calm => s.photo = tapped[i].photo
  BY <1>1, <1>4 DEF FormInv, Posts, InputKept, PhotoOfDraft
<1> HIDE DEF s
<1>7. /\ DOMAIN subs' = DOMAIN subs
      /\ subs'[i] = s /\ \A j \in DOMAIN subs : j # i => subs'[j] = subs[j]
  BY <1>1, <1>4, <1>5, SubChanged
<1>8. /\ queue \in Seq(DOMAIN subs) /\ DOMAIN queue = 1 .. Len(queue) /\ Len(queue) \in Nat
      /\ \A n \in DOMAIN queue : queue[n] # i
  <2>1. queue \in Seq(DOMAIN subs)
    BY <1>1 DEF TypeOK
  <2>2. \A n \in DOMAIN queue : queue[n] \in {j \in DOMAIN subs : subs[j].stage = "write"}
    BY <1>1 DEF TypeOK
  <2> QED
    BY <1>1, <2>1, <2>2, LenProperties
<1>9. /\ queue' \in Seq(DOMAIN subs) /\ DOMAIN queue' = DOMAIN queue \cup {Len(queue) + 1}
      /\ queue'[Len(queue) + 1] = i /\ \A n \in DOMAIN queue : queue'[n] = queue[n]
  <2>1. queue' \in Seq(DOMAIN subs) /\ Len(queue') = Len(queue) + 1
    BY <1>1, <1>8, AppendProperties
  <2>2. DOMAIN queue' = 1 .. Len(queue) + 1
    BY <2>1, LenProperties
  <2> QED
    BY <1>1, <1>8, <2>1, <2>2, AppendProperties
<1>10. QueueType'
  <2>1. {queue'[n] : n \in DOMAIN queue'} = {queue[n] : n \in DOMAIN queue} \cup {i}
    BY <1>9
  <2>2. {j \in DOMAIN subs' : subs'[j].stage = "write"}
           = {j \in DOMAIN subs : subs[j].stage = "write"} \cup {i}
    BY <1>1, <1>4, <1>7
  <2> QED
    BY <1>1, <1>7, <1>9, <2>1, <2>2 DEF TypeOK, QueueType
<1>11. QueuedOnce'
  BY <1>8, <1>9 DEF FormInv, QueuedOnce
<1>12. s.by = tapped[i].user
  BY <1>3, <1>4
<1> QED
  BY <1>1, <1>4, <1>5, <1>6, <1>10, <1>11, <1>12, ProgressKeeps

\* The oldest write is answered: it leaves the queue, where it was once.
LEMMA AnswerEffect ==
  ASSUME TypeOK, QueuedOnce, queue # <<>>, queue' = Tail(queue),
         NEW s \in SubType, s.stage # "write", s.of = subs[Head(queue)].of,
         subs' = [subs EXCEPT ![Head(queue)] = s]
  PROVE  /\ Head(queue) \in DOMAIN subs /\ subs[Head(queue)].stage = "write"
         /\ QueueType' /\ QueuedOnce'
<1>1. queue \in Seq(DOMAIN subs)
  BY DEF TypeOK
<1>2. /\ Len(queue) \in Nat /\ DOMAIN queue = 1 .. Len(queue) /\ Len(queue) # 0
  BY <1>1, LenProperties, EmptySeq
<1>3. Head(queue) = queue[1] /\ 1 \in DOMAIN queue
  BY <1>1, <1>2
<1>4. \A n \in DOMAIN queue : queue[n] \in {i \in DOMAIN subs : subs[i].stage = "write"}
  BY DEF TypeOK
<1>5. Head(queue) \in DOMAIN subs /\ subs[Head(queue)].stage = "write"
  BY <1>3, <1>4
<1>6. /\ DOMAIN subs' = DOMAIN subs /\ subs'[Head(queue)] = s
      /\ \A j \in DOMAIN subs : j # Head(queue) => subs'[j] = subs[j]
  BY <1>5, SubChanged
<1>7. /\ queue' \in Seq(DOMAIN subs) /\ Len(queue') = Len(queue) - 1
      /\ \A n \in 1 .. Len(queue') : queue'[n] = queue[n + 1]
  BY <1>1, HeadTailProperties
<1>8. DOMAIN queue' = 1 .. Len(queue) - 1
  BY <1>7, LenProperties
<1>9. \A n \in DOMAIN queue' : n + 1 \in DOMAIN queue /\ queue'[n] = queue[n + 1]
  BY <1>2, <1>7, <1>8
<1>10. QueuedOnce'
  <2> SUFFICES ASSUME NEW m \in DOMAIN queue', NEW n \in DOMAIN queue', queue'[m] = queue'[n]
               PROVE  m = n
    BY DEF QueuedOnce
  <2>1. m + 1 = n + 1
    BY <1>9 DEF QueuedOnce
  <2> QED
    BY <1>2, <1>8, <2>1
<1>11. {queue'[n] : n \in DOMAIN queue'} = {queue[n] : n \in DOMAIN queue} \ {Head(queue)}
  <2>1. ASSUME NEW n \in DOMAIN queue'
        PROVE  queue'[n] \in {queue[k] : k \in DOMAIN queue} \ {Head(queue)}
    <3>1. n + 1 # 1 /\ n + 1 \in DOMAIN queue
      BY <1>2, <1>8, <1>9
    <3>2. queue[n + 1] # queue[1]
      BY <1>3, <3>1 DEF QueuedOnce
    <3> QED
      BY <1>3, <1>9, <3>1, <3>2
  <2>2. ASSUME NEW n \in DOMAIN queue, queue[n] # Head(queue)
        PROVE  queue[n] \in {queue'[k] : k \in DOMAIN queue'}
    <3>1. n - 1 \in DOMAIN queue' /\ (n - 1) + 1 = n
      BY <1>2, <1>3, <1>8, <2>2
    <3> QED
      BY <1>9, <3>1
  <2> QED
    BY <2>1, <2>2
<1>12. {i \in DOMAIN subs' : subs'[i].stage = "write"}
          = {i \in DOMAIN subs : subs[i].stage = "write"} \ {Head(queue)}
  BY <1>5, <1>6
<1>13. QueueType'
  BY <1>6, <1>7, <1>11, <1>12 DEF TypeOK, QueueType
<1> QED
  BY <1>5, <1>10, <1>13

LEMMA RefusedKeeps ==
  ASSUME FormInv, Refused
  PROVE  FormInv'
<1> DEFINE i == Head(queue)
           s == [subs[i] EXCEPT !.stage = "failed"]
<1>1. /\ TypeOK /\ QueuedOnce /\ queue # <<>> /\ queue' = Tail(queue)
      /\ UNCHANGED <<forms, screenVars, mapVars, tapped, historyVars, touches>>
  BY DEF FormInv, Refused
<1>2. i \in DOMAIN subs
  BY <1>1, HeadTailProperties DEF TypeOK
<1>3. subs[i] \in SubType
  BY <1>1, <1>2, SubmissionType
<1>4. s \in SubType /\ s.of = subs[i].of /\ s.stage = "failed" /\ s.photo = subs[i].photo
  BY <1>3 DEF SubType
<1>5. subs' = [subs EXCEPT ![i] = s]
  BY DEF Refused
<1> HIDE DEF s
<1>6. subs[i].stage = "write" /\ QueueType' /\ QueuedOnce'
  BY <1>1, <1>4, <1>5, AnswerEffect
<1>7. i \in calm => s.photo = tapped[i].photo
  BY <1>4, <1>6 DEF FormInv, Posts, InputKept, PhotoOfDraft
<1> HIDE DEF i
<1> QED
  BY <1>1, <1>2, <1>4, <1>5, <1>6, <1>7, ProgressKeeps

\* An accepted post clears a form: the one of its own tab bar, which may not be
\* the one in use.
LEMMA AcceptedKeeps ==
  ASSUME FormInv, Accepted
  PROVE  FormInv'
<1> DEFINE i == Head(queue)
           g == subs[i].of
           s == [subs[i] EXCEPT !.stage = "posted"]
<1>1. /\ TypeOK /\ QueuedOnce /\ queue # <<>> /\ queue' = Tail(queue)
      /\ forms' = [forms EXCEPT ![g] = Cleared(@)]
      /\ tab' = IF g = InUse THEN "other" ELSE tab
      /\ calm' = {j \in calm : j \notin Waiting \/ subs[j].of # g}
      /\ cleared' = (cleared \/ g = InUse)
      /\ UNCHANGED <<map, modal, hidden, mapVars, tapped, typed, touches>>
  BY DEF FormInv, Accepted
<1>2. i \in DOMAIN subs
  BY <1>1, HeadTailProperties DEF TypeOK
<1>3. subs[i] \in SubType /\ g \in DOMAIN forms
  BY <1>1, <1>2, SubmissionType
<1>4. /\ s \in SubType /\ s.of = g /\ s.stage = "posted" /\ s.photo = subs[i].photo
      /\ s.by = subs[i].by
  BY <1>3 DEF SubType
<1>5. subs' = [subs EXCEPT ![i] = s]
  BY DEF Accepted
<1> HIDE DEF s
<1>6. subs[i].stage = "write" /\ QueueType' /\ QueuedOnce'
  BY <1>1, <1>4, <1>5, AnswerEffect
<1>7. /\ subs' \in Seq(SubType) /\ Len(subs') = Len(subs) /\ DOMAIN subs' = DOMAIN subs
      /\ subs'[i] = s /\ \A j \in DOMAIN subs : j # i => subs'[j] = subs[j]
      /\ \A j \in DOMAIN subs : subs'[j].of = subs[j].of
  BY <1>1, <1>2, <1>4, <1>5, SubChanged
<1>8. Cleared(forms[g]) \in FormType /\ Cleared(forms[g]).user = forms[g].user
  BY <1>1, <1>3, ClearedType DEF TypeOK
<1>9. /\ forms' \in Seq(FormType) /\ Len(forms') = Len(forms)
      /\ \A h \in DOMAIN forms : forms'[h] = IF h = g THEN Cleared(forms[g]) ELSE forms[h]
  BY <1>1, <1>3, <1>8, ExceptSeq, LenProperties DEF TypeOK
<1>10. InUse' = InUse /\ InUse \in DOMAIN forms
  BY <1>1, <1>9, FormInUse DEF InUse
<1>11. \A j \in DOMAIN subs : subs[j].of \in DOMAIN forms
  BY <1>1, SubmissionType
<1> HIDE DEF g, i
<1>12. RestType'
  <2>1. tab' \in {"add", "other"}
    BY <1>1 DEF TypeOK
  <2>2. cleared' \in BOOLEAN
    BY <1>1
  <2>3. /\ map' \in BOOLEAN /\ hidden' \in BOOLEAN /\ searching' \in BOOLEAN /\ orphan' \in BOOLEAN
    BY <1>1 DEF TypeOK, mapVars
  <2>4. /\ modal' \in {"none", "photos", "search"}
        /\ here' \in Place \cup {Nothing} /\ asking' \in Place \cup {Nothing}
        /\ typed' \in [text : Text \cup {Nothing}, photo : Photo \cup {Nothing}]
        /\ touches' \in 0 .. MaxTouches /\ InUse' \in 1 .. MaxLogins
    BY <1>1, <1>10 DEF TypeOK, mapVars
  <2> QED
    BY <1>9, <2>1, <2>2, <2>3, <2>4 DEF RestType
<1>13. SubsType'
  BY <1>1, <1>7, <1>10 DEF TypeOK, SubsType
<1>14. WaitingSees'
  <2> SUFFICES ASSUME NEW j \in calm', subs'[j].stage = "record"
               PROVE  forms'[subs'[j].of].photo = tapped'[j].photo
    BY DEF WaitingSees
  <2>1. j \in calm /\ j \in DOMAIN subs
    BY <1>1 DEF TypeOK
  <2>2. j # i /\ subs[j].stage = "record"
    BY <1>4, <1>7, <2>1
  <2>3. subs[j].of # g
    BY <1>1, <2>1, <2>2 DEF Waiting
  <2>4. subs[j].of \in DOMAIN forms /\ subs'[j].of = subs[j].of
    BY <1>7, <1>11, <2>1
  <2> QED
    BY <1>1, <1>9, <2>1, <2>2, <2>3, <2>4 DEF FormInv, Posts, WaitingSees
<1>15. SameUser'
  BY <1>1, <1>7, <1>8, <1>9, <1>11 DEF FormInv, Posts, SameUser
<1>16. InputKept'
  <2>1. PhotoOfDraft'
    <3>1. calm' \subseteq calm /\ calm \subseteq DOMAIN subs
      BY <1>1 DEF TypeOK
    <3> QED
      BY <1>1, <1>4, <1>6, <1>7, <3>1 DEF FormInv, Posts, InputKept, PhotoOfDraft
  <2>2. PostedBySubmitter'
    BY <1>1, <1>4, <1>6, <1>7 DEF FormInv, Posts, InputKept, PostedBySubmitter
  <2>3. DraftKept'
    BY <1>1, <1>9, <1>10 DEF FormInv, Posts, InputKept, DraftKept, form
  <2> QED
    BY <2>1, <2>2, <2>3 DEF InputKept
<1> QED
  BY <1>6, <1>12, <1>13, <1>14, <1>15, <1>16
  DEF FormInv, Posts, TypeOK, RestType, SubsType, QueueType

-----------------------------------------------------------------------------
LEMMA FormInvNext ==
  ASSUME FormInv, [Next]_vars
  PROVE  FormInv'
<1>1. ASSUME NEW t \in Text \cup {Nothing}, TypeText(t) PROVE FormInv'
  BY <1>1, TypeTextKeeps
<1>2. ASSUME NEW x \in Place \cup {Nothing}, TypePlace(x) PROVE FormInv'
  BY <1>2, TypePlaceKeeps
<1>3. ASSUME NEW k \in Category, ChooseCategory(k) PROVE FormInv'
  BY <1>3, ChooseCategoryKeeps
<1>4. CASE OpenPhotos
  <2>1. touches' \in 0 .. MaxTouches /\ TypeOK
    BY <1>4, Touched DEF FormInv, OpenPhotos
  <2> QED
    BY <1>4, <2>1, ScreenKeeps DEF OpenPhotos, mapVars, TypeOK
<1>5. CASE CancelPhotos
  BY <1>5, CancelPhotosKeeps
<1>6. ASSUME NEW ph \in Photo, PickPhoto(ph) PROVE FormInv'
  BY <1>6, PickPhotoKeeps
<1>7. ASSUME NEW t \in {"add", "other"}, SelectTab(t) PROVE FormInv'
  BY <1>7, SelectTabKeeps
<1>8. ASSUME NEW u \in User, LoginAgain(u) PROVE FormInv'
  BY <1>8, LoginAgainKeeps
<1>9. CASE Submit
  BY <1>9, SubmitKeeps
<1>10. CASE OnMap
  BY <1>10, OnMapKeeps
<1>11. ASSUME NEW i \in DOMAIN subs, Progress(i) PROVE FormInv'
  BY <1>11, RecordArrivesKeeps, UploadFailsKeeps, UploadDoneKeeps DEF Progress
<1>12. CASE Refused
  BY <1>12, RefusedKeeps
<1>13. CASE Accepted
  BY <1>13, AcceptedKeeps
<1>14. CASE UNCHANGED vars
  <2>1. UNCHANGED <<forms, screenVars, mapVars, subVars, historyVars, touches>>
    BY <1>14 DEF vars
  <2> QED
    BY <2>1, ScreenKeeps DEF screenVars, mapVars, FormInv, TypeOK
<1> QED
  BY <1>1, <1>2, <1>3, <1>4, <1>5, <1>6, <1>7, <1>8, <1>9, <1>10, <1>11, <1>12, <1>13, <1>14
  DEF Next, OnForm, Submitting

LEMMA FormInvHolds == Spec => []FormInv
<1>1. FormInv /\ [Next]_vars => FormInv'
  BY FormInvNext
<1> QED
  BY <1>1, FormInvInit, PTL DEF Spec

\* Every variable has its type, every submission its form, and the queue holds
\* exactly the posts that are on their way to the server, for any numbers of
\* touches, submissions and tab bars.  (AddPostController, LocationController.)
THEOREM FormTypeCorrect == Spec => []TypeOK
<1>1. FormInv => TypeOK
  BY DEF FormInv
<1> QED
  BY <1>1, FormInvHolds, PTL

\* What the user put into the form stays there until a post is accepted, and is
\* what a post carries, under the name of whoever tapped Submit, in every order
\* of touches, answers and logins.  (submitPressed with its callbacks.)
THEOREM InputSurvives == Spec => []InputKept
<1>1. FormInv => InputKept
  BY DEF FormInv, Posts
<1> QED
  BY <1>1, FormInvHolds, PTL
=============================================================================
