----------------------------- MODULE PhoneField -----------------------------
(***************************************************************************)
(* The phone number field of the sign-up form and of the profile editor:   *)
(* phoneMask (Extensions.swift) and the delegate methods that call it.     *)
(*                                                                         *)
(* UIKit asks the delegate before it replaces a range of the text, which   *)
(* is a caret when nothing is selected.  The mask lets the change happen,  *)
(* forbids it, or forbids it and sets the text itself.  It has to do so    *)
(* without losing a digit, without making separators that cannot be        *)
(* deleted, and without letting the number grow.                           *)
(***************************************************************************)
EXTENDS Naturals, Sequences

CONSTANTS
    Digit,      \* the digits that are typed
    Other,      \* characters that are neither digits nor separators
    Country,    \* the one of the default country code
    Pastes,     \* what is pasted
    MaxEdits    \* bound on the edits

Separator == {"+", "(", ")", " ", "-"}
Char == Digit \cup Separator \cup Other

\* Of the constants.
PhoneAssumption ==
    /\ Country \in Digit
    /\ Digit \cap (Separator \cup Other) = {} /\ Separator \cap Other = {}
    /\ Pastes \subseteq Seq(Char)
    /\ MaxEdits \in Nat

VARIABLES
    text,       \* the text of the field
    focused,    \* the field has the keyboard
    squeezed,   \* history: a selection was replaced by something shorter
    edits       \* how much of the bound is used

vars == <<text, focused, squeezed, edits>>

MaxCharInPhone == 11

\* numString, which keeps the digits one by one.
Digits(s) ==
    LET upTo[n \in 0 .. Len(s)] ==
            IF n = 0 THEN <<>>
            ELSE IF s[n] \in Digit THEN Append(upTo[n - 1], s[n])
            ELSE upTo[n - 1]
    IN  upTo[Len(s)]

\* replacingCharacters: s in place of what is between the positions i and j.
Replaced(i, j, s) == SubSeq(text, 1, i) \o s \o SubSeq(text, j + 1, Len(text))

-----------------------------------------------------------------------------
\* With a bug: the fourth digit of a number stays behind.
MaskOffByOne(num) ==
    LET n == Len(num)
        part(a, b) == SubSeq(num, a, IF b < n THEN b ELSE n)
    IN  (IF n > 0 THEN <<"+", num[1], "(">> ELSE <<>>)
        \o (IF n > 1 THEN part(2, 4) ELSE <<>>)
        \o (IF n >= 4 THEN <<")", " ">> ELSE <<>>)
        \o (IF n > 4 THEN part(6, 7) ELSE <<>>)
        \o (IF n >= 7 THEN <<"-">> ELSE <<>>)
        \o (IF n > 7 THEN part(8, n) ELSE <<>>)

\* +X(XXX) XXX-XXXX, as far as there are digits.
Mask(num) ==
    LET n == Len(num)
        part(a, b) == SubSeq(num, a, IF b < n THEN b ELSE n)
    IN  (IF n > 0 THEN <<"+", num[1], "(">> ELSE <<>>)
        \o (IF n > 1 THEN part(2, 4) ELSE <<>>)
        \o (IF n >= 4 THEN <<")", " ">> ELSE <<>>)
        \o (IF n > 4 THEN part(5, 7) ELSE <<>>)
        \o (IF n >= 7 THEN <<"-">> ELSE <<>>)
        \o (IF n > 7 THEN part(8, n) ELSE <<>>)

\* A shorter text is left alone, unless hardly anything is left.
Shortened(new) == IF Len(new) <= 2 THEN <<>> ELSE new

\* A longer one, or one of the same length, is masked, unless it has too many
\* digits.
Extended(new) ==
    IF Len(Digits(new)) > MaxCharInPhone THEN text
    ELSE IF new = <<"+">> THEN new
    ELSE Mask(Digits(new))

\* The text that the field shows after an edit.
Edited(i, j, s) ==
    LET new == Replaced(i, j, s)
    IN  IF Len(new) < Len(text) THEN Shortened(new) ELSE Extended(new)

-----------------------------------------------------------------------------
Init ==
    /\ text = <<>> /\ focused = FALSE
    /\ squeezed = FALSE
    /\ edits = 0

\* textFieldDidBeginEditing.
BeginEditing ==
    /\ ~focused
    /\ focused' = TRUE
    /\ text' = IF text = <<>> THEN <<"+", Country, " ", "(">> ELSE text
    /\ UNCHANGED <<squeezed, edits>>

\* The user goes to another field.
EndEditing ==
    /\ focused
    /\ focused' = FALSE
    /\ UNCHANGED <<text, squeezed, edits>>

\* Backspace or Cut, a key of the phone pad, and Paste, all at a caret or over
\* a selection.
Input == {<<>>, <<"+">>} \cup {<<d>> : d \in Digit} \cup Pastes
From(i) == i .. Len(text)

\* shouldChangeCharactersIn, with phoneMask and what UIKit does with its
\* answer.  A complete number closes the keyboard.
Edit(i, j, s) ==
    LET new == Replaced(i, j, s)
        shorter == Len(new) < Len(text)
    IN  /\ focused
        /\ i = j => s # <<>>
        /\ edits < MaxEdits
        /\ text' = Edited(i, j, s)
        /\ focused' = (shorter \/ Len(Digits(new)) # MaxCharInPhone)
        /\ squeezed' = (squeezed \/ (shorter /\ s # <<>>))
        /\ edits' = edits + 1

Next ==
    \/ BeginEditing \/ EndEditing
    \/ \E i \in From(0) : \E j \in From(i), s \in Input : Edit(i, j, s)

Spec == Init /\ [][Next]_vars

-----------------------------------------------------------------------------
(***************************************************************************)
(* Properties.                                                             *)
(***************************************************************************)

\* The types; and characters that belong to no number do not get into the
\* field, unless a selection was replaced by something shorter.
TypeOK ==
    /\ text \in Seq(Char)
    /\ focused \in BOOLEAN /\ squeezed \in BOOLEAN
    /\ edits \in 0 .. MaxEdits
    /\ ~squeezed => text \in Seq(Digit \cup Separator)

\* No way of typing and pasting makes a number of more than eleven digits,
\* wherever the caret is and whichever separators were deleted before; unless
\* a selection was replaced by something shorter, which phoneMask takes for a
\* backspace and does not count.
\* (phoneMask: "input is complete, do not add characters".)
ElevenDigits == ~squeezed => Len(Digits(text)) <= MaxCharInPhone

\* However the separators are moved about, the next edit makes the number what
\* it says, digit by digit, if it is not refused or the field cleared.
\* (phoneMask: the offsets of the four parts.)
DigitsStay ==
    edits < MaxEdits =>
    \A i \in From(0) : \A j \in From(i), s \in Input :
        Digits(Edited(i, j, s)) \in
            {Digits(text), <<>>, Digits(Replaced(i, j, s))}

\* A deletion always makes the text shorter: the mask does not put back the
\* separator that was deleted, over which backspace would not get.
\* (phoneMask: "backspace to work".)
BackspaceWorks ==
    edits < MaxEdits =>
    \A i \in From(0) : \A j \in From(i) \ {i} :
        Len(Edited(i, j, <<>>)) < Len(text)
=============================================================================
