----------------------------- MODULE MCAccounts -----------------------------
(***************************************************************************)
(* The accounts of a device, and the field for a phone number on the forms *)
(* that make and edit one.  Neither touches the state of the other: a      *)
(* behaviour is about one of them, its `part'.                             *)
(***************************************************************************)
EXTENDS MCSessions

CONSTANTS Digit, Other, Country, Pastes, MaxEdits

VARIABLES part, text, focused, squeezed, typings

phoneVars == <<text, focused, squeezed, typings>>

P == INSTANCE PhoneField WITH edits <- typings
ASSUME MCPhoneAssumption == P!PhoneAssumption

\* The rest of a number, a part of one, and something else.
MCPastes == {<<"2", "1", "2", "2", "1", "1", "2", "1", "2", "2">>,
             <<"2", "-", "1">>, <<"x">>}

MCInit == part \in {"sessions", "phone"} /\ Init /\ P!Init
MCNext == \/ part = "sessions" /\ Next /\ UNCHANGED <<part, phoneVars>>
          \/ part = "phone" /\ P!Next /\ UNCHANGED <<part, vars>>
MCSpec == /\ MCInit /\ [][MCNext]_<<part, vars, phoneVars>>
          /\ WF_vars(part = "sessions" /\ Callback /\ UNCHANGED <<part, phoneVars>>)

\* A phone number is what was typed, has at most eleven digits and nothing else
\* that was pasted, and backspace gets over its separators.  (phoneMask; see
\* PhoneField.)
NumberKept ==
    part = "phone" => P!TypeOK /\ P!ElevenDigits /\ P!DigitsStay /\ P!BackspaceWorks
=============================================================================
