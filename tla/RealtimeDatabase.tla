-------------------------- MODULE RealtimeDatabase --------------------------
(***************************************************************************)
(* The Firebase Realtime Database as the app uses it: one shared tree of   *)
(* values at locations, and in each running app an outbox of the writes    *)
(* that updateChildValues, setValue and removeValue have issued and the    *)
(* server has not acknowledged.  The library is not part of the            *)
(* repository's sources, so every definition here is external.             *)
(*                                                                         *)
(* What the app relies on, and what is modelled: the writes of one app     *)
(* reach the server in the order they were issued; an app sees its own     *)
(* outstanding writes at once; after a lost connection every write that    *)
(* was not acknowledged is sent again, even if the server had already      *)
(* applied it; and the outbox lives in memory only, because the app never  *)
(* enables persistence, so it is lost when the process ends.               *)
(***************************************************************************)
EXTENDS Naturals, Sequences

CONSTANTS
    Client,     \* running copies of the app, one per device
    Absent      \* the value of a location that holds nothing

VARIABLES
    db,         \* the server's tree: location -> value
    outbox,     \* outbox[c]: the writes of c not yet acknowledged, oldest first
    applied     \* applied[c]: how many of them, from the oldest, the server
                \* has applied over the connection of now

dbVars == <<db, outbox, applied>>

Write(loc, val) == [loc |-> loc, val |-> val]

Issue(c, writes) ==
    /\ outbox' = [outbox EXCEPT ![c] = @ \o writes]
    /\ UNCHANGED <<db, applied>>

-----------------------------------------------------------------------------
(* What an app sees at a location: its own latest outstanding write there, *)
(* or else the server's value.  Seen is the set holding that one value.    *)

Outstanding(c, loc) == {i \in DOMAIN outbox[c] : outbox[c][i].loc = loc}

Latest(c, loc) ==
    {i \in Outstanding(c, loc) : \A j \in Outstanding(c, loc) : j <= i}

Seen(c, loc) ==
    IF Outstanding(c, loc) = {}
    THEN {db[loc]}
    ELSE {outbox[c][i].val : i \in Latest(c, loc)}

Shows(c, loc) == \E v \in Seen(c, loc) : v # Absent

-----------------------------------------------------------------------------
(* The connection of one app.                                              *)

NextWrite(c) == outbox[c][applied[c] + 1]

\* The server applies the next write it receives from c.
ServerApply(c) ==
    /\ applied[c] < Len(outbox[c])
    /\ db' = [db EXCEPT ![NextWrite(c).loc] = NextWrite(c).val]
    /\ applied' = [applied EXCEPT ![c] = @ + 1]
    /\ UNCHANGED outbox

Without(s, k) ==
    [i \in 1 .. (Len(s) - 1) |-> IF i < k THEN s[i] ELSE s[i + 1]]

\* The server refuses the next write: its completion block gets an error and
\* the app forgets the write.
ServerRefuse(c) ==
    /\ applied[c] < Len(outbox[c])
    /\ outbox' = [outbox EXCEPT ![c] = Without(@, applied[c] + 1)]
    /\ UNCHANGED <<db, applied>>

\* The acknowledgement of the oldest applied write reaches the app.
Acknowledge(c) ==
    /\ applied[c] > 0
    /\ outbox' = [outbox EXCEPT ![c] = Tail(@)]
    /\ applied' = [applied EXCEPT ![c] = @ - 1]
    /\ UNCHANGED db

\* The connection is lost with acknowledgements still under way, and made
\* again: everything not acknowledged will be sent once more.
Reconnect(c) ==
    /\ applied[c] > 0
    /\ applied' = [applied EXCEPT ![c] = 0]
    /\ UNCHANGED <<db, outbox>>

\* The process ends and its outbox with it.
LoseOutbox(c) ==
    /\ outbox' = [outbox EXCEPT ![c] = <<>>]
    /\ applied' = [applied EXCEPT ![c] = 0]
    /\ UNCHANGED db

Settled == \A c \in Client : outbox[c] = <<>>
=============================================================================
