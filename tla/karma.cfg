\* The records that the Karma tab unwraps, with an account whose sign-up was
\* cut short.
SPECIFICATION Spec
CONSTANTS
    ann = ann
    bob = bob
    NoUser = NoUser
    Account = {ann, bob}
    Members = {ann}
    CutShort = {bob}
    MaxTaps = 6
    MaxKills = 0
INVARIANTS
    RecordsWhole
CHECK_DEADLOCK FALSE
