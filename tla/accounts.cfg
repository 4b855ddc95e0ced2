\* A member and a newcomer on one device, one killed process; and a number
\* typed, pasted, selected and deleted.
SPECIFICATION MCSpec
CONSTANTS
    ann = ann
    bob = bob
    NoUser = NoUser
    Account = {ann, bob}
    Members = {ann}
    CutShort = {}
    MaxTaps = 6
    MaxKills = 1
    Digit = {"1", "2"}
    Country = "1"
    Other = {"x"}
    Pastes <- MCPastes
    MaxEdits = 3
INVARIANTS
    TypeOK
    OneRecordPerAccount
    FlagMeansSignedIn
    NumberKept
PROPERTIES
    RecordArrives
CHECK_DEADLOCK FALSE
