\* One device shared by two accounts, two posts on two pages, both pinned by
\* one of the accounts; the server may refuse any write.
SPECIFICATION Spec
CONSTANTS
    c1 = c1
    c2 = c2
    ann = ann
    bob = bob
    p1 = p1
    p2 = p2
    study = study
    food = food
    Absent = Absent
    NoUser = NoUser
    Client = {c1}
    User = {ann, bob}
    Accounts <- EveryDevice
    Post = {p1, p2}
    Category = {study, food}
    CategoryOf <- StudyAndFood
    OldPosts = {p1, p2}
    OldPins <- AnnPinned
    OldKarma <- AnnHelpedTwice
    Refusable = {"users"}
    MaxTaps = 3
    MaxDrops = 0
    MaxKills = 0
PROPERTIES
    KarmaNeverFalls
CHECK_DEADLOCK FALSE
