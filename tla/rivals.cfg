\* Two devices, one of them shared, complete the same pinned post, as one
\* account or as two, while the server may refuse any write but a completion.
SPECIFICATION Spec
CONSTANTS
    c1 = c1
    c2 = c2
    ann = ann
    bob = bob
    p1 = p1
    p2 = p2
    study = study
    food = food
    Absent = Absent
    NoUser = NoUser
    Client = {c1, c2}
    User = {ann, bob}
    Accounts <- AnnOnBoth
    Post = {p1}
    Category = {study}
    CategoryOf <- AllStudy
    OldPosts = {p1}
    OldPins <- AllPinned
    OldKarma <- AnnHelpedTwice
    Refusable = {"posts", "pinned", "users"}
    MaxTaps = 2
    MaxDrops = 0
    MaxKills = 0
PROPERTIES
    FollowsLifecycle
CHECK_DEADLOCK FALSE
