\* A new post, one lost connection and one killed process.
SPECIFICATION Spec
CONSTANTS
    c1 = c1
    c2 = c2
    ann = ann
    bob = bob
    p1 = p1
    p2 = p2
    study = study
    food = food
    Absent = Absent
    NoUser = NoUser
    Client = {c1, c2}
    User = {ann, bob}
    Accounts <- AnnOnBoth
    Post = {p1}
    Category = {study}
    CategoryOf <- AllStudy
    OldPosts = {}
    OldPins = {}
    OldKarma <- AnnHelpedTwice
    Refusable = {}
    MaxTaps = 3
    MaxDrops = 1
    MaxKills = 1
INVARIANTS
    TypeOK
    NoPostLost
    PostedBeforeUse
    NoGhosts
    KarmaWithinChecks
    HelperRewarded
PROPERTIES
    FollowsLifecycle
CHECK_DEADLOCK FALSE
