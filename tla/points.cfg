\* A second completion in one session: the points are not added.
SPECIFICATION Spec
CONSTANTS
    c1 = c1
    c2 = c2
    ann = ann
    bob = bob
    p1 = p1
    p2 = p2
    study = study
    food = food
    Absent = Absent
    NoUser = NoUser
    Client = {c1}
    User = {ann, bob}
    Accounts <- DeviceEach
    Post = {p1, p2}
    Category = {study, food}
    CategoryOf <- StudyAndFood
    OldPosts = {p1, p2}
    OldPins <- AllPinned
    OldKarma <- AnnHelpedTwice
    Refusable = {}
    MaxTaps = 3
    MaxDrops = 0
    MaxKills = 0
INVARIANTS
    PointsAdded
CHECK_DEADLOCK FALSE
