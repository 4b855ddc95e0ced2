\* Two fair devices that follow each other through the database, one lost
\* connection.
SPECIFICATION FairSpec
CONSTANTS
    c1 = c1
    c2 = c2
    ann = ann
    bob = bob
    p1 = p1
    p2 = p2
    study = study
    food = food
    Absent = Absent
    NoUser = NoUser
    Client = {c1, c2}
    User = {ann, bob}
    Accounts <- DeviceEach
    Post = {p1}
    Category = {study}
    CategoryOf <- AllStudy
    OldPosts = {p1}
    OldPins = {}
    OldKarma <- AnnHelpedTwice
    Refusable = {}
    MaxTaps = 2
    MaxDrops = 1
    MaxKills = 0
PROPERTIES
    ScreensConverge
    CompletionArrives
CHECK_DEADLOCK FALSE
