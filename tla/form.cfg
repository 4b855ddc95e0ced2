\* Two submissions, two tab bars, two photos, and every request is answered.
SPECIFICATION FairSpec
CONSTANTS
    ann = ann
    bob = bob
    essay = essay
    study = study
    library = library
    sunset = sunset
    dawn = dawn
    Nothing = Nothing
    User = {ann, bob}
    Text = {essay}
    Category = {study}
    Place = {library}
    Photo = {sunset, dawn}
    MaxTouches = 8
    MaxSubmits = 2
    MaxLogins = 2
INVARIANTS
    TypeOK
    InputKept
PROPERTIES
    SubmissionsEnd
    TouchesComeBack
CHECK_DEADLOCK FALSE
