CONSTANTS
    Requests = {r1, r2, r3}
    Usernames = {u1}
    Exts = {jpg, png}
    Old = Old
    Nothing = Nothing
    MaxCrashes = 1
SYMMETRY Symmetry
SPECIFICATION Spec
INVARIANTS
    TypeOK
    HalfFacesHaveCause
    HalfFacesAreTold
    SecondFacesHaveCause
    EmbeddingsAreCurrent
CHECK_DEADLOCK FALSE
