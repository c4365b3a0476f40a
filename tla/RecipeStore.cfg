CONSTANTS
    Requests = {r1, r2, r3}
    Names = {n1}
    Nothing = Nothing
    MaxCrashes = 1
SPECIFICATION FairSpec
INVARIANTS
    TypeOK
    FilesAreWhole
    FilesMatchRows
PROPERTIES
    DeletionsAreComplete
    RequestsEnd
CHECK_DEADLOCK FALSE
