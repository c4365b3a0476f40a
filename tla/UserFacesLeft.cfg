CONSTANTS
    Requests = {r1, r2}
    Usernames = {u1}
    Exts = {jpg, png}
    Old = Old
    Nothing = Nothing
    MaxCrashes = 0
SPECIFICATION FaultFreeSpec
INVARIANT
    NoFaceWithoutUser
CHECK_DEADLOCK FALSE
