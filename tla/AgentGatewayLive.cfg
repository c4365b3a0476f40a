CONSTANTS
    Accounts <- MCOneAccount
    Skills <- MCSkills
    AlwaysAllowed <- MCAlwaysAllowed
    SeedRoles <- MCOneSeedRole
    SeedGrants <- MCSeedGrants
    NoUser = NoUser
    NoRequest = NoRequest
    Direct = Direct
    Calls = {c1}
    ChatRequests = {q1, q2}
    RecipeRequests = {p1}
    TurnMax = 3
    IdleWindow = 1
    InitialGrace = 2
    MaxChanges = 0
    MaxRestarts = 1
SPECIFICATION FairSpec
PROPERTIES
    EveryTurnEnds
    TurnsInOrder
CHECK_DEADLOCK FALSE
