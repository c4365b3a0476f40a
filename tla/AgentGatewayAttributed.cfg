CONSTANTS
    Accounts <- MCAccounts
    Skills <- MCOneSkill
    AlwaysAllowed = {}
    SeedRoles <- MCSeedRoles
    SeedGrants <- MCSeedGrants
    NoUser = NoUser
    NoRequest = NoRequest
    Direct = Direct
    Calls = {c1}
    ChatRequests = {q1, q2}
    RecipeRequests = {}
    TurnMax = 3
    IdleWindow = 1
    InitialGrace = 2
    MaxChanges = 0
    MaxRestarts = 0
SPECIFICATION Spec
INVARIANT
    EveryCallAttributed
CHECK_DEADLOCK FALSE
