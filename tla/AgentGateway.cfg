CONSTANTS
    Accounts <- MCAccounts
    Skills <- MCOneSkill
    AlwaysAllowed = {}
    SeedRoles <- MCSeedRoles
    SeedGrants <- MCSeedGrants
    NoUser = NoUser
    NoRequest = NoRequest
    Direct = Direct
    Calls = {c1, c2}
    ChatRequests = {q1, q2}
    RecipeRequests = {}
    TurnMax = 2
    IdleWindow = 1
    InitialGrace = 1
    MaxChanges = 1
    MaxRestarts = 0
SYMMETRY Symmetry
SPECIFICATION Spec
INVARIANTS
    TypeOK
    TurnOwnsSession
    AttributedInTurn
    ForwardedOnlyIfPermitted
    ReportedOnce
CHECK_DEADLOCK FALSE
