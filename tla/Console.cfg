CONSTANTS
    None = None
    Paths <- AllPaths
    MaxFaults = 1
    MaxOthers = 1
    Skills = {"walk", "turn", "wait"}
    Always = {"wait"}
    CategoryOf <- MCCategoryOf
    Wildcard = "*"
    Rows = {r1, r2}
    Reads = {1, 2}
    MaxOps = 2
    Recipes = {d1, d2}
    RoleNames = {"admin", "guest"}
    Default = "guest"
    MaxMounts = 2
    MaxPictures = 1
    MaxMessages = 2
    Replies = {"agent"}
    MaxAnswers = 2
SPECIFICATION Spec
INVARIANTS
    TypeOK
    ListIsFresh
    ButtonsTellTheTruth
    EditsAreKept
    RefusalsHaveCause
    ShippedIsShown
    CameraOffWhenLeft
    SavedAsShown
    RepliesFollowMessages
PROPERTIES
    ListsCatchUp
CHECK_DEADLOCK FALSE
