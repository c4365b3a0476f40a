CONSTANTS
    Requests = {r1, r2}
    Skills <- MCSkills
    Categories <- MCCategories
    RoleNames = {"admin", "guest"}
    Policies = {p1}
    Wildcard = "*"
    Seed <- MCSeed
    Lists <- MCLists
    Grants <- MCGrants
    Bodies <- MCBodies
    Old = Old
    Nothing = Nothing
    MaxRestarts = 1
SYMMETRY Symmetry
SPECIFICATION Spec
INVARIANTS
    TypeOK
    CatalogueFollowsLastSync
    PoliciesAreCoherent
PROPERTIES
    ReferencesWereKnown
    PatchesKeepOtherFields
CHECK_DEADLOCK FALSE
