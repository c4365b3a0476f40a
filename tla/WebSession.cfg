CONSTANTS
    Slots = {c1, c2}
    Emails = {e1, e2}
    Handle <- MCHandle
    Passwords = {p1}
    Roles = {guest}
    Guest = guest
    First = e1
    None = None
    MaxUsers = 2
    MaxSuffix = 3
    Tabs = {t1, t2}
    Asked <- MCAsked
    MaxCalls = 3
SPECIFICATION Spec
SYMMETRY Symmetry
INVARIANTS
    TypeOK
    ConflictsAreRaces
    ActsAsShown
    SessionsAreRestored
    FormsAreAnswered
CHECK_DEADLOCK FALSE
