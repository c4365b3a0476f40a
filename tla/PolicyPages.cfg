CONSTANTS
    Signals <- MCSignals
    Kind <- MCKind
    EnumValues <- MCEnumValues
    Default <- MCDefault
    Category <- MCCategory
    Categories = {"move"}
    Roles = {"guest"}
    Numbers = {0, 9}
    Texts = {"day", "night"}
    None = None
    MaxPredicates = 2
    AlwaysAllowed = {"wait"}
    First = "room_temperature"
    Typed <- MCTyped
    Chosen = {"==", "in"}
    Preset = {"move"}
    Rows <- MCRows
    Resumed <- MCResumed
    MaxTerms = 2
    MaxChanges = 1
SPECIFICATION Spec
INVARIANTS
    TypeOK
    SaveButtonIsRight
    DeniesAsRead
CHECK_DEADLOCK FALSE
