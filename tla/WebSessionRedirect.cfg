CONSTANTS
    Slots = {c1}
    Emails = {e1}
    Handle <- MCHandle
    Passwords = {p1}
    Roles = {guest}
    Guest = guest
    First = e1
    None = None
    MaxUsers = 1
    MaxSuffix = 2
    Tabs = {t1}
    Asked = {}
    MaxCalls = 3
SPECIFICATION FairSpec
PROPERTY StaleTabsRedirect
CHECK_DEADLOCK FALSE
