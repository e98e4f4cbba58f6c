SPECIFICATION Spec
CONSTANTS
    Users = {adm, own, new}
    Admins = {adm}
    Owners = {own}
    Projects = {p1}
    Given = {"reader"}
    Threads = {t1}
    MaxVersions = 4
    MaxTokens = 1
INVARIANTS
    TurnsLoseNothing
    PreviousIsKept
    LoginAppNotStuck
PROPERTIES
    LinksAreSingleUse
CHECK_DEADLOCK FALSE
