SPECIFICATION FairSpec
CONSTANTS
    owner = owner
    helper = helper
    Actions = {a1}
    Users = {owner, helper}
    Handlers = {h1, h2}
    Gated = {"email_send", "calendar_create", "user_invite"}
    Rank <- MCRank
    Sweeps = TRUE
INVARIANTS
    OnlyApprovedHappensOnce
    AuditAgrees
PROPERTIES
    DisabledRequesterChangesNothing
    KeepsThePromise
    ApprovedIsResolved
CHECK_DEADLOCK FALSE
