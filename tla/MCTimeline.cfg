SPECIFICATION FairSpec
CONSTANTS
    owner = owner
    helper = helper
    Rows = {r1, r2}
    Items = {i1}
    Events = {e1}
    Users = {owner, helper}
    Rank <- MCRank
    Loop = loop
    Threads = {t1}
    Statuses = {"inbox", "rejected"}
    MaxVersion = 2
PROPERTIES
    KeepsThePromise
    ClaimedUndoResolves
CHECK_DEADLOCK FALSE
