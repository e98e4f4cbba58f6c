SPECIFICATION ApartSpec
CONSTANTS
    Names = {"ann", "bob"}
    Domains = {"gmail.com", "googlemail.com", "example.org", "away.net"}
    Ids = {"hook", "topic"}
    Sessions = {s1, s2}
    Ttl = 1
    CodeTtl = 1
    Window = 2
    MaxRequests = 2
    MaxAttempts = 2
    Configs <- MCConfigs
    Projects <- MCProjects
    Accounts <- MCAccounts
    BriefPlaces <- MCBriefPlaces
    MaxTime = 3
    MaxCodes = 3
    Procs = {p1, p2}
    RuleIds = {r1, r2}
    Own = {"moved"}
    Foreign = {"hooked"}
    Plans <- MCPlans
    Workers = {w1, w2}
    Mailboxes = {"pr1", "pr2"}
    Specs <- MCSpecs
    Legacy <- MCLegacy
INVARIANTS SendsAreUnlocked LimitedGuesses ActsOnce BriefsStayHome
SYMMETRY Symmetry
CHECK_DEADLOCK FALSE
