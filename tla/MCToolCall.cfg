SPECIFICATION Spec
CONSTANTS
    Instances = {i1, i2}
    Users = {u1, u2}
    Projects = {p1}
    RoleOf <- MCRoleOf
    Keys = {k1}
    NoKey = NoKey
    Called <- MCCalled
    UserLimit = 1
    ProjectLimit = 1
    Window = 2
    Lag = 1
    MaxTime = 2
    MaxCalls = 2
INVARIANTS
    WithinQuota
    AnsweredKeyRunsOnce
    AnswersAgree
PROPERTIES
    RefusedOnlyWhenFull
CHECK_DEADLOCK FALSE
SYMMETRY Symmetric
