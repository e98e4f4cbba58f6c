CONSTANTS
    Accounts = {1, 2}
    Provider <- TwoKinds
    Projects = {"p"}
    Jobs = {1, 2}
    Links = {1}
    Asks <- MCAsks
    MaxGrants = 2
    MaxScopeSets = 1
    MaxFaults = 1
SPECIFICATION AccountsSpec
INVARIANTS AccountsTyped StoreIsTheUsers
PROPERTIES LiveGrantServes
