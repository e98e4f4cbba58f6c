SPECIFICATION FairSpec
CONSTANTS
    Booker = {b1}
    HostMeeting = {}
    Lengths = {2}
    Granularity = 2
    DayLength = 4
    Days = 1
    OpenFrom = 0
    OpenTo = 4
    MaxPerDay = 1
    Offsets = {1}
    Grace = 1
    Retention = 1
    MissingIsFileNotFound = TRUE
    Quiet = FALSE
    MaxNow = 6
    MaxFaults = 2
INVARIANTS
    RepeatsHaveCauses
PROPERTIES
    RetentionHonoured
CHECK_DEADLOCK FALSE
