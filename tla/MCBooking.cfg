SPECIFICATION Spec
CONSTANTS
    Booker = {b1, b2}
    HostMeeting = {h1}
    Lengths = {2}
    Granularity = 2
    DayLength = 2
    Days = 2
    OpenFrom = 0
    OpenTo = 2
    MaxPerDay = 2
    Offsets = {0}
    Grace = 1
    Retention = 1
    MissingIsFileNotFound = FALSE
    Quiet = TRUE
    MaxNow = 0
    MaxFaults = 0
SYMMETRY Symmetry
VIEW SafetyView
INVARIANTS
    NoDoubleBooking
    RecheckIsExact
PROPERTIES
    CancelledStaysCancelled
CHECK_DEADLOCK FALSE
