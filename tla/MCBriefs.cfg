SPECIFICATION Spec
CONSTANTS
    Procs = {g1, g2}
    Channels = {"email"}
    Choices <- MCChoices
    MaxTime = 4
    MaxConfigs = 2
    MaxChanges = 2
    Lines = 1
SYMMETRY Symmetry
VIEW SafetyView
INVARIANTS OneBriefPerSlot NoChangeFallsBetween
CHECK_DEADLOCK FALSE
