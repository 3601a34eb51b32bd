SPECIFICATION Spec
CONSTANTS
    Names = {"key_control", "master_key"}
    Elements <- MCElements
    Machines <- MCMachines
    MaxEvents = 6
    MaxFiles = 2
    MaxStarts = 2
INVARIANTS
    TypeOK
    OnlyMatchingApplies
    ConfOverProfile
CHECK_DEADLOCK FALSE
