CONSTANTS
    Devices = {1, 2}
    MaxInputs = 4
SPECIFICATION Spec
INVARIANTS
    TypeOK
    ListComplete
    StatesCurrent
    ChangedShows
CHECK_DEADLOCK FALSE
