CONSTANTS
    N = 2
    WLAN = 1
    WWAN = 2
    Modems = {2}
    HardSwitches = {1}
    Keys = {1}
    master_key = FALSE
    force_sync = FALSE
    strict_flight_mode = TRUE
    BlockTypes = {1, 2}
    Clients = {c1, c2}
    Removals = TRUE
    Crashes = TRUE
    TornSaves = FALSE
SYMMETRY ClientSymmetry
SPECIFICATION Spec
INVARIANTS
    TypeOK
    FlightModeSaved
    RequestOwned
    PrevSoftOnlyInFlight
PROPERTIES
    FlightModeSafe
    OkSaves
    FailureUndoes
    FlightOffRestores
