CONSTANTS
    N = 2
    WLAN = 1
    WWAN = 2
    Modems = {2}
    HardSwitches = {}
    Keys = {1}
    master_key = FALSE
    force_sync = FALSE
    strict_flight_mode = TRUE
    BlockTypes = {1, 2}
    Clients = {c1}
    Removals = TRUE
    Crashes = TRUE
    TornSaves = TRUE
SPECIFICATION FairSpec
INVARIANT
    FlightModeKept
PROPERTIES
    RequestEnds
    FlightModeImplemented
