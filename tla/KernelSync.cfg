CONSTANTS
    Devices = {0, 1, 2}
    Types = {"WLAN"}
    TypeOf <- MCTypeOf
    Platform = {2}
    MaxInputs = 2
SPECIFICATION FairSpec
PROPERTY
    Settles
INVARIANTS
    TypeOK
    InSync
    TypeInSync
CHECK_DEADLOCK FALSE
