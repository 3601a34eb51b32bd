SPECIFICATION Spec
CONSTANTS
    Modems = {m1}
    m1 = m1
    Objects = {1, 2, 3, 4}
    MaxInputs = 7
INVARIANTS
    TypeOK
    ModemsKnown
    ModemsCurrent
CHECK_DEADLOCK FALSE
