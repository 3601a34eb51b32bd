SPECIFICATION Spec
CONSTANTS
    Modems = {m1}
    m1 = m1
    Objects = {1, 2, 3, 4}
    MaxInputs = 5
INVARIANTS
    PathsFree
CHECK_DEADLOCK FALSE
