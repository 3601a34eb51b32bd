CONSTANTS
    SessionManagers = {"logind", "consolekit"}
    a = a
    b = b
    c1 = c1
    c2 = c2
    Seats = {s1, s2}
    Sessions = {a, b}
    Buses = {c1, c2}
    SessionOf <- MCSessionOf
    Cookies = {1, 2, 3}
    MaxSignals = 1
SPECIFICATION FairSpec
INVARIANTS
    TypeOK
    OneInhibitor
    NoOrphan
    KeysComeBack
    InhibitRespected
    SessionFollowed
PROPERTY
    DepartedCleaned
