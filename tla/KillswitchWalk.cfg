CONSTANTS
    Kernel = {k1, k2}
    Platform = {k1}
    Ofono = {o1}
    TaskIds = {t1, t2}
    Persist = TRUE
    NullCalls = TRUE
    Removals = TRUE
SYMMETRY TaskSymmetry
SPECIFICATION Spec
INVARIANTS
    TypeOK
    StateCurrent
    AnnouncedCurrent
    CallerOwned
    WalkDriven
PROPERTY
    OkMeansAllAgreed
