CONSTANTS
    Kernel = {k1, k2}
    Platform = {k1}
    Ofono = {o1}
    TaskIds = {t1, t2}
    Persist = TRUE
    NullCalls = FALSE
    Removals = FALSE
SPECIFICATION FairSpec
INVARIANT
    NoAbort
PROPERTY
    EveryCallAnswered
