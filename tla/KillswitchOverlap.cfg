CONSTANTS
    Kernel = {k1}
    Platform = {}
    Ofono = {o1}
    TaskIds = {t1, t2}
    Persist = TRUE
    NullCalls = TRUE
    Removals = FALSE
SPECIFICATION Spec
INVARIANT
    NoTaskMismatch
