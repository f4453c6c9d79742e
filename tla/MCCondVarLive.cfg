CONSTANTS
    Threads = {t1, t2}
    NoThread = NoThread
    SigBits = {"COND", "FALLBACK"}
    Deadlines = {"none", "future"}
    MayCancel = FALSE
SPECIFICATION CondSpec
PROPERTIES CondWaitsReturn
CHECK_DEADLOCK FALSE
