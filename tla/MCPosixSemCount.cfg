CONSTANTS
    Threads = {t1, t2, t3}
    NoThread = NoThread
    SigBits = {"COND"}
    Deadlines = {"none"}
    MayCancel = FALSE
    InitValue = 0
    SEM_VALUE_MAX = 2
    Credit = 2
SPECIFICATION SemSpec
PROPERTY PositiveValueWakes
CHECK_DEADLOCK FALSE
