CONSTANTS
    Threads = {t1, t2}
    NoThread = NoThread
    SigBits = {"COND"}
    Deadlines = {"future"}
    MayCancel = TRUE
SPECIFICATION CondSafety
SYMMETRY ThreadSymmetry
INVARIANT CancelNotLost
CHECK_DEADLOCK FALSE
