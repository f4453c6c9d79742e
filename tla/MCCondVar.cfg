CONSTANTS
    Threads = {t1, t2, t3}
    NoThread = NoThread
    SigBits = {"COND"}
    Deadlines = {"none"}
    MayCancel = TRUE
SPECIFICATION CondSafety
SYMMETRY ThreadSymmetry
INVARIANTS CondSound NodesAreLive CancelNotLost
CHECK_DEADLOCK FALSE
