CONSTANTS
    t1 = t1  t2 = t2  t3 = t3
    Threads = {t1, t2, t3}
    NoThread = NoThread
    SigBits = {"COND"}
    Deadlines = {"none", "future"}
    MayCancel = FALSE
    Count = 3
    Flag = 8
    InitValue = 1
    SEM_VALUE_MAX = 1
    Credit = 1
SPECIFICATION SyncSpec
INVARIANTS BarrierSound SemSound
PROPERTIES ImplementsBarrier BarrierProgress PositiveValueWakes
CHECK_DEADLOCK FALSE
