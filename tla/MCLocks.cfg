CONSTANTS
    Objects = {"mutex", "rwlock", "once", "keys", "signals"}
    Threads = {t1, t2, t3}
    MxThreads = {t1, t2, t3}
    MxMain = t1
    MxNone = none
    MxKinds = {"NORMAL", "RECURSIVE", "ERRORCHECK"}
    MxDeadlines = {"amiga"}
    MxTimed = {t1}
    MxTimedUses = {}
    MxRaces = FALSE
    MxDepth = 1
    MxObjects = 2
    RwThreads = {t1, t2, t3}
    RwNone = none
    RwDeadlines = {"now", "future", "past"}
    RwNests = 2
    RwRaces = FALSE
    OnceThreads = {t1, t2, t3}
    TkThreads = {t1, t2}
    TkNone = none
    PTHREAD_KEYS_MAX = 2
    PTHREAD_DESTRUCTOR_ITERATIONS = 2
    TkCreations = 3
    TkStaleDelete = FALSE
    SgOrder <- MCSgOrder
    SgDepth = 3
    SgCalls = 3
    SgSets = {{"INT", "ALRM"}, {"INT"}}
    SgFlags = {{"RESETHAND"}}
    SgPlainWaits = FALSE
    SgJumpsFrom = {"INT"}
SPECIFICATION LocksSpec
INVARIANTS MxSound RwSound OnceSafe KeyOwnValues
PROPERTIES LocksReturn KeysDestroyed SgSound
CHECK_DEADLOCK FALSE
