CONSTANTS
    Tasks = {main, a, b, c}
    Main = main
    NoTask = NoTask
    MaxThreads = 2
    Creators = {main}
    Joiners = {main}
    DetachStates = {TRUE, FALSE}
    CallsDetach = TRUE
    CallsExit = TRUE
    ExitsEarly = FALSE
    ChProcs = {1, 2}
    ChGroup = {1}
    ChCodes = {0, 5}
    ChOverlaps = FALSE
    ItThreads = {a, b}
    ItMaxTasks = 2
    ItMaxCalls = 3
    ItNoMemory = FALSE
    ItRearms = FALSE
SPECIFICATION LifeSpec
INVARIANTS ThreadSound SlotExclusive TlsDestroyed ChSound ItSound
PROPERTIES ThreadsEnd ItProgress
CHECK_DEADLOCK FALSE
