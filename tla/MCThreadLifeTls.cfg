CONSTANTS
    Tasks = {main, a, b}
    Main = main
    NoTask = NoTask
    MaxThreads = 2
    Creators = {main}
    Joiners = {main}
    DetachStates = {FALSE}
    CallsDetach = FALSE
    CallsExit = TRUE
    ExitsEarly = FALSE
SPECIFICATION Safety
INVARIANT TlsDestroyed
CHECK_DEADLOCK FALSE
