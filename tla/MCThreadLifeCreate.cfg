CONSTANTS
    Tasks = {main, a, b, c}
    Main = main
    NoTask = NoTask
    MaxThreads = 2
    Creators = {main, a}
    Joiners = {main}
    DetachStates = {FALSE}
    CallsDetach = FALSE
    CallsExit = FALSE
    ExitsEarly = FALSE
SPECIFICATION Safety
INVARIANT SlotExclusive
CHECK_DEADLOCK FALSE
