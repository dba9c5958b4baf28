SPECIFICATION Spec
CONSTANTS
    Cos = {main, c1}
    Main = main
    Procs = {p1, p2}
    Locks = {l}
    Timeouts = {TRUE, FALSE}
    MayFail = TRUE
    MaxCalls = 3
    NONE = NONE
INVARIANTS
    RightWakeup
    WaiterHasWaker
    ExitNotLost
