SPECIFICATION FairSpec
CONSTANTS
    Cos = {main, c1}
    Main = main
    Procs = {p1}
    Locks = {l}
    Timeouts = {TRUE, FALSE}
    MayFail = FALSE
    MaxCalls = 3
    NONE = NONE
PROPERTY
    Terminates
