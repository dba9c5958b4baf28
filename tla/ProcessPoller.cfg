SPECIFICATION FairSpec
CONSTANTS
    Procs = {p1, p2}
    MayStop = {p1}
    MaxCount = 2
INVARIANTS
    NoLostExit
    NoSleepWithWork
    ReportedOnce
PROPERTIES
    ExitReported
    ThreadJoins
