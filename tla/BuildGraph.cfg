SPECIFICATION Spec
CONSTANTS
    N = 3
    Profiles <- OwnProfiles
    Root = root
INVARIANTS
    EveryJobRuns
    LinkWaitsForDeps
    FenceHolds
    SerialDepFirst
    CompilesInParallel
