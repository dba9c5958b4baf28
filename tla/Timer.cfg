SPECIFICATION FairSpec
CONSTANTS
    MaxPosts = 4
    Delays = {0, 2}
    MaxTime = 3
    MaxCancels = 1
    NONE = NONE
INVARIANTS
    HeapExact
PROPERTIES
    OnTime
    AllCalled
