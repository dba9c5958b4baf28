SPECIFICATION RSpec
CONSTANTS
    Jobs = {j1, j2, j3}
    Groups = {g1}
    Root = root
    HighPriority = {j1}
    NONE = NONE
    MaxAdds = 4
    comax = 2
SYMMETRY Symmetry
INVARIANTS
    RTypeOK
    LeafjobsExact
    LeafDepsFinished
    NeverStuck
    DepsBuilt
    ParallelBound
    Outcome
PROPERTIES
    HandedOutOnce
    ImplementsOrderedRun
