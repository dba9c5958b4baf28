SPECIFICATION FairSpec
CONSTANTS
    Jobs = {j1, j2, j3}
    Groups = {g1}
    Root = root
    HighPriority = {j1}
    NONE = NONE
    MaxAdds = 3
    comax = 2
PROPERTIES
    Terminates
