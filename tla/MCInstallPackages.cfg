SPECIFICATION FairSpec
CHECK_DEADLOCK FALSE
CONSTANTS
    p1 = p1
    p2 = p2
    a = a
    b = b
    c = c
    grp = grp
    fa = fa
    fb = fb
    fc = fc
    Procs = {p1, p2}
    Pkgs = {a, b, c}
    Groups = {grp}
    Files = {fa, fb, fc}
    Setups <- OwnSetups
    MaxKills = 1
    NONE = NONE
INVARIANTS
    SerialAlone
    CountsExact
    DepsOnDisk
    OneWriter
    Outcome
PROPERTY
    Terminates
