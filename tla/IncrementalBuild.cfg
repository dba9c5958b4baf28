SPECIFICATION Spec
CONSTANTS
    u = u
    v = v
    h = h
    lib = lib
    app = app
    Units = {u, v}
    Headers = {h}
    Targets = {lib, app}
    Includes <- OwnIncludes
    FlagLists <- OtherFlags
    FirstFlags <- OldFlags
    Projects <- OwnProjects
    MaxTime = 3
    NONE = NONE
INVARIANTS
    Fresh
    LinkReadsCurrent
    NothingRedone
