SPECIFICATION WFairSpec
CONSTANTS
    co1 = co1
    co2 = co2
    so1 = so1
    so2 = so2
    Socks = {so1, so2}
    Cos = {co1, co2}
    Usages <- OwnUsages
    NONE = NONE
INVARIANTS
    RightResult
    LoopSurvives
    NoMissedEvent
PROPERTY
    Served
