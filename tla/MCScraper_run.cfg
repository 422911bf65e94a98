SPECIFICATION FairSpec
CONSTANTS
    Setups <- SmallSetups
INVARIANTS
    ScraperInv
    ReportIsHeld
    NoneSkipped
PROPERTIES
    RunEnds
CHECK_DEADLOCK FALSE
