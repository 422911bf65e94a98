\* Two waits for a code, two lines or files, a lost session, with and without calls
\* that time out.
SPECIFICATION FairSpec
CONSTANTS
    MaxWaits = 2
    MaxLines = 2
    MaxDrops = 1
INVARIANTS
    
    OnlyTarget
PROPERTIES
    
    StopEnds
CHECK_DEADLOCK FALSE
