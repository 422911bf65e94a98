SPECIFICATION FairSpec
CONSTANTS
    Jobs = {j1}
    Threads = {t1}
    Scheds = {s1, s2}
    Cfgs = {c1, c2}
    None = None
    MaxRuns = 1
    MaxManual = 1
    MaxFaults = 0
    MaxCrashes = 1
INVARIANTS
    SerialInv
PROPERTIES
    ImplementsLifecycle
    RestoreComplete
    StoppedGoesQuiet
