\* Two overlapping requests: OneScheduler does not hold.
SPECIFICATION Spec
CONSTANTS
    Jobs = {j1}
    Threads = {t1, t2}
    Scheds = {s1, s2}
    Cfgs = {c1, c2}
    None = None
    MaxRuns = 1
    MaxManual = 1
    MaxFaults = 0
    MaxCrashes = 0
INVARIANT OneScheduler
