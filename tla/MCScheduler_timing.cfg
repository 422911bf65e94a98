SPECIFICATION Spec
CONSTANTS
    Day = 12
    Dates = {0, 1, Bad}
    Times = {11, Bad}
    Bad = Bad
    Settings <- MCSettings
    Defaults <- MCDefaults
    RunMax = 2
    Horizon = 27
    MaxManual = 1
    Never = Never
INVARIANTS
    SchedulerInv
    WindowHit
    OpeningPolled
