\* Two clicks of start, stop, run, refresh and delete, two waits for a code, two polls
\* in flight; answers in order or not, with and without requests that fail.
SPECIFICATION FairPageSpec
CONSTANTS
    MaxFlight = 2
    MaxActs = 2
    MaxWaits = 2
INVARIANTS
    PageInv
PROPERTIES
    DialogCloses
    DialogOpens
CHECK_DEADLOCK FALSE
