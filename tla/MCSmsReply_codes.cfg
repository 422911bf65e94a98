SPECIFICATION FairSpec
CONSTANTS
    Runs = {r1, r2}
    Requests = {q1, q2}
    Chans = {ch1, ch2}
    Codes = {k1, k2}
    None = None
INVARIANTS
    SmsInv
    OwnCode
PROPERTIES
    ImplementsDelivery
    WaitsEnd
CHECK_DEADLOCK FALSE
