\* A job is made, or edited: with patience, with answers in order, and in a hurry.
SPECIFICATION FormSpec
CONSTANTS
    Sports = {"s1", "s2"}
    Facilities <- SiteFacilities
    Courts <- SiteCourts
    Former = {"f0", "s0"}
    None = None
    Settings <- SmallSettings
    MaxSubmits = 2
INVARIANTS
    FormInv
    FormFits
    ListsSettle
CHECK_DEADLOCK FALSE
