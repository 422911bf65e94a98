\* Two sports with two facilities each; the site of every manner.
SPECIFICATION FairSpec
CONSTANTS
    Sports = {"s1", "s2"}
    Facilities <- SiteFacilities
    Courts <- SiteCourts
    None = None
INVARIANTS
    SyncInv
    ItemsReal
PROPERTIES
    SyncEnds
CHECK_DEADLOCK FALSE
