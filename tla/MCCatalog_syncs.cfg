\* Three syncs: at once or one after the other, in one order or crossed, with and
\* without faults.
SPECIFICATION FairSpec
CONSTANTS
    Syncs = {"p1", "p2", "p3"}
    Names = {"s1", "s2", "s3", "f1", "f2", "c1", "c2"}
    None = None
    SiteOrder <- Listed
    Settings <- SmallSettings
INVARIANTS
    CatalogInv
    NoSyncFails
PROPERTIES
    SyncAtomic
    SyncsEnd
CHECK_DEADLOCK FALSE
