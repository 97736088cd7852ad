\* Three transfers, two calls of two writers beside a listing.
SPECIFICATION Spec
CONSTANTS
    t1 = t1
    t2 = t2
    t3 = t3
    s1 = s1
    s2 = s2
    w1 = w1
    w2 = w2
    any = any
    Ids <- ThreeTransfers
    States <- TwoStates
    AnyState = any
    Writers <- TwoWriters
    PageSizes <- SmallAndLarge
    MaxEntries = 2
    MaxTime = 5
SYMMETRY Symmetry
INVARIANTS
    RepositoryTypeOK
    OneDocumentEach
    ListingOwesNothing
    PagesPartition
PROPERTIES
    OnlyAddsAndStoresCreate
CHECK_DEADLOCK FALSE
