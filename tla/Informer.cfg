\* Two objects, one there from the start, written twice more; one watch fails.
CONSTANTS
    Keys = {k1, k2}
    None = None
    Existing = {k1}
    MaxRevision = 3
    MaxLists = 2
    MaxPending = 0
SPECIFICATION FairSpec
INVARIANTS NothingMissed SyncedHoldsFirstList CacheIsRight IInv
PROPERTIES NeverBackwards ChangesAreSeen CachedReturn
