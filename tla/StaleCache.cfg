\* An object deleted and created again while a watch fails.
CONSTANTS
    Keys = {k1}
    None = None
    Existing = {k1}
    MaxRevision = 3
    MaxLists = 2
    MaxPending = 0
SPECIFICATION FairSpec
PROPERTIES CacheCatchesUp
