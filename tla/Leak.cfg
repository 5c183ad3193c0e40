\* Two identical failures of a deletion, in an API server that elides writes.
CONSTANTS
    Namespaces = {"ns1"}
    Names = {"vm"}
    KeyPairs = {1, 2, 3, 4, 5, 6}
    Messages = {"m1", "m2"}
    OtherFinalizers = {"other"}
    None = None
    MaxUid = 2
    MaxFaults = 3
    NoopElided = TRUE
    FingerprintEnforced = FALSE
    ServedKinds <- OwnerKinds
SPECIFICATION Spec
INVARIANTS NoLeak
