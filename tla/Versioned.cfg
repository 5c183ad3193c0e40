\* The same where every status write makes a new version of the object.
CONSTANTS
    Namespaces = {"ns1"}
    Names = {"vm"}
    KeyPairs = {1, 2, 3, 4, 5, 6}
    Messages = {"m1", "m2"}
    OtherFinalizers = {"other"}
    None = None
    MaxUid = 2
    MaxFaults = 3
    NoopElided = FALSE
    FingerprintEnforced = FALSE
    ServedKinds <- OwnerKinds
SPECIFICATION Spec
INVARIANTS IInv NoLeak
PROPERTIES LiveInstanceKept MachinesLive
