\* Objects of one name in two namespaces, without any failure.
CONSTANTS
    Namespaces = {"ns1", "ns2"}
    Names = {"vm"}
    KeyPairs = {1, 2, 3, 4, 5, 6}
    Messages = {"m1"}
    OtherFinalizers = {}
    None = None
    MaxUid = 1
    MaxFaults = 0
    NoopElided = TRUE
    FingerprintEnforced = TRUE
    ServedKinds <- OwnerKinds
SPECIFICATION Spec
INVARIANTS SecretOpensInstanceAnywhere
