\* GCE refuses metadata without fingerprint; one failure loses the secret.
CONSTANTS
    Namespaces = {"ns1"}
    Names = {"vm"}
    KeyPairs = {1, 2, 3, 4, 5, 6}
    Messages = {"m1", "m2"}
    OtherFinalizers = {"other"}
    None = None
    MaxUid = 1
    MaxFaults = 1
    NoopElided = TRUE
    FingerprintEnforced = TRUE
    ServedKinds <- CRDKinds
SPECIFICATION FairSpec
PROPERTIES CreationCompletes
