\* The cluster of deploy/crd.yaml: nothing serves the owner the secret names.
CONSTANTS
    Namespaces = {"ns1"}
    Names = {"vm"}
    KeyPairs = {1, 2, 3, 4, 5, 6}
    Messages = {"m1", "m2"}
    OtherFinalizers = {"other"}
    None = None
    MaxUid = 2
    MaxFaults = 0
    NoopElided = TRUE
    FingerprintEnforced = FALSE
    ServedKinds <- CRDKinds
SPECIFICATION FairSpec
PROPERTIES SecretsCollected
