\* One object, deleted and created again, with failures at any step until they
\* end.
CONSTANTS
    Namespaces = {"ns1"}
    Names = {"vm"}
    KeyPairs = {1, 2, 3, 4, 5, 6}
    Messages = {"m1", "m2"}
    OtherFinalizers = {"other"}
    None = None
    MaxUid = 2
    MaxFaults = 2
    NoopElided = TRUE
    FingerprintEnforced = FALSE
    ServedKinds <- OwnerKinds
SPECIFICATION FairSpec
INVARIANTS SecretOpensInstance
PROPERTIES FinalizerCovers SecretForPresentObject ObjectLives DeletionCompletes CreationCompletes
