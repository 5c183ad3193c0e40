\* Three workers and two keys: who gets what, who sleeps, who is woken.
CONSTANTS
    Keys = {k1, k2}
    Workers = {w1, w2, w3}
    None = None
    MaxRetries = 1
    Capacity = 1
SPECIFICATION Spec
SYMMETRY Symmetry
INVARIANTS IInv OneWorkerPerKey QueueHasTheWork SleepersNotNeeded RetryIsComing SyncedFirst
PROPERTIES KeysHandedOutOnce
