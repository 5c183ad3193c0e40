\* The process and one worker that retries one key, until two signals end it.
CONSTANTS
    gceTimeout = 5
    gceWaitSleep = 2
    SlowCall = 2
    SlowDial = 2
    Signals = {int, term}
    Configs <- SSHConfigs
    None = None
    MaxSignals = 3
SPECIFICATION FairSpec
CHECK_DEADLOCK FALSE
INVARIANTS WaitsEnd IInv
PROPERTIES FirstSignalStops SecondSignalEnds CacheFills GoroutinesReturn
