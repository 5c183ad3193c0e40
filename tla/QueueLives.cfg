\* Two keys and one worker: keys wait for each other and for their retries,
\* and the shutdown finds the channel full.
CONSTANTS
    Keys = {k1, k2}
    Workers = {w1}
    None = None
    MaxRetries = 1
    Capacity = 1
SPECIFICATION FairSpec
PROPERTIES HandedOut Retried Stops
