\* The configured times: a live job may lose its lock.
SPECIFICATION FairSpec
CONSTANTS
    None = None
    Workers = {w1, w2}
    Retries = 2
    RetryAfter = {1}
    JobTimeout = 3
    LocksExpireEarly = TRUE
    Killing = TRUE
    MaxQueue = 1
    MaxDelivered = 2
INVARIANTS TypeOK SentMeansDelivered
PROPERTIES HolderKeepsKey EventuallySettled
CHECK_DEADLOCK FALSE
