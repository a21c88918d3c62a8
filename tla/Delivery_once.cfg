\* Nothing dies, nothing is cancelled, no lock is lost: only repeated jobs.
SPECIFICATION Spec
CONSTANTS
    None = None
    Workers = {w1, w2}
    Retries = 0
    RetryAfter = {1}
    JobTimeout = 3
    LocksExpireEarly = FALSE
    Killing = FALSE
    MaxQueue = 2
    MaxDelivered = 2
INVARIANT DeliveredOnce
CHECK_DEADLOCK FALSE
