\* Two schedulers and a worker, or a scheduler and two workers; the configured
\* times, so that a live job may lose its lock; every delay is one unit, the
\* longest that a back-off may be.
SPECIFICATION FairSpec
CONSTANTS
    None = None
    Schedulers = {s1, s2}
    Workers = {w1, w2}
    Deployments = {{s1, s2, w1}, {s1, w1, w2}}
    LocksExpireEarly = TRUE
    MaxErrors = 2
    BackoffBase = 2
    BackoffMax = 1
    PushDelay = 1
    Grace = 1
    Intervals = {1}
    MaxDelay = 1
    MaxWatchers = 1
    MaxQueue = 1
INVARIANT TypeOK
PROPERTIES StopsAfterErrorsInARow PolledAgain UnwatchedStops
