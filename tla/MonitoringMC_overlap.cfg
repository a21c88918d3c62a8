\* Two jobs may poll at once: a job may outlive the poll lock.
SPECIFICATION Spec
CONSTANTS
    None = None
    Users = {u1}
    Workers = {w1, w2}
    Pages <- Closing
    Minute = 1
    Threshold <- Reminders
    Interval <- EveryTick
    MaxErrors = 2
    BackoffBase = 1
    BackoffMax = 1
    PushDelay = 1
    Grace = 1
    Retention = 9
    LocksExpireEarly = TRUE
    MaxTime = 1
    MaxSnapshots = 2
    MaxQueue = 1
    ErrorCap = 1
INVARIANT ActiveIsDated
PROPERTY ClosedStaysClosed
CHECK_DEADLOCK FALSE
SYMMETRY WorkerSymmetry
