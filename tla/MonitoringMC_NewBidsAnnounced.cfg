\* One user, one worker, jobs never outlive the poll lock.
SPECIFICATION Spec
CONSTANTS
    None = None
    Users = {u1}
    Workers = {w1}
    Pages <- Bidding
    Minute = 1
    Threshold <- Reminders
    Interval <- EveryTick
    MaxErrors = 2
    BackoffBase = 1
    BackoffMax = 2
    PushDelay = 1
    Grace = 1
    Retention = 9
    LocksExpireEarly = FALSE
    MaxTime = 2
    MaxSnapshots = 2
    MaxQueue = 1
    ErrorCap = 2

PROPERTY NewBidsAnnounced
CHECK_DEADLOCK FALSE
