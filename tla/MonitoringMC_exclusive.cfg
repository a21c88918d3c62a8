\* Jobs never outlive the poll lock.  A snapshot may be purged as soon as it is a
\* unit old, between the reading and the commit of a poll as well.
SPECIFICATION Spec
CONSTANTS
    None = None
    Users = {u1}
    Workers = {w1}
    Pages <- Lengthening
    Minute = 1
    Threshold <- Reminders
    Interval <- EveryTick
    MaxErrors = 2
    BackoffBase = 1
    BackoffMax = 2
    PushDelay = 1
    Grace = 1
    Retention = 0
    LocksExpireEarly = FALSE
    MaxTime = 2
    MaxSnapshots = 2
    MaxQueue = 1
    ErrorCap = 0
INVARIANTS TypeOK ShownIsLatest RemindersCovered
PROPERTIES ImplementsFeed PendingOutlivesClosing
CHECK_DEADLOCK FALSE
