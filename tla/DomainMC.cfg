SPECIFICATION MCSpec
CONSTANTS
    None = None
    Users = {u1}
    States <- Pages
    Minute = 1
    Threshold <- Reminders
    Interval <- EveryTick
    MaxTime = 4
    MaxSnapshots = 3
    Period = 3
    Second = 2
    Burst = 2
    KeyTTL = 10
    MaxNow = 10
    MaxCalls = 5
    Auctions = {lot}
    Names = {name}
    Tasks = {t1, t2}
    PageSize = 3
    Window = 20
    MaxLength = 20
    Observations <- SomeObservations
    PollTimes <- SomePollTimes
    RemainingTimes <- SomeRemainingTimes
    ListRequests <- SomeListRequests
INVARIANTS TypeOK PartsTypeOK RemindersCovered ChangeIffAlert RemindersPartition
           RemindersOnTime ObjectCutOut LimiterSharesBudget EveryItemReached
PROPERTIES ChangesAnnounced ChatSettingsApart
CHECK_DEADLOCK FALSE
