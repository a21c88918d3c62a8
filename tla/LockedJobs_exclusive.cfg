\* Jobs shorter than the lock: 80 s against 90 s, in ticks of 10 s.
SPECIFICATION FairSpec
CONSTANTS
    None = None
    Slots = {s1, s2, s3, s4, s5, s6}
    LockTTL = 9
    JobTimeout = 8
INVARIANTS TypeOK Exclusive
PROPERTIES ImplementsMutex DeadHolderReleases
