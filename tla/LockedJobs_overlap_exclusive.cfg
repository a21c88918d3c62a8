\* The configured times, in ticks of 15 s: can two jobs poll one auction?
SPECIFICATION Spec
CONSTANTS
    None = None
    Slots = {s1, s2}
    LockTTL = 6
    JobTimeout = 8
INVARIANT Exclusive
