\* Four threads compete for two resources, one of which is kept.  A make() may
\* throw, and one thread overwrites what it holds.
CONSTANTS
    Threads = {t1, t2, t3, t4}
    Overwriters = {t1}
    Resources = {r1, r2, r3}
    target_size = 1
    max_size = 2
    MaxGets = 2
    MaxLeaks = 1
    None = None
SPECIFICATION FairSpec
INVARIANTS OneOwner Counters WithinMax NoIdleCapacity NoLostWakeup
PROPERTIES GetReturns
CHECK_DEADLOCK FALSE
