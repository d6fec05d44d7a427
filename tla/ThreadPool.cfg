\* Two workers, two callers; every call but resume(range).
CONSTANTS
    Workers = {w1, w2}
    Callers = {c1, c2}
    RangeCallers = {}
    Handles = {h1, h2}
    WordSize = 16
    None = None
SPECIFICATION FairSpec
INVARIANTS OwnershipInv NoStrandedJob
PROPERTIES QueuedJobRuns ShutdownReturns
CHECK_DEADLOCK FALSE
