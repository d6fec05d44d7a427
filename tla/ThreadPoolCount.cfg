\* num_jobs while resume(range) is used.
CONSTANTS
    Workers = {w1}
    Callers = {c1}
    RangeCallers = {c1}
    Handles = {h1}
    WordSize = 16
    None = None
SPECIFICATION Spec
INVARIANTS NumJobsCountsQueued
CHECK_DEADLOCK FALSE
