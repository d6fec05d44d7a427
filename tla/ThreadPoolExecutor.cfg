\* The pool with resume(range).
CONSTANTS
    Workers = {w1, w2}
    Callers = {c1}
    RangeCallers = {c1}
    Handles = {h1, h2}
    WordSize = 16
    None = None
SPECIFICATION Spec
INVARIANTS NoConcurrentResume NumJobsExact
PROPERTIES ImplementsExecutor
CHECK_DEADLOCK FALSE
