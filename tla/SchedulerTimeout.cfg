CONSTANTS
    reader = reader
    timed = timed
    conn = conn
    Tasks = {timed}
    Roots = {timed}
    Runners = {r1}
    Ops <- MCOps
    MaxOps <- MCMaxOps
    MaxEvents = 2
    MaxFailures = 0
    Concurrency = 1
    None = None
SPECIFICATION Spec
INVARIANT FinishedNotInvoked
CHECK_DEADLOCK FALSE
