CONSTANTS
    reader = reader
    timed = timed
    conn = conn
    Tasks <- MCTasks
    Roots = {reader}
    Runners = {r1}
    Ops <- MCOps
    MaxOps <- MCMaxOps
    MaxEvents = 2
    MaxFailures = 1
    Concurrency = 2
    None = None
SPECIFICATION FairSpec
INVARIANTS OneFilterIsSafe WaiterReachable ResultBeforeResume
PROPERTIES UsesExecutor OperationCompletes ShutdownReturns RunReturns
CHECK_DEADLOCK FALSE
