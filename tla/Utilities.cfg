\* Texts of up to four characters, among them a blank and a quote; urls with and
\* without every part; three calls of add(); a cache of three entries for four
\* keys; a group of two slots for four tasks; two updates by two threads; three
\* coroutines and three variables that hold tasks.
CONSTANTS
    Letters = {32, 39, 97}
    MaxText = 4
    Bytes = {0, 77, 255}
    MaxBytes = 4
    UrlParts <- MCUrlParts
    UrlLetters = {35, 37, 47, 52, 58, 63, 64, 97}
    MaxUrl = 4
    HeaderKeys <- MCHeaderKeys
    HeaderValues <- MCHeaderValues
    MaxHeaderBytes = {4, 8, 100}
    Octets = {0, 1, 16, 127}
    PartTexts <- MCPartTexts
    Words = {1, 2816}
    Routes <- MCRoutes
    Paths <- MCPaths
    MaxRoutes = 3
    Keys = {k1, k2, k3, k4}
    CacheValues = {1, 2}
    Callers = {t1}
    capacity = 3
    UserTasks = {u1, u2, u3, u4}
    reserve_size = 2
    Threads = {p1, p2}
    Amounts <- MCAmounts
    MaxUpdates = 2
    MetricNames = {n1, n2}
    Frames = {f1, f2, f3}
    TaskVars = {a, b, c}
    NoFrame = NoFrame
    MaxYields = 2
SPECIFICATION Spec
INVARIANTS    HeadRoundTrip RoutesRight CacheSound GroupKeepsTasks  TasksSound
CHECK_DEADLOCK FALSE
