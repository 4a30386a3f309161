\* Two nodes and two handlers: posts of one node overlap, and one node prunes
\* the other's samples. Three reports, captured at any of three times, exceed
\* every retention and the log limit. The run stops when the reports are used up.
SPECIFICATION Spec
CONSTANTS
    Nodes = {n1, n2}
    Handlers = {h1, h2}
    Retention = 1
    LogRetention = 1
    LogLimit = 2
    NoReport = NoReport
    MaxTime = 3
    MaxNow = 3
    MaxReports = 3
INVARIANTS TypeOK HistoryIsExact LogIsBounded
CHECK_DEADLOCK FALSE
