\* One node whose posts overlap, come late or from a clock that is ahead: with
\* four reports a late one can be followed by two more. The run stops when the
\* reports are used up.
SPECIFICATION Spec
CONSTANTS
    Nodes = {n1}
    Handlers = {h1, h2}
    Retention = 2
    LogRetention = 4
    LogLimit = 4
    NoReport = NoReport
    MaxTime = 4
    MaxNow = 1
    MaxReports = 4
INVARIANTS RowWhole RatesCountOnce
CHECK_DEADLOCK FALSE
