\* One agent that reports v2 and is then set back to v1.
SPECIFICATION Spec
CONSTANTS
    Nodes = {n1}
    Handlers = {h1}
    Retention = 1
    LogRetention = 1
    LogLimit = 2
    NoReport = NoReport
    MaxTime = 2
    MaxNow = 1
    MaxReports = 2
INVARIANT V1FallsBack
CHECK_DEADLOCK FALSE
