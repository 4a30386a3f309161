\* As MCSummary.cfg, for liveness: without symmetry, and without the history of
\* overlaps, which only the safety properties look at.
SPECIFICATION FairSpec
CONSTANTS
    Requests = {r1, r2}
    config <- MCConfig
    RecordOrder <- MCRecordOrder
    NoKey = NoKey
    Absent = Absent
    NoSummary = NoSummary
    ProbeStatuses = {"ok", "down"}
    EventLimit = 1
    MaxProbes = 1
    MaxFaults = 1
    MaxOverlaps = 0
PROPERTY BoardCatchesUp
