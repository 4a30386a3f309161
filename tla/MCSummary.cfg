\* Two requests rebuild at the same time while the one endpoint changes; one
\* fault is an outage, a lost write, a cancelled request or a restart. The
\* summary shows fewer events than the log can hold.
SPECIFICATION Spec
CONSTANTS
    Requests = {r1, r2}
    config <- MCConfig
    RecordOrder <- MCRecordOrder
    NoKey = NoKey
    Absent = Absent
    NoSummary = NoSummary
    ProbeStatuses = {"ok", "down"}
    EventLimit = 2
    MaxProbes = 1
    MaxFaults = 1
    MaxOverlaps = 2
SYMMETRY Symmetry
INVARIANTS TypeOK TransitionsAccountedFor EventsMatchStatuses
