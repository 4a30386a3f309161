\* The budgets keep their order: a slow request and a slow stage, a slow digest,
\* slow deployment checks; the clock goes beyond the last one.  There is one
\* request more than the list of recent samples holds, so one is dropped.
SPECIFICATION Spec
SYMMETRY Symmetric
CONSTANTS
    Callers = {c1, c2}
    Body = 0
    RecentLimit = 2
    SlowThreshold = 1
    TotalWarn = 2
    StageWarn = 1
    MaxRequests = 3
    MaxClock = 4
    Calls <- MCCalls
    Replies <- MCReplies
    Stages <- MCStages
INVARIANTS
    CountersAgree
    RecentIsTail
    DigestTells
    PollsDoNotComplain
