\* Three configurations are accepted, seven refused.  The lists are cut after
\* five issues; three logs are read, as many as nodes that report.
SPECIFICATION Spec
CONSTANTS
    NoKey = NoKey
    NoBudget = NoBudget
    NoPage = NoPage
    NoReport = NoReport
    PageWindow = 2
    PageLimit = 3
    ServiceLimit = 1
    IssueLimit = 5
    ImpactLimit = 2
    VolatilityThreshold = 2
    VolatilityLimit = 2
    ReportWindow = 3
    MaxResults = 2
    MaxChanges = 2
    Reporters = {"n1", "n2", "n0"}
    RawConfigs <- MCRawConfigs
    Reports <- MCReports
    FirstReport <- Clean
    Changeable <- MCChangeable
INVARIANTS
    IssuesTellTheBoard
    StatesMatchIssues
    ImpactsAccounted
    ProjectNeverBetter
    SilenceExplained
    ValidatedNeverDown
