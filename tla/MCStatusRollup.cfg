\* Two results per endpoint and two instants in the window of the pages: two
\* results of a service or of two compete for the one place of a shared page,
\* while the page of a service has room for both.
SPECIFICATION GatusSpec
CONSTANTS
    NoKey = NoKey
    NoBudget = NoBudget
    NoPage = NoPage
    Configs <- MCConfigs
    Endpoints = {"k1", "k2", "k3"}
    MaxResults = 2
    PageWindow = 2
    PageLimit = 1
    ServiceLimit = 2
INVARIANTS OverallMeaning CountsAgree PagesAgree PageMatchesBoard
PROPERTY WorseNeverLooksBetter
