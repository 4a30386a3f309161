# rtime-status-board: a verification project

TLA+ modules of the status board's backend, TLC runs over small instances, and
theorems that TLAPS checks for every value of the constants. Line references are
to `src/backend/internal/app/` unless a path says otherwise. `PROJECT.json` maps
each definition to the lines it models and lists hazards, runs and theorems.

1. [The system](#1-the-system) - its parts, their state, how they interact
2. [The modules](#2-the-modules) - what models what
3. [The runs](#3-the-runs) - what each shows, bounds, fairness
4. [The proofs](#4-the-proofs)
5. [A divergence from the documentation](#5-a-divergence-from-the-documentation)
6. [What is not modelled](#6-what-is-not-modelled)
7. [What is left](#7-what-is-left)

## 1. The system

`statusd` is one Go process. It reads probe results from Gatus, takes reports
and heartbeats from machines, keeps them in SQLite, and answers a small JSON API
that a web page polls every 15 seconds. An agent on each machine posts metrics.

    agent --POST v1/v2 report--> HTTP server --SaveMetrics(V2)--> Store (SQLite,
    machine --POST heartbeat---> HTTP server --RecordStatus-----> one connection)
    page --GET summary--> HTTP server --> Aggregator --Statuses--> Gatus
                                              |--RecordStatus, RecentEvents--> Store
    page --GET diagnostics--> Aggregator: pure functions over the Store's tables

| Component | State | Operations | What is hard | What makes it correct |
|---|---|---|---|---|
| Status store (`store.go`) | `status_cache`, `events`, one pooled connection | `RecordStatus`, `RecentEvents`, `StatusVolatility` | read, compare and write over two tables; callers share one connection; cancellation, crash | the log is a path that ends in the current status; everyone gets the connection back |
| Metrics store (`store.go`) | `metrics_latest`, `metrics_samples`, `metrics_report_logs` | `SaveMetrics`, `SaveMetricsV2`, `storageRates`, history and report reads | three visits to the database per report; reports late, overlapping, failing halfway; pruning by other nodes' clocks | history loses nothing too early, keeps nothing too long; no traffic counted twice; a row is one report |
| Gatus client (`gatus.go`) | none | `Statuses`, `EndpointStatuses`, `EndpointResults(Map)` | timeouts, missing endpoints | missing or unreadable is unknown, never ok |
| Rollup (`aggregate.go`) | none | `serviceViews`, `nodeViews`, `projectViews`, `aggregateOverall`, `countStatuses` | order of the branches; repeated ids; empty groups | the word on the board means what it says; worse input never looks better |
| Summary cache (`aggregate.go`) | `cached`, `expiresAt` under a mutex | `Summary` | the mutex is released during the rebuild; errors are dropped; a cancelled request's result is cached for everyone | the board catches up with the probes; no transition without a cause |
| Diagnostics (`aggregate.go`) | none | `Diagnostics` and its parts | four reads at different moments, each of which can fail; the same numbers judged in several places; cuts at 50 issues and 20 impacts | the list of issues never says less than the board; two verdicts on one thing agree |
| Deployment checks (`aggregate.go`) | a TTL cache under a mutex | `deploymentDiagnosticCached` | as the summary cache, plus parallel probes | an answer is at most one TTL and one rebuild old; a verdict was true while the checks ran |
| HTTP server (`server.go`) | configuration only | the endpoints, `heartbeat`, detail pages, request log | handlers run concurrently; the client's context reaches the store | a failed request leaves no half-written state |
| Request statistics (`request_stats.go`) | counters, per-route table, ring of samples under a mutex | `Record`, `Snapshot`, the issues of the diagnostics handler | overlapping requests; the list at its limit; the page that polls is measured itself | counters agree with one another; a digest tells what happened and does not complain about itself |
| Authentication (`auth.go`) | none: a session is a signed cookie | login, check, trust, logout | settings that change between two requests; cookies of several scopes, set over http and over https; `next` values that lead back to the login or the logout | an accepted login lasts and a logout holds but for named exceptions; redirects end |
| Configuration (`config.go`) | none | `LoadConfig`, `Validate` | references between lists | what is accepted at the start is never found wrong later |
| Metrics agent (`deploy/agent`) | a collector cache file | collect, cache, post | overlapping runs, clock steps, a failing collector, a collector that takes its time (`captured_at` is the moment of the save) | what is sent as fresh is not older than its interval, the time its run worked for it and what the clock was set back |
| Frontend (`frontend/src`) | the last answers | refresh every 15 s | overlapping refreshes | newest answer wins |
| Scripts | none | deploy, verify, `run-with-timeout.sh` | the watchdog races the command | success is not reported as a timeout |

Interactions that matter. All database work goes through **one** connection
(`SetMaxOpenConns(1)`, `store.go:32`), so a transaction excludes every other
statement, and any code that does not give the connection back stops the process.
The summary and the heartbeat share `RecordStatus`; the summary, the diagnostics
and the detail pages read what it wrote. A request's context reaches Gatus and
the store, so one client that goes away influences what is cached for the others.

## 2. The modules

    StatusLog  <--implements-- StatusStore  <-- StatusStoreProofs
        ^
        | store of
    Summary --INSTANCE--> StatusRollup
        ^                     ^
    MCSummary,                | extends
    SummaryProofs         AppConfig <-- DetailPages <-- BoardPages <-- MCStatusRollup,
                                             ^                         StatisticsProofs
                                         OpsDigest <-- ProjectHealth
                                                            ^
                          DiagnosticsProofs --> Diagnostics-+
                                                     ^
                                               MCDiagnostics

    TTLCache <--implements-- DeploymentCheck <-- MCDeployment, DeploymentProofs
    MetricsIngest <-- MetricsIngestProofs
    AgentCollector <-- AgentCollectorProofs
    RequestStats <-- MCRequestStats, StatisticsProofs
    AuthSession <-- MCAuthSession, AuthSessionProofs

**StatusLog** is the abstract promise of the status half of the store: one
indivisible `Observe(s, v)` sets a status and appends a transition when the
subject was known with another status.

**StatusStore** is `RecordStatus` and `RecentEvents` statement by statement.
`conn` is the pool; `txStatus`, `txEvents` are the open transaction's view; `pc`,
`arg`, `previous` are a caller's locals. The actions are the calls, `BeginTx`,
`SelectPrevious`, `Upsert`, `InsertEvent`, `Commit`, the deferred `Rollback` (any
statement can fail, any context can be cancelled), `GiveUp` (cancelled while
waiting), `CallRecentEvents`, `OpenRows` and `CloseRows` (a reader waits for the
connection, and can give up, like a writer), and `Restart`. Its tables are named as in
StatusLog, so `Log == INSTANCE StatusLog` is the refinement.

**StatusRollup** is the pure part of `Summary`, from the last Gatus result of an
endpoint to the board's word and its counts. Services of a node or project are a
*family* (a function into services), so repeated ids count as often as they do
in the code. **BoardPages** drives it, and DetailPages, with a Gatus that lists and
unlists endpoints, probes them, stands still for a time (`Pause`), and can be
unreachable; **MCStatusRollup** gives it six configurations.

**AppConfig** is the configuration: `Validate` decides which one statusd starts
with, `Loaded` gives it the form the other modules work on, `Effective` says which
limits are in force on a node, and `ConfigIssues` looks for mistakes again on every
diagnostics request. `Owns` is the wider of the two ways a project has services.

**DetailPages** is what the pages of a project, a node and a service take from the
summary and from Gatus' results. Results carry their age in time, which grows with
and without probes: a page leaves out what is older than its window, so its newest
result can be too old for it. `NewestEntries` is the sort and cut.

**OpsDigest** and **ProjectHealth** are the pure part of a diagnostics answer, as
operators over the configuration, the statuses, the metrics rows, the report logs and
the day's transitions. A cut list is one of the sets `Cuts` allows: those whose members
sort before what is left out; which of equals are kept is open, so what holds of every
choice holds of the one the code's sort makes. **Diagnostics** puts them behind the
reads: `ReadGatus`, `ReadMetrics`, `ReadReports`, `ReadDay`, each of which succeeds or
fails, then `RollUp` and `Respond`. In between and before them agents report
(`ReportBasic`, `ReportDetail`, the two transactions of MetricsIngest), rows go stale,
logs get over a week old (`Week`; the next report of any node deletes them,
`store.go:593-597`), Gatus probes and forgets, and statuses change. `raced`, `logged`
and `deleted` are histories. `RecentEvents` and the store's own figures are read too,
but only shown. **MCDiagnostics** has a budget, limits of a node, two GPUs, a collector
with an old cache, and a node that was removed from the configuration.

**TTLCache** is what a cache of this kind promises: an answer was filled in less than a
TTL ago, from observations that took at most `MaxRebuild`, and nobody refreshes twice
within the TTL. It does not promise that a newer refresh wins, because the code does
not: a slow one may replace a faster one that began later. **DeploymentCheck** is
`deploymentDiagnosticCached` with several requests at once (`Ask`, `Hit`, `Miss`,
`CheckDNS`, `Attempt`, `CheckIndex`, `Fill`) against a site that changes meanwhile. A
request is given its time limit by `Tick`, which does not pass it: DNS and HTTP have
timeouts, but `os.Stat` and the store's own figures, which are read before, have none,
so that `MaxRebuild` bounds the whole is an assumption. The size of the database may be
unreadable: `fileSize` fails, the total stays 0 (`store.go:60-69`), the error is dropped
(`aggregate.go:507,518`) and the check finds 0 within its budget
(`aggregate.go:1803-1806`). `was` is the history of the site. The checks of the settings
are `SettingsBad`. **MCDeployment** has three processes: set up well, with the example's
values, and under development.

**RequestStats** is `withLogging` and `APIRequestStats`. A request is begun,
handled, measured and recorded in separate steps, so another one can be recorded
between its measurement and its turn; a diagnostics request goes through its
stages, takes its snapshot and adds its issues first. `log` is the history of all
samples. A path is the sequence of its segments.

**AuthSession** is the login, the trusted devices, the logout and the check that
nginx asks for, with one browser that follows every redirect, over http or https
(the nginx example serves both). The server keeps no session: `jar` is the browser's,
one cookie per scope, under the order in which they were created; the `First` of
those that are `Sent` is what statusd looks at. A cookie set over https is Secure
(`auth.go:551,629-634`): it is not sent over http, and what comes over http neither
replaces nor clears it (`Locked`, the rule of present-day browsers, which is taken to
hold whatever the scopes). `safeAuthNext` (`auth.go:636-645`) looks at the first
characters of a `next` only, so a value such as `/./login` or `/x/../_auth/logout`
passes and still leads there. A `next` is therefore the sequence of the places it
leads to, the last of which is a page, a value that is refused, or none. Meanwhile
statusd restarts with other settings and the browser drops a cookie. The verdict on a
password or a device token is a choice. `spare` (how many redirects may still follow),
`entered`, `left` and `locked` are histories. The 401 of the API and the entry of the
tailnet on its own port, which redirect nobody, are left out.

**Summary** is `Aggregator.Summary` with several requests at once: `Ask` (the look
at the cache), `Fetch` (Gatus), `Record` once per subject in the code's order,
`ReadEvents`, `Install`. The environment probes, lets the TTL expire, cancels
requests and restarts the process. It is built on StatusLog instead of
StatusStore: the refinement says nothing else can be seen of a call. `errs`,
`overlaps`, `probed` and the fields `lost` and `alone` are histories for the
properties. **MCSummary** gives it a critical service and its node.

**MetricsIngest** is the two report endpoints over `SaveMetrics` and
`SaveMetricsV2`. A handler visits the connection in `ReadRates` (v2 only),
`SaveBasic` (v1 and v2) and `SaveDetail` (v2 only, with both prunings); it can
`Fail` at each. Each transaction is one step; StatusStore is where the connection
is modelled statement by statement. A row is named by the report it came from;
`accepted` is the history of all reports whose second transaction committed, and
`samples` and `logs` are sets of positions in it, as ids are. A rate is the
interval it averages over. `alone` and `torn` are histories.

**AgentCollector** is one cached collector of the agent
(`deploy/agent/rtime-status-agent.py:224-283`) with several runs at once. Files are
names: `path` and `tmp` are what the two names stand for, and `file[r]` says which name
the file that run `r` has open goes by *now*, since a rename by another run moves it.
`Load`, `Collect`, `Open`, `Write` and `Replace` are the steps; `Fault` is an `OSError`,
`Kill` a killed run, `SetClock` a step of the wall clock. True time, `began`, `setback`,
`alone` and `overlapped` are histories, and so is what an entry carries besides
`captured_at`: how long its run was at work when it saved it.

Definitions marked "Mutant of" are plausible wrong versions of the definition that
follows them. They are not used in the specifications; putting one in place
of the original makes the named property fail, which shows the property depends on
that piece of code.

## 3. The runs

| Run | Module, config | Question | States |
|---|---|---|---|
| `status_store` | StatusStore | do interleaved, failing, dying calls keep the log a path, implement StatusLog, and all return? | 129 k |
| `status_rollup` | MCStatusRollup | does the rollup mean what the page shows, do counts add up, is it monotone? do the pages agree with one another and with the board? | 64 k |
| `summary` | MCSummary, `MCSummary.cfg` | how many transitions can overlapping rebuilds and failed fetches invent? when is a cached summary consistent with its own event list? | 0.5 M |
| `summary_live` | MCSummary, `MCSummaryLive.cfg` | does the board catch up with the probes? | 0.85 M |
| `metrics_two_nodes` | MetricsIngest | what exactly do the history and the report log hold when nodes prune one another? | 1.0 M |
| `metrics_one_node` | MetricsIngest, `MetricsIngestOneNode.cfg` | when does the latest row mix two reports? is traffic counted twice? | 0.58 M |
| `metrics_v1_after_v2` | MetricsIngest, `MetricsIngestV1.cfg` | does a v1 report reset the v2 fields? (no, see 5) | stops at the counterexample |
| `agent_collector` | AgentCollector | how old can a value be that is reported as ok? what do killed, failing and overlapping runs leave behind? | 4.2 M |
| `diagnostics` | MCDiagnostics | what can the issues, states, impacts and diagnoses of one answer say, when its reads fail, race with reports, or a list is cut? | 0.25 M |
| `deployment` | MCDeployment | how old is an answer? was each verdict true while the checks ran? is it a TTL cache? | 2.9 M |
| `request_stats` | MCRequestStats | do the counters agree, are the recent samples the last ones, which issues does a digest add? | 1.2 M |
| `auth_session` | MCAuthSession | which accepted login does not last, which logout leaves a session, how many redirects can follow? | 2.7 M |

What they show:

- `EventChain`, `PreviousIsCurrent`, `ImplementsStatusLog`: the read-compare-write
  of `RecordStatus` is atomic because of the single connection and the
  transaction; no interleaving, error or crash separates status and transition.
- `CallsReturn`: neither a writer nor a reader of the log waits for ever for the
  connection.
- `OverallMeaning`: "down" is exactly a failed last probe of a critical service
  that some project lists; "ok" needs every project non-empty and every listed
  service passing. A critical service that no project lists is not seen at the top.
- `WorseNeverLooksBetter`, `CountsAgree`: the aggregation is monotone and loses no
  service: the counts by word, and those of the nodes, sum up to all services.
- `TransitionsAccountedFor`: a service has at most one event per change of its
  probe plus two per failed fetch and two per overlapping rebuild. So an outage
  of Gatus and two simultaneous misses *do* show up as flapping; lost
  writes, cancelled requests and restarts add none.
- `EventsMatchStatuses`: a summary is consistent with its own event list unless a
  write was lost or another rebuild ran at the same time.
- `BoardCatchesUp`: once Gatus' results are stable, the table and the cached
  summary agree with them from some point on, whatever happened before.
- `HistoryIsExact`: `metrics_samples` is a function of the order of acceptance
  alone - exactly those samples that no later accepted report, of *any* node, makes
  too old. It also says that one clock that runs ahead prunes everybody.
- `LogIsBounded`: the report log stays in its cap and drops nothing young and recent.
- `RowWhole`: the latest row is one report except in the three named cases.
- `RatesCountOnce`: storage rates of two samples never average over the same time
  unless their posts overlapped.
- `OkIsRecent`, `CacheReadable`, `LoneRunSaves`: a cached value reported as ok is
  younger than the interval, counted from its collection, but for two things:
  `captured_at` is the moment of the save (`rtime-status-agent.py:244`), so the time
  its run worked comes on top, and so does what the clock was set back. Without overlap
  the cache file is whole whatever is killed; and the next undisturbed run
  mends whatever overlapping or killed runs left. What overlap does cost is visible
  in the module: a run can drop a value it has just collected (`Replace` with no
  file), and a reader can meet an empty or garbled file and collects again.
- `PagesAgree`: a page that is not full shows every result in its window, a full one
  the newest without a gap, and its totals add up. A service's page is empty exactly
  when even its newest result is too old (`aggregate.go:215,300,379`): the board, which
  does not look at the time, then still shows that result's outcome.
- `PageMatchesBoard`: a project's page and the board part only over services that
  name the project without being listed by it, which `configIssues` reports.
- `IssuesTellTheBoard`: the list of issues, cut or not, tells what the board tells;
  an outage comes first; an empty list means that all is well but for projects
  without services, or a collector that some node does not have or answers from an
  old cache.
- `StatesMatchIssues`: the states (busiest GPU, budget status) and the issues (each
  GPU, each finding) judge alike, for every node with a row, configured or not.
- `ImpactsAccounted`: as long as nothing is cut, a project is down in the impacts
  exactly if a critical service is down that it owns *or that shares a node with one
  of its own*. So a project can be down here and ok on the board, never vice versa.
- `ProjectNeverBetter`: the diagnosis of a project is never better than its status
  on the board, and "ok" needs services, endpoints that pass, and fresh reports.
- `SilenceExplained`: an agent is "unknown" exactly when it never wrote a log, when
  its last log was deleted because another node reported once it was a week old, or
  when a whole window of other nodes' logs followed it, in the order received. So with
  more than 20 nodes that report at the same pace an agent can be called unknown that
  is well. The property also says which contradictions between metrics and logs come
  from a report between the two reads.
- `ValidatedNeverDown`: what `Validate` accepts, `configIssues` never calls an error.
- `AnswerNotOld`, `ImplementsTTLCache`: see TTLCache above. `VerdictHonest`: a passed
  check had its answer while the checks ran, except that a database whose size cannot
  be read passes as a small one; a failed one had a wrong answer then, or failed at two
  moments: one short blip of an entry is not reported.
- `CountersAgree`, `RecentIsTail`: nothing is lost or counted twice, in whatever
  order the requests finish. Samples stand in the order of recording, which need not be
  the order of their times.
- `DigestTells`: a digest raises the error exactly when one of the last requests
  failed, and the warning exactly when one of them was slow that was not a diagnostics
  request that went well. It calls itself slow exactly when a stage took its own budget
  (the deployment checks theirs, the others the common one), or the whole took its
  budget, raised to the largest of the stages' (see 5).
- `PollsDoNotComplain`: a page that polls slow digests raises no issue about itself.
- `LoginSticks`: an accepted login does not end at the form again, with five exceptions,
  each of which the run reaches: a user name with `|` in it; a `next` that leads
  through the logout; a `next` that leads a trusted device to `/login` where there is
  no password file; a login over http while a Secure cookie from https is kept, which
  keeps the new one out; and an older cookie in another scope, from before the domain
  was set or changed, which is sent first.
- `LogoutHolds`: after a logout no page is shown until the next login, with two
  exceptions: a cookie for a domain that was not the one set at the logout, and a
  logout over http that a Secure cookie kept from clearing anything.
- `RedirectsEnd`: `/login` and the pages judge a cookie alike, and a `next` is used up
  on the way. If it leads to a page there are two redirects at most; each login,
  logout or trust page that it leads to first adds one. So nobody is sent in circles,
  although nested `next` values give longer chains than two.

**Bounds.** StatusStore: two callers, two subjects, two statuses, three events - enough
for a caller to find its subject changed since it was called, and for a subject to go
there and back while the other one changes. status_rollup: two results per endpoint and
two ages within the window of the pages, so that newest and oldest differ, results fall
out of the window one after the other, and all of them do when Gatus stands still; a
page that holds fewer results than its services have; three services over two nodes and
six configurations, among them no project, an empty project, a repeated id, an unlisted
critical service, a service without key. Summary: two requests are needed and enough for
an overlap; each endpoint changes once, one fault (failed fetch, lost write,
cancellation or restart); `MaxOverlaps` saturates a counter and
`TransitionsAccountedFor` says nothing beyond it. Only `RecordOrder`'s length multiplies
the interleavings, and a project would be one more subject aggregated like the node. The
liveness run has no symmetry and no overlap history. MetricsIngest: three reports of two
nodes (a report, one that prunes it, and one that is late), or four of one node (a late
one between three others), with times that exceed the retentions. Deadlock is not
checked there: with the reports used up nothing is left to do. AgentCollector: two runs,
which can be at any point of one another, an interval of two, four instants and a clock
that is set at will within one instant, and back by one in all. MCDiagnostics: three
accepted configurations and seven refused ones; two changes of the world or failed reads
before or during an answer, the least with which two reads contradict each other (a week
that passes and the report that deletes what is older are two); at most five issues, two
impacts and three logs are shown, fewer than there can be. MCDeployment: two requests; a
`MaxRebuild` that just fits the retries of both entries, and a clock that passes TTL and
`MaxRebuild` together, so that an answer could be older than both allow; a site with one
deviation at the start and one change, which is what it takes for an entry to fail and
come back during one run. MCRequestStats: two callers and three requests for a list of
two samples, so one is dropped; the budgets keep their order, and durations go beyond
the largest. MCAuthSession: two restarts or dropped cookies, enough for cookies in three
scopes; six `next` values, one of each kind that ends at once, one through the logout,
one through the login to the logout, and one through the trusted devices to the login; a
lifetime of two and a clock of three.

**Fairness.** StatusStore: a running statement finishes (weak); `database/sql` hands a
freed connection to a waiter, so a caller that waits while the connection is freed again
and again gets it (strong fairness on `BeginTx` and on `OpenRows`). Summary: some
rebuild goes on whenever one is under way - the Gatus client has an 8 s timeout and the
store returns, which is `CallsReturn`; no particular rebuild is promised anything. The
TTL passes. Somebody asks again and again, as an open page does. Probes, faults and
restarts are never owed.

## 4. The proofs

Every safety invariant and every action property that a run checks is also a theorem,
for all values of the constants: any configurations that are accepted, callers, nodes,
handlers, settings, limits, retentions and lengths. What bounds a run (a clock, a
number of reports or changes) is a constant like the others. The refinements of
StatusLog (twice) and TTLCache are theorems too. `PROJECT.json` says which theorem
states which property.

**What is assumed.** The named `ASSUME`s of the modules, which TLC evaluates in the
runs. They say what the code makes sure of before the modelled part begins:

| Assumption | Why the code justifies it |
|---|---|
| MetricsIngest `SettingsAssumption`, RequestStats, Diagnostics `LimitAssumption`, BoardPages `LimitsAssumption`, AuthSession `TTLAssumption` | limits, windows and lifetimes are positive: constants of the code, or replaced by a default when they are not |
| RequestStats `BudgetsAssumption` | the table of stages is a constant of `server.go` and `aggregate.go`: at most one kind of stage has a budget of its own |
| AuthSession `DomainAssumption`, `NextAssumption` | no domain is the empty string, which stands for no login and no logout; a `next` leads to finitely many of statusd's own places and then ends, because each is nested in the text of the one before |
| DeploymentCheck `EndpointsAssumption`, `NamesAssumption` | a constant list of entries, asked at least twice; no two checks share a name |
| BoardPages `ConfigsAssumption`, Summary `OrderAssumption` | what `Validate` accepts, which AppConfig models: references lead somewhere, lists are finite (`AcceptedFitsBoard` proves it); subjects are recorded once each |
| Diagnostics `RawAssumption`, `ReportsAssumption` | the types of the YAML and JSON structures: lists are finite, numbers are whole. The configuration itself may be anything `Validate` sees |
| `NoReport`, `NoSummary`, `NoEntry`, `Absent`, the sentinels of AgentCollector | stand for nil, a missing row, a missing file; they are not values |

**The arguments.**

- **StatusStoreProofs**: `TypeCorrect`, `PreviousNeverStale`, `ChainHolds`,
  `StoreImplementsLog`. `PreviousIsCurrent` is the strengthening: exactly the
  holder of the connection is in a transaction, and what its transaction
  sees (`TxView`) is the committed tables plus its own writes so far. With it,
  `Commit` is one `Observe` and every other step a stutter; `EventChain` then
  follows on the abstract log and is carried over.
- **SummaryProofs**: `SummaryTypes`, `OneStory`, `NoFlappingOfItsOwn`,
  `RebuildsUseTheLog`. A cached summary tells one story because the rebuild that made it
  did (`StoryInv`): as long as it is alone nobody else writes, so what it has recorded
  is what the table holds, the table holds what the log ends in, and the events it reads
  end in its statuses. `TransitionsAccountedFor` needs a count of what is still to come:
  a rebuild that has yet to record a service may add an event to its own stale status
  and cause one more back to the probe's; `CountInv` puts these within the bound too.
- **MetricsIngestProofs**: `TypeCorrect` needs `RowBeforeDetail` (a handler that is
  about to write the details has a row to write to). `HistoryExact` and `LogBounded` are
  inductive with it: deleting by the newest report's time is the same as asking
  of each sample whether any later report outdates it; and ids grow, so the newest
  `LogLimit` by id are the last accepted. `TrafficCountedOnce` and `RowsWhole` are about
  what a handler carries from one visit to the next. Handlers of one node in progress
  together are not marked alone (`OverlapMarked`); the interval a lone handler carries
  is disjoint from those of the node's samples (`CarriedIsFree`, in `RatesInv`); a lone
  handler finds its own basic columns in the row (`RowInv`).
- **AgentCollectorProofs**: `TypeCorrect`, `CachedIsRecent`, `ReadableAlways`,
  `LoneSaves`. A run collects after it began (`Collected`). Every entry that can still
  be reported is `Honest`: its `captured_at` claims at most as much more than the time
  of its collection as its run worked for it and the clock was set back since. Runs that
  never overlapped are at work one at a time (`OneAtWork`), and know what the file they
  write aside holds (`AsideKnown`). `LoneInv` says the same of one run alone, after
  whatever happened before it.
- **DeploymentProofs**: `AnswersNotOld`, `ChecksAreCache`, `VerdictsHonest`. `InTime`
  (a request under way is within its limit), `CacheYoung` (the cached entry was filled by
  a request in time and expires a TTL later) and `NotTooSoon` (the expiry covers
  everybody's last refresh) make `Fill` a `Refresh`, `Hit` a `Reuse`, `Tick` and
  `Ask` themselves, and every other step a stutter. `HonestInv`: what a request has
  found so far is backed by moments since it asked; a second attempt remembers the
  moment of the first failure; and the history of the site only grows.
- **DiagnosticsProofs**: `AcceptedNeverDown`, `WindowExplains`, `DiagnosisNeverBetter`,
  `PassesAgree`, `ListTellsTheBoard`, `ImpactsHaveReasons`. The invariant has four
  parts. `ConfigHolds`: the configuration in force was accepted. `WorldInv`: a node that
  wrote a log has a row, and `Window` ties the list of logs to how many were written
  since each node's last, or to its deletion. `ReadInv`: the same of what the digest has
  read, unless something changed between the reads. `AnswerInv`: the answer is a cut of
  its issues. The rest is about one answer: which condition an issue of each kind stands
  for (`IssueOrigins`), and that a cut keeps errors before warnings.
- **StatisticsProofs** holds the theorems of two components that have the lemmas about
  sums and counts in common. *RequestStats*: `RecentStaysTail`, `PollsStayQuiet`,
  `DigestsTell`, `CountersStayTogether`. The log only grows, so if it is quiet now it
  was quiet when a snapshot was taken, and the samples before the snapshot stay
  (`QuietDigests`, `DigestInv`); a stage took at most the time since the request began,
  so the whole reaches its raised budget, the largest of the stages', whenever it
  reaches every one of theirs; one more sample adds the same to a counter and to the sum
  over the routes (`CountInv`). *The board*: `OverallMeans`, `NeverLooksBetter`,
  `CountsAddUp`, `PagesTellTheSame`, `PagesMatchTheBoard`. Little is inductive here
  (`BoardInv`: types, and that the results of an endpoint have different ages, oldest
  first); the work is in lemmas about any board: which words of services make the word
  of a project (`GroupSays`, `ProjectSays`), that aggregation is monotone (`Monotone`),
  that groups of a finite set add up to it (`PartitionSum`), and that a sorted and cut
  list exists (`NewestExist`).
- **AuthSessionProofs**: `NoCircles`, `AcceptedLoginSticks`, `LogoutClears`. `Settled`
  says how many redirects the place still needs, by what is left of the `next` and by
  what the look at the cookies there will find, and that so many are left. The other
  two speak of the cookie that is sent first, and follow from what is true of all that
  are kept or sent (`JarInv`): after a login the one in the present scope is the new
  one, and after a logout none is left in the scopes that were cleared; unless
  what came over http could change nothing.

**Sums and maxima.** `SumFunction`, `Max` and a cut list are defined by recursion over a
finite set or by `CHOOSE`. The provers cannot instantiate the library's induction
theorems; so where a fact about every finite set is needed, the proofs take the least
number, or a minimal subset, for which it would fail (`LeastNatural`, `MinimalSet`, from
the well-foundedness of < on Nat) and show that there is a smaller one.

**Only model-checked.** The liveness properties `CallsReturn` and `BoardCatchesUp`:
fairness and ENABLED are out of the prover's reach. `V1FallsBack` is the claim that a
run refutes (see 5). The assumptions are checked on the runs' instances only, with one
exception: Diagnostics starts from the file, not from the configuration in force, and
`AcceptedFitsBoard` of DiagnosticsProofs shows that whatever `Validate` accepts is as
`ConfigsAssumption` says.

## 5. A divergence from the documentation

`docs/architecture/api-contract.md:127`: "Older v1 reports remain valid; missing v2
fields fall back to empty lists or zero values." `SaveMetrics` upserts only the
basic columns (`store.go:376`), so after a v1 report of a node that reported v2
before, the latest metrics still carry the old report's schema version, storage,
GPU, container, process and collector fields, under the new report's time. The
run `metrics_v1_after_v2` shows it with two reports. It takes an agent that is set
back to v1.

Two smaller ones, which no run shows on its own. `docs/architecture/api-contract.md:161`
and `docs/requirements/metrics-expansion.md:154` say that a slow diagnostics request
becomes an issue above 1500 ms in all; `opsWithRuntimeTimingIssues` raises that budget to
the largest budget of a stage (`server.go:189`), so 1500 to 2499 ms go untold unless
one stage exceeded its own. `DigestTells` states what the code does. And the samples
of `recent` are in the order of recording, so a slow request can follow one that ended
after it; `opsWithAPIRequestIssues` takes the newest time of all of them for that reason.

## 6. What is not modelled

- **Frontend**: rendering, and a refresh timer whose overlapping answers are shown in the
  order they arrive (`App.tsx:69`). Nothing in the code tells an older answer from a
  newer one, so there is no property a model could show to hold.
- **Scripts**: shell around ssh, docker and nginx. `run-with-timeout.sh` can report a
  success as a timeout when the command ends as the watchdog looks; nothing else
  depends on it.
- **Process start and stop**: reading the environment, signals. A stop is `Restart` in
  Summary, StatusStore, MetricsIngest and AuthSession.
- **Wire types**, HTTP routing, JSON, YAML, HTML, signing and hashing have no
  behaviour of their own that a state model would add to.
- **Values**: byte and network rates (a collector that failed reports counters of 0,
  `store.go:653`), the order of times as RFC 3339 text (`store.go:588`), averages,
  percentiles and texts. `MetricsHistory` and the history pages only select and
  average these values.

Two facts about time that no property bounds: an answer of 500 stays an issue until
80 later requests push its sample out (`server.go:269`), which on a quiet site takes days;
and the header of a check page comes from the cached summary, its results from Gatus
now (`aggregate.go:185`), so they can differ for the TTL.

`PROJECT.json` lists the hazards this leaves open with a note each.

## 7. What is left

For the proofs: that the cache of Summary keeps what TTLCache promises as far as it
does (its TTL is an event without a clock in Summary, so the age has to be modelled
first). For the models: the values of the storage rates.
