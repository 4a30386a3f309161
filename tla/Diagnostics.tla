----------------------------- MODULE Diagnostics -----------------------------
(***************************************************************************)
(* Aggregator.Diagnostics (backend/internal/app/aggregate.go): a request   *)
(* reads Gatus, the latest metrics, the newest report logs and the         *)
(* transitions of the day, one after the other and with nothing to hold    *)
(* the world still in between; each read can fail.  It rolls all this up   *)
(* into the digest of OpsDigest and ProjectHealth and answers.             *)
(*                                                                         *)
(* Meanwhile endpoints are probed, agents report (SaveMetrics, then for    *)
(* v2 SaveMetricsV2 writes the details and the log, and deletes logs that  *)
(* are a week old), nodes fall silent, for minutes or for a week, and      *)
(* subjects change their status.  Nodes that are no longer configured      *)
(* still report and keep their row.  The process starts on an empty        *)
(* database or on one where every configured node has reported.  Logs are  *)
(* taken to be received in the order in which they are written.            *)
(***************************************************************************)
EXTENDS ProjectHealth

CONSTANTS
    RawConfigs,     \* what the configuration file may hold
    Reporters,      \* the nodes with an agent, configured or not
    Reports,        \* the v2 reports they post: [load, gpu, collectors,
                    \* containers, failed, late]
    Changeable,     \* subjects whose status changes: [kind, subject]
    FirstReport,    \* the one that every configured node posted before
    NoReport,       \* no report is being saved
    ReportWindow,   \* report logs read (20)
    MaxResults,     \* bound: results Gatus keeps per endpoint
    MaxChanges      \* bound: changes of the world and failed reads

ASSUME LimitAssumption ==
    {IssueLimit, ImpactLimit, ReportWindow, VolatilityThreshold} \subseteq Nat \ {0}

\* What YAML can hold: finite lists, whole numbers where numbers are wanted.
\* Every node of the file may have an agent.
ASSUME RawAssumption == \A raw \in RawConfigs :
    /\ raw.nodes \in Seq(Reporters)
    /\ IsFiniteSet(DOMAIN raw.projects) /\ IsFiniteSet(DOMAIN raw.services)
    /\ \A p \in Range(raw.projects) : p.serviceIDs \in Seq(Range(p.serviceIDs))
    /\ \A m \in DOMAIN raw.limits.own : raw.limits.own[m] \in Int
    /\ \A n \in DOMAIN raw.limits.nodes :
          \A m \in DOMAIN raw.limits.nodes[n] : raw.limits.nodes[n][m] \in Int

\* What an agent can measure.
ASSUME ReportsAssumption == \A report \in Reports \cup {FirstReport} :
    /\ report.load \in [Metrics \ {"gpu"} -> Int]
    /\ report.gpu.available \in BOOLEAN
    /\ IsFiniteSet(DOMAIN report.gpu.utils)
    /\ \A d \in DOMAIN report.gpu.utils : report.gpu.utils[d] \in Int
    /\ report.failed \in Nat /\ report.late \in BOOLEAN

VARIABLES
    config,
    results,        \* Gatus: endpoint -> its results
    rows,           \* metrics_latest
    logs,           \* the newest ReportWindow rows of metrics_report_logs
    aged,           \* how many of them, the oldest ones, are over a week old
    saving,         \* the v2 report of each node between its two transactions
    day,            \* the transitions of the last 24 hours
    pc,             \* where the request is
    read,           \* what it has read
    answer,         \* the issues and impacts it shows
    changes,        \* how many changes there were
    raced,          \* the metrics changed between the reads of one request
    logged,         \* how many logs were written from the last one of a node on
    deleted         \* nodes whose last log was deleted because of its age

world == <<config, results, rows, logs, aged, saving, day>>
request == <<pc, read, answer>>
history == <<changes, raced, logged, deleted>>
vars == <<world, request, history>>

Empty == [x \in {} |-> x]

NothingRead ==
    [endpoints |-> Empty, gatusErr |-> FALSE, rows |-> Empty, rowsErr |-> FALSE,
     reports |-> <<>>, reportsErr |-> FALSE, logged |-> Empty, deleted |-> {},
     day |-> <<>>]

NoAnswer == [kept |-> {}, impacts |-> {}]

RowOf(report) ==
    [stale |-> FALSE, load |-> report.load, gpu |-> report.gpu,
     collectors |-> report.collectors, containers |-> report.containers]

LogOf(n, report) == [node |-> n, failed |-> report.failed, late |-> report.late]

\* Mutant of Logged: the old logs stay.
LoggedKeepsOld(list, old, n, report) ==
    LET all == Append(list, LogOf(n, report))
    IN  IF Len(all) > ReportWindow THEN Tail(all) ELSE all

\* The newest logs, after one of n: its transaction deletes the old ones.
Logged(list, old, n, report) ==
    LET all == Append(SubSeq(list, old + 1, Len(list)), LogOf(n, report))
    IN  IF Len(all) > ReportWindow THEN Tail(all) ELSE all

\* Nodes whose last log is one of the k oldest here, or still older.
LastAmong(k) == {n \in Reporters : k > 0 /\ logged[n] > Len(logs) - k}

\* statusd starts with a configuration that Validate accepts.
Init ==
    /\ \E raw \in RawConfigs : Validate(raw) /\ config = Loaded(raw)
    /\ results = [k \in Range(config.keyOf) \ {NoKey} |-> <<TRUE>>]
    /\ \/ rows = Empty /\ logs = <<>> /\ logged = [n \in Reporters |-> 0]
       \/ \E order \in Bijection(1..Cardinality(config.nodes), config.nodes) :
             LET age(n) == Cardinality({i \in DOMAIN order :
                               i >= CHOOSE j \in DOMAIN order : order[j] = n})
             IN  /\ rows = [n \in config.nodes |-> RowOf(FirstReport)]
                 /\ logs = [i \in DOMAIN order |-> LogOf(order[i], FirstReport)]
                 /\ Len(logs) <= ReportWindow
                 /\ logged = [n \in Reporters |->
                                 IF n \in config.nodes THEN age(n) ELSE 0]
    /\ aged = 0
    /\ saving = [n \in Reporters |-> NoReport]
    /\ day = <<>>
    /\ pc = "gatus"
    /\ read = NothingRead
    /\ answer = NoAnswer
    /\ changes = 0
    /\ raced = FALSE
    /\ deleted = {}

-----------------------------------------------------------------------------

Change ==
    /\ changes < MaxChanges
    /\ changes' = changes + 1

\* The metrics change between the two reads that look at them.
Race == raced' = (raced \/ pc = "reports")

Probe(k, success) ==
    /\ Change
    /\ k \in DOMAIN results
    /\ results' = [results EXCEPT ![k] =
                      LET r == Append(@, success)
                      IN  IF Len(r) > MaxResults THEN Tail(r) ELSE r]
    /\ UNCHANGED <<config, rows, logs, aged, saving, day, request, raced, logged,
                   deleted>>

\* Gatus is set up anew: it forgets an endpoint, or only its results.
Forget(k) ==
    /\ Change
    /\ k \in DOMAIN results
    /\ \/ results' = [j \in DOMAIN results \ {k} |-> results[j]]
       \/ results' = [results EXCEPT ![k] = <<>>]
    /\ UNCHANGED <<config, rows, logs, aged, saving, day, request, raced, logged,
                   deleted>>

Basic == {"cpu", "memory", "disk", "network_rx", "network_tx"}

\* The columns of a row that SaveMetrics does not know, in a new row.
NoDetail ==
    [load       |-> [m \in Metrics \ {"gpu"} |-> 0],
     gpu        |-> [available |-> FALSE, utils |-> Empty],
     collectors |-> Empty,
     containers |-> [available |-> FALSE, set |-> {}]]

\* SaveMetrics upserts the basic columns and updated_at: all of a v1 report,
\* the first half of a v2 report.
ReportBasic(n, report, v2) ==
    /\ Change
    /\ saving[n] = NoReport
    /\ LET old == IF n \in DOMAIN rows THEN rows[n] ELSE NoDetail
           new == [stale      |-> FALSE,
                   load       |-> [m \in DOMAIN old.load |->
                                     IF m \in Basic THEN report.load[m]
                                     ELSE old.load[m]],
                   gpu        |-> old.gpu,
                   collectors |-> old.collectors,
                   containers |-> old.containers]
       IN  rows' = [x \in DOMAIN rows \cup {n} |-> IF x = n THEN new ELSE rows[x]]
    /\ saving' = [saving EXCEPT ![n] = IF v2 THEN report ELSE NoReport]
    /\ Race
    /\ UNCHANGED <<config, results, logs, aged, day, request, logged, deleted>>

\* SaveMetricsV2 writes the details and the log and deletes the old logs; or it
\* fails.
ReportDetail(n) ==
    /\ saving[n] # NoReport
    /\ \/ /\ rows' = [rows EXCEPT ![n] = RowOf(saving[n])]
          /\ logs' = Logged(logs, aged, n, saving[n])
          /\ aged' = 0
          /\ logged' = [x \in Reporters |->
                           IF x = n THEN 1
                           ELSE IF logged[x] \in 1..ReportWindow
                           THEN logged[x] + 1 ELSE logged[x]]
          /\ deleted' = (deleted \cup LastAmong(aged)) \ {n}
          /\ UNCHANGED changes
       \/ /\ Change
          /\ UNCHANGED <<rows, logs, aged, logged, deleted>>
    /\ saving' = [saving EXCEPT ![n] = NoReport]
    /\ Race
    /\ UNCHANGED <<config, results, day, request>>

\* Two minutes pass without a report of n.
GoStale(n) ==
    /\ Change
    /\ n \in DOMAIN rows
    /\ ~rows[n].stale
    /\ rows' = [rows EXCEPT ![n].stale = TRUE]
    /\ Race
    /\ UNCHANGED <<config, results, logs, aged, saving, day, request, logged, deleted>>

\* Between two requests the k oldest logs become more than a week old: the nodes
\* that wrote none since are silent, and transitions of the day pass.
Week(k) ==
    /\ Change
    /\ pc = "gatus" /\ \A n \in Reporters : saving[n] = NoReport
    /\ k > aged
    /\ aged' = k
    /\ rows' = [n \in DOMAIN rows |->
                   IF n \in LastAmong(k) THEN [rows[n] EXCEPT !.stale = TRUE]
                   ELSE rows[n]]
    /\ \E i \in 1..(Len(day) + 1) : day' = SubSeq(day, i, Len(day))
    /\ UNCHANGED <<config, results, logs, saving, request, raced, logged, deleted>>

\* The status of a subject changes to another one (RecordStatus).
Transition(x, to) ==
    /\ Change
    /\ ChangesOf(day, x) # {} => day[Max(ChangesOf(day, x))].to # to
    /\ day' = Append(day, [kind |-> x.kind, subject |-> x.subject, to |-> to])
    /\ UNCHANGED <<config, results, rows, logs, aged, saving, request, raced, logged,
                   deleted>>

-----------------------------------------------------------------------------

\* One read of the request: it succeeds, or fails and leaves the zero value.
Reads(from, to, ok, failed) ==
    /\ pc = from
    /\ pc' = to
    /\ \/ read' = ok /\ UNCHANGED changes
       \/ read' = failed /\ Change
    /\ UNCHANGED <<world, answer, raced, logged, deleted>>

ReadGatus ==
    Reads("gatus", "metrics", [read EXCEPT !.endpoints = results],
                              [read EXCEPT !.gatusErr = TRUE])

\* store.LatestMetrics.
ReadMetrics ==
    Reads("metrics", "reports", [read EXCEPT !.rows = rows],
                                [read EXCEPT !.rowsErr = TRUE])

\* store.RecentMetricReports(ctx, "", 20).
ReadReports ==
    Reads("reports", "day",
          [read EXCEPT !.reports = logs, !.logged = logged, !.deleted = deleted],
          [read EXCEPT !.reportsErr = TRUE])

\* store.StatusVolatility; no subjects if it fails.
ReadDay == Reads("day", "rollup", [read EXCEPT !.day = day], read)

\* The rest works on what was read.
board ==
    Rollup(config, [k \in DOMAIN read.endpoints |-> CheckStatus(read.endpoints[k])],
           read.gatusErr)

configIssues == ConfigIssues(config, DOMAIN read.endpoints, read.gatusErr)

issues ==
    OpsIssues(config, board.services, read.rows, configIssues,
              Volatility(read.day))

\* opsDiagnostic and projectImpacts.
RollUp ==
    /\ pc = "rollup"
    /\ pc' = "done"
    /\ \E kept \in IssueCuts(issues) :
          \E impacts \in ImpactCuts(config, kept) :
             answer' = [kept |-> kept, impacts |-> impacts]
    /\ UNCHANGED <<world, read, history>>

\* The answer is sent; the next request starts from nothing.
Respond ==
    /\ pc = "done"
    /\ pc' = "gatus"
    /\ read' = NothingRead
    /\ answer' = NoAnswer
    /\ raced' = FALSE
    /\ UNCHANGED <<world, changes, logged, deleted>>

World ==
    \/ \E k \in DOMAIN results : Forget(k) \/ \E ok \in BOOLEAN : Probe(k, ok)
    \/ \E n \in Reporters :
          \/ \E report \in Reports, v2 \in BOOLEAN : ReportBasic(n, report, v2)
          \/ ReportDetail(n)
          \/ GoStale(n)
    \/ \E k \in 1..Len(logs) : Week(k)
    \/ \E x \in Changeable, to \in {"ok", "down"} : Transition(x, to)

Next ==
    World \/ ReadGatus \/ ReadMetrics \/ ReadReports \/ ReadDay \/ RollUp \/ Respond

Spec == Init /\ [][Next]_vars

-----------------------------------------------------------------------------

Answered == pc = "done"

Board(s) == board.services[s]

\* Critical services that are down.
Outages == {s \in config.critical : Board(s) = "down"}

ShownErrors == {i \in answer.kept : i.severity = "error"}

(***************************************************************************)
(* The list of issues, cut to its limit, tells what the board tells.  When *)
(* the board is down the list shows an outage first.  When the list is     *)
(* empty, every service passes, every node reports, the board is not down  *)
(* and degraded only for a project that lists no service; what the         *)
(* agents' provider then still calls degraded is a collector that one node *)
(* lacks or whose cache is too old, which no issue reports.                *)
(***************************************************************************)
IssuesTellTheBoard ==
    Answered =>
        /\ board.overall = "down" => ShownErrors # {}
        /\ ShownErrors # answer.kept =>
              Outages = {i.service : i \in ShownErrors}
        /\ answer.kept = {} =>
              /\ \A s \in config.services : Board(s) \in Healthy
              /\ config.nodes = DOMAIN read.rows \cap config.nodes
              /\ board.overall \in {"down", "degraded"} =>
                    \E p \in config.projects : ListedServices(config, p) = {}
              /\ AgentsProvider(config, read.rows, read.rowsErr) # "ok" =>
                    \E c \in CollectorNames(read.rows) :
                       LET x == CollectorSummary(config, read.rows, c)
                       IN  x.missing \cup x.old # {}

(***************************************************************************)
(* Two passes judge the same numbers: the resource states and the budget   *)
(* statuses on one side, the issues on the other.  They agree, for every   *)
(* node with a row and every service with a budget, although the states    *)
(* look at the busiest GPU only and the issues at each.                    *)
(***************************************************************************)
StatesMatchIssues ==
    Answered =>
        /\ \A n \in DOMAIN read.rows :
              LET limits == Effective(config.limits, n)
              IN  ResourceState(limits, read.rows[n]) = "ok" <=>
                     /\ ~read.rows[n].stale
                     /\ ~\E i \in issues : i.kind = "resource" /\ i.node = n
        /\ \A s \in Budgeted(config) :
              BudgetStatus(config, read.rows, s) = "ok" <=>
                 ~\E i \in issues : i.kind = "service-resource" /\ i.service = s

\* Project p has a service on the node of s, or owns s itself.
Near(p, s) ==
    \E x \in OwnedServices(config, p) : config.nodeOf[x] = config.nodeOf[s]

(***************************************************************************)
(* As long as neither list is cut, the impact on a project reads "down"    *)
(* exactly when a critical service is down that it owns or that shares a   *)
(* node with one of its own; so a project can be down here that is ok on   *)
(* the board, never the other way round.                                   *)
(***************************************************************************)
ImpactsAccounted ==
    Answered /\ Cardinality(issues) <= IssueLimit
             /\ Cardinality(config.projects) <= ImpactLimit =>
        \A p \in config.projects :
            /\ ProjectOpsStatus(answer.impacts, p) = "down" <=>
                  \E s \in Outages : Near(p, s)
            /\ board.projects[p] = "down" =>
                  ProjectOpsStatus(answer.impacts, p) = "down"

(***************************************************************************)
(* The diagnosis of a project is never better than its status on the       *)
(* board, and it is "ok" only when monitoring covers it: it has services,  *)
(* each with an endpoint that passed its last check, and every node they   *)
(* run on reports afresh, without failed collectors in the window.         *)
(***************************************************************************)
ProjectNeverBetter ==
    Answered => \A p \in config.projects :
        LET status == ProjectStatus(config, board.services, read.endpoints,
                                    read.rows, read.reports, board.projects, p)
            c == Coverage(config, board.services, read.endpoints, p)
        IN  /\ status = "ok" => board.projects[p] = "ok"
            /\ board.projects[p] = "down" => status = "down"
            /\ status = "ok" =>
                  /\ c.services # {}
                  /\ \A s \in c.services : Board(s) = "ok"
                  /\ c.nodes \subseteq {n \in DOMAIN read.rows : ~read.rows[n].stale}
                  /\ \A n \in c.nodes :
                        /\ ReportsOf(read.reports, n) # {}
                        /\ \A i \in ReportsOf(read.reports, n) :
                              read.reports[i].failed = 0

(***************************************************************************)
(* The agents' health is judged by a window over the logs of all nodes     *)
(* together.  A node reads "unknown" exactly when it never wrote a log, a  *)
(* whole window of others' logs followed its last one, or its last one was *)
(* over a week old when another node's report came; and unless the metrics *)
(* changed between the two reads (or the first one failed), "ok" means a   *)
(* fresh row, and a missing node has no report in the window.              *)
(***************************************************************************)
SilenceExplained ==
    Answered /\ ~read.reportsErr => \A n \in config.nodes :
        LET status == AgentStatus(config, read.rows, read.reports, n)
        IN  /\ status = "unknown" <=>
                  read.logged[n] \notin 1..ReportWindow \/ n \in read.deleted
            /\ ~raced /\ ~read.rowsErr =>
                  /\ status = "ok" => n \in DOMAIN read.rows /\ ~read.rows[n].stale
                  /\ n \in MissingNodes(config, read.rows) => status = "unknown"

(***************************************************************************)
(* What Validate refuses at the start, configIssues never finds again: the *)
(* provider of the static configuration is never down, whatever Gatus      *)
(* lists.                                                                  *)
(***************************************************************************)
ValidatedNeverDown == ConfigStatus(configIssues) # "down"
=============================================================================
