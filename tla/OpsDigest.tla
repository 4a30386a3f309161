------------------------------ MODULE OpsDigest ------------------------------
(***************************************************************************)
(* The operations digest of a diagnostics answer (backend/internal/app/    *)
(* aggregate.go): what the latest metrics row of every node says about     *)
(* missing and stale nodes, collectors, container budgets and resource     *)
(* limits; the list of issues that follows from it, cut to its limit; and  *)
(* the projects these issues touch.  Everything is a function of           *)
(*                                                                         *)
(*   config   as AppConfig!Loaded gives it;                                *)
(*   st       the statuses of the services;                                *)
(*   rows     node -> its row of metrics_latest, with                      *)
(*              stale       updated more than two minutes ago,             *)
(*              load        the value of every metric but the GPUs',       *)
(*              gpu         [available, utils], utils by device,           *)
(*              collectors  name -> [ok, cached, age],                     *)
(*              containers  [available, set] of                            *)
(*                          [name, compose, memory, cpu];                  *)
(*   day      the transitions of the last 24 hours, oldest first.          *)
(*                                                                         *)
(* Rows of nodes that are not configured (any more) are in the table too.  *)
(* Details, units, times and the order within a severity are left out.     *)
(***************************************************************************)
EXTENDS DetailPages

CONSTANTS
    IssueLimit,             \* issues shown (50)
    ImpactLimit,            \* project impacts shown (20)
    VolatilityThreshold,    \* changes that make a subject volatile (3)
    VolatilityLimit         \* subjects read, the most changed first (20)

\* The members of a set that sort first, when only `limit` are shown: a set
\* of possible choices, because the order among equals is left out.
Cuts(S, limit, Before(_, _)) ==
    IF Cardinality(S) <= limit THEN {S}
    ELSE {K \in kSubset(limit, S) :
             \A k \in K, d \in S \ K : ~Before(d, k)}

-----------------------------------------------------------------------------

\* metricsDiagnostic.
ReportingNodes(config, rows) == config.nodes \cap DOMAIN rows

MissingNodes(config, rows) == config.nodes \ DOMAIN rows

StaleNodes(config, rows) ==
    {n \in ReportingNodes(config, rows) : rows[n].stale}

CollectorFailures(config, rows) ==
    UNION {{[node |-> n, name |-> c] :
               c \in {d \in DOMAIN rows[n].collectors :
                         ~rows[n].collectors[d].ok}} :
              n \in ReportingNodes(config, rows)}

\* collectorCacheWarnSeconds; 0 never warns.
CacheWarn(name) ==
    CASE name = "gpu" -> 240
      [] name \in {"containers", "processes"} -> 600
      [] OTHER -> 0

CollectorNames(rows) == UNION {DOMAIN rows[n].collectors : n \in DOMAIN rows}

\* metricsCollectorSummary: any row can name a collector, only the reporting
\* nodes are judged by it.
CollectorSummary(config, rows, name) ==
    LET nodes == ReportingNodes(config, rows)
        observed == {n \in nodes : name \in DOMAIN rows[n].collectors}
        With(P(_)) == {n \in observed : P(rows[n].collectors[name])}
    IN  [missing |-> nodes \ observed,
         failed  |-> With(LAMBDA c : ~c.ok),
         cached  |-> With(LAMBDA c : c.cached),
         old     |-> With(LAMBDA c : c.cached /\ CacheWarn(name) > 0
                                       /\ c.age > CacheWarn(name))]

CollectorStatus(config, rows, name) ==
    LET summary == CollectorSummary(config, rows, name)
    IN  IF summary.failed \cup summary.missing \cup summary.old # {}
        THEN "degraded" ELSE "ok"

-----------------------------------------------------------------------------
(* serviceResourceBudgetStatuses, for a service s with a budget. *)

\* The containers on the node of s that its budget is about.
Matched(config, rows, s) ==
    LET budget == config.budget[s]
        containers == rows[config.nodeOf[s]].containers
    IN  {c \in containers.set :
            /\ budget.compose # None => c.compose = budget.compose
            /\ budget.names # {} => c.name \in budget.names}

MissingContainers(config, rows, s) ==
    config.budget[s].names \ {c.name : c \in Matched(config, rows, s)}

\* "memory" and "cpu", as far as the matched containers exceed the budget.
OverBudget(config, rows, s) ==
    LET budget == config.budget[s]
        Used(m) == MapThenSumSet(LAMBDA c : c[m], Matched(config, rows, s))
    IN  {m \in {"memory", "cpu"} : budget[m] > 0 /\ Used(m) > budget[m]}

Measured(config, rows, s) ==
    /\ config.nodeOf[s] \in DOMAIN rows
    /\ rows[config.nodeOf[s]].containers.available

\* The status: each later finding replaces the one before.
BudgetStatus(config, rows, s) ==
    IF ~Measured(config, rows, s) THEN "unknown"
    ELSE IF MissingContainers(config, rows, s) \cup OverBudget(config, rows, s)
              # {} THEN "degraded"
    ELSE IF Matched(config, rows, s) = {} THEN "unknown"
    ELSE "ok"

\* The issues: <<metric, container>>.
BudgetIssues(config, rows, s) ==
    IF config.nodeOf[s] \notin DOMAIN rows THEN {<<"metrics", None>>}
    ELSE IF ~Measured(config, rows, s) THEN {<<"containers", None>>}
    ELSE {i \in {<<"containers", None>>} : Matched(config, rows, s) = {}}
         \cup {<<"container", c>> : c \in MissingContainers(config, rows, s)}
         \cup {<<m, None>> : m \in OverBudget(config, rows, s)}

Budgeted(config) == {s \in config.services : config.budget[s] # NoBudget}

-----------------------------------------------------------------------------

\* resourceThresholdIssues: <<metric, device>>.  The GPUs have no test that
\* their limit is set.
ResourceIssues(limits, row) ==
    {<<m, None>> : m \in {x \in Metrics \ {"gpu"} :
                             limits[x] > 0 /\ row.load[x] >= limits[x]}}
    \cup {<<"gpu", d>> : d \in {x \in DOMAIN row.gpu.utils :
             row.gpu.available /\ row.gpu.utils[x] >= limits["gpu"]}}

\* Mutant of MaxUtil: one device stands for all.
MaxUtilFirst(gpu) ==
    IF ~gpu.available \/ DOMAIN gpu.utils = {} THEN 0
    ELSE gpu.utils[CHOOSE d \in DOMAIN gpu.utils : TRUE]

\* maxGPUUtil.
MaxUtil(gpu) ==
    IF ~gpu.available \/ DOMAIN gpu.utils = {} THEN 0 ELSE Max(Range(gpu.utils))

\* resourceStates, resourceHeadroom and markHeadroomIssue, for one row.
ResourceState(limits, row) ==
    LET Value(m) == IF m = "gpu" THEN MaxUtil(row.gpu) ELSE row.load[m]
        Limit(m) == IF m = "gpu" /\ ~row.gpu.available THEN 0 ELSE limits[m]
    IN  IF \/ row.stale
           \/ \E m \in Metrics : Limit(m) > 0 /\ Value(m) >= Limit(m)
        THEN "degraded" ELSE "ok"

-----------------------------------------------------------------------------

Subject(event) == [kind |-> event.kind, subject |-> event.subject]

ChangesOf(day, x) == {i \in DOMAIN day : Subject(day[i]) = x}

\* store.StatusVolatility and statusVolatilityDiagnostic, with the severity
\* its issue gets.
Volatility(day) ==
    LET all == {[kind     |-> x.kind,
                 subject  |-> x.subject,
                 changes  |-> Cardinality(ChangesOf(day, x)),
                 resolved |-> day[Max(ChangesOf(day, x))].to \in Healthy] :
                    x \in {Subject(e) : e \in Range(day)}}
    IN  CHOOSE K \in Cuts(all, VolatilityLimit,
                          LAMBDA a, b : a.changes > b.changes) : TRUE

-----------------------------------------------------------------------------

Issue(severity, kind, subject, node, project, service, metric, item) ==
    [severity |-> severity, kind |-> kind, subject |-> subject, node |-> node,
     project |-> project, service |-> service, metric |-> metric, item |-> item]

ServiceCheckIssues(config, st) ==
    {Issue(IF st[s] = "down" /\ s \in config.critical THEN "error" ELSE "warn",
           "service-check", s, config.nodeOf[s], config.projectOf[s], s,
           "availability", None) :
        s \in {x \in config.services : st[x] \notin Healthy}}

\* What the metrics rows give rise to.
MetricIssues(config, rows) ==
    LET OfNode(kind, n, metric, item) ==
            Issue("warn", kind, n, n, None, None, metric, item)
    IN  {OfNode("metrics-missing", n, "agent", None) :
            n \in MissingNodes(config, rows)}
        \cup {OfNode("metrics-stale", n, "agent", None) :
                 n \in StaleNodes(config, rows)}
        \cup {OfNode("collector", f.node, f.name, None) :
                 f \in CollectorFailures(config, rows)}
        \cup (UNION {{Issue("warn", "service-resource", s, config.nodeOf[s],
                            None, s, b[1], b[2]) :
                         b \in BudgetIssues(config, rows, s)} :
                        s \in Budgeted(config)})
        \cup UNION {{OfNode("resource", n, r[1], r[2]) :
                        r \in ResourceIssues(Effective(config.limits, n),
                                             rows[n])} : n \in DOMAIN rows}

VolatilityIssues(volatility) ==
    LET Field(x, kind) == IF x.kind = kind THEN x.subject ELSE None
    IN  {Issue(IF x.resolved THEN "info" ELSE "warn", "status-volatility",
               x.subject, Field(x, "node"), Field(x, "project"),
               Field(x, "service"), x.kind, None) :
            x \in {y \in volatility : y.changes >= VolatilityThreshold}}

\* opsDiagnostic, before the cut.
OpsIssues(config, st, rows, configIssues, volatility) ==
    ServiceCheckIssues(config, st)
    \cup MetricIssues(config, rows)
    \cup {Issue(i.severity, "config", i.subject, None, None, None, i.kind, None) :
             i \in {x \in configIssues : x.severity # "info"}}
    \cup VolatilityIssues(volatility)

\* severityRank.
SeverityRank(severity) ==
    CASE severity = "error" -> 0 [] severity = "warn" -> 1 [] OTHER -> 2

MoreSevere(i, j) == SeverityRank(i.severity) < SeverityRank(j.severity)

\* Mutant of IssueCuts: the cut comes before the sort.
IssueCutsUnsorted(issues) == Cuts(issues, IssueLimit, LAMBDA i, j : FALSE)

IssueCuts(issues) == Cuts(issues, IssueLimit, MoreSevere)

-----------------------------------------------------------------------------
(* projectImpacts. *)

\* The projects of a service: those that list it and the one it names.
Owners(config, s) == {p \in config.projects : Owns(config, p, s)}

NodeOwners(config, n) ==
    UNION {Owners(config, s) : s \in {x \in config.services : config.nodeOf[x] = n}}

\* The projects an issue touches.
Touched(config, issue) ==
    ({issue.project} \ {None})
    \cup (IF issue.service \in config.services
          THEN Owners(config, issue.service) ELSE {})
    \cup NodeOwners(config, issue.node)

\* Mutant of Impact: a warning decides before an error does.
ImpactWarnFirst(config, kept, p) ==
    LET mine == {i \in kept : p \in Touched(config, i)}
        Count(severity) == Cardinality({i \in mine : i.severity = severity})
    IN  [project |-> p, issues |-> Cardinality(mine),
         errors  |-> Count("error"), warns |-> Count("warn"),
         status  |-> IF Count("warn") > 0 THEN "degraded"
                     ELSE IF Count("error") > 0 THEN "down" ELSE "ok"]

\* The row of a project in the impacts.
Impact(config, kept, p) ==
    LET mine == {i \in kept : p \in Touched(config, i)}
        Count(severity) == Cardinality({i \in mine : i.severity = severity})
    IN  [project |-> p, issues |-> Cardinality(mine),
         errors  |-> Count("error"), warns |-> Count("warn"),
         status  |-> IF Count("error") > 0 THEN "down"
                     ELSE IF Count("warn") > 0 THEN "degraded" ELSE "ok"]

MoreImpact(a, b) ==
    \/ a.errors > b.errors
    \/ a.errors = b.errors /\ a.warns > b.warns
    \/ a.errors = b.errors /\ a.warns = b.warns /\ a.issues > b.issues

ImpactCuts(config, kept) ==
    Cuts({Impact(config, kept, p) :
             p \in UNION {Touched(config, i) : i \in kept}},
         ImpactLimit, MoreImpact)
=============================================================================
