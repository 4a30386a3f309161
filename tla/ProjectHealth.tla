---------------------------- MODULE ProjectHealth ----------------------------
(***************************************************************************)
(* The rest of a diagnostics answer (backend/internal/app/aggregate.go):   *)
(* the health of the agents, from the newest report logs; the coverage and *)
(* status of each project, from the services, the metrics, the agents and  *)
(* the impacts; and the status of the agents as a provider.  A report log  *)
(* is [node, failed, late]: how many collectors failed, and whether the    *)
(* report arrived more than 30 s after it was captured.  An agent posts    *)
(* one report at a time, so of one node the last log is the newest.        *)
(***************************************************************************)
EXTENDS OpsDigest

ReportsOf(reports, n) == {i \in DOMAIN reports : reports[i].node = n}

\* agentReportDiagnostics: the status of node n.  reports: the newest logs of
\* all nodes together, oldest first.
AgentStatus(config, rows, reports, n) ==
    LET mine == ReportsOf(reports, n)
    IN  IF mine = {} THEN "unknown"
        ELSE IF \/ n \in StaleNodes(config, rows)
                \/ reports[Max(mine)].late
                \/ \E i \in mine : reports[i].failed > 0 THEN "degraded"
        ELSE "ok"

\* Mutant of AgentSummary: a node without a report in the window is skipped.
AgentSummaryKnown(config, rows, reports, nodes) ==
    LET statuses == {AgentStatus(config, rows, reports, n) : n \in nodes}
    IN  IF nodes = {} THEN "unknown"
        ELSE IF "degraded" \in statuses THEN "degraded" ELSE "ok"

\* projectAgentSummary over the nodes of a project: aggregateOverall of the
\* statuses, one after the other.
AgentSummary(config, rows, reports, nodes) ==
    LET statuses == {AgentStatus(config, rows, reports, n) : n \in nodes}
    IN  IF nodes = {} THEN "unknown"
        ELSE IF statuses = {"ok"} THEN "ok" ELSE "degraded"

-----------------------------------------------------------------------------

\* How far the monitoring of project p covers its services.  endpoints: the
\* results of every endpoint that Gatus lists, {} -> if it cannot be read.
Coverage(config, st, endpoints, p) ==
    LET services == OwnedServices(config, p)
        mapped == Mapped(config, services)
        listed == {s \in mapped : config.keyOf[s] \in DOMAIN endpoints}
        With(statuses) == {s \in services : st[s] \in statuses}
    IN  [services   |-> services,
         down       |-> With({"down"}),
         degraded   |-> With({"degraded", "unknown"}),
         unmapped   |-> services \ mapped,
         missing    |-> mapped \ listed,
         unchecked  |-> {s \in listed : endpoints[config.keyOf[s]] = <<>>},
         nodes      |-> NodesOf(config, services)]

\* projectDiagnostics and projectDiagnosticStatus: the status of project p,
\* whose status on the board is the last resort.
ProjectStatus(config, st, endpoints, rows, reports, board, p) ==
    LET c == Coverage(config, st, endpoints, p)
        silent == c.nodes \cap (MissingNodes(config, rows)
                                    \cup StaleNodes(config, rows))
    IN  IF c.down # {} THEN "down"
        ELSE IF \/ c.services = {}
                \/ c.unmapped \cup c.missing \cup c.unchecked # {}
                \/ silent # {}
                \/ AgentSummary(config, rows, reports, c.nodes) # "ok"
                \/ c.degraded # {} THEN "degraded"
        ELSE board[p]

\* The ops status of project p: that of its row in the impacts, if any.
ProjectOpsStatus(impacts, p) ==
    IF \E i \in impacts : i.project = p
    THEN (CHOOSE i \in impacts : i.project = p).status ELSE "ok"

-----------------------------------------------------------------------------

\* metricsProviderStatus.
AgentsProvider(config, rows, err) ==
    IF err \/ ReportingNodes(config, rows) = {} THEN "down"
    ELSE IF \/ MissingNodes(config, rows) \cup StaleNodes(config, rows) # {}
            \/ CollectorFailures(config, rows) # {}
            \/ \E c \in CollectorNames(rows) :
                  CollectorStatus(config, rows, c) # "ok" THEN "degraded"
    ELSE "ok"
=============================================================================
