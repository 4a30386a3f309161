---------------------------- MODULE StatusRollup ----------------------------
(***************************************************************************)
(* How Aggregator.Summary turns one answer of Gatus into the statuses of   *)
(* services, nodes, projects and the whole board (backend/internal/app/    *)
(* gatus.go, aggregate.go).  Everything here is a function of              *)
(*                                                                         *)
(*   config   the validated AppConfig: .services, .nodes, .projects (sets  *)
(*            of ids), .keyOf (endpoint_key, or NoKey), .nodeOf, .critical *)
(*            (the set of critical services) and .serviceIDs (per project  *)
(*            the sequence service_ids, which may repeat an id);           *)
(*   checks   the endpoints Gatus listed: key -> check status;             *)
(*   err      whether Gatus could not be read at all.                      *)
(*                                                                         *)
(* The services of a node or project are a family: a function from some    *)
(* index set to services, so that repeated ids count as often as the code  *)
(* counts them.  Details, times and response times are left out.           *)
(***************************************************************************)
EXTENDS Naturals, FiniteSets, Sequences

CONSTANT NoKey      \* service.EndpointKey == ""

Statuses == {"ok", "degraded", "down", "unknown", "maintenance"}

-----------------------------------------------------------------------------

\* Mutant of CheckStatus: the oldest result decides.
CheckStatusOldest(results) ==
    IF results = <<>> THEN "unknown"
    ELSE IF results[1] THEN "ok" ELSE "down"

\* EndpointStatuses: the last result decides, none is "unknown".
CheckStatus(results) ==
    IF results = <<>> THEN "unknown"
    ELSE IF results[Len(results)] THEN "ok" ELSE "down"

\* serviceViews: a service without a key, a key Gatus does not list and a
\* Gatus that cannot be read all leave the service "unknown".
ServiceStatus(config, checks, err, s) ==
    IF ~err /\ config.keyOf[s] # NoKey /\ config.keyOf[s] \in DOMAIN checks
    THEN checks[config.keyOf[s]] ELSE "unknown"

ServiceStatuses(config, checks, err) ==
    [s \in config.services |-> ServiceStatus(config, checks, err, s)]

\* How many members of a family have status v.
CountOf(st, family, v) == Cardinality({i \in DOMAIN family : st[family[i]] = v})

\* Mutant of AggregateStatus: an unknown service hides a critical outage.
AggregateStatusUnknownFirst(config, st, family) ==
    IF DOMAIN family = {} THEN "unknown"
    ELSE IF CountOf(st, family, "unknown") > 0 THEN "degraded"
    ELSE IF \E i \in DOMAIN family :
              family[i] \in config.critical /\ st[family[i]] = "down"
         THEN "down"
    ELSE IF CountOf(st, family, "down") + CountOf(st, family, "degraded") > 0
         THEN "degraded" ELSE "ok"

\* aggregateServiceViews.
AggregateStatus(config, st, family) ==
    IF DOMAIN family = {} THEN "unknown"
    ELSE IF \E i \in DOMAIN family :
              family[i] \in config.critical /\ st[family[i]] = "down"
         THEN "down"
    ELSE IF CountOf(st, family, "down") + CountOf(st, family, "unknown")
              + CountOf(st, family, "degraded") > 0
         THEN "degraded" ELSE "ok"

\* nodeViews and projectViews: which services a node or a project shows.
NodeFamily(config, n) ==
    LET S == {s \in config.services : config.nodeOf[s] = n} IN [s \in S |-> s]

ProjectFamily(config, p) == config.serviceIDs[p]

NodeStatuses(config, st) ==
    [n \in config.nodes |-> AggregateStatus(config, st, NodeFamily(config, n))]

ProjectStatuses(config, st) ==
    [p \in config.projects |->
        AggregateStatus(config, st, ProjectFamily(config, p))]

\* aggregateOverall, over the projects' statuses.
AggregateOverall(projects) ==
    LET P == {projects[p] : p \in DOMAIN projects} IN
    IF P = {} THEN "unknown"
    ELSE IF "down" \in P THEN "down"
    ELSE IF P \cap {"degraded", "unknown"} # {} THEN "degraded"
    ELSE "ok"

\* Mutant of CountStatuses: unknown statuses have no bucket.
CountStatusesKnown(st) ==
    [v \in Statuses |-> IF v = "unknown" THEN 0
                        ELSE Cardinality({s \in DOMAIN st : st[s] = v})]

\* countStatuses, over the services.
CountStatuses(st) ==
    [v \in Statuses |-> Cardinality({s \in DOMAIN st : st[s] = v})]

\* What Summary derives from one answer of Gatus.
Rollup(config, checks, err) ==
    LET st == ServiceStatuses(config, checks, err)
        projects == ProjectStatuses(config, st)
    IN  [services |-> st,
         nodes    |-> NodeStatuses(config, st),
         projects |-> projects,
         overall  |-> AggregateOverall(projects),
         counts   |-> CountStatuses(st)]
=============================================================================
