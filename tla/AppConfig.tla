------------------------------ MODULE AppConfig ------------------------------
(***************************************************************************)
(* The configuration: which ones AppConfig.Validate accepts, the resource  *)
(* limits that are in force on a node, and the issues that configIssues    *)
(* finds again on every diagnostics request (backend/internal/app/         *)
(* config.go, aggregate.go).  A configuration as it is read from YAML is   *)
(*                                                                         *)
(*   named      whether app.name is set;                                   *)
(*   nodes      the sequence of node ids;                                  *)
(*   projects   a sequence of [id, serviceIDs];                            *)
(*   services   a sequence of [id, node, project, key, critical, budget],  *)
(*              budget = NoBudget or [names, compose, memory, cpu], names  *)
(*              being the set of container names;                          *)
(*   limits     [own, nodes]: the thresholds that are set, by metric, and  *)
(*              the overrides, by node and metric.                         *)
(*                                                                         *)
(* Loaded gives it the form that StatusRollup and the digest work on.      *)
(* Percentages and rates are whole numbers.                                *)
(***************************************************************************)
EXTENDS StatusRollup, Functions, Integers

CONSTANT NoBudget       \* service.ResourceBudget == nil

None == ""              \* Go's zero string: no id, no project, no container

Percents == {"cpu", "memory", "disk", "gpu"}
Rates == {"network_rx", "network_tx", "storage_read", "storage_write"}
Metrics == Percents \cup Rates

-----------------------------------------------------------------------------

\* No id is empty, no two are the same.
ValidIDs(ids) == None \notin Range(ids) /\ IsInjective(ids)

\* validatePercentThreshold and validatePositiveThreshold.
ValidLimit(metric, v) == v > 0 /\ (metric \in Percents => v <= 100)

\* ResourceThresholdConfig.Validate.
ValidLimits(limits, nodes) ==
    /\ \A m \in DOMAIN limits.own : ValidLimit(m, limits.own[m])
    /\ \A n \in DOMAIN limits.nodes :
          /\ n \in nodes
          /\ \A m \in DOMAIN limits.nodes[n] : ValidLimit(m, limits.nodes[n][m])

\* A budget says which containers it is about and bounds at least one thing.
ValidBudget(budget) ==
    budget # NoBudget =>
        /\ budget.names # {} \/ budget.compose # None
        /\ None \notin budget.names
        /\ budget.memory >= 0 /\ budget.cpu >= 0
        /\ budget.memory + budget.cpu > 0

IDsOf(list) == [i \in DOMAIN list |-> list[i].id]

\* Mutant of Validate: what a project lists is not looked up.
ValidateServicesOnly(raw) ==
    LET nodes == Range(raw.nodes)
        projects == Range(IDsOf(raw.projects))
    IN  /\ raw.named
        /\ raw.nodes # <<>>
        /\ ValidIDs(raw.nodes)
        /\ ValidLimits(raw.limits, nodes)
        /\ ValidIDs(IDsOf(raw.projects))
        /\ ValidIDs(IDsOf(raw.services))
        /\ \A s \in Range(raw.services) :
              /\ s.node \in nodes
              /\ s.project \in projects \cup {None}
              /\ ValidBudget(s.budget)

\* AppConfig.Validate; the order of the checks only decides the message.
Validate(raw) ==
    LET nodes == Range(raw.nodes)
        projects == Range(IDsOf(raw.projects))
        services == Range(IDsOf(raw.services))
    IN  /\ raw.named
        /\ raw.nodes # <<>>
        /\ ValidIDs(raw.nodes)
        /\ ValidLimits(raw.limits, nodes)
        /\ ValidIDs(IDsOf(raw.projects))
        /\ ValidIDs(IDsOf(raw.services))
        /\ \A s \in Range(raw.services) :
              /\ s.node \in nodes
              /\ s.project \in projects \cup {None}
              /\ ValidBudget(s.budget)
        /\ \A p \in Range(raw.projects) : Range(p.serviceIDs) \subseteq services

\* The entry of a list with this id.
Named(list, id) == CHOOSE entry \in Range(list) : entry.id = id

\* An accepted configuration, by id.
Loaded(raw) ==
    LET services == Range(IDsOf(raw.services))
        projects == Range(IDsOf(raw.projects))
        Service(s) == Named(raw.services, s)
    IN  [services   |-> services,
         nodes      |-> Range(raw.nodes),
         projects   |-> projects,
         keyOf      |-> [s \in services |-> Service(s).key],
         nodeOf     |-> [s \in services |-> Service(s).node],
         projectOf  |-> [s \in services |-> Service(s).project],
         critical   |-> {s \in services : Service(s).critical},
         budget     |-> [s \in services |-> Service(s).budget],
         serviceIDs |-> [p \in projects |-> Named(raw.projects, p).serviceIDs],
         limits     |-> raw.limits]

-----------------------------------------------------------------------------

\* defaultResourceThreshold; a rate has no limit unless one is set.
DefaultLimit(metric) ==
    CASE metric \in {"cpu", "memory", "gpu"} -> 90
      [] metric = "disk" -> 85
      [] metric \in Rates -> 0

\* EffectiveForNode: the node's override, else the own threshold, else the
\* default.
Effective(limits, n) ==
    [m \in Metrics |->
        IF n \in DOMAIN limits.nodes /\ m \in DOMAIN limits.nodes[n]
        THEN limits.nodes[n][m]
        ELSE IF m \in DOMAIN limits.own THEN limits.own[m]
        ELSE DefaultLimit(m)]

-----------------------------------------------------------------------------

ListedServices(config, p) == Range(config.serviceIDs[p])

ConfigIssue(severity, kind, subject) ==
    [severity |-> severity, kind |-> kind, subject |-> subject]

\* The issues of one service.  listed: the endpoints of Gatus, {} if err.
ServiceIssues(config, listed, err, s) ==
    LET key == config.keyOf[s]
        n == config.nodeOf[s]
        p == config.projectOf[s]
        When(condition, severity, kind) ==
            IF condition THEN {ConfigIssue(severity, kind, s)} ELSE {}
    IN  When(n # None /\ n \notin config.nodes, "error", "service-node")
        \cup When(p # None /\ p \notin config.projects,
                  "error", "service-project")
        \cup When(key = NoKey \/ (~err /\ key \notin listed),
                  "warn", "service-endpoint")
        \cup When(p \in config.projects /\ s \notin ListedServices(config, p),
                  "warn", "service-project-list")

\* configIssues.
ConfigIssues(config, listed, err) ==
    (UNION {ServiceIssues(config, listed, err, s) : s \in config.services})
    \cup {ConfigIssue("error", "project-service", p) :
             p \in {q \in config.projects :
                       ~(ListedServices(config, q) \subseteq config.services)}}
    \cup {ConfigIssue("info", "gatus-orphan", k) :
             k \in IF err THEN {} ELSE listed \ Range(config.keyOf)}

\* configStatus.
ConfigStatus(issues) ==
    IF \E i \in issues : i.severity = "error" THEN "down"
    ELSE IF \E i \in issues : i.severity = "warn" THEN "degraded"
    ELSE "ok"

\* Mutant of Owns: only the service's own project_id counts.
OwnsNamed(config, p, s) == config.projectOf[s] = p

\* projectOwnsService: by the service's project_id or by the project's list.
Owns(config, p, s) ==
    config.projectOf[s] = p \/ s \in ListedServices(config, p)

OwnedServices(config, p) == {s \in config.services : Owns(config, p, s)}
=============================================================================
