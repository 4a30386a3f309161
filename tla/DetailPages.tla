----------------------------- MODULE DetailPages -----------------------------
(***************************************************************************)
(* The pages of a project, a node and a service: what they take from the   *)
(* summary (projectDetailFromSummary, nodeDetailFromSummary,               *)
(* serviceDetailFromSummary) and the check results they fetch from Gatus   *)
(* (ProjectChecks, NodeChecks, ServiceChecks of backend/internal/app/      *)
(* aggregate.go).                                                          *)
(*                                                                         *)
(* results is what Gatus keeps: for every endpoint it lists, the outcome   *)
(* and the age of its last probes, oldest first.  Gatus stamps each result *)
(* with the time of its probe, and that time decides what a page leaves    *)
(* out, however many probes there were since.  The pages of a project and  *)
(* a node sort the results of several services by time and break ties by   *)
(* id; here a cut page keeps some choice of the newest.  Durations,        *)
(* conditions, error texts and the pages' excerpts of the event list are   *)
(* left out.                                                               *)
(***************************************************************************)
EXTENDS AppConfig, FiniteSetsExt

CONSTANTS
    PageWindow,     \* results of this age and older are left out
    PageLimit,      \* results on the page of a project or a node
    ServiceLimit,   \* results on the page of a service
    NoPage          \* the request fails

Healthy == {"ok", "maintenance"}

NodesOf(config, services) == {config.nodeOf[s] : s \in services}

\* projectDetailFromSummary and projectNodeIDsFromSummary.
ProjectDetail(config, st, p) ==
    LET services == OwnedServices(config, p)
    IN  [services |-> services,
         failures |-> {s \in services : st[s] \notin Healthy},
         nodes    |-> NodesOf(config, services)]

\* nodeDetailFromSummary: the projects are those its services name.
NodeDetail(config, st, n) ==
    LET services == {s \in config.services : config.nodeOf[s] = n}
    IN  [services |-> services,
         failures |-> {s \in services : st[s] \notin Healthy},
         projects |-> {config.projectOf[s] : s \in services}
                          \cap config.projects]

\* serviceDetailFromSummary: only what the service itself names.
ServiceDetail(config, st, s) ==
    [node        |-> config.nodeOf[s],
     projects    |-> {config.projectOf[s]} \cap config.projects,
     latestCheck |-> IF config.keyOf[s] = NoKey THEN {}
                     ELSE {[status |-> st[s], success |-> st[s] \in Healthy]}]

-----------------------------------------------------------------------------

\* The results of a service's endpoint within the window.
Entries(config, results, s) ==
    LET r == results[config.keyOf[s]]
    IN  {[service |-> s, age |-> r[i].age, success |-> r[i].success] :
            i \in {j \in DOMAIN r : r[j].age < PageWindow}}

\* Of some services, those that have an endpoint.
Mapped(config, services) == {s \in services : config.keyOf[s] # NoKey}

\* Those that Gatus lists; a missing key of the map reads as no results.
OnGatus(config, results, services) ==
    {s \in Mapped(config, services) : config.keyOf[s] \in DOMAIN results}

\* Mutant of NewestEntries: the oldest results are kept.
NewestEntriesReversed(entries, limit) ==
    IF Cardinality(entries) <= limit THEN entries
    ELSE CHOOSE K \in kSubset(limit, entries) :
            \A k \in K, d \in entries \ K : k.age >= d.age

\* Sort by time, newest first, and cut.
NewestEntries(entries, limit) ==
    IF Cardinality(entries) <= limit THEN entries
    ELSE CHOOSE K \in kSubset(limit, entries) :
            \A k \in K, d \in entries \ K : k.age <= d.age

\* summarizeCheckHistory.
CheckSummary(entries) ==
    LET failures == {e \in entries : ~e.success}
    IN  [total       |-> Cardinality(entries),
         successes   |-> Cardinality(entries \ failures),
         failures    |-> Cardinality(failures),
         lastFailure |-> IF failures = {} THEN {}
                         ELSE {Min({e.age : e \in failures})}]

Page(config, results, services, limit) ==
    LET shown == NewestEntries(
                    UNION {Entries(config, results, s) :
                              s \in OnGatus(config, results, services)}, limit)
    IN  [endpoints |-> Cardinality(Mapped(config, services)),
         results |-> shown, summary |-> CheckSummary(shown)]

ProjectChecks(config, results, err, p) ==
    IF err THEN NoPage
    ELSE Page(config, results, OwnedServices(config, p), PageLimit)

NodeChecks(config, results, err, n) ==
    IF err THEN NoPage
    ELSE Page(config, results,
              {s \in config.services : config.nodeOf[s] = n}, PageLimit)

\* A service without endpoint has an empty page, one that Gatus does not
\* list has none (EndpointResults fails).
ServiceChecks(config, results, err, s) ==
    IF config.keyOf[s] # NoKey /\ (err \/ config.keyOf[s] \notin DOMAIN results)
    THEN NoPage
    ELSE Page(config, results, {s}, ServiceLimit)
=============================================================================
