--------------------------- MODULE MCDiagnostics ---------------------------
(***************************************************************************)
(* Diagnostics for a small site: two nodes, three services, up to two      *)
(* projects, and a third node whose agent was not switched off when it     *)
(* was removed from the configuration.                                     *)
(***************************************************************************)
EXTENDS Diagnostics, TLC

Budget == [names |-> {"db"}, compose |-> None, memory |-> 100, cpu |-> 0]

Service(id, node, project, key, critical, budget) ==
    [id |-> id, node |-> node, project |-> project, key |-> key,
     critical |-> critical, budget |-> budget]

Base ==
    [named    |-> TRUE,
     nodes    |-> <<"n1", "n2">>,
     projects |-> <<[id |-> "p", serviceIDs |-> <<"site", "job">>],
                    [id |-> "q", serviceIDs |-> <<"blob">>]>>,
     services |-> <<Service("site", "n1", "p", "k1", TRUE, Budget),
                    Service("job", "n2", "p", "k2", FALSE, NoBudget),
                    Service("blob", "n2", "q", "k3", TRUE, NoBudget)>>,
     limits   |-> [own |-> [disk |-> 80], nodes |-> [n2 |-> [gpu |-> 50]]]]

\* Accepted: a project that lists nothing, with a service that names it; a
\* service without endpoint, a repeated id and a budget by compose project.
Loose ==
    {[Base EXCEPT !.projects[2].serviceIDs = <<>>],
     [Base EXCEPT !.projects[1].serviceIDs = <<"site", "site", "blob">>,
                  !.services[2].key = NoKey, !.services[2].project = None,
                  !.services[1].budget.names = {},
                  !.services[1].budget.compose = "stack"]}

\* Refused: one reference, id or limit is wrong.
Damaged ==
    {[Base EXCEPT !.nodes = <<>>], [Base EXCEPT !.nodes = <<"n1", "n2", "n1">>],
     [Base EXCEPT !.projects[1].serviceIDs = <<"site", "gone">>],
     [Base EXCEPT !.services[1].node = "gone"],
     [Base EXCEPT !.services[1].project = "gone"],
     [Base EXCEPT !.services[1].budget.names = {}],
     [Base EXCEPT !.limits.own = [disk |-> 101]]}

MCRawConfigs == {Base} \cup Loose \cup Damaged

Load(cpu, disk) ==
    [cpu |-> cpu, memory |-> 10, disk |-> disk, network_rx |-> 5,
     network_tx |-> 5, storage_read |-> 5, storage_write |-> 5]

Fresh(cached, age) == [ok |-> TRUE, cached |-> cached, age |-> age]

Container(name, memory) ==
    [name |-> name, compose |-> "stack", memory |-> memory, cpu |-> 10]

\* Within all limits.
Clean ==
    [load |-> Load(10, 10),
     gpu |-> [available |-> TRUE, utils |-> [g0 |-> 5, g1 |-> 10]],
     collectors |-> [containers |-> Fresh(TRUE, 100)],
     containers |-> [available |-> TRUE, set |-> {Container("db", 60)}],
     failed |-> 0, late |-> FALSE]

\* The disk is full, one of two GPUs is busy, a budget is exceeded.
Busy ==
    [Clean EXCEPT !.load = Load(20, 83), !.gpu.utils = [g0 |-> 10, g1 |-> 60],
                  !.containers.set = {Container("db", 60), Container("web", 60)}]

\* A collector failed, another one answers from an old cache.
Failing ==
    [Clean EXCEPT !.collectors = [containers |-> Fresh(TRUE, 700),
                                  gpu |-> [ok |-> FALSE, cached |-> FALSE, age |-> 0]],
                  !.containers = [available |-> FALSE, set |-> {}],
                  !.failed = 1]

MCReports == {Clean, Busy, Failing}

MCChangeable ==
    {[kind |-> "project", subject |-> "q"], [kind |-> "service", subject |-> "job"]}
=============================================================================
