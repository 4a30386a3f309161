--------------------------- MODULE MCRequestStats ---------------------------
(***************************************************************************)
(* Two callers: the diagnostics page, a report, a node's checks, a path    *)
(* that no pattern fits and one outside the API.                           *)
(***************************************************************************)
EXTENDS RequestStats, TLC

Call(method, path) == [method |-> method, path |-> path]

MCCalls ==
    {Call("GET", <<"api", "v1", "diagnostics">>),
     Call("POST", <<"api", "v1", "metrics", "report", "v2">>),
     Call("GET", <<"api", "v1", "nodes", "n1", "uptime">>),
     Call("GET", <<"login">>)}

Symmetric == Permutations(Callers)

MCReplies == {<<200, Body>>, <<404, Body>>, <<500>>}

\* The deployment checks have a budget of their own.
MCStages == <<[name |-> "sqlite", warn |-> 0], [name |-> "deployment", warn |-> 3]>>
=============================================================================
