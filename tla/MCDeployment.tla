---------------------------- MODULE MCDeployment ----------------------------
(***************************************************************************)
(* The deployment checks of three processes: one set up as it should be,   *)
(* one that still has the example's domain, an address that is none and a  *)
(* private entry that is no URL, and one under development.                *)
(***************************************************************************)
EXTENDS DeploymentCheck, TLC

Good ==
    [mode |-> "production", differ |-> {}, tailnet |-> "http", ip |-> "real",
     domain |-> "real", frontend |-> TRUE, cacheTTL |-> 15, retention |-> 14]

MCSettings ==
    {Good,
     [Good EXCEPT !.tailnet = "other", !.ip = "invalid", !.domain = "example",
                  !.cacheTTL = 60, !.differ = {"db-path"}],
     [Good EXCEPT !.mode = "development", !.domain = "none", !.ip = "none",
                  !.frontend = FALSE, !.retention = 90]}

Symmetric == Permutations(Requesters)

MCEndpoints == <<"tailnet-health", "public-https-auth">>
=============================================================================
