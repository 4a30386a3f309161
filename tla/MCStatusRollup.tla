--------------------------- MODULE MCStatusRollup ---------------------------
(***************************************************************************)
(* BoardPages over a few results of three endpoints.                       *)
(***************************************************************************)
EXTENDS BoardPages

(***************************************************************************)
(* Three services on two nodes: "site" (critical) and "job" in one         *)
(* project, "blob" has a key of its own or none.  The configurations       *)
(* differ in the projects: none, a project without services, a project     *)
(* that repeats a service, a critical service no project lists, services   *)
(* that name a project which does not list them.                           *)
(***************************************************************************)
Base == [services |-> {"site", "job", "blob"},
         nodes |-> {"n1", "n2"},
         keyOf |-> [site |-> "k1", job |-> "k2", blob |-> "k3"],
         nodeOf |-> [site |-> "n1", job |-> "n1", blob |-> "n2"],
         projectOf |-> [site |-> "p", job |-> "p", blob |-> None],
         critical |-> {"site"},
         projects |-> {"p"},
         serviceIDs |-> [p |-> <<"site", "job">>]]

MCConfigs ==
    { Base,
      [Base EXCEPT !.projects = {},
                   !.projectOf = [s \in Base.services |-> None]],
      [Base EXCEPT !.projects = {"p", "q"},
                   !.serviceIDs = [p |-> <<"site", "job", "job">>, q |-> <<>>]],
      [Base EXCEPT !.projects = {"p", "q"},
                   !.serviceIDs = [p |-> <<"site">>, q |-> <<"job", "blob">>],
                   !.keyOf["blob"] = NoKey],
      [Base EXCEPT !.serviceIDs = [p |-> <<"job", "blob">>],
                   !.critical = {"site", "blob"}],
      [Base EXCEPT !.serviceIDs = [p |-> <<"site">>],
                   !.projectOf["blob"] = "p"] }
=============================================================================
