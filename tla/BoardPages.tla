----------------------------- MODULE BoardPages -----------------------------
(***************************************************************************)
(* StatusRollup and DetailPages against what their results should mean,    *)
(* over every history of Gatus' results under any accepted configuration.  *)
(* Gatus is external: it appends a result to an endpoint it lists, starts  *)
(* or stops listing one, and can be unreachable.  Time passes from one     *)
(* probe to the next and without probes.  The pages are those of a summary *)
(* that was just rebuilt.                                                  *)
(***************************************************************************)
EXTENDS DetailPages

CONSTANTS
    Configs,        \* the configurations statusd may be started with
    Endpoints,      \* the keys of Gatus' endpoints
    MaxResults      \* results Gatus keeps per endpoint

\* Validate has looked up every reference; what is configured is finite, and
\* the key of an endpoint of Gatus is not empty.
ASSUME ConfigsAssumption ==
    /\ NoKey \notin Endpoints
    /\ \A c \in Configs :
          /\ IsFiniteSet(c.services) /\ IsFiniteSet(c.projects) /\ IsFiniteSet(c.nodes)
          /\ c.critical \subseteq c.services
          /\ \A s \in c.services :
                /\ c.nodeOf[s] \in c.nodes
                /\ c.projectOf[s] \in c.projects \cup {None}
          /\ \A p \in c.projects : c.serviceIDs[p] \in Seq(c.services)

\* A page replaces a window or a limit that is not positive.
ASSUME LimitsAssumption ==
    /\ PageWindow \in Nat \ {0} /\ PageLimit \in Nat \ {0} /\ ServiceLimit \in Nat \ {0}
    /\ MaxResults \in Nat \ {0}

VARIABLES config, results, err

gatus == <<config, results, err>>

\* No page tells results apart that are too old for it.
Result == [success : BOOLEAN, age : 0..PageWindow]

Outcomes(r) == [i \in DOMAIN r |-> r[i].success]

\* The endpoints Gatus lists, with the status of their newest result, however
\* old that is.
checks == [k \in DOMAIN results |-> CheckStatus(Outcomes(results[k]))]

board == Rollup(config, checks, err)

GatusInit ==
    /\ config \in Configs
    /\ results = [k \in {} |-> <<>>]
    /\ err = FALSE

\* An endpoint is added to Gatus' configuration, without a result yet.
List(k) ==
    /\ k \notin DOMAIN results
    /\ results' = [j \in DOMAIN results \cup {k} |->
                      IF j = k THEN <<>> ELSE results[j]]
    /\ UNCHANGED <<config, err>>

Unlist(k) ==
    /\ k \in DOMAIN results
    /\ results' = [j \in DOMAIN results \ {k} |-> results[j]]
    /\ UNCHANGED <<config, err>>

Older(r) ==
    [i \in DOMAIN r |->
        [r[i] EXCEPT !.age = IF @ < PageWindow THEN @ + 1 ELSE @]]

\* A probe finished, at a time of its own; Gatus forgets the oldest result
\* beyond MaxResults.
Probe(k, success) ==
    /\ k \in DOMAIN results
    /\ results' =
          [j \in DOMAIN results |->
              LET old == Older(results[j])
                  r == Append(old, [success |-> success, age |-> 0])
              IN  IF j # k THEN old
                  ELSE IF Len(r) > MaxResults THEN Tail(r) ELSE r]
    /\ UNCHANGED <<config, err>>

\* Time passes without a probe: they are rare, slow, or Gatus stands still.
Pause ==
    /\ results' = [j \in DOMAIN results |-> Older(results[j])]
    /\ UNCHANGED <<config, err>>

Outage == err' = ~err /\ UNCHANGED <<config, results>>

GatusNext ==
    \/ \E k \in Endpoints : List(k) \/ Unlist(k)
    \/ \E k \in Endpoints, success \in BOOLEAN : Probe(k, success)
    \/ Pause \/ Outage

GatusSpec == GatusInit /\ [][GatusNext]_gatus

-----------------------------------------------------------------------------

\* The newest probe of s that Gatus can tell us about had this outcome.
LastProbe(s, success) ==
    /\ ~err
    /\ config.keyOf[s] \in DOMAIN results
    /\ LET r == results[config.keyOf[s]]
       IN  r # <<>> /\ r[Len(r)].success = success

(***************************************************************************)
(* The one word at the top of the board, in terms of the probes: "down"    *)
(* exactly when a critical service listed by some project failed its last  *)
(* probe, "ok" exactly when there are projects, all list services and all  *)
(* listed services passed theirs, "unknown" exactly when there is no       *)
(* project.  An unreachable Gatus thus never reads as "ok" or "down".      *)
(***************************************************************************)
OverallMeaning ==
    /\ board.overall = "unknown" <=> config.projects = {}
    /\ board.overall = "down" <=>
          \E p \in config.projects : \E s \in ListedServices(config, p) :
              s \in config.critical /\ LastProbe(s, FALSE)
    /\ board.overall = "ok" <=>
          /\ config.projects # {}
          /\ \A p \in config.projects :
                /\ ListedServices(config, p) # {}
                /\ \A s \in ListedServices(config, p) : LastProbe(s, TRUE)
    /\ board.overall # "maintenance"

(***************************************************************************)
(* The counters add up: every service is in one bucket of counts and on    *)
(* one node, so the nodes' service and down counts sum up to the board's.  *)
(***************************************************************************)
CountsAgree ==
    LET OverNodes(F(_)) == SumFunction([n \in config.nodes |-> F(n)])
        Shown(n) == Cardinality(DOMAIN NodeFamily(config, n))
        DownOn(n) == CountOf(board.services, NodeFamily(config, n), "down")
    IN  /\ SumFunction(board.counts) = Cardinality(config.services)
        /\ OverNodes(Shown) = Cardinality(config.services)
        /\ OverNodes(DownOn) = board.counts["down"]

Rank(v) == CASE v \in {"ok", "maintenance"} -> 0
             [] v \in {"degraded", "unknown"} -> 1
             [] v = "down" -> 2

NoBetter(f, g) == \A x \in DOMAIN f : Rank(f[x]) <= Rank(g[x])

NothingBetter(before, after) ==
    NoBetter(before.services, after.services)
    => /\ NoBetter(before.nodes, after.nodes)
       /\ NoBetter(before.projects, after.projects)
       /\ Rank(before.overall) <= Rank(after.overall)

(***************************************************************************)
(* The rollup is monotone: when no service got better, no node, no project *)
(* and not the board looks better, whichever branch of the aggregation the *)
(* change moves it to.  (The board is a function of Gatus' answer.)        *)
(***************************************************************************)
WorseNeverLooksBetter ==
    [][\/ UNCHANGED <<checks, err>>
       \/ \A before \in {board}, after \in {board'} :
             NothingBetter(before, after)]_gatus

\* The endpoint of s has results that Gatus can tell us about.
Probed(s) == LastProbe(s, TRUE) \/ LastProbe(s, FALSE)

\* The age of the newest of them.
LastAge(s) == LET r == results[config.keyOf[s]] IN r[Len(r)].age

Of(page, s) == {e \in page.results : e.service = s}

\* The pages of projects and nodes that show the results of s.
SharedPages(s) ==
    {NodeChecks(config, results, err, config.nodeOf[s])}
    \cup {ProjectChecks(config, results, err, p) :
             p \in {q \in config.projects : Owns(config, q, s)}}

(***************************************************************************)
(* Three code paths fetch, filter and cut the same results.  A page that   *)
(* is not full shows all results of a service in the window; a full one    *)
(* shows its newest results without a gap.  The service's own page is      *)
(* empty exactly when even the newest result is too old for it: then the   *)
(* board still shows that result's outcome.  The totals add up.            *)
(***************************************************************************)
PagesAgree ==
    \A s \in config.services :
        Probed(s) =>
            LET own == ServiceChecks(config, results, err, s)
                all == Entries(config, results, s)
                Gapless(shown) ==
                    \A e \in shown, f \in all : f.age < e.age => f \in shown
            IN  /\ own.results = {} <=> LastAge(s) = PageWindow
                /\ Gapless(own.results)
                /\ own.summary.total < ServiceLimit => own.results = all
                /\ \A page \in SharedPages(s) :
                      /\ Gapless(Of(page, s))
                      /\ page.summary.total < PageLimit => Of(page, s) = all
                      /\ page.summary.successes + page.summary.failures
                            = Cardinality(page.results)
                      /\ page.endpoints <= Cardinality(config.services)

(***************************************************************************)
(* The board and a project's page judge by different sets of services: the *)
(* board by what the project lists, the page also by the services that     *)
(* name the project.  They part only where configIssues says so; and where *)
(* the newest result of a service is on the page, it failed exactly if the *)
(* service is among the page's failures.                                   *)
(***************************************************************************)
PageMatchesBoard ==
    \A p \in config.projects :
        LET detail == ProjectDetail(config, board.services, p)
            page == ProjectChecks(config, results, err, p)
            Noted(s) == ConfigIssue("warn", "service-project-list", s)
                            \in ConfigIssues(config, DOMAIN checks, err)
        IN  /\ board.projects[p] = "ok" => \A s \in detail.failures : Noted(s)
            /\ board.projects[p] = "down" =>
                  detail.failures \cap config.critical # {}
            /\ detail.failures = {} =>
                  board.projects[p] = "ok" \/ ListedServices(config, p) = {}
            /\ ~err => \A e \in page.results :
                  e.age = LastAge(e.service) =>
                      (e.success <=> e.service \notin detail.failures)
=============================================================================
