------------------------- MODULE DiagnosticsProofs -------------------------
(***************************************************************************)
(* Theorems about Diagnostics for any configuration files, agents, reports *)
(* and limits of the lists, and without a bound on what changes while a    *)
(* digest is built:                                                        *)
(*                                                                         *)
(*   AcceptedNeverDown    Spec => []ValidatedNeverDown                     *)
(*   WindowExplains       Spec => []SilenceExplained                       *)
(*   DiagnosisNeverBetter Spec => []ProjectNeverBetter                     *)
(*   PassesAgree          Spec => []StatesMatchIssues                      *)
(*   ListTellsTheBoard    Spec => []IssuesTellTheBoard                     *)
(*   ImpactsHaveReasons   Spec => []ImpactsAccounted                       *)
(*                                                                         *)
(* IInv has four parts.  ConfigHolds: the configuration that statusd       *)
(* starts with stays and was accepted, so every reference in it leads      *)
(* somewhere, and those are the only errors that configIssues looks for.   *)
(* WorldInv: a node that wrote a log has a row, and Window ties the logs   *)
(* that are kept to how long ago each node wrote its last.  ReadInv: the   *)
(* same of what the digest has read so far; the logs are read after the    *)
(* rows, so nodes in the logs are among the rows unless something changed  *)
(* in between (raced).  AnswerInv: the answer is a cut of the digest's     *)
(* issues and of the impacts of those that were kept.                      *)
(*                                                                         *)
(* The rest is about the digest of any state that satisfies IInv: which    *)
(* condition an issue of a kind stands for (IssueOrigins), that a cut      *)
(* keeps errors before warnings (IssueCut, ErrorsFirst), what the board of *)
(* a project says (ProjectDown, HealthyProject).  The largest number of a  *)
(* finite set, which Max chooses, exists by the least number of elements   *)
(* for which it would not (LeastNatural, FiniteMax).                       *)
(***************************************************************************)
EXTENDS Diagnostics, FunctionTheorems, FiniteSetTheorems, SequenceTheorems,
        WellFoundedInduction, TLAPS

\* Every node, project and service that is referred to exists.
ReferencesHold(c) ==
    /\ \A s \in c.services :
          /\ c.nodeOf[s] \in c.nodes
          /\ c.projectOf[s] \in c.projects \cup {None}
    /\ \A p \in c.projects : ListedServices(c, p) \subseteq c.services

\* What Validate and the types of YAML say of the configuration in force.
ConfigHolds(c) ==
    /\ ReferencesHold(c)
    /\ c.critical \subseteq c.services
    /\ c.nodes # {} /\ c.nodes \subseteq Reporters
    /\ IsFiniteSet(c.services) /\ IsFiniteSet(c.projects) /\ IsFiniteSet(c.nodes)
    /\ \A n : /\ Effective(c.limits, n) \in [Metrics -> Int]
              /\ Effective(c.limits, n)["gpu"] > 0

RowTypes(row) ==
    /\ DOMAIN row = {"stale", "load", "gpu", "collectors", "containers"}
    /\ row.load \in [Metrics \ {"gpu"} -> Int]
    /\ row.gpu.available \in BOOLEAN
    /\ IsFiniteSet(DOMAIN row.gpu.utils)
    /\ \A d \in DOMAIN row.gpu.utils : row.gpu.utils[d] \in Int

Log == [node : Reporters, failed : Nat, late : BOOLEAN]

(***************************************************************************)
(* What `seen` says of a list of logs: of every node, how many logs there  *)
(* are from its last one on, when that one is in the list.                 *)
(***************************************************************************)
Window(list, seen) ==
    /\ list \in Seq(Log) /\ Len(list) <= ReportWindow
    /\ seen \in [Reporters -> Nat]
    /\ \A n \in Reporters :
          IF seen[n] \in 1..ReportWindow
          THEN /\ seen[n] <= Len(list)
               /\ list[Len(list) + 1 - seen[n]].node = n
               /\ \A i \in (Len(list) + 2 - seen[n])..Len(list) : list[i].node # n
          ELSE ReportsOf(list, n) = {}

\* How far back the last log of a node is, if it was not deleted.
Kept(seen, gone) == [n \in Reporters |-> IF n \in gone THEN 0 ELSE seen[n]]

\* Who wrote a log, or is about to write one, has a row.
WorldInv ==
    /\ rows = [n \in DOMAIN rows |-> rows[n]]
    /\ \A n \in DOMAIN rows : RowTypes(rows[n])
    /\ saving \in [Reporters -> Reports \cup {NoReport}]
    /\ logged \in [Reporters -> Nat] /\ Window(logs, Kept(logged, deleted))
    /\ aged \in 0..Len(logs)
    /\ \A i \in DOMAIN logs : logs[i].node \in DOMAIN rows
    /\ \A n \in Reporters : saving[n] # NoReport => n \in DOMAIN rows

ReadInv ==
    /\ pc \in {"gatus", "metrics", "reports", "day", "rollup", "done"}
    /\ DOMAIN read = {"endpoints", "gatusErr", "rows", "rowsErr",
                      "reports", "reportsErr", "logged", "deleted", "day"}
    /\ {raced, read.gatusErr, read.rowsErr, read.reportsErr} \subseteq BOOLEAN
    /\ \A n \in DOMAIN read.rows : RowTypes(read.rows[n])
    /\ read.reports \in Seq(Log)
    /\ pc \in {"gatus", "metrics"} => read.rows = Empty /\ ~read.rowsErr
    /\ pc \in {"gatus", "metrics", "reports"} =>
          read.reports = <<>> /\ ~read.reportsErr
    /\ read.rowsErr => read.rows = Empty
    /\ pc = "reports" /\ ~raced /\ ~read.rowsErr => read.rows = rows
    /\ pc \in {"day", "rollup", "done"} /\ ~read.reportsErr =>
          /\ Window(read.reports, Kept(read.logged, read.deleted))
          /\ ~raced /\ ~read.rowsErr =>
                \A i \in DOMAIN read.reports :
                    read.reports[i].node \in DOMAIN read.rows

\* The answer is one of the possible cuts of what was read.
AnswerInv ==
    Answered => /\ answer.kept \in IssueCuts(issues)
                /\ answer.impacts \in ImpactCuts(config, answer.kept)

IInv == ConfigHolds(config) /\ WorldInv /\ ReadInv /\ AnswerInv

-----------------------------------------------------------------------------

LEMMA NamedEntry ==
    ASSUME NEW list, NEW id \in Range(IDsOf(list))
    PROVE  Named(list, id) \in Range(list) /\ Named(list, id).id = id
<1>1. \E entry \in Range(list) : entry.id = id
    BY DEF Range, IDsOf
<1>. QED BY <1>1 DEF Named

LEMMA AcceptedReferences ==
    ASSUME NEW raw, Validate(raw)
    PROVE  ReferencesHold(Loaded(raw))
<1> DEFINE c == Loaded(raw)
<1>1. /\ c.services = Range(IDsOf(raw.services))
      /\ c.projects = Range(IDsOf(raw.projects))
      /\ c.nodes = Range(raw.nodes)
      /\ \A s \in c.services : c.nodeOf[s] = Named(raw.services, s).node
      /\ \A s \in c.services : c.projectOf[s] = Named(raw.services, s).project
      /\ \A p \in c.projects : c.serviceIDs[p] = Named(raw.projects, p).serviceIDs
    BY DEF Loaded
<1> HIDE DEF c
<1>2. /\ \A s \in Range(raw.services) :
            s.node \in c.nodes /\ s.project \in c.projects \cup {None}
      /\ \A p \in Range(raw.projects) : Range(p.serviceIDs) \subseteq c.services
    BY <1>1 DEF Validate
<1>3. ASSUME NEW s \in c.services
      PROVE  c.nodeOf[s] \in c.nodes /\ c.projectOf[s] \in c.projects \cup {None}
    BY <1>1, <1>2, NamedEntry
<1>4. ASSUME NEW p \in c.projects PROVE ListedServices(c, p) \subseteq c.services
    <2>1. Named(raw.projects, p) \in Range(raw.projects)
        BY <1>1, NamedEntry
    <2>. QED BY <1>1, <1>2, <2>1 DEF ListedServices
<1>. QED BY <1>3, <1>4 DEF ReferencesHold, c

\* Whatever Gatus lists, and whether or not it answers.
LEMMA NoConfigError ==
    ASSUME NEW c, ReferencesHold(c), NEW listed, NEW err
    PROVE  \A i \in ConfigIssues(c, listed, err) : i.severity # "error"
<1>1. ASSUME NEW s \in c.services, NEW i \in ServiceIssues(c, listed, err, s)
      PROVE  i.severity # "error"
    <2>1. ~(c.nodeOf[s] # None /\ c.nodeOf[s] \notin c.nodes)
        BY DEF ReferencesHold
    <2>2. ~(c.projectOf[s] # None /\ c.projectOf[s] \notin c.projects)
        BY DEF ReferencesHold
    <2>3. i \in {ConfigIssue("warn", "service-endpoint", s),
                 ConfigIssue("warn", "service-project-list", s)}
        BY <2>1, <2>2, Zenon DEF ServiceIssues
    <2>. QED BY <2>3 DEF ConfigIssue
<1>2. {q \in c.projects : ~(ListedServices(c, q) \subseteq c.services)} = {}
    BY DEF ReferencesHold
<1>3. ASSUME NEW i \in ConfigIssues(c, listed, err)
      PROVE  \/ \E s \in c.services : i \in ServiceIssues(c, listed, err, s)
             \/ \E k : i = ConfigIssue("info", "gatus-orphan", k)
    <2> DEFINE broken == {q \in c.projects : ~(ListedServices(c, q) \subseteq c.services)}
               ofServices == UNION {ServiceIssues(c, listed, err, s) : s \in c.services}
               ofProjects == {ConfigIssue("error", "project-service", q) : q \in broken}
               ofKeys == {ConfigIssue("info", "gatus-orphan", k) :
                             k \in IF err THEN {} ELSE listed \ Range(c.keyOf)}
    <2>1. ConfigIssues(c, listed, err) = ofServices \cup ofProjects \cup ofKeys
        BY Zenon DEF ConfigIssues
    <2>2. i \notin ofProjects
        BY <1>2
    <2>3. i \in ofServices => \E s \in c.services : i \in ServiceIssues(c, listed, err, s)
        OBVIOUS
    <2>4. i \in ofKeys => \E k : i = ConfigIssue("info", "gatus-orphan", k)
        OBVIOUS
    <2> HIDE DEF broken, ofServices, ofProjects, ofKeys
    <2>. QED BY <2>1, <2>2, <2>3, <2>4
<1>. QED BY <1>1, <1>3 DEF ConfigIssue

LEMMA ImageFinite ==
    ASSUME NEW f, IsFiniteSet(DOMAIN f)
    PROVE  IsFiniteSet(Range(f))
<1> DEFINE g == [x \in DOMAIN f |-> f[x]]
<1>1. g \in Surjection(DOMAIN f, Range(f))
    BY DEF Range, Surjection
<1>. QED BY <1>1, FS_Surjection

LEMMA EffectiveTypes ==
    ASSUME NEW raw \in RawConfigs, Validate(raw), NEW n
    PROVE  /\ Effective(raw.limits, n) \in [Metrics -> Int]
           /\ Effective(raw.limits, n)["gpu"] > 0
<1> DEFINE limits == raw.limits
<1>1. /\ \A m \in DOMAIN limits.own : limits.own[m] \in Int /\ limits.own[m] > 0
      /\ \A x \in DOMAIN limits.nodes : \A m \in DOMAIN limits.nodes[x] :
            limits.nodes[x][m] \in Int /\ limits.nodes[x][m] > 0
    BY RawAssumption DEF Validate, ValidLimits, ValidLimit
<1>2. \A m \in Metrics : DefaultLimit(m) \in Int
    <2>1. ASSUME NEW m \in Metrics PROVE DefaultLimit(m) \in Int
        <3>1. CASE m \in {"cpu", "memory", "gpu"}
            BY <3>1 DEF DefaultLimit, Rates
        <3>2. CASE m = "disk"
            BY <3>2 DEF DefaultLimit, Rates
        <3>3. CASE m \in Rates
            <4>1. m \notin {"cpu", "memory", "gpu"} /\ m # "disk"
                BY <3>3 DEF Rates
            <4>2. DefaultLimit(m) = 0
                BY <3>3, <4>1 DEF DefaultLimit
            <4>. QED BY <4>2
        <3>. QED BY <3>1, <3>2, <3>3 DEF Metrics, Percents
    <2>. QED BY <2>1
<1>3. "gpu" \in Metrics /\ DefaultLimit("gpu") = 90
    BY DEF Metrics, Percents, DefaultLimit, Rates
<1> HIDE DEF limits
<1>4. Effective(limits, n) \in [Metrics -> Int]
    BY <1>1, <1>2 DEF Effective
<1>5. Effective(limits, n)["gpu"] > 0
    BY <1>1, <1>3 DEF Effective
<1>. QED BY <1>4, <1>5 DEF limits

LEMMA AcceptedHolds ==
    ASSUME NEW raw \in RawConfigs, Validate(raw)
    PROVE  ConfigHolds(Loaded(raw))
<1> DEFINE c == Loaded(raw)
<1>1. ReferencesHold(c)
    BY AcceptedReferences
<1>2. /\ c.services = Range(IDsOf(raw.services))
      /\ c.projects = Range(IDsOf(raw.projects))
      /\ c.nodes = Range(raw.nodes)
      /\ c.critical \subseteq c.services
      /\ c.limits = raw.limits
    BY DEF Loaded
<1>3. IsFiniteSet(c.services) /\ IsFiniteSet(c.projects)
    <2>1. /\ DOMAIN IDsOf(raw.services) = DOMAIN raw.services
          /\ DOMAIN IDsOf(raw.projects) = DOMAIN raw.projects
        BY DEF IDsOf
    <2>2. IsFiniteSet(DOMAIN raw.services) /\ IsFiniteSet(DOMAIN raw.projects)
        BY RawAssumption
    <2>. QED BY <1>2, <2>1, <2>2, ImageFinite
<1>4. c.nodes # {} /\ c.nodes \subseteq Reporters /\ IsFiniteSet(c.nodes)
    <2>1. raw.nodes \in Seq(Reporters) /\ raw.nodes # <<>>
        BY RawAssumption DEF Validate
    <2>2. /\ Len(raw.nodes) \in Nat \ {0} /\ DOMAIN raw.nodes = 1..Len(raw.nodes)
          /\ \A i \in 1..Len(raw.nodes) : raw.nodes[i] \in Reporters
        BY <2>1, LenProperties, EmptySeq, ElementOfSeq
    <2>3. 1 \in DOMAIN raw.nodes
        BY <2>2
    <2>4. IsFiniteSet(DOMAIN raw.nodes)
        BY <2>2, FS_Interval
    <2>5. IsFiniteSet(Range(raw.nodes))
        BY <2>4, ImageFinite
    <2>6. Range(raw.nodes) # {} /\ Range(raw.nodes) \subseteq Reporters
        BY <2>2, <2>3 DEF Range
    <2>. QED BY <1>2, <2>5, <2>6
<1> HIDE DEF c
<1>5. \A n : /\ Effective(c.limits, n) \in [Metrics -> Int]
             /\ Effective(c.limits, n)["gpu"] > 0
    BY <1>2, EffectiveTypes
<1>. QED BY <1>1, <1>2, <1>3, <1>4, <1>5 DEF ConfigHolds, c

\* What BoardPages assumes of the configurations that statusd is started with
\* is what Validate makes sure of.
LEMMA AcceptedFitsBoard ==
    ASSUME NEW raw \in RawConfigs, Validate(raw)
    PROVE  LET c == Loaded(raw)
           IN  /\ IsFiniteSet(c.services) /\ IsFiniteSet(c.projects) /\ IsFiniteSet(c.nodes)
               /\ c.critical \subseteq c.services
               /\ \A s \in c.services :
                     /\ c.nodeOf[s] \in c.nodes
                     /\ c.projectOf[s] \in c.projects \cup {None}
               /\ \A p \in c.projects : c.serviceIDs[p] \in Seq(c.services)
<1> DEFINE c == Loaded(raw)
<1>1. ConfigHolds(c)
    BY AcceptedHolds
<1>2. /\ c.projects = Range(IDsOf(raw.projects))
      /\ \A p \in c.projects : c.serviceIDs[p] = Named(raw.projects, p).serviceIDs
    BY DEF Loaded
<1> HIDE DEF c
<1>3. ASSUME NEW p \in c.projects PROVE c.serviceIDs[p] \in Seq(c.services)
    <2> DEFINE ids == c.serviceIDs[p]
    <2>1. ids \in Seq(Range(ids))
        BY <1>2, NamedEntry, RawAssumption
    <2>2. Range(ids) \subseteq c.services
        BY <1>1 DEF ConfigHolds, ReferencesHold, ListedServices
    <2> HIDE DEF ids
    <2>3. /\ Len(ids) \in Nat /\ DOMAIN ids = 1..Len(ids)
          /\ ids = [i \in 1..Len(ids) |-> ids[i]]
        BY <2>1, LenProperties, SeqDef
    <2>4. \A i \in 1..Len(ids) : ids[i] \in c.services
        BY <2>2, <2>3 DEF Range
    <2>5. ids \in Seq(c.services)
        BY <2>3, <2>4, SeqDef
    <2>. QED BY <2>5 DEF ids
<1>. QED BY <1>1, <1>3 DEF ConfigHolds, ReferencesHold, c

LEMMA ConfigStays == [Next]_vars => UNCHANGED config
<1>1. World => UNCHANGED config
    BY DEF World, Forget, Probe, ReportBasic, ReportDetail, GoStale, Week, Transition
<1>2. ReadGatus \/ ReadMetrics \/ ReadReports \/ ReadDay => UNCHANGED config
    BY DEF ReadGatus, ReadMetrics, ReadReports, ReadDay, Reads, world
<1>3. RollUp \/ Respond \/ UNCHANGED vars => UNCHANGED config
    BY DEF RollUp, Respond, vars, world
<1>. QED BY <1>1, <1>2, <1>3 DEF Next

LEMMA ConfigAlwaysHolds == Spec => []ConfigHolds(config)
<1>1. Init => ConfigHolds(config)
    BY AcceptedHolds DEF Init
<1>2. ConfigHolds(config) /\ [Next]_vars => ConfigHolds(config)'
    BY ConfigStays
<1>. QED BY <1>1, <1>2, PTL DEF Spec

\* A process that has started never reports its own configuration as down:
\* what would make it so was refused at the start.
THEOREM AcceptedNeverDown == Spec => []ValidatedNeverDown
<1>1. ConfigHolds(config) => ValidatedNeverDown
    BY NoConfigError DEF ConfigHolds, ValidatedNeverDown, ConfigStatus, configIssues
<1>. QED BY <1>1, ConfigAlwaysHolds, PTL
-----------------------------------------------------------------------------

LEMMA RowOfTypes ==
    ASSUME NEW report \in Reports \cup {FirstReport}
    PROVE  RowTypes(RowOf(report))
BY ReportsAssumption DEF RowTypes, RowOf

LEMMA LogOfTypes ==
    ASSUME NEW n \in Reporters, NEW report \in Reports \cup {FirstReport}
    PROVE  LogOf(n, report) \in Log /\ LogOf(n, report).node = n
BY ReportsAssumption DEF Log, LogOf

\* The log before the first report.
LEMMA EmptyWindow == Window(<<>>, [n \in Reporters |-> 0])
<1>1. <<>> \in Seq(Log) /\ Len(<<>>) = 0 /\ ReportWindow \in Nat
    BY EmptySeq, LimitAssumption
<1>2. \A n : ReportsOf(<<>>, n) = {}
    BY DEF ReportsOf
<1>. QED BY <1>1, <1>2 DEF Window

\* The log of a database in which every configured node has one report.
LEMMA FirstWindow ==
    ASSUME NEW S, S \subseteq Reporters, IsFiniteSet(S),
           NEW order \in Bijection(1..Cardinality(S), S),
           Cardinality(S) <= ReportWindow
    PROVE  LET list == [i \in DOMAIN order |-> LogOf(order[i], FirstReport)]
               age(n) == Cardinality({i \in DOMAIN order :
                             i >= CHOOSE j \in DOMAIN order : order[j] = n})
           IN  /\ Window(list, [n \in Reporters |-> IF n \in S THEN age(n) ELSE 0])
               /\ DOMAIN list = 1..Cardinality(S)
               /\ \A i \in DOMAIN list : list[i].node \in S
<1> DEFINE K == Cardinality(S)
           at(n) == CHOOSE j \in DOMAIN order : order[j] = n
           age(n) == Cardinality({i \in DOMAIN order : i >= at(n)})
           list == [i \in DOMAIN order |-> LogOf(order[i], FirstReport)]
           seen == [n \in Reporters |-> IF n \in S THEN age(n) ELSE 0]
<1>1. /\ K \in Nat /\ order \in [1..K -> S] /\ DOMAIN order = 1..K
      /\ \A n \in S : \E j \in 1..K : order[j] = n
      /\ \A i, j \in 1..K : order[i] = order[j] => i = j
    BY FS_CardinalityType DEF Bijection, Injection, Surjection, IsInjective
<1>2. list \in Seq(Log) /\ Len(list) = K /\ DOMAIN list = 1..K
    <2>1. \A i \in 1..K : LogOf(order[i], FirstReport) \in Log
        BY <1>1, LogOfTypes
    <2>2. list = [i \in 1..K |-> LogOf(order[i], FirstReport)]
        BY <1>1
    <2> HIDE DEF K, list
    <2>. QED BY <1>1, <2>1, <2>2
<1>3. \A i \in 1..K : list[i].node = order[i] /\ order[i] \in S
    BY <1>1, LogOfTypes
<1>4. \A n \in S : at(n) \in 1..K /\ order[at(n)] = n
    BY <1>1
<1>5. \A n \in S : age(n) = K + 1 - at(n)
    <2> TAKE n \in S
    <2>1. at(n) \in 1..K
        BY <1>4
    <2> HIDE DEF at
    <2>2. {i \in DOMAIN order : i >= at(n)} = at(n)..K
        BY <1>1, <2>1
    <2>3. Cardinality(at(n)..K) = K + 1 - at(n)
        BY <1>1, <2>1, FS_Interval
    <2>. QED BY <2>2, <2>3
<1> HIDE DEF K, at, age, list, seen
<1>6. \A n \in Reporters : seen[n] = IF n \in S THEN K + 1 - at(n) ELSE 0
    BY <1>5 DEF seen
<1>7. seen \in [Reporters -> Nat]
    <2>1. \A n \in S : K + 1 - at(n) \in Nat
        BY <1>1, <1>4
    <2>. QED BY <1>5, <2>1 DEF seen
<1>8. ASSUME NEW n \in Reporters, n \in S
      PROVE  /\ seen[n] \in 1..ReportWindow /\ seen[n] <= K
             /\ list[K + 1 - seen[n]].node = n
             /\ \A i \in (K + 2 - seen[n])..K : list[i].node # n
    <2>1. seen[n] = K + 1 - at(n) /\ at(n) \in 1..K
        BY <1>4, <1>6, <1>8
    <2>2. K + 1 - seen[n] = at(n) /\ K + 2 - seen[n] = at(n) + 1
        BY <1>1, <2>1
    <2>3. list[at(n)].node = n
        BY <1>3, <1>4, <1>8
    <2>4. \A i \in (at(n) + 1)..K : list[i].node # n
        BY <1>1, <1>3, <1>4, <1>8, <2>1
    <2>5. seen[n] \in 1..ReportWindow /\ seen[n] <= K
        BY <1>1, <2>1, LimitAssumption DEF K
    <2>. QED BY <2>2, <2>3, <2>4, <2>5
<1>9. ASSUME NEW n \in Reporters, n \notin S
      PROVE  seen[n] = 0 /\ ReportsOf(list, n) = {}
    BY <1>2, <1>3, <1>6, <1>9 DEF ReportsOf
<1>10. Window(list, seen)
    <2>1. Len(list) <= ReportWindow
        BY <1>2 DEF K
    <2>2. ASSUME NEW n \in Reporters
          PROVE  IF seen[n] \in 1..ReportWindow
                 THEN /\ seen[n] <= Len(list)
                      /\ list[Len(list) + 1 - seen[n]].node = n
                      /\ \A i \in (Len(list) + 2 - seen[n])..Len(list) :
                            list[i].node # n
                 ELSE ReportsOf(list, n) = {}
        <3>1. CASE n \in S
            BY <1>2, <1>8, <3>1
        <3>2. CASE n \notin S
            BY <1>9, <3>2, LimitAssumption
        <3>. QED BY <3>1, <3>2
    <2>. QED BY <1>2, <1>7, <2>1, <2>2 DEF Window
<1>. QED BY <1>2, <1>3, <1>10 DEF list, seen, age, at, K

\* The oldest logs go.
LEMMA LaterWindow ==
    ASSUME NEW list, NEW seen, Window(list, seen), NEW k \in 0..Len(list)
    PROVE  LET later == SubSeq(list, k + 1, Len(list))
           IN  /\ Window(later, [x \in Reporters |->
                                  IF k > 0 /\ seen[x] > Len(list) - k
                                  THEN 0 ELSE seen[x]])
               /\ \A i \in DOMAIN later : \E j \in DOMAIN list : later[i] = list[j]
<1> DEFINE L == Len(list)
           W == ReportWindow
           later == SubSeq(list, k + 1, L)
           next == [x \in Reporters |-> IF k > 0 /\ seen[x] > L - k THEN 0 ELSE seen[x]]
<1>1. /\ list \in Seq(Log) /\ L \in Nat /\ DOMAIN list = 1..L /\ L <= W
      /\ W \in Nat \ {0} /\ seen \in [Reporters -> Nat]
    BY LenProperties, LimitAssumption DEF Window
<1>2. /\ later \in Seq(Log) /\ Len(later) = L - k /\ DOMAIN later = 1..(L - k)
      /\ \A i \in 1..(L - k) : later[i] = list[i + k] /\ i + k \in 1..L
    <2>1. k \in Nat /\ k <= L
        BY <1>1
    <2> HIDE DEF L, W, later
    <2>2. \A i \in (k + 1)..L : list[i] \in Log
        BY <1>1, <2>1, ElementOfSeq
    <2>3. later = [i \in 1..(L - k) |-> list[i + k]]
        BY <1>1, <2>1 DEF later, L
    <2>4. \A i \in 1..(L - k) : i + k \in (k + 1)..L /\ i + k \in 1..L
        BY <1>1, <2>1
    <2>5. \A i \in 1..(L - k) : list[i + k] \in Log
        BY <2>2, <2>4
    <2>6. L - k \in Nat
        BY <1>1, <2>1
    <2>. QED BY <2>3, <2>4, <2>5, <2>6
<1> HIDE DEF L, W, later
<1>3. /\ next \in [Reporters -> Nat]
      /\ \A x \in Reporters : next[x] = IF k > 0 /\ seen[x] > L - k THEN 0 ELSE seen[x]
    BY <1>1
<1> HIDE DEF next
<1>4. ASSUME NEW x \in Reporters
      PROVE  IF next[x] \in 1..W
             THEN /\ next[x] <= Len(later)
                  /\ later[Len(later) + 1 - next[x]].node = x
                  /\ \A i \in (Len(later) + 2 - next[x])..Len(later) : later[i].node # x
             ELSE ReportsOf(later, x) = {}
    <2>1. CASE seen[x] \notin 1..W
        <3>1. next[x] \notin 1..W
            BY <1>1, <1>3, <2>1
        <3>2. ReportsOf(list, x) = {}
            BY <2>1 DEF Window, W
        <3>3. \A i \in 1..L : list[i].node # x
            BY <1>1, <3>2 DEF ReportsOf
        <3>4. ReportsOf(later, x) = {}
            BY <1>2, <3>3 DEF ReportsOf
        <3>. QED BY <3>1, <3>4
    <2>2. CASE seen[x] \in 1..W
        <3>1. PICK s \in 1..L :
                /\ seen[x] = s /\ s <= W
                /\ list[L + 1 - s].node = x
                /\ \A i \in (L + 2 - s)..L : list[i].node # x
            <4>1. seen[x] \in 1..L /\ seen[x] <= W
                BY <1>1, <2>2 DEF Window, L, W
            <4>2. /\ list[L + 1 - seen[x]].node = x
                  /\ \A i \in (L + 2 - seen[x])..L : list[i].node # x
                BY <2>2 DEF Window, L, W
            <4>. QED BY <4>1, <4>2
        <3>2. k \in Nat /\ k <= L
            BY <1>1 DEF L
        <3>3. CASE k > 0 /\ s > L - k
            <4>1. \A i \in 1..(L - k) : i + k \in (L + 2 - s)..L
                BY <1>1, <3>2, <3>3
            <4>2. ReportsOf(later, x) = {}
                BY <1>2, <3>1, <4>1 DEF ReportsOf
            <4>3. next[x] = 0
                BY <1>3, <3>1, <3>3
            <4>. QED BY <4>2, <4>3
        <3>4. CASE ~(k > 0 /\ s > L - k)
            <4>1. next[x] = s /\ s <= L - k /\ s \in 1..W
                BY <1>1, <1>3, <3>1, <3>2, <3>4
            <4>2. L - k + 1 - s \in 1..(L - k) /\ L - k + 1 - s + k = L + 1 - s
                BY <1>1, <3>2, <4>1
            <4>3. later[L - k + 1 - s].node = x
                BY <1>2, <3>1, <4>2
            <4>4. ASSUME NEW i \in (L - k + 2 - s)..(L - k)
                  PROVE  later[i].node # x
                <5>1. i \in 1..(L - k) /\ i + k \in (L + 2 - s)..L
                    BY <1>1, <3>2, <4>1
                <5>. QED BY <1>2, <3>1, <5>1
            <4>. QED BY <1>2, <4>1, <4>3, <4>4
        <3>. QED BY <3>3, <3>4
    <2>. QED BY <2>1, <2>2
<1>5. Window(later, next)
    <2>1. Len(later) <= W
        BY <1>1, <1>2 DEF L
    <2>. QED BY <1>2, <1>3, <1>4, <2>1 DEF Window, W
<1>6. \A i \in DOMAIN later : \E j \in DOMAIN list : later[i] = list[j]
    BY <1>1, <1>2
<1>. QED BY <1>5, <1>6 DEF later, next, L

\* One more log, and the oldest one goes when the window is full.
LEMMA NextWindow ==
    ASSUME NEW list, NEW seen, Window(list, seen),
           NEW n \in Reporters, NEW report \in Reports
    PROVE  LET all == Append(list, LogOf(n, report))
               new == IF Len(all) > ReportWindow THEN Tail(all) ELSE all
           IN
           /\ Window(new,
                     [x \in Reporters |-> IF x = n THEN 1
                                          ELSE IF seen[x] \in 1..ReportWindow
                                          THEN seen[x] + 1 ELSE seen[x]])
           /\ \A i \in DOMAIN new : new[i].node = n \/ \E j \in DOMAIN list : new[i] = list[j]
<1> DEFINE l == LogOf(n, report)
           L == Len(list)
           all == Append(list, l)
           new == IF Len(all) > ReportWindow THEN Tail(all) ELSE all
           W == ReportWindow
           next == [x \in Reporters |-> IF x = n THEN 1
                                        ELSE IF seen[x] \in 1..W
                                        THEN seen[x] + 1 ELSE seen[x]]
<1>1. /\ list \in Seq(Log) /\ L \in Nat /\ DOMAIN list = 1..L /\ L <= W
      /\ W \in Nat \ {0} /\ seen \in [Reporters -> Nat]
    BY LenProperties, LimitAssumption DEF Window
<1>2. l \in Log /\ l.node = n
    BY LogOfTypes
<1>3. /\ all \in Seq(Log) /\ Len(all) = L + 1 /\ all[L + 1] = l
      /\ \A i \in 1..L : all[i] = list[i]
    BY <1>1, <1>2, AppendProperties
<1>4. new = IF L + 1 > W THEN Tail(all) ELSE all
    BY <1>3
<1> HIDE DEF l, L, all, new, W
<1>5. PICK off \in 0..1 :
        /\ off = 0 => L < W
        /\ off = 1 => L = W
        /\ new \in Seq(Log) /\ Len(new) = L + 1 - off
        /\ \A i \in 1..(L + 1 - off) : new[i] = all[i + off]
    <2>1. CASE L + 1 > W
        <3>1. all # <<>>
            BY <1>1, <1>3, EmptySeq
        <3>2. /\ Tail(all) \in Seq(Log) /\ Len(Tail(all)) = Len(all) - 1
              /\ \A i \in 1..Len(Tail(all)) : Tail(all)[i] = all[i + 1]
            BY <1>3, <3>1, HeadTailProperties
        <3>3. L = W /\ L + 1 - 1 = Len(all) - 1
            BY <1>1, <1>3, <2>1
        <3>4. /\ new \in Seq(Log) /\ Len(new) = L + 1 - 1
              /\ \A i \in 1..(L + 1 - 1) : new[i] = all[i + 1]
            BY <1>4, <2>1, <3>2, <3>3
        <3>. QED BY <3>3, <3>4
    <2>2. CASE ~(L + 1 > W)
        <3>1. /\ L < W /\ new \in Seq(Log) /\ Len(new) = L + 1 - 0
              /\ \A i \in 1..(L + 1 - 0) : new[i] = all[i + 0]
            BY <1>1, <1>3, <1>4, <2>2
        <3>. QED BY <3>1
    <2>. QED BY <2>1, <2>2
<1>6. DOMAIN new = 1..(L + 1 - off)
    BY <1>5, LenProperties
<1>7. \A i \in 1..(L + 1 - off) :
        \/ i + off = L + 1 /\ new[i] = l
        \/ i + off \in 1..L /\ new[i] = list[i + off]
    BY <1>1, <1>3, <1>5
<1>8. /\ next \in [Reporters -> Nat]
      /\ \A x \in Reporters : next[x] = IF x = n THEN 1
                                        ELSE IF seen[x] \in 1..W
                                        THEN seen[x] + 1 ELSE seen[x]
    BY <1>1
<1> HIDE DEF next
<1>9. ASSUME NEW x \in Reporters
      PROVE  IF next[x] \in 1..W
             THEN /\ next[x] <= Len(new)
                  /\ new[Len(new) + 1 - next[x]].node = x
                  /\ \A i \in (Len(new) + 2 - next[x])..Len(new) : new[i].node # x
             ELSE ReportsOf(new, x) = {}
    <2>1. CASE x = n
        <3>1. next[x] = 1 /\ 1 \in 1..W
            BY <1>1, <1>8, <2>1
        <3>2. L + 1 - off \in 1..(L + 1 - off) /\ L + 1 - off + off = L + 1
            BY <1>1, <1>5
        <3>3. new[L + 1 - off] = l
            BY <1>1, <1>7, <3>2
        <3>4. Len(new) + 1 - 1 = Len(new) /\ 1 <= Len(new)
            BY <1>1, <1>5
        <3>5. (Len(new) + 2 - 1)..Len(new) = {}
            BY <1>1, <1>5
        <3>. QED BY <1>2, <1>5, <2>1, <3>1, <3>3, <3>4, <3>5
    <2>2. CASE x # n /\ seen[x] \in 1..W
        <3>1. PICK s \in 1..L :
                /\ next[x] = s + 1 /\ s <= W
                /\ list[L + 1 - s].node = x
                /\ \A i \in (L + 2 - s)..L : list[i].node # x
            <4>1. seen[x] \in 1..L
                BY <1>1, <2>2 DEF Window, L, W
            <4>2. next[x] = seen[x] + 1 /\ seen[x] <= W
                BY <1>1, <1>8, <2>2
            <4>3. /\ list[L + 1 - seen[x]].node = x
                  /\ \A i \in (L + 2 - seen[x])..L : list[i].node # x
                BY <2>2 DEF Window, L, W
            <4>. QED BY <4>1, <4>2, <4>3
        <3>2. ASSUME NEW i \in 1..(L + 1 - off), i + off >= L + 2 - s
              PROVE  new[i].node # x
            <4>1. CASE new[i] = l
                BY <1>2, <2>2, <4>1
            <4>2. CASE i + off \in 1..L /\ new[i] = list[i + off]
                <5>1. i + off \in (L + 2 - s)..L
                    BY <1>1, <3>2, <4>2
                <5>. QED BY <3>1, <4>2, <5>1
            <4>. QED BY <1>7, <4>1, <4>2
        <3>3. CASE s + 1 <= W
            <4>1. s + 1 <= L + 1 - off
                BY <1>1, <1>5, <3>3
            <4>2. /\ L + 1 - off + 1 - (s + 1) = L + 1 - off - s
                  /\ L + 1 - off - s \in 1..(L + 1 - off)
                  /\ L + 1 - off - s + off = L + 1 - s
                  /\ L + 1 - s # L + 1
                BY <1>1, <1>5, <4>1
            <4>3. new[L + 1 - off - s].node = x
                BY <1>7, <3>1, <4>2
            <4>4. ASSUME NEW i \in (L + 1 - off + 2 - (s + 1))..(L + 1 - off)
                  PROVE  new[i].node # x
                <5>1. i \in 1..(L + 1 - off) /\ i + off >= L + 2 - s
                    BY <1>1, <1>5, <4>1
                <5>. QED BY <3>2, <5>1
            <4>5. s + 1 \in 1..W /\ Len(new) = L + 1 - off
                BY <1>1, <1>5, <3>3
            <4>. QED BY <3>1, <4>1, <4>2, <4>3, <4>4, <4>5
        <3>4. CASE ~(s + 1 <= W)
            <4>1. off = 1 /\ s = L /\ s + 1 \notin 1..W
                BY <1>1, <1>5, <3>1, <3>4
            <4>2. \A i \in 1..(L + 1 - off) : i + off >= L + 2 - s
                BY <1>1, <4>1
            <4>3. ReportsOf(new, x) = {}
                BY <1>6, <3>2, <4>2 DEF ReportsOf
            <4>. QED BY <3>1, <4>1, <4>3
        <3>. QED BY <3>3, <3>4
    <2>3. CASE x # n /\ seen[x] \notin 1..W
        <3>1. next[x] = seen[x] /\ ReportsOf(list, x) = {}
            BY <1>8, <2>3 DEF Window, W
        <3>2. \A i \in 1..L : list[i].node # x
            BY <1>1, <3>1 DEF ReportsOf
        <3>3. \A i \in 1..(L + 1 - off) : new[i].node # x
            BY <1>2, <1>7, <2>3, <3>2
        <3>4. ReportsOf(new, x) = {}
            BY <1>6, <3>3 DEF ReportsOf
        <3>. QED BY <2>3, <3>1, <3>4
    <2>. QED BY <2>1, <2>2, <2>3
<1>10. Window(new, next)
    <2>1. Len(new) <= W
        BY <1>1, <1>5
    <2>. QED BY <1>5, <1>8, <1>9, <2>1 DEF Window, W
<1>11. \A i \in DOMAIN new : new[i].node = n \/ \E j \in DOMAIN list : new[i] = list[j]
    BY <1>1, <1>2, <1>6, <1>7
<1>. QED BY <1>10, <1>11 DEF new, all, l, W, next

-----------------------------------------------------------------------------

LEMMA WorldInit == Init => WorldInv
<1>. SUFFICES ASSUME Init PROVE WorldInv
    OBVIOUS
<1>0. aged = 0 /\ deleted = {}
    BY DEF Init
<1>1. saving = [n \in Reporters |-> NoReport]
    BY DEF Init
<1>2. CASE rows = Empty /\ logs = <<>> /\ logged = [n \in Reporters |-> 0]
    <2>1. DOMAIN rows = {} /\ rows = [n \in DOMAIN rows |-> rows[n]]
        BY <1>2 DEF Empty
    <2>2. DOMAIN logs = {}
        BY <1>2
    <2>3. Kept(logged, deleted) = logged /\ logged \in [Reporters -> Nat]
        BY <1>0, <1>2 DEF Kept
    <2>4. aged \in 0..Len(logs)
        BY <1>0, <1>2
    <2>. QED BY <1>1, <1>2, <2>1, <2>2, <2>3, <2>4, EmptyWindow DEF WorldInv
<1>3. CASE \E order \in Bijection(1..Cardinality(config.nodes), config.nodes) :
             LET age(n) == Cardinality({i \in DOMAIN order :
                               i >= CHOOSE j \in DOMAIN order : order[j] = n})
             IN  /\ rows = [n \in config.nodes |-> RowOf(FirstReport)]
                 /\ logs = [i \in DOMAIN order |-> LogOf(order[i], FirstReport)]
                 /\ Len(logs) <= ReportWindow
                 /\ logged = [n \in Reporters |->
                                 IF n \in config.nodes THEN age(n) ELSE 0]
    <2> DEFINE K == Cardinality(config.nodes)
    <2>1. PICK order \in Bijection(1..K, config.nodes) :
             LET age(n) == Cardinality({i \in DOMAIN order :
                               i >= CHOOSE j \in DOMAIN order : order[j] = n})
             IN  /\ rows = [n \in config.nodes |-> RowOf(FirstReport)]
                 /\ logs = [i \in DOMAIN order |-> LogOf(order[i], FirstReport)]
                 /\ Len(logs) <= ReportWindow
                 /\ logged = [n \in Reporters |->
                                 IF n \in config.nodes THEN age(n) ELSE 0]
        BY <1>3, Zenon
    <2>2. ConfigHolds(config)
        BY AcceptedHolds DEF Init
    <2>3. config.nodes \subseteq Reporters /\ IsFiniteSet(config.nodes)
        BY <2>2 DEF ConfigHolds
    <2>4. K \in Nat /\ order \in [1..K -> config.nodes] /\ DOMAIN order = 1..K
        BY <2>3, FS_CardinalityType DEF Bijection, Injection
    <2>5. Len(logs) = K
        BY <2>1, <2>4
    <2>6. K <= ReportWindow
        BY <2>1, <2>5
    <2>7. /\ Window(logs, logged) /\ DOMAIN logs = 1..K
          /\ \A i \in DOMAIN logs : logs[i].node \in config.nodes
        BY <2>1, <2>3, <2>6, FirstWindow
    <2>8. /\ DOMAIN rows = config.nodes /\ rows = [n \in DOMAIN rows |-> rows[n]]
          /\ \A n \in DOMAIN rows : rows[n] = RowOf(FirstReport)
        BY <2>1
    <2>9. \A n \in DOMAIN rows : RowTypes(rows[n])
        BY <2>8, RowOfTypes
    <2>10. logged \in [Reporters -> Nat] /\ Kept(logged, deleted) = logged
        <3>1. logged \in [Reporters -> Nat]
            BY <2>7 DEF Window
        <3>. QED BY <1>0, <3>1 DEF Kept
    <2>11. aged \in 0..Len(logs)
        BY <1>0, <2>4, <2>5
    <2>. QED BY <1>1, <2>7, <2>8, <2>9, <2>10, <2>11 DEF WorldInv
<1>. QED BY <1>2, <1>3 DEF Init

\* A row without details, or an old one, with the basic columns of a report.
LEMMA BasicRow ==
    ASSUME NEW old, RowTypes(old) \/ old = NoDetail,
           NEW report \in Reports, NEW new,
           new = [stale      |-> FALSE,
                  load       |-> [m \in DOMAIN old.load |->
                                     IF m \in Basic THEN report.load[m]
                                     ELSE old.load[m]],
                  gpu        |-> old.gpu,
                  collectors |-> old.collectors,
                  containers |-> old.containers]
    PROVE  RowTypes(new)
<1>1. report.load \in [Metrics \ {"gpu"} -> Int]
    BY ReportsAssumption
<1>2. /\ old.load \in [Metrics \ {"gpu"} -> Int]
      /\ old.gpu.available \in BOOLEAN
      /\ IsFiniteSet(DOMAIN old.gpu.utils)
      /\ \A d \in DOMAIN old.gpu.utils : old.gpu.utils[d] \in Int
    <2>1. CASE RowTypes(old)
        BY <2>1 DEF RowTypes
    <2>2. CASE old = NoDetail
        <3>1. /\ old.load = [m \in Metrics \ {"gpu"} |-> 0]
              /\ old.gpu.available = FALSE /\ DOMAIN old.gpu.utils = {}
            BY <2>2 DEF NoDetail, Empty
        <3>2. old.load \in [Metrics \ {"gpu"} -> Int]
            BY <3>1
        <3>3. IsFiniteSet(DOMAIN old.gpu.utils)
            BY <3>1, FS_EmptySet
        <3>. QED BY <3>1, <3>2, <3>3
    <2>. QED BY <2>1, <2>2
<1>3. new.load \in [Metrics \ {"gpu"} -> Int]
    BY <1>1, <1>2
<1>. QED BY <1>2, <1>3 DEF RowTypes

LEMMA WorldBasic ==
    ASSUME WorldInv, NEW n \in Reporters, NEW report \in Reports, NEW v2 \in BOOLEAN,
           ReportBasic(n, report, v2)
    PROVE  WorldInv'
<1> DEFINE old == IF n \in DOMAIN rows THEN rows[n] ELSE NoDetail
           new == [stale      |-> FALSE,
                   load       |-> [m \in DOMAIN old.load |->
                                      IF m \in Basic THEN report.load[m]
                                      ELSE old.load[m]],
                   gpu        |-> old.gpu,
                   collectors |-> old.collectors,
                   containers |-> old.containers]
<1>1. /\ rows' = [x \in DOMAIN rows \cup {n} |-> IF x = n THEN new ELSE rows[x]]
      /\ saving' = [saving EXCEPT ![n] = IF v2 THEN report ELSE NoReport]
      /\ UNCHANGED <<logs, aged, logged, deleted>>
    BY DEF ReportBasic
<1>2. RowTypes(new)
    <2>1. RowTypes(old) \/ old = NoDetail
        BY DEF WorldInv
    <2> HIDE DEF old
    <2>. QED BY <2>1, BasicRow
<1> HIDE DEF new, old
<1>3. /\ DOMAIN rows' = DOMAIN rows \cup {n}
      /\ rows' = [x \in DOMAIN rows' |-> rows'[x]]
      /\ \A x \in DOMAIN rows' : \/ rows'[x] = new
                                 \/ x \in DOMAIN rows /\ rows'[x] = rows[x]
    BY <1>1
<1>4. \A x \in DOMAIN rows' : RowTypes(rows'[x])
    BY <1>2, <1>3 DEF WorldInv
<1>5. saving' \in [Reporters -> Reports \cup {NoReport}]
    BY <1>1 DEF WorldInv
<1>6. \A x \in Reporters : saving'[x] # NoReport => x \in DOMAIN rows'
    BY <1>1, <1>3 DEF WorldInv
<1>7. /\ (logged \in [Reporters -> Nat] /\ Window(logs, Kept(logged, deleted)))'
      /\ aged' \in 0..Len(logs')
      /\ \A i \in DOMAIN logs' : logs'[i].node \in DOMAIN rows'
    BY <1>1, <1>3 DEF WorldInv, Window, Kept
<1>. QED BY <1>3, <1>4, <1>5, <1>6, <1>7 DEF WorldInv

LEMMA WorldDetail ==
    ASSUME WorldInv, NEW n \in Reporters, ReportDetail(n)
    PROVE  WorldInv'
<1>1. /\ saving[n] \in Reports /\ n \in DOMAIN rows
      /\ saving' = [saving EXCEPT ![n] = NoReport]
    BY DEF ReportDetail, WorldInv
<1>2. /\ saving' \in [Reporters -> Reports \cup {NoReport}]
      /\ \A x \in Reporters : saving'[x] # NoReport => x \in DOMAIN rows
    BY <1>1 DEF WorldInv
<1>3. CASE UNCHANGED <<rows, logs, aged, logged, deleted>>
    BY <1>2, <1>3 DEF WorldInv, Window, Kept
<1>4. CASE /\ rows' = [rows EXCEPT ![n] = RowOf(saving[n])]
           /\ logs' = Logged(logs, aged, n, saving[n])
           /\ aged' = 0
           /\ logged' = [x \in Reporters |->
                           IF x = n THEN 1
                           ELSE IF logged[x] \in 1..ReportWindow
                           THEN logged[x] + 1 ELSE logged[x]]
           /\ deleted' = (deleted \cup LastAmong(aged)) \ {n}
    <2> DEFINE seen == Kept(logged, deleted)
               later == SubSeq(logs, aged + 1, Len(logs))
               left == [x \in Reporters |->
                          IF aged > 0 /\ seen[x] > Len(logs) - aged THEN 0 ELSE seen[x]]
               next == [x \in Reporters |-> IF x = n THEN 1
                                            ELSE IF left[x] \in 1..ReportWindow
                                            THEN left[x] + 1 ELSE left[x]]
    <2>1. /\ DOMAIN rows' = DOMAIN rows
          /\ rows' = [x \in DOMAIN rows' |-> rows'[x]]
          /\ \A x \in DOMAIN rows' : \/ rows'[x] = RowOf(saving[n])
                                     \/ rows'[x] = rows[x]
        BY <1>4
    <2>2. \A x \in DOMAIN rows' : RowTypes(rows'[x])
        BY <1>1, <2>1, RowOfTypes DEF WorldInv
    <2>3. /\ Window(logs, seen) /\ aged \in 0..Len(logs)
          /\ logged \in [Reporters -> Nat] /\ Len(logs) \in Nat
          /\ \A x \in Reporters : seen[x] = IF x \in deleted THEN 0 ELSE logged[x]
        BY LenProperties DEF WorldInv, Window, Kept
    <2> HIDE DEF seen
    <2>4. Window(later, left) /\ \A i \in DOMAIN later : \E j \in DOMAIN logs : later[i] = logs[j]
        BY <2>3, LaterWindow
    <2>5. \A x \in Reporters :
            left[x] = IF x \in deleted \/ x \in LastAmong(aged) THEN 0 ELSE logged[x]
        <3> TAKE x \in Reporters
        <3>1. left[x] = IF aged > 0 /\ seen[x] > Len(logs) - aged THEN 0 ELSE seen[x]
            OBVIOUS
        <3>2. x \in LastAmong(aged) <=> aged > 0 /\ logged[x] > Len(logs) - aged
            BY DEF LastAmong
        <3>. QED BY <2>3, <3>1, <3>2
    <2> HIDE DEF later, left
    <2>6. /\ Window(logs', next)
          /\ \A i \in DOMAIN logs' : \/ logs'[i].node = n
                                     \/ \E j \in DOMAIN later : logs'[i] = later[j]
        <3>1. logs' = LET all == Append(later, LogOf(n, saving[n]))
                      IN  IF Len(all) > ReportWindow THEN Tail(all) ELSE all
            BY <1>4 DEF Logged, later
        <3>. QED BY <1>1, <2>4, <3>1, NextWindow
    <2>7. logged' \in [Reporters -> Nat]
        BY <1>4, <2>3
    <2>8. next = Kept(logged', deleted')
        <3>1. ASSUME NEW x \in Reporters
              PROVE  next[x] = IF x \in deleted' THEN 0 ELSE logged'[x]
            <4>1. next[x] = IF x = n THEN 1
                            ELSE IF left[x] \in 1..ReportWindow THEN left[x] + 1 ELSE left[x]
                OBVIOUS
            <4>2. logged'[x] = IF x = n THEN 1
                               ELSE IF logged[x] \in 1..ReportWindow
                               THEN logged[x] + 1 ELSE logged[x]
                BY <1>4
            <4>3. x \in deleted' <=> x # n /\ (x \in deleted \/ x \in LastAmong(aged))
                BY <1>4
            <4> HIDE DEF next
            <4>4. 0 \notin 1..ReportWindow
                BY LimitAssumption
            <4>. QED BY <2>5, <4>1, <4>2, <4>3, <4>4
        <3> DEFINE kept(x) == IF x \in deleted' THEN 0 ELSE logged'[x]
        <3>2. \A x \in Reporters : next[x] = kept(x)
            BY <3>1
        <3>3. next = [x \in Reporters |-> kept(x)]
            <4> DEFINE value(x) == IF x = n THEN 1
                                   ELSE IF left[x] \in 1..ReportWindow
                                   THEN left[x] + 1 ELSE left[x]
            <4>1. next = [x \in Reporters |-> value(x)]
                OBVIOUS
            <4> HIDE DEF value, kept, next
            <4>. QED BY <3>2, <4>1
        <3>. QED BY <3>3 DEF Kept
    <2> HIDE DEF next
    <2>9. \A i \in DOMAIN logs' : logs'[i].node \in DOMAIN rows'
        <3>1. \A j \in DOMAIN logs : logs[j].node \in DOMAIN rows
            BY DEF WorldInv
        <3>. QED BY <1>1, <2>1, <2>4, <2>6, <3>1
    <2>10. Window(logs, Kept(logged, deleted))'
        BY <2>6, <2>8 DEF Window, Kept
    <2>11. aged' \in 0..Len(logs')
        <3>1. Len(logs') \in Nat
            BY <2>6, LenProperties DEF Window
        <3>. QED BY <1>4, <3>1
    <2>. QED BY <1>2, <2>1, <2>2, <2>7, <2>9, <2>10, <2>11 DEF WorldInv
<1>. QED BY <1>3, <1>4 DEF ReportDetail

LEMMA WorldStale ==
    ASSUME WorldInv, NEW n \in Reporters, GoStale(n)
    PROVE  WorldInv'
<1>1. /\ n \in DOMAIN rows /\ rows' = [rows EXCEPT ![n].stale = TRUE]
      /\ UNCHANGED <<logs, aged, logged, deleted, saving>>
    BY DEF GoStale
<1>2. RowTypes(rows[n])
    BY <1>1 DEF WorldInv
<1>3. RowTypes([rows[n] EXCEPT !.stale = TRUE])
    BY <1>2 DEF RowTypes
<1>4. /\ DOMAIN rows' = DOMAIN rows
      /\ rows' = [x \in DOMAIN rows' |-> rows'[x]]
      /\ \A x \in DOMAIN rows' : \/ rows'[x] = [rows[n] EXCEPT !.stale = TRUE]
                                 \/ rows'[x] = rows[x]
    BY <1>1
<1>5. \A x \in DOMAIN rows' : RowTypes(rows'[x])
    BY <1>3, <1>4 DEF WorldInv
<1>. QED BY <1>1, <1>4, <1>5 DEF WorldInv, Window, Kept

LEMMA WorldWeek ==
    ASSUME WorldInv, NEW k \in 1..Len(logs), Week(k)
    PROVE  WorldInv'
<1>1. /\ rows' = [n \in DOMAIN rows |->
                    IF n \in LastAmong(k) THEN [rows[n] EXCEPT !.stale = TRUE]
                    ELSE rows[n]]
      /\ aged' = k /\ UNCHANGED <<logs, logged, deleted, saving>>
    BY DEF Week
<1>2. \A n \in DOMAIN rows : RowTypes([rows[n] EXCEPT !.stale = TRUE])
    <2>1. \A n \in DOMAIN rows : RowTypes(rows[n])
        BY DEF WorldInv
    <2>. QED BY <2>1 DEF RowTypes
<1>3. /\ DOMAIN rows' = DOMAIN rows
      /\ rows' = [x \in DOMAIN rows' |-> rows'[x]]
      /\ \A x \in DOMAIN rows' : \/ rows'[x] = [rows[x] EXCEPT !.stale = TRUE]
                                 \/ rows'[x] = rows[x]
    BY <1>1
<1>4. \A x \in DOMAIN rows' : RowTypes(rows'[x])
    BY <1>2, <1>3 DEF WorldInv
<1>5. aged' \in 0..Len(logs')
    BY <1>1
<1>. QED BY <1>1, <1>3, <1>4, <1>5 DEF WorldInv, Window, Kept

LEMMA WorldStep == WorldInv /\ [Next]_vars => WorldInv'
<1>. SUFFICES ASSUME WorldInv, [Next]_vars PROVE WorldInv'
    OBVIOUS
<1>1. ASSUME NEW k \in DOMAIN results, Forget(k) \/ \E ok \in BOOLEAN : Probe(k, ok)
      PROVE  WorldInv'
    BY <1>1 DEF Forget, Probe, WorldInv, Window, Kept
<1>2. ASSUME NEW x \in Changeable, NEW to \in {"ok", "down"}, Transition(x, to)
      PROVE  WorldInv'
    BY <1>2 DEF Transition, WorldInv, Window, Kept
<1>3. CASE World
    BY <1>1, <1>2, <1>3, WorldBasic, WorldDetail, WorldStale, WorldWeek DEF World
<1>4. CASE ReadGatus \/ ReadMetrics \/ ReadReports \/ ReadDay
    BY <1>4 DEF ReadGatus, ReadMetrics, ReadReports, ReadDay, Reads, world,
                WorldInv, Window, Kept
<1>5. CASE RollUp \/ Respond \/ UNCHANGED vars
    BY <1>5 DEF RollUp, Respond, vars, world, history, WorldInv, Window, Kept
<1>. QED BY <1>3, <1>4, <1>5 DEF Next

-----------------------------------------------------------------------------

LEMMA NothingReadHolds ==
    ASSUME pc = "gatus", read = NothingRead, raced = FALSE
    PROVE  ReadInv
<1>1. <<>> \in Seq(Log) /\ DOMAIN Empty = {}
    BY EmptySeq DEF Empty
<1>. QED BY <1>1 DEF ReadInv, NothingRead

LEMMA ReadInit == Init => ReadInv
BY NothingReadHolds DEF Init

\* The world may change the rows, but then it says so.
LEMMA ReadWorld ==
    ASSUME ReadInv, World
    PROVE  ReadInv'
<1>1. UNCHANGED <<pc, read>>
    BY DEF World, Forget, Probe, ReportBasic, ReportDetail, GoStale, Week, Transition,
           request
<1>2. /\ raced' \in BOOLEAN /\ (raced => raced')
      /\ pc = "reports" /\ ~raced' => rows' = rows
    <2>1. CASE \E k \in DOMAIN results : Forget(k) \/ \E ok \in BOOLEAN : Probe(k, ok)
        BY <2>1 DEF Forget, Probe, ReadInv
    <2>2. CASE \E n \in Reporters :
                  \/ \E report \in Reports, v2 \in BOOLEAN : ReportBasic(n, report, v2)
                  \/ ReportDetail(n)
                  \/ GoStale(n)
        <3>1. raced' = (raced \/ pc = "reports")
            BY <2>2 DEF ReportBasic, ReportDetail, GoStale, Race
        <3>. QED BY <3>1 DEF ReadInv
    <2>3. CASE \E x \in Changeable, to \in {"ok", "down"} : Transition(x, to)
        BY <2>3 DEF Transition, ReadInv
    <2>4. CASE \E k \in 1..Len(logs) : Week(k)
        BY <2>4 DEF Week, ReadInv
    <2>. QED BY <2>1, <2>2, <2>3, <2>4 DEF World
<1>. QED BY <1>1, <1>2 DEF ReadInv, Window, Kept

LEMMA ReadReads ==
    ASSUME WorldInv, ReadInv, ReadGatus \/ ReadMetrics \/ ReadReports \/ ReadDay
    PROVE  ReadInv'
<1>1. UNCHANGED <<rows, logs, logged, deleted, raced>>
    BY DEF ReadGatus, ReadMetrics, ReadReports, ReadDay, Reads, world
<1>2. CASE ReadGatus
    BY <1>1, <1>2 DEF ReadGatus, Reads, ReadInv
<1>3. CASE ReadMetrics
    BY <1>1, <1>3 DEF ReadMetrics, Reads, ReadInv, WorldInv
<1>4. CASE ReadReports
    <2>1. CASE read' = [read EXCEPT !.reports = logs, !.logged = logged,
                                !.deleted = deleted]
        <3>1. /\ pc = "reports" /\ pc' = "day" /\ DOMAIN read' = DOMAIN read
              /\ read'.reports = logs /\ read'.logged = logged /\ read'.deleted = deleted
              /\ read'.rows = read.rows /\ read'.rowsErr = read.rowsErr
              /\ read'.reportsErr = read.reportsErr /\ read'.gatusErr = read.gatusErr
            BY <1>4, <2>1 DEF ReadReports, Reads, ReadInv
        <3>2. Window(read'.reports, Kept(read'.logged, read'.deleted))
            BY <3>1 DEF WorldInv
        <3>3. logs \in Seq(Log)
            BY DEF WorldInv, Window
        <3>. QED BY <1>1, <3>1, <3>2, <3>3 DEF ReadInv, WorldInv, Window, Kept
    <2>2. CASE read' = [read EXCEPT !.reportsErr = TRUE]
        BY <1>1, <1>4, <2>2 DEF ReadReports, Reads, ReadInv, WorldInv, Window, Kept
    <2>. QED BY <1>4, <2>1, <2>2 DEF ReadReports, Reads
<1>5. CASE ReadDay
    BY <1>1, <1>5 DEF ReadDay, Reads, ReadInv, Window, Kept
<1>. QED BY <1>2, <1>3, <1>4, <1>5

LEMMA ReadStep == WorldInv /\ ReadInv /\ [Next]_vars => ReadInv'
<1>. SUFFICES ASSUME WorldInv, ReadInv, [Next]_vars PROVE ReadInv'
    OBVIOUS
<1>1. CASE RollUp
    BY <1>1 DEF RollUp, world, history, ReadInv, Window, Kept
<1>2. CASE Respond
    <2>1. pc' = "gatus" /\ read' = NothingRead /\ raced' = FALSE
        BY <1>2 DEF Respond
    <2>2. <<>> \in Seq(Log) /\ DOMAIN Empty = {}
        BY EmptySeq DEF Empty
    <2>. QED BY <2>1, <2>2 DEF ReadInv, NothingRead
<1>3. CASE UNCHANGED vars
    BY <1>3 DEF vars, world, request, history, ReadInv, Window, Kept
<1>. QED BY <1>1, <1>2, <1>3, ReadWorld, ReadReads DEF Next

LEMMA AnswerStep == AnswerInv /\ [Next]_vars => AnswerInv'
<1>. SUFFICES ASSUME AnswerInv, [Next]_vars PROVE AnswerInv'
    OBVIOUS
<1>1. CASE World \/ UNCHANGED vars
    <2>1. UNCHANGED <<config, pc, read, answer>>
        BY <1>1 DEF World, Forget, Probe, ReportBasic, ReportDetail, GoStale, Week,
                    Transition, request, vars, world
    <2>2. issues' = issues
        BY <2>1 DEF issues, board, configIssues
    <2>. QED BY <2>1, <2>2 DEF AnswerInv, Answered
<1>2. CASE ReadGatus \/ ReadMetrics \/ ReadReports \/ ReadDay \/ Respond
    BY <1>2 DEF ReadGatus, ReadMetrics, ReadReports, ReadDay, Reads, Respond,
                AnswerInv, Answered
<1>3. CASE RollUp
    <2>1. UNCHANGED <<config, read>>
        BY <1>3 DEF RollUp, world
    <2>2. issues' = issues
        BY <2>1 DEF issues, board, configIssues
    <2>3. PICK kept, impacts :
             /\ kept \in IssueCuts(issues) /\ impacts \in ImpactCuts(config, kept)
             /\ answer' = [kept |-> kept, impacts |-> impacts]
        BY <1>3 DEF RollUp
    <2>4. answer'.kept = kept /\ answer'.impacts = impacts
        BY <2>3
    <2>. QED BY <2>1, <2>2, <2>3, <2>4 DEF AnswerInv
<1>. QED BY <1>1, <1>2, <1>3 DEF Next

LEMMA IInvAlways == Spec => []IInv
<1>1. Init => IInv
    BY AcceptedHolds, WorldInit, ReadInit DEF Init, IInv, AnswerInv, Answered
<1>2. IInv /\ [Next]_vars => IInv'
    BY ConfigStays, WorldStep, ReadStep, AnswerStep DEF IInv
<1>. QED BY <1>1, <1>2, PTL DEF Spec

-----------------------------------------------------------------------------

\* A node has a report in the window exactly when its last one is not too far
\* back and was not deleted as too old, an "ok" looked at the rows as well: who reported has one, unless the
\* rows were read before it came.
THEOREM WindowExplains == Spec => []SilenceExplained
<1>1. IInv => SilenceExplained
    <2>. SUFFICES ASSUME IInv, Answered, ~read.reportsErr, NEW n \in config.nodes
                  PROVE  LET status == AgentStatus(config, read.rows, read.reports, n)
                         IN  /\ status = "unknown" <=>
                                   \/ read.logged[n] \notin 1..ReportWindow
                                   \/ n \in read.deleted
                             /\ ~raced /\ ~read.rowsErr =>
                                   /\ status = "ok" => n \in DOMAIN read.rows /\ ~read.rows[n].stale
                                   /\ n \in MissingNodes(config, read.rows) => status = "unknown"
        BY DEF SilenceExplained
    <2> DEFINE list == read.reports
               mine == ReportsOf(list, n)
               status == AgentStatus(config, read.rows, list, n)
               seen == Kept(read.logged, read.deleted)
               silent == read.logged[n] \notin 1..ReportWindow \/ n \in read.deleted
    <2>1. /\ n \in Reporters /\ Window(list, seen)
          /\ ~raced /\ ~read.rowsErr =>
                \A i \in DOMAIN list : list[i].node \in DOMAIN read.rows
        BY DEF IInv, ConfigHolds, ReadInv, Answered
    <2>2. status = "unknown" <=> mine = {}
        BY DEF AgentStatus
    <2>3. mine = {} <=> silent
        <3>1. silent <=> seen[n] \notin 1..ReportWindow
            <4>1. seen[n] = IF n \in read.deleted THEN 0 ELSE read.logged[n]
                BY <2>1 DEF Kept
            <4>2. 0 \notin 1..ReportWindow
                BY LimitAssumption
            <4> HIDE DEF seen
            <4>. QED BY <4>1, <4>2
        <3> HIDE DEF seen, silent
        <3>2. CASE seen[n] \in 1..ReportWindow
            <4>1. /\ list \in Seq(Log) /\ Len(list) \in Nat /\ DOMAIN list = 1..Len(list)
                  /\ ReportWindow \in Nat
                BY <2>1, LenProperties, LimitAssumption DEF Window
            <4>2. Len(list) + 1 - seen[n] \in DOMAIN list
                BY <2>1, <3>2, <4>1 DEF Window
            <4>3. list[Len(list) + 1 - seen[n]].node = n
                BY <2>1, <3>2 DEF Window
            <4>. QED BY <3>1, <3>2, <4>2, <4>3 DEF ReportsOf
        <3>3. CASE seen[n] \notin 1..ReportWindow
            BY <2>1, <3>1, <3>3 DEF Window
        <3>. QED BY <3>2, <3>3
    <2>4. ASSUME ~raced, ~read.rowsErr, mine # {} PROVE n \in DOMAIN read.rows
        BY <2>1, <2>4 DEF ReportsOf
    <2>5. status = "ok" => mine # {} /\ n \notin StaleNodes(config, read.rows)
        BY DEF AgentStatus
    <2>6. n \in MissingNodes(config, read.rows) => n \notin DOMAIN read.rows
        BY DEF MissingNodes
    <2>7. n \in DOMAIN read.rows /\ n \notin StaleNodes(config, read.rows) =>
             ~read.rows[n].stale
        BY DEF StaleNodes, ReportingNodes
    <2> HIDE DEF mine, status, list, silent
    <2>8. /\ status = "unknown" <=> silent
          /\ ~raced /\ ~read.rowsErr =>
                /\ status = "ok" => n \in DOMAIN read.rows /\ ~read.rows[n].stale
                /\ n \in MissingNodes(config, read.rows) => status = "unknown"
        BY <2>2, <2>3, <2>4, <2>5, <2>6, <2>7
    <2>. QED BY <2>8 DEF status, list, silent
<1>. QED BY <1>1, IInvAlways, PTL

-----------------------------------------------------------------------------

LEMMA BoardStatuses ==
    /\ board.services = ServiceStatuses(config,
           [k \in DOMAIN read.endpoints |-> CheckStatus(read.endpoints[k])],
           read.gatusErr)
    /\ \A s \in config.services : Board(s) \in {"ok", "down", "unknown"}
    /\ board.projects = ProjectStatuses(config, board.services)
    /\ board.overall = AggregateOverall(board.projects)
<1> DEFINE checks == [k \in DOMAIN read.endpoints |-> CheckStatus(read.endpoints[k])]
<1>1. \A k \in DOMAIN checks : checks[k] \in {"ok", "down", "unknown"}
    BY DEF CheckStatus
<1>2. /\ board.services = ServiceStatuses(config, checks, read.gatusErr)
      /\ board.projects = ProjectStatuses(config, board.services)
      /\ board.overall = AggregateOverall(board.projects)
    BY DEF board, Rollup
<1> HIDE DEF checks
<1>3. \A s \in config.services : Board(s) \in {"ok", "down", "unknown"}
    BY <1>1, <1>2 DEF Board, ServiceStatuses, ServiceStatus
<1>. QED BY <1>2, <1>3 DEF checks

\* A project is down on the board only because of a critical service that it
\* lists.
LEMMA ProjectDown ==
    ASSUME ConfigHolds(config), NEW p \in config.projects, board.projects[p] = "down"
    PROVE  \E s \in ListedServices(config, p) :
              s \in config.services \cap config.critical /\ Board(s) = "down"
<1> DEFINE family == config.serviceIDs[p]
<1>1. AggregateStatus(config, board.services, family) = "down"
    BY BoardStatuses DEF ProjectStatuses, ProjectFamily
<1>2. PICK i \in DOMAIN family :
         family[i] \in config.critical /\ board.services[family[i]] = "down"
    BY <1>1 DEF AggregateStatus
<1>3. family[i] \in ListedServices(config, p) /\ family[i] \in config.services
    BY <1>2 DEF ListedServices, Range, ConfigHolds, ReferencesHold
<1>. QED BY <1>2, <1>3 DEF Board

\* What the diagnosis calls "ok" has passed every test that monitoring makes.
THEOREM DiagnosisNeverBetter == Spec => []ProjectNeverBetter
<1>1. IInv => ProjectNeverBetter
    <2>. SUFFICES ASSUME IInv, Answered, NEW p \in config.projects
                  PROVE  LET status == ProjectStatus(config, board.services, read.endpoints,
                                                     read.rows, read.reports, board.projects, p)
                             c == Coverage(config, board.services, read.endpoints, p)
                         IN  /\ status = "ok" => board.projects[p] = "ok"
                             /\ board.projects[p] = "down" => status = "down"
                             /\ status = "ok" =>
                                   /\ c.services # {}
                                   /\ \A s \in c.services : Board(s) = "ok"
                                   /\ c.nodes \subseteq
                                         {n \in DOMAIN read.rows : ~read.rows[n].stale}
                                   /\ \A n \in c.nodes :
                                         /\ ReportsOf(read.reports, n) # {}
                                         /\ \A i \in ReportsOf(read.reports, n) :
                                               read.reports[i].failed = 0
        BY DEF ProjectNeverBetter
    <2> DEFINE status == ProjectStatus(config, board.services, read.endpoints,
                                       read.rows, read.reports, board.projects, p)
               c == Coverage(config, board.services, read.endpoints, p)
               S == OwnedServices(config, p)
    <2>1. ConfigHolds(config) /\ read.reports \in Seq(Log)
        BY DEF IInv, ReadInv
    <2>2. /\ c.services = S /\ S \subseteq config.services
          /\ c.down = {s \in S : Board(s) \in {"down"}}
          /\ c.degraded = {s \in S : Board(s) \in {"degraded", "unknown"}}
          /\ c.nodes = NodesOf(config, S)
        BY DEF Coverage, OwnedServices, Board
    <2>3. c.nodes \subseteq config.nodes
        BY <2>1, <2>2 DEF ConfigHolds, ReferencesHold, NodesOf
    <2>4. status = IF c.down # {} THEN "down"
                   ELSE IF \/ c.services = {}
                           \/ c.unmapped \cup c.missing \cup c.unchecked # {}
                           \/ c.nodes \cap (MissingNodes(config, read.rows)
                                              \cup StaleNodes(config, read.rows)) # {}
                           \/ AgentSummary(config, read.rows, read.reports, c.nodes) # "ok"
                           \/ c.degraded # {} THEN "degraded"
                   ELSE board.projects[p]
        BY DEF ProjectStatus
    <2> HIDE DEF c, S, status
    <2>5. ASSUME board.projects[p] = "down" PROVE status = "down"
        <3>1. PICK s \in ListedServices(config, p) :
                 s \in config.services /\ Board(s) = "down"
            BY <2>1, <2>5, ProjectDown
        <3>2. s \in S
            BY <3>1 DEF S, OwnedServices, Owns
        <3>. QED BY <2>2, <2>4, <3>1, <3>2
    <2>6. ASSUME status = "ok"
          PROVE  /\ board.projects[p] = "ok"
                 /\ c.services # {}
                 /\ \A s \in c.services : Board(s) = "ok"
                 /\ c.nodes \subseteq {n \in DOMAIN read.rows : ~read.rows[n].stale}
                 /\ \A n \in c.nodes :
                       /\ ReportsOf(read.reports, n) # {}
                       /\ \A i \in ReportsOf(read.reports, n) :
                             read.reports[i].failed = 0
        <3>1. /\ board.projects[p] = "ok"
              /\ c.services # {} /\ c.down = {} /\ c.degraded = {}
              /\ c.nodes \cap (MissingNodes(config, read.rows)
                                  \cup StaleNodes(config, read.rows)) = {}
              /\ AgentSummary(config, read.rows, read.reports, c.nodes) = "ok"
            BY <2>4, <2>6
        <3>2. \A s \in c.services : Board(s) = "ok"
            BY <2>2, <3>1, BoardStatuses
        <3>3. c.nodes \subseteq {n \in DOMAIN read.rows : ~read.rows[n].stale}
            BY <2>3, <3>1 DEF MissingNodes, StaleNodes, ReportingNodes
        <3>4. ASSUME NEW n \in c.nodes
              PROVE  AgentStatus(config, read.rows, read.reports, n) = "ok"
            BY <3>1 DEF AgentSummary
        <3>5. ASSUME NEW n \in c.nodes
              PROVE  /\ ReportsOf(read.reports, n) # {}
                     /\ \A i \in ReportsOf(read.reports, n) : ~(read.reports[i].failed > 0)
            BY <3>4 DEF AgentStatus
        <3>6. \A i \in DOMAIN read.reports : read.reports[i].failed \in Nat
            <4>1. \A i \in DOMAIN read.reports : read.reports[i] \in Log
                BY <2>1, ElementOfSeq, LenProperties
            <4>. QED BY <4>1 DEF Log
        <3>7. \A n \in c.nodes : \A i \in ReportsOf(read.reports, n) :
                 read.reports[i].failed = 0
            BY <3>5, <3>6 DEF ReportsOf
        <3>. QED BY <3>1, <3>2, <3>3, <3>5, <3>7
    <2>. QED BY <2>5, <2>6 DEF status, c
<1>. QED BY <1>1, IInvAlways, PTL

-----------------------------------------------------------------------------

\* A set of naturals that is not empty has a least member.
LEMMA LeastNatural ==
    ASSUME NEW T, T \subseteq Nat, T # {}
    PROVE  \E x \in T : \A y \in T : x <= y
<1>1. \E x \in T : \A y \in T : ~(y < x)
    <2>1. PICK x \in T : \A y \in T : <<y, x>> \notin OpToRel(<, Nat)
        BY WFMin, NatLessThanWellFounded
    <2>2. \A y \in T : ~(y < x)
        BY <2>1 DEF OpToRel
    <2>. QED BY <2>2
<1>. QED BY <1>1

\* A finite set of numbers that is not empty has a greatest member: otherwise
\* take a smallest subset without one, and take any member away from it.
LEMMA FiniteMax ==
    ASSUME NEW S, S \subseteq Int, IsFiniteSet(S), S # {}
    PROVE  Max(S) \in S /\ \A y \in S : y <= Max(S)
<1> DEFINE HasMax(T) == \E x \in T : \A y \in T : y <= x
           without == {T \in SUBSET S : T # {} /\ ~HasMax(T)}
           sizes == {Cardinality(T) : T \in without}
<1>1. \A T \in SUBSET S : IsFiniteSet(T) /\ Cardinality(T) \in Nat
    BY FS_Subset, FS_CardinalityType
<1>2. ASSUME without # {} PROVE FALSE
    <2>1. sizes \subseteq Nat /\ sizes # {}
        BY <1>1, <1>2
    <2>2. PICK k \in sizes : \A j \in sizes : k <= j
        <3> HIDE DEF sizes
        <3>. QED BY <2>1, LeastNatural
    <2>3. PICK T \in without : k = Cardinality(T)
        OBVIOUS
    <2>4. T \subseteq S /\ T # {} /\ ~HasMax(T)
        OBVIOUS
    <2>5. PICK x \in T : TRUE
        BY <2>4
    <2> DEFINE U == T \ {x}
    <2>6. U \subseteq S /\ Cardinality(U) < k /\ Cardinality(U) \in Nat
        <3>1. IsFiniteSet(T) /\ Cardinality(T) \in Nat /\ U \in SUBSET S
            BY <1>1, <2>4
        <3>2. Cardinality(U) = Cardinality(T) - 1
            BY <2>5, <3>1, FS_RemoveElement
        <3>3. Cardinality(U) \in Nat
            BY <1>1, <3>1
        <3> HIDE DEF U
        <3>. QED BY <2>3, <3>1, <3>2, <3>3
    <2>7. U \notin without
        <3>1. U \in without => Cardinality(U) \in sizes
            OBVIOUS
        <3> HIDE DEF without, sizes, U
        <3>. QED BY <2>1, <2>2, <2>6, <3>1
    <2>8. U = {} \/ HasMax(U)
        BY <2>6, <2>7
    <2>9. HasMax(T)
        <3>1. CASE U = {}
            <4>1. T = {x} /\ x \in Int
                BY <2>4, <2>5, <3>1
            <4>. QED BY <4>1
        <3>2. CASE HasMax(U)
            <4>1. PICK m \in U : \A y \in U : y <= m
                BY <3>2
            <4>2. x \in Int /\ m \in Int /\ m \in T /\ \A y \in T : y \in Int /\ (y = x \/ y \in U)
                BY <2>4, <2>5
            <4>. QED BY <2>5, <4>1, <4>2
        <3>. QED BY <2>8, <3>1, <3>2
    <2>. QED BY <2>4, <2>9
<1>3. HasMax(S)
    BY <1>2
<1>4. PICK x \in S : \A y \in S : y <= x
    BY <1>3
<1>5. \E z \in S : \A y \in S : z >= y
    BY <1>4
<1>6. Max(S) \in S /\ \A y \in S : Max(S) >= y
    BY <1>5 DEF Max
<1>. QED BY <1>6

\* One pass asks the busiest device, the other each of them.
LEMMA BusiestGPU ==
    ASSUME NEW gpu, gpu.available \in BOOLEAN, IsFiniteSet(DOMAIN gpu.utils),
           \A d \in DOMAIN gpu.utils : gpu.utils[d] \in Int,
           NEW limit \in Int, limit > 0
    PROVE  (gpu.available /\ MaxUtil(gpu) >= limit) <=>
           \E d \in DOMAIN gpu.utils : gpu.available /\ gpu.utils[d] >= limit
<1>1. CASE ~gpu.available \/ DOMAIN gpu.utils = {}
    <2>1. MaxUtil(gpu) = 0
        BY <1>1 DEF MaxUtil
    <2>. QED BY <1>1, <2>1
<1>2. CASE gpu.available /\ DOMAIN gpu.utils # {}
    <2> DEFINE utils == Range(gpu.utils)
    <2>1. utils \subseteq Int /\ utils # {}
        BY <1>2 DEF Range
    <2>2. IsFiniteSet(utils)
        BY ImageFinite
    <2>3. MaxUtil(gpu) = Max(utils)
        BY <1>2 DEF MaxUtil
    <2>4. \A u : u \in utils <=> \E d \in DOMAIN gpu.utils : gpu.utils[d] = u
        BY DEF Range
    <2> HIDE DEF utils
    <2>5. Max(utils) \in utils /\ \A u \in utils : u <= Max(utils)
        BY <2>1, <2>2, FiniteMax
    <2>6. PICK b \in DOMAIN gpu.utils : gpu.utils[b] = Max(utils)
        BY <2>4, <2>5
    <2>7. \A d \in DOMAIN gpu.utils : gpu.utils[d] <= Max(utils)
        BY <2>4, <2>5
    <2>8. Max(utils) \in Int
        BY <2>1, <2>5
    <2>. QED BY <1>2, <2>3, <2>6, <2>7, <2>8
<1>. QED BY <1>1, <1>2

\* The state of a row is "ok" when it is fresh and gives rise to no issue.
LEMMA StateMatches ==
    ASSUME NEW row, RowTypes(row), NEW limits \in [Metrics -> Int], limits["gpu"] > 0
    PROVE  ResourceState(limits, row) = "ok" <=>
              ~row.stale /\ ResourceIssues(limits, row) = {}
<1> DEFINE Value(m) == IF m = "gpu" THEN MaxUtil(row.gpu) ELSE row.load[m]
           Limit(m) == IF m = "gpu" /\ ~row.gpu.available THEN 0 ELSE limits[m]
           gpus == {x \in DOMAIN row.gpu.utils :
                       row.gpu.available /\ row.gpu.utils[x] >= limits["gpu"]}
           others == {x \in Metrics \ {"gpu"} :
                         limits[x] > 0 /\ row.load[x] >= limits[x]}
<1>1. ResourceState(limits, row) = "ok" <=>
         ~row.stale /\ ~\E m \in Metrics : Limit(m) > 0 /\ Value(m) >= Limit(m)
    BY Zenon DEF ResourceState
<1>2. ResourceIssues(limits, row) = {<<m, None>> : m \in others}
                                       \cup {<<"gpu", d>> : d \in gpus}
    BY DEF ResourceIssues
<1>3. "gpu" \in Metrics
    BY DEF Metrics, Percents
<1>4. (Limit("gpu") > 0 /\ Value("gpu") >= Limit("gpu")) <=> gpus # {}
    <2>1. limits["gpu"] \in Int
        BY <1>3
    <2>2. (row.gpu.available /\ MaxUtil(row.gpu) >= limits["gpu"]) <=> gpus # {}
        BY <2>1, BusiestGPU DEF RowTypes
    <2>3. row.gpu.available \in BOOLEAN
        BY DEF RowTypes
    <2> HIDE DEF gpus
    <2>. QED BY <2>1, <2>2, <2>3
<1>5. (\E m \in Metrics \ {"gpu"} : Limit(m) > 0 /\ Value(m) >= Limit(m)) <=> others # {}
    OBVIOUS
<1>6. ResourceIssues(limits, row) = {} <=> others = {} /\ gpus = {}
    <2> HIDE DEF others, gpus
    <2>. QED BY <1>2
<1> HIDE DEF Value, Limit, gpus, others
<1>. QED BY <1>1, <1>3, <1>4, <1>5, <1>6

-----------------------------------------------------------------------------

\* Where the issues come from.
LEMMA BudgetOrigins ==
    ASSUME NEW c, NEW r, NEW i
    PROVE  (\E s \in Budgeted(c) : \E b \in BudgetIssues(c, r, s) :
               i = Issue("warn", "service-resource", s, c.nodeOf[s], None, s, b[1], b[2]))
           <=> i \in UNION {{Issue("warn", "service-resource", s, c.nodeOf[s],
                                   None, s, b[1], b[2]) :
                                b \in BudgetIssues(c, r, s)} : s \in Budgeted(c)}
OBVIOUS

LEMMA ResourceOrigins ==
    ASSUME NEW c, NEW r, NEW i
    PROVE  (\E n \in DOMAIN r : \E m \in ResourceIssues(Effective(c.limits, n), r[n]) :
               i = Issue("warn", "resource", n, n, None, None, m[1], m[2]))
           <=> i \in UNION {{Issue("warn", "resource", n, n, None, None, m[1], m[2]) :
                                m \in ResourceIssues(Effective(c.limits, n), r[n])} :
                               n \in DOMAIN r}
OBVIOUS

LEMMA MetricOrigins ==
    ASSUME NEW c, NEW r, NEW i
    PROVE  i \in MetricIssues(c, r) <=>
           \/ \E n \in MissingNodes(c, r) :
                 i = Issue("warn", "metrics-missing", n, n, None, None, "agent", None)
           \/ \E n \in StaleNodes(c, r) :
                 i = Issue("warn", "metrics-stale", n, n, None, None, "agent", None)
           \/ \E f \in CollectorFailures(c, r) :
                 i = Issue("warn", "collector", f.node, f.node, None, None, f.name, None)
           \/ \E s \in Budgeted(c) : \E b \in BudgetIssues(c, r, s) :
                 i = Issue("warn", "service-resource", s, c.nodeOf[s], None, s, b[1], b[2])
           \/ \E n \in DOMAIN r : \E m \in ResourceIssues(Effective(c.limits, n), r[n]) :
                 i = Issue("warn", "resource", n, n, None, None, m[1], m[2])
<1> DEFINE missing == {Issue("warn", "metrics-missing", n, n, None, None, "agent", None) :
                          n \in MissingNodes(c, r)}
           stale == {Issue("warn", "metrics-stale", n, n, None, None, "agent", None) :
                        n \in StaleNodes(c, r)}
           collector == {Issue("warn", "collector", f.node, f.node, None, None, f.name, None) :
                            f \in CollectorFailures(c, r)}
           budget == UNION {{Issue("warn", "service-resource", s, c.nodeOf[s],
                                   None, s, b[1], b[2]) :
                                b \in BudgetIssues(c, r, s)} : s \in Budgeted(c)}
           resource == UNION {{Issue("warn", "resource", n, n, None, None, m[1], m[2]) :
                                m \in ResourceIssues(Effective(c.limits, n), r[n])} :
                               n \in DOMAIN r}
<1>1. MetricIssues(c, r) = missing \cup stale \cup collector \cup budget \cup resource
    BY Zenon DEF MetricIssues
<1>2. i \in missing <=> \E n \in MissingNodes(c, r) :
         i = Issue("warn", "metrics-missing", n, n, None, None, "agent", None)
    OBVIOUS
<1>3. i \in stale <=> \E n \in StaleNodes(c, r) :
         i = Issue("warn", "metrics-stale", n, n, None, None, "agent", None)
    OBVIOUS
<1>4. i \in collector <=> \E f \in CollectorFailures(c, r) :
         i = Issue("warn", "collector", f.node, f.node, None, None, f.name, None)
    OBVIOUS
<1>5. i \in budget <=> \E s \in Budgeted(c) : \E b \in BudgetIssues(c, r, s) :
         i = Issue("warn", "service-resource", s, c.nodeOf[s], None, s, b[1], b[2])
    BY BudgetOrigins
<1>6. i \in resource <=> \E n \in DOMAIN r :
         \E m \in ResourceIssues(Effective(c.limits, n), r[n]) :
            i = Issue("warn", "resource", n, n, None, None, m[1], m[2])
    BY ResourceOrigins
<1> HIDE DEF missing, stale, collector, budget, resource
<1>. QED BY <1>1, <1>2, <1>3, <1>4, <1>5, <1>6

LEMMA IssueOrigins ==
    ASSUME NEW i
    PROVE  i \in issues <=>
           \/ \E s \in config.services :
                 /\ Board(s) \notin Healthy
                 /\ i = Issue(IF Board(s) = "down" /\ s \in config.critical
                              THEN "error" ELSE "warn",
                              "service-check", s, config.nodeOf[s], config.projectOf[s],
                              s, "availability", None)
           \/ i \in MetricIssues(config, read.rows)
           \/ \E j \in configIssues :
                 /\ j.severity # "info"
                 /\ i = Issue(j.severity, "config", j.subject, None, None, None, j.kind, None)
           \/ i \in VolatilityIssues(Volatility(read.day))
<1>1. i \in ServiceCheckIssues(config, board.services) <=>
         \E s \in config.services :
            /\ Board(s) \notin Healthy
            /\ i = Issue(IF Board(s) = "down" /\ s \in config.critical
                         THEN "error" ELSE "warn",
                         "service-check", s, config.nodeOf[s], config.projectOf[s],
                         s, "availability", None)
    BY DEF ServiceCheckIssues, Board
<1> DEFINE shown == {Issue(j.severity, "config", j.subject, None, None, None, j.kind, None) :
                        j \in {x \in configIssues : x.severity # "info"}}
<1>2. i \in shown <=>
         \E j \in configIssues :
            /\ j.severity # "info"
            /\ i = Issue(j.severity, "config", j.subject, None, None, None, j.kind, None)
    OBVIOUS
<1>3. issues = ServiceCheckIssues(config, board.services)
               \cup MetricIssues(config, read.rows) \cup shown
               \cup VolatilityIssues(Volatility(read.day))
    BY Zenon DEF issues, OpsIssues
<1> HIDE DEF shown
<1>. QED BY <1>1, <1>2, <1>3

LEMMA VolatilityOrigins ==
    ASSUME NEW i \in VolatilityIssues(Volatility(read.day))
    PROVE  i.severity \in {"info", "warn"} /\ i.kind = "status-volatility"
<1>1. ASSUME NEW V, NEW j \in VolatilityIssues(V)
      PROVE  j.severity \in {"info", "warn"} /\ j.kind = "status-volatility"
    BY DEF VolatilityIssues, Issue
<1>. QED BY <1>1

\* What a row or a budget has to do with the issues of its kind.
LEMMA IssuesOfKind ==
    ASSUME NEW i \in issues
    PROVE  /\ i.kind = "resource" =>
                 /\ i.node \in DOMAIN read.rows
                 /\ ResourceIssues(Effective(config.limits, i.node), read.rows[i.node]) # {}
           /\ i.kind = "service-resource" =>
                 BudgetIssues(config, read.rows, i.service) # {}
<1> USE DEF Issue
<1>1. CASE i \in MetricIssues(config, read.rows)
    BY <1>1, MetricOrigins
<1>2. CASE i \in VolatilityIssues(Volatility(read.day))
    BY <1>2, VolatilityOrigins
<1>3. CASE i \notin MetricIssues(config, read.rows) \cup VolatilityIssues(Volatility(read.day))
    <2>1. i.kind \in {"service-check", "config"}
        BY <1>3, IssueOrigins
    <2>. QED BY <2>1
<1>. QED BY <1>1, <1>2, <1>3

\* The two passes over rows and budgets come to the same conclusion.
THEOREM PassesAgree == Spec => []StatesMatchIssues
<1>1. IInv => StatesMatchIssues
    <2>. SUFFICES ASSUME IInv, Answered PROVE StatesMatchIssues
        BY DEF StatesMatchIssues
    <2>1. ASSUME NEW n \in DOMAIN read.rows
          PROVE  ResourceState(Effective(config.limits, n), read.rows[n]) = "ok" <=>
                    /\ ~read.rows[n].stale
                    /\ ~\E i \in issues : i.kind = "resource" /\ i.node = n
        <3> DEFINE limits == Effective(config.limits, n)
                   found == ResourceIssues(limits, read.rows[n])
        <3>1. /\ RowTypes(read.rows[n])
              /\ limits \in [Metrics -> Int] /\ limits["gpu"] > 0
            BY DEF IInv, ReadInv, ConfigHolds
        <3>2. ResourceState(limits, read.rows[n]) = "ok" <=>
                 ~read.rows[n].stale /\ found = {}
            <4> HIDE DEF limits
            <4>. QED BY <3>1, StateMatches
        <3>3. ASSUME NEW m \in found
              PROVE  \E i \in issues : i.kind = "resource" /\ i.node = n
            <4> DEFINE i == Issue("warn", "resource", n, n, None, None, m[1], m[2])
            <4>1. i \in MetricIssues(config, read.rows)
                BY MetricOrigins
            <4>2. i \in issues
                BY <4>1, IssueOrigins
            <4>3. i.kind = "resource" /\ i.node = n
                BY DEF Issue
            <4>. QED BY <4>2, <4>3
        <3>4. ASSUME NEW i \in issues, i.kind = "resource", i.node = n
              PROVE  found # {}
            BY <3>4, IssuesOfKind
        <3> HIDE DEF limits, found
        <3>5. ResourceState(limits, read.rows[n]) = "ok" <=>
                    /\ ~read.rows[n].stale
                    /\ ~\E i \in issues : i.kind = "resource" /\ i.node = n
            BY <3>2, <3>3, <3>4
        <3>. QED BY <3>5 DEF limits
    <2>2. ASSUME NEW s \in Budgeted(config)
          PROVE  BudgetStatus(config, read.rows, s) = "ok" <=>
                    ~\E i \in issues : i.kind = "service-resource" /\ i.service = s
        <3> DEFINE found == BudgetIssues(config, read.rows, s)
        <3>1. BudgetStatus(config, read.rows, s) = "ok" <=> found = {}
            <4> DEFINE none == MissingContainers(config, read.rows, s) = {}
                       within == OverBudget(config, read.rows, s) = {}
                       some == Matched(config, read.rows, s) # {}
                       measured == Measured(config, read.rows, s)
            <4>1. BudgetStatus(config, read.rows, s) = "ok" <=>
                     measured /\ none /\ within /\ some
                BY DEF BudgetStatus
            <4>2. measured => config.nodeOf[s] \in DOMAIN read.rows
                BY DEF Measured
            <4>3. found = {} <=> measured /\ none /\ within /\ some
                BY <4>2 DEF BudgetIssues
            <4>. QED BY <4>1, <4>3
        <3>2. ASSUME NEW b \in found
              PROVE  \E i \in issues : i.kind = "service-resource" /\ i.service = s
            <4> DEFINE i == Issue("warn", "service-resource", s, config.nodeOf[s], None,
                                  s, b[1], b[2])
            <4>1. i \in MetricIssues(config, read.rows)
                BY MetricOrigins
            <4>2. i \in issues
                BY <4>1, IssueOrigins
            <4>3. i.kind = "service-resource" /\ i.service = s
                BY DEF Issue
            <4>. QED BY <4>2, <4>3
        <3>3. ASSUME NEW i \in issues, i.kind = "service-resource", i.service = s
              PROVE  found # {}
            BY <3>3, IssuesOfKind
        <3> HIDE DEF found
        <3>. QED BY <3>1, <3>2, <3>3
    <2>. QED BY <2>1, <2>2 DEF StatesMatchIssues
<1>. QED BY <1>1, IInvAlways, PTL

-----------------------------------------------------------------------------

\* The cut keeps something, and leaves out nothing that is more severe.
LEMMA IssueCut ==
    ASSUME NEW all, NEW kept \in IssueCuts(all)
    PROVE  /\ kept \subseteq all
           /\ kept = {} => all = {}
           /\ \A d \in all \ kept : \A k \in kept : ~MoreSevere(d, k)
<1>1. CASE Cardinality(all) <= IssueLimit
    <2>1. kept = all
        BY <1>1 DEF IssueCuts, Cuts
    <2>. QED BY <2>1
<1>2. CASE ~(Cardinality(all) <= IssueLimit)
    <2>1. /\ kept \in kSubset(IssueLimit, all)
          /\ \A k \in kept, d \in all \ kept : ~MoreSevere(d, k)
        BY <1>2 DEF IssueCuts, Cuts
    <2>2. kept \subseteq all /\ Cardinality(kept) = IssueLimit
        BY <2>1 DEF kSubset
    <2>3. kept # {}
        BY <2>2, FS_EmptySet, LimitAssumption
    <2>. QED BY <2>1, <2>2, <2>3
<1>. QED BY <1>1, <1>2

LEMMA ErrorsFirst ==
    ASSUME NEW i, NEW j
    PROVE  i.severity = "error" /\ j.severity # "error" => MoreSevere(i, j)
BY DEF MoreSevere, SeverityRank

\* The issue of a critical service that is down.
OutageIssue(s) ==
    Issue("error", "service-check", s, config.nodeOf[s], config.projectOf[s], s,
          "availability", None)

\* There are no other errors.
LEMMA ErrorOrigins ==
    ASSUME ConfigHolds(config)
    PROVE  {i \in issues : i.severity = "error"} = {OutageIssue(s) : s \in Outages}
<1>1. ASSUME NEW i \in issues, i.severity = "error"
      PROVE  i \in {OutageIssue(s) : s \in Outages}
    <2>1. i \notin MetricIssues(config, read.rows)
        BY <1>1, MetricOrigins DEF Issue
    <2>2. i \notin VolatilityIssues(Volatility(read.day))
        BY <1>1, VolatilityOrigins
    <2>3. ~\E j \in configIssues :
              /\ j.severity # "info"
              /\ i = Issue(j.severity, "config", j.subject, None, None, None, j.kind, None)
        BY <1>1, NoConfigError DEF ConfigHolds, configIssues, Issue
    <2>4. PICK s \in config.services :
             /\ Board(s) \notin Healthy
             /\ i = Issue(IF Board(s) = "down" /\ s \in config.critical
                          THEN "error" ELSE "warn",
                          "service-check", s, config.nodeOf[s], config.projectOf[s],
                          s, "availability", None)
        BY <2>1, <2>2, <2>3, IssueOrigins
    <2>5. Board(s) = "down" /\ s \in config.critical
        BY <1>1, <2>4 DEF Issue
    <2>6. i = OutageIssue(s) /\ s \in Outages
        BY <2>4, <2>5 DEF Outages, OutageIssue
    <2>. QED BY <2>6
<1>2. ASSUME NEW s \in Outages
      PROVE  OutageIssue(s) \in issues /\ OutageIssue(s).severity = "error"
    <2>1. s \in config.services /\ s \in config.critical /\ Board(s) = "down"
        BY DEF Outages, ConfigHolds
    <2>2. Board(s) \notin Healthy
        BY <2>1 DEF Healthy
    <2>3. OutageIssue(s) \in issues
        BY <2>1, <2>2, IssueOrigins DEF OutageIssue
    <2>. QED BY <2>3 DEF OutageIssue, Issue
<1>. QED BY <1>1, <1>2

LEMMA OutageIssueFields ==
    ASSUME NEW s
    PROVE  /\ OutageIssue(s).service = s
           /\ OutageIssue(s).node = config.nodeOf[s]
           /\ OutageIssue(s).project = config.projectOf[s]
           /\ OutageIssue(s).severity = "error"
BY DEF OutageIssue, Issue

LEMMA OverallDown ==
    ASSUME ConfigHolds(config), board.overall = "down"
    PROVE  Outages # {}
<1>1. PICK p \in DOMAIN board.projects : board.projects[p] = "down"
    BY BoardStatuses DEF AggregateOverall
<1>2. DOMAIN board.projects = config.projects
    BY BoardStatuses DEF ProjectStatuses
<1>3. PICK s : s \in config.services \cap config.critical /\ Board(s) = "down"
    BY <1>1, <1>2, ProjectDown
<1>. QED BY <1>3 DEF Outages

\* What no issue is about.
LEMMA NothingToReport ==
    ASSUME issues = {}
    PROVE  /\ \A s \in config.services : Board(s) \in Healthy
           /\ MissingNodes(config, read.rows) = {}
           /\ StaleNodes(config, read.rows) = {}
           /\ CollectorFailures(config, read.rows) = {}
<1>1. \A i : i \notin MetricIssues(config, read.rows)
    BY IssueOrigins
<1>2. \A s \in config.services : Board(s) \in Healthy
    BY IssueOrigins
<1>. QED BY <1>1, <1>2, MetricOrigins

\* A project that shows healthy services only is "ok", or shows none.
LEMMA HealthyProject ==
    ASSUME ConfigHolds(config), NEW p \in config.projects,
           \A s \in config.services : Board(s) \in Healthy
    PROVE  board.projects[p] = "ok" \/ ListedServices(config, p) = {}
<1> DEFINE family == config.serviceIDs[p]
           st == board.services
<1>1. board.projects[p] = AggregateStatus(config, st, family)
    BY BoardStatuses DEF ProjectStatuses, ProjectFamily
<1>2. \A i \in DOMAIN family : st[family[i]] \in Healthy
    <2>1. \A i \in DOMAIN family : family[i] \in config.services
        BY DEF ConfigHolds, ReferencesHold, ListedServices, Range
    <2>. QED BY <2>1 DEF Board
<1>3. DOMAIN family = {} => ListedServices(config, p) = {}
    BY DEF ListedServices, Range
<1> HIDE DEF family, st
<1>4. ASSUME NEW v \in {"down", "unknown", "degraded"} PROVE CountOf(st, family, v) = 0
    <2>1. {i \in DOMAIN family : st[family[i]] = v} = {}
        BY <1>2 DEF Healthy
    <2>. QED BY <2>1, FS_EmptySet DEF CountOf
<1>5. CASE DOMAIN family # {}
    <2>1. ~\E i \in DOMAIN family : family[i] \in config.critical /\ st[family[i]] = "down"
        BY <1>2 DEF Healthy
    <2>2. ~(CountOf(st, family, "down") + CountOf(st, family, "unknown")
              + CountOf(st, family, "degraded") > 0)
        BY <1>4
    <2>. QED BY <1>1, <1>5, <2>1, <2>2 DEF AggregateStatus
<1>. QED BY <1>3, <1>5

\* A collector that failed somewhere is one of the failures.
LEMMA FailedCollector ==
    ASSUME NEW c, NEW r, NEW name, CollectorFailures(c, r) = {}
    PROVE  CollectorSummary(c, r, name).failed = {}
<1>1. CollectorSummary(c, r, name).failed =
         {n \in {m \in ReportingNodes(c, r) : name \in DOMAIN r[m].collectors} :
             ~r[n].collectors[name].ok}
    BY DEF CollectorSummary
<1>2. ASSUME NEW n \in ReportingNodes(c, r), name \in DOMAIN r[n].collectors,
             ~r[n].collectors[name].ok
      PROVE  FALSE
    <2> DEFINE at(m) == {[node |-> m, name |-> x] :
                            x \in {d \in DOMAIN r[m].collectors : ~r[m].collectors[d].ok}}
    <2>1. [node |-> n, name |-> name] \in at(n)
        BY <1>2
    <2>2. CollectorFailures(c, r) = UNION {at(m) : m \in ReportingNodes(c, r)}
        BY DEF CollectorFailures
    <2> HIDE DEF at
    <2>. QED BY <2>1, <2>2
<1>. QED BY <1>1, <1>2

\* The list that is shown, however short, tells what the board tells.
THEOREM ListTellsTheBoard == Spec => []IssuesTellTheBoard
<1>1. IInv => IssuesTellTheBoard
    <2>. SUFFICES ASSUME IInv, Answered PROVE IssuesTellTheBoard
        BY DEF IssuesTellTheBoard
    <2>1. /\ ConfigHolds(config)
          /\ answer.kept \in IssueCuts(issues)
          /\ read.rowsErr => read.rows = Empty
        BY DEF IInv, AnswerInv, ReadInv
    <2>2. /\ answer.kept \subseteq issues
          /\ answer.kept = {} => issues = {}
          /\ \A d \in issues \ answer.kept : \A k \in answer.kept : ~MoreSevere(d, k)
        BY <2>1, IssueCut
    <2>3. ASSUME NEW s \in Outages PROVE ShownErrors # {}
        <3>1. PICK e \in issues : e.severity = "error"
            BY <2>1, ErrorOrigins, OutageIssueFields
        <3>2. PICK k \in answer.kept : TRUE
            BY <2>2, <3>1
        <3>3. e \in answer.kept \/ k.severity = "error"
            BY <2>2, <3>1, ErrorsFirst
        <3>. QED BY <3>1, <3>3 DEF ShownErrors
    <2>4. board.overall = "down" => ShownErrors # {}
        BY <2>1, <2>3, OverallDown
    <2>5. ASSUME ShownErrors # answer.kept
          PROVE  Outages = {i.service : i \in ShownErrors}
        <3>1. PICK k \in answer.kept : k.severity # "error"
            BY <2>5 DEF ShownErrors
        <3>2. \A e \in issues : e.severity = "error" => e \in ShownErrors
            BY <2>2, <3>1, ErrorsFirst DEF ShownErrors
        <3>3. ShownErrors = {i \in issues : i.severity = "error"}
            BY <2>2, <3>2 DEF ShownErrors
        <3>4. ShownErrors = {OutageIssue(s) : s \in Outages}
            BY <2>1, <3>3, ErrorOrigins
        <3>. QED BY <3>4, OutageIssueFields
    <2>6. ASSUME answer.kept = {}
          PROVE  /\ \A s \in config.services : Board(s) \in Healthy
                 /\ config.nodes = DOMAIN read.rows \cap config.nodes
                 /\ board.overall \in {"down", "degraded"} =>
                       \E p \in config.projects : ListedServices(config, p) = {}
                 /\ AgentsProvider(config, read.rows, read.rowsErr) # "ok" =>
                       \E c \in CollectorNames(read.rows) :
                          LET x == CollectorSummary(config, read.rows, c)
                          IN  x.missing \cup x.old # {}
        <3>1. /\ \A s \in config.services : Board(s) \in Healthy
              /\ MissingNodes(config, read.rows) = {}
              /\ StaleNodes(config, read.rows) = {}
              /\ CollectorFailures(config, read.rows) = {}
            BY <2>2, <2>6, NothingToReport
        <3>2. config.nodes \subseteq DOMAIN read.rows
            BY <3>1 DEF MissingNodes
        <3>3. ASSUME board.overall \in {"down", "degraded"}
              PROVE  \E p \in config.projects : ListedServices(config, p) = {}
            <4>1. PICK p \in DOMAIN board.projects : board.projects[p] # "ok"
                BY <3>3, BoardStatuses DEF AggregateOverall
            <4>2. DOMAIN board.projects = config.projects
                BY BoardStatuses DEF ProjectStatuses
            <4>. QED BY <2>1, <3>1, <4>1, <4>2, HealthyProject
        <3>4. ASSUME AgentsProvider(config, read.rows, read.rowsErr) # "ok"
              PROVE  \E c \in CollectorNames(read.rows) :
                        LET x == CollectorSummary(config, read.rows, c)
                        IN  x.missing \cup x.old # {}
            <4>1. config.nodes # {}
                BY <2>1 DEF ConfigHolds
            <4>2. ~read.rowsErr
                BY <2>1, <3>2, <4>1 DEF Empty
            <4>3. ReportingNodes(config, read.rows) # {}
                BY <3>2, <4>1 DEF ReportingNodes
            <4>4. PICK c \in CollectorNames(read.rows) :
                     CollectorStatus(config, read.rows, c) # "ok"
                BY <3>1, <3>4, <4>2, <4>3 DEF AgentsProvider
            <4>5. CollectorSummary(config, read.rows, c).failed = {}
                BY <3>1, FailedCollector
            <4>. QED BY <4>4, <4>5 DEF CollectorStatus
        <3>. QED BY <3>1, <3>2, <3>3, <3>4
    <2>. QED BY <2>4, <2>5, <2>6 DEF IssuesTellTheBoard
<1>. QED BY <1>1, IInvAlways, PTL

-----------------------------------------------------------------------------

\* The row of a project, and what makes it "down".
LEMMA ImpactRow ==
    ASSUME NEW c, NEW kept, NEW p
    PROVE  LET E == {i \in kept : p \in Touched(c, i) /\ i.severity = "error"}
           IN  /\ Impact(c, kept, p).project = p
               /\ Impact(c, kept, p).errors = Cardinality(E)
               /\ Impact(c, kept, p).status = "down" <=> Cardinality(E) > 0
<1> DEFINE E == {i \in kept : p \in Touched(c, i) /\ i.severity = "error"}
           mine == {i \in kept : p \in Touched(c, i)}
           Count(severity) == Cardinality({i \in mine : i.severity = severity})
<1>1. Count("error") = Cardinality(E)
    <2>1. {i \in mine : i.severity = "error"} = E
        OBVIOUS
    <2>. QED BY <2>1
<1>2. Impact(c, kept, p) =
         [project |-> p, issues |-> Cardinality(mine),
          errors  |-> Count("error"), warns |-> Count("warn"),
          status  |-> IF Count("error") > 0 THEN "down"
                      ELSE IF Count("warn") > 0 THEN "degraded" ELSE "ok"]
    BY Zenon DEF Impact
<1> HIDE DEF Count, mine, E
<1>3. /\ Impact(c, kept, p).project = p
      /\ Impact(c, kept, p).errors = Cardinality(E)
      /\ Impact(c, kept, p).status = "down" <=> Cardinality(E) > 0
    BY <1>1, <1>2
<1>. QED BY <1>3 DEF E

\* The issue of an outage touches the projects that are near.
LEMMA TouchedByOutage ==
    ASSUME ConfigHolds(config), NEW s \in Outages, NEW q
    PROVE  q \in Touched(config, OutageIssue(s)) <=>
              q \in config.projects /\ Near(q, s)
<1> DEFINE i == OutageIssue(s)
<1>1. s \in config.services
    BY DEF Outages, ConfigHolds
<1>2. config.projectOf[s] \in config.projects \cup {None}
    BY <1>1 DEF ConfigHolds, ReferencesHold
<1>3. Touched(config, i) = ({config.projectOf[s]} \ {None}) \cup Owners(config, s)
                              \cup NodeOwners(config, config.nodeOf[s])
    BY <1>1, OutageIssueFields DEF Touched
<1>4. q \in Owners(config, s) <=> q \in config.projects /\ Owns(config, q, s)
    BY DEF Owners
<1>5. q \in NodeOwners(config, config.nodeOf[s]) <=>
         \E x \in config.services : /\ config.nodeOf[x] = config.nodeOf[s]
                                    /\ q \in config.projects /\ Owns(config, q, x)
    BY DEF NodeOwners, Owners
<1>6. Near(q, s) <=> \E x \in config.services : /\ Owns(config, q, x)
                                                /\ config.nodeOf[x] = config.nodeOf[s]
    BY DEF Near, OwnedServices
<1>7. config.projectOf[s] = q => Owns(config, q, s)
    BY DEF Owns
<1> HIDE DEF i
<1>. QED BY <1>1, <1>2, <1>3, <1>4, <1>5, <1>6, <1>7 DEF i

\* A row is "down" when an outage is near; only projects have such rows.
LEMMA DownRows ==
    ASSUME ConfigHolds(config), NEW q
    PROVE  /\ Impact(config, issues, q).project = q
           /\ Impact(config, issues, q).errors \in Nat
           /\ Impact(config, issues, q).errors > 0 <=>
                 q \in config.projects /\ \E s \in Outages : Near(q, s)
           /\ Impact(config, issues, q).status = "down" <=>
                 Impact(config, issues, q).errors > 0
<1> DEFINE errors == {i \in issues : i.severity = "error"}
           E == {i \in issues : q \in Touched(config, i) /\ i.severity = "error"}
<1>1. errors = {OutageIssue(s) : s \in Outages}
    BY ErrorOrigins
<1>2. IsFiniteSet(errors)
    <2> DEFINE f == [s \in Outages |-> OutageIssue(s)]
    <2>1. IsFiniteSet(DOMAIN f)
        <3>1. Outages \subseteq config.services /\ IsFiniteSet(config.services)
            BY DEF Outages, ConfigHolds
        <3>. QED BY <3>1, FS_Subset
    <2>2. Range(f) = errors
        BY <1>1 DEF Range
    <2> HIDE DEF f, errors
    <2>. QED BY <2>1, <2>2, ImageFinite
<1>3. E = {i \in errors : q \in Touched(config, i)}
    OBVIOUS
<1>4. IsFiniteSet(E)
    <2>1. E \subseteq errors
        OBVIOUS
    <2> HIDE DEF E, errors
    <2>. QED BY <1>2, <2>1, FS_Subset
<1>5. Cardinality(E) \in Nat /\ (Cardinality(E) > 0 <=> E # {})
    <2> HIDE DEF E
    <2>1. Cardinality(E) \in Nat /\ (Cardinality(E) = 0 <=> E = {})
        BY <1>4, FS_CardinalityType, FS_EmptySet
    <2>. QED BY <2>1
<1>6. E # {} <=> q \in config.projects /\ \E s \in Outages : Near(q, s)
    <2> HIDE DEF errors, E
    <2>1. E # {} <=> \E s \in Outages : q \in Touched(config, OutageIssue(s))
        BY <1>1, <1>3
    <2>. QED BY <2>1, TouchedByOutage
<1>7. /\ Impact(config, issues, q).project = q
      /\ Impact(config, issues, q).errors = Cardinality(E)
      /\ Impact(config, issues, q).status = "down" <=> Cardinality(E) > 0
    BY ImpactRow
<1> HIDE DEF E, errors
<1>. QED BY <1>5, <1>6, <1>7

\* No row that is "down" is cut off, as long as there is room for as many rows
\* as there are projects.
LEMMA DownRowsKept ==
    ASSUME ConfigHolds(config), Cardinality(config.projects) <= ImpactLimit,
           NEW impacts \in ImpactCuts(config, issues),
           NEW p \in config.projects, NEW s \in Outages, Near(p, s)
    PROVE  Impact(config, issues, p) \in impacts
<1> DEFINE row(q) == Impact(config, issues, q)
           U == UNION {Touched(config, i) : i \in issues}
           R == {row(q) : q \in U}
           full == {row(q) : q \in config.projects}
           others == full \ {row(p)}
<1>1. row(p) \in R
    <2>1. OutageIssue(s) \in issues
        BY ErrorOrigins
    <2>2. p \in Touched(config, OutageIssue(s))
        BY TouchedByOutage
    <2>. QED BY <2>1, <2>2
<1>2. impacts \in Cuts(R, ImpactLimit, MoreImpact)
    BY DEF ImpactCuts
<1>3. CASE Cardinality(R) <= ImpactLimit
    <2>1. impacts = R
        <3> HIDE DEF R
        <3>. QED BY <1>2, <1>3 DEF Cuts
    <2>. QED BY <1>1, <2>1
<1>4. CASE ~(Cardinality(R) <= ImpactLimit)
    <2>. SUFFICES ASSUME row(p) \notin impacts PROVE FALSE
        OBVIOUS
    <2>1. /\ impacts \subseteq R /\ Cardinality(impacts) = ImpactLimit
          /\ \A k \in impacts : ~MoreImpact(row(p), k)
        <3> HIDE DEF R, row
        <3>1. /\ impacts \in kSubset(ImpactLimit, R)
              /\ \A k \in impacts, d \in R \ impacts : ~MoreImpact(d, k)
            BY <1>2, <1>4 DEF Cuts
        <3>2. impacts \subseteq R /\ Cardinality(impacts) = ImpactLimit
            BY <3>1 DEF kSubset
        <3>. QED BY <1>1, <3>1, <3>2
    <2>2. row(p).errors \in Nat /\ row(p).errors > 0
        BY DownRows
    <2>3. ASSUME NEW k \in impacts PROVE k \in others
        <3>1. PICK q \in U : k = row(q)
            BY <2>1, <2>3
        <3>2. ~(row(p).errors > k.errors)
            BY <2>1, <2>3 DEF MoreImpact
        <3>3. row(q).errors \in Nat
            BY DownRows
        <3>4. row(q).errors > 0
            <4> HIDE DEF row
            <4>. QED BY <2>2, <3>1, <3>2, <3>3
        <3>5. q \in config.projects
            BY <3>4, DownRows
        <3>. QED BY <3>1, <3>5
    <2>4. IsFiniteSet(full) /\ Cardinality(full) <= Cardinality(config.projects)
        <3> DEFINE f == [q \in config.projects |-> row(q)]
        <3>1. f \in Surjection(config.projects, full)
            BY DEF Surjection
        <3>2. IsFiniteSet(config.projects)
            BY DEF ConfigHolds
        <3> HIDE DEF f, full
        <3>. QED BY <3>1, <3>2, FS_Surjection
    <2>5. IsFiniteSet(others) /\ Cardinality(others) = Cardinality(full) - 1
        <3>1. row(p) \in full
            OBVIOUS
        <3> HIDE DEF full, row
        <3>. QED BY <2>4, <3>1, FS_RemoveElement
    <2>6. Cardinality(impacts) <= Cardinality(others)
        <3>1. impacts \subseteq others
            BY <2>3
        <3> HIDE DEF others
        <3>. QED BY <2>5, <3>1, FS_Subset
    <2>7. /\ Cardinality(full) \in Nat /\ Cardinality(config.projects) \in Nat
          /\ ImpactLimit \in Nat /\ Cardinality(others) \in Nat
        <3> HIDE DEF full, others
        <3>. QED BY <2>4, <2>5, FS_CardinalityType, LimitAssumption DEF ConfigHolds
    <2> HIDE DEF full, others, row
    <2>. QED BY <2>1, <2>4, <2>5, <2>6, <2>7
<1>. QED BY <1>3, <1>4

\* While nothing is cut from the issues, and there is room for every project,
\* an impact is "down" for a reason and every reason makes one.
THEOREM ImpactsHaveReasons == Spec => []ImpactsAccounted
<1>1. IInv => ImpactsAccounted
    <2>. SUFFICES ASSUME IInv, Answered, Cardinality(issues) <= IssueLimit,
                         Cardinality(config.projects) <= ImpactLimit,
                         NEW p \in config.projects
                  PROVE  /\ ProjectOpsStatus(answer.impacts, p) = "down" <=>
                               \E s \in Outages : Near(p, s)
                         /\ board.projects[p] = "down" =>
                               ProjectOpsStatus(answer.impacts, p) = "down"
        BY DEF ImpactsAccounted
    <2> DEFINE row == Impact(config, issues, p)
    <2>1. ConfigHolds(config)
        BY DEF IInv
    <2>2. answer.kept = issues /\ answer.impacts \in ImpactCuts(config, issues)
        <3>1. /\ answer.kept \in IssueCuts(issues)
              /\ answer.impacts \in ImpactCuts(config, answer.kept)
            BY DEF IInv, AnswerInv
        <3>2. answer.kept = issues
            BY <3>1 DEF IssueCuts, Cuts
        <3>. QED BY <3>1, <3>2
    <2>3. \A i \in answer.impacts : i.project = p => i = row
        <3>1. ASSUME NEW R, NEW K \in Cuts(R, ImpactLimit, MoreImpact)
              PROVE  K \subseteq R
            BY DEF Cuts, kSubset
        <3>2. answer.impacts \subseteq
                 {Impact(config, issues, q) : q \in UNION {Touched(config, i) : i \in issues}}
            BY <2>2, <3>1 DEF ImpactCuts
        <3>3. \A q : Impact(config, issues, q).project = q
            BY <2>1, DownRows
        <3>. QED BY <3>2, <3>3
    <2>4. row.project = p /\ (row.status = "down" <=> \E s \in Outages : Near(p, s))
        BY <2>1, DownRows
    <2>5. ASSUME NEW s \in Outages, Near(p, s) PROVE row \in answer.impacts
        BY <2>1, <2>2, <2>5, DownRowsKept
    <2> HIDE DEF row
    <2>6. ProjectOpsStatus(answer.impacts, p) = "down" <=> \E s \in Outages : Near(p, s)
        <3>1. CASE \E i \in answer.impacts : i.project = p
            <4>1. (CHOOSE i \in answer.impacts : i.project = p) = row
                BY <2>3, <3>1
            <4>. QED BY <2>4, <3>1, <4>1 DEF ProjectOpsStatus
        <3>2. CASE ~\E i \in answer.impacts : i.project = p
            BY <2>4, <2>5, <3>2 DEF ProjectOpsStatus
        <3>. QED BY <3>1, <3>2
    <2>7. ASSUME board.projects[p] = "down" PROVE \E s \in Outages : Near(p, s)
        <3>1. PICK s \in ListedServices(config, p) :
                 s \in config.services \cap config.critical /\ Board(s) = "down"
            BY <2>1, <2>7, ProjectDown
        <3>2. s \in Outages /\ s \in OwnedServices(config, p)
            BY <3>1 DEF Outages, OwnedServices, Owns
        <3>. QED BY <3>2 DEF Near
    <2>. QED BY <2>6, <2>7
<1>. QED BY <1>1, IInvAlways, PTL
=============================================================================
