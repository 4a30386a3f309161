---------------------------- MODULE MetricsIngest ----------------------------
(***************************************************************************)
(* The metrics half of the store (backend/internal/app/store.go) and the   *)
(* two endpoints that feed it (server.go).  Agents post reports; each post *)
(* is a handler of its own.                                                *)
(*                                                                         *)
(*   v1   SaveMetrics: one transaction that upserts the basic columns of   *)
(*        the node's row of metrics_latest.                                *)
(*   v2   three visits to the single connection: storageRates reads the    *)
(*        node's newest sample; SaveMetrics as above; a second transaction *)
(*        writes the detail columns of the row, a sample and a report log, *)
(*        and prunes the last two tables.                                  *)
(*                                                                         *)
(* Other handlers run between the visits.  A handler may fail at any visit *)
(* (an SQL error, the agent's 8 s timeout cancelling its context) and the  *)
(* process may restart; what was committed stays.  That each transaction   *)
(* is one indivisible step is what StatusStore shows of the connection.    *)
(*                                                                         *)
(* A row of samples or logs is named by its position in `accepted`, the    *)
(* history of all reports whose second transaction committed.  Values of   *)
(* the readings are left out: a rate is the interval it averages over.     *)
(***************************************************************************)
EXTENDS Integers, Sequences, FiniteSets

CONSTANTS
    Nodes, Handlers,
    Retention,      \* metricsRetention
    LogRetention,   \* reportLogRetention
    LogLimit,       \* reportLogLimit
    NoReport,       \* no row, no details, an idle handler's report
    MaxTime,        \* bound: of captured_at, by the agents' clocks
    MaxNow,         \* bound: of the server's clock
    MaxReports      \* bound: posts received

ASSUME SettingsAssumption ==
    /\ Retention \in Nat \ {0}
    /\ LogRetention \in Nat \ {0}
    /\ LogLimit \in Nat \ {0}
ASSUME BoundAssumption ==
    /\ {MaxTime, MaxNow} \subseteq Nat \ {0}
    /\ MaxReports \in Nat

Times == 1..MaxTime
Clock == 1..MaxNow

VARIABLES
    now,            \* time.Now() of the server
    latest,         \* metrics_latest: whose basic and detail columns it has
    samples, logs,  \* rows of metrics_samples and metrics_report_logs, by id
    accepted,       \* history: every row ever inserted into them
    pc,             \* the next visit of each handler
    report,         \* the report it handles
    since,          \* where the interval of its storage rates starts
    stamp,          \* `now` of SaveMetricsV2
    received,       \* how many posts were received, for the bound
    alone,          \* history: no other post of the node overlapped it
    torn            \* history: why a node's row may mix two reports

tables == <<latest, samples, logs, accepted>>
work == <<pc, report, since, stamp>>
vars == <<now, tables, work, received, alone, torn>>

Report == [id : 1..MaxReports, node : Nodes, captured : Times, version : {1, 2}]

Row == [basic : Report, detail : Report \cup {NoReport}]

ASSUME NoReportAssumption == NoReport \notin Report \cup Row

Sample == [report : Report, since : Times, received : Clock, alone : BOOLEAN]

TypeOK ==
    /\ now \in Clock
    /\ latest \in [Nodes -> Row \cup {NoReport}]
    /\ accepted \in Seq(Sample)
    /\ samples \subseteq 1..Len(accepted)
    /\ logs \subseteq 1..Len(accepted)
    /\ pc \in [Handlers -> {"idle", "rates", "basic", "detail"}]
    /\ report \in [Handlers -> Report \cup {NoReport}]
    /\ \A h \in Handlers : pc[h] = "idle" <=> report[h] = NoReport
    /\ since \in [Handlers -> Times]
    /\ stamp \in [Handlers -> Clock]
    /\ received \in 0..MaxReports
    /\ alone \in [Handlers -> BOOLEAN]
    /\ torn \in [Nodes -> BOOLEAN]

Init ==
    /\ now = 1
    /\ latest = [n \in Nodes |-> NoReport]
    /\ accepted = <<>>
    /\ samples = {}
    /\ logs = {}
    /\ pc = [h \in Handlers |-> "idle"]
    /\ report = [h \in Handlers |-> NoReport]
    /\ since = [h \in Handlers |-> 1]
    /\ stamp = [h \in Handlers |-> 1]
    /\ received = 0
    /\ alone = [h \in Handlers |-> TRUE]
    /\ torn = [n \in Nodes |-> FALSE]

-----------------------------------------------------------------------------

Goto(h, next) == pc' = [pc EXCEPT ![h] = next]

\* The handler answers and forgets its report; its locals no longer matter.
Return(h) ==
    /\ Goto(h, "idle")
    /\ report' = [report EXCEPT ![h] = NoReport]
    /\ since' = [since EXCEPT ![h] = 1]
    /\ stamp' = [stamp EXCEPT ![h] = 1]
    /\ alone' = [alone EXCEPT ![h] = TRUE]

\* Handlers at work on a report of node n.
Serving(n) == {h \in Handlers : report[h] # NoReport /\ report[h].node = n}

\* metricsReport, metricsReportV2: a post with a valid token and a node_id.
\* captured_at is the agent's clock when it measured: late, or ahead.
Receive(h, n, t, v) ==
    /\ pc[h] = "idle"
    /\ received < MaxReports
    /\ received' = received + 1
    /\ report' = [report EXCEPT ![h] =
                     [id |-> received + 1, node |-> n, captured |-> t, version |-> v]]
    /\ alone' = [x \in Handlers |->
                    IF x = h THEN Serving(n) = {}
                    ELSE alone[x] /\ x \notin Serving(n)]
    /\ Goto(h, IF v = 2 THEN "rates" ELSE "basic")
    /\ UNCHANGED <<now, tables, since, stamp, torn>>

\* Mutant of SampleTimes: of the sample inserted last.
SampleTimesLast(n) ==
    LET S == {j \in samples : accepted[j].report.node = n}
    IN  {accepted[i].report.captured : i \in {j \in S : \A k \in S : k <= j}}

\* captured_at of the node's samples.
SampleTimes(n) ==
    {accepted[i].report.captured : i \in {j \in samples : accepted[j].report.node = n}}

\* storageRates: the interval since the sample captured last; a report that
\* is not newer, or the first one, has the empty interval and rate 0.
ReadRates(h) ==
    LET t == report[h].captured
        T == SampleTimes(report[h].node)
    IN  /\ pc[h] = "rates"
        /\ since' = [since EXCEPT ![h] =
                IF T # {} /\ \A x \in T : x < t
                THEN CHOOSE x \in T : \A y \in T : y <= x
                ELSE t]
        /\ Goto(h, "basic")
        /\ UNCHANGED <<now, tables, report, stamp, received, alone, torn>>

\* Mutant of Upserted: a row measured later is not overwritten.
UpsertedNewer(row, r) ==
    IF row = NoReport THEN [basic |-> r, detail |-> NoReport]
    ELSE IF row.basic.captured > r.captured THEN row
    ELSE [row EXCEPT !.basic = r]

\* INSERT INTO metrics_latest ... ON CONFLICT(node_id) DO UPDATE: only the
\* basic columns are set, a new row has the defaults in the others.
Upserted(row, r) ==
    IF row = NoReport THEN [basic |-> r, detail |-> NoReport]
    ELSE [row EXCEPT !.basic = r]

\* SaveMetrics; the clock is read for the second transaction of a v2 report.
SaveBasic(h) ==
    LET r == report[h]  n == r.node IN
    /\ pc[h] = "basic"
    /\ latest' = [latest EXCEPT ![n] = Upserted(@, r)]
    /\ IF r.version = 2
       THEN /\ stamp' = [stamp EXCEPT ![h] = now]
            /\ Goto(h, "detail")
            /\ UNCHANGED <<report, since, alone, torn>>
       ELSE /\ torn' = [torn EXCEPT ![n] = TRUE]
            /\ Return(h)
    /\ UNCHANGED <<now, samples, logs, accepted, received>>

\* Mutant of KeptSamples: only the reporting node's samples are pruned.
KeptSamplesOfOthers(all, S, r) ==
    {i \in S : \/ all[i].report.node # r.node
               \/ all[i].report.captured >= r.captured - Retention}

\* DELETE FROM metrics_samples WHERE captured_at < ?, for every node.
KeptSamples(all, S, r) ==
    {i \in S : all[i].report.captured >= r.captured - Retention}

\* Mutant of Newest: the comparison is off by one.
NewestPlusOne(L) == {i \in L : Cardinality({j \in L : j > i}) <= LogLimit}

\* SELECT id FROM metrics_report_logs ORDER BY id DESC LIMIT ?
Newest(L) == {i \in L : Cardinality({j \in L : j > i}) < LogLimit}

\* The two DELETEs on metrics_report_logs.
KeptLogs(all, L, t) ==
    Newest({i \in L : all[i].received >= t - LogRetention})

\* The second transaction of SaveMetricsV2.
SaveDetail(h) ==
    LET r == report[h]  n == r.node
        row == [report |-> r, since |-> since[h], received |-> stamp[h],
                alone |-> alone[h]]
        id == Len(accepted) + 1
    IN  /\ pc[h] = "detail"
        /\ latest' = [latest EXCEPT ![n].detail = r]
        /\ accepted' = Append(accepted, row)
        /\ samples' = KeptSamples(accepted', samples \cup {id}, r)
        /\ logs' = KeptLogs(accepted', logs \cup {id}, stamp[h])
        /\ torn' = [torn EXCEPT ![n] = ~alone[h]]
        /\ Return(h)
        /\ UNCHANGED <<now, received>>

\* Mutant of Fail: the sample was inserted outside the transaction.
FailKeepsSample(h) ==
    /\ pc[h] # "idle"
    /\ torn' = [n \in Nodes |->
                   torn[n] \/ (pc[h] = "detail" /\ report[h].node = n)]
    /\ samples' = IF pc[h] = "detail" THEN samples \cup {Len(accepted) + 1}
                  ELSE samples
    /\ Return(h)
    /\ UNCHANGED <<now, latest, logs, accepted, received>>

\* A visit fails: its transaction is rolled back and the handler answers 500.
Fail(h) ==
    /\ pc[h] # "idle"
    /\ torn' = [n \in Nodes |->
                   torn[n] \/ (pc[h] = "detail" /\ report[h].node = n)]
    /\ Return(h)
    /\ UNCHANGED <<now, tables, received>>

Restart ==
    /\ pc # [h \in Handlers |-> "idle"]
    /\ torn' = [n \in Nodes |->
                   torn[n] \/ \E h \in Serving(n) : pc[h] = "detail"]
    /\ pc' = [h \in Handlers |-> "idle"]
    /\ report' = [h \in Handlers |-> NoReport]
    /\ since' = [h \in Handlers |-> 1]
    /\ stamp' = [h \in Handlers |-> 1]
    /\ alone' = [h \in Handlers |-> TRUE]
    /\ UNCHANGED <<now, tables, received>>

Tick ==
    /\ now < MaxNow
    /\ now' = now + 1
    /\ UNCHANGED <<tables, work, received, alone, torn>>

Next ==
    \/ \E h \in Handlers :
          \/ \E n \in Nodes, t \in Times, v \in {1, 2} : Receive(h, n, t, v)
          \/ ReadRates(h) \/ SaveBasic(h) \/ SaveDetail(h) \/ Fail(h)
    \/ Restart
    \/ Tick

Spec == Init /\ [][Next]_vars

-----------------------------------------------------------------------------

(***************************************************************************)
(* What is in metrics_samples depends only on the order in which reports   *)
(* were accepted: a sample is there exactly as long as no report accepted  *)
(* since, of any node, was captured more than Retention later.  No history *)
(* younger than that is lost and no older sample outlives the next report  *)
(* that could prune it, whatever handlers overlapped, failed or came late. *)
(***************************************************************************)
HistoryIsExact ==
    samples = {i \in 1..Len(accepted) :
                  \A j \in i..Len(accepted) :
                      accepted[i].report.captured
                          >= accepted[j].report.captured - Retention}

(***************************************************************************)
(* The report log stays within its cap, holds nothing older than           *)
(* LogRetention at a later acceptance, and drops nothing that is among the *)
(* newest LogLimit reports and young enough - although `received` is read  *)
(* before the wait for the connection and so need not grow with the ids.   *)
(***************************************************************************)
LogIsBounded ==
    LET n == Len(accepted)
        Young(i) == \A j \in i..n :
                       accepted[i].received >= accepted[j].received - LogRetention
    IN  /\ Cardinality(logs) <= LogLimit
        /\ \A i \in logs : Young(i)
        /\ \A i \in 1..n : i > n - LogLimit /\ Young(i) => i \in logs

(***************************************************************************)
(* A node's row of metrics_latest shows one report, not a mix of two: once *)
(* no second transaction of the node is pending, unless a v1 report came   *)
(* since, a v2 report failed halfway, or posts of the node overlapped -    *)
(* and the next undisturbed v2 report mends it.                            *)
(***************************************************************************)
RowWhole ==
    \A n \in Nodes :
        /\ latest[n] # NoReport
        /\ ~torn[n]
        /\ \A h \in Serving(n) : pc[h] # "detail"
        => latest[n].detail = latest[n].basic

\* The times (a, b] and (c, d] have nothing in common.
Disjoint(a, b, c, d) == b <= a \/ d <= c \/ b <= c \/ d <= a

(***************************************************************************)
(* No traffic is counted twice in a node's history: the intervals that the *)
(* storage rates of two samples average over are disjoint, late reports    *)
(* and reports of a clock running ahead included, unless the two posts     *)
(* overlapped (both read the same newest sample before either wrote).      *)
(***************************************************************************)
RatesCountOnce ==
    \A i, j \in samples :
        LET a == accepted[i]  b == accepted[j] IN
        i # j /\ a.report.node = b.report.node /\ (a.alone \/ b.alone)
        => Disjoint(a.since, a.report.captured, b.since, b.report.captured)

(***************************************************************************)
(* docs/architecture/api-contract.md: in the latest metrics of a node that *)
(* sent a v1 report, "missing v2 fields fall back to empty lists or zero   *)
(* values".                                                                *)
(***************************************************************************)
V1FallsBack ==
    \A n \in Nodes :
        latest[n] # NoReport /\ latest[n].basic.version = 1
        => latest[n].detail = NoReport
=============================================================================
