-------------------------- MODULE MetricsIngestProofs --------------------------
(***************************************************************************)
(* What is proved of MetricsIngest, for every set of nodes and handlers    *)
(* and every retention:                                                    *)
(*                                                                         *)
(*   TypeCorrect          Spec => []TypeOK                                 *)
(*   HistoryExact         Spec => []HistoryIsExact                         *)
(*   TrafficCountedOnce   Spec => []RatesCountOnce                         *)
(*   RowsWhole            Spec => []RowWhole                               *)
(*   LogBounded           Spec => []LogIsBounded                           *)
(*                                                                         *)
(* TypeOK is not inductive by itself: SaveDetail updates a row that must   *)
(* exist, which RowBeforeDetail adds.  HistoryIsExact and LogIsBounded are *)
(* inductive relative to the two; only SaveDetail touches what they are    *)
(* about.  The other two depend on what a handler carries from one visit   *)
(* to the next, and on overlapping handlers of one node knowing of it      *)
(* (OverlapMarked): RatesInv and RowInv say so.                            *)
(***************************************************************************)
EXTENDS MetricsIngest, FiniteSetTheorems, WellFoundedInduction, TLAPS

USE DEF Times, Clock

\* A handler that is about to run UPDATE metrics_latest finds the node's row.
RowBeforeDetail ==
    \A h \in Handlers : pc[h] = "detail" => latest[report[h].node] # NoReport

IInv == TypeOK /\ RowBeforeDetail

-----------------------------------------------------------------------------

\* A handler that returns is idle without a report and leaves the others.
LEMMA ReturnTypes ==
    ASSUME TypeOK, NEW h \in Handlers, Return(h)
    PROVE  /\ pc' \in [Handlers -> {"idle", "rates", "basic", "detail"}]
           /\ report' \in [Handlers -> Report \cup {NoReport}]
           /\ \A x \in Handlers : pc'[x] = "idle" <=> report'[x] = NoReport
           /\ since' \in [Handlers -> Times]
           /\ stamp' \in [Handlers -> Clock]
           /\ alone' \in [Handlers -> BOOLEAN]
  BY BoundAssumption DEF TypeOK, Return, Goto

\* The row of a node after its basic columns were written.
LEMMA UpsertedIsRow ==
    ASSUME NEW row \in Row \cup {NoReport}, NEW r \in Report
    PROVE  Upserted(row, r) \in Row
  BY DEF Upserted, Row

\* A handler that is not idle has a report.
LEMMA BusyHasReport ==
    ASSUME TypeOK, NEW h \in Handlers, pc[h] # "idle"
    PROVE  report[h] \in Report
  BY DEF TypeOK

LEMMA InitTypeOK == Init => TypeOK
  BY BoundAssumption DEF Init, TypeOK

LEMMA ReceiveTypeOK ==
    ASSUME TypeOK, NEW h \in Handlers, NEW n \in Nodes, NEW t \in Times,
           NEW v \in {1, 2}, Receive(h, n, t, v)
    PROVE  TypeOK'
  <1> DEFINE r == [id |-> received + 1, node |-> n, captured |-> t, version |-> v]
  <1>1. received' \in 0..MaxReports /\ received + 1 \in 1..MaxReports
    BY BoundAssumption DEF TypeOK, Receive
  <1>2. r \in Report
    BY <1>1 DEF Report
  <1>3. /\ report' \in [Handlers -> Report \cup {NoReport}]
        /\ pc' \in [Handlers -> {"idle", "rates", "basic", "detail"}]
        /\ \A x \in Handlers : pc'[x] = "idle" <=> report'[x] = NoReport
    BY <1>2, NoReportAssumption DEF TypeOK, Receive, Goto
  <1>4. alone' \in [Handlers -> BOOLEAN]
    BY DEF TypeOK, Receive
  <1>5. QED
    BY <1>1, <1>3, <1>4 DEF TypeOK, Receive, tables

\* A set of naturals that is not empty has a least member.
LEMMA LeastNatural ==
    ASSUME NEW T, T \subseteq Nat, T # {}
    PROVE  \E x \in T : \A y \in T : x <= y
  <1>1. \E x \in T : \A y \in T : ~(y < x)
    <2>1. PICK x \in T : \A y \in T : <<y, x>> \notin OpToRel(<, Nat)
      BY WFMin, NatLessThanWellFounded
    <2>2. \A y \in T : ~(y < x)
      BY <2>1 DEF OpToRel
    <2>3. QED
      BY <2>2
  <1>2. QED
    BY <1>1

\* A set of times that is not empty has a latest one: the one at the least
\* distance from MaxTime.
LEMMA LatestTime ==
    ASSUME NEW T, T \subseteq Times, T # {}
    PROVE  \E x \in T : \A y \in T : y <= x
  <1> DEFINE D == {MaxTime - x : x \in T}
  <1>1. MaxTime \in Nat /\ \A x \in T : x \in 1..MaxTime
    BY BoundAssumption
  <1>2. D \subseteq Nat /\ D # {}
    <2>1. \A x \in T : MaxTime - x \in Nat
      BY <1>1
    <2>2. D \subseteq Nat
      BY <2>1
    <2>3. D # {}
      OBVIOUS
    <2>4. QED
      BY <2>2, <2>3
  <1>3. PICK d \in D : \A e \in D : d <= e
    <2> HIDE DEF D
    <2> QED  BY <1>2, LeastNatural
  <1>4. PICK x \in T : d = MaxTime - x
    OBVIOUS
  <1>5. \A y \in T : MaxTime - x <= MaxTime - y
    BY <1>3, <1>4
  <1>6. QED
    BY <1>1, <1>5

\* The rows that the ids in the two tables name.
LEMMA SampleRow ==
    ASSUME TypeOK, NEW i \in 1..Len(accepted)
    PROVE  accepted[i] \in Sample
  BY DEF TypeOK

LEMMA ReadRatesTypeOK ==
    ASSUME TypeOK, NEW h \in Handlers, ReadRates(h)
    PROVE  TypeOK'
  <1> DEFINE t == report[h].captured
             T == SampleTimes(report[h].node)
             newest == CHOOSE x \in T : \A y \in T : y <= x
             start == IF T # {} /\ \A x \in T : x < t THEN newest ELSE t
  <1>1. t \in Times
    BY BusyHasReport DEF ReadRates, Report
  <1>2. T \subseteq Times
    <2> SUFFICES ASSUME NEW i \in samples
                 PROVE  accepted[i].report.captured \in Times
      BY DEF SampleTimes
    <2>1. accepted[i] \in Sample
      BY SampleRow DEF TypeOK
    <2>2. QED
      BY <2>1 DEF Sample, Report
  <1>3. T # {} => newest \in T
    BY <1>2, LatestTime
  <1>4. since' = [since EXCEPT ![h] = start]
    BY DEF ReadRates
  <1>5. start \in Times
    BY <1>1, <1>2, <1>3
  <1>6. since' \in [Handlers -> Times]
    <2> HIDE DEF start
    <2> QED  BY <1>4, <1>5 DEF TypeOK
  <1>7. QED
    BY <1>6 DEF TypeOK, ReadRates, Goto, tables

LEMMA SaveBasicTypeOK ==
    ASSUME TypeOK, NEW h \in Handlers, SaveBasic(h)
    PROVE  TypeOK'
  <1> DEFINE r == report[h]
             n == r.node
  <1>1. r \in Report /\ n \in Nodes
    BY BusyHasReport DEF SaveBasic, Report
  <1>2. latest' \in [Nodes -> Row \cup {NoReport}]
    <2>1. Upserted(latest[n], r) \in Row
      BY <1>1, UpsertedIsRow DEF TypeOK
    <2>2. QED
      BY <1>1, <2>1 DEF TypeOK, SaveBasic
  <1>3. CASE r.version = 2
    <2>1. /\ pc' \in [Handlers -> {"idle", "rates", "basic", "detail"}]
          /\ stamp' \in [Handlers -> Clock]
          /\ \A x \in Handlers : pc'[x] = "idle" <=> pc[x] = "idle"
      BY <1>3 DEF TypeOK, SaveBasic, Goto
    <2>2. QED
      BY <1>2, <1>3, <2>1 DEF TypeOK, SaveBasic
  <1>4. CASE r.version # 2
    <2>1. torn' \in [Nodes -> BOOLEAN]
      BY <1>1, <1>4 DEF TypeOK, SaveBasic
    <2>2. Return(h)
      BY <1>4 DEF SaveBasic
    <2>3. QED
      BY <1>2, <2>1, <2>2, ReturnTypes DEF TypeOK, SaveBasic
  <1>5. QED
    BY <1>3, <1>4

\* The row that SaveDetail inserts, and the length of the history after it.
LEMMA SaveDetailInserts ==
    ASSUME TypeOK, NEW h \in Handlers, SaveDetail(h)
    PROVE  /\ report[h] \in Report
           /\ accepted' \in Seq(Sample)
           /\ Len(accepted') = Len(accepted) + 1
           /\ accepted'[Len(accepted) + 1].report = report[h]
           /\ \A i \in 1..Len(accepted) : accepted'[i] = accepted[i]
  <1> DEFINE row == [report |-> report[h], since |-> since[h],
                     received |-> stamp[h], alone |-> alone[h]]
  <1>1. report[h] \in Report
    BY BusyHasReport DEF SaveDetail
  <1>2. row \in Sample
    BY <1>1 DEF TypeOK, Sample
  <1>3. accepted \in Seq(Sample) /\ accepted' = Append(accepted, row)
    BY DEF TypeOK, SaveDetail
  <1>4. row.report = report[h]
    OBVIOUS
  <1> HIDE DEF row
  <1>5. QED
    BY <1>1, <1>2, <1>3, <1>4

LEMMA SaveDetailTypeOK ==
    ASSUME IInv, NEW h \in Handlers, SaveDetail(h)
    PROVE  TypeOK'
  <1> DEFINE r == report[h]
             n == r.node
  <1> USE DEF IInv
  <1>1. r \in Report /\ n \in Nodes
    BY SaveDetailInserts DEF Report
  <1>2. accepted' \in Seq(Sample) /\ Len(accepted') = Len(accepted) + 1
    BY SaveDetailInserts
  <1>3. latest' \in [Nodes -> Row \cup {NoReport}]
    <2>1. pc[h] = "detail" /\ latest' = [latest EXCEPT ![n].detail = r]
      BY DEF SaveDetail
    <2>2. latest[n] \in Row
      BY <1>1, <2>1 DEF TypeOK, RowBeforeDetail
    <2>3. [latest[n] EXCEPT !.detail = r] \in Row
      BY <1>1, <2>2 DEF Row
    <2>4. QED
      BY <1>1, <2>1, <2>3 DEF TypeOK
  <1>4. samples' \subseteq 1..Len(accepted')
    BY <1>2 DEF TypeOK, SaveDetail, KeptSamples
  <1>5. logs' \subseteq 1..Len(accepted')
    BY <1>2 DEF TypeOK, SaveDetail, KeptLogs, Newest
  <1>6. torn' \in [Nodes -> BOOLEAN]
    BY <1>1 DEF TypeOK, SaveDetail
  <1>7. Return(h)
    BY DEF SaveDetail
  <1>8. QED
    BY <1>2, <1>3, <1>4, <1>5, <1>6, <1>7, ReturnTypes DEF TypeOK, SaveDetail

LEMMA FailTypeOK ==
    ASSUME TypeOK, NEW h \in Handlers, Fail(h)
    PROVE  TypeOK'
  <1>1. torn' \in [Nodes -> BOOLEAN]
    BY DEF TypeOK, Fail
  <1>2. QED
    BY <1>1, ReturnTypes DEF TypeOK, Fail, tables

LEMMA RestartTypeOK ==
    ASSUME TypeOK, Restart
    PROVE  TypeOK'
  <1>1. torn' \in [Nodes -> BOOLEAN]
    BY DEF TypeOK, Restart
  <1>2. QED
    BY <1>1, BoundAssumption DEF TypeOK, Restart, tables

LEMMA TickTypeOK ==
    ASSUME TypeOK, Tick
    PROVE  TypeOK'
  BY BoundAssumption DEF TypeOK, Tick, tables, work

LEMMA StepTypeOK == IInv /\ [Next]_vars => TypeOK'
  <1> SUFFICES ASSUME IInv, [Next]_vars
               PROVE  TypeOK'
    OBVIOUS
  <1> USE DEF IInv
  <1>1. CASE UNCHANGED vars
    BY <1>1 DEF TypeOK, vars, tables, work
  <1>2. CASE \E h \in Handlers, n \in Nodes, t \in Times, v \in {1, 2} :
                Receive(h, n, t, v)
    BY <1>2, ReceiveTypeOK
  <1>3. CASE \E h \in Handlers :
                ReadRates(h) \/ SaveBasic(h) \/ SaveDetail(h) \/ Fail(h)
    BY <1>3, ReadRatesTypeOK, SaveBasicTypeOK, SaveDetailTypeOK, FailTypeOK
  <1>4. CASE Restart \/ Tick
    BY <1>4, RestartTypeOK, TickTypeOK
  <1>5. QED
    BY <1>1, <1>2, <1>3, <1>4 DEF Next

\* Rows of metrics_latest are never deleted.
LEMMA RowsStay ==
    ASSUME IInv, [Next]_vars, NEW n \in Nodes, latest[n] # NoReport
    PROVE  latest'[n] # NoReport
  <1> USE DEF IInv
  <1>1. CASE \E h \in Handlers : SaveBasic(h)
    <2>1. PICK h \in Handlers : SaveBasic(h)
      BY <1>1
    <2>2. report[h] \in Report
      BY <2>1, BusyHasReport DEF SaveBasic
    <2>3. Upserted(latest[n], report[h]) \in Row
      BY <2>2, UpsertedIsRow DEF TypeOK
    <2>4. latest'[n] \in {latest[n], Upserted(latest[n], report[h])}
      BY <2>1 DEF SaveBasic, TypeOK
    <2>5. QED
      BY <2>3, <2>4, NoReportAssumption
  <1>2. CASE \E h \in Handlers : SaveDetail(h)
    <2>1. PICK h \in Handlers : SaveDetail(h)
      BY <1>2
    <2>2. [latest[n] EXCEPT !.detail = report[h]] \in Row
      <3>1. latest[n] \in Row /\ report[h] \in Report
        BY <2>1, SaveDetailInserts DEF TypeOK
      <3>2. QED
        BY <3>1 DEF Row
    <2>3. latest'[n] \in {latest[n], [latest[n] EXCEPT !.detail = report[h]]}
      BY <2>1 DEF SaveDetail, TypeOK
    <2>4. QED
      BY <2>2, <2>3, NoReportAssumption
  <1>3. CASE UNCHANGED latest
    BY <1>3
  <1>4. ASSUME NEW h \in Handlers,
               \/ \E m \in Nodes, t \in Times, v \in {1, 2} : Receive(h, m, t, v)
               \/ ReadRates(h) \/ Fail(h)
        PROVE  UNCHANGED latest
    BY <1>4 DEF Receive, ReadRates, Fail, tables
  <1>5. CASE Restart \/ Tick
    BY <1>3, <1>5 DEF Restart, Tick, tables
  <1>6. CASE UNCHANGED vars
    BY <1>3, <1>6 DEF vars, tables
  <1>7. QED
    BY <1>1, <1>2, <1>3, <1>4, <1>5, <1>6 DEF Next

LEMMA StepRowBeforeDetail == IInv /\ [Next]_vars => RowBeforeDetail'
  <1> SUFFICES ASSUME IInv, [Next]_vars, NEW h \in Handlers, pc'[h] = "detail"
               PROVE  latest'[report'[h].node] # NoReport
    BY DEF RowBeforeDetail
  <1> USE DEF IInv
  <1>1. TypeOK'
    BY StepTypeOK
  <1>2. CASE pc[h] = "detail" /\ report'[h] = report[h]
    <2>1. report[h].node \in Nodes /\ latest[report[h].node] # NoReport
      BY <1>2, BusyHasReport DEF RowBeforeDetail, Report
    <2>2. QED
      BY <1>2, <2>1, RowsStay
  <1>3. CASE SaveBasic(h)
    <2>1. report[h] \in Report /\ report[h].node \in Nodes
      BY <1>3, BusyHasReport DEF SaveBasic, Report
    <2>2. report'[h] = report[h]
      BY <1>3 DEF SaveBasic, Return, Goto, TypeOK
    <2>3. latest'[report[h].node] = Upserted(latest[report[h].node], report[h])
      BY <1>3, <2>1 DEF SaveBasic, TypeOK
    <2>4. Upserted(latest[report[h].node], report[h]) \in Row
      BY <2>1, UpsertedIsRow DEF TypeOK
    <2>5. QED
      BY <2>2, <2>3, <2>4, NoReportAssumption
  <1>4. CASE UNCHANGED <<pc, report>>
    BY <1>2, <1>4
  <1>5. CASE UNCHANGED vars \/ Tick \/ Restart
    BY <1>4, <1>5 DEF vars, Tick, Restart, work
  <1>6. ASSUME NEW x \in Handlers,
               \/ \E n \in Nodes, t \in Times, v \in {1, 2} : Receive(x, n, t, v)
               \/ ReadRates(x) \/ SaveBasic(x) \/ SaveDetail(x) \/ Fail(x)
        PROVE  \/ pc[h] = "detail" /\ report'[h] = report[h]
               \/ SaveBasic(h)
    <2>1. CASE x = h
      BY <1>6, <2>1 DEF Receive, ReadRates, SaveDetail, Fail, Return, Goto, TypeOK
    <2>2. CASE x # h
      BY <1>6, <2>2 DEF Receive, ReadRates, SaveBasic, SaveDetail, Fail, Return,
                        Goto, TypeOK
    <2>3. QED
      BY <2>1, <2>2
  <1>7. QED
    BY <1>2, <1>3, <1>5, <1>6 DEF Next

LEMMA InitIInv == Init => IInv
  BY InitTypeOK DEF IInv, Init, RowBeforeDetail

LEMMA StepIInv == IInv /\ [Next]_vars => IInv'
  BY StepTypeOK, StepRowBeforeDetail DEF IInv

(***************************************************************************)
(* The tables and the handlers keep their types; in particular a sample or *)
(* report log always names a report that was accepted.                     *)
(***************************************************************************)
THEOREM TypeCorrect == Spec => []TypeOK
  <1>1. IInv => TypeOK
    BY DEF IInv
  <1>2. QED
    BY <1>1, InitIInv, StepIInv, PTL DEF Spec

-----------------------------------------------------------------------------

\* What the pruning of one more accepted report leaves is exact again.
LEMMA SaveDetailHistory ==
    ASSUME TypeOK, HistoryIsExact, NEW h \in Handlers, SaveDetail(h)
    PROVE  HistoryIsExact'
  <1> DEFINE n == Len(accepted)
             r == report[h]
             Kept(all, i, j) == all[i].report.captured
                                    >= all[j].report.captured - Retention
  <1>1. n \in Nat /\ Len(accepted') = n + 1
    BY SaveDetailInserts DEF TypeOK
  <1>2. accepted'[n + 1].report = r
    BY SaveDetailInserts
  <1>3. \A i \in 1..n : accepted'[i] = accepted[i]
    BY SaveDetailInserts
  <1>4. samples' = {i \in samples \cup {n + 1} : Kept(accepted', i, n + 1)}
    BY <1>2 DEF SaveDetail, KeptSamples
  <1>5. Kept(accepted', n + 1, n + 1)
    <2>1. r.captured \in Int
      BY SaveDetailInserts DEF Report
    <2>2. QED
      BY <1>2, <2>1, SettingsAssumption
  <1>6. samples = {i \in 1..n : \A j \in i..n : Kept(accepted, i, j)}
    BY DEF HistoryIsExact
  <1>7. \A i \in 1..n : \A j \in i..n :
            Kept(accepted', i, j) <=> Kept(accepted, i, j)
    BY <1>1, <1>3
  <1> HIDE DEF n, Kept
  <1>8. ASSUME NEW i
        PROVE  i \in samples' <=>
                  /\ i \in 1..(n + 1)
                  /\ \A j \in i..(n + 1) : Kept(accepted', i, j)
    <2>1. CASE i \in 1..n
      <3>1. i \in samples' <=> i \in samples /\ Kept(accepted', i, n + 1)
        BY <1>1, <1>4, <2>1
      <3>2. i \in samples <=> \A j \in i..n : Kept(accepted', i, j)
        BY <1>6, <1>7, <2>1
      <3>3. i..(n + 1) = i..n \cup {n + 1}
        BY <1>1, <2>1
      <3>4. QED
        BY <3>1, <3>2, <3>3, <1>1, <2>1
    <2>2. CASE i = n + 1
      BY <1>1, <1>4, <1>5, <2>2
    <2>3. CASE i \notin 1..(n + 1)
      BY <1>1, <1>4, <1>6, <2>3
    <2>4. QED
      BY <1>1, <2>1, <2>2, <2>3
  <1>9. samples' = {i \in 1..(n + 1) :
                       \A j \in i..(n + 1) : Kept(accepted', i, j)}
    BY <1>8
  <1>10. QED
    BY <1>1, <1>9 DEF HistoryIsExact, Kept, n

\* Every other step leaves the samples and the accepted reports alone.
LEMMA StepHistory ==
    TypeOK /\ HistoryIsExact /\ [Next]_vars => HistoryIsExact'
  <1> SUFFICES ASSUME TypeOK, HistoryIsExact, [Next]_vars
               PROVE  HistoryIsExact'
    OBVIOUS
  <1>1. CASE \E h \in Handlers : SaveDetail(h)
    BY <1>1, SaveDetailHistory
  <1>2. CASE UNCHANGED <<samples, accepted>>
    BY <1>2 DEF HistoryIsExact
  <1>3. CASE UNCHANGED vars
    BY <1>2, <1>3 DEF vars, tables
  <1>4. ASSUME NEW h \in Handlers,
               \/ \E n \in Nodes, t \in Times, v \in {1, 2} : Receive(h, n, t, v)
               \/ ReadRates(h) \/ SaveBasic(h) \/ Fail(h)
        PROVE  UNCHANGED <<samples, accepted>>
    BY <1>4 DEF Receive, ReadRates, SaveBasic, Fail, tables
  <1>5. CASE Restart \/ Tick
    BY <1>2, <1>5 DEF Restart, Tick, tables
  <1>6. QED
    BY <1>1, <1>2, <1>3, <1>4, <1>5 DEF Next

(***************************************************************************)
(* For every retention, however many nodes report and however their posts  *)
(* overlap, fail or come late, the history holds exactly the accepted      *)
(* reports that no report accepted since outdates.                         *)
(***************************************************************************)
THEOREM HistoryExact == Spec => []HistoryIsExact
  <1>1. Init => HistoryIsExact
    BY DEF Init, HistoryIsExact
  <1>2. IInv => TypeOK
    BY DEF IInv
  <1>3. QED
    BY <1>1, <1>2, InitIInv, StepIInv, StepHistory, PTL DEF Spec

-----------------------------------------------------------------------------
(***************************************************************************)
(* RatesCountOnce.  The newest sample is read one visit, and the new sample *)
(* written two visits later, with other handlers in between; RatesInv says *)
(* what is known of the interval a handler carries in the meantime, and    *)
(* that handlers of one node that overlap know of it.                      *)
(***************************************************************************)

\* Two posts of one node that are served at the same time are both marked.
OverlapMarked ==
    \A g, h \in Handlers :
        /\ g # h
        /\ pc[g] # "idle" /\ pc[h] # "idle"
        /\ report[g].node = report[h].node
        => ~alone[g] /\ ~alone[h]

\* A handler past storageRates, with a report of version 2.
Carrying(h) == pc[h] \in {"basic", "detail"} /\ report[h].version = 2

\* The interval h carries is empty or starts after every sample of its node
\* whose post it did not overlap.
CarriedIsFree ==
    \A h \in Handlers : Carrying(h) =>
        /\ since[h] <= report[h].captured
        /\ \A i \in samples :
              /\ accepted[i].report.node = report[h].node
              /\ accepted[i].alone \/ alone[h]
              => \/ since[h] = report[h].captured
                 \/ accepted[i].report.captured <= since[h]

DetailIsV2 == \A h \in Handlers : pc[h] \in {"rates", "detail"} => report[h].version = 2

RatesInv == OverlapMarked /\ DetailIsV2 /\ CarriedIsFree /\ RatesCountOnce

-----------------------------------------------------------------------------

LEMMA InitRatesInv == Init => RatesInv
  BY DEF Init, RatesInv, OverlapMarked, DetailIsV2, CarriedIsFree, Carrying,
         RatesCountOnce

\* What Return does, handler by handler.
LEMMA ReturnOthers ==
    ASSUME TypeOK, NEW h \in Handlers, Return(h)
    PROVE  /\ pc'[h] = "idle"
           /\ \A x \in Handlers \ {h} :
                 /\ pc'[x] = pc[x] /\ report'[x] = report[x]
                 /\ since'[x] = since[x] /\ alone'[x] = alone[x]
  BY DEF TypeOK, Return, Goto

\* The rows of samples, and what they are made of.
LEMMA SampleTypes ==
    ASSUME TypeOK, NEW i \in samples
    PROVE  /\ i \in 1..Len(accepted)
           /\ accepted[i].report.captured \in Int
           /\ accepted[i].since \in Int
           /\ accepted[i].alone \in BOOLEAN
  <1>1. i \in 1..Len(accepted) /\ accepted[i] \in Sample
    BY SampleRow DEF TypeOK
  <1>2. QED
    BY <1>1, BoundAssumption DEF Sample, Report

\* A step that leaves the samples alone and makes no handler carry anything
\* new keeps what is known of the carried intervals.
LEMMA CarryFrame ==
    ASSUME CarriedIsFree, UNCHANGED <<samples, accepted>>,
           \A h \in Handlers : Carrying(h)' =>
               /\ Carrying(h)
               /\ UNCHANGED <<report[h], since[h]>>
               /\ alone'[h] => alone[h]
    PROVE  CarriedIsFree'
  <1> SUFFICES ASSUME NEW h \in Handlers, Carrying(h)'
               PROVE  /\ since'[h] <= report'[h].captured
                      /\ \A i \in samples :
                            /\ accepted[i].report.node = report'[h].node
                            /\ accepted[i].alone \/ alone'[h]
                            => \/ since'[h] = report'[h].captured
                               \/ accepted[i].report.captured <= since'[h]
    BY DEF CarriedIsFree
  <1>1. Carrying(h) /\ UNCHANGED <<report[h], since[h]>> /\ (alone'[h] => alone[h])
    OBVIOUS
  <1>2. QED
    BY <1>1 DEF CarriedIsFree

LEMMA ReceiveRatesInv ==
    ASSUME TypeOK, RatesInv, NEW h \in Handlers, NEW n \in Nodes,
           NEW t \in Times, NEW v \in {1, 2}, Receive(h, n, t, v)
    PROVE  RatesInv'
  <1> USE DEF RatesInv
  <1>1. /\ report'[h].node = n /\ report'[h].version = v
        /\ pc'[h] = IF v = 2 THEN "rates" ELSE "basic"
        /\ alone'[h] = (Serving(n) = {})
    BY DEF Receive, Goto, TypeOK
  <1>2. \A x \in Handlers \ {h} :
            /\ pc'[x] = pc[x] /\ report'[x] = report[x] /\ since'[x] = since[x]
            /\ alone'[x] = (alone[x] /\ x \notin Serving(n))
    BY DEF Receive, Goto, TypeOK
  <1>3. \A x \in Handlers : pc[x] # "idle" /\ report[x].node = n => x \in Serving(n)
    BY DEF Serving, TypeOK
  <1>4. OverlapMarked'
    <2> SUFFICES ASSUME NEW x \in Handlers, NEW y \in Handlers, x # y,
                        pc'[x] # "idle", pc'[y] # "idle",
                        report'[x].node = report'[y].node
                 PROVE  ~alone'[x]
      BY DEF OverlapMarked
    <2>1. CASE x = h
      BY <1>1, <1>2, <1>3, <2>1
    <2>2. CASE y = h
      BY <1>1, <1>2, <1>3, <2>2
    <2>3. CASE x # h /\ y # h
      <3>1. ~alone[x]
        BY <1>2, <2>3 DEF OverlapMarked
      <3>2. alone'[x] = (alone[x] /\ x \notin Serving(n))
        BY <1>2, <2>3
      <3>3. QED
        BY <3>1, <3>2
    <2>4. QED
      BY <2>1, <2>2, <2>3
  <1>5. DetailIsV2'
    BY <1>1, <1>2 DEF DetailIsV2
  <1>6. UNCHANGED <<samples, accepted>>
    BY DEF Receive, tables
  <1>7. CarriedIsFree'
    <2>1. ~Carrying(h)'
      BY <1>1 DEF Carrying
    <2>2. \A x \in Handlers \ {h} :
              Carrying(x)' => /\ Carrying(x) /\ UNCHANGED <<report[x], since[x]>>
                              /\ alone'[x] => alone[x]
      BY <1>2 DEF Carrying
    <2>3. QED
      BY <1>6, <2>1, <2>2, CarryFrame
  <1>8. RatesCountOnce'
    BY <1>6 DEF RatesCountOnce
  <1>9. QED
    BY <1>4, <1>5, <1>7, <1>8

LEMMA ReadRatesRatesInv ==
    ASSUME TypeOK, RatesInv, NEW h \in Handlers, ReadRates(h)
    PROVE  RatesInv'
  <1> USE DEF RatesInv
  <1> DEFINE n == report[h].node
             t == report[h].captured
             T == SampleTimes(n)
             newest == CHOOSE x \in T : \A y \in T : y <= x
  <1>1. /\ pc[h] = "rates" /\ pc' = [pc EXCEPT ![h] = "basic"]
        /\ UNCHANGED <<tables, report, alone>>
        /\ since' = [since EXCEPT ![h] =
                        IF T # {} /\ \A x \in T : x < t THEN newest ELSE t]
    BY DEF ReadRates, Goto
  <1>2. report[h] \in Report /\ t \in Int
    BY <1>1, BusyHasReport, BoundAssumption DEF Report
  <1>3. \A i \in samples :
            /\ accepted[i].report.captured \in Times
            /\ accepted[i].report.node = n => accepted[i].report.captured \in T
    <2>1. \A i \in samples : accepted[i] \in Sample
      BY SampleRow DEF TypeOK
    <2>2. QED
      BY <2>1 DEF Sample, Report, SampleTimes
  <1>4. OverlapMarked' /\ DetailIsV2'
    BY <1>1 DEF OverlapMarked, DetailIsV2, TypeOK
  <1>5. CarriedIsFree'
    <2>1. /\ since'[h] <= t
          /\ \A i \in samples :
                accepted[i].report.node = n
                => since'[h] = t \/ accepted[i].report.captured <= since'[h]
      <3>1. CASE T # {} /\ \A x \in T : x < t
        <4>1. T \subseteq Times
          BY <1>3 DEF SampleTimes
        <4>2. newest \in T /\ \A y \in T : y <= newest
          BY <3>1, <4>1, LatestTime
        <4>3. since'[h] = newest
          BY <1>1, <3>1 DEF TypeOK
        <4>4. newest \in Int /\ newest < t
          BY <3>1, <4>1, <4>2, BoundAssumption
        <4> HIDE DEF T, newest
        <4>5. QED
          BY <1>2, <1>3, <4>2, <4>3, <4>4
      <3>2. CASE ~(T # {} /\ \A x \in T : x < t)
        <4>1. since'[h] = t
          BY <1>1, <3>2 DEF TypeOK
        <4>2. QED
          BY <1>2, <4>1
      <3>3. QED
        BY <3>1, <3>2
    <2>2. \A x \in Handlers \ {h} : pc'[x] = pc[x] /\ since'[x] = since[x]
      BY <1>1 DEF TypeOK
    <2>3. SUFFICES ASSUME NEW x \in Handlers, Carrying(x)'
                   PROVE  /\ since'[x] <= report[x].captured
                          /\ \A i \in samples :
                                /\ accepted[i].report.node = report[x].node
                                /\ accepted[i].alone \/ alone[x]
                                => \/ since'[x] = report[x].captured
                                   \/ accepted[i].report.captured <= since'[x]
      BY <1>1 DEF CarriedIsFree, tables
    <2>4. CASE x = h
      BY <2>1, <2>4
    <2>5. CASE x # h
      <3>1. Carrying(x)
        BY <1>1, <2>2, <2>3, <2>5 DEF Carrying
      <3>2. QED
        BY <2>2, <2>5, <3>1 DEF CarriedIsFree
    <2>6. QED
      BY <2>4, <2>5
  <1>6. RatesCountOnce'
    BY <1>1 DEF RatesCountOnce, tables
  <1>7. QED
    BY <1>4, <1>5, <1>6

\* A handler that returns without inserting a sample.
LEMMA ReturnRatesInv ==
    ASSUME TypeOK, RatesInv, NEW h \in Handlers, Return(h),
           UNCHANGED <<samples, accepted>>
    PROVE  RatesInv'
  <1> USE DEF RatesInv
  <1>1. OverlapMarked' /\ DetailIsV2'
    BY ReturnOthers DEF OverlapMarked, DetailIsV2
  <1>2. CarriedIsFree'
    <2>1. \A x \in Handlers : Carrying(x)' =>
              /\ Carrying(x) /\ UNCHANGED <<report[x], since[x]>>
              /\ alone'[x] => alone[x]
      BY ReturnOthers DEF Carrying
    <2>2. QED
      BY <2>1, CarryFrame
  <1>3. RatesCountOnce'
    BY DEF RatesCountOnce
  <1>4. QED
    BY <1>1, <1>2, <1>3

LEMMA SaveBasicRatesInv ==
    ASSUME TypeOK, RatesInv, NEW h \in Handlers, SaveBasic(h)
    PROVE  RatesInv'
  <1> USE DEF RatesInv
  <1>1. CASE report[h].version = 2
    <2>1. /\ pc[h] = "basic" /\ pc' = [pc EXCEPT ![h] = "detail"]
          /\ UNCHANGED <<samples, accepted, report, since, alone>>
      BY <1>1 DEF SaveBasic, Goto
    <2>2. OverlapMarked' /\ DetailIsV2'
      BY <1>1, <2>1 DEF OverlapMarked, DetailIsV2, TypeOK
    <2>3. \A x \in Handlers : Carrying(x)' => Carrying(x)
      BY <1>1, <2>1 DEF Carrying, TypeOK
    <2>4. CarriedIsFree'
      BY <2>1, <2>3, CarryFrame
    <2>5. RatesCountOnce'
      BY <2>1 DEF RatesCountOnce
    <2>6. QED
      BY <2>2, <2>4, <2>5
  <1>2. CASE report[h].version # 2
    BY <1>2, ReturnRatesInv DEF SaveBasic
  <1>3. QED
    BY <1>1, <1>2

\* The inserted sample takes over the interval its handler carried; handlers
\* of the same node still at work overlapped it, and both are marked.
LEMMA SaveDetailRatesInv ==
    ASSUME TypeOK, RatesInv, NEW h \in Handlers, SaveDetail(h)
    PROVE  RatesInv'
  <1> USE DEF RatesInv
  <1> DEFINE k == Len(accepted)
             r == report[h]
  <1>1. /\ pc[h] = "detail" /\ Return(h) /\ Carrying(h)
        /\ r \in Report /\ k \in Nat
    BY SaveDetailInserts DEF SaveDetail, Carrying, DetailIsV2, TypeOK
  <1>2. /\ accepted'[k + 1].report = r /\ accepted'[k + 1].since = since[h]
        /\ accepted'[k + 1].alone = alone[h]
    <2> DEFINE row == [report |-> r, since |-> since[h], received |-> stamp[h],
                       alone |-> alone[h]]
    <2>1. accepted' = Append(accepted, row)
      BY DEF SaveDetail
    <2>2. row.report = r /\ row.since = since[h] /\ row.alone = alone[h]
      OBVIOUS
    <2>3. accepted'[k + 1] = row
      <3> HIDE DEF row
      <3> QED  BY <2>1 DEF TypeOK
    <2>4. QED
      BY <2>2, <2>3
  <1>3. /\ samples' \subseteq samples \cup {k + 1}
        /\ \A i \in samples : i # k + 1 /\ accepted'[i] = accepted[i]
    BY <1>1, SaveDetailInserts DEF SaveDetail, KeptSamples, TypeOK
  <1>4. OverlapMarked' /\ DetailIsV2'
    BY <1>1, ReturnOthers DEF OverlapMarked, DetailIsV2
  <1>5. CarriedIsFree'
    <2>1. SUFFICES ASSUME NEW x \in Handlers \ {h}, Carrying(x)
                   PROVE  /\ since[x] <= report[x].captured
                          /\ \A i \in samples' :
                                /\ accepted'[i].report.node = report[x].node
                                /\ accepted'[i].alone \/ alone[x]
                                => \/ since[x] = report[x].captured
                                   \/ accepted'[i].report.captured <= since[x]
      <3>1. ~Carrying(h)'
        BY <1>1, ReturnOthers DEF Carrying
      <3>2. \A x \in Handlers \ {h} : Carrying(x)' => Carrying(x)
        BY <1>1, ReturnOthers DEF Carrying
      <3>3. QED
        BY <1>1, <3>1, <3>2, ReturnOthers DEF CarriedIsFree
    <2>2. since[x] <= report[x].captured
      BY <2>1 DEF CarriedIsFree
    <2>3. r.node = report[x].node => ~alone[h] /\ ~alone[x]
      BY <1>1, <2>1 DEF OverlapMarked, Carrying
    <2>4. QED
      BY <1>2, <1>3, <2>1, <2>2, <2>3 DEF CarriedIsFree
  <1>6. RatesCountOnce'
    <2>1. ASSUME NEW i \in samples,
                 accepted[i].report.node = r.node,
                 accepted[i].alone \/ alone[h]
          PROVE  /\ Disjoint(accepted[i].since, accepted[i].report.captured,
                             since[h], r.captured)
                 /\ Disjoint(since[h], r.captured,
                             accepted[i].since, accepted[i].report.captured)
      <3>1. since[h] = r.captured \/ accepted[i].report.captured <= since[h]
        BY <1>1, <2>1 DEF CarriedIsFree
      <3>2. since[h] \in Int /\ r.captured \in Int
        BY <1>1, BoundAssumption DEF TypeOK, Report
      <3>3. QED
        BY <3>1, <3>2, SampleTypes DEF Disjoint
    <2>2. SUFFICES ASSUME NEW i \in samples', NEW j \in samples', i # j,
                          accepted'[i].report.node = accepted'[j].report.node,
                          accepted'[i].alone \/ accepted'[j].alone
                   PROVE  Disjoint(accepted'[i].since, accepted'[i].report.captured,
                                   accepted'[j].since, accepted'[j].report.captured)
      BY DEF RatesCountOnce
    <2>3. CASE i \in samples /\ j \in samples
      BY <1>3, <2>2, <2>3 DEF RatesCountOnce
    <2>4. CASE i = k + 1 /\ j \in samples
      BY <1>2, <1>3, <2>1, <2>2, <2>4
    <2>5. CASE i \in samples /\ j = k + 1
      BY <1>2, <1>3, <2>1, <2>2, <2>5
    <2>6. QED
      BY <1>3, <2>2, <2>3, <2>4, <2>5
  <1>7. QED
    BY <1>4, <1>5, <1>6

LEMMA RestartRatesInv ==
    ASSUME TypeOK, RatesInv, Restart
    PROVE  RatesInv'
  <1>1. /\ \A h \in Handlers : pc'[h] = "idle"
        /\ UNCHANGED <<samples, accepted>>
    BY DEF Restart, tables
  <1>2. QED
    BY <1>1 DEF RatesInv, OverlapMarked, DetailIsV2, CarriedIsFree, Carrying,
                RatesCountOnce

LEMMA StepRatesInv == TypeOK /\ RatesInv /\ [Next]_vars => RatesInv'
  <1> SUFFICES ASSUME TypeOK, RatesInv, [Next]_vars
               PROVE  RatesInv'
    OBVIOUS
  <1>1. CASE UNCHANGED <<tables, work, alone>>
    BY <1>1 DEF tables, work, RatesInv, OverlapMarked, DetailIsV2,
                CarriedIsFree, Carrying, RatesCountOnce
  <1>2. CASE Tick \/ UNCHANGED vars
    BY <1>1, <1>2 DEF Tick, vars
  <1>3. ASSUME NEW h \in Handlers, Fail(h)
        PROVE  RatesInv'
    BY <1>3, ReturnRatesInv DEF Fail, tables
  <1>4. CASE \E h \in Handlers, n \in Nodes, t \in Times, v \in {1, 2} :
                Receive(h, n, t, v)
    BY <1>4, ReceiveRatesInv
  <1>5. CASE \E h \in Handlers : ReadRates(h) \/ SaveBasic(h) \/ SaveDetail(h)
    BY <1>5, ReadRatesRatesInv, SaveBasicRatesInv, SaveDetailRatesInv
  <1>6. QED
    BY <1>2, <1>3, <1>4, <1>5, RestartRatesInv DEF Next

(***************************************************************************)
(* For any number of nodes and concurrent posts and any retention, samples *)
(* of one node never average over the same stretch of time twice unless    *)
(* their posts overlapped: late reports and pruned histories never do it.  *)
(***************************************************************************)
THEOREM TrafficCountedOnce == Spec => []RatesCountOnce
  <1>1. RatesInv => RatesCountOnce
    BY DEF RatesInv
  <1>2. QED
    BY <1>1, TypeCorrect, InitRatesInv, StepRatesInv, PTL DEF Spec

-----------------------------------------------------------------------------
(* RowWhole: both halves of a row come from one report. *)

\* While a handler that no post of the node overlapped waits for its second
\* transaction, the basic columns of the node's row are still its own.
BasicIsOwn ==
    \A h \in Handlers :
        pc[h] = "detail" /\ alone[h] => latest[report[h].node].basic = report[h]

RowInv == BasicIsOwn /\ RowWhole

LEMMA InitRowInv == Init => RowInv
  BY DEF Init, RowInv, BasicIsOwn, RowWhole

\* What a handler finds of the others, whichever step it takes.
LEMMA OtherHandlers ==
    ASSUME TypeOK, NEW h \in Handlers,
           ReadRates(h) \/ SaveBasic(h) \/ SaveDetail(h) \/ Fail(h)
    PROVE  \A x \in Handlers \ {h} :
              pc'[x] = pc[x] /\ report'[x] = report[x] /\ alone'[x] = alone[x]
  BY DEF TypeOK, ReadRates, SaveBasic, SaveDetail, Fail, Return, Goto, work


\* Only SaveBasic and SaveDetail write the row, only SaveBasic its basic half.
LEMMA RowWrites ==
    ASSUME IInv, NEW h \in Handlers, SaveBasic(h) \/ SaveDetail(h)
    PROVE  /\ report[h] \in Report /\ report[h].node \in Nodes
           /\ \A n \in Nodes : n # report[h].node => latest'[n] = latest[n]
           /\ SaveBasic(h) => latest'[report[h].node].basic = report[h]
           /\ SaveDetail(h) =>
                 /\ latest'[report[h].node].basic = latest[report[h].node].basic
                 /\ latest'[report[h].node].detail = report[h]
  <1> DEFINE r == report[h]  n == r.node
  <1> USE DEF IInv
  <1>1. r \in Report /\ n \in Nodes
    BY BusyHasReport DEF SaveBasic, SaveDetail, Report
  <1>2. \A x \in Nodes : x # n => latest'[x] = latest[x]
    BY <1>1 DEF SaveBasic, SaveDetail, TypeOK
  <1>3. ASSUME SaveBasic(h) PROVE latest'[n].basic = r
    <2>1. latest'[n] = Upserted(latest[n], r)
      BY <1>1, <1>3 DEF SaveBasic, TypeOK
    <2>2. latest[n] # NoReport => latest[n] \in Row
      BY <1>1 DEF TypeOK
    <2>3. QED
      BY <2>1, <2>2 DEF Upserted, Row
  <1>4. ASSUME SaveDetail(h)
        PROVE  latest'[n].basic = latest[n].basic /\ latest'[n].detail = r
    <2>1. latest'[n] = [latest[n] EXCEPT !.detail = r]
      BY <1>1, <1>4 DEF SaveDetail, TypeOK
    <2>2. latest[n] \in Row
      BY <1>1, <1>4 DEF SaveDetail, TypeOK, RowBeforeDetail
    <2>3. QED
      BY <2>1, <2>2 DEF Row
  <1>5. QED
    BY <1>1, <1>2, <1>3, <1>4

\* A step in which no handler enters or leaves its second transaction
\* unmarked and no row is written.
LEMMA RowFrame ==
    ASSUME TypeOK, RowInv, UNCHANGED latest,
           \A n \in Nodes : torn[n] => torn'[n],
           \A h \in Handlers : pc'[h] = "detail" =>
               pc[h] = "detail" /\ report'[h] = report[h] /\ (alone'[h] => alone[h]),
           \A h \in Handlers : pc[h] = "detail" =>
               \/ pc'[h] = "detail" /\ report'[h] = report[h]
               \/ torn'[report[h].node]
    PROVE  RowInv'
  <1>1. BasicIsOwn'
    BY DEF RowInv, BasicIsOwn
  <1>2. RowWhole'
    <2> SUFFICES ASSUME NEW n \in Nodes, latest[n] # NoReport, ~torn'[n],
                        \A h \in Serving(n)' : pc'[h] # "detail"
                 PROVE  latest[n].detail = latest[n].basic
      BY DEF RowWhole
    <2>1. ASSUME NEW h \in Serving(n) PROVE pc[h] # "detail"
      <3>1. h \in Handlers /\ report[h] # NoReport /\ report[h].node = n
        BY DEF Serving
      <3>2. pc'[h] = "detail" /\ report'[h] = report[h] => h \in Serving(n)'
        BY <3>1 DEF Serving
      <3>3. QED
        BY <3>1, <3>2
    <2>2. ~torn[n]
      OBVIOUS
    <2>3. QED
      BY <2>1, <2>2 DEF RowInv, RowWhole
  <1>3. QED
    BY <1>1, <1>2 DEF RowInv

LEMMA StepRowInv == IInv /\ RatesInv /\ RowInv /\ [Next]_vars => RowInv'
  <1> SUFFICES ASSUME IInv, RatesInv, RowInv, [Next]_vars
               PROVE  RowInv'
    OBVIOUS
  <1> USE DEF IInv
  <1>1. ASSUME NEW h \in Handlers, NEW n \in Nodes, NEW t \in Times,
               NEW v \in {1, 2}, Receive(h, n, t, v)
        PROVE  RowInv'
    <2>1. /\ UNCHANGED <<latest, torn>>
          /\ pc[h] = "idle" /\ pc'[h] # "detail"
          /\ \A x \in Handlers \ {h} :
                /\ pc'[x] = pc[x] /\ report'[x] = report[x]
                /\ alone'[x] => alone[x]
      BY <1>1 DEF Receive, Goto, TypeOK, tables
    <2>2. QED
      BY <2>1, RowFrame
  <1>2. ASSUME NEW h \in Handlers, ReadRates(h) \/ Fail(h)
        PROVE  RowInv'
    <2>1. /\ UNCHANGED latest
          /\ pc'[h] # "detail"
          /\ pc[h] = "detail" => torn'[report[h].node]
          /\ \A n \in Nodes : torn[n] => torn'[n]
      <3>1. pc[h] # "idle" => report[h].node \in Nodes
        BY BusyHasReport DEF Report
      <3>2. QED
        BY <1>2, <3>1 DEF ReadRates, Fail, Return, Goto, TypeOK, tables
    <2>2. QED
      BY <1>2, <2>1, OtherHandlers, RowFrame
  <1>3. ASSUME NEW h \in Handlers, SaveBasic(h)
        PROVE  RowInv'
    <2> DEFINE r == report[h]  n == r.node
    <2>1. /\ pc[h] = "basic"
          /\ \/ pc'[h] = "detail" /\ report'[h] = r /\ UNCHANGED torn
             \/ pc'[h] = "idle" /\ torn'[n]
          /\ \A x \in Nodes \ {n} : torn'[x] = torn[x]
      <3>1. n \in Nodes
        BY <1>3, RowWrites
      <3>2. CASE r.version = 2
        BY <1>3, <3>2 DEF SaveBasic, Goto, TypeOK
      <3>3. CASE r.version # 2
        <4>1. torn' = [torn EXCEPT ![n] = TRUE] /\ pc' = [pc EXCEPT ![h] = "idle"]
          BY <1>3, <3>3 DEF SaveBasic, Return, Goto
        <4>2. QED
          BY <1>3, <3>1, <4>1 DEF SaveBasic, TypeOK
      <3>4. QED
        BY <3>2, <3>3
    <2>2. /\ r \in Report /\ n \in Nodes
          /\ \A x \in Nodes : x # n => latest'[x] = latest[x]
          /\ latest'[n].basic = r
      BY <1>3, RowWrites
    <2>3. BasicIsOwn'
      <3> SUFFICES ASSUME NEW x \in Handlers, pc'[x] = "detail", alone'[x]
                   PROVE  latest'[report'[x].node].basic = report'[x]
        BY DEF BasicIsOwn
      <3>1. CASE x = h
        BY <2>1, <2>2, <3>1
      <3>2. CASE x # h
        <4>1. pc[x] = "detail" /\ report'[x] = report[x] /\ alone[x]
          BY <1>3, <3>2, OtherHandlers
        <4>2. report[x].node # n
          BY <2>1, <3>2, <4>1 DEF RatesInv, OverlapMarked
        <4>3. report[x].node \in Nodes
          BY <4>1, BusyHasReport DEF Report
        <4>4. QED
          BY <2>2, <4>1, <4>2, <4>3 DEF RowInv, BasicIsOwn
      <3>3. QED
        BY <3>1, <3>2
    <2>4. RowWhole'
      <3> SUFFICES ASSUME NEW x \in Nodes, latest'[x] # NoReport, ~torn'[x],
                          \A g \in Serving(x)' : pc'[g] # "detail"
                   PROVE  latest'[x].detail = latest'[x].basic
        BY DEF RowWhole
      <3>1. x # n
        <4>1. CASE pc'[h] = "detail" /\ report'[h] = r
          <5>1. x = n => h \in Serving(x)'
            BY <2>2, <4>1, NoReportAssumption DEF Serving
          <5>2. QED
            BY <4>1, <5>1
        <4>2. QED
          BY <2>1, <4>1
      <3>2. \A g \in Serving(x) : pc[g] # "detail"
        <4> SUFFICES ASSUME NEW g \in Serving(x), pc[g] = "detail"
                     PROVE  FALSE
          OBVIOUS
        <4>1. g # h /\ g \in Handlers
          BY <2>1 DEF Serving
        <4>2. g \in Serving(x)' /\ pc'[g] = pc[g]
          BY <1>3, <4>1, OtherHandlers DEF Serving
        <4>3. QED
          BY <4>2
      <3>3. QED
        BY <2>1, <2>2, <3>1, <3>2 DEF RowInv, RowWhole
    <2>5. QED
      BY <2>3, <2>4 DEF RowInv
  <1>4. ASSUME NEW h \in Handlers, SaveDetail(h)
        PROVE  RowInv'
    <2> DEFINE r == report[h]  n == r.node
    <2>1. /\ pc[h] = "detail" /\ pc'[h] = "idle"
          /\ \A x \in Nodes \ {n} : torn'[x] = torn[x]
          /\ n \in Nodes => torn'[n] = ~alone[h]
      BY <1>4 DEF SaveDetail, Return, Goto, TypeOK
    <2>2. /\ r \in Report /\ n \in Nodes
          /\ \A x \in Nodes : x # n => latest'[x] = latest[x]
          /\ latest'[n].basic = latest[n].basic /\ latest'[n].detail = r
      BY <1>4, RowWrites
    <2>3. \A x \in Handlers : pc'[x] = "detail" =>
              /\ pc[x] = "detail" /\ report'[x] = report[x] /\ alone'[x] = alone[x]
              /\ report[x].node \in Nodes
      BY <1>4, <2>1, OtherHandlers, BusyHasReport DEF Report
    <2>4. BasicIsOwn'
      BY <2>2, <2>3 DEF RowInv, BasicIsOwn
    <2>5. RowWhole'
      <3> SUFFICES ASSUME NEW x \in Nodes, latest'[x] # NoReport, ~torn'[x],
                          \A g \in Serving(x)' : pc'[g] # "detail"
                   PROVE  latest'[x].detail = latest'[x].basic
        BY DEF RowWhole
      <3>1. CASE x = n
        BY <2>1, <2>2, <3>1 DEF RowInv, BasicIsOwn
      <3>2. CASE x # n
        <4>1. \A g \in Serving(x) : pc[g] # "detail"
          <5> SUFFICES ASSUME NEW g \in Serving(x), pc[g] = "detail"
                       PROVE  FALSE
            OBVIOUS
          <5>1. g # h /\ g \in Handlers
            BY <3>2 DEF Serving
          <5>2. g \in Serving(x)' /\ pc'[g] = pc[g]
            BY <1>4, <5>1, OtherHandlers DEF Serving
          <5>3. QED
            BY <5>2
        <4>2. QED
          BY <2>1, <2>2, <3>2, <4>1 DEF RowInv, RowWhole
      <3>3. QED
        BY <3>1, <3>2
    <2>6. QED
      BY <2>4, <2>5 DEF RowInv
  <1>5. CASE Restart
    <2>1. /\ UNCHANGED latest
          /\ \A h \in Handlers : pc'[h] # "detail"
          /\ \A n \in Nodes : torn[n] => torn'[n]
      BY <1>5 DEF Restart, tables
    <2>2. \A h \in Handlers : pc[h] = "detail" => torn'[report[h].node]
      <3> SUFFICES ASSUME NEW h \in Handlers, pc[h] = "detail"
                   PROVE  torn'[report[h].node]
        OBVIOUS
      <3>1. report[h] \in Report /\ report[h].node \in Nodes
        BY BusyHasReport DEF Report
      <3>2. h \in Serving(report[h].node)
        BY <3>1, NoReportAssumption DEF Serving
      <3>3. QED
        BY <1>5, <3>1, <3>2 DEF Restart
    <2>3. QED
      BY <2>1, <2>2, RowFrame
  <1>6. CASE Tick \/ UNCHANGED vars
    <2>1. UNCHANGED <<latest, torn, pc, report, alone>>
      BY <1>6 DEF Tick, vars, tables, work
    <2>2. QED
      BY <2>1, RowFrame
  <1>7. QED
    BY <1>1, <1>2, <1>3, <1>4, <1>5, <1>6 DEF Next

(***************************************************************************)
(* For any number of nodes and concurrent posts, a node's latest row mixes *)
(* two reports only after one of the three causes that `torn` records, or  *)
(* while a second transaction is pending.                                  *)
(***************************************************************************)
THEOREM RowsWhole == Spec => []RowWhole
  <1>1. RowInv => RowWhole
    BY DEF RowInv
  <1>2. IInv => TypeOK
    BY DEF IInv
  <1>3. QED
    BY <1>1, <1>2, InitIInv, StepIInv, InitRatesInv, StepRatesInv, InitRowInv,
       StepRowInv, PTL DEF Spec

-----------------------------------------------------------------------------
(* LogIsBounded: the cap of the report log, and what it may drop. *)

\* Of the members of a finite set of naturals that fewer than LogLimit others
\* exceed there are at most LogLimit: all but the least exceed the least.
LEMMA NewestAreFew ==
    ASSUME NEW L, L \subseteq Nat, IsFiniteSet(L)
    PROVE  Cardinality(Newest(L)) <= LogLimit
  <1> DEFINE N == Newest(L)
  <1>1. N \subseteq L /\ IsFiniteSet(N) /\ Cardinality(N) \in Nat
    BY FS_Subset, FS_CardinalityType DEF Newest
  <1>2. CASE N = {}
    BY <1>2, FS_EmptySet, SettingsAssumption
  <1>3. CASE N # {}
    <2>1. PICK m \in N : \A i \in N : m <= i
      <3> HIDE DEF N
      <3> QED  BY <1>1, <1>3, LeastNatural
    <2> DEFINE Above == {j \in L : j > m}
    <2>2. Cardinality(Above) < LogLimit
      BY DEF Newest
    <2>3. N \ {m} \subseteq Above
      <3> HIDE DEF N
      <3> QED  BY <1>1, <2>1
    <2>4. IsFiniteSet(Above) /\ Cardinality(Above) \in Nat
      BY FS_Subset, FS_CardinalityType
    <2>5. Cardinality(N \ {m}) = Cardinality(N) - 1
      <3> HIDE DEF N
      <3> QED  BY <1>1, <2>1, FS_RemoveElement
    <2>6. Cardinality(N \ {m}) <= Cardinality(Above)
      <3> HIDE DEF N, Above
      <3> QED  BY <2>3, <2>4, FS_Subset
    <2>7. Cardinality(N) <= LogLimit
      <3> HIDE DEF N, Above
      <3> QED  BY <1>1, <2>2, <2>4, <2>5, <2>6, SettingsAssumption
    <2>8. QED
      BY <2>7
  <1>4. QED
    BY <1>2, <1>3

\* The report log after one more report was accepted.
LEMMA SaveDetailLog ==
    ASSUME TypeOK, LogIsBounded, NEW h \in Handlers, SaveDetail(h)
    PROVE  LogIsBounded'
  <1> DEFINE n == Len(accepted)
             at(i) == accepted[i].received
             L == {i \in logs \cup {n + 1} :
                      accepted'[i].received >= stamp[h] - LogRetention}
             Young(i) == \A j \in i..n : at(i) >= at(j) - LogRetention
             YoungNow(i) == \A j \in i..(n + 1) :
                 accepted'[i].received >= accepted'[j].received - LogRetention
  <1>1. /\ n \in Nat /\ Len(accepted') = n + 1
        /\ \A i \in 1..n : accepted'[i] = accepted[i]
    BY SaveDetailInserts DEF TypeOK
  <1>2. accepted'[n + 1].received = stamp[h] /\ stamp[h] \in Int
    <2> DEFINE row == [report |-> report[h], since |-> since[h],
                       received |-> stamp[h], alone |-> alone[h]]
    <2>1. accepted' = Append(accepted, row) /\ row.received = stamp[h]
      BY DEF SaveDetail
    <2>2. accepted'[n + 1] = row
      <3> HIDE DEF row
      <3> QED  BY <2>1 DEF TypeOK
    <2>3. stamp[h] \in Int
      BY BoundAssumption DEF TypeOK
    <2>4. QED
      BY <2>1, <2>2, <2>3
  <1>3. \A i \in 1..n : accepted'[i].received = at(i) /\ at(i) \in Int
    <2>1. \A i \in 1..n : accepted[i] \in Sample
      BY SampleRow
    <2>2. QED
      BY <1>1, <2>1, BoundAssumption DEF Sample
  <1>4. logs' = Newest(L)
    BY DEF SaveDetail, KeptLogs
  <1>5. logs \subseteq 1..n
    BY DEF TypeOK
  <1> HIDE DEF n
  <1>6. L \subseteq 1..(n + 1) /\ IsFiniteSet(L)
    <2>1. L \subseteq 1..(n + 1)
      <3>1. L \subseteq logs \cup {n + 1}
        OBVIOUS
      <3>2. logs \cup {n + 1} \subseteq 1..(n + 1)
        BY <1>1, <1>5
      <3> HIDE DEF L
      <3>3. QED
        BY <3>1, <3>2
    <2>2. IsFiniteSet(1..(n + 1))
      BY <1>1, FS_Interval
    <2> HIDE DEF L
    <2>3. QED
      BY <2>1, <2>2, FS_Subset
  <1>7. Cardinality(logs') <= LogLimit
    <2> HIDE DEF L
    <2>1. L \subseteq Nat
      BY <1>1, <1>6
    <2>2. QED
      BY <1>4, <1>6, <2>1, NewestAreFew
  <1>8. /\ \A i \in logs : Young(i)
        /\ \A i \in 1..n : i > n - LogLimit /\ Young(i) => i \in logs
    BY DEF LogIsBounded, n
  <1>9. ASSUME NEW i \in 1..n
        PROVE  YoungNow(i) <=> Young(i) /\ at(i) >= stamp[h] - LogRetention
    <2>1. i..(n + 1) = i..n \cup {n + 1}
      BY <1>1
    <2>2. \A j \in i..n : accepted'[j].received = at(j)
      BY <1>1, <1>3
    <2>3. QED
      BY <1>2, <1>3, <2>1, <2>2
  <1>10. YoungNow(n + 1)
    BY <1>1, <1>2, SettingsAssumption
  <1> HIDE DEF at, Young, YoungNow
  <1>11. \A i \in logs' : YoungNow(i)
    <2> SUFFICES ASSUME NEW i \in logs' PROVE YoungNow(i)
      OBVIOUS
    <2>1. i \in L
      BY <1>4 DEF Newest
    <2>2. CASE i = n + 1
      BY <1>10, <2>2
    <2>3. CASE i \in logs
      BY <1>3, <1>5, <1>8, <1>9, <2>1, <2>3
    <2>4. QED
      BY <2>1, <2>2, <2>3
  <1>12. ASSUME NEW i \in 1..(n + 1), i > n + 1 - LogLimit, YoungNow(i)
         PROVE  i \in logs'
    <2>1. i \in L
      <3>1. CASE i = n + 1
        BY <1>2, <3>1, SettingsAssumption
      <3>2. CASE i \in 1..n
        BY <1>1, <1>3, <1>8, <1>9, <1>12, <3>2, SettingsAssumption
      <3>3. QED
        BY <1>1, <3>1, <3>2
    <2> HIDE DEF L
    <2>2. {j \in L : j > i} \subseteq (i + 1)..(n + 1)
      <3>1. \A j \in L : j \in 1..(n + 1)
        BY <1>6
      <3>2. QED
        BY <1>1, <3>1
    <2>3. /\ IsFiniteSet((i + 1)..(n + 1))
          /\ Cardinality((i + 1)..(n + 1)) < LogLimit
      <3>1. i + 1 \in Int /\ n + 1 \in Int
        BY <1>1
      <3>2. Cardinality((i + 1)..(n + 1))
                = IF i + 1 > n + 1 THEN 0 ELSE (n + 1) - (i + 1) + 1
        BY <3>1, FS_Interval
      <3>3. IsFiniteSet((i + 1)..(n + 1))
        BY <3>1, FS_Interval
      <3>4. (IF i + 1 > n + 1 THEN 0 ELSE (n + 1) - (i + 1) + 1) < LogLimit
        BY <1>1, <1>12, SettingsAssumption
      <3>5. QED
        BY <3>2, <3>3, <3>4
    <2>4. /\ Cardinality({j \in L : j > i}) <= Cardinality((i + 1)..(n + 1))
          /\ Cardinality({j \in L : j > i}) \in Nat
          /\ Cardinality((i + 1)..(n + 1)) \in Nat
      BY <2>2, <2>3, FS_Subset, FS_CardinalityType
    <2>5. QED
      BY <1>4, <2>1, <2>3, <2>4, SettingsAssumption DEF Newest
  <1>13. QED
    <2>1. Len(accepted') = n + 1
      BY <1>1
    <2>2. \A i \in 1..(n + 1) : i > n + 1 - LogLimit /\ YoungNow(i) => i \in logs'
      BY <1>12
    <2>3. \A i \in logs' : \A j \in i..Len(accepted') :
              accepted'[i].received >= accepted'[j].received - LogRetention
      BY <1>1, <1>11, <2>1 DEF YoungNow
    <2>4. \A i \in 1..Len(accepted') :
              /\ i > Len(accepted') - LogLimit
              /\ \A j \in i..Len(accepted') :
                    accepted'[i].received >= accepted'[j].received - LogRetention
              => i \in logs'
      <3> SUFFICES ASSUME NEW i \in 1..Len(accepted'), i > Len(accepted') - LogLimit,
                          \A j \in i..Len(accepted') :
                             accepted'[i].received
                                >= accepted'[j].received - LogRetention
                   PROVE  i \in logs'
        OBVIOUS
      <3>1. i \in 1..(n + 1) /\ i > n + 1 - LogLimit
        BY <1>1, <2>1, SettingsAssumption
      <3>2. YoungNow(i)
        BY <1>1, <2>1 DEF YoungNow
      <3>3. QED
        BY <2>2, <3>1, <3>2
    <2>5. QED
      BY <1>7, <2>3, <2>4, Zenon DEF LogIsBounded

LEMMA StepLog == TypeOK /\ LogIsBounded /\ [Next]_vars => LogIsBounded'
  <1> SUFFICES ASSUME TypeOK, LogIsBounded, [Next]_vars
               PROVE  LogIsBounded'
    OBVIOUS
  <1>1. CASE \E h \in Handlers : SaveDetail(h)
    BY <1>1, SaveDetailLog
  <1>2. CASE UNCHANGED <<logs, accepted>>
    BY <1>2 DEF LogIsBounded
  <1>3. ASSUME NEW h \in Handlers,
               \/ \E n \in Nodes, t \in Times, v \in {1, 2} : Receive(h, n, t, v)
               \/ ReadRates(h) \/ SaveBasic(h) \/ Fail(h)
        PROVE  UNCHANGED <<logs, accepted>>
    BY <1>3 DEF Receive, ReadRates, SaveBasic, Fail, tables
  <1>4. CASE Restart \/ Tick \/ UNCHANGED vars
    BY <1>2, <1>4 DEF Restart, Tick, vars, tables
  <1>5. QED
    BY <1>1, <1>2, <1>3, <1>4 DEF Next

(***************************************************************************)
(* For every cap and retention of the report log and any interleaving of   *)
(* the posts: the log stays in its cap, holds nothing too old, and drops   *)
(* nothing young that is among the newest.                                 *)
(***************************************************************************)
THEOREM LogBounded == Spec => []LogIsBounded
  <1>1. Init => LogIsBounded
    BY FS_EmptySet, SettingsAssumption DEF Init, LogIsBounded
  <1>2. IInv => TypeOK
    BY DEF IInv
  <1>3. QED
    BY <1>1, <1>2, InitIInv, StepIInv, StepLog, PTL DEF Spec

=============================================================================
