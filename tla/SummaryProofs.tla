---------------------------- MODULE SummaryProofs ----------------------------
(***************************************************************************)
(* Theorems about Summary for any configuration, any order in which the    *)
(* subjects are recorded, any number of concurrent requests and any number *)
(* of probes, faults and overlaps:                                         *)
(*                                                                         *)
(*   SummaryTypes          Spec => []TypeOK                                *)
(*   OneStory              Spec => []EventsMatchStatuses                   *)
(*   NoFlappingOfItsOwn    Spec => []TransitionsAccountedFor               *)
(*   RebuildsUseTheLog     Spec => Log!Spec                                *)
(*                                                                         *)
(* OneStory speaks of a cached summary.  StoryInv follows it back through  *)
(* the rebuild that made it: as long as the rebuild is alone nobody else   *)
(* writes, so what it has recorded is what the table holds (Recorded), the *)
(* table holds what the log ends in (LogEndsInStatus), and so the events   *)
(* it reads end in its statuses (ShownAgrees).                             *)
(*                                                                         *)
(* NoFlappingOfItsOwn counts.  A rebuild that still has to record a        *)
(* service (Pending) may add an event for the step to its own status and   *)
(* leave one more for the step back to the probe's; CountInv says that     *)
(* these, too, are within the bound.                                       *)
(***************************************************************************)
EXTENDS Summary, FunctionTheorems, FiniteSetTheorems, SequenceTheorems, TLAPS

N == Len(RecordOrder)

-----------------------------------------------------------------------------

Summaries == [built : Building, events : Seq(Log!Event)]

RequestTypes(r) ==
    /\ built[r] \in Building \cup {NoSummary}
    /\ built[r] \in Building <=> r \in Rebuilding
    /\ todo[r] \in 0..N
    /\ pc[r] = "record" => todo[r] # 0
    /\ pc[r] \in {"events", "install"} => todo[r] = 0
    /\ pc[r] = "idle" => live[r]

Types ==
    /\ probes \in [Keys -> ProbeStatuses]
    /\ Log!TypeOK
    /\ cached \in Summaries \cup {NoSummary}
    /\ fresh \in BOOLEAN
    /\ cached = NoSummary => ~fresh
    /\ pc \in [Requests -> {"idle", "fetch", "record", "events", "install"}]
    /\ live \in [Requests -> BOOLEAN]
    /\ built \in [Requests -> Building \cup {NoSummary}]
    /\ todo \in [Requests -> 0..N]
    /\ shown \in [Requests -> Seq(Log!Event)]
    /\ \A r \in Requests : RequestTypes(r)
    /\ probed \in [Keys -> Nat]
    /\ {errs, faults, overlaps} \subseteq Nat

-----------------------------------------------------------------------------

\* i is the position of the newest event of s in the list.
Newest(list, s, i) == i \in Of(list, s) /\ \A j \in Of(list, s) : j <= i

Ends(list, st) ==
    \A s \in Subjects : \A i \in Of(list, s) :
        Newest(list, s, i) => list[i].to = st[s]

LogEndsInStatus == Ends(events, statusCache)

\* A rebuild whose statuses and events must agree.
Intact(r) == r \in Rebuilding /\ built[r].alone /\ ~built[r].lost

Alone == \A r \in Rebuilding : built[r].alone => Rebuilding = {r}

Recorded(r) ==
    \A i \in 1..(N - todo[r]) :
        statusCache[RecordOrder[i]] = built[r].statuses[RecordOrder[i]]

ShownAgrees(r) == pc[r] = "install" => Ends(shown[r], built[r].statuses)

RequestStory(r) ==
    Intact(r) => /\ pc[r] # "install" => Recorded(r)
                 /\ ShownAgrees(r)

StoryInv ==
    /\ Types
    /\ LogEndsInStatus
    /\ Alone
    /\ \A r \in Requests : RequestStory(r)
    /\ EventsMatchStatuses

-----------------------------------------------------------------------------

\* What Gatus says of service s, and how often it changed its mind.
Told(s) == IF config.keyOf[s] \in Keys THEN probes[config.keyOf[s]]
           ELSE "unknown"
Flips(s) == IF config.keyOf[s] \in Keys THEN probed[config.keyOf[s]] ELSE 0

\* The rebuilds that have a status of s in hand and not recorded yet.
Pending(s) ==
    {r \in Requests : /\ pc[r] = "record"
                      /\ \E i \in (N - todo[r] + 1)..N : RecordOrder[i] = s}

\* The events that observing v for a subject with status u adds.
Dist(u, v) == IF u = Absent \/ u = v THEN 0 ELSE 1

Count(s) == Cardinality(Of(events, s))
Budget(s) == Flips(s) + 2 * (errs + overlaps)

WithinBudget(s) ==
    /\ Pending(s) = {} =>
          Count(s) + Dist(statusCache[s], Told(s)) <= Budget(s)
    /\ \A r \in Pending(s) :
          LET v == built[r].statuses[s]
          IN  Count(s) + 2 * (Cardinality(Pending(s)) - 1)
                + Dist(statusCache[s], v) + Dist(v, Told(s)) <= Budget(s)

CountInv ==
    /\ Types
    /\ \A s \in config.services :
          /\ IsFiniteSet(Pending(s))
          /\ overlaps < MaxOverlaps => WithinBudget(s)
-----------------------------------------------------------------------------

LEMMA RollupTypes ==
    ASSUME NEW checks \in [Keys -> ProbeStatuses], NEW err \in BOOLEAN
    PROVE  StatusesOf(checks, err) \in Board
<1> DEFINE st == R!ServiceStatuses(config, checks, err)
           board == R!Rollup(config, checks, err)
<1>1. \A s \in config.services : st[s] \in R!Statuses
    BY ProbesAssumption DEF R!ServiceStatuses, R!ServiceStatus, R!Statuses
<1>2. \A c, f, family : R!AggregateStatus(c, f, family) \in R!Statuses
    BY DEF R!AggregateStatus, R!Statuses
<1>3. /\ board.services = st
      /\ board.nodes = R!NodeStatuses(config, st)
      /\ board.projects = R!ProjectStatuses(config, st)
    BY DEF R!Rollup
<1>4. /\ \A n \in config.nodes : board.nodes[n] \in R!Statuses
      /\ \A p \in config.projects : board.projects[p] \in R!Statuses
    BY <1>2, <1>3 DEF R!NodeStatuses, R!ProjectStatuses
<1> HIDE DEF st, board
<1>5. \A s \in Subjects : IF s \in config.services THEN board.services[s] \in R!Statuses
                          ELSE IF s \in config.nodes THEN board.nodes[s] \in R!Statuses
                          ELSE board.projects[s] \in R!Statuses
    BY <1>1, <1>3, <1>4 DEF Subjects
<1>6. StatusesOf(checks, err) =
        [s \in Subjects |->
            IF s \in config.services THEN board.services[s]
            ELSE IF s \in config.nodes THEN board.nodes[s]
            ELSE board.projects[s]]
    BY DEF StatusesOf, board
<1>. QED BY <1>5, <1>6 DEF Board

LEMMA OrderTypes ==
    /\ N \in Nat \ {0}
    /\ \A i \in 1..N : RecordOrder[i] \in Subjects
    /\ \A s \in Subjects : \E i \in 1..N : RecordOrder[i] = s
<1>1. RecordOrder \in Seq(Subjects) /\ RecordOrder # <<>>
    BY OrderAssumption
<1>2. N \in Nat /\ DOMAIN RecordOrder = 1..N
    BY <1>1, LenProperties DEF N
<1>3. N # 0
    BY <1>1, EmptySeq, <1>2 DEF N
<1>. QED BY <1>1, <1>2, <1>3, OrderAssumption

\* Every subject has one turn.
LEMMA OneTurn ==
    ASSUME NEW i \in 1..N, NEW j \in 1..N, RecordOrder[i] = RecordOrder[j]
    PROVE  i = j
<1>1. N \in Nat /\ RecordOrder \in [1..N -> Subjects]
    BY OrderAssumption, LenProperties DEF N
<1>2. IsFiniteSet(1..N) /\ Cardinality(1..N) = N
    BY <1>1, FS_Interval
<1>3. RecordOrder \in Surjection(1..N, Subjects)
    BY <1>1, OrderTypes, Fun_IsSurj
<1>4. Cardinality(1..N) = Cardinality(Subjects)
    BY <1>2, OrderAssumption DEF N
<1>5. RecordOrder \in Injection(1..N, Subjects)
    BY <1>2, <1>3, <1>4, FS_SurjSameCardinalityImpliesInj
<1>. QED BY <1>5 DEF Injection, IsInjective

LEMMA SubjectTypes ==
    ASSUME Types, NEW r \in Requests, pc[r] = "record"
    PROVE  /\ todo[r] \in 1..N
           /\ N - todo[r] + 1 \in 1..N
           /\ Subject(r) = RecordOrder[N - todo[r] + 1]
           /\ Subject(r) \in Subjects
           /\ built[r] \in Building
           /\ built[r].statuses \in Board
           /\ built[r].statuses[Subject(r)] \in R!Statuses
<1>1. todo[r] \in 1..N
    BY OrderTypes DEF Types, RequestTypes
<1>2. N - todo[r] + 1 \in 1..N
    BY <1>1, OrderTypes
<1>3. built[r] \in Building
    BY DEF Types, RequestTypes, Rebuilding
<1>. QED BY <1>1, <1>2, <1>3, OrderTypes DEF Subject, N, Building, Board

LEMMA ObserveTypes ==
    ASSUME Log!TypeOK, NEW s \in Subjects, NEW v \in R!Statuses, Log!Observe(s, v)
    PROVE  Log!TypeOK'
<1> USE AbsentAssumption DEF Log!TypeOK
<1>1. statusCache' \in [Subjects -> R!Statuses \cup {Absent}]
    BY DEF Log!Observe
<1>2. events' \in Seq(Log!Event)
    <2>1. CASE Log!IsTransition(statusCache[s], v)
        <3>1. [subject |-> s, from |-> statusCache[s], to |-> v] \in Log!Event
            BY <2>1 DEF Log!IsTransition, Log!Event
        <3>. QED BY <2>1, <3>1, AppendProperties DEF Log!Observe, Log!Logged
    <2>2. CASE ~Log!IsTransition(statusCache[s], v)
        BY <2>2 DEF Log!Observe, Log!Logged
    <2>. QED BY <2>1, <2>2
<1>. QED BY <1>1, <1>2

\* What RecentEvents returns: the last events of the log, in its order.
LEMMA RecentIsTail ==
    ASSUME events \in Seq(Log!Event)
    PROVE  /\ RecentEvents(EventLimit) \in Seq(Log!Event)
           /\ \E off \in 0..Len(events) :
                 /\ Len(RecentEvents(EventLimit)) = Len(events) - off
                 /\ \A i \in 1..(Len(events) - off) :
                       RecentEvents(EventLimit)[i] = events[off + i]
<1> DEFINE L == Len(events)
           off == IF L > EventLimit THEN L - EventLimit ELSE 0
<1>1. L \in Nat /\ EventLimit \in Nat \ {0}
    BY LenProperties, BoundAssumption
<1>2. off \in 0..L /\ off + 1 \in Int /\ L \in Int
    BY <1>1
<1>3. RecentEvents(EventLimit) = SubSeq(events, off + 1, L)
    BY <1>1 DEF RecentEvents
<1>4. \A i \in (off + 1)..L : events[i] \in Log!Event
    BY <1>1, <1>2, ElementOfSeq
<1> HIDE DEF off
<1>5. /\ SubSeq(events, off + 1, L) \in Seq(Log!Event)
      /\ Len(SubSeq(events, off + 1, L)) =
            IF off + 1 <= L THEN L - (off + 1) + 1 ELSE 0
      /\ \A i \in 1..(L - (off + 1) + 1) :
            SubSeq(events, off + 1, L)[i] = events[(off + 1) + i - 1]
    BY <1>2, <1>4, SubSeqProperties
<1> HIDE DEF L
<1>6. /\ Len(RecentEvents(EventLimit)) = L - off
      /\ \A i \in 1..(L - off) : RecentEvents(EventLimit)[i] = events[off + i]
    BY <1>1, <1>2, <1>3, <1>5
<1>. QED BY <1>2, <1>3, <1>5, <1>6 DEF L
-----------------------------------------------------------------------------

LEMMA InitTypes == Init => Types
<1> SUFFICES ASSUME Init PROVE Types
    OBVIOUS
<1>1. Log!TypeOK
    BY EmptySeq DEF Init, Log!Init, Log!TypeOK
<1>2. \A r \in Requests : built[r] \notin Building /\ r \notin Rebuilding
    BY NoSummaryAssumption DEF Init, Rebuilding
<1>3. \A r \in Requests : RequestTypes(r)
    BY <1>2, OrderTypes DEF Init, RequestTypes
<1>4. /\ todo \in [Requests -> 0..N]
      /\ shown \in [Requests -> Seq(Log!Event)]
      /\ built \in [Requests -> Building \cup {NoSummary}]
    BY OrderTypes, EmptySeq DEF Init
<1>5. /\ pc \in [Requests -> {"idle", "fetch", "record", "events", "install"}]
      /\ live \in [Requests -> BOOLEAN]
      /\ probed \in [Keys -> Nat] /\ {errs, faults, overlaps} \subseteq Nat
    BY DEF Init
<1>6. /\ probes \in [Keys -> ProbeStatuses]
      /\ cached = NoSummary /\ fresh = FALSE
    BY DEF Init
<1>. QED BY <1>1, <1>3, <1>4, <1>5, <1>6 DEF Types

\* A step of a request r that leaves the other requests alone, or only marks
\* them as no longer alone.
LEMMA OneRequestTypes ==
    ASSUME Types, NEW r \in Requests,
           pc' \in [Requests -> {"idle", "fetch", "record", "events", "install"}],
           built' \in [Requests -> Building \cup {NoSummary}],
           \A x \in Requests \ {r} :
              /\ pc'[x] = pc[x] /\ todo'[x] = todo[x] /\ live'[x] = live[x]
              /\ built'[x] \in Building <=> built[x] \in Building,
           built'[r] \in Building
              <=> pc'[r] \in {"record", "events", "install"},
           todo'[r] \in 0..N,
           pc'[r] = "record" => todo'[r] # 0,
           pc'[r] \in {"events", "install"} => todo'[r] = 0,
           pc'[r] = "idle" => live'[r]
    PROVE  \A x \in Requests : RequestTypes(x)'
<1> SUFFICES ASSUME NEW x \in Requests PROVE RequestTypes(x)'
    OBVIOUS
<1>1. CASE x = r
    BY <1>1 DEF RequestTypes, Rebuilding
<1>2. CASE x # r
    <2>1. RequestTypes(x)
        BY DEF Types
    <2>. QED BY <2>1, <1>2 DEF RequestTypes, Rebuilding
<1>. QED BY <1>1, <1>2

LEMMA AskTypes ==
    ASSUME Types, NEW r \in Requests, Ask(r) PROVE Types'
<1>1. /\ pc[r] = "idle" /\ pc' = [pc EXCEPT ![r] = "fetch"]
      /\ UNCHANGED <<probes, statusCache, events, cached, fresh, live, built,
                     todo, shown, probed, errs, faults, overlaps>>
    BY DEF Ask, Goto, store, cache, history
<1>2. built[r] \notin Building /\ todo[r] \in 0..N
    BY <1>1 DEF Types, RequestTypes, Rebuilding
<1>3. \A x \in Requests : RequestTypes(x)'
    BY <1>1, <1>2, OneRequestTypes DEF Types
<1>. QED BY <1>1, <1>3 DEF Types, Log!TypeOK

LEMMA FetchTypes ==
    ASSUME Types, NEW r \in Requests, Fetch(r) PROVE Types'
<1>1. PICK err \in BOOLEAN :
        /\ IF err /\ live[r] THEN Fault ELSE UNCHANGED faults
        /\ errs' = IF err THEN errs + 1 ELSE errs
        /\ built' = [x \in Requests |->
                IF x = r THEN [statuses |-> StatusesOf(probes, err),
                               lost |-> FALSE, alone |-> Rebuilding = {}]
                ELSE IF x \in Rebuilding THEN [built[x] EXCEPT !.alone = FALSE]
                ELSE NoSummary]
    BY DEF Fetch
<1>2. /\ pc[r] = "fetch" /\ pc' = [pc EXCEPT ![r] = "record"]
      /\ todo' = [todo EXCEPT ![r] = N]
      /\ overlaps' = overlaps \/ overlaps' = overlaps + 1
      /\ UNCHANGED <<probes, statusCache, events, cached, fresh, live, shown,
                     probed>>
    BY DEF Fetch, Goto, store, cache, N
<1>3. /\ probes \in [Keys -> ProbeStatuses] /\ N \in Nat \ {0}
    BY OrderTypes DEF Types
<1>4. built'[r] \in Building
    BY <1>1, <1>3, RollupTypes DEF Building
<1>5. ASSUME NEW x \in Requests \ {r}
      PROVE  /\ built'[x] \in Building \cup {NoSummary}
             /\ built'[x] \in Building <=> built[x] \in Building
    <2>1. RequestTypes(x)
        BY DEF Types
    <2>2. CASE x \in Rebuilding
        <3>1. built[x] \in Building /\ built'[x] = [built[x] EXCEPT !.alone = FALSE]
            BY <1>1, <1>5, <2>1, <2>2 DEF RequestTypes
        <3>. QED BY <3>1 DEF Building
    <2>3. CASE x \notin Rebuilding
        BY <1>1, <1>5, <2>1, <2>3, NoSummaryAssumption DEF RequestTypes
    <2>. QED BY <2>2, <2>3
<1>6. built' \in [Requests -> Building \cup {NoSummary}]
    BY <1>1, <1>4, <1>5
<1>7. /\ pc' \in [Requests -> {"idle", "fetch", "record", "events", "install"}]
      /\ todo' \in [Requests -> 0..N]
      /\ pc'[r] = "record" /\ todo'[r] = N /\ N \in 0..N /\ N # 0
      /\ \A x \in Requests \ {r} :
            pc'[x] = pc[x] /\ todo'[x] = todo[x] /\ live'[x] = live[x]
    BY <1>2, <1>3 DEF Types
<1>8. \A x \in Requests : RequestTypes(x)'
    <2>1. \A x \in Requests \ {r} :
              /\ pc'[x] = pc[x] /\ todo'[x] = todo[x] /\ live'[x] = live[x]
              /\ built'[x] \in Building <=> built[x] \in Building
        BY <1>5, <1>7
    <2>2. /\ built'[r] \in Building <=> pc'[r] \in {"record", "events", "install"}
          /\ todo'[r] \in 0..N
          /\ pc'[r] = "record" => todo'[r] # 0
          /\ pc'[r] \in {"events", "install"} => todo'[r] = 0
          /\ pc'[r] = "idle" => live'[r]
        BY <1>4, <1>7
    <2>. QED BY <1>6, <1>7, <2>1, <2>2, OneRequestTypes
<1>9. {errs', faults', overlaps'} \subseteq Nat
    BY <1>1, <1>2 DEF Types, Fault
<1>. QED BY <1>2, <1>6, <1>7, <1>8, <1>9 DEF Types, Log!TypeOK

LEMMA RecordTypes ==
    ASSUME Types, NEW r \in Requests, Record(r) PROVE Types'
<1>1. /\ pc[r] = "record"
      /\ pc' = [pc EXCEPT ![r] = IF todo[r] = 1 THEN "events" ELSE "record"]
      /\ todo' = [todo EXCEPT ![r] = @ - 1]
      /\ UNCHANGED <<probes, cached, fresh, live, shown, probed, errs, overlaps>>
    BY DEF Record, Goto, cache
<1>2. \/ /\ Log!Observe(Subject(r), built[r].statuses[Subject(r)])
         /\ UNCHANGED <<built, faults>>
      \/ /\ faults' = faults \/ faults' = faults + 1
         /\ built' = [built EXCEPT ![r].lost = TRUE]
         /\ UNCHANGED store
    BY DEF Record, Fault
<1>3. /\ todo[r] \in 1..N /\ built[r] \in Building
      /\ Subject(r) \in Subjects
      /\ built[r].statuses[Subject(r)] \in R!Statuses
    BY <1>1, SubjectTypes
<1>4. Log!TypeOK'
    BY <1>2, <1>3, ObserveTypes DEF Types, store, Log!TypeOK
<1>5. /\ built' \in [Requests -> Building \cup {NoSummary}]
      /\ built'[r] \in Building
      /\ \A x \in Requests \ {r} : built'[x] = built[x]
    <2>1. [built[r] EXCEPT !.lost = TRUE] \in Building
        BY <1>3 DEF Building
    <2>2. built \in [Requests -> Building \cup {NoSummary}]
        BY DEF Types
    <2>. QED BY <1>2, <1>3, <2>1, <2>2
<1>6. /\ pc' \in [Requests -> {"idle", "fetch", "record", "events", "install"}]
      /\ todo' \in [Requests -> 0..N]
      /\ pc'[r] = IF todo[r] = 1 THEN "events" ELSE "record"
      /\ todo'[r] = todo[r] - 1 /\ todo[r] - 1 \in 0..N
      /\ \A x \in Requests \ {r} :
            pc'[x] = pc[x] /\ todo'[x] = todo[x] /\ live'[x] = live[x]
    BY <1>1, <1>3, OrderTypes DEF Types
<1>7. \A x \in Requests : RequestTypes(x)'
    <2>1. \A x \in Requests \ {r} :
              /\ pc'[x] = pc[x] /\ todo'[x] = todo[x] /\ live'[x] = live[x]
              /\ built'[x] \in Building <=> built[x] \in Building
        BY <1>5, <1>6
    <2>2. /\ built'[r] \in Building <=> pc'[r] \in {"record", "events", "install"}
          /\ todo'[r] \in 0..N
          /\ pc'[r] = "record" => todo'[r] # 0
          /\ pc'[r] \in {"events", "install"} => todo'[r] = 0
          /\ pc'[r] = "idle" => live'[r]
        BY <1>3, <1>5, <1>6
    <2>. QED BY <1>5, <1>6, <2>1, <2>2, OneRequestTypes
<1>8. faults' \in Nat
    BY <1>2 DEF Types
<1>. QED BY <1>1, <1>4, <1>5, <1>6, <1>7, <1>8 DEF Types

LEMMA ReadEventsTypes ==
    ASSUME Types, NEW r \in Requests, ReadEvents(r) PROVE Types'
<1>1. /\ pc[r] = "events" /\ pc' = [pc EXCEPT ![r] = "install"]
      /\ UNCHANGED <<probes, statusCache, events, cached, fresh, live, todo,
                     probed, errs, overlaps>>
    BY DEF ReadEvents, Goto, store, cache
<1>2. /\ shown' = [shown EXCEPT ![r] = RecentEvents(EventLimit)]
         \/ shown' = [shown EXCEPT ![r] = <<>>]
      /\ faults' = faults \/ faults' = faults + 1
      /\ built' = built \/ built' = [built EXCEPT ![r].lost = TRUE]
    BY DEF ReadEvents, Fault
<1>3. built[r] \in Building /\ todo[r] = 0
    BY <1>1 DEF Types, RequestTypes, Rebuilding
<1>4. shown' \in [Requests -> Seq(Log!Event)]
    <2>1. events \in Seq(Log!Event) /\ shown \in [Requests -> Seq(Log!Event)]
        BY DEF Types, Log!TypeOK
    <2>2. RecentEvents(EventLimit) \in Seq(Log!Event) /\ <<>> \in Seq(Log!Event)
        BY <2>1, RecentIsTail, EmptySeq
    <2>. QED BY <1>2, <2>1, <2>2
<1>5. /\ built' \in [Requests -> Building \cup {NoSummary}]
      /\ built'[r] \in Building
      /\ \A x \in Requests \ {r} : built'[x] = built[x]
    <2>1. [built[r] EXCEPT !.lost = TRUE] \in Building
        BY <1>3 DEF Building
    <2>. QED BY <1>2, <1>3, <2>1 DEF Types
<1>6. \A x \in Requests : RequestTypes(x)'
    <2>1. /\ pc' \in [Requests -> {"idle", "fetch", "record", "events", "install"}]
          /\ pc'[r] = "install" /\ todo'[r] = 0 /\ todo'[r] \in 0..N
          /\ \A x \in Requests \ {r} : pc'[x] = pc[x]
        BY <1>1, <1>3, OrderTypes DEF Types
    <2>2. \A x \in Requests \ {r} :
              /\ pc'[x] = pc[x] /\ todo'[x] = todo[x] /\ live'[x] = live[x]
              /\ built'[x] \in Building <=> built[x] \in Building
        BY <1>1, <1>5, <2>1
    <2>. QED BY <1>5, <2>1, <2>2, OneRequestTypes
<1>7. faults' \in Nat
    BY <1>2 DEF Types
<1>. QED BY <1>1, <1>4, <1>5, <1>6, <1>7 DEF Types, Log!TypeOK

LEMMA InstallTypes ==
    ASSUME Types, NEW r \in Requests, Install(r) PROVE Types'
<1>1. /\ pc[r] = "install" /\ pc' = [pc EXCEPT ![r] = "idle"]
      /\ cached' = [built |-> built[r], events |-> shown[r]] /\ fresh' = TRUE
      /\ built' = [built EXCEPT ![r] = NoSummary]
      /\ shown' = [shown EXCEPT ![r] = <<>>]
      /\ live' = [live EXCEPT ![r] = TRUE]
      /\ UNCHANGED <<probes, statusCache, events, todo, probed, errs, faults,
                     overlaps>>
    BY DEF Install, Goto, store, history
<1>2. built[r] \in Building /\ todo[r] = 0
    BY <1>1 DEF Types, RequestTypes, Rebuilding
<1>3. cached' \in Summaries /\ cached' # NoSummary
    BY <1>1, <1>2, NoSummaryAssumption DEF Types, Summaries
<1>4. /\ built' \in [Requests -> Building \cup {NoSummary}]
      /\ built'[r] \notin Building
      /\ \A x \in Requests \ {r} : built'[x] = built[x]
    BY <1>1, NoSummaryAssumption DEF Types
<1>5. \A x \in Requests : RequestTypes(x)'
    BY <1>1, <1>2, <1>4, OneRequestTypes, OrderTypes DEF Types
<1>. QED BY <1>1, <1>3, <1>4, <1>5, EmptySeq DEF Types, Log!TypeOK

LEMMA CancelTypes ==
    ASSUME Types, NEW r \in Requests, Cancel(r) PROVE Types'
<1>1. /\ pc[r] # "idle" /\ live' = [live EXCEPT ![r] = FALSE]
      /\ faults' = faults + 1
      /\ UNCHANGED <<probes, statusCache, events, cached, fresh, pc, built, todo,
                     shown, probed, errs, overlaps>>
    BY DEF Cancel, Fault, store, cache
<1>2. \A x \in Requests : RequestTypes(x)'
    BY <1>1 DEF Types, RequestTypes, Rebuilding
<1>. QED BY <1>1, <1>2 DEF Types, Log!TypeOK

LEMMA RestartTypes == ASSUME Types, Restart PROVE Types'
<1>1. /\ faults' = faults + 1
      /\ cached' = NoSummary /\ fresh' = FALSE
      /\ pc' = [r \in Requests |-> "idle"]
      /\ live' = [r \in Requests |-> TRUE]
      /\ built' = [r \in Requests |-> NoSummary]
      /\ todo' = [r \in Requests |-> 0]
      /\ shown' = [r \in Requests |-> <<>>]
      /\ UNCHANGED <<probes, statusCache, events, probed, errs, overlaps>>
    BY DEF Restart, Fault, store
<1>2. \A r \in Requests : RequestTypes(r)'
    BY <1>1, OrderTypes, NoSummaryAssumption DEF RequestTypes, Rebuilding
<1>3. /\ todo' \in [Requests -> 0..N]
      /\ shown' \in [Requests -> Seq(Log!Event)]
      /\ built' \in [Requests -> Building \cup {NoSummary}]
    BY <1>1, OrderTypes, EmptySeq
<1>4. /\ pc' \in [Requests -> {"idle", "fetch", "record", "events", "install"}]
      /\ live' \in [Requests -> BOOLEAN]
      /\ cached' = NoSummary /\ fresh' = FALSE
    BY <1>1
<1>5. /\ (probes \in [Keys -> ProbeStatuses])' /\ Log!TypeOK'
      /\ (probed \in [Keys -> Nat])' /\ ({errs, faults, overlaps} \subseteq Nat)'
    BY <1>1 DEF Types, Log!TypeOK
<1>. QED BY <1>2, <1>3, <1>4, <1>5 DEF Types

LEMMA StepTypes == Types /\ [Next]_vars => Types'
<1> SUFFICES ASSUME Types, [Next]_vars PROVE Types'
    OBVIOUS
<1>1. ASSUME NEW k \in Keys, NEW v \in ProbeStatuses, Probe(k, v) PROVE Types'
    <2>1. /\ probes' = [probes EXCEPT ![k] = v]
          /\ probed' = [probed EXCEPT ![k] = @ + 1]
          /\ UNCHANGED <<statusCache, events, cached, fresh, pc, live, built,
                         todo, shown, errs, faults, overlaps>>
        BY <1>1 DEF Probe, store, cache, requests
    <2>. QED BY <2>1 DEF Types, Log!TypeOK, RequestTypes, Rebuilding
<1>2. CASE Expire
    <2>1. /\ fresh' = FALSE
          /\ UNCHANGED <<probes, statusCache, events, cached, pc, live, built,
                         todo, shown, probed, errs, faults, overlaps>>
        BY <1>2 DEF Expire, store, requests, history
    <2>. QED BY <2>1 DEF Types, Log!TypeOK, RequestTypes, Rebuilding
<1>3. CASE UNCHANGED vars
    BY <1>3 DEF Types, Log!TypeOK, RequestTypes, Rebuilding, vars, store, cache,
                requests, history
<1>. QED BY <1>1, <1>2, <1>3, AskTypes, FetchTypes, RecordTypes,
            ReadEventsTypes, InstallTypes, CancelTypes, RestartTypes
         DEF Next, Step

LEMMA TypesImplyTypeOK == Types => TypeOK
<1> SUFFICES ASSUME Types PROVE TypeOK
    OBVIOUS
<1>1. cached = NoSummary \/ /\ cached.built.statuses \in Board
                            /\ cached.events \in Seq(Log!Event)
    BY DEF Types, Summaries, Building
<1>2. ASSUME NEW r \in Requests
      PROVE  /\ built[r] = NoSummary <=> r \notin Rebuilding
             /\ pc[r] = "idle" => live[r]
             /\ built[r] # NoSummary => built[r].statuses \in Board
             /\ todo[r] \in 0..Len(RecordOrder)
             /\ shown[r] \in Seq(Log!Event)
    <2>1. RequestTypes(r) /\ shown[r] \in Seq(Log!Event)
        BY DEF Types
    <2>. QED BY <2>1, NoSummaryAssumption DEF RequestTypes, Building, N
<1>. QED BY <1>1, <1>2 DEF Types, TypeOK

(***************************************************************************)
(* The types of the store, of the cached summary and of what the requests  *)
(* hold: a rebuild holds statuses of every subject from its fetch to its   *)
(* install and nothing else does, and nobody reads a fresh cache of        *)
(* nothing.                                                                *)
(***************************************************************************)
THEOREM SummaryTypes == Spec => []TypeOK
BY InitTypes, StepTypes, TypesImplyTypeOK, PTL DEF Spec
-----------------------------------------------------------------------------

\* Observe keeps the log ending in the status table.
LEMMA ObserveEnds ==
    ASSUME Log!TypeOK, LogEndsInStatus,
           NEW s \in Subjects, NEW v \in R!Statuses, Log!Observe(s, v)
    PROVE  LogEndsInStatus'
<1> DEFINE e == [subject |-> s, from |-> statusCache[s], to |-> v]
           L == Len(events)
<1> USE DEF Log!TypeOK
<1>1. L \in Nat /\ DOMAIN events = 1..L
    BY LenProperties
<1>2. \A x \in Subjects : statusCache'[x] = IF x = s THEN v ELSE statusCache[x]
    BY DEF Log!Observe
<1>3. CASE ~Log!IsTransition(statusCache[s], v)
    <2>1. events' = events
        BY <1>3 DEF Log!Observe, Log!Logged
    <2>2. ASSUME NEW x \in Subjects, NEW i \in Of(events, x), Newest(events, x, i)
          PROVE  events[i].to = statusCache'[x]
        <3>1. events[i].to = statusCache[x]
            BY <2>2 DEF LogEndsInStatus, Ends
        <3>2. events[i] \in Log!Event
            BY <1>1, <2>2, ElementOfSeq DEF Of
        <3>3. statusCache[x] # Absent
            BY <3>1, <3>2, AbsentAssumption DEF Log!Event
        <3>. QED BY <3>1, <3>3, <1>2, <1>3 DEF Log!IsTransition
    <2>. QED BY <2>1, <2>2 DEF LogEndsInStatus, Ends, Newest, Of
<1>4. CASE Log!IsTransition(statusCache[s], v)
    <2>1. e \in Log!Event
        BY <1>4 DEF Log!IsTransition, Log!Event
    <2>2. events' = Append(events, e)
        BY <1>4 DEF Log!Observe, Log!Logged
    <2>3. /\ events' \in Seq(Log!Event) /\ Len(events') = L + 1
          /\ \A i \in 1..L : events'[i] = events[i]
          /\ events'[L + 1] = e
        BY <2>1, <2>2, AppendProperties
    <2>4. DOMAIN events' = 1..(L + 1)
        BY <2>3, LenProperties
    <2>5. e.subject = s /\ e.to = v
        OBVIOUS
    <2> HIDE DEF e, L
    <2>6. ASSUME NEW x \in Subjects, NEW i \in Of(events', x),
                 \A j \in Of(events', x) : j <= i
          PROVE  events'[i].to = statusCache'[x]
        <3>1. i \in 1..(L + 1) /\ events'[i].subject = x
            BY <2>4, <2>6 DEF Of
        <3>2. CASE i = L + 1
            BY <3>1, <3>2, <1>2, <2>3, <2>5
        <3>3. CASE i # L + 1
            <4>1. i \in 1..L /\ events'[i] = events[i]
                BY <3>1, <3>3, <1>1, <2>3
            <4>2. x # s
                <5>1. ~(L + 1 <= i)
                    BY <4>1, <1>1
                <5>2. L + 1 \in Of(events', s)
                    BY <2>3, <2>4, <2>5, <1>1 DEF Of
                <5>. QED BY <5>1, <5>2, <2>6
            <4>3. \A j \in Of(events, x) : j \in Of(events', x)
                BY <1>1, <2>3, <2>4 DEF Of
            <4>4. Newest(events, x, i) /\ i \in Of(events, x)
                BY <3>1, <4>1, <4>3, <2>6, <1>1 DEF Newest, Of
            <4>5. events[i].to = statusCache[x]
                BY <4>4 DEF LogEndsInStatus, Ends
            <4>. QED BY <4>1, <4>2, <4>5, <1>2
        <3>. QED BY <3>2, <3>3
    <2>. QED BY <2>6 DEF LogEndsInStatus, Ends, Newest
<1>. QED BY <1>3, <1>4

\* The events a summary shows end in the status table, as the log does.
LEMMA RecentEnds ==
    ASSUME Log!TypeOK, LogEndsInStatus
    PROVE  Ends(RecentEvents(EventLimit), statusCache)
<1> DEFINE tail == RecentEvents(EventLimit)
           L == Len(events)
<1>1. events \in Seq(Log!Event) /\ L \in Nat /\ DOMAIN events = 1..L
    BY LenProperties DEF Log!TypeOK
<1>2. tail \in Seq(Log!Event)
    BY <1>1, RecentIsTail
<1>3. PICK off \in 0..L :
        /\ Len(tail) = L - off
        /\ \A i \in 1..(L - off) : tail[i] = events[off + i]
    BY <1>1, RecentIsTail
<1>4. DOMAIN tail = 1..(L - off)
    BY <1>2, <1>3, LenProperties
<1> HIDE DEF tail, L
<1>5. ASSUME NEW s \in Subjects, NEW i \in Of(tail, s), Newest(tail, s, i)
      PROVE  tail[i].to = statusCache[s]
    <2>1. i \in 1..(L - off) /\ off + i \in 1..L /\ tail[i] = events[off + i]
        BY <1>1, <1>3, <1>4, <1>5 DEF Of
    <2>2. off + i \in Of(events, s)
        BY <1>1, <1>5, <2>1 DEF Of
    <2>3. ASSUME NEW j \in Of(events, s), ~(j <= off + i) PROVE FALSE
        <3>1. j \in 1..L /\ j > off + i
            BY <1>1, <2>1, <2>3 DEF Of
        <3>2. j - off \in 1..(L - off) /\ off + (j - off) = j
            BY <3>1, <2>1, <1>1
        <3>3. j - off \in Of(tail, s)
            BY <3>2, <1>3, <1>4, <2>3 DEF Of
        <3>4. j - off <= i
            BY <3>3, <1>5 DEF Newest
        <3>. QED BY <3>1, <3>4, <2>1, <1>1
    <2>4. events[off + i].to = statusCache[s]
        BY <2>2, <2>3 DEF LogEndsInStatus, Ends, Newest
    <2>. QED BY <2>1, <2>4
<1>. QED BY <1>5 DEF Ends, tail

LEMMA InitStory == Init => StoryInv
<1> SUFFICES ASSUME Init PROVE StoryInv
    OBVIOUS
<1>1. Types /\ Rebuilding = {} /\ events = <<>> /\ cached = NoSummary
    BY InitTypes DEF Init, Rebuilding, Log!Init
<1>2. LogEndsInStatus
    <2>1. \A s : Of(events, s) = {}
        BY <1>1 DEF Of
    <2>. QED BY <2>1 DEF LogEndsInStatus, Ends
<1>. QED BY <1>1, <1>2 DEF StoryInv, Alone, RequestStory, Intact,
                           EventsMatchStatuses

\* A request whose rebuild, and the table, stay as they are.
LEMMA StoryKept ==
    ASSUME NEW x \in Requests, RequestStory(x), UNCHANGED statusCache,
           pc'[x] = pc[x], todo'[x] = todo[x], shown'[x] = shown[x],
           built'[x] = built[x]
    PROVE  RequestStory(x)'
BY DEF RequestStory, Intact, Rebuilding, Recorded, ShownAgrees, Ends, Newest, Of, N

\* While a rebuild is under way, no other one is intact.
LEMMA OneIntact ==
    ASSUME StoryInv, NEW r \in Rebuilding, NEW x \in Requests \ {r}
    PROVE  ~Intact(x)
BY DEF StoryInv, Alone, Intact

LEMMA FetchStory ==
    ASSUME StoryInv, NEW r \in Requests, Fetch(r), Types' PROVE StoryInv'
<1>1. /\ pc[r] = "fetch" /\ pc' = [pc EXCEPT ![r] = "record"]
      /\ todo' = [todo EXCEPT ![r] = N]
      /\ UNCHANGED <<statusCache, events, cached, shown>>
    BY DEF Fetch, Goto, store, cache, N
<1>2. /\ built'[r].alone = (Rebuilding = {})
      /\ \A x \in Rebuilding : built'[x].alone = FALSE
    <2>1. PICK err \in BOOLEAN :
            built' = [x \in Requests |->
                IF x = r THEN [statuses |-> StatusesOf(probes, err),
                               lost |-> FALSE, alone |-> Rebuilding = {}]
                ELSE IF x \in Rebuilding THEN [built[x] EXCEPT !.alone = FALSE]
                ELSE NoSummary]
        BY DEF Fetch
    <2>2. ASSUME NEW x \in Rebuilding PROVE built'[x].alone = FALSE
        <3>1. x \in Requests /\ x # r
            BY <1>1 DEF Rebuilding
        <3>2. built[x] \in Building
            BY <3>1 DEF StoryInv, Types, RequestTypes
        <3>3. built'[x] = [built[x] EXCEPT !.alone = FALSE]
            BY <2>1, <3>1
        <3>. QED BY <3>2, <3>3 DEF Building
    <2>. QED BY <2>1, <2>2
<1>3. Rebuilding' = Rebuilding \cup {r}
    BY <1>1 DEF StoryInv, Types, Rebuilding
<1>4. Alone'
    <2> SUFFICES ASSUME NEW x \in Rebuilding', built'[x].alone
                 PROVE  Rebuilding' = {x}
        BY DEF Alone
    <2>1. x = r /\ Rebuilding = {}
        BY <1>2, <1>3
    <2>. QED BY <2>1, <1>3
<1>5. ASSUME NEW x \in Requests PROVE RequestStory(x)'
    <2>1. CASE x = r
        <3>1. pc'[x] = "record" /\ todo'[x] = N /\ N \in Nat
            BY <1>1, <2>1, OrderTypes DEF StoryInv, Types
        <3>2. Recorded(x)'
            BY <3>1 DEF Recorded, N
        <3>. QED BY <3>1, <3>2 DEF RequestStory, ShownAgrees
    <2>2. CASE x # r
        <3>1. ~Intact(x)'
            BY <1>2, <1>3, <2>2 DEF Intact
        <3>. QED BY <3>1 DEF RequestStory
    <2>. QED BY <2>1, <2>2
<1>6. LogEndsInStatus' /\ EventsMatchStatuses'
    BY <1>1 DEF StoryInv, LogEndsInStatus, Ends, Newest, Of, EventsMatchStatuses
<1>. QED BY <1>4, <1>5, <1>6 DEF StoryInv

LEMMA RecordStory ==
    ASSUME StoryInv, NEW r \in Requests, Record(r), Types' PROVE StoryInv'
<1> DEFINE v == built[r].statuses[Subject(r)]
<1>1. /\ pc[r] = "record"
      /\ pc' = [pc EXCEPT ![r] = IF todo[r] = 1 THEN "events" ELSE "record"]
      /\ todo' = [todo EXCEPT ![r] = @ - 1]
      /\ UNCHANGED <<cached, shown>>
      /\ Types /\ pc \in [Requests ->
                             {"idle", "fetch", "record", "events", "install"}]
      /\ todo \in [Requests -> 0..N]
      /\ built \in [Requests -> Building \cup {NoSummary}]
    BY DEF Record, Goto, cache, StoryInv, Types
<1>2. /\ todo[r] \in 1..N /\ N - todo[r] + 1 \in 1..N
      /\ Subject(r) = RecordOrder[N - todo[r] + 1]
      /\ Subject(r) \in Subjects /\ v \in R!Statuses
      /\ built[r] \in Building
    BY <1>1, SubjectTypes
<1>3. \/ Log!Observe(Subject(r), v) /\ UNCHANGED built
      \/ built' = [built EXCEPT ![r].lost = TRUE] /\ UNCHANGED store
    BY DEF Record
<1>4. /\ Rebuilding' = Rebuilding /\ r \in Rebuilding
      /\ \A x \in Requests : built'[x].alone = built[x].alone
    <2>1. [built[r] EXCEPT !.lost = TRUE].alone = built[r].alone
        BY <1>2 DEF Building
    <2>. QED BY <2>1, <1>1, <1>2, <1>3 DEF Rebuilding
<1>5. Alone'
    <2>1. \A x \in Rebuilding : x \in Requests
        BY DEF Rebuilding
    <2>. QED BY <2>1, <1>4 DEF StoryInv, Alone
<1>6. LogEndsInStatus'
    <2>1. CASE Log!Observe(Subject(r), v)
        BY <2>1, <1>2, ObserveEnds DEF StoryInv, Types
    <2>2. CASE UNCHANGED store
        BY <2>2 DEF store, StoryInv, LogEndsInStatus, Ends, Newest, Of
    <2>. QED BY <2>1, <2>2, <1>3
<1>7. ASSUME NEW x \in Requests \ {r} PROVE RequestStory(x)'
    <2>1. ~Intact(x)
        BY <1>4, OneIntact
    <2>2. built'[x] = built[x] /\ pc'[x] = pc[x]
        BY <1>1, <1>3
    <2>. QED BY <2>1, <2>2 DEF RequestStory, Intact, Rebuilding
<1>8. RequestStory(r)'
    <2> SUFFICES ASSUME Intact(r)' PROVE Recorded(r)' /\ pc'[r] # "install"
        BY DEF RequestStory, ShownAgrees
    <2>1. ~built'[r].lost
        BY DEF Intact
    <2>2. Log!Observe(Subject(r), v) /\ built' = built
        <3>1. [built[r] EXCEPT !.lost = TRUE].lost = TRUE
            BY <1>2 DEF Building
        <3>. QED BY <2>1, <3>1, <1>1, <1>3
    <2>3. Intact(r) /\ Recorded(r)
        <3>1. Intact(r)
            BY <1>4, <2>1, <2>2 DEF Intact
        <3>. QED BY <3>1, <1>1 DEF StoryInv, RequestStory
    <2>4. \A s \in Subjects :
            statusCache'[s] = IF s = Subject(r) THEN v ELSE statusCache[s]
        BY <2>2 DEF Log!Observe, StoryInv, Types, Log!TypeOK
    <2>5. todo'[r] = todo[r] - 1 /\ pc'[r] # "install"
        BY <1>1
    <2>6. ASSUME NEW i \in 1..(N - todo'[r])
          PROVE  statusCache'[RecordOrder[i]] = built'[r].statuses[RecordOrder[i]]
        <3>1. N \in Nat /\ i \in 1..N
            BY <1>2, <2>5, OrderTypes
        <3>2. RecordOrder[i] \in Subjects
            BY <3>1, OrderTypes
        <3>3. CASE RecordOrder[i] = Subject(r)
            BY <2>2, <2>4, <3>2, <3>3
        <3>4. CASE RecordOrder[i] # Subject(r)
            <4>1. i \in 1..(N - todo[r])
                BY <1>2, <2>5, <3>1, <3>4
            <4>. QED BY <2>2, <2>3, <2>4, <3>2, <3>4, <4>1 DEF Recorded
        <3>. QED BY <3>3, <3>4
    <2>. QED BY <2>5, <2>6 DEF Recorded, N
<1>9. EventsMatchStatuses'
    BY <1>1 DEF StoryInv, EventsMatchStatuses, Of
<1>. QED BY <1>5, <1>6, <1>7, <1>8, <1>9 DEF StoryInv

LEMMA ReadEventsStory ==
    ASSUME StoryInv, NEW r \in Requests, ReadEvents(r), Types' PROVE StoryInv'
<1>1. /\ pc[r] = "events" /\ pc' = [pc EXCEPT ![r] = "install"]
      /\ UNCHANGED <<statusCache, events, cached, todo>>
      /\ Types /\ pc \in [Requests ->
                             {"idle", "fetch", "record", "events", "install"}]
      /\ built \in [Requests -> Building \cup {NoSummary}]
      /\ shown \in [Requests -> Seq(Log!Event)]
    BY DEF ReadEvents, Goto, store, cache, StoryInv, Types
<1>2. built[r] \in Building /\ todo[r] = 0
    BY <1>1 DEF Types, RequestTypes, Rebuilding
<1>3. \/ built' = built /\ shown' = [shown EXCEPT ![r] = RecentEvents(EventLimit)]
      \/ /\ built' = [built EXCEPT ![r].lost = TRUE]
         /\ shown' = [shown EXCEPT ![r] = <<>>]
    BY DEF ReadEvents
<1>4. /\ Rebuilding' = Rebuilding /\ r \in Rebuilding
      /\ \A x \in Requests : built'[x].alone = built[x].alone
    <2>1. [built[r] EXCEPT !.lost = TRUE].alone = built[r].alone
        BY <1>2 DEF Building
    <2>. QED BY <2>1, <1>1, <1>2, <1>3 DEF Rebuilding
<1>5. Alone'
    <2>1. \A x \in Rebuilding : x \in Requests
        BY DEF Rebuilding
    <2>. QED BY <2>1, <1>4 DEF StoryInv, Alone
<1>6. ASSUME NEW x \in Requests \ {r} PROVE RequestStory(x)'
    <2>1. ~Intact(x)
        BY <1>4, OneIntact
    <2>2. built'[x] = built[x] /\ pc'[x] = pc[x]
        BY <1>1, <1>3
    <2>. QED BY <2>1, <2>2 DEF RequestStory, Intact, Rebuilding
<1>7. RequestStory(r)'
    <2> SUFFICES ASSUME Intact(r)' PROVE ShownAgrees(r)'
        BY <1>1 DEF RequestStory
    <2>1. ~built'[r].lost
        BY DEF Intact
    <2>2. built' = built /\ shown'[r] = RecentEvents(EventLimit)
        <3>1. [built[r] EXCEPT !.lost = TRUE].lost = TRUE
            BY <1>2 DEF Building
        <3>. QED BY <2>1, <3>1, <1>1, <1>3
    <2>3. Intact(r) /\ Recorded(r)
        <3>1. Intact(r)
            BY <1>4, <2>1, <2>2 DEF Intact
        <3>. QED BY <3>1, <1>1 DEF StoryInv, RequestStory
    <2>4. \A s \in Subjects : statusCache[s] = built[r].statuses[s]
        BY <2>3, <1>2, OrderTypes DEF Recorded
    <2>5. Ends(RecentEvents(EventLimit), statusCache)
        BY RecentEnds DEF StoryInv, Types
    <2>6. Ends(RecentEvents(EventLimit), built[r].statuses)
        BY <2>4, <2>5 DEF Ends
    <2>. QED BY <2>2, <2>6 DEF ShownAgrees, Ends, Newest, Of
<1>8. LogEndsInStatus' /\ EventsMatchStatuses'
    BY <1>1 DEF StoryInv, LogEndsInStatus, Ends, Newest, Of, EventsMatchStatuses
<1>. QED BY <1>5, <1>6, <1>7, <1>8 DEF StoryInv

LEMMA InstallStory ==
    ASSUME StoryInv, NEW r \in Requests, Install(r), Types' PROVE StoryInv'
<1>1. /\ pc[r] = "install" /\ pc' = [pc EXCEPT ![r] = "idle"]
      /\ cached' = [built |-> built[r], events |-> shown[r]]
      /\ built' = [built EXCEPT ![r] = NoSummary]
      /\ UNCHANGED <<statusCache, events>>
      /\ pc \in [Requests -> {"idle", "fetch", "record", "events", "install"}]
    BY DEF Install, Goto, store, StoryInv, Types
<1>2. Rebuilding' = Rebuilding \ {r} /\ r \in Rebuilding
    BY <1>1 DEF Rebuilding
<1>3. \A x \in Requests \ {r} : ~Intact(x) /\ built'[x] = built[x]
    <2>1. \A x \in Requests \ {r} : ~Intact(x)
        BY <1>2, OneIntact
    <2>. QED BY <2>1, <1>1 DEF StoryInv, Types
<1>4. Alone'
    <2> SUFFICES ASSUME NEW x \in Rebuilding', built'[x].alone PROVE FALSE
        BY DEF Alone
    <2>1. x \in Rebuilding /\ x # r /\ x \in Requests
        BY <1>2 DEF Rebuilding
    <2>2. Rebuilding = {x}
        BY <2>1, <1>3 DEF StoryInv, Alone
    <2>. QED BY <2>1, <2>2, <1>2
<1>5. \A x \in Requests : RequestStory(x)'
    BY <1>2, <1>3 DEF RequestStory, Intact
<1>6. EventsMatchStatuses'
    <2> SUFFICES ASSUME cached'.built.alone, ~cached'.built.lost
                 PROVE  Ends(shown[r], built[r].statuses)
        BY <1>1 DEF EventsMatchStatuses, Ends, Newest, Of
    <2>1. Intact(r)
        BY <1>1, <1>2 DEF Intact
    <2>. QED BY <2>1, <1>1 DEF StoryInv, RequestStory, ShownAgrees
<1>7. LogEndsInStatus'
    BY <1>1 DEF StoryInv, LogEndsInStatus, Ends, Newest, Of
<1>. QED BY <1>4, <1>5, <1>6, <1>7 DEF StoryInv

LEMMA StepStory == StoryInv /\ [Next]_vars => StoryInv'
<1> SUFFICES ASSUME StoryInv, [Next]_vars PROVE StoryInv'
    OBVIOUS
<1>1. Types'
    BY StepTypes DEF StoryInv
<1>2. ASSUME Rebuilding' = Rebuilding,
             UNCHANGED <<statusCache, events, cached, built, todo, shown>>,
             \A x \in Rebuilding : pc'[x] = pc[x]
      PROVE  StoryInv'
    <2>1. ASSUME NEW x \in Requests PROVE RequestStory(x)'
        <3>1. CASE x \in Rebuilding
            BY <1>2, <3>1, StoryKept DEF StoryInv
        <3>2. CASE x \notin Rebuilding
            BY <1>2, <3>2 DEF RequestStory, Intact
        <3>. QED BY <3>1, <3>2
    <2>2. Alone' /\ LogEndsInStatus' /\ EventsMatchStatuses'
        BY <1>2 DEF StoryInv, Alone, LogEndsInStatus, Ends, Newest, Of,
                    EventsMatchStatuses
    <2>. QED BY <1>1, <2>1, <2>2 DEF StoryInv
<1>3. ASSUME NEW k \in Keys, NEW v \in ProbeStatuses, Probe(k, v) PROVE StoryInv'
    BY <1>2, <1>3 DEF Probe, store, cache, requests, Rebuilding
<1>4. ASSUME NEW r \in Requests, Ask(r) PROVE StoryInv'
    <2>1. pc[r] = "idle" /\ pc' = [pc EXCEPT ![r] = "fetch"]
        BY <1>4 DEF Ask, Goto
    <2>2. Rebuilding' = Rebuilding /\ \A x \in Rebuilding : pc'[x] = pc[x]
        BY <2>1 DEF Rebuilding, StoryInv, Types
    <2>. QED BY <1>2, <1>4, <2>2 DEF Ask, store, cache
<1>5. CASE Expire
    BY <1>2, <1>5 DEF Expire, store, requests, Rebuilding
<1>6. ASSUME NEW r \in Requests, Cancel(r) PROVE StoryInv'
    BY <1>2, <1>6 DEF Cancel, store, cache, Rebuilding
<1>7. CASE Restart
    <2>1. Rebuilding' = {} /\ cached' = NoSummary /\ UNCHANGED <<statusCache, events>>
        BY <1>7 DEF Restart, Rebuilding, store
    <2>2. LogEndsInStatus'
        BY <2>1 DEF StoryInv, LogEndsInStatus, Ends, Newest, Of
    <2>. QED BY <1>1, <2>1, <2>2 DEF StoryInv, Alone, RequestStory, Intact,
                                     EventsMatchStatuses
<1>8. CASE UNCHANGED vars
    BY <1>2, <1>8 DEF vars, store, cache, requests, Rebuilding
<1>. QED BY <1>1, <1>3, <1>4, <1>5, <1>6, <1>7, <1>8, FetchStory, RecordStory,
            ReadEventsStory, InstallStory DEF Next, Step

(***************************************************************************)
(* A cached summary whose rebuild lost no call and overlapped no other one *)
(* tells one story: for every subject the newest event it lists ends in    *)
(* the status it shows.  Cancelled requests, outages, restarts and rebuilds*)
(* before or after it change nothing in that.                              *)
(***************************************************************************)
THEOREM OneStory == Spec => []EventsMatchStatuses
<1>1. StoryInv => EventsMatchStatuses
    BY DEF StoryInv
<1>. QED BY <1>1, InitStory, StepStory, PTL DEF Spec
-----------------------------------------------------------------------------

LEMMA DistFacts ==
    /\ \A u, v : Dist(u, v) \in 0..1
    /\ \A v : Dist(v, v) = 0
    /\ \A u, v, w : v # Absent => Dist(u, w) <= Dist(u, v) + Dist(v, w)
BY DEF Dist

LEMMA CountTypes ==
    ASSUME Types, NEW s \in config.services
    PROVE  /\ s \in Subjects
           /\ Count(s) \in Nat /\ IsFiniteSet(Of(events, s))
           /\ Flips(s) \in Nat /\ Budget(s) \in Nat
           /\ Told(s) \in R!Statuses
           /\ \A r \in Pending(s) :
                 /\ r \in Rebuilding
                 /\ built[r].statuses[s] \in R!Statuses
                 /\ built[r].statuses[s] # Absent
<1>1. s \in Subjects
    BY DEF Subjects
<1>2. IsFiniteSet(Of(events, s)) /\ Count(s) \in Nat
    <2>1. Len(events) \in Nat /\ DOMAIN events = 1..Len(events)
        BY LenProperties DEF Types, Log!TypeOK
    <2>2. IsFiniteSet(1..Len(events)) /\ Of(events, s) \in SUBSET (1..Len(events))
        BY <2>1, FS_Interval DEF Of
    <2>3. IsFiniteSet(Of(events, s))
        BY <2>2, FS_Subset
    <2>. QED BY <2>3, FS_CardinalityType DEF Count
<1>3. Flips(s) \in Nat
    BY DEF Types, Flips
<1>4. Budget(s) \in Nat
    <2>1. errs \in Nat /\ overlaps \in Nat
        BY DEF Types
    <2>. QED BY <1>3, <2>1 DEF Budget
<1>5. Told(s) \in R!Statuses
    BY ProbesAssumption DEF Types, Told, R!Statuses
<1>6. ASSUME NEW r \in Pending(s)
      PROVE  r \in Rebuilding /\ built[r].statuses[s] \in R!Statuses
    <2>1. r \in Requests /\ pc[r] = "record"
        BY DEF Pending
    <2>2. built[r].statuses \in Board
        BY <2>1, SubjectTypes
    <2>. QED BY <2>1, <2>2, <1>1 DEF Rebuilding, Board
<1>. QED BY <1>1, <1>2, <1>3, <1>4, <1>5, <1>6, AbsentAssumption

\* One observation adds the event it is a step for.
LEMMA ObserveCount ==
    ASSUME Types, Types', NEW s \in config.services,
           NEW x \in Subjects, NEW v \in R!Statuses, Log!Observe(x, v)
    PROVE  /\ Count(s)' = Count(s) + IF s = x THEN Dist(statusCache[s], v) ELSE 0
           /\ statusCache'[s] = IF s = x THEN v ELSE statusCache[s]
<1> DEFINE e == [subject |-> x, from |-> statusCache[x], to |-> v]
           L == Len(events)
<1>1. s \in Subjects /\ Count(s) \in Nat /\ IsFiniteSet(Of(events, s))
    BY CountTypes
<1>2. events \in Seq(Log!Event) /\ L \in Nat /\ DOMAIN events = 1..L
    BY LenProperties DEF Types, Log!TypeOK
<1>3. statusCache'[s] = IF s = x THEN v ELSE statusCache[s]
    BY <1>1 DEF Log!Observe, Types, Log!TypeOK
<1>4. CASE ~Log!IsTransition(statusCache[x], v)
    <2>1. events' = events /\ Dist(statusCache[x], v) = 0
        BY <1>4 DEF Log!Observe, Log!Logged, Log!IsTransition, Dist
    <2>2. Count(s)' = Count(s)
        BY <2>1 DEF Count, Of
    <2>. QED BY <1>1, <1>3, <2>1, <2>2
<1>5. CASE Log!IsTransition(statusCache[x], v)
    <2>1. e \in Log!Event /\ Dist(statusCache[x], v) = 1
        BY <1>5 DEF Log!IsTransition, Log!Event, Types, Log!TypeOK, Dist
    <2>2. events' = Append(events, e)
        BY <1>5 DEF Log!Observe, Log!Logged
    <2>3. /\ events' \in Seq(Log!Event) /\ Len(events') = L + 1
          /\ \A i \in 1..L : events'[i] = events[i]
          /\ events'[L + 1] = e
        BY <1>2, <2>1, <2>2, AppendProperties
    <2>4. DOMAIN events' = 1..(L + 1)
        BY <2>3, LenProperties
    <2>5. e.subject = x
        OBVIOUS
    <2> HIDE DEF e, L
    <2>6. L + 1 \notin Of(events, s)
        BY <1>2 DEF Of
    <2>7. CASE s = x
        <3>1. Of(events', s) = Of(events, s) \cup {L + 1}
            BY <1>2, <2>3, <2>4, <2>5, <2>7 DEF Of
        <3>2. Cardinality(Of(events, s) \cup {L + 1}) = Cardinality(Of(events, s)) + 1
            BY <1>1, <2>6, FS_AddElement
        <3>3. Count(s)' = Count(s) + 1
            BY <3>1, <3>2 DEF Count
        <3>. QED BY <1>3, <2>1, <2>7, <3>3
    <2>8. CASE s # x
        <3>1. Of(events', s) = Of(events, s)
            BY <1>2, <2>3, <2>4, <2>5, <2>8 DEF Of
        <3>2. Count(s)' = Count(s)
            BY <3>1 DEF Count, Of
        <3>. QED BY <1>1, <1>3, <2>8, <3>2
    <2>. QED BY <2>7, <2>8
<1>. QED BY <1>4, <1>5

\* What the service derives from an answer of Gatus.
LEMMA ServiceTold ==
    ASSUME Types, NEW s \in config.services, NEW err \in BOOLEAN
    PROVE  StatusesOf(probes, err)[s] = IF err THEN "unknown" ELSE Told(s)
<1>1. StatusesOf(probes, err)[s] = R!ServiceStatus(config, probes, err, s)
    BY DEF StatusesOf, Subjects, R!Rollup, R!ServiceStatuses
<1>2. DOMAIN probes = Keys
    BY DEF Types
<1>3. config.keyOf[s] # NoKey /\ config.keyOf[s] \in Keys <=> config.keyOf[s] \in Keys
    BY DEF Keys
<1>. QED BY <1>1, <1>2, <1>3 DEF R!ServiceStatus, Told

\* With nothing pending the worst is the step to what Gatus says now.
LEMMA NothingPending ==
    ASSUME CountInv, NEW s \in config.services, overlaps < MaxOverlaps
    PROVE  Count(s) + Dist(statusCache[s], Told(s)) <= Budget(s)
<1>1. WithinBudget(s) /\ IsFiniteSet(Pending(s)) /\ Types
    BY DEF CountInv
<1>2. CASE Pending(s) = {}
    BY <1>1, <1>2 DEF WithinBudget
<1>3. CASE Pending(s) # {}
    <2>1. PICK r \in Pending(s) : TRUE
        BY <1>3
    <2> DEFINE v == built[r].statuses[s]
    <2>2. Count(s) + 2 * (Cardinality(Pending(s)) - 1)
            + Dist(statusCache[s], v) + Dist(v, Told(s)) <= Budget(s)
        BY <1>1, <2>1 DEF WithinBudget
    <2>3. Cardinality(Pending(s)) \in Nat \ {0}
        BY <1>1, <1>3, FS_CardinalityType, FS_EmptySet
    <2>4. Count(s) \in Nat /\ Budget(s) \in Nat /\ v # Absent
        BY <1>1, CountTypes
    <2>5. /\ Dist(statusCache[s], Told(s)) <= Dist(statusCache[s], v) + Dist(v, Told(s))
          /\ Dist(statusCache[s], Told(s)) \in 0..1
          /\ Dist(statusCache[s], v) \in 0..1 /\ Dist(v, Told(s)) \in 0..1
        BY <2>4, DistFacts
    <2>. QED BY <2>2, <2>3, <2>4, <2>5
<1>. QED BY <1>2, <1>3

\* Whether a request has s still to record, by its program counter and todo.
LEMMA PendingStep ==
    ASSUME Types, NEW s \in config.services, NEW r \in Requests,
           \A x \in Requests \ {r} : pc'[x] = pc[x] /\ todo'[x] = todo[x]
    PROVE  /\ Pending(s)' \ {r} = Pending(s) \ {r}
           /\ r \in Pending(s)' <=>
                /\ pc'[r] = "record"
                /\ \E i \in (N - todo'[r] + 1)..N : RecordOrder[i] = s
BY DEF Pending, N

\* A step that changes nothing of s but, perhaps, makes the budget larger.
LEMMA CountKept ==
    ASSUME CountInv, Types', NEW s \in config.services,
           UNCHANGED <<statusCache, events, overlaps>>,
           Pending(s)' = Pending(s),
           \A p \in Pending(s) : built'[p].statuses[s] = built[p].statuses[s],
           \/ Told(s)' = Told(s) /\ Budget(s)' = Budget(s)
           \/ Budget(s)' = Budget(s) + 1
    PROVE  /\ IsFiniteSet(Pending(s)')
           /\ overlaps' < MaxOverlaps => WithinBudget(s)'
<1>1. Types /\ IsFiniteSet(Pending(s))
    BY DEF CountInv
<1> DEFINE c == statusCache[s]
           P == Pending(s)
<1>2. Count(s) \in Nat /\ Budget(s) \in Nat /\ Cardinality(P) \in Nat
    BY <1>1, CountTypes, FS_CardinalityType
<1>3. \A u : /\ Dist(u, Told(s)') <= Dist(u, Told(s)) + 1
             /\ Dist(u, Told(s)') \in 0..1 /\ Dist(u, Told(s)) \in 0..1
    BY DistFacts
<1>4. /\ (overlaps < MaxOverlaps)' <=> overlaps < MaxOverlaps
      /\ Count(s)' = Count(s) /\ c' = c
    BY DEF Count, Of
<1>5. SUFFICES ASSUME overlaps < MaxOverlaps PROVE WithinBudget(s)'
    BY <1>1, <1>4
<1>6. WithinBudget(s)
    BY <1>5 DEF CountInv
<1>7. ASSUME P = {} PROVE Count(s) + Dist(c, Told(s)') <= Budget(s)'
    <2>1. Count(s) + Dist(c, Told(s)) <= Budget(s)
        BY <1>6, <1>7 DEF WithinBudget
    <2> HIDE DEF c, P
    <2>. QED BY <2>1, <1>2, <1>3
<1>8. ASSUME NEW p \in P
      PROVE  Count(s) + 2 * (Cardinality(P) - 1) + Dist(c, built[p].statuses[s])
               + Dist(built[p].statuses[s], Told(s)') <= Budget(s)'
    <2> DEFINE v == built[p].statuses[s]
    <2>1. Count(s) + 2 * (Cardinality(P) - 1) + Dist(c, v) + Dist(v, Told(s))
            <= Budget(s)
        BY <1>6, <1>8 DEF WithinBudget
    <2>2. Dist(c, v) \in 0..1
        BY DistFacts
    <2> HIDE DEF c, P, v
    <2>3. Count(s) + 2 * (Cardinality(P) - 1) + Dist(c, v) + Dist(v, Told(s)')
            <= Budget(s)'
        BY <2>1, <2>2, <1>2, <1>3
    <2>. QED BY <2>3 DEF v
<1>. QED BY <1>4, <1>7, <1>8 DEF WithinBudget

\* The sums behind a new rebuild and behind the ones it joins: x, y and z are
\* distances, k rebuilds are pending.
LEMMA Joining ==
    \A E, B, k \in Nat, x, y, z, x2, y2, e \in 0..1 :
        E + 2 * (k - 1) + x + y <= B
        => /\ E + 2 * k + x + y <= B + 2 * (e + 1)
           /\ z <= x + y /\ (e = 0 => y2 = 0 /\ x2 = z)
              => E + 2 * k + x2 + y2 <= B + 2 * (e + 1)
OBVIOUS

\* A new rebuild that got an answer adds nothing of its own; one that failed
\* or joins others is paid for by errs and overlaps.
LEMMA FetchCount ==
    ASSUME CountInv, Types', NEW s \in config.services,
           NEW r \in Requests, Fetch(r)
    PROVE  /\ IsFiniteSet(Pending(s)')
           /\ overlaps' < MaxOverlaps => WithinBudget(s)'
<1> DEFINE P == Pending(s)
           c == statusCache[s]
           t == Told(s)
           E == Count(s)
           B == Budget(s)
           w == built'[r].statuses[s]
<1>1. Types /\ IsFiniteSet(P)
    BY DEF CountInv
<1>2. PICK err \in BOOLEAN :
        /\ errs' = IF err THEN errs + 1 ELSE errs
        /\ built' = [x \in Requests |->
                IF x = r THEN [statuses |-> StatusesOf(probes, err),
                               lost |-> FALSE, alone |-> Rebuilding = {}]
                ELSE IF x \in Rebuilding THEN [built[x] EXCEPT !.alone = FALSE]
                ELSE NoSummary]
    BY DEF Fetch
<1>3. /\ pc[r] = "fetch" /\ pc' = [pc EXCEPT ![r] = "record"]
      /\ todo' = [todo EXCEPT ![r] = N]
      /\ UNCHANGED <<statusCache, events, probes, probed>>
      /\ overlaps' = IF Rebuilding = {} \/ overlaps = MaxOverlaps
                     THEN overlaps ELSE overlaps + 1
      /\ pc \in [Requests -> {"idle", "fetch", "record", "events", "install"}]
      /\ todo \in [Requests -> 0..N]
    BY <1>1 DEF Fetch, Goto, store, cache, N, Types
<1>4. r \notin P /\ Pending(s)' = P \cup {r}
    <2>1. r \notin P
        BY <1>3 DEF Pending
    <2>2. /\ pc'[r] = "record" /\ todo'[r] = N
          /\ \A x \in Requests \ {r} : pc'[x] = pc[x] /\ todo'[x] = todo[x]
        BY <1>3
    <2>3. \E i \in (N - todo'[r] + 1)..N : RecordOrder[i] = s
        BY <2>2, OrderTypes, <1>1, CountTypes
    <2>4. /\ Pending(s)' \ {r} = Pending(s) \ {r} /\ r \in Pending(s)'
        BY <1>1, <2>2, <2>3, PendingStep
    <2>. QED BY <2>1, <2>4
<1>5. /\ IsFiniteSet(P \cup {r}) /\ Cardinality(P \cup {r}) = Cardinality(P) + 1
      /\ Cardinality(P) \in Nat
      /\ P # {} => Cardinality(P) # 0
    BY <1>1, <1>4, FS_AddElement, FS_CardinalityType, FS_EmptySet
<1>6. SUFFICES ASSUME overlaps' < MaxOverlaps PROVE WithinBudget(s)'
    BY <1>4, <1>5
<1>7. overlaps < MaxOverlaps /\ overlaps \in Nat /\ MaxOverlaps \in Nat /\ errs \in Nat
    BY <1>1, <1>3, <1>6, BoundAssumption DEF Types
<1>8. \E e \in 0..1, o \in 0..1 :
        /\ Budget(s)' = B + 2 * (e + o)
        /\ e = 0 => w = t
        /\ o = 0 => P = {}
    <2> DEFINE e == IF err THEN 1 ELSE 0
               o == IF Rebuilding = {} THEN 0 ELSE 1
    <2>1. errs' = errs + e /\ overlaps' = overlaps + o
        BY <1>2, <1>3, <1>7
    <2>2. Flips(s)' = Flips(s) /\ Flips(s) \in Nat
        BY <1>1, <1>3, CountTypes DEF Flips
    <2>3. Budget(s)' = B + 2 * (e + o)
        <3>1. Budget(s)' = Flips(s) + 2 * (errs + e + (overlaps + o))
            BY <2>1, <2>2 DEF Budget
        <3>2. e \in 0..1 /\ o \in 0..1
            OBVIOUS
        <3> HIDE DEF e, o
        <3>. QED BY <3>1, <3>2, <2>2, <1>7 DEF Budget
    <2>4. ~err => w = t
        <3>1. built'[r].statuses = StatusesOf(probes, err)
            BY <1>2
        <3>. QED BY <3>1, <1>1, ServiceTold
    <2>5. Rebuilding = {} => P = {}
        BY <1>1, CountTypes
    <2>. QED BY <2>3, <2>4, <2>5
<1>9. PICK e \in 0..1, o \in 0..1 :
        /\ Budget(s)' = B + 2 * (e + o)
        /\ e = 0 => w = t
        /\ o = 0 => P = {}
    BY <1>8
<1>10. /\ Count(s)' = E /\ E \in Nat /\ B \in Nat
       /\ statusCache'[s] = c /\ Told(s)' = t
    BY <1>1, <1>3, CountTypes DEF Count, Of, Told
<1>11. E + Dist(c, t) <= B
    BY <1>7, NothingPending
<1>12. \A u, v : Dist(u, v) \in 0..1
    BY DistFacts
<1>13. E + 2 * Cardinality(P) + Dist(c, w) + Dist(w, t) <= B + 2 * (e + o)
    <2>1. CASE P = {}
        <3>1. Cardinality(P) = 0
            BY <2>1, FS_EmptySet
        <3>2. e = 0 => Dist(w, t) = 0 /\ Dist(c, w) = Dist(c, t)
            BY <1>9, DistFacts
        <3> HIDE DEF P, c, t, E, B, w
        <3>. QED BY <3>1, <3>2, <1>9, <1>10, <1>11, <1>12
    <2>2. CASE P # {}
        <3>1. PICK p \in P : TRUE
            BY <2>2
        <3> DEFINE v == built[p].statuses[s]
        <3>2. E + 2 * (Cardinality(P) - 1) + Dist(c, v) + Dist(v, t) <= B
            BY <3>1, <1>7 DEF CountInv, WithinBudget
        <3>3. Dist(c, t) <= Dist(c, v) + Dist(v, t)
            BY <3>1, <1>1, CountTypes, DistFacts
        <3>4. e = 0 => Dist(w, t) = 0 /\ Dist(c, w) = Dist(c, t)
            BY <1>9, DistFacts
        <3>5. o = 1
            BY <2>2, <1>9
        <3> HIDE DEF P, c, t, E, B, w, v
        <3>6. /\ Dist(c, v) \in 0..1 /\ Dist(v, t) \in 0..1 /\ Dist(c, t) \in 0..1
              /\ Dist(c, w) \in 0..1 /\ Dist(w, t) \in 0..1
            BY <1>12
        <3>7. e \in 0..1 /\ E \in Nat /\ B \in Nat /\ Cardinality(P) \in Nat
            BY <1>5, <1>9, <1>10
        <3>. QED BY <3>2, <3>3, <3>4, <3>5, <3>6, <3>7, Joining
    <2>. QED BY <2>1, <2>2
<1>14. ASSUME NEW p \in P
       PROVE  /\ built'[p].statuses[s] = built[p].statuses[s]
              /\ E + 2 * Cardinality(P) + Dist(c, built[p].statuses[s])
                   + Dist(built[p].statuses[s], t) <= B + 2 * (e + o)
    <2> DEFINE v == built[p].statuses[s]
    <2>1. p \in Rebuilding /\ p # r /\ p \in Requests
        BY <1>1, <1>4, CountTypes DEF Pending
    <2>2. built'[p].statuses = built[p].statuses
        <3>1. built[p] \in Building
            BY <2>1, <1>1 DEF Types, RequestTypes
        <3>2. built'[p] = [built[p] EXCEPT !.alone = FALSE]
            BY <1>2, <2>1
        <3>. QED BY <3>1, <3>2 DEF Building
    <2>3. E + 2 * (Cardinality(P) - 1) + Dist(c, v) + Dist(v, t) <= B
        BY <1>7 DEF CountInv, WithinBudget
    <2>4. o = 1
        BY <1>9
    <2> HIDE DEF P, c, t, E, B, v
    <2>5. E + 2 * Cardinality(P) + Dist(c, v) + Dist(v, t) <= B + 2 * (e + o)
        <3>1. e \in 0..1 /\ E \in Nat /\ B \in Nat /\ Cardinality(P) \in Nat
            BY <1>5, <1>9, <1>10
        <3>2. Dist(c, v) \in 0..1 /\ Dist(v, t) \in 0..1
            BY <1>12
        <3>. QED BY <2>3, <2>4, <3>1, <3>2, Joining
    <2>. QED BY <2>2, <2>5 DEF v
<1>15. Cardinality(Pending(s)') - 1 = Cardinality(P) /\ Pending(s)' # {}
    <2>1. Cardinality(Pending(s)') = Cardinality(P) + 1 /\ r \in Pending(s)'
        BY <1>4, <1>5
    <2>2. \A n \in Nat : n + 1 - 1 = n
        OBVIOUS
    <2>. QED BY <2>1, <2>2, <1>5
<1>16. ASSUME NEW p \in Pending(s)'
       PROVE  Count(s)' + 2 * (Cardinality(Pending(s)') - 1)
                + Dist(statusCache'[s], built'[p].statuses[s])
                + Dist(built'[p].statuses[s], Told(s)') <= Budget(s)'
    <2>1. CASE p = r
        BY <2>1, <1>9, <1>10, <1>13, <1>15
    <2>2. CASE p \in P
        BY <2>2, <1>9, <1>10, <1>14, <1>15
    <2>. QED BY <2>1, <2>2, <1>4
<1>. QED BY <1>15, <1>16 DEF WithinBudget

\* The subject r records has its turn now and will not have another.
LEMMA TurnTaken ==
    ASSUME Types, NEW r \in Requests, Record(r), NEW s \in config.services
    PROVE  IF Subject(r) = s
           THEN r \in Pending(s) /\ Pending(s)' = Pending(s) \ {r}
           ELSE Pending(s)' = Pending(s)
<1>1. /\ pc[r] = "record"
      /\ pc' = [pc EXCEPT ![r] = IF todo[r] = 1 THEN "events" ELSE "record"]
      /\ todo' = [todo EXCEPT ![r] = @ - 1]
      /\ pc \in [Requests -> {"idle", "fetch", "record", "events", "install"}]
      /\ todo \in [Requests -> 0..N]
    BY DEF Record, Goto, Types
<1>2. /\ todo[r] \in 1..N /\ N - todo[r] + 1 \in 1..N /\ N \in Nat
      /\ Subject(r) = RecordOrder[N - todo[r] + 1]
    BY <1>1, SubjectTypes, OrderTypes
<1>3. /\ pc'[r] = IF todo[r] = 1 THEN "events" ELSE "record"
      /\ todo'[r] = todo[r] - 1
      /\ \A x \in Requests \ {r} : pc'[x] = pc[x] /\ todo'[x] = todo[x]
    BY <1>1, <1>2
<1>4. /\ Pending(s)' \ {r} = Pending(s) \ {r}
      /\ r \in Pending(s)' <=>
            /\ pc'[r] = "record"
            /\ \E i \in (N - todo'[r] + 1)..N : RecordOrder[i] = s
    BY <1>3, PendingStep
<1>5. r \in Pending(s) <=> \E i \in (N - todo[r] + 1)..N : RecordOrder[i] = s
    BY <1>1 DEF Pending
<1>6. CASE Subject(r) = s
    <2>1. r \in Pending(s)
        <3>1. N - todo[r] + 1 \in (N - todo[r] + 1)..N
            BY <1>2
        <3>. QED BY <3>1, <1>2, <1>5, <1>6
    <2>2. ASSUME NEW i \in (N - todo'[r] + 1)..N, RecordOrder[i] = s PROVE FALSE
        <3>1. i \in 1..N /\ i # N - todo[r] + 1
            BY <1>2, <1>3, <2>2
        <3>. QED BY <3>1, <1>2, <1>6, <2>2, OneTurn
    <2>3. r \notin Pending(s)'
        BY <1>4, <2>2
    <2>. QED BY <1>4, <1>6, <2>1, <2>3
<1>7. CASE Subject(r) # s
    <2>1. ASSUME NEW i \in (N - todo[r] + 1)..N, RecordOrder[i] = s
          PROVE  pc'[r] = "record" /\ i \in (N - todo'[r] + 1)..N
        <3>1. i # N - todo[r] + 1
            BY <1>2, <1>7, <2>1
        <3>. QED BY <3>1, <1>2, <1>3, <2>1
    <2>2. \A i \in (N - todo'[r] + 1)..N : i \in (N - todo[r] + 1)..N
        BY <1>2, <1>3
    <2>3. r \in Pending(s)' <=> r \in Pending(s)
        BY <1>4, <1>5, <2>1, <2>2
    <2>. QED BY <1>4, <1>7, <2>3
<1>. QED BY <1>6, <1>7

\* A recording takes a rebuild off the pending ones, and its step from the
\* status table to its own status becomes an event (d = 1), is none (d = 0)
\* or is lost.
LEMMA RecordCount ==
    ASSUME CountInv, Types', NEW s \in config.services,
           NEW r \in Requests, Record(r)
    PROVE  /\ IsFiniteSet(Pending(s)')
           /\ overlaps' < MaxOverlaps => WithinBudget(s)'
<1> DEFINE P == Pending(s)
           c == statusCache[s]
           t == Told(s)
           E == Count(s)
           B == Budget(s)
           w == built[r].statuses[s]
<1>1. /\ Types /\ IsFiniteSet(P) /\ pc[r] = "record"
      /\ UNCHANGED <<probes, probed, errs, overlaps>>
    BY DEF CountInv, Record
<1>2. /\ built[r] \in Building /\ Subject(r) \in Subjects
      /\ built[r].statuses[Subject(r)] \in R!Statuses
    BY <1>1, SubjectTypes
<1>3. \/ Log!Observe(Subject(r), built[r].statuses[Subject(r)]) /\ UNCHANGED built
      \/ built' = [built EXCEPT ![r].lost = TRUE] /\ UNCHANGED store
    BY DEF Record
<1>4. \A p \in Requests : built'[p].statuses = built[p].statuses
    <2>1. [built[r] EXCEPT !.lost = TRUE].statuses = built[r].statuses
        BY <1>2 DEF Building
    <2>2. built \in [Requests -> Building \cup {NoSummary}]
        BY <1>1 DEF Types
    <2>. QED BY <2>1, <2>2, <1>3
<1>5. Told(s)' = t /\ Budget(s)' = B /\ ((overlaps < MaxOverlaps)' <=> overlaps < MaxOverlaps)
    BY <1>1 DEF Told, Budget, Flips
<1>6. IF Subject(r) = s THEN r \in P /\ Pending(s)' = P \ {r} ELSE Pending(s)' = P
    BY <1>1, TurnTaken
<1>7. \/ Count(s)' = E + Dist(c, w) /\ statusCache'[s] = w /\ Subject(r) = s
      \/ Count(s)' = E /\ statusCache'[s] = c
    <2>1. CASE Log!Observe(Subject(r), built[r].statuses[Subject(r)])
        <3>1. E \in Nat
            BY <1>1, CountTypes
        <3>. QED BY <2>1, <3>1, <1>1, <1>2, ObserveCount
    <2>2. CASE UNCHANGED store
        BY <2>2 DEF store, Count, Of
    <2>. QED BY <2>1, <2>2, <1>3
<1>8. E \in Nat /\ B \in Nat /\ Cardinality(P) \in Nat /\ \A p \in P : p \in Requests
    BY <1>1, CountTypes, FS_CardinalityType DEF Pending
<1>9. CASE Subject(r) # s
    <2>1. Pending(s)' = P /\ Count(s)' = E /\ statusCache'[s] = c
        BY <1>6, <1>7, <1>9
    <2>2. ASSUME overlaps < MaxOverlaps PROVE WithinBudget(s)'
        <3>1. WithinBudget(s)
            BY <2>2 DEF CountInv
        <3>2. P = {} => E + Dist(c, t) <= B
            BY <3>1 DEF WithinBudget
        <3>3. \A p \in P : E + 2 * (Cardinality(P) - 1) + Dist(c, built[p].statuses[s])
                             + Dist(built[p].statuses[s], t) <= B
            BY <3>1 DEF WithinBudget
        <3>4. \A p \in P : built'[p].statuses[s] = built[p].statuses[s]
            BY <1>4, <1>8
        <3> HIDE DEF P, c, t, E, B, w
        <3>. QED BY <2>1, <3>2, <3>3, <3>4, <1>5 DEF WithinBudget
    <2>. QED BY <1>1, <1>5, <2>1, <2>2
<1>10. CASE Subject(r) = s
    <2>1. r \in P /\ Pending(s)' = P \ {r}
        BY <1>6, <1>10
    <2>2. /\ IsFiniteSet(P \ {r}) /\ Cardinality(P \ {r}) = Cardinality(P) - 1
          /\ Cardinality(P) # 0
          /\ P \ {r} # {} => Cardinality(P \ {r}) # 0
        BY <1>1, <2>1, FS_RemoveElement, FS_EmptySet
    <2>3. SUFFICES ASSUME overlaps < MaxOverlaps PROVE WithinBudget(s)'
        BY <1>5, <2>1, <2>2
    <2>4. E + 2 * (Cardinality(P) - 1) + Dist(c, w) + Dist(w, t) <= B
        BY <2>1, <2>3 DEF CountInv, WithinBudget
    <2>5. /\ \A u, v : Dist(u, v) \in 0..1
          /\ Dist(c, t) <= Dist(c, w) + Dist(w, t)
        BY <1>1, <2>1, CountTypes, DistFacts
    <2>6. ASSUME P \ {r} = {}
          PROVE  Count(s)' + Dist(statusCache'[s], t) <= B
        <3>1. Cardinality(P) = 1
            BY <2>2, <2>6, <1>8, FS_EmptySet
        <3> HIDE DEF P, c, t, E, B, w
        <3>2. Dist(c, w) \in 0..1 /\ Dist(w, t) \in 0..1 /\ Dist(c, t) \in 0..1
            BY <2>5
        <3>3. E + Dist(c, w) + Dist(w, t) <= B
            BY <2>4, <3>1, <3>2, <1>8
        <3>. QED BY <1>7, <1>8, <2>5, <3>2, <3>3
    <2>7. ASSUME NEW p \in P \ {r}
          PROVE  Count(s)' + 2 * (Cardinality(P \ {r}) - 1)
                   + Dist(statusCache'[s], built'[p].statuses[s])
                   + Dist(built'[p].statuses[s], t) <= B
        <3> DEFINE v == built[p].statuses[s]
        <3>1. built'[p].statuses[s] = v
            BY <1>4, <1>8, <2>7
        <3>2. E + 2 * (Cardinality(P) - 1) + Dist(c, v) + Dist(v, t) <= B
            BY <2>3, <2>7 DEF CountInv, WithinBudget
        <3> HIDE DEF P, c, t, E, B, w, v
        <3>3. /\ Dist(c, w) \in 0..1 /\ Dist(w, t) \in 0..1 /\ Dist(c, v) \in 0..1
              /\ Dist(v, t) \in 0..1 /\ Dist(w, v) \in 0..1
            BY <2>5
        <3>4. CASE Count(s)' = E + Dist(c, w) /\ statusCache'[s] = w
            <4>1. E + Dist(c, w) + 2 * (Cardinality(P) - 1 - 1) + Dist(w, v) + Dist(v, t) <= B
                BY <2>4, <3>3, <1>8
            <4>. QED BY <4>1, <3>1, <3>4, <2>2
        <3>5. CASE Count(s)' = E /\ statusCache'[s] = c
            <4>1. E + 2 * (Cardinality(P) - 1 - 1) + Dist(c, v) + Dist(v, t) <= B
                BY <3>2, <3>3, <1>8
            <4>. QED BY <4>1, <3>1, <3>5, <2>2
        <3>. QED BY <3>4, <3>5, <1>7
    <2>8. WithinBudget(s)' <=>
            /\ P \ {r} = {} => Count(s)' + Dist(statusCache'[s], t) <= B
            /\ \A p \in P \ {r} :
                  Count(s)' + 2 * (Cardinality(P \ {r}) - 1)
                    + Dist(statusCache'[s], built'[p].statuses[s])
                    + Dist(built'[p].statuses[s], t) <= B
        <3> HIDE DEF P, t, B
        <3>. QED BY <1>5, <2>1 DEF WithinBudget
    <2>. QED BY <2>6, <2>7, <2>8
<1>. QED BY <1>9, <1>10

\* After a restart nothing is pending.
LEMMA RestartCount ==
    ASSUME CountInv, Types', NEW s \in config.services, Restart
    PROVE  /\ IsFiniteSet(Pending(s)')
           /\ overlaps' < MaxOverlaps => WithinBudget(s)'
<1>1. /\ Pending(s)' = {}
      /\ UNCHANGED <<probes, statusCache, events, probed, errs, overlaps>>
    BY DEF Restart, Pending, store
<1>2. overlaps < MaxOverlaps => Count(s) + Dist(statusCache[s], Told(s)) <= Budget(s)
    BY NothingPending
<1>3. Count(s)' = Count(s) /\ Told(s)' = Told(s) /\ Budget(s)' = Budget(s)
    BY <1>1 DEF Count, Of, Told, Budget, Flips
<1>. QED BY <1>1, <1>2, <1>3, FS_EmptySet DEF WithinBudget

\* A step of a request that is not recording before or after it.
LEMMA ElsewhereCount ==
    ASSUME CountInv, Types', NEW s \in config.services, NEW r \in Requests,
           pc[r] # "record", pc'[r] # "record",
           \A x \in Requests \ {r} :
              pc'[x] = pc[x] /\ todo'[x] = todo[x] /\ built'[x] = built[x],
           UNCHANGED <<probes, statusCache, events, probed, errs, overlaps>>
    PROVE  /\ IsFiniteSet(Pending(s)')
           /\ overlaps' < MaxOverlaps => WithinBudget(s)'
<1>1. Pending(s)' = Pending(s)
    BY DEF Pending, N
<1>2. \A p \in Pending(s) : built'[p].statuses[s] = built[p].statuses[s]
    BY DEF Pending
<1>3. Told(s)' = Told(s) /\ Budget(s)' = Budget(s)
    BY DEF Told, Budget, Flips
<1>. QED BY <1>1, <1>2, <1>3, CountKept

LEMMA InitCount == Init => CountInv
<1> SUFFICES ASSUME Init PROVE CountInv
    OBVIOUS
<1>1. Types
    BY InitTypes
<1>2. ASSUME NEW s \in config.services
      PROVE  IsFiniteSet(Pending(s)) /\ WithinBudget(s)
    <2>1. Pending(s) = {}
        BY DEF Init, Pending
    <2>2. Count(s) = 0
        <3>1. Of(events, s) = {}
            BY DEF Init, Log!Init, Of
        <3>. QED BY <3>1, FS_EmptySet DEF Count
    <2>3. Dist(statusCache[s], Told(s)) = 0
        BY DEF Init, Log!Init, Subjects, Dist
    <2>4. Budget(s) \in Nat
        BY <1>1, CountTypes
    <2>. QED BY <2>1, <2>2, <2>3, <2>4, FS_EmptySet DEF WithinBudget
<1>. QED BY <1>1, <1>2 DEF CountInv

LEMMA StepCount == CountInv /\ [Next]_vars => CountInv'
<1> SUFFICES ASSUME CountInv, [Next]_vars PROVE CountInv'
    OBVIOUS
<1>1. Types /\ Types'
    BY StepTypes DEF CountInv
<1> SUFFICES ASSUME NEW s \in config.services
             PROVE  /\ IsFiniteSet(Pending(s)')
                    /\ overlaps' < MaxOverlaps => WithinBudget(s)'
    BY <1>1 DEF CountInv
<1> DEFINE Goal == /\ IsFiniteSet(Pending(s)')
                   /\ overlaps' < MaxOverlaps => WithinBudget(s)'
<1> SUFFICES Goal
    OBVIOUS
<1>2. ASSUME UNCHANGED <<probes, statusCache, events, pc, built, todo, probed,
                         errs, overlaps>>
      PROVE  Goal
    <2>1. /\ Pending(s)' = Pending(s)
          /\ Told(s)' = Told(s) /\ Budget(s)' = Budget(s)
        BY <1>2 DEF Pending, N, Told, Budget, Flips
    <2>. QED BY <1>1, <1>2, <2>1, CountKept
<1>3. ASSUME NEW k \in Keys, NEW v \in ProbeStatuses, Probe(k, v) PROVE Goal
    <2>1. /\ probes' = [probes EXCEPT ![k] = v]
          /\ probed' = [probed EXCEPT ![k] = @ + 1]
          /\ UNCHANGED <<statusCache, events, pc, built, todo, errs, overlaps>>
        BY <1>3 DEF Probe, store, requests
    <2>2. Pending(s)' = Pending(s)
        BY <2>1 DEF Pending, N
    <2>3. \/ Told(s)' = Told(s) /\ Flips(s)' = Flips(s)
          \/ Flips(s)' = Flips(s) + 1
        BY <1>1, <2>1 DEF Types, Told, Flips
    <2>4. Flips(s) \in Nat /\ errs \in Nat /\ overlaps \in Nat
        BY <1>1, CountTypes DEF Types
    <2>5. \/ Told(s)' = Told(s) /\ Budget(s)' = Budget(s)
          \/ Budget(s)' = Budget(s) + 1
        BY <2>1, <2>3, <2>4 DEF Budget
    <2>. QED BY <1>1, <2>1, <2>2, <2>5, CountKept
<1>4. ASSUME NEW r \in Requests, Ask(r) PROVE Goal
    <2>1. /\ pc[r] = "idle" /\ pc' = [pc EXCEPT ![r] = "fetch"]
          /\ UNCHANGED <<probes, statusCache, events, built, todo, probed, errs,
                         overlaps>>
        BY <1>4 DEF Ask, Goto, store, history
    <2>. QED BY <1>1, <2>1, ElsewhereCount DEF Types
<1>5. ASSUME NEW r \in Requests, ReadEvents(r) PROVE Goal
    <2>1. /\ pc[r] = "events" /\ pc' = [pc EXCEPT ![r] = "install"]
          /\ built' = built \/ built' = [built EXCEPT ![r].lost = TRUE]
          /\ UNCHANGED <<probes, statusCache, events, todo, probed, errs, overlaps>>
        BY <1>5 DEF ReadEvents, Goto, store
    <2>. QED BY <1>1, <2>1, ElsewhereCount DEF Types
<1>6. ASSUME NEW r \in Requests, Install(r) PROVE Goal
    <2>1. /\ pc[r] = "install" /\ pc' = [pc EXCEPT ![r] = "idle"]
          /\ built' = [built EXCEPT ![r] = NoSummary]
          /\ UNCHANGED <<probes, statusCache, events, todo, probed, errs, overlaps>>
        BY <1>6 DEF Install, Goto, store, history
    <2>. QED BY <1>1, <2>1, ElsewhereCount DEF Types
<1>7. CASE Expire
    BY <1>2, <1>7 DEF Expire, store, requests, history
<1>8. ASSUME NEW r \in Requests, Cancel(r) PROVE Goal
    BY <1>2, <1>8 DEF Cancel, store
<1>9. CASE UNCHANGED vars
    BY <1>2, <1>9 DEF vars, store, requests, history
<1>10. CASE Restart
    BY <1>1, <1>10, RestartCount
<1>11. ASSUME NEW r \in Requests, Fetch(r) \/ Record(r) PROVE Goal
    BY <1>1, <1>11, FetchCount, RecordCount
<1>. QED BY <1>3, <1>4, <1>5, <1>6, <1>7, <1>8, <1>9, <1>10, <1>11 DEF Next, Step

LEMMA CountMeans == CountInv => TransitionsAccountedFor
<1> SUFFICES ASSUME CountInv, overlaps < MaxOverlaps, NEW s \in config.services
             PROVE  Cardinality(Of(events, s)) <= Flips(s) + 2 * (errs + overlaps)
    BY DEF TransitionsAccountedFor, Flips
<1>1. Count(s) + Dist(statusCache[s], Told(s)) <= Budget(s)
    BY NothingPending
<1>2. /\ Count(s) \in Nat /\ Budget(s) \in Nat
      /\ Dist(statusCache[s], Told(s)) \in 0..1
    BY CountTypes, DistFacts DEF CountInv
<1>3. Count(s) <= Budget(s)
    BY <1>1, <1>2
<1>. QED BY <1>3 DEF Count, Budget

(***************************************************************************)
(* The event log shows no flapping of its own making: a service has at     *)
(* most one event per change of its probe and two per failed fetch and per *)
(* overlap of rebuilds, however many requests, lost writes, cancellations  *)
(* and restarts there were.                                                *)
(***************************************************************************)
THEOREM NoFlappingOfItsOwn == Spec => []TransitionsAccountedFor
BY InitCount, StepCount, CountMeans, PTL DEF Spec
-----------------------------------------------------------------------------

LEMMA StepIsObservation == Types /\ [Next]_vars => [Log!Next]_(Log!vars)
<1> SUFFICES ASSUME Types, [Next]_vars
             PROVE  Log!Next \/ UNCHANGED <<statusCache, events>>
    BY DEF Log!vars
<1>1. ASSUME NEW r \in Requests, Record(r)
      PROVE  Log!Next \/ UNCHANGED <<statusCache, events>>
    <2>1. /\ Subject(r) \in Subjects
          /\ built[r].statuses[Subject(r)] \in R!Statuses
        BY <1>1, SubjectTypes DEF Record
    <2>. QED BY <1>1, <2>1 DEF Record, store, Log!Next
<1>2. ASSUME NEW r \in Requests,
             Ask(r) \/ Fetch(r) \/ ReadEvents(r) \/ Install(r) \/ Cancel(r)
      PROVE  UNCHANGED <<statusCache, events>>
    BY <1>2 DEF Ask, Fetch, ReadEvents, Install, Cancel, store
<1>3. ASSUME \/ \E k \in Keys, v \in ProbeStatuses : Probe(k, v)
             \/ Expire \/ Restart \/ UNCHANGED vars
      PROVE  UNCHANGED <<statusCache, events>>
    BY <1>3 DEF Probe, Expire, Restart, vars, store
<1>. QED BY <1>1, <1>2, <1>3 DEF Next, Step

(***************************************************************************)
(* However rebuilds interleave, what they do to the store is a run of      *)
(* StatusLog: the specification that StatusStore implements and on which   *)
(* the event pages rely.                                                   *)
(***************************************************************************)
THEOREM RebuildsUseTheLog == Spec => Log!Spec
<1>1. Init => Log!Init
    BY DEF Init
<1>. QED BY <1>1, InitTypes, StepTypes, StepIsObservation, PTL DEF Spec, Log!Spec
=============================================================================
