------------------------------- MODULE Summary -------------------------------
(***************************************************************************)
(* Aggregator.Summary (backend/internal/app/aggregate.go): requests served *)
(* concurrently from a summary cached for a TTL, or rebuilt from Gatus.    *)
(* A rebuild                                                               *)
(*                                                                         *)
(*   looks at the cache under the mutex -> unlocks and asks Gatus ->       *)
(*   records the status of every service, node and project, one call of    *)
(*   RecordStatus each, errors dropped -> reads the recent events ->       *)
(*   stores the summary under the mutex with a fresh TTL                   *)
(*                                                                         *)
(* so two rebuilds interleave freely.  Summary returns no error: a Gatus   *)
(* that cannot be read (or a request context that is already cancelled)    *)
(* gives a summary whose services are unknown, which is recorded and       *)
(* cached like any other.                                                  *)
(*                                                                         *)
(* The store is StatusLog, which StatusStore is shown to implement.  Time  *)
(* is abstracted to whether the cached summary is still fresh.  Metrics,   *)
(* details and times of the views are left out.                            *)
(***************************************************************************)
EXTENDS Naturals, Sequences, FiniteSets

CONSTANTS
    Requests,       \* concurrent HTTP requests that call Summary
    config,         \* the AppConfig, as in StatusRollup
    RecordOrder,    \* services, nodes, projects as Summary loops over them
    NoKey, Absent,
    NoSummary,      \* a.cached == nil, and a request that holds none
    ProbeStatuses,  \* what a probe of an endpoint can end with
    EventLimit,     \* how many events a summary shows
    MaxProbes,      \* bound: changes of each endpoint's probe result
    MaxFaults,      \* bound: failed fetches, lost writes, cancels, restarts
    MaxOverlaps     \* the count of overlapping rebuilds saturates here

Subjects == config.services \cup config.nodes \cup config.projects

\* Every subject has its turn, once; Validate wants at least one node.
ASSUME OrderAssumption ==
    /\ RecordOrder \in Seq(Subjects) /\ RecordOrder # <<>>
    /\ Len(RecordOrder) = Cardinality(Subjects)
    /\ {RecordOrder[i] : i \in DOMAIN RecordOrder} = Subjects
ASSUME BoundAssumption ==
    /\ {MaxProbes, MaxFaults, MaxOverlaps} \subseteq Nat
    /\ EventLimit \in Nat \ {0}

R == INSTANCE StatusRollup

ASSUME AbsentAssumption == Absent \notin R!Statuses
ASSUME ProbesAssumption == ProbeStatuses \subseteq R!Statuses

VARIABLES
    probes,             \* Gatus: status of the newest result of each endpoint
    statusCache, events,    \* the store
    cached, fresh,      \* a.cached, and time.Now().Before(a.expiresAt)
    pc,                 \* where each request is
    live,               \* whether the client of each request still waits
    built,              \* the statuses a rebuild derived from its fetch
    todo,               \* how many subjects it still has to record
    shown,              \* the events it read
    probed, errs, faults, overlaps  \* histories, for bounds and properties

store == <<statusCache, events>>
cache == <<cached, fresh>>
requests == <<pc, live, built, todo, shown>>
history == <<probed, errs, faults, overlaps>>
vars == <<probes, store, cache, requests, history>>

Log == INSTANCE StatusLog WITH Statuses <- R!Statuses

\* What a rebuild holds, and what is cached, is not mistaken for nothing.
Board == [Subjects -> R!Statuses]
Building == [statuses : Board, lost : BOOLEAN, alone : BOOLEAN]

ASSUME NoSummaryAssumption ==
    NoSummary \notin Building \cup [built : Building, events : Seq(Log!Event)]

Keys == {config.keyOf[s] : s \in config.services} \ {NoKey}

\* The statuses Summary derives from an answer of Gatus, by subject.
StatusesOf(checks, err) ==
    LET board == R!Rollup(config, checks, err)
    IN  [s \in Subjects |->
            IF s \in config.services THEN board.services[s]
            ELSE IF s \in config.nodes THEN board.nodes[s]
            ELSE board.projects[s]]

Rebuilding == {r \in Requests : pc[r] \in {"record", "events", "install"}}

\* The newest `limit` events, oldest first; RecentEvents lists them reversed.
RecentEvents(limit) ==
    SubSeq(events, IF Len(events) > limit THEN Len(events) - limit + 1 ELSE 1,
           Len(events))

TypeOK ==
    /\ probes \in [Keys -> ProbeStatuses]
    /\ Log!TypeOK
    /\ cached = NoSummary \/
          /\ cached.built.statuses \in Board
          /\ cached.events \in Seq(Log!Event)
    /\ fresh \in BOOLEAN
    /\ cached = NoSummary => ~fresh
    /\ pc \in [Requests -> {"idle", "fetch", "record", "events", "install"}]
    /\ live \in [Requests -> BOOLEAN]
    /\ \A r \in Requests :
          /\ built[r] = NoSummary <=> r \notin Rebuilding
          /\ pc[r] = "idle" => live[r]
          /\ built[r] # NoSummary => built[r].statuses \in Board
          /\ todo[r] \in 0..Len(RecordOrder)
          /\ shown[r] \in Seq(Log!Event)

Init ==
    /\ probes \in [Keys -> ProbeStatuses]
    /\ Log!Init
    /\ cached = NoSummary
    /\ fresh = FALSE
    /\ pc = [r \in Requests |-> "idle"]
    /\ live = [r \in Requests |-> TRUE]
    /\ built = [r \in Requests |-> NoSummary]
    /\ todo = [r \in Requests |-> 0]
    /\ shown = [r \in Requests |-> <<>>]
    /\ probed = [k \in Keys |-> 0]
    /\ errs = 0
    /\ faults = 0
    /\ overlaps = 0

-----------------------------------------------------------------------------

Goto(r, next) == pc' = [pc EXCEPT ![r] = next]

\* Every fault spends one of the budget.
Fault ==
    /\ faults < MaxFaults
    /\ faults' = faults + 1

\* A result of Gatus' own probing changes the status of an endpoint.
Probe(k, v) ==
    /\ probed[k] < MaxProbes
    /\ v # probes[k]
    /\ probes' = [probes EXCEPT ![k] = v]
    /\ probed' = [probed EXCEPT ![k] = @ + 1]
    /\ UNCHANGED <<store, cache, requests, errs, faults, overlaps>>

\* Mutant of Ask: the cached summary is served for ever.
AskOnce(r) ==
    /\ pc[r] = "idle"
    /\ cached = NoSummary
    /\ Goto(r, "fetch")
    /\ UNCHANGED <<probes, store, cache, live, built, todo, shown, history>>

\* A fresh cached summary answers at once, anything else starts a rebuild.
Ask(r) ==
    /\ pc[r] = "idle"
    /\ ~(cached # NoSummary /\ fresh)
    /\ Goto(r, "fetch")
    /\ UNCHANGED <<probes, store, cache, live, built, todo, shown, history>>

\* gatus.Statuses(ctx): an answer, or an error after a timeout, a bad
\* response or the cancellation of the request.
Fetch(r) ==
    /\ pc[r] = "fetch"
    /\ \E err \in BOOLEAN :
          /\ ~live[r] => err
          /\ IF err /\ live[r] THEN Fault ELSE UNCHANGED faults
          /\ errs' = IF err THEN errs + 1 ELSE errs
          /\ built' = [x \in Requests |->
                IF x = r THEN [statuses |-> StatusesOf(probes, err),
                               lost |-> FALSE, alone |-> Rebuilding = {}]
                ELSE IF x \in Rebuilding THEN [built[x] EXCEPT !.alone = FALSE]
                ELSE NoSummary]
    /\ todo' = [todo EXCEPT ![r] = Len(RecordOrder)]
    /\ overlaps' = IF Rebuilding = {} \/ overlaps = MaxOverlaps
                   THEN overlaps ELSE overlaps + 1
    /\ Goto(r, "record")
    /\ UNCHANGED <<probes, store, cache, live, shown, probed>>

\* The next subject r records.
Subject(r) == RecordOrder[Len(RecordOrder) - todo[r] + 1]

\* Mutant of Record: only problems are recorded.
RecordProblems(r) ==
    /\ pc[r] = "record"
    /\ \/ /\ live[r]
          /\ IF built[r].statuses[Subject(r)] = "ok" THEN UNCHANGED store
             ELSE Log!Observe(Subject(r), built[r].statuses[Subject(r)])
          /\ UNCHANGED <<built, faults>>
       \/ /\ IF live[r] THEN Fault ELSE UNCHANGED faults
          /\ built' = [built EXCEPT ![r].lost = TRUE]
          /\ UNCHANGED store
    /\ todo' = [todo EXCEPT ![r] = @ - 1]
    /\ Goto(r, IF todo[r] = 1 THEN "events" ELSE "record")
    /\ UNCHANGED <<probes, cache, live, shown, probed, errs, overlaps>>

\* One call of RecordStatus; its error, certain once ctx is cancelled, is
\* dropped.
Record(r) ==
    /\ pc[r] = "record"
    /\ \/ /\ live[r]
          /\ Log!Observe(Subject(r), built[r].statuses[Subject(r)])
          /\ UNCHANGED <<built, faults>>
       \/ /\ IF live[r] THEN Fault ELSE UNCHANGED faults
          /\ built' = [built EXCEPT ![r].lost = TRUE]
          /\ UNCHANGED store
    /\ todo' = [todo EXCEPT ![r] = @ - 1]
    /\ Goto(r, IF todo[r] = 1 THEN "events" ELSE "record")
    /\ UNCHANGED <<probes, cache, live, shown, probed, errs, overlaps>>

\* store.RecentEvents(ctx, 50); no events after an error.
ReadEvents(r) ==
    /\ pc[r] = "events"
    /\ \/ /\ live[r]
          /\ shown' = [shown EXCEPT ![r] = RecentEvents(EventLimit)]
          /\ UNCHANGED <<built, faults>>
       \/ /\ IF live[r] THEN Fault ELSE UNCHANGED faults
          /\ shown' = [shown EXCEPT ![r] = <<>>]
          /\ built' = [built EXCEPT ![r].lost = TRUE]
    /\ Goto(r, "install")
    /\ UNCHANGED <<probes, store, cache, live, todo, probed, errs, overlaps>>

\* The summary replaces the cached one whatever that is, with a new TTL.
Install(r) ==
    /\ pc[r] = "install"
    /\ cached' = [built |-> built[r], events |-> shown[r]]
    /\ fresh' = TRUE
    /\ built' = [built EXCEPT ![r] = NoSummary]
    /\ shown' = [shown EXCEPT ![r] = <<>>]
    /\ live' = [live EXCEPT ![r] = TRUE]
    /\ Goto(r, "idle")
    /\ UNCHANGED <<probes, store, todo, history>>

\* The TTL of the cached summary runs out.
Expire ==
    /\ fresh
    /\ fresh' = FALSE
    /\ UNCHANGED <<probes, store, cached, requests, history>>

\* The client of r goes away; the handler runs on with a cancelled context.
Cancel(r) ==
    /\ pc[r] # "idle"
    /\ live[r]
    /\ Fault
    /\ live' = [live EXCEPT ![r] = FALSE]
    /\ UNCHANGED <<probes, store, cache, pc, built, todo, shown,
                   probed, errs, overlaps>>

\* Mutants of Restart: the expiry survives, the cached summary does not;
\* every subject is set to unknown when the process starts.
RestartFresh ==
    /\ Fault
    /\ cached' = NoSummary
    /\ pc' = [r \in Requests |-> "idle"]
    /\ live' = [r \in Requests |-> TRUE]
    /\ built' = [r \in Requests |-> NoSummary]
    /\ todo' = [r \in Requests |-> 0]
    /\ shown' = [r \in Requests |-> <<>>]
    /\ UNCHANGED <<probes, store, fresh, probed, errs, overlaps>>

RestartUnknown ==
    /\ Fault
    /\ Log!Observe(RecordOrder[1], "unknown")
    /\ cached' = NoSummary
    /\ fresh' = FALSE
    /\ pc' = [r \in Requests |-> "idle"]
    /\ live' = [r \in Requests |-> TRUE]
    /\ built' = [r \in Requests |-> NoSummary]
    /\ todo' = [r \in Requests |-> 0]
    /\ shown' = [r \in Requests |-> <<>>]
    /\ UNCHANGED <<probes, probed, errs, overlaps>>

\* The process dies and starts again: the store stays.
Restart ==
    /\ Fault
    /\ cached' = NoSummary
    /\ fresh' = FALSE
    /\ pc' = [r \in Requests |-> "idle"]
    /\ live' = [r \in Requests |-> TRUE]
    /\ built' = [r \in Requests |-> NoSummary]
    /\ todo' = [r \in Requests |-> 0]
    /\ shown' = [r \in Requests |-> <<>>]
    /\ UNCHANGED <<probes, store, probed, errs, overlaps>>

Step(r) == Fetch(r) \/ Record(r) \/ ReadEvents(r) \/ Install(r)

Next ==
    \/ \E k \in Keys, v \in ProbeStatuses : Probe(k, v)
    \/ \E r \in Requests : Ask(r) \/ Step(r) \/ Cancel(r)
    \/ Expire
    \/ Restart

Spec == Init /\ [][Next]_vars

(***************************************************************************)
(* Some rebuild goes on whenever one is under way: Gatus answers or the    *)
(* client's 8 s timeout fires, and the store returns (CallsReturn of       *)
(* StatusStore).  A particular one may be held up for ever.  Time passes.  *)
(* Somebody looks at the board again and again: an open page asks every    *)
(* 15 s.                                                                   *)
(***************************************************************************)
Fairness ==
    /\ WF_vars(\E r \in Requests : Step(r))
    /\ WF_vars(Expire)
    /\ WF_vars(\E r \in Requests : Ask(r))

FairSpec == Spec /\ Fairness

-----------------------------------------------------------------------------

\* The transitions of subject s in a list of events.
Of(list, s) == {i \in DOMAIN list : list[i].subject = s}

(***************************************************************************)
(* The log shows no flapping of its own making: a service has at most one  *)
(* event per change of its probe, plus two (there and back) for every      *)
(* failed fetch and for every rebuild that overlapped another one.  The    *)
(* last two are what the unguarded rebuild costs; cancelled requests, lost *)
(* writes and restarts add nothing.                                        *)
(***************************************************************************)
TransitionsAccountedFor ==
    overlaps < MaxOverlaps =>
        \A s \in config.services :
            LET flips == IF config.keyOf[s] \in Keys
                         THEN probed[config.keyOf[s]] ELSE 0
            IN  Cardinality(Of(events, s)) <= flips + 2 * (errs + overlaps)

(***************************************************************************)
(* A cached summary tells one story: for every subject, the newest event   *)
(* it lists ends in the status it shows.  This needs the recording of all  *)
(* subjects to precede the reading of the events; it can fail when a write *)
(* or the read was lost or another rebuild ran at the same time.           *)
(***************************************************************************)
EventsMatchStatuses ==
    cached # NoSummary /\ cached.built.alone /\ ~cached.built.lost =>
        \A s \in Subjects : \A i \in Of(cached.events, s) :
            (\A j \in Of(cached.events, s) : j <= i)
            => cached.events[i].to = cached.built.statuses[s]

(***************************************************************************)
(* Whatever overlapped, failed, was cancelled or restarted before: once    *)
(* Gatus' results stay as they are, the status table and the cached        *)
(* summary agree with them from some point on.                             *)
(***************************************************************************)
BoardCatchesUp ==
    <>[](/\ cached # NoSummary
         /\ cached.built.statuses = statusCache
         /\ statusCache = StatusesOf(probes, FALSE))
=============================================================================
