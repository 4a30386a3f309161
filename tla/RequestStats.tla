---------------------------- MODULE RequestStats ----------------------------
(***************************************************************************)
(* The statistics of the API requests and the issues they raise (backend/  *)
(* internal/app/request_stats.go, server.go).  Every request to /api/ is   *)
(* timed by withLogging; when its handler is done the request is counted,  *)
(* in all and by route, and put into a bounded list of recent samples,     *)
(* under one mutex.  Requests overlap, and between the measurement and the *)
(* mutex another one may come first.                                       *)
(*                                                                         *)
(* A diagnostics request times its own stages, takes a snapshot of the     *)
(* statistics and adds issues to its digest: one for recent answers of 500 *)
(* and above, one for recent slow answers, one for its own slowness.  Its  *)
(* own sample comes after its snapshot.                                    *)
(*                                                                         *)
(* A path is the sequence of its segments, durations are whole numbers.    *)
(* Bytes, averages and percentiles, the order in which samples and routes  *)
(* are listed and the texts are left out.                                  *)
(***************************************************************************)
EXTENDS Integers, Sequences, FiniteSetsExt

CONSTANTS
    Callers,            \* requests under way at the same time
    Calls,              \* the requests: [method, path]
    Replies,            \* what handlers write: statuses, and Body
    Body,               \* a Write of the body
    Stages,             \* the stages of Diagnostics: [name, warn]; warn = 0 if
                        \* the stage has no budget of its own
    RecentLimit,        \* defaultAPIRequestRecentLimit (80)
    SlowThreshold,      \* defaultAPISlowRequestThreshold (500 ms)
    TotalWarn,          \* diagnosticsTotalWarnMS (1500)
    StageWarn,          \* diagnosticsStageWarnMS (1000)
    MaxRequests,        \* bound: requests
    MaxClock            \* bound: the clock

ASSUME LimitAssumption == RecentLimit \in Nat \ {0}

\* A status is a number.
ASSUME RepliesAssumption == \A reply \in Replies : reply # <<>> => Head(reply) \in Int

\* One kind of stage has a budget of its own.
ASSUME BudgetsAssumption ==
    /\ TotalWarn \in Nat /\ StageWarn \in Nat
    /\ Stages \in Seq([name : STRING, warn : Nat]) /\ Stages # <<>>
    /\ \A i, j \in DOMAIN Stages :
          Stages[i].warn > 0 /\ Stages[j].warn > 0 => Stages[i].warn = Stages[j].warn

VARIABLES
    now,
    all,                \* the counters over all requests
    routes,             \* the counters by method and route
    recent,             \* the recent samples, oldest first
    pc,                 \* caller -> where its request is
    act,                \* caller -> its request
    begun,              \* how many requests there were
    log                 \* every sample ever recorded

stats == <<all, routes, recent, log>>
vars == <<now, stats, pc, act, begun>>

-----------------------------------------------------------------------------
(* normalizeAPIPath. *)

Patterns ==
    {<<x>> : x \in {"health", "summary", "nodes", "projects", "services",
                    "metrics", "checks", "diagnostics", "events"}}
    \cup {<<x, ":id">> : x \in {"nodes", "projects", "services", "heartbeats"}}
    \cup {<<x, ":id", y>> : x \in {"nodes", "projects"}, y \in {"metrics", "checks"}}
    \cup {<<"services", ":id", "checks">>, <<"telemetry", "schema">>,
          <<"metrics", "reports">>, <<"metrics", "history">>,
          <<"metrics", "report">>, <<"metrics", "report", "v2">>}

Unmatched == <<"unmatched">>

Fits(pattern, path) ==
    /\ Len(path) = Len(pattern) + 2
    /\ path[1] = "api" /\ path[2] = "v1"
    /\ \A i \in DOMAIN pattern : pattern[i] \in {":id", path[i + 2]}

\* At most one pattern fits.
Route(path) ==
    IF \E p \in Patterns : Fits(p, path)
    THEN CHOOSE p \in Patterns : Fits(p, path) ELSE Unmatched

-----------------------------------------------------------------------------

\* incrementStatusCount.
Classes == {"success", "redirect", "client", "server", "other"}

StatusClass(status) ==
    CASE status >= 500 -> "server"
      [] status \in 400..499 -> "client"
      [] status \in 300..399 -> "redirect"
      [] status \in 200..299 -> "success"
      [] OTHER -> "other"

NoCounts ==
    [total |-> 0, slow |-> 0, duration |-> 0, longest |-> 0,
     classes |-> [k \in Classes |-> 0]]

\* The counters after one more sample.
Counted(counts, sample) ==
    [total    |-> counts.total + 1,
     slow     |-> IF sample.duration >= SlowThreshold
                  THEN counts.slow + 1 ELSE counts.slow,
     duration |-> counts.duration + sample.duration,
     longest  |-> IF sample.duration > counts.longest
                  THEN sample.duration ELSE counts.longest,
     classes  |-> [counts.classes EXCEPT ![StatusClass(sample.status)] = @ + 1]]

Key(sample) == <<sample.method, sample.route>>

\* Mutant of CountedRoute: the request that creates the entry is not counted.
CountedRouteLate(table, sample) ==
    [k \in DOMAIN table \cup {Key(sample)} |->
        IF k \notin DOMAIN table THEN NoCounts
        ELSE IF k = Key(sample) THEN Counted(table[k], sample) ELSE table[k]]

CountedRoute(table, sample) ==
    [k \in DOMAIN table \cup {Key(sample)} |->
        IF k = Key(sample)
        THEN Counted(IF k \in DOMAIN table THEN table[k] ELSE NoCounts, sample)
        ELSE table[k]]

\* Mutant of Pushed: what is too much is cut off at the end.
PushedAtStart(list, sample) ==
    LET longer == Append(list, sample)
    IN  IF Len(longer) > RecentLimit THEN SubSeq(longer, 1, RecentLimit) ELSE longer

\* The samples are moved down over the oldest one.
Pushed(list, sample) ==
    LET longer == Append(list, sample)
        over == Len(longer) - RecentLimit
    IN  IF over > 0 THEN [i \in 1..RecentLimit |-> longer[i + over]] ELSE longer

-----------------------------------------------------------------------------
(* The issues that a diagnostics request adds. *)

\* Mutant of Promotable: every slow request counts.
PromotableAny(sample) == sample.duration >= SlowThreshold

\* isPromotableSlowAPIRequest.
Promotable(sample) ==
    /\ sample.duration >= SlowThreshold
    /\ ~(/\ sample.method = "GET" /\ sample.route = <<"diagnostics">>
         /\ sample.status < 500)

\* opsWithAPIRequestIssues.
RequestIssues(samples) ==
    LET Some(P(_)) == \E i \in DOMAIN samples : P(samples[i])
    IN  {x \in {"api-5xx"} : Some(LAMBDA s : s.status >= 500)}
        \cup {x \in {"api-slow"} : Some(Promotable)}

\* Mutant of Budget: a stage has no budget of its own.
BudgetDefault(stage) == StageWarn

\* runtimeStageWarnMS.
Budget(stage) == IF stage.warn > 0 THEN stage.warn ELSE StageWarn

\* opsWithRuntimeTimingIssues: the budget of the whole is at least that of
\* each stage.
TimingIssues(durations, total) ==
    LET allowed == Max({TotalWarn} \cup {Budget(Stages[i]) : i \in DOMAIN Stages})
    IN  {x \in {"diagnostics-slow"} :
            \/ total >= allowed
            \/ \E i \in DOMAIN Stages : durations[i] >= Budget(Stages[i])}

-----------------------------------------------------------------------------

\* withLogging lets everything outside /api/ pass.
Watched(call) == Len(call.path) > 1 /\ call.path[1] = "api"

Diagnoses(call) == call.path = <<"api", "v1", "diagnostics">>

\* loggingResponseWriter: the first status counts, 200 if there is none.
StatusOf(reply) ==
    IF reply = <<>> \/ Head(reply) = Body THEN 200 ELSE Head(reply)

Idle ==
    [call |-> [method |-> "", path |-> <<>>], start |-> 0, mark |-> 0,
     stages |-> <<>>, issues |-> {}, seen |-> 0,
     status |-> 0, duration |-> 0]

Init ==
    /\ now = 0
    /\ all = NoCounts
    /\ routes = [k \in {} |-> NoCounts]
    /\ recent = <<>>
    /\ pc = [c \in Callers |-> "idle"]
    /\ act = [c \in Callers |-> Idle]
    /\ begun = 0
    /\ log = <<>>

Goto(c, from, to) == pc[c] = from /\ pc' = [pc EXCEPT ![c] = to]

\* Only differences of times are looked at, so time stands still between the
\* requests.
Tick ==
    /\ now < MaxClock
    /\ \E c \in Callers : pc[c] # "idle"
    /\ now' = now + 1
    /\ UNCHANGED <<stats, pc, act, begun>>

Begin(c, call) ==
    /\ begun < MaxRequests
    /\ begun' = begun + 1
    /\ Goto(c, "idle", IF Diagnoses(call) THEN "stages" ELSE "handler")
    /\ act' = [act EXCEPT ![c] = [Idle EXCEPT !.call = call, !.start = now,
                                              !.mark = now]]
    /\ UNCHANGED <<now, stats>>

\* A handler other than diagnostics.
Handle(c, reply) ==
    /\ Goto(c, "handler", "handled")
    /\ act' = [act EXCEPT ![c].status = StatusOf(reply)]
    /\ UNCHANGED <<now, stats, begun>>

\* Diagnostics finishes a stage (recordStage).
Stage(c) ==
    /\ Goto(c, "stages", IF Len(act[c].stages) + 1 = Len(Stages)
                         THEN "snapshot" ELSE "stages")
    /\ act' = [act EXCEPT ![c].stages = Append(@, now - act[c].mark),
                          ![c].mark = now]
    /\ UNCHANGED <<now, stats, begun>>

\* The rest of the handler; Diagnostics itself returns no error.
Snapshot(c) ==
    /\ Goto(c, "snapshot", "handled")
    /\ act' = [act EXCEPT
          ![c].issues = RequestIssues(recent)
                        \cup TimingIssues(act[c].stages, act[c].mark - act[c].start),
          ![c].seen = Len(log),
          ![c].status = 200]
    /\ UNCHANGED <<now, stats, begun>>

\* withLogging takes the time.
Measure(c) ==
    /\ Goto(c, "handled", IF Watched(act[c].call) THEN "record" ELSE "idle")
    /\ act' = [act EXCEPT ![c] =
                  IF Watched(@.call)
                  THEN [Idle EXCEPT !.call = act[c].call, !.status = act[c].status,
                                    !.duration = now - act[c].start]
                  ELSE Idle]
    /\ UNCHANGED <<now, stats, begun>>

Sample(c) ==
    [method   |-> act[c].call.method,
     route    |-> Route(act[c].call.path),
     status   |-> act[c].status,
     duration |-> act[c].duration]

\* APIRequestStats.Record.
Record(c) ==
    /\ Goto(c, "record", "idle")
    /\ all' = Counted(all, Sample(c))
    /\ routes' = CountedRoute(routes, Sample(c))
    /\ recent' = Pushed(recent, Sample(c))
    /\ log' = Append(log, Sample(c))
    /\ act' = [act EXCEPT ![c] = Idle]
    /\ UNCHANGED <<now, begun>>

\* The bounds, not a step of the system.
RequestsStop ==
    /\ begun = MaxRequests /\ \A c \in Callers : pc[c] = "idle"
    /\ UNCHANGED vars

Next ==
    \/ Tick
    \/ RequestsStop
    \/ \E c \in Callers :
          \/ \E call \in Calls : Begin(c, call)
          \/ \E reply \in Replies : Handle(c, reply)
          \/ Stage(c) \/ Snapshot(c) \/ Measure(c) \/ Record(c)

Spec == Init /\ [][Next]_vars

-----------------------------------------------------------------------------

\* The last RecentLimit samples among the first n of the log.
Latest(n) == {log[i] : i \in {j \in DOMAIN log : j <= n /\ j > n - RecentLimit}}

\* A caller that has just answered with a digest.
Answered(c) == Diagnoses(act[c].call) /\ pc[c] = "handled"

(***************************************************************************)
(* The two sets of counters never come apart: what is counted in all is    *)
(* what is counted by route, class by class and the slow ones too, and     *)
(* nothing is lost or counted twice, whatever order the requests finish    *)
(* in.                                                                     *)
(***************************************************************************)
CountersAgree ==
    LET Sum(F(_)) == SumFunction([k \in DOMAIN routes |-> F(routes[k])])
    IN  /\ all.total = Len(log)
        /\ all.total = Sum(LAMBDA r : r.total)
        /\ all.slow = Sum(LAMBDA r : r.slow)
        /\ all.duration = Sum(LAMBDA r : r.duration)
        /\ \A k \in Classes : all.classes[k] = Sum(LAMBDA r : r.classes[k])
        /\ all.total = SumFunction(all.classes)
        /\ all.longest <= all.duration /\ all.slow <= all.total

(***************************************************************************)
(* The recent samples are the last RecentLimit ones recorded, in that      *)
(* order: the list is moved down in place when it is full, and no sample   *)
(* is lost, repeated or out of its turn.                                   *)
(***************************************************************************)
RecentIsTail ==
    /\ Len(recent) = IF Len(log) < RecentLimit THEN Len(log) ELSE RecentLimit
    /\ \A i \in DOMAIN recent : recent[i] = log[Len(log) - Len(recent) + i]

(***************************************************************************)
(* A digest says exactly what the last requests recorded before its        *)
(* snapshot were: it shows an issue when one of them failed, and when one  *)
(* was slow that was not a diagnostics request that went well; and neither *)
(* else.  It calls itself slow exactly when one stage took its limit, the  *)
(* deployment checks their own and the others the common one, or when all  *)
(* of it took the limit of the whole and that of every stage: between      *)
(* TotalWarn and the limit of the deployment checks it says nothing.       *)
(***************************************************************************)
DigestTells ==
    \A c \in Callers : Answered(c) =>
        LET a == act[c]
            took == a.mark - a.start
            Limit(i) == IF Stages[i].warn = 0 THEN StageWarn ELSE Stages[i].warn
        IN  /\ "api-5xx" \in a.issues <=>
                  \E s \in Latest(a.seen) : StatusClass(s.status) = "server"
            /\ "api-slow" \in a.issues <=>
                  \E s \in Latest(a.seen) :
                     /\ s.duration >= SlowThreshold
                     /\ \/ s.method # "GET" \/ s.route # <<"diagnostics">>
                        \/ StatusClass(s.status) = "server"
            /\ "diagnostics-slow" \in a.issues <=>
                  \/ \E i \in DOMAIN Stages : a.stages[i] >= Limit(i)
                  \/ took >= TotalWarn /\ \A i \in DOMAIN Stages : took >= Limit(i)

(***************************************************************************)
(* The page that polls the diagnostics does not raise an issue about       *)
(* itself: while every other request is fast and none fails, no digest     *)
(* shows an API issue, however slow the digests are.                       *)
(***************************************************************************)
PollsDoNotComplain ==
    (\A i \in DOMAIN log :
        /\ log[i].status < 500
        /\ log[i].duration >= SlowThreshold =>
              log[i].method = "GET" /\ log[i].route = <<"diagnostics">>) =>
    \A c \in Callers :
        Answered(c) => act[c].issues \cap {"api-5xx", "api-slow"} = {}
=============================================================================
