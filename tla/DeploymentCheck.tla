--------------------------- MODULE DeploymentCheck ---------------------------
(***************************************************************************)
(* The deployment checks of a diagnostics answer (backend/internal/app/    *)
(* aggregate.go): deploymentDiagnosticCached looks for a cached result     *)
(* under its mutex, lets go of it, runs every check if there is none, and  *)
(* takes the mutex again to fill the result in.  Requests that miss at the *)
(* same time all run the checks, and the last one to fill wins.            *)
(*                                                                         *)
(* The checks look at the settings of the process, which do not change,    *)
(* and at the site: DNS, the public and private entries over HTTP, the     *)
(* frontend's index and the size of the database.  The site changes under  *)
(* way.  Time is counted in retry pauses (100 ms); how long the checks     *)
(* take is bounded by their own timeouts.  The texts are left out.         *)
(***************************************************************************)
EXTENDS Integers, FiniteSets, Sequences

CONSTANTS
    Requesters,
    SettingsSet,    \* the settings a process may be started with
    Endpoints,      \* the entries that are asked, in this order
    TTL,            \* deploymentDiagnosticCacheTTL
    MaxRebuild,     \* what the timeouts of all checks add up to (reading the
                    \* file of the frontend's index has none: an assumption)
    MaxAttempts,    \* 2
    NoEntry,
    MaxClock,       \* bound: the clock
    Unsteady,       \* bound: the targets that are not always as expected
    MaxDeviations,  \* bound: how many of them are not so at the start
    MaxChanges      \* bound: changes of the site

ASSUME TimeAssumption == TTL \in Nat /\ MaxRebuild \in Nat

ASSUME EndpointsAssumption ==
    /\ Endpoints \in Seq(STRING) /\ Endpoints # <<>>
    /\ MaxAttempts \in Nat \ {0, 1}

Live == {Endpoints[i] : i \in DOMAIN Endpoints}
Targets == Live \cup {"public-domain-dns", "frontend-index", "sqlite-size"}

\* The names of the checks.
Checks ==
    Targets
    \cup {"tailnet-url", "public-ip-entry", "public-http-auth", "public-https-auth",
          "summary-cache-ttl", "metrics-retention"}
    \cup UNION {s.differ : s \in SettingsSet}

\* No two checks have one name.  (The entries that are asked are named among
\* the settings' checks when there is nothing to ask: see ProductionBad.)
ASSUME NamesAssumption ==
    /\ Live \cap {"public-domain-dns", "frontend-index", "sqlite-size"} = {}
    /\ Targets \cap {"tailnet-url", "public-ip-entry", "summary-cache-ttl",
                     "metrics-retention"} = {}
    /\ \A s \in SettingsSet : Targets \cap s.differ = {}

\* NoEntry is not mistaken for an answer.
ASSUME NoEntryAssumption ==
    /\ NoEntry \notin [from : Int, filled : Int, bad : SUBSET Checks]
    /\ NoEntry \notin [from : Int, filled : Int]

VARIABLES
    settings,
    site,           \* what each target would answer now
    now,
    cached,         \* deploymentCached: [from, filled, bad], or NoEntry
    expiresAt,      \* deploymentExpiresAt
    pc,             \* requester -> where it is
    run,            \* requester -> the check under way
    answer,         \* requester -> the entry it answered with, NoEntry if it asks
    refreshed,      \* requester -> when it last filled the cache in, or -TTL
    givenAt,        \* requester -> when it answered
    was,            \* target -> the <<value, moment>> pairs it went through
    changes         \* how often the site changed

environment == <<settings, site, now, was, changes>>
cache == <<cached, expiresAt>>
given == <<answer, givenAt>>
vars == <<environment, cache, pc, run, given, refreshed>>

-----------------------------------------------------------------------------

\* What is wanted, or not.  An entry fails when it answers with a status from
\* 500 on or not at all, and the database's files may be such that their size
\* cannot be read.
Values(t) ==
    {"expected", "wrong"}
    \cup {v \in {"failing"} : t \in Live}
    \cup {v \in {"unreadable"} : t = "sqlite-size"}

Production == settings.mode = "production"

\* publicEntryReadyForLiveCheck: neither is empty or the example's.
Ready == settings.domain = "real" /\ settings.ip \in {"real", "invalid"}

\* What is not asked at all, because there is nothing to ask for.
Askable(t) ==
    /\ t = "tailnet-health" => settings.tailnet = "http"
    /\ t = "public-domain-dns" => settings.domain # "none" /\ settings.ip # "none"
    /\ t = "frontend-index" => settings.frontend

\* The checks that the settings alone decide: addEqual's five, tailnet-url,
\* publicIPEntryCheck, the two public entries if they are not asked, the TTL
\* of the summary cache (in seconds) and the retention (in days).
ProductionBad ==
    settings.differ
    \cup {k \in {"tailnet-url"} : settings.tailnet # "http"}
    \cup {k \in {"public-ip-entry"} : settings.ip \in {"none", "invalid"}}
    \cup {k \in {"public-http-auth", "public-https-auth"} : ~Ready}

SettingsBad ==
    {k \in ProductionBad : Production}
    \cup {k \in {"summary-cache-ttl"} :
             settings.cacheTTL <= 0 \/ (Production /\ settings.cacheTTL > 30)}
    \cup {k \in {"metrics-retention"} :
             settings.retention <= 0 \/ (Production /\ settings.retention > 45)}

NewRun(from, bad) ==
    [from |-> from, endpoint |-> 1, attempt |-> 1, retryAt |-> 0, bad |-> bad]

NoRun == NewRun(0, {})

Init ==
    /\ settings \in SettingsSet
    /\ site \in [Targets -> {"expected", "wrong", "failing", "unreadable"}]
    /\ \A t \in Targets :
          site[t] \in IF t \in Unsteady THEN Values(t) ELSE {"expected"}
    /\ Cardinality({t \in Targets : site[t] # "expected"}) <= MaxDeviations
    /\ now = 0
    /\ cached = NoEntry
    /\ expiresAt = 0
    /\ pc = [r \in Requesters |-> "idle"]
    /\ run = [r \in Requesters |-> NoRun]
    /\ answer = [r \in Requesters |-> NoEntry]
    /\ givenAt = [r \in Requesters |-> 0]
    /\ refreshed = [r \in Requesters |-> -TTL]
    /\ was = [t \in Targets |-> {<<site[t], 0>>}]
    /\ changes = 0

-----------------------------------------------------------------------------

Goto(r, from, to) == pc[r] = from /\ pc' = [pc EXCEPT ![r] = to]

\* The retry pauses that request r may still have to take.
Pauses(r) ==
    IF pc[r] \in {"lookup", "dns", "http"}
    THEN (Len(Endpoints) - run[r].endpoint) * (MaxAttempts - 1)
           + MaxAttempts - run[r].attempt
    ELSE 0

\* Every request under way is in time: each call it makes has a timeout.
Tick ==
    /\ now < MaxClock
    /\ \A r \in Requesters :
          pc[r] # "idle" => now + Pauses(r) < run[r].from + MaxRebuild
    /\ now' = now + 1
    /\ was' = [t \in Targets |-> was[t] \cup {<<site[t], now + 1>>}]
    /\ UNCHANGED <<settings, site, changes, cache, pc, run, given, refreshed>>

SiteChanges(t, value) ==
    /\ changes < MaxChanges
    /\ changes' = changes + 1
    /\ value # site[t]
    /\ site' = [site EXCEPT ![t] = value]
    /\ was' = [was EXCEPT ![t] = @ \cup {<<value, now>>}]
    /\ UNCHANGED <<settings, now, cache, pc, run, given, refreshed>>

\* Diagnostics reads the size of the database, then asks for the checks.  An
\* error of that read goes into the answer's stage alone: the size it hands on
\* is 0, which is within every budget.
Ask(r) ==
    /\ Goto(r, "idle", "lookup")
    /\ run' = [run EXCEPT ![r] =
                  NewRun(now, {t \in {"sqlite-size"} : site[t] = "wrong"})]
    /\ answer' = [answer EXCEPT ![r] = NoEntry]
    /\ givenAt' = [givenAt EXCEPT ![r] = 0]
    /\ UNCHANGED <<environment, cache, refreshed>>

Answer(r, entry) ==
    /\ answer' = [answer EXCEPT ![r] = entry]
    /\ givenAt' = [givenAt EXCEPT ![r] = now]

\* Mutant of Valid: any result will do.
ValidForever == cached # NoEntry

Valid == cached # NoEntry /\ now < expiresAt

Hit(r) ==
    /\ Valid
    /\ Goto(r, "lookup", "idle")
    /\ Answer(r, cached)
    /\ run' = [run EXCEPT ![r] = NoRun]
    /\ UNCHANGED <<environment, cache, refreshed>>

\* deploymentDiagnostic begins.
Miss(r) ==
    /\ ~Valid
    /\ Goto(r, "lookup", IF Production THEN "dns" ELSE "index")
    /\ run' = [run EXCEPT ![r].bad = @ \cup SettingsBad]
    /\ UNCHANGED <<environment, cache, given, refreshed>>

\* A check of target t that asks once.
Look(t, bad) ==
    IF Askable(t) /\ site[t] = "expected" THEN bad ELSE bad \cup {t}

\* publicDomainDNSCheck.
CheckDNS(r) ==
    /\ Goto(r, "dns", IF Ready THEN "http" ELSE "index")
    /\ run' = [run EXCEPT ![r].bad = Look("public-domain-dns", @)]
    /\ UNCHANGED <<environment, cache, given, refreshed>>

\* Mutant of Retries: the first failure is the last.
RetriesNever(attempt, value) == FALSE

\* Only a failure of the entry itself is tried again.
Retries(attempt, value) ==
    attempt < MaxAttempts /\ value = "failing"

\* endpointHealthCheck: one attempt, for which this is the answer.
Attempt(r) ==
    LET e == Endpoints[run[r].endpoint]
        next == [NewRun(run[r].from, Look(e, run[r].bad))
                    EXCEPT !.endpoint = run[r].endpoint + 1]
    IN  /\ pc[r] = "http"
        /\ run[r].retryAt <= now
        /\ \/ /\ Askable(e) /\ Retries(run[r].attempt, site[e])
              /\ run' = [run EXCEPT ![r].attempt = @ + 1, ![r].retryAt = now + 1]
              /\ UNCHANGED pc
           \/ /\ ~(Askable(e) /\ Retries(run[r].attempt, site[e]))
              /\ run' = [run EXCEPT ![r] = next]
              /\ pc' = [pc EXCEPT ![r] = IF next.endpoint \in DOMAIN Endpoints
                                         THEN "http" ELSE "index"]
        /\ UNCHANGED <<environment, cache, given, refreshed>>

CheckIndex(r) ==
    /\ Goto(r, "index", "fill")
    /\ run' = [run EXCEPT ![r].bad = Look("frontend-index", @)]
    /\ UNCHANGED <<environment, cache, given, refreshed>>

\* Mutant of Fill: the expiry is left as it was.
FillKeepsExpiry(r) ==
    /\ Goto(r, "fill", "idle")
    /\ cached' = [from |-> run[r].from, filled |-> now, bad |-> run[r].bad]
    /\ UNCHANGED expiresAt
    /\ refreshed' = [refreshed EXCEPT ![r] = now]
    /\ Answer(r, cached')
    /\ run' = [run EXCEPT ![r] = NoRun]
    /\ UNCHANGED environment

\* Whatever another request has filled in meanwhile is replaced.
Fill(r) ==
    /\ Goto(r, "fill", "idle")
    /\ cached' = [from |-> run[r].from, filled |-> now, bad |-> run[r].bad]
    /\ expiresAt' = now + TTL
    /\ refreshed' = [refreshed EXCEPT ![r] = now]
    /\ Answer(r, cached')
    /\ run' = [run EXCEPT ![r] = NoRun]
    /\ UNCHANGED environment

\* The bound of the clock, not a step of the system.
ClockStops == now = MaxClock /\ UNCHANGED vars

Next ==
    \/ Tick
    \/ ClockStops
    \/ \E t \in Unsteady : \E value \in Values(t) : SiteChanges(t, value)
    \/ \E r \in Requesters :
          Ask(r) \/ Hit(r) \/ Miss(r) \/ CheckDNS(r) \/ Attempt(r)
          \/ CheckIndex(r) \/ Fill(r)

Spec == Init /\ [][Next]_vars

-----------------------------------------------------------------------------

(***************************************************************************)
(* An answer was filled in at most the TTL ago, and what it shows was      *)
(* looked at no longer ago than the TTL plus the time the checks may take, *)
(* whoever made it and however the requests overlapped.                    *)
(***************************************************************************)
AnswerNotOld ==
    \A r \in Requesters : answer[r] # NoEntry =>
        /\ givenAt[r] <= answer[r].filled + TTL
        /\ givenAt[r] <= answer[r].from + TTL + MaxRebuild

Interval(entry) == entry.from .. entry.filled

(***************************************************************************)
(* In production every target is judged by what it was while the checks    *)
(* ran.  A check that passed had its answer then, except that a database   *)
(* whose size could not be read passes as a small one; a check that did    *)
(* not pass had a wrong answer, or an entry failed at two moments, so that *)
(* one that fails once, for less than a retry's pause, is not reported.    *)
(* When the verdict is "ok" the entries have really been asked.            *)
(***************************************************************************)
VerdictHonest ==
    Production => \A r \in Requesters : answer[r] # NoEntry =>
        /\ answer[r].bad = {} => Ready
        /\ \A t \in Targets :
              Askable(t) /\ (t \in Live => Ready) =>
                LET Saw(value) == {m \in Interval(answer[r]) : <<value, m>> \in was[t]}
                IN  /\ t \notin answer[r].bad =>
                          Saw("expected") # {} \/ Saw("unreadable") # {}
                    /\ t \in answer[r].bad =>
                          Saw("wrong") # {} \/ \E m, n \in Saw("failing") : m < n

Kept(entry) ==
    IF entry = NoEntry THEN NoEntry
    ELSE [from |-> entry.from, filled |-> entry.filled]

Cache ==
    INSTANCE TTLCache WITH entry <- Kept(cached),
                           given <- [r \in Requesters |-> Kept(answer[r])]

(***************************************************************************)
(* The lookups, checks and fills together do what TTLCache promises: no    *)
(* answer from outside the TTL, and no requester that runs the checks      *)
(* twice within it, although nothing is locked while they run.             *)
(***************************************************************************)
ImplementsTTLCache == Cache!Spec
=============================================================================
