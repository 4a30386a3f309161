-------------------------- MODULE DeploymentProofs --------------------------
(***************************************************************************)
(* Theorems about DeploymentCheck for any requesters, settings, endpoints, *)
(* TTL and time limit, and without a bound on the clock or on the changes  *)
(* of the site:                                                            *)
(*                                                                         *)
(*   AnswersNotOld    Spec => []AnswerNotOld                               *)
(*   VerdictsHonest   Spec => []VerdictHonest                              *)
(*   ChecksAreCache   Spec => ImplementsTTLCache                           *)
(*                                                                         *)
(* The inductive invariant is IInv.  An answer is young because the entry  *)
(* it is taken from was filled in by a request still in time (InTime) and  *)
(* expires TTL after that (CacheYoung); a requester does not run the       *)
(* checks again within TTL because the expiry never moves back and covers  *)
(* everybody's last refresh (NotTooSoon).                                  *)
(*                                                                         *)
(* For the verdicts it is IInv /\ HonestInv.  What a request has found so  *)
(* far about a target is backed by moments since it asked at which the     *)
(* target was so (Backed), and a target it is done with and did not report *)
(* was as expected at one of them (Proven); a second attempt remembers the *)
(* moment of the first failure (FailedBefore).  History only grows, so all *)
(* this survives whatever the site and the other requests do (Later).      *)
(***************************************************************************)
EXTENDS DeploymentCheck, SequenceTheorems, TLAPS

Entry == [from : Int, filled : Int, bad : SUBSET Checks]

Run == [from : Int, endpoint : Int, attempt : Int, retryAt : Int,
        bad : SUBSET Checks]

Types ==
    /\ settings \in SettingsSet
    /\ now \in Nat /\ expiresAt \in Int
    /\ cached \in Entry \cup {NoEntry}
    /\ pc \in [Requesters -> {"idle", "lookup", "dns", "http", "index", "fill"}]
    /\ run \in [Requesters -> Run]
    /\ answer \in [Requesters -> Entry \cup {NoEntry}]
    /\ givenAt \in [Requesters -> Int]
    /\ refreshed \in [Requesters -> Int]

InTime(r) ==
    pc[r] # "idle" =>
        /\ run[r].from <= now /\ now <= run[r].from + MaxRebuild
        /\ pc[r] \in {"lookup", "dns", "http"} =>
              run[r].endpoint \in 1..Len(Endpoints) /\ run[r].attempt \in 1..MaxAttempts

CacheYoung ==
    IF cached = NoEntry THEN expiresAt = 0
    ELSE /\ cached.from <= cached.filled
         /\ cached.filled <= cached.from + MaxRebuild
         /\ cached.filled <= now
         /\ expiresAt = cached.filled + TTL

NotTooSoon(r) ==
    /\ refreshed[r] + TTL <= expiresAt
    /\ pc[r] \notin {"idle", "lookup"} => refreshed[r] + TTL <= now

IInv ==
    /\ Types
    /\ CacheYoung
    /\ AnswerNotOld
    /\ \A r \in Requesters : InTime(r) /\ NotTooSoon(r)

-----------------------------------------------------------------------------

LEMMA EndpointsType ==
    /\ Len(Endpoints) \in Nat \ {0}
    /\ DOMAIN Endpoints = 1..Len(Endpoints)
BY EndpointsAssumption, LenProperties, EmptySeq

LEMMA ProductOfNaturals ==
    ASSUME NEW a \in Nat, NEW b \in Nat PROVE a * b \in Nat
OBVIOUS

\* What the checks find is named by Checks.
LEMMA BadIsNamed ==
    ASSUME settings \in SettingsSet
    PROVE  /\ SettingsBad \subseteq Checks
           /\ \A t \in Targets, bad \in SUBSET Checks : Look(t, bad) \in SUBSET Checks
<1>1. ProductionBad \subseteq settings.differ
          \cup {"tailnet-url", "public-ip-entry", "public-http-auth", "public-https-auth"}
    BY Zenon DEF ProductionBad
<1>2. SettingsBad \subseteq ProductionBad \cup {"summary-cache-ttl", "metrics-retention"}
    BY Zenon DEF SettingsBad
<1>3. Targets \subseteq Checks
    BY DEF Checks
<1>4. \A t \in Targets, bad \in SUBSET Checks : Look(t, bad) \in SUBSET Checks
    BY <1>3 DEF Look
<1>. QED BY <1>1, <1>2, <1>4 DEF Checks

\* The updates of a check under way leave it well formed.
LEMMA NewRunType ==
    ASSUME NEW t \in Int, NEW i \in Int, NEW bad \in SUBSET Checks
    PROVE  LET x == NewRun(t, bad)
               next == [x EXCEPT !.endpoint = i]
           IN  /\ x \in Run /\ x.from = t /\ x.endpoint = 1 /\ x.attempt = 1
               /\ next \in Run /\ next.from = t
               /\ next.endpoint = i /\ next.attempt = 1
BY DEF NewRun, Run

LEMMA Again ==
    ASSUME NEW x \in Run, NEW a \in Int, NEW t \in Int
    PROVE  LET y == [x EXCEPT !.attempt = a, !.retryAt = t]
           IN  /\ y \in Run /\ y.from = x.from
               /\ y.endpoint = x.endpoint /\ y.attempt = a
BY DEF Run

LEMMA AgainKeeps ==
    ASSUME NEW x \in Run, NEW a \in Int, NEW t \in Int
    PROVE  LET y == [x EXCEPT !.attempt = a, !.retryAt = t]
           IN  /\ y \in Run /\ y.from = x.from /\ y.bad = x.bad
               /\ y.endpoint = x.endpoint /\ y.retryAt = t
BY DEF Run

LEMMA NextKeeps ==
    ASSUME NEW from, NEW bad, NEW i
    PROVE  [NewRun(from, bad) EXCEPT !.endpoint = i].bad = bad
BY DEF NewRun

LEMMA Found ==
    ASSUME NEW x \in Run, NEW bad \in SUBSET Checks
    PROVE  LET y == [x EXCEPT !.bad = bad]
           IN  /\ y \in Run /\ y.from = x.from
               /\ y.endpoint = x.endpoint /\ y.attempt = x.attempt
BY DEF Run

LEMMA PausesNatural ==
    ASSUME Types, NEW r \in Requesters, InTime(r), pc[r] # "idle"
    PROVE  Pauses(r) \in Nat
<1>1. CASE pc[r] \in {"lookup", "dns", "http"}
    <2>1. /\ Len(Endpoints) - run[r].endpoint \in Nat
          /\ MaxAttempts - 1 \in Nat
          /\ MaxAttempts - run[r].attempt \in Nat
        BY <1>1, EndpointsType, EndpointsAssumption DEF InTime
    <2>2. (Len(Endpoints) - run[r].endpoint) * (MaxAttempts - 1) \in Nat
        BY <2>1, ProductOfNaturals
    <2>. QED BY <1>1, <2>1, <2>2 DEF Pauses
<1>2. CASE pc[r] \notin {"lookup", "dns", "http"}
    BY <1>2 DEF Pauses
<1>. QED BY <1>1, <1>2

-----------------------------------------------------------------------------

LEMMA InitIInv == Init => IInv
<1> SUFFICES ASSUME Init PROVE IInv
    OBVIOUS
<1> USE TimeAssumption DEF Init
<1>1. NoRun \in Run
    BY DEF NoRun, NewRun, Run
<1>2. Types
    BY <1>1 DEF Types
<1>3. CacheYoung /\ AnswerNotOld
    BY DEF CacheYoung, AnswerNotOld
<1>4. \A r \in Requesters : InTime(r) /\ NotTooSoon(r)
    BY DEF InTime, NotTooSoon
<1>. QED BY <1>2, <1>3, <1>4 DEF IInv

\* A step of the checks of request r that gives and fills in nothing: if it
\* is in time and its run is well formed afterwards, the invariant holds.
LEMMA CheckStep ==
    ASSUME IInv, NEW r \in Requesters, NEW to, NEW x \in Run,
           pc[r] \notin {"idle", "lookup"} \/ now >= expiresAt \/ cached = NoEntry,
           pc[r] # "idle",
           to \in {"dns", "http", "index", "fill"},
           pc' = [pc EXCEPT ![r] = to], run' = [run EXCEPT ![r] = x],
           x.from = run[r].from,
           to \in {"dns", "http"} =>
               x.endpoint \in 1..Len(Endpoints) /\ x.attempt \in 1..MaxAttempts,
           UNCHANGED <<environment, cache, given, refreshed>>
    PROVE  IInv'
<1> USE TimeAssumption DEF IInv
<1>1. /\ now' = now /\ expiresAt' = expiresAt /\ cached' = cached
      /\ settings' = settings /\ answer' = answer /\ givenAt' = givenAt
      /\ refreshed' = refreshed
    BY DEF environment, cache, given
<1>2. Types'
    BY <1>1 DEF Types
<1>3. CacheYoung' /\ AnswerNotOld'
    BY <1>1 DEF CacheYoung, AnswerNotOld
<1>4. ASSUME NEW q \in Requesters PROVE InTime(q)' /\ NotTooSoon(q)'
    <2>1. InTime(q) /\ NotTooSoon(q)
        OBVIOUS
    <2>2. CASE q = r
        <3>1. pc'[q] = to /\ run'[q] = x
            BY <2>2 DEF Types
        <3>2. InTime(q)'
            BY <1>1, <2>1, <2>2, <3>1 DEF InTime, Types
        <3>3. NotTooSoon(q)'
            BY <1>1, <2>1, <2>2, <3>1 DEF NotTooSoon, Types, CacheYoung
        <3>. QED BY <3>2, <3>3
    <2>3. CASE q # r
        <3>1. pc'[q] = pc[q] /\ run'[q] = run[q]
            BY <2>3 DEF Types
        <3>. QED BY <1>1, <2>1, <3>1 DEF InTime, NotTooSoon
    <2>. QED BY <2>2, <2>3
<1>. QED BY <1>2, <1>3, <1>4

\* A step that leaves the requests, the cache and the clock alone.
LEMMA Aside ==
    ASSUME IInv, UNCHANGED <<settings, now, cache, pc, run, given, refreshed>>
    PROVE  IInv'
<1>1. /\ now' = now /\ expiresAt' = expiresAt /\ cached' = cached /\ pc' = pc
      /\ settings' = settings /\ answer' = answer /\ givenAt' = givenAt
      /\ refreshed' = refreshed /\ run' = run
    BY DEF cache, given
<1>2. Types' /\ CacheYoung' /\ AnswerNotOld'
    BY <1>1 DEF IInv, Types, CacheYoung, AnswerNotOld
<1>3. \A r \in Requesters : InTime(r)' /\ NotTooSoon(r)'
    BY <1>1 DEF IInv, InTime, NotTooSoon
<1>. QED BY <1>2, <1>3 DEF IInv

\* Time passes only while everybody is in time.
LEMMA TickIInv == IInv /\ Tick => IInv'
<1> SUFFICES ASSUME IInv, Tick PROVE IInv'
    OBVIOUS
<1> USE TimeAssumption
<1>1. /\ now' = now + 1 /\ expiresAt' = expiresAt /\ cached' = cached /\ pc' = pc
      /\ settings' = settings /\ answer' = answer /\ givenAt' = givenAt
      /\ refreshed' = refreshed /\ run' = run
    BY DEF Tick, cache, given
<1>2. Types' /\ CacheYoung' /\ AnswerNotOld'
    BY <1>1 DEF IInv, Types, CacheYoung, AnswerNotOld, Entry
<1>3. ASSUME NEW r \in Requesters PROVE InTime(r)' /\ NotTooSoon(r)'
    <2>1. InTime(r) /\ NotTooSoon(r) /\ Types
        BY DEF IInv
    <2>2. NotTooSoon(r)'
        BY <1>1, <2>1 DEF NotTooSoon, Types
    <2>3. CASE pc[r] # "idle"
        <3>1. Pauses(r) \in Nat
            BY <2>1, <2>3, PausesNatural
        <3>2. now + Pauses(r) < run[r].from + MaxRebuild
            BY <2>3 DEF Tick
        <3>3. run[r].from \in Int
            BY <2>1 DEF Types, Run
        <3>. QED BY <1>1, <2>1, <2>2, <3>1, <3>2, <3>3 DEF InTime, Types
    <2>4. CASE pc[r] = "idle"
        BY <1>1, <2>2, <2>4 DEF InTime
    <2>. QED BY <2>3, <2>4
<1>. QED BY <1>2, <1>3 DEF IInv

LEMMA AskIInv == ASSUME IInv, NEW r \in Requesters, Ask(r) PROVE IInv'
<1> USE TimeAssumption
<1>1. /\ now' = now /\ expiresAt' = expiresAt /\ cached' = cached
      /\ settings' = settings /\ refreshed' = refreshed
      /\ answer' = [answer EXCEPT ![r] = NoEntry]
      /\ givenAt' = [givenAt EXCEPT ![r] = 0]
    BY DEF Ask, environment, cache
<1>2. pc[r] = "idle" /\ pc' = [pc EXCEPT ![r] = "lookup"]
    BY DEF Ask, Goto
<1>3. PICK x \in Run : /\ run' = [run EXCEPT ![r] = x]
                       /\ x.from = now /\ x.endpoint = 1 /\ x.attempt = 1
    <2> DEFINE bad == {t \in {"sqlite-size"} : site[t] = "wrong"}
    <2>1. bad \in SUBSET Checks
        BY DEF Checks, Targets
    <2>2. run' = [run EXCEPT ![r] = NewRun(now, bad)]
        BY DEF Ask
    <2>3. now \in Int
        BY DEF IInv, Types
    <2> HIDE DEF bad
    <2>4. /\ NewRun(now, bad) \in Run /\ NewRun(now, bad).from = now
          /\ NewRun(now, bad).endpoint = 1 /\ NewRun(now, bad).attempt = 1
        BY <2>1, <2>3 DEF NewRun, Run
    <2>. QED BY <2>2, <2>4
<1>4. Types'
    BY <1>1, <1>2, <1>3 DEF IInv, Types
<1>5. CacheYoung' /\ AnswerNotOld'
    BY <1>1 DEF IInv, Types, CacheYoung, AnswerNotOld
<1>6. ASSUME NEW q \in Requesters PROVE InTime(q)' /\ NotTooSoon(q)'
    <2>1. InTime(q) /\ NotTooSoon(q) /\ Types
        BY DEF IInv
    <2>2. CASE q = r
        <3>1. pc'[q] = "lookup" /\ run'[q] = x
            BY <1>2, <1>3, <2>1, <2>2 DEF Types
        <3>2. 1 \in 1..Len(Endpoints) /\ 1 \in 1..MaxAttempts
            BY EndpointsType, EndpointsAssumption
        <3>. QED BY <1>1, <1>3, <2>1, <3>1, <3>2 DEF InTime, NotTooSoon, Types
    <2>3. CASE q # r
        <3>1. pc'[q] = pc[q] /\ run'[q] = run[q]
            BY <1>2, <1>3, <2>1, <2>3 DEF Types
        <3>. QED BY <1>1, <2>1, <3>1 DEF InTime, NotTooSoon
    <2>. QED BY <2>2, <2>3
<1>. QED BY <1>4, <1>5, <1>6 DEF IInv

\* A cached result is answered with before it expires.
LEMMA HitIInv == ASSUME IInv, NEW r \in Requesters, Hit(r) PROVE IInv'
<1> USE TimeAssumption
<1>1. /\ now' = now /\ expiresAt' = expiresAt /\ cached' = cached
      /\ settings' = settings /\ refreshed' = refreshed
      /\ answer' = [answer EXCEPT ![r] = cached]
      /\ givenAt' = [givenAt EXCEPT ![r] = now]
    BY DEF Hit, Answer, environment, cache
<1>2. pc[r] = "lookup" /\ pc' = [pc EXCEPT ![r] = "idle"]
    BY DEF Hit, Goto
<1>3. run' = [run EXCEPT ![r] = NoRun] /\ NoRun \in Run
    BY DEF Hit, NoRun, NewRun, Run
<1>4. cached # NoEntry /\ now < expiresAt /\ cached \in Entry
    BY DEF Hit, Valid, IInv, Types
<1>5. Types'
    BY <1>1, <1>2, <1>3, <1>4 DEF IInv, Types
<1>6. CacheYoung'
    BY <1>1 DEF IInv, CacheYoung
<1>7. AnswerNotOld'
    <2>1. now <= cached.filled + TTL /\ now <= cached.from + TTL + MaxRebuild
        BY <1>4 DEF IInv, Types, CacheYoung, Entry
    <2>. QED BY <1>1, <2>1 DEF IInv, Types, AnswerNotOld
<1>8. ASSUME NEW q \in Requesters PROVE InTime(q)' /\ NotTooSoon(q)'
    <2>1. InTime(q) /\ NotTooSoon(q) /\ Types
        BY DEF IInv
    <2>2. CASE q = r
        BY <1>1, <1>2, <2>1, <2>2 DEF InTime, NotTooSoon, Types
    <2>3. CASE q # r
        <3>1. pc'[q] = pc[q] /\ run'[q] = run[q]
            BY <1>2, <1>3, <2>1, <2>3 DEF Types
        <3>. QED BY <1>1, <2>1, <3>1 DEF InTime, NotTooSoon
    <2>. QED BY <2>2, <2>3
<1>. QED BY <1>5, <1>6, <1>7, <1>8 DEF IInv

\* A miss, a single check and an attempt leave the cache and the answers alone.
LEMMA ChecksIInv ==
    ASSUME IInv, NEW r \in Requesters,
           Miss(r) \/ CheckDNS(r) \/ Attempt(r) \/ CheckIndex(r)
    PROVE  IInv'
<1>1. Types /\ InTime(r) /\ CacheYoung /\ run[r] \in Run /\ now \in Int /\ expiresAt \in Int
    BY DEF IInv, Types
<1>2. CASE Miss(r)
    <2> DEFINE x == [run[r] EXCEPT !.bad = @ \cup SettingsBad]
               to == IF Production THEN "dns" ELSE "index"
    <2>1. SettingsBad \subseteq Checks
        BY <1>1, BadIsNamed DEF Types
    <2>2. x \in Run /\ x.from = run[r].from /\ x.endpoint = run[r].endpoint
          /\ x.attempt = run[r].attempt
        BY <1>1, <2>1 DEF Run
    <2>3. /\ pc[r] = "lookup" /\ pc' = [pc EXCEPT ![r] = to]
          /\ run' = [run EXCEPT ![r] = x]
          /\ UNCHANGED <<environment, cache, given, refreshed>>
        BY <1>2, Zenon DEF Miss, Goto
    <2>4. cached = NoEntry \/ now >= expiresAt
        BY <1>1, <1>2 DEF Miss, Valid
    <2>5. to \in {"dns", "http", "index", "fill"}
        OBVIOUS
    <2>6. x.endpoint \in 1..Len(Endpoints) /\ x.attempt \in 1..MaxAttempts
        BY <1>1, <2>2, <2>3 DEF InTime
    <2> HIDE DEF x, to
    <2>. QED BY <2>2, <2>3, <2>4, <2>5, <2>6, CheckStep
<1>3. CASE CheckDNS(r)
    <2> DEFINE x == [run[r] EXCEPT !.bad = Look("public-domain-dns", @)]
               to == IF Ready THEN "http" ELSE "index"
    <2>1. Look("public-domain-dns", run[r].bad) \in SUBSET Checks
        BY <1>1, BadIsNamed DEF Types, Run, Targets
    <2>2. x \in Run /\ x.from = run[r].from /\ x.endpoint = run[r].endpoint
          /\ x.attempt = run[r].attempt
        BY <1>1, <2>1 DEF Run
    <2>3. /\ pc[r] = "dns" /\ pc' = [pc EXCEPT ![r] = to]
          /\ run' = [run EXCEPT ![r] = x]
          /\ UNCHANGED <<environment, cache, given, refreshed>>
        BY <1>3, Zenon DEF CheckDNS, Goto
    <2>4. to \in {"dns", "http", "index", "fill"}
        OBVIOUS
    <2>5. x.endpoint \in 1..Len(Endpoints) /\ x.attempt \in 1..MaxAttempts
        BY <1>1, <2>2, <2>3 DEF InTime
    <2> HIDE DEF x, to
    <2>. QED BY <2>2, <2>3, <2>4, <2>5, CheckStep
<1>4. CASE Attempt(r)
    <2> DEFINE e == Endpoints[run[r].endpoint]
               again == [run[r] EXCEPT !.attempt = @ + 1, !.retryAt = now + 1]
               next == [NewRun(run[r].from, Look(e, run[r].bad))
                           EXCEPT !.endpoint = run[r].endpoint + 1]
               to == IF next.endpoint \in DOMAIN Endpoints THEN "http" ELSE "index"
    <2>1. /\ pc[r] = "http"
          /\ UNCHANGED <<environment, cache, given, refreshed>>
          /\ \/ /\ Retries(run[r].attempt, site[e])
                /\ run' = [run EXCEPT ![r].attempt = @ + 1, ![r].retryAt = now + 1]
                /\ UNCHANGED pc
             \/ /\ run' = [run EXCEPT ![r] = next]
                /\ pc' = [pc EXCEPT ![r] = to]
        BY <1>4, Zenon DEF Attempt
    <2>2. /\ run[r].endpoint \in 1..Len(Endpoints) /\ run[r].attempt \in 1..MaxAttempts
          /\ e \in Targets /\ MaxAttempts \in Nat \ {0}
        BY <1>1, <2>1, EndpointsType, EndpointsAssumption DEF InTime, Targets, Live
    <2>3. CASE Retries(run[r].attempt, site[e]) /\ UNCHANGED pc
               /\ run' = [run EXCEPT ![r].attempt = @ + 1, ![r].retryAt = now + 1]
        <3>1. run' = [run EXCEPT ![r] = again] /\ pc' = [pc EXCEPT ![r] = "http"]
            BY <1>1, <2>1, <2>3 DEF Types, Run
        <3>2. /\ run[r].attempt + 1 \in 1..MaxAttempts /\ now + 1 \in Int
              /\ run[r].attempt + 1 \in Int
            BY <1>1, <2>2, <2>3 DEF Retries
        <3>3. /\ again \in Run /\ again.from = run[r].from
              /\ again.endpoint = run[r].endpoint /\ again.attempt = run[r].attempt + 1
            BY <1>1, <3>2, Again, Zenon
        <3> HIDE DEF again
        <3>4. again.endpoint \in 1..Len(Endpoints) /\ again.attempt \in 1..MaxAttempts
            BY <2>2, <3>2, <3>3
        <3>. QED BY <2>1, <3>1, <3>3, <3>4, CheckStep
    <2>4. CASE run' = [run EXCEPT ![r] = next] /\ pc' = [pc EXCEPT ![r] = to]
        <3>1. Look(e, run[r].bad) \in SUBSET Checks
            BY <1>1, <2>2, BadIsNamed DEF Types, Run
        <3>2. run[r].from \in Int /\ run[r].endpoint + 1 \in Int
            BY <1>1 DEF Run
        <3>3. /\ next \in Run /\ next.from = run[r].from /\ next.attempt = 1
              /\ next.endpoint = run[r].endpoint + 1
            BY <3>1, <3>2, NewRunType
        <3>4. to = "http" => next.endpoint \in 1..Len(Endpoints)
            BY EndpointsType
        <3>5. 1 \in 1..MaxAttempts
            BY <2>2
        <3>6. to \in {"http", "index"}
            OBVIOUS
        <3> HIDE DEF next, to
        <3>. QED BY <2>1, <2>4, <3>3, <3>4, <3>5, <3>6, CheckStep
    <2>. QED BY <2>1, <2>3, <2>4
<1>5. CASE CheckIndex(r)
    <2> DEFINE x == [run[r] EXCEPT !.bad = Look("frontend-index", @)]
    <2>1. Look("frontend-index", run[r].bad) \in SUBSET Checks
        BY <1>1, BadIsNamed DEF Types, Run, Targets
    <2>2. x \in Run /\ x.from = run[r].from
        BY <1>1, <2>1 DEF Run
    <2>3. /\ pc[r] = "index" /\ pc' = [pc EXCEPT ![r] = "fill"]
          /\ run' = [run EXCEPT ![r] = x]
          /\ UNCHANGED <<environment, cache, given, refreshed>>
        BY <1>5, Zenon DEF CheckIndex, Goto
    <2> HIDE DEF x
    <2>. QED BY <2>2, <2>3, CheckStep
<1>. QED BY <1>2, <1>3, <1>4, <1>5

\* The requester's own results become the cache, for TTL from now on.
LEMMA FillIInv == ASSUME IInv, NEW r \in Requesters, Fill(r) PROVE IInv'
<1> USE TimeAssumption
<1>1. Types /\ InTime(r) /\ run[r] \in Run /\ now \in Nat
    BY DEF IInv, Types
<1>2. PICK entry \in Entry :
          /\ cached' = entry /\ entry.from = run[r].from /\ entry.filled = now
    <2> DEFINE entry == [from |-> run[r].from, filled |-> now, bad |-> run[r].bad]
    <2>1. entry \in Entry
        BY <1>1 DEF Run, Entry
    <2>. QED BY <2>1 DEF Fill
<1>3. /\ now' = now /\ expiresAt' = now + TTL /\ settings' = settings
      /\ refreshed' = [refreshed EXCEPT ![r] = now]
      /\ answer' = [answer EXCEPT ![r] = entry]
      /\ givenAt' = [givenAt EXCEPT ![r] = now]
    BY <1>2 DEF Fill, Answer, environment
<1>4. pc[r] = "fill" /\ pc' = [pc EXCEPT ![r] = "idle"]
    BY DEF Fill, Goto
<1>5. run' = [run EXCEPT ![r] = NoRun] /\ NoRun \in Run
    BY DEF Fill, NoRun, NewRun, Run
<1>6. entry.from <= now /\ now <= entry.from + MaxRebuild
    BY <1>1, <1>2, <1>4 DEF InTime
<1>7. Types'
    BY <1>1, <1>2, <1>3, <1>4, <1>5 DEF Types
<1>8. CacheYoung'
    BY <1>1, <1>2, <1>3, <1>6, NoEntryAssumption DEF CacheYoung, Entry
<1>9. AnswerNotOld'
    BY <1>1, <1>2, <1>3, <1>6 DEF IInv, Types, AnswerNotOld, Entry
<1>10. ASSUME NEW q \in Requesters PROVE InTime(q)' /\ NotTooSoon(q)'
    <2>1. InTime(q) /\ NotTooSoon(q) /\ CacheYoung
        BY DEF IInv
    <2>2. refreshed[q] + TTL <= now + TTL
        BY <1>1, <2>1 DEF CacheYoung, NotTooSoon, Types, Entry
    <2>3. CASE q = r
        BY <1>1, <1>3, <1>4, <2>3 DEF InTime, NotTooSoon, Types
    <2>4. CASE q # r
        <3>1. pc'[q] = pc[q] /\ run'[q] = run[q] /\ refreshed'[q] = refreshed[q]
            BY <1>1, <1>3, <1>4, <1>5, <2>4 DEF Types
        <3>. QED BY <1>3, <2>1, <2>2, <3>1 DEF InTime, NotTooSoon
    <2>. QED BY <2>3, <2>4
<1>. QED BY <1>7, <1>8, <1>9, <1>10 DEF IInv

LEMMA NextIInv == IInv /\ [Next]_vars => IInv'
<1> SUFFICES ASSUME IInv, [Next]_vars PROVE IInv'
    OBVIOUS
<1>1. CASE Tick
    BY <1>1, TickIInv
<1>2. CASE UNCHANGED vars
    BY <1>2, Aside DEF vars, environment
<1>3. CASE \E t \in Unsteady : \E value \in Values(t) : SiteChanges(t, value)
    BY <1>3, Aside DEF SiteChanges
<1>4. ASSUME NEW r \in Requesters,
             Ask(r) \/ Hit(r) \/ Miss(r) \/ CheckDNS(r) \/ Attempt(r)
             \/ CheckIndex(r) \/ Fill(r)
      PROVE  IInv'
    BY <1>4, AskIInv, HitIInv, ChecksIInv, FillIInv
<1>. QED BY <1>1, <1>2, <1>3, <1>4 DEF Next, ClockStops

LEMMA Invariance == Spec => []IInv
BY InitIInv, NextIInv, PTL DEF Spec

\* Whoever made it and however the requests overlapped, an answer is no older
\* than the TTL, and what it shows no older than the TTL and the checks' time.
THEOREM AnswersNotOld == Spec => []AnswerNotOld
<1>1. IInv => AnswerNotOld
    BY DEF IInv
<1>. QED BY <1>1, Invariance, PTL

-----------------------------------------------------------------------------

Given == [r \in Requesters |-> Kept(answer[r])]

LEMMA KeptIsEntry ==
    ASSUME NEW entry \in Entry
    PROVE  /\ Kept(entry) = [from |-> entry.from, filled |-> entry.filled]
           /\ Kept(entry).filled = entry.filled
           /\ Kept(entry) # NoEntry
<1>1. entry # NoEntry
    BY NoEntryAssumption DEF Entry
<1>2. Kept(entry) = [from |-> entry.from, filled |-> entry.filled]
    BY <1>1 DEF Kept
<1>3. [from |-> entry.from, filled |-> entry.filled] \in [from : Int, filled : Int]
    BY DEF Entry
<1>. QED BY <1>2, <1>3, NoEntryAssumption

\* An answer of r is an answer of r.
LEMMA GivenTo ==
    ASSUME Types, NEW r \in Requesters, NEW entry, answer' = [answer EXCEPT ![r] = entry]
    PROVE  Given' = [Given EXCEPT ![r] = Kept(entry)]
<1>1. \A q \in Requesters : Kept(answer'[q]) = IF q = r THEN Kept(entry) ELSE Kept(answer[q])
    BY DEF Types
<1> DEFINE K(a) == Kept(a)
<1>2. \A a : K(a) = Kept(a)
    OBVIOUS
<1> HIDE DEF K
<1>3. Given' = [q \in Requesters |-> K(answer'[q])]
    BY <1>2 DEF Given
<1>. QED BY <1>1, <1>2, <1>3 DEF Given

LEMMA InitIsInit == Init => Cache!Init
BY DEF Init, Cache!Init, Kept

LEMMA NextIsNext == IInv /\ [Next]_vars => [Cache!Next]_(Cache!vars)
<1> SUFFICES ASSUME IInv, [Next]_vars PROVE [Cache!Next]_(Cache!vars)
    OBVIOUS
<1> USE TimeAssumption
<1>1. ASSUME UNCHANGED <<now, cached, refreshed, answer>> PROVE UNCHANGED Cache!vars
    BY <1>1 DEF Cache!vars, Kept
<1>2. CASE Tick
    <2>1. now' = now + 1 /\ UNCHANGED <<cached, refreshed, answer>>
        BY <1>2 DEF Tick, cache, given
    <2>. QED BY <2>1 DEF Cache!Next, Cache!Tick, Kept
<1>3. CASE \E t \in Unsteady : \E value \in Values(t) : SiteChanges(t, value)
    BY <1>1, <1>3 DEF SiteChanges, cache, given
<1>4. CASE UNCHANGED vars
    BY <1>1, <1>4 DEF vars, environment, cache, given
<1>5. ASSUME NEW r \in Requesters,
             Ask(r) \/ Hit(r) \/ Miss(r) \/ CheckDNS(r) \/ Attempt(r)
             \/ CheckIndex(r) \/ Fill(r)
      PROVE  [Cache!Next]_(Cache!vars)
    <2>1. Types /\ CacheYoung /\ InTime(r) /\ NotTooSoon(r)
        BY DEF IInv
    <2>2. CASE Ask(r)
        <3>1. /\ UNCHANGED <<now, cached, refreshed>>
              /\ answer' = [answer EXCEPT ![r] = NoEntry]
            BY <2>2 DEF Ask, environment, cache
        <3>2. Given' = [Given EXCEPT ![r] = NoEntry]
            BY <2>1, <3>1, GivenTo DEF Kept
        <3>. QED BY <3>1, <3>2 DEF Cache!Next, Cache!Ask, Given, Kept
    <2>3. CASE Hit(r)
        <3>1. /\ UNCHANGED <<now, cached, refreshed>>
              /\ answer' = [answer EXCEPT ![r] = cached]
              /\ cached # NoEntry /\ now < expiresAt
            BY <2>3 DEF Hit, Answer, Valid, environment, cache
        <3>2. Given' = [Given EXCEPT ![r] = Kept(cached)]
            BY <2>1, <3>1, GivenTo
        <3>3. Kept(cached) # NoEntry /\ now < Kept(cached).filled + TTL
            BY <2>1, <3>1, KeptIsEntry DEF Types, CacheYoung
        <3>4. Kept(cached)' = Kept(cached)
            BY <3>1 DEF Kept
        <3>. QED BY <3>1, <3>2, <3>3, <3>4 DEF Cache!Next, Cache!Reuse, Given
    <2>4. CASE Fill(r)
        <3> DEFINE new == [from |-> run[r].from, filled |-> now, bad |-> run[r].bad]
        <3>1. /\ now' = now /\ cached' = new
              /\ refreshed' = [refreshed EXCEPT ![r] = now]
              /\ answer' = [answer EXCEPT ![r] = new] /\ pc[r] = "fill"
            BY <2>4 DEF Fill, Answer, Goto, environment
        <3>2. new \in Entry /\ new.from = run[r].from /\ new.filled = now
            BY <2>1 DEF Types, Run, Entry
        <3> HIDE DEF new
        <3>3. Given' = [Given EXCEPT ![r] = Kept(new)]
            BY <2>1, <3>1, GivenTo
        <3>4. Kept(new) = [from |-> run[r].from, filled |-> now]
            BY <3>2, KeptIsEntry
        <3>5. run[r].from \in now - MaxRebuild .. now
            BY <2>1, <3>1 DEF InTime, Types, Run
        <3>6. refreshed[r] + TTL <= now
            BY <2>1, <3>1 DEF NotTooSoon
        <3>7. Kept(cached)' = Kept(new)
            BY <3>1 DEF Kept
        <3>8. Cache!Refresh(r)
            BY <3>1, <3>3, <3>4, <3>5, <3>6, <3>7 DEF Cache!Refresh, Given
        <3>. QED BY <3>8 DEF Cache!Next
    <2>5. CASE Miss(r) \/ CheckDNS(r) \/ Attempt(r) \/ CheckIndex(r)
        <3>1. UNCHANGED <<now, cached, refreshed, answer>>
            BY <2>5 DEF Miss, CheckDNS, Attempt, CheckIndex, environment, cache, given
        <3>. QED BY <1>1, <3>1
    <2>. QED BY <1>5, <2>2, <2>3, <2>4, <2>5
<1>. QED BY <1>2, <1>3, <1>4, <1>5 DEF Next, ClockStops

\* The lookups, checks and fills of all requests implement TTLCache: nobody
\* refreshes within the TTL of their last refresh, and every answer is one that
\* was filled in less than the TTL before, from observations that took no
\* longer than the checks may take.
THEOREM ChecksAreCache == Spec => ImplementsTTLCache
BY InitIsInit, NextIsNext, Invariance, PTL DEF Spec, ImplementsTTLCache, Cache!Spec

-----------------------------------------------------------------------------
(* Why a verdict is honest. *)

\* Between two moments a target went through what the check of it reports.
Proven(t, bad, from, to, w) ==
    t \notin bad =>
        \/ \E m \in from..to : <<"expected", m>> \in w
        \/ \E m \in from..to : <<"unreadable", m>> \in w

Backed(t, bad, from, to, w) ==
    t \in bad =>
        \/ \E m \in from..to : <<"wrong", m>> \in w
        \/ \E m, n \in from..to :
              m < n /\ <<"failing", m>> \in w /\ <<"failing", n>> \in w

\* The targets that are asked.
Asked(t) == Askable(t) /\ (t \in Live => Ready)

Honest(entry) ==
    /\ entry.bad = {} => Ready
    /\ \A t \in Targets : Asked(t) =>
          /\ Proven(t, entry.bad, entry.from, entry.filled, was[t])
          /\ Backed(t, entry.bad, entry.from, entry.filled, was[t])

\* The targets that request r is done with.
Done(r, t) ==
    \/ t = "sqlite-size"
    \/ t = "public-domain-dns" /\ pc[r] \in {"http", "index", "fill"}
    \/ t = "frontend-index" /\ pc[r] = "fill"
    \/ t \in Live /\ pc[r] \in {"index", "fill"}
    \/ pc[r] = "http" /\ \E i \in 1..Len(Endpoints) :
                            i < run[r].endpoint /\ t = Endpoints[i]

SiteInv ==
    /\ DOMAIN site = Targets /\ DOMAIN was = Targets
    /\ \A t \in Targets :
          /\ <<site[t], now>> \in was[t]
          /\ \/ site[t] \in {"expected", "wrong"}
             \/ site[t] = "failing" /\ t \in Live
             \/ site[t] = "unreadable" /\ t = "sqlite-size"

\* A second attempt follows a failure at an earlier moment.
FailedBefore(r) ==
    pc[r] = "http" /\ run[r].attempt > 1 =>
        \E m \in run[r].from..now :
            m < run[r].retryAt /\ <<"failing", m>> \in was[Endpoints[run[r].endpoint]]

RunHonest(r) ==
    pc[r] # "idle" =>
        /\ pc[r] \in {"lookup", "dns"} => run[r].endpoint = 1 /\ run[r].attempt = 1
        /\ pc[r] # "lookup" /\ ~Ready => "public-http-auth" \in run[r].bad
        /\ \A t \in Targets : Asked(t) =>
              /\ Backed(t, run[r].bad, run[r].from, now, was[t])
              /\ Done(r, t) => Proven(t, run[r].bad, run[r].from, now, was[t])
        /\ FailedBefore(r)

HonestInv ==
    /\ SiteInv
    /\ Production =>
          /\ cached # NoEntry => Honest(cached)
          /\ \A r \in Requesters :
                (answer[r] # NoEntry => Honest(answer[r])) /\ RunHonest(r)

\* What the checks reported stays true when time passes and the targets go
\* through more.
LEMMA Later ==
    ASSUME NEW t, NEW bad, NEW from \in Int, NEW to \in Int, NEW upto \in Int,
           NEW w, NEW v, to <= upto, w \subseteq v
    PROVE  /\ Proven(t, bad, from, to, w) => Proven(t, bad, from, upto, v)
           /\ Backed(t, bad, from, to, w) => Backed(t, bad, from, upto, v)
<1>1. from..to \subseteq from..upto
    OBVIOUS
<1>2. Proven(t, bad, from, to, w) => Proven(t, bad, from, upto, v)
    BY <1>1 DEF Proven
<1>3. Backed(t, bad, from, to, w) => Backed(t, bad, from, upto, v)
    BY <1>1 DEF Backed
<1>. QED BY <1>2, <1>3

\* The settings decide what is asked.
LEMMA Settled ==
    ASSUME settings' = settings
    PROVE  /\ Production' <=> Production
           /\ Ready' <=> Ready
           /\ \A t : Asked(t)' <=> Asked(t)
BY DEF Production, Ready, Asked, Askable

LEMMA EntryStays ==
    ASSUME NEW entry \in Entry, Honest(entry), settings' = settings,
           \A t \in Targets : was[t] \subseteq was'[t]
    PROVE  Honest(entry)'
<1>1. entry.filled \in Int /\ entry.from \in Int
    BY DEF Entry
<1>2. ASSUME NEW t \in Targets, Asked(t)'
      PROVE  /\ Proven(t, entry.bad, entry.from, entry.filled, was'[t])
             /\ Backed(t, entry.bad, entry.from, entry.filled, was'[t])
    <2>1. /\ Proven(t, entry.bad, entry.from, entry.filled, was[t])
          /\ Backed(t, entry.bad, entry.from, entry.filled, was[t])
        BY <1>2, Settled DEF Honest
    <2>. QED BY <1>1, <2>1, Later
<1>3. (entry.bad = {} => Ready)'
    BY Settled DEF Honest
<1>. QED BY <1>2, <1>3 DEF Honest

\* The requests that take no part in a step.
LEMMA RunStays ==
    ASSUME Types, NEW q \in Requesters, RunHonest(q), InTime(q), settings' = settings,
           \A t \in Targets : was[t] \subseteq was'[t],
           now' \in Int, now <= now', pc'[q] = pc[q], run'[q] = run[q]
    PROVE  RunHonest(q)'
<1> SUFFICES ASSUME pc[q] # "idle" PROVE RunHonest(q)'
    BY DEF RunHonest
<1>1. run[q].from \in Int /\ now \in Int
    BY DEF Types, Run
<1>2. /\ pc[q] \in {"lookup", "dns"} => run[q].endpoint = 1 /\ run[q].attempt = 1
      /\ pc[q] # "lookup" /\ ~Ready => "public-http-auth" \in run[q].bad
    BY DEF RunHonest
<1>3. ASSUME NEW t \in Targets, Asked(t)
      PROVE  /\ Backed(t, run[q].bad, run[q].from, now', was'[t])
             /\ Done(q, t) => Proven(t, run[q].bad, run[q].from, now', was'[t])
    <2>1. /\ Backed(t, run[q].bad, run[q].from, now, was[t])
          /\ Done(q, t) => Proven(t, run[q].bad, run[q].from, now, was[t])
        BY <1>3 DEF RunHonest
    <2>. QED BY <1>1, <2>1, Later
<1>4. \A t : Done(q, t)' <=> Done(q, t)
    BY DEF Done
<1>5. FailedBefore(q)'
    <2> SUFFICES ASSUME pc[q] = "http", run[q].attempt > 1 PROVE FailedBefore(q)'
        BY DEF FailedBefore
    <2>1. PICK m \in run[q].from..now :
             m < run[q].retryAt /\ <<"failing", m>> \in was[Endpoints[run[q].endpoint]]
        BY DEF RunHonest, FailedBefore
    <2>2. m \in run[q].from..now'
        BY <1>1
    <2>3. Endpoints[run[q].endpoint] \in Targets
        BY EndpointsType DEF InTime, Targets, Live
    <2>. QED BY <2>1, <2>2, <2>3 DEF FailedBefore
<1>. QED BY <1>2, <1>3, <1>4, <1>5, Settled DEF RunHonest

\* A step of request r alone is judged by what becomes of r and of the cache.
LEMMA OneMoves ==
    ASSUME IInv, HonestInv, NEW r \in Requesters, UNCHANGED environment,
           \A q \in Requesters \ {r} :
              pc'[q] = pc[q] /\ run'[q] = run[q] /\ answer'[q] = answer[q],
           Production => /\ RunHonest(r)'
                         /\ answer'[r] # NoEntry => Honest(answer[r])'
                         /\ cached' # NoEntry => Honest(cached)'
    PROVE  HonestInv'
<1>1. /\ settings' = settings /\ now' = now /\ was' = was /\ site' = site
      /\ now \in Int /\ now <= now
    BY DEF environment, IInv, Types
<1>2. SiteInv'
    BY <1>1 DEF HonestInv, SiteInv
<1>3. ASSUME Production, NEW q \in Requesters
      PROVE  (answer[q] # NoEntry => Honest(answer[q]))' /\ RunHonest(q)'
    <2>1. CASE q = r
        BY <1>3, <2>1
    <2>2. CASE q # r
        <3>1. /\ pc'[q] = pc[q] /\ run'[q] = run[q] /\ answer'[q] = answer[q]
              /\ RunHonest(q) /\ InTime(q) /\ Types
              /\ answer[q] # NoEntry => Honest(answer[q])
            BY <1>3, <2>2 DEF HonestInv, IInv
        <3>2. RunHonest(q)'
            BY <1>1, <3>1, RunStays
        <3>3. (answer[q] # NoEntry => Honest(answer[q]))'
            BY <1>1, <3>1, Settled DEF Honest
        <3>. QED BY <3>2, <3>3
    <2>. QED BY <2>1, <2>2
<1>4. Production' <=> Production
    BY <1>1, Settled
<1>. QED BY <1>2, <1>3, <1>4 DEF HonestInv

LEMMA InitHonest == Init => HonestInv
<1> SUFFICES ASSUME Init PROVE HonestInv
    OBVIOUS
<1>1. SiteInv
    <2>1. DOMAIN site = Targets /\ DOMAIN was = Targets
        BY DEF Init
    <2>2. ASSUME NEW t \in Targets
          PROVE  /\ <<site[t], now>> \in was[t]
                 /\ \/ site[t] \in {"expected", "wrong"}
                    \/ site[t] = "failing" /\ t \in Live
                    \/ site[t] = "unreadable" /\ t = "sqlite-size"
        BY DEF Init, Values
    <2>. QED BY <2>1, <2>2 DEF SiteInv
<1>2. \A r \in Requesters : (answer[r] # NoEntry => Honest(answer[r])) /\ RunHonest(r)
    BY DEF Init, RunHonest
<1>. QED BY <1>1, <1>2 DEF HonestInv, Init

\* Time passes, or the site changes.
LEMMA WorldHonest ==
    ASSUME IInv, HonestInv,
           Tick \/ \E t \in Unsteady : \E value \in Values(t) : SiteChanges(t, value)
    PROVE  HonestInv'
<1>1. /\ settings' = settings /\ pc' = pc /\ run' = run /\ answer' = answer
      /\ cached' = cached
    BY DEF Tick, SiteChanges, cache, given
<1>2. SiteInv' /\ (\A t \in Targets : was[t] \subseteq was'[t])
      /\ now' \in Int /\ now <= now'
    <2>1. SiteInv /\ now \in Int
        BY DEF HonestInv, IInv, Types
    <2>2. CASE Tick
        <3>1. /\ now' = now + 1 /\ site' = site
              /\ was' = [t \in Targets |-> was[t] \cup {<<site[t], now + 1>>}]
            BY <2>2 DEF Tick
        <3>2. SiteInv' /\ (\A t \in Targets : was[t] \subseteq was'[t])
            BY <2>1, <3>1 DEF SiteInv
        <3>. QED BY <2>1, <3>1, <3>2
    <2>3. ASSUME NEW t \in Unsteady, NEW value \in Values(t), SiteChanges(t, value)
          PROVE  SiteInv' /\ (\A s \in Targets : was[s] \subseteq was'[s])
                 /\ now' \in Int /\ now <= now'
        <3>1. /\ now' = now /\ site' = [site EXCEPT ![t] = value]
              /\ was' = [was EXCEPT ![t] = @ \cup {<<value, now>>}]
            BY <2>3 DEF SiteChanges
        <3>2. \/ value \in {"expected", "wrong"}
              \/ value = "failing" /\ t \in Live
              \/ value = "unreadable" /\ t = "sqlite-size"
            BY DEF Values
        <3>. QED BY <2>1, <3>1, <3>2 DEF SiteInv
    <2>. QED BY <2>2, <2>3
<1>3. ASSUME Production PROVE cached # NoEntry => Honest(cached)'
    BY <1>1, <1>2, <1>3, EntryStays DEF HonestInv, IInv, Types
<1>4. ASSUME Production, NEW q \in Requesters
      PROVE  (answer[q] # NoEntry => Honest(answer[q])') /\ RunHonest(q)'
    <2>1. RunHonest(q)'
        BY <1>1, <1>2, <1>4, RunStays DEF HonestInv, IInv
    <2>2. answer[q] # NoEntry => Honest(answer[q])'
        BY <1>1, <1>2, <1>4, EntryStays DEF HonestInv, IInv, Types
    <2>. QED BY <2>1, <2>2
<1>5. Production' <=> Production
    BY <1>1, Settled
<1>. QED BY <1>1, <1>2, <1>3, <1>4, <1>5 DEF HonestInv

\* A step of the checks of request r.
LEMMA RunMoves ==
    ASSUME IInv, HonestInv, NEW r \in Requesters, NEW x \in Run, NEW to,
           pc[r] # "idle", to # "lookup",
           pc' = [pc EXCEPT ![r] = to], run' = [run EXCEPT ![r] = x],
           x.from = run[r].from,
           UNCHANGED <<environment, cache, given>>,
           Production =>
              /\ to = "dns" => x.endpoint = 1 /\ x.attempt = 1
              /\ ~Ready => "public-http-auth" \in x.bad
              /\ \A t \in Targets : Asked(t) =>
                    /\ Backed(t, x.bad, run[r].from, now, was[t])
                    /\ Done(r, t)' => Proven(t, x.bad, run[r].from, now, was[t])
              /\ to = "http" /\ x.attempt > 1 =>
                    \E m \in run[r].from..now :
                       m < x.retryAt /\ <<"failing", m>> \in was[Endpoints[x.endpoint]]
    PROVE  HonestInv'
<1>1. /\ cached' = cached /\ answer' = answer /\ now' = now /\ was' = was
      /\ settings' = settings /\ UNCHANGED environment
    BY DEF environment, cache, given
<1>2. pc'[r] = to /\ run'[r] = x
    BY DEF IInv, Types
<1>3. \A q \in Requesters \ {r} : pc'[q] = pc[q] /\ run'[q] = run[q] /\ answer'[q] = answer[q]
    BY <1>1 DEF IInv, Types
<1>4. ASSUME Production PROVE RunHonest(r)'
    <2>1. FailedBefore(r)'
        BY <1>1, <1>2, <1>4 DEF FailedBefore
    <2>2. \A t \in Targets : Asked(t)' =>
             /\ Backed(t, x.bad, run[r].from, now, was[t])
             /\ Done(r, t)' => Proven(t, x.bad, run[r].from, now, was[t])
        BY <1>1, <1>4, Settled
    <2>3. (~Ready)' => "public-http-auth" \in x.bad
        BY <1>1, <1>4, Settled
    <2>. QED BY <1>1, <1>2, <1>4, <2>1, <2>2, <2>3 DEF RunHonest
<1>5. ASSUME Production
      PROVE  /\ answer'[r] # NoEntry => Honest(answer[r])'
             /\ cached' # NoEntry => Honest(cached)'
    BY <1>1, <1>5, Settled DEF HonestInv, Honest
<1>. QED BY <1>1, <1>3, <1>4, <1>5, OneMoves

\* Whoever looks at a target now reports what it is now.
LEMMA Looks ==
    ASSUME Types, SiteInv, NEW t \in Targets \ {"sqlite-size"}, Asked(t), NEW bad, NEW from \in Int, from <= now
    PROVE  /\ Proven(t, Look(t, bad), from, now, was[t])
           /\ Backed(t, bad, from, now, was[t]) /\ site[t] # "failing" =>
                 Backed(t, Look(t, bad), from, now, was[t])
<1>1. now \in from..now /\ <<site[t], now>> \in was[t]
    BY DEF Types, SiteInv
<1>2. Proven(t, Look(t, bad), from, now, was[t])
    <2>1. t \notin Look(t, bad) => site[t] = "expected"
        BY DEF Look
    <2>. QED BY <1>1, <2>1 DEF Proven
<1>3. ASSUME Backed(t, bad, from, now, was[t]), site[t] # "failing"
      PROVE  Backed(t, Look(t, bad), from, now, was[t])
    <2>1. CASE site[t] = "wrong"
        BY <1>1, <2>1 DEF Backed
    <2>2. CASE site[t] = "expected"
        <3>1. Look(t, bad) = bad
            BY <2>2 DEF Look, Asked
        <3>. QED BY <1>3, <3>1
    <2>. QED BY <1>3, <2>1, <2>2 DEF SiteInv
<1>. QED BY <1>2, <1>3

\* What is found about the target u says nothing of the others.
LEMMA LooksElsewhere ==
    ASSUME NEW t, NEW u, t # u, NEW bad, NEW from, NEW to, NEW w
    PROVE  /\ Backed(t, bad, from, to, w) => Backed(t, Look(u, bad), from, to, w)
           /\ Proven(t, bad, from, to, w) => Proven(t, Look(u, bad), from, to, w)
<1>1. t \in Look(u, bad) <=> t \in bad
    BY DEF Look
<1>2. Backed(t, bad, from, to, w) => Backed(t, Look(u, bad), from, to, w)
    BY <1>1 DEF Backed
<1>3. Proven(t, bad, from, to, w) => Proven(t, Look(u, bad), from, to, w)
    BY <1>1 DEF Proven
<1>. QED BY <1>2, <1>3

\* What the settings decide is no target that is asked.
LEMMA SettingsElsewhere ==
    ASSUME settings \in SettingsSet, NEW t \in Targets, Asked(t)
    PROVE  t \notin SettingsBad
<1>1. t \notin settings.differ /\ t \notin {"tailnet-url", "public-ip-entry",
                                            "summary-cache-ttl", "metrics-retention"}
    BY NamesAssumption
<1>2. t \in {"public-http-auth", "public-https-auth"} => Ready
    BY DEF Asked, Targets
<1>3. t \notin ProductionBad
    BY <1>1, <1>2 DEF ProductionBad
<1>. QED BY <1>1, <1>3 DEF SettingsBad

LEMMA MissHonest == ASSUME IInv, HonestInv, NEW r \in Requesters, Miss(r) PROVE HonestInv'
<1> DEFINE x == [run[r] EXCEPT !.bad = @ \cup SettingsBad]
           to == IF Production THEN "dns" ELSE "index"
<1>1. /\ pc[r] = "lookup" /\ pc' = [pc EXCEPT ![r] = to]
      /\ run' = [run EXCEPT ![r] = x]
      /\ UNCHANGED <<environment, cache, given>>
    BY Zenon DEF Miss, Goto
<1>2. run[r] \in Run /\ settings \in SettingsSet /\ SettingsBad \in SUBSET Checks
    BY BadIsNamed DEF IInv, Types
<1>3. /\ x \in Run /\ x.from = run[r].from /\ x.endpoint = run[r].endpoint
      /\ x.attempt = run[r].attempt /\ x.bad = run[r].bad \cup SettingsBad
    BY <1>2 DEF Run
<1>4. pc'[r] = to /\ (Production => to = "dns") /\ to # "lookup"
    BY <1>1 DEF IInv, Types
<1> HIDE DEF x, to
<1>5. ASSUME Production
      PROVE  /\ x.endpoint = 1 /\ x.attempt = 1
             /\ ~Ready => "public-http-auth" \in x.bad
             /\ \A t \in Targets : Asked(t) =>
                   /\ Backed(t, x.bad, run[r].from, now, was[t])
                   /\ Done(r, t)' => Proven(t, x.bad, run[r].from, now, was[t])
    <2>1. RunHonest(r)
        BY <1>5 DEF HonestInv
    <2>2. x.endpoint = 1 /\ x.attempt = 1
        BY <1>1, <1>3, <2>1 DEF RunHonest
    <2>3. ~Ready => "public-http-auth" \in x.bad
        BY <1>3, <1>5 DEF SettingsBad, ProductionBad
    <2>4. ASSUME NEW t \in Targets, Asked(t)
          PROVE  /\ Backed(t, x.bad, run[r].from, now, was[t])
                 /\ Done(r, t)' => Proven(t, x.bad, run[r].from, now, was[t])
        <3>1. t \in x.bad <=> t \in run[r].bad
            BY <1>2, <1>3, <2>4, SettingsElsewhere
        <3>2. Done(r, t)' => Done(r, t)
            BY <1>4, <1>5 DEF Done
        <3>3. /\ Backed(t, run[r].bad, run[r].from, now, was[t])
              /\ Done(r, t) => Proven(t, run[r].bad, run[r].from, now, was[t])
            BY <1>1, <2>1, <2>4 DEF RunHonest
        <3>. QED BY <3>1, <3>2, <3>3 DEF Backed, Proven
    <2>. QED BY <2>2, <2>3, <2>4
<1>6. Production => ~(to = "http" /\ x.attempt > 1)
    BY <1>4
<1>. QED BY <1>1, <1>3, <1>4, <1>5, <1>6, RunMoves

\* A check of u that asks once, when u is not among the entries.
LEMMA OnceHonest ==
    ASSUME IInv, HonestInv, NEW r \in Requesters, NEW u \in Targets \ Live, NEW to,
           \/ u = "public-domain-dns" /\ pc[r] = "dns"
              /\ to = IF Ready THEN "http" ELSE "index"
           \/ u = "frontend-index" /\ pc[r] = "index" /\ to = "fill",
           pc' = [pc EXCEPT ![r] = to],
           run' = [run EXCEPT ![r].bad = Look(u, @)],
           UNCHANGED <<environment, cache, given>>
    PROVE  HonestInv'
<1> DEFINE x == [run[r] EXCEPT !.bad = Look(u, @)]
<1>1. run[r] \in Run /\ settings \in SettingsSet /\ Look(u, run[r].bad) \in SUBSET Checks
    <2>1. run[r] \in Run /\ settings \in SettingsSet
        BY DEF IInv, Types
    <2>. QED BY <2>1, BadIsNamed DEF Run
<1>2. /\ x \in Run /\ x.from = run[r].from /\ x.endpoint = run[r].endpoint
      /\ x.attempt = run[r].attempt /\ x.bad = Look(u, run[r].bad)
    BY <1>1 DEF Run
<1>3. run' = [run EXCEPT ![r] = x]
    OBVIOUS
<1>4. pc'[r] = to /\ to \notin {"lookup", "dns"} /\ pc[r] # "idle"
    BY DEF IInv, Types
<1> HIDE DEF x
<1>5. ASSUME Production
      PROVE  /\ ~Ready => "public-http-auth" \in x.bad
             /\ \A t \in Targets : Asked(t) =>
                   /\ Backed(t, x.bad, run[r].from, now, was[t])
                   /\ Done(r, t)' => Proven(t, x.bad, run[r].from, now, was[t])
             /\ ~(to = "http" /\ x.attempt > 1)
    <2>1. RunHonest(r) /\ SiteInv /\ Types /\ InTime(r)
        BY <1>5 DEF HonestInv, IInv
    <2>2. run[r].bad \subseteq x.bad
        BY <1>2 DEF Look
    <2>3. ~Ready => "public-http-auth" \in x.bad
        BY <1>4, <2>1, <2>2 DEF RunHonest
    <2>4. ASSUME NEW t \in Targets, Asked(t)
          PROVE  /\ Backed(t, x.bad, run[r].from, now, was[t])
                 /\ Done(r, t)' => Proven(t, x.bad, run[r].from, now, was[t])
        <3>1. /\ Backed(t, run[r].bad, run[r].from, now, was[t])
              /\ Done(r, t) => Proven(t, run[r].bad, run[r].from, now, was[t])
            BY <1>4, <2>1, <2>4 DEF RunHonest
        <3>2. CASE t = u
            <4>1. site[t] # "failing"
                BY <2>1, <3>2 DEF SiteInv
            <4>2. run[r].from \in Int /\ run[r].from <= now
                BY <1>1, <1>4, <2>1 DEF Run, InTime
            <4>. QED BY <1>2, <2>1, <2>4, <3>1, <3>2, <4>1, <4>2, Looks
        <3>3. CASE t # u
            <4>1. Done(r, t)' => Done(r, t)
                <5>1. pc[r] = "dns" => run[r].endpoint = 1
                    BY <2>1 DEF RunHonest
                <5>2. x.endpoint = run[r].endpoint /\ run'[r] = x
                    BY <1>2, <1>3, <2>1 DEF Types
                <5>3. t \in Live => Ready
                    BY <2>4 DEF Asked
                <5>4. CASE u = "public-domain-dns"
                    BY <1>4, <3>3, <5>1, <5>2, <5>3, <5>4 DEF Done
                <5>5. CASE u = "frontend-index"
                    BY <1>4, <3>3, <5>3, <5>5 DEF Done
                <5>. QED BY <5>4, <5>5
            <4>. QED BY <1>2, <3>1, <3>3, <4>1, LooksElsewhere
        <3>. QED BY <3>2, <3>3
    <2>5. ~(to = "http" /\ x.attempt > 1)
        <3>1. to = "http" => x.attempt = 1
            BY <1>2, <2>1 DEF RunHonest
        <3>. QED BY <3>1
    <2>. QED BY <2>3, <2>4, <2>5
<1>. QED BY <1>2, <1>3, <1>4, <1>5, RunMoves

\* An attempt at an entry: only the last failure of several is reported.
LEMMA AttemptHonest ==
    ASSUME IInv, HonestInv, NEW r \in Requesters, Attempt(r)
    PROVE  HonestInv'
<1> DEFINE e == Endpoints[run[r].endpoint]
           again == [run[r] EXCEPT !.attempt = @ + 1, !.retryAt = now + 1]
           next == [NewRun(run[r].from, Look(e, run[r].bad))
                       EXCEPT !.endpoint = run[r].endpoint + 1]
           to == IF next.endpoint \in DOMAIN Endpoints THEN "http" ELSE "index"
<1>1. /\ pc[r] = "http" /\ run[r].retryAt <= now
      /\ UNCHANGED <<environment, cache, given>>
      /\ \/ /\ Askable(e) /\ Retries(run[r].attempt, site[e])
            /\ run' = [run EXCEPT ![r].attempt = @ + 1, ![r].retryAt = now + 1]
            /\ UNCHANGED pc
         \/ /\ ~(Askable(e) /\ Retries(run[r].attempt, site[e]))
            /\ run' = [run EXCEPT ![r] = next]
            /\ pc' = [pc EXCEPT ![r] = to]
    BY Zenon DEF Attempt
<1>2. /\ run[r] \in Run /\ settings \in SettingsSet /\ Types /\ InTime(r)
      /\ now \in Nat /\ SiteInv
    BY DEF IInv, Types, HonestInv
<1>3. /\ run[r].endpoint \in 1..Len(Endpoints) /\ run[r].attempt \in 1..MaxAttempts
      /\ e \in Targets /\ e \in Live /\ e # "sqlite-size" /\ MaxAttempts \in Nat /\ MaxAttempts > 1
      /\ run[r].from \in Int /\ run[r].from <= now
    <2>1. run[r].endpoint \in 1..Len(Endpoints) /\ run[r].attempt \in 1..MaxAttempts
        BY <1>1, <1>2 DEF InTime
    <2>2. e \in Targets /\ e \in Live /\ e # "sqlite-size"
        BY <2>1, EndpointsType, NamesAssumption DEF Targets, Live
    <2>3. run[r].from \in Int /\ run[r].from <= now
        BY <1>1, <1>2 DEF InTime, Run
    <2>. QED BY <2>1, <2>2, <2>3, EndpointsAssumption
<1>4. now \in run[r].from..now /\ <<site[e], now>> \in was[e]
    BY <1>2, <1>3 DEF SiteInv
<1>5. ASSUME Production
      PROVE  /\ ~Ready => "public-http-auth" \in run[r].bad
             /\ FailedBefore(r)
             /\ \A t \in Targets : Asked(t) =>
                   /\ Backed(t, run[r].bad, run[r].from, now, was[t])
                   /\ Done(r, t) => Proven(t, run[r].bad, run[r].from, now, was[t])
    BY <1>1, <1>5 DEF HonestInv, RunHonest
<1>6. CASE /\ Askable(e) /\ Retries(run[r].attempt, site[e])
           /\ run' = [run EXCEPT ![r].attempt = @ + 1, ![r].retryAt = now + 1]
           /\ UNCHANGED pc
    <2>1. run' = [run EXCEPT ![r] = again] /\ pc' = [pc EXCEPT ![r] = "http"]
        BY <1>1, <1>2, <1>6 DEF Types
    <2>2. /\ again \in Run /\ again.from = run[r].from /\ again.bad = run[r].bad
          /\ again.endpoint = run[r].endpoint /\ again.retryAt = now + 1
        <3>1. run[r] \in Run /\ run[r].attempt + 1 \in Int /\ now + 1 \in Int
            BY <1>2, <1>3
        <3>. QED BY <3>1, AgainKeeps, Zenon
    <2>3. pc'[r] = pc[r] /\ run'[r].endpoint = run[r].endpoint
        BY <1>1, <1>2, <2>1, <2>2 DEF Types
    <2>4. \A t : Done(r, t)' <=> Done(r, t)
        BY <2>3 DEF Done
    <2>5. now < now + 1 /\ <<"failing", now>> \in was[Endpoints[run[r].endpoint]]
        BY <1>2, <1>4, <1>6 DEF Retries
    <2> HIDE DEF again, e
    <2>6. \E m \in run[r].from..now :
             m < again.retryAt /\ <<"failing", m>> \in was[Endpoints[again.endpoint]]
        BY <1>4, <2>2, <2>5
    <2>7. Production =>
             /\ ~Ready => "public-http-auth" \in again.bad
             /\ \A t \in Targets : Asked(t) =>
                   /\ Backed(t, again.bad, run[r].from, now, was[t])
                   /\ Done(r, t)' => Proven(t, again.bad, run[r].from, now, was[t])
        BY <1>5, <2>2, <2>4
    <2>. QED BY <1>1, <2>1, <2>2, <2>6, <2>7, RunMoves
<1>7. CASE /\ ~(Askable(e) /\ Retries(run[r].attempt, site[e]))
           /\ run' = [run EXCEPT ![r] = next]
           /\ pc' = [pc EXCEPT ![r] = to]
    <2>1. Look(e, run[r].bad) \in SUBSET Checks
        BY <1>2, <1>3, BadIsNamed DEF Run
    <2>2. /\ next \in Run /\ next.from = run[r].from /\ next.attempt = 1
          /\ next.endpoint = run[r].endpoint + 1
        <3>1. run[r].from \in Int /\ run[r].endpoint + 1 \in Int
            BY <1>3
        <3>. QED BY <2>1, <3>1, NewRunType
    <2>3. next.bad = Look(e, run[r].bad)
        BY NextKeeps, Zenon
    <2>4. pc'[r] = to /\ run'[r] = next /\ to \in {"http", "index"}
        BY <1>2, <1>7 DEF Types
    <2>5. ASSUME Production, NEW t \in Targets, Asked(t)
          PROVE  /\ Backed(t, Look(e, run[r].bad), run[r].from, now, was[t])
                 /\ Done(r, t)' => Proven(t, Look(e, run[r].bad), run[r].from, now, was[t])
        <3>1. /\ Backed(t, run[r].bad, run[r].from, now, was[t])
              /\ Done(r, t) => Proven(t, run[r].bad, run[r].from, now, was[t])
            BY <1>5, <2>5
        <3>2. CASE t = e
            <4>1. /\ Proven(e, Look(e, run[r].bad), run[r].from, now, was[e])
                  /\ site[e] # "failing" =>
                        Backed(e, Look(e, run[r].bad), run[r].from, now, was[e])
                BY <1>2, <1>3, <2>5, <3>1, <3>2, Looks
            <4>2. ASSUME site[e] = "failing"
                  PROVE  Backed(e, Look(e, run[r].bad), run[r].from, now, was[e])
                <5>1. ~(run[r].attempt < MaxAttempts)
                    BY <1>7, <2>5, <3>2, <4>2 DEF Asked, Retries
                <5>2. run[r].attempt > 1
                    BY <1>3, <5>1
                <5>3. PICK m \in run[r].from..now :
                         m < run[r].retryAt /\ <<"failing", m>> \in was[e]
                    BY <1>1, <1>5, <2>5, <5>2 DEF FailedBefore
                <5>4. m < now
                    <6>1. run[r].retryAt \in Int /\ m \in Int
                        BY <1>2, <1>3 DEF Run
                    <6>. QED BY <1>1, <1>2, <5>3, <6>1
                <5> HIDE DEF e
                <5>. QED BY <1>4, <4>2, <5>3, <5>4 DEF Backed
            <4>. QED BY <3>2, <4>1, <4>2
        <3>3. CASE t # e
            <4>1. ASSUME Done(r, t)' PROVE Done(r, t)
                <5>1. CASE t \in Live
                    <6>1. PICK i \in 1..Len(Endpoints) :
                             t = Endpoints[i] /\ i < run[r].endpoint + 1
                        <7>1. CASE to = "http"
                            <8> HIDE DEF next, to, e
                            <8>1. t \notin {"sqlite-size", "public-domain-dns", "frontend-index"}
                                BY <5>1, NamesAssumption
                            <8>. QED BY <2>2, <2>4, <4>1, <7>1, <8>1 DEF Done
                        <7>2. CASE to = "index"
                            <8>1. run[r].endpoint + 1 \notin 1..Len(Endpoints)
                                BY <2>2, <7>2, EndpointsType
                            <8>2. run[r].endpoint = Len(Endpoints)
                                BY <1>3, <8>1, EndpointsType
                            <8>3. PICK i \in 1..Len(Endpoints) : t = Endpoints[i]
                                BY <5>1, EndpointsType DEF Live
                            <8>. QED BY <8>2, <8>3, EndpointsType
                        <7>. QED BY <2>4, <7>1, <7>2
                    <6>2. i # run[r].endpoint
                        BY <3>3, <6>1
                    <6>3. i < run[r].endpoint
                        BY <1>3, <6>1, <6>2
                    <6>. QED BY <1>1, <6>1, <6>3 DEF Done
                <5>2. CASE t \notin Live
                    <6>1. \A i \in 1..Len(Endpoints) : t # Endpoints[i]
                        BY <5>2, EndpointsType DEF Live
                    <6> HIDE DEF next, to, e
                    <6>. QED BY <1>1, <2>4, <4>1, <5>2, <6>1 DEF Done
                <5>. QED BY <5>1, <5>2
            <4>. QED BY <3>1, <3>3, <4>1, LooksElsewhere
        <3>. QED BY <3>2, <3>3
    <2>6. run[r].bad \subseteq Look(e, run[r].bad)
        BY DEF Look
    <2>7. Production =>
             /\ ~Ready => "public-http-auth" \in next.bad
             /\ \A t \in Targets : Asked(t) =>
                   /\ Backed(t, next.bad, run[r].from, now, was[t])
                   /\ Done(r, t)' => Proven(t, next.bad, run[r].from, now, was[t])
        BY <1>5, <2>3, <2>5, <2>6
    <2>8. ~(next.attempt > 1)
        BY <2>2
    <2> HIDE DEF next, to, e
    <2>. QED BY <1>1, <1>7, <2>2, <2>4, <2>7, <2>8, RunMoves
<1>. QED BY <1>1, <1>6, <1>7

\* The size of the database is the first thing a request looks at.
LEMMA AskHonest == ASSUME IInv, HonestInv, NEW r \in Requesters, Ask(r) PROVE HonestInv'
<1> DEFINE bad == {t \in {"sqlite-size"} : site[t] = "wrong"}
           x == NewRun(now, bad)
<1>1. /\ pc' = [pc EXCEPT ![r] = "lookup"] /\ run' = [run EXCEPT ![r] = x]
      /\ answer' = [answer EXCEPT ![r] = NoEntry]
      /\ UNCHANGED <<environment, cache>>
    BY DEF Ask, Goto
<1>2. /\ pc'[r] = "lookup" /\ run'[r] = x /\ answer'[r] = NoEntry
      /\ \A q \in Requesters \ {r} :
            pc'[q] = pc[q] /\ run'[q] = run[q] /\ answer'[q] = answer[q]
    BY <1>1 DEF IInv, Types
<1>3. /\ x.from = now /\ x.endpoint = 1 /\ x.attempt = 1 /\ x.bad = bad
    BY DEF NewRun
<1> HIDE DEF x
<1>4. /\ cached' = cached /\ now' = now /\ was' = was /\ settings' = settings
      /\ UNCHANGED environment
    BY <1>1 DEF environment, cache
<1>5. ASSUME NEW t \in Targets
      PROVE  /\ Backed(t, bad, now, now, was[t])
             /\ Done(r, t)' => Proven(t, bad, now, now, was[t])
    <2>1. /\ now \in now..now /\ <<site[t], now>> \in was[t]
          /\ \/ site[t] \in {"expected", "wrong"}
             \/ site[t] = "failing" /\ t \in Live
             \/ site[t] = "unreadable" /\ t = "sqlite-size"
        BY DEF IInv, Types, HonestInv, SiteInv
    <2>2. t \in bad <=> t = "sqlite-size" /\ site[t] = "wrong"
        OBVIOUS
    <2>3. t = "sqlite-size" => t \notin Live
        BY NamesAssumption
    <2>4. Done(r, t)' => t = "sqlite-size"
        BY <1>2 DEF Done
    <2> HIDE DEF bad
    <2>. QED BY <2>1, <2>2, <2>3, <2>4 DEF Backed, Proven
<1>6. RunHonest(r)'
    <2>1. FailedBefore(r)'
        BY <1>2 DEF FailedBefore
    <2> HIDE DEF bad
    <2>. QED BY <1>2, <1>3, <1>4, <1>5, <2>1 DEF RunHonest
<1>7. Production => (cached' # NoEntry => Honest(cached)')
    BY <1>4, Settled DEF HonestInv, Honest
<1>. QED BY <1>2, <1>4, <1>6, <1>7, OneMoves

LEMMA HitHonest == ASSUME IInv, HonestInv, NEW r \in Requesters, Hit(r) PROVE HonestInv'
<1>1. /\ pc' = [pc EXCEPT ![r] = "idle"] /\ run' = [run EXCEPT ![r] = NoRun]
      /\ answer' = [answer EXCEPT ![r] = cached] /\ cached # NoEntry
      /\ UNCHANGED <<environment, cache>>
    BY DEF Hit, Goto, Answer, Valid
<1>2. /\ pc'[r] = "idle" /\ answer'[r] = cached
      /\ \A q \in Requesters \ {r} :
            pc'[q] = pc[q] /\ run'[q] = run[q] /\ answer'[q] = answer[q]
    BY <1>1 DEF IInv, Types
<1>3. cached' = cached /\ was' = was /\ settings' = settings /\ UNCHANGED environment
    BY <1>1 DEF environment, cache
<1>4. ASSUME Production PROVE Honest(cached)' /\ Honest(answer[r])'
    BY <1>1, <1>2, <1>3, <1>4, Settled DEF HonestInv, Honest
<1>5. RunHonest(r)'
    BY <1>2 DEF RunHonest
<1>. QED BY <1>2, <1>3, <1>4, <1>5, OneMoves

\* A request that fills in is done with every target.
LEMMA FillHonest == ASSUME IInv, HonestInv, NEW r \in Requesters, Fill(r) PROVE HonestInv'
<1> DEFINE entry == [from |-> run[r].from, filled |-> now, bad |-> run[r].bad]
<1>1. /\ pc[r] = "fill" /\ pc' = [pc EXCEPT ![r] = "idle"]
      /\ run' = [run EXCEPT ![r] = NoRun] /\ cached' = entry
      /\ answer' = [answer EXCEPT ![r] = entry] /\ UNCHANGED environment
    BY DEF Fill, Goto, Answer
<1>2. /\ pc'[r] = "idle" /\ answer'[r] = entry
      /\ \A q \in Requesters \ {r} :
            pc'[q] = pc[q] /\ run'[q] = run[q] /\ answer'[q] = answer[q]
    BY <1>1 DEF IInv, Types
<1>3. was' = was /\ settings' = settings
    BY <1>1 DEF environment
<1>4. ASSUME Production PROVE Honest(entry)
    <2>1. RunHonest(r)
        BY <1>4 DEF HonestInv
    <2>2. \A t \in Targets : Done(r, t)
        BY <1>1 DEF Done, Targets
    <2>. QED BY <1>1, <2>1, <2>2 DEF RunHonest, Honest
<1>5. entry.from = run[r].from /\ entry.filled = now /\ entry.bad = run[r].bad
    OBVIOUS
<1> HIDE DEF entry
<1>6. ASSUME Production PROVE Honest(cached)' /\ Honest(answer[r])'
    BY <1>1, <1>2, <1>3, <1>4, <1>6, Settled DEF Honest
<1>7. RunHonest(r)'
    BY <1>2 DEF RunHonest
<1>. QED BY <1>1, <1>2, <1>6, <1>7, OneMoves

LEMMA NextHonest == IInv /\ HonestInv /\ [Next]_vars => HonestInv'
<1> SUFFICES ASSUME IInv, HonestInv, [Next]_vars PROVE HonestInv'
    OBVIOUS
<1>1. CASE Tick \/ \E t \in Unsteady : \E value \in Values(t) : SiteChanges(t, value)
    BY <1>1, WorldHonest
<1>2. CASE UNCHANGED vars
    <2>1. /\ settings' = settings /\ was' = was /\ site' = site /\ now' = now
          /\ cached' = cached /\ answer' = answer /\ pc' = pc /\ run' = run
          /\ now \in Int /\ now <= now
        BY <1>2 DEF vars, environment, cache, given, IInv, Types
    <2>2. SiteInv'
        BY <2>1 DEF HonestInv, SiteInv
    <2>3. ASSUME Production, NEW q \in Requesters PROVE RunHonest(q)'
        BY <2>1, <2>3, RunStays DEF HonestInv, IInv
    <2>4. Production => (cached # NoEntry => Honest(cached))'
        BY <2>1, Settled DEF HonestInv, Honest
    <2>5. Production => \A q \in Requesters : (answer[q] # NoEntry => Honest(answer[q]))'
        BY <2>1, Settled DEF HonestInv, Honest
    <2>. QED BY <2>1, <2>2, <2>3, <2>4, <2>5, Settled DEF HonestInv
<1>3. ASSUME NEW r \in Requesters,
             Ask(r) \/ Hit(r) \/ Miss(r) \/ CheckDNS(r) \/ Attempt(r)
             \/ CheckIndex(r) \/ Fill(r)
      PROVE  HonestInv'
    <2>1. CASE CheckDNS(r)
        <3>1. "public-domain-dns" \in Targets \ Live
            BY NamesAssumption DEF Targets
        <3>. QED BY <2>1, <3>1, OnceHonest DEF CheckDNS, Goto
    <2>2. CASE CheckIndex(r)
        <3>1. "frontend-index" \in Targets \ Live
            BY NamesAssumption DEF Targets
        <3>. QED BY <2>2, <3>1, OnceHonest DEF CheckIndex, Goto
    <2>. QED BY <1>3, <2>1, <2>2, AskHonest, HitHonest, MissHonest, AttemptHonest, FillHonest
<1>. QED BY <1>1, <1>2, <1>3 DEF Next, ClockStops

\* Whatever the site does while the checks run, and whoever else runs them or
\* fills the cache meanwhile: a verdict is about what the targets were then,
\* and no single failure of an entry is reported.  The one verdict that may be
\* about nothing is that of a database whose size could not be read.
THEOREM VerdictsHonest == Spec => []VerdictHonest
<1>1. Init => HonestInv
    BY InitHonest
<1>2. IInv /\ HonestInv /\ [Next]_vars => HonestInv'
    BY NextHonest
<1>3. HonestInv => VerdictHonest
    <2> SUFFICES ASSUME HonestInv, Production, NEW r \in Requesters, answer[r] # NoEntry
                 PROVE  /\ answer[r].bad = {} => Ready
                        /\ \A t \in Targets :
                              Askable(t) /\ (t \in Live => Ready) =>
                                LET Saw(value) == {m \in Interval(answer[r]) :
                                                      <<value, m>> \in was[t]}
                                IN  /\ t \notin answer[r].bad =>
                                          Saw("expected") # {} \/ Saw("unreadable") # {}
                                    /\ t \in answer[r].bad =>
                                          Saw("wrong") # {}
                                          \/ \E m, n \in Saw("failing") : m < n
        BY DEF VerdictHonest
    <2>1. Honest(answer[r])
        BY DEF HonestInv
    <2>2. answer[r].bad = {} => Ready
        BY <2>1 DEF Honest
    <2>3. ASSUME NEW t \in Targets, Askable(t), t \in Live => Ready
          PROVE  LET Saw(value) == {m \in Interval(answer[r]) : <<value, m>> \in was[t]}
                 IN  /\ t \notin answer[r].bad =>
                           Saw("expected") # {} \/ Saw("unreadable") # {}
                     /\ t \in answer[r].bad =>
                           Saw("wrong") # {} \/ \E m, n \in Saw("failing") : m < n
        <3>1. /\ Proven(t, answer[r].bad, answer[r].from, answer[r].filled, was[t])
              /\ Backed(t, answer[r].bad, answer[r].from, answer[r].filled, was[t])
            BY <2>1, <2>3 DEF Honest, Asked
        <3>. QED BY <3>1 DEF Proven, Backed, Interval
    <2>. QED BY <2>2, <2>3
<1>. QED BY <1>1, <1>2, <1>3, Invariance, PTL DEF Spec
=============================================================================
