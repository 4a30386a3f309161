-------------------------- MODULE StatisticsProofs --------------------------
(***************************************************************************)
(* Theorems about the two parts of statusd that count: the statistics of   *)
(* its own requests (RequestStats) and the board with its pages            *)
(* (StatusRollup, DetailPages).  They share the lemmas about sums over     *)
(* functions and nothing else.                                             *)
(*                                                                         *)
(* RequestStats, for any callers, requests, replies and limits, and        *)
(* without a bound on the requests or on the clock:                        *)
(*                                                                         *)
(*   RecentStaysTail       Spec => []RecentIsTail                          *)
(*   PollsStayQuiet        Spec => []PollsDoNotComplain                    *)
(*   DigestsTell           Spec => []DigestTells                           *)
(*   CountersStayTogether  Spec => []CountersAgree                         *)
(*                                                                         *)
(* The board, for any configurations that are accepted, any endpoints of   *)
(* Gatus and any limits of the pages:                                      *)
(*                                                                         *)
(*   OverallMeans          GatusSpec => []OverallMeaning                   *)
(*   NeverLooksBetter      GatusSpec => WorseNeverLooksBetter              *)
(*   CountsAddUp           GatusSpec => []CountsAgree                      *)
(*   PagesTellTheSame      GatusSpec => []PagesAgree                       *)
(*   PagesMatchTheBoard    GatusSpec => []PageMatchesBoard                 *)
(*                                                                         *)
(* IInv: what a digest shows was taken from the recent samples, all of     *)
(* which are in the log (RecentIsTail); the log only grows, so if it is    *)
(* quiet now it was quiet then (QuietDigests).                             *)
(*                                                                         *)
(* DigestInv: each stage of a request under way took at most the time      *)
(* since its start, so the budget of the whole, the largest of the stages' *)
(* own, is reached whenever a stage reaches it; the samples before the     *)
(* snapshot are the same ever after.                                       *)
(*                                                                         *)
(* CountInv: no sample has a negative duration, since a request under way  *)
(* began in the past; and one more sample adds the same to a counter and   *)
(* to the sum of its column in the table of the routes (ColumnAfter).      *)
(* SumFunction is a recursion over the subsets of the domain; that it is   *)
(* well defined, does not depend on the order of its choices and grows     *)
(* with its summands is shown by the least size, or a minimal subset, for  *)
(* which it would fail (LeastNatural, MinimalSet).                         *)
(*                                                                         *)
(* BoardInv says what Gatus keeps: results, oldest first, of different     *)
(* times, so that the age tells them apart.  The rest are lemmas about the *)
(* board of any state.  GroupSays and ProjectSays: which words of the      *)
(* services make the word of a project.  Monotone: two boards derived from *)
(* one configuration.  PartitionSum: the members of a finite set, counted  *)
(* by group and summed up, shown by a minimal set for which that would     *)
(* fail.  NewestExist: a finite set has a cut of its newest elements, of   *)
(* any size, shown by the least size that would have none; that is what    *)
(* the CHOOSE of NewestEntries needs.                                      *)
(***************************************************************************)
EXTENDS RequestStats, BoardPages, SequenceTheorems, FiniteSetTheorems,
        WellFoundedInduction, TLAPS

\* Of a caller's request only what the statistics take from it.
Types ==
    /\ \E S : log \in Seq(S) /\ recent \in Seq(S)
    /\ \A i \in DOMAIN log : log[i].status \in Int
    /\ DOMAIN pc = Callers /\ DOMAIN act = Callers
    /\ \A c \in Callers :
          /\ DOMAIN act[c] = DOMAIN Idle
          /\ act[c].status \in Int
          /\ pc[c] = "handler" => ~Diagnoses(act[c].call)

\* A sample of which no digest complains.
QuietSample(s) ==
    /\ s.status < 500
    /\ s.duration >= SlowThreshold => s.method = "GET" /\ s.route = <<"diagnostics">>

Quiet == \A i \in DOMAIN log : QuietSample(log[i])

ShowsNone(c) == act[c].issues \cap {"api-5xx", "api-slow"} = {}

QuietDigests == Quiet => \A c \in Callers : Answered(c) => ShowsNone(c)

IInv == Types /\ RecentIsTail /\ QuietDigests

-----------------------------------------------------------------------------

\* r are the last RecentLimit elements of l.
TailOf(r, l) ==
    /\ Len(r) = IF Len(l) < RecentLimit THEN Len(l) ELSE RecentLimit
    /\ \A i \in DOMAIN r : r[i] = l[Len(l) - Len(r) + i]

\* Moving the list down over its oldest element keeps it the tail of the log.
LEMMA PushedIsTail ==
    ASSUME NEW S, NEW l \in Seq(S), NEW r \in Seq(S), NEW x \in S, TailOf(r, l)
    PROVE  Pushed(r, x) \in Seq(S) /\ TailOf(Pushed(r, x), Append(l, x))
<1> USE LimitAssumption
<1> DEFINE longer == Append(r, x)
           whole == Append(l, x)
<1>1. /\ longer \in Seq(S) /\ Len(longer) = Len(r) + 1 /\ Len(r) \in Nat
      /\ \A i \in 1..Len(r) : longer[i] = r[i]
      /\ longer[Len(r) + 1] = x
      /\ DOMAIN longer = 1..Len(r) + 1 /\ DOMAIN r = 1..Len(r)
    BY AppendProperties, LenProperties
<1>2. /\ whole \in Seq(S) /\ Len(whole) = Len(l) + 1 /\ Len(l) \in Nat
      /\ \A i \in 1..Len(l) : whole[i] = l[i]
      /\ whole[Len(l) + 1] = x
    BY AppendProperties, LenProperties
<1>3. Pushed(r, x) = IF Len(longer) - RecentLimit > 0
                     THEN [i \in 1..RecentLimit |-> longer[i + (Len(longer) - RecentLimit)]]
                     ELSE longer
    BY DEF Pushed
<1> HIDE DEF longer, whole
<1>4. Len(r) = (IF Len(l) < RecentLimit THEN Len(l) ELSE RecentLimit)
    BY DEF TailOf
<1>5. Len(r) <= Len(l) /\ Len(r) <= RecentLimit
    BY <1>1, <1>2, <1>4
<1>6. ASSUME NEW i \in 1..(Len(r) + 1)
      PROVE  longer[i] = whole[Len(l) - Len(r) + i]
    <2>1. CASE i = Len(r) + 1
        <3>1. Len(l) - Len(r) + i = Len(l) + 1
            BY <1>1, <1>2, <2>1
        <3>. QED BY <1>1, <1>2, <2>1, <3>1
    <2>2. CASE i # Len(r) + 1
        <3>1. i \in 1..Len(r) /\ Len(l) - Len(r) + i \in 1..Len(l)
            BY <1>1, <1>2, <1>5, <2>2
        <3>2. r[i] = l[Len(l) - Len(r) + i]
            BY <1>1, <3>1 DEF TailOf
        <3>. QED BY <1>1, <1>2, <3>1, <3>2
    <2>. QED BY <2>1, <2>2
<1>7. CASE Len(r) < RecentLimit
    <2>1. Pushed(r, x) = longer
        BY <1>1, <1>3, <1>7
    <2>2. Len(l) = Len(r)
        BY <1>1, <1>2, <1>4, <1>7
    <2>3. Len(longer) = (IF Len(whole) < RecentLimit THEN Len(whole) ELSE RecentLimit)
        BY <1>1, <1>2, <1>7, <2>2
    <2>4. \A i \in DOMAIN longer : longer[i] = whole[Len(whole) - Len(longer) + i]
        BY <1>1, <1>2, <1>6
    <2>. QED BY <1>1, <2>1, <2>3, <2>4 DEF TailOf, whole
<1>8. CASE Len(r) = RecentLimit
    <2> DEFINE moved == [i \in 1..RecentLimit |-> longer[i + 1]]
    <2>1. Pushed(r, x) = moved
        <3>1. Len(longer) - RecentLimit = 1
            BY <1>1, <1>8
        <3>2. \A i \in 1..RecentLimit : longer[i + (Len(longer) - RecentLimit)] = longer[i + 1]
            BY <3>1
        <3>3. Pushed(r, x) = [i \in 1..RecentLimit |-> longer[i + (Len(longer) - RecentLimit)]]
            BY <1>3, <3>1
        <3>. QED BY <3>2, <3>3
    <2>2. \A i \in 1..RecentLimit : longer[i + 1] \in S
        <3> TAKE i \in 1..RecentLimit
        <3>1. i + 1 \in 1..Len(longer)
            BY <1>1, <1>8
        <3>. QED BY <1>1, <3>1, ElementOfSeq
    <2>3. moved \in Seq(S) /\ Len(moved) = RecentLimit /\ DOMAIN moved = 1..RecentLimit
        BY <2>2
    <2>4. \A i \in 1..RecentLimit : moved[i] = whole[Len(whole) - RecentLimit + i]
        <3> TAKE i \in 1..RecentLimit
        <3>1. moved[i] = longer[i + 1] /\ i + 1 \in 1..(Len(r) + 1)
            BY <1>8
        <3>2. Len(l) - Len(r) + (i + 1) = Len(whole) - RecentLimit + i
            BY <1>1, <1>2, <1>8
        <3> HIDE DEF moved
        <3>3. longer[i + 1] = whole[Len(l) - Len(r) + (i + 1)]
            BY <1>6, <3>1
        <3>. QED BY <3>1, <3>2, <3>3
    <2>5. Len(moved) = (IF Len(whole) < RecentLimit THEN Len(whole) ELSE RecentLimit)
        BY <1>2, <1>5, <1>8, <2>3
    <2> HIDE DEF moved
    <2>6. TailOf(moved, whole)
        BY <2>3, <2>4, <2>5 DEF TailOf
    <2>. QED BY <2>1, <2>3, <2>6 DEF whole
<1>9. Len(r) < RecentLimit \/ Len(r) = RecentLimit
    <2>1. Len(r) \in Nat /\ RecentLimit \in Nat
        BY <1>1
    <2>. QED BY <1>5, <2>1
<1>. QED BY <1>7, <1>8, <1>9, Zenon

-----------------------------------------------------------------------------

LEMMA InitIInv == Init => IInv
<1> SUFFICES ASSUME Init PROVE IInv
    OBVIOUS
<1>1. log = <<>> /\ recent = <<>> /\ Len(log) = 0 /\ DOMAIN log = {} /\ DOMAIN recent = {}
    BY DEF Init
<1>2. Types
    <2>1. log \in Seq({}) /\ recent \in Seq({})
        BY <1>1, EmptySeq
    <2>2. \A c \in Callers : act[c] = Idle /\ pc[c] = "idle"
        BY DEF Init
    <2>3. Idle.status \in Int
        BY DEF Idle
    <2>. QED BY <1>1, <2>1, <2>2, <2>3 DEF Types, Init
<1>3. RecentIsTail
    BY <1>1, LimitAssumption DEF RecentIsTail
<1>4. QuietDigests
    BY DEF Init, QuietDigests, Answered
<1>. QED BY <1>2, <1>3, <1>4 DEF IInv

\* A step of one caller that records nothing.
LEMMA CallerStep ==
    ASSUME IInv, NEW c \in Callers, NEW to, NEW x,
           UNCHANGED stats,
           pc' = [pc EXCEPT ![c] = to], act' = [act EXCEPT ![c] = x],
           DOMAIN x = DOMAIN Idle, x.status \in Int,
           to = "handler" => ~Diagnoses(x.call),
           Quiet /\ Diagnoses(x.call) /\ to = "handled" =>
               x.issues \cap {"api-5xx", "api-slow"} = {}
    PROVE  IInv'
<1>1. log' = log /\ recent' = recent
    BY DEF stats
<1>2. \A d \in Callers : /\ pc'[d] = IF d = c THEN to ELSE pc[d]
                         /\ act'[d] = IF d = c THEN x ELSE act[d]
    BY DEF IInv, Types
<1>3. Types'
    <2>1. DOMAIN pc' = Callers /\ DOMAIN act' = Callers
        BY DEF IInv, Types
    <2>2. \A d \in Callers :
              /\ DOMAIN act'[d] = DOMAIN Idle
              /\ act'[d].status \in Int
              /\ pc'[d] = "handler" => ~Diagnoses(act'[d].call)
        BY <1>2 DEF IInv, Types
    <2>. QED BY <1>1, <2>1, <2>2 DEF IInv, Types
<1>4. RecentIsTail'
    BY <1>1 DEF IInv, RecentIsTail
<1>5. ASSUME Quiet, NEW d \in Callers, Answered(d)' PROVE ShowsNone(d)'
    <2>1. CASE d = c
        BY <1>2, <1>5, <2>1 DEF Answered, ShowsNone
    <2>2. CASE d # c
        BY <1>2, <1>5, <2>2 DEF Answered, ShowsNone, IInv, QuietDigests
    <2>. QED BY <2>1, <2>2
<1>6. QuietDigests'
    BY <1>1, <1>5 DEF QuietDigests, Quiet
<1>. QED BY <1>3, <1>4, <1>6 DEF IInv

\* What the recent samples tell while the log is quiet.
LEMMA QuietRecent ==
    ASSUME IInv, Quiet
    PROVE  RequestIssues(recent) = {}
<1>1. PICK S : log \in Seq(S) /\ recent \in Seq(S)
    BY DEF IInv, Types
<1>2. /\ Len(log) \in Nat /\ DOMAIN log = 1..Len(log)
      /\ Len(recent) \in Nat /\ DOMAIN recent = 1..Len(recent)
    BY <1>1, LenProperties
<1>3. ASSUME NEW i \in DOMAIN recent
      PROVE  recent[i].status < 500 /\ recent[i].status \in Int /\ ~Promotable(recent[i])
    <2>1. recent[i] = log[Len(log) - Len(recent) + i]
        BY DEF IInv, RecentIsTail
    <2>2. Len(log) - Len(recent) + i \in DOMAIN log
        BY <1>2, LimitAssumption DEF IInv, RecentIsTail
    <2>3. QuietSample(recent[i]) /\ recent[i].status \in Int
        BY <2>1, <2>2 DEF Quiet, IInv, Types
    <2>. QED BY <2>3 DEF QuietSample, Promotable
<1>4. ~\E i \in DOMAIN recent : recent[i].status >= 500
    BY <1>3
<1>5. ~\E i \in DOMAIN recent : Promotable(recent[i])
    BY <1>3
<1>. QED BY <1>4, <1>5 DEF RequestIssues

LEMMA IdleFields ==
    /\ DOMAIN Idle = {"call", "start", "mark", "stages", "issues", "seen", "status",
                      "duration"}
    /\ Idle.status = 0
BY DEF Idle

LEMMA BeginIInv == ASSUME IInv, NEW c \in Callers, NEW call, Begin(c, call) PROVE IInv'
<1> DEFINE x == [Idle EXCEPT !.call = call, !.start = now, !.mark = now]
           to == IF Diagnoses(call) THEN "stages" ELSE "handler"
<1>1. /\ pc' = [pc EXCEPT ![c] = to] /\ act' = [act EXCEPT ![c] = x]
      /\ UNCHANGED stats
    BY DEF Begin, Goto
<1>2. DOMAIN x = DOMAIN Idle /\ x.status \in Int /\ x.call = call
    BY DEF Idle
<1>3. to = "handler" => ~Diagnoses(call)
    OBVIOUS
<1>4. to # "handled"
    OBVIOUS
<1> HIDE DEF x, to
<1>. QED BY <1>1, <1>2, <1>3, <1>4, CallerStep

LEMMA HandleIInv ==
    ASSUME IInv, NEW c \in Callers, NEW reply \in Replies, Handle(c, reply) PROVE IInv'
<1> DEFINE x == [act[c] EXCEPT !.status = StatusOf(reply)]
<1>1. /\ pc[c] = "handler" /\ pc' = [pc EXCEPT ![c] = "handled"]
      /\ act' = [act EXCEPT ![c] = x] /\ UNCHANGED stats
    BY DEF Handle, Goto
<1>2. StatusOf(reply) \in Int
    BY RepliesAssumption DEF StatusOf
<1>3. DOMAIN act[c] = DOMAIN Idle /\ ~Diagnoses(act[c].call)
    BY <1>1 DEF IInv, Types
<1>4. DOMAIN x = DOMAIN Idle /\ x.status = StatusOf(reply) /\ x.call = act[c].call
    BY <1>3, IdleFields
<1> HIDE DEF x
<1>. QED BY <1>1, <1>2, <1>3, <1>4, CallerStep

LEMMA StageIInv == ASSUME IInv, NEW c \in Callers, Stage(c) PROVE IInv'
<1> DEFINE x == [act[c] EXCEPT !.stages = Append(@, now - act[c].mark), !.mark = now]
           to == IF Len(act[c].stages) + 1 = Len(Stages) THEN "snapshot" ELSE "stages"
<1>1. /\ pc' = [pc EXCEPT ![c] = to] /\ act' = [act EXCEPT ![c] = x]
      /\ UNCHANGED stats
    BY DEF Stage, Goto
<1>2. DOMAIN act[c] = DOMAIN Idle /\ act[c].status \in Int
    BY DEF IInv, Types
<1>3. DOMAIN x = DOMAIN Idle /\ x.status = act[c].status
    BY <1>2, IdleFields
<1>4. to # "handled" /\ to # "handler"
    OBVIOUS
<1> HIDE DEF x, to
<1>. QED BY <1>1, <1>2, <1>3, <1>4, CallerStep

LEMMA SnapshotIInv == ASSUME IInv, NEW c \in Callers, Snapshot(c) PROVE IInv'
<1> DEFINE issues == RequestIssues(recent)
                     \cup TimingIssues(act[c].stages, act[c].mark - act[c].start)
           x == [act[c] EXCEPT !.issues = issues, !.seen = Len(log), !.status = 200]
<1>1. /\ pc' = [pc EXCEPT ![c] = "handled"] /\ act' = [act EXCEPT ![c] = x]
      /\ UNCHANGED stats
    BY DEF Snapshot, Goto
<1>2. DOMAIN act[c] = DOMAIN Idle
    BY DEF IInv, Types
<1>3. Quiet => issues \subseteq {"diagnostics-slow"}
    <2>1. TimingIssues(act[c].stages, act[c].mark - act[c].start)
              \subseteq {"diagnostics-slow"}
        BY Zenon DEF TimingIssues
    <2>. QED BY <2>1, QuietRecent
<1> HIDE DEF issues
<1>4. DOMAIN x = DOMAIN Idle /\ x.status \in Int /\ x.issues = issues
    BY <1>2, IdleFields
<1> HIDE DEF x
<1>5. Quiet => x.issues \cap {"api-5xx", "api-slow"} = {}
    BY <1>3, <1>4
<1>. QED BY <1>1, <1>4, <1>5, CallerStep

LEMMA MeasureIInv == ASSUME IInv, NEW c \in Callers, Measure(c) PROVE IInv'
<1> DEFINE taken == [Idle EXCEPT !.call = act[c].call, !.status = act[c].status,
                                 !.duration = now - act[c].start]
           x == IF Watched(act[c].call) THEN taken ELSE Idle
           to == IF Watched(act[c].call) THEN "record" ELSE "idle"
<1>1. /\ pc' = [pc EXCEPT ![c] = to] /\ act' = [act EXCEPT ![c] = x]
      /\ UNCHANGED stats
    BY DEF Measure, Goto
<1>2. act[c].status \in Int
    BY DEF IInv, Types
<1>3. DOMAIN taken = DOMAIN Idle /\ taken.status = act[c].status
    BY IdleFields
<1> HIDE DEF taken
<1>4. DOMAIN x = DOMAIN Idle /\ x.status \in Int /\ to # "handled" /\ to # "handler"
    BY <1>2, <1>3, IdleFields
<1> HIDE DEF x, to
<1>. QED BY <1>1, <1>4, CallerStep

\* Only here the log and the recent samples change, by the same sample.
LEMMA RecordIInv == ASSUME IInv, NEW c \in Callers, Record(c) PROVE IInv'
<1> DEFINE s == Sample(c)
<1>1. /\ pc' = [pc EXCEPT ![c] = "idle"] /\ act' = [act EXCEPT ![c] = Idle]
      /\ log' = Append(log, s) /\ recent' = Pushed(recent, s)
    BY DEF Record, Goto
<1>2. s.status \in Int
    BY DEF IInv, Types, Sample
<1> HIDE DEF s
<1>3. PICK S : log \in Seq(S) /\ recent \in Seq(S)
    BY DEF IInv, Types
<1> DEFINE T == S \cup {s}
<1>4. log \in Seq(T) /\ recent \in Seq(T) /\ s \in T
    BY <1>3, SeqMonotonic
<1> HIDE DEF T
<1>5. /\ log' \in Seq(T) /\ Len(log) \in Nat
      /\ DOMAIN log = 1..Len(log) /\ DOMAIN log' = 1..(Len(log) + 1)
      /\ \A i \in 1..Len(log) : log'[i] = log[i]
      /\ log'[Len(log) + 1] = s
    BY <1>1, <1>4, AppendProperties, LenProperties
<1>6. TailOf(recent, log)
    BY DEF IInv, RecentIsTail, TailOf
<1>7. recent' \in Seq(T) /\ TailOf(recent', log')
    BY <1>1, <1>4, <1>6, PushedIsTail
<1>8. RecentIsTail'
    BY <1>7 DEF RecentIsTail, TailOf
<1>9. \A d \in Callers : /\ pc'[d] = IF d = c THEN "idle" ELSE pc[d]
                         /\ act'[d] = IF d = c THEN Idle ELSE act[d]
    BY <1>1 DEF IInv, Types
<1>10. Types'
    <2>1. DOMAIN pc' = Callers /\ DOMAIN act' = Callers
        BY <1>1 DEF IInv, Types
    <2>2. \A d \in Callers :
              /\ DOMAIN act'[d] = DOMAIN Idle
              /\ act'[d].status \in Int
              /\ pc'[d] = "handler" => ~Diagnoses(act'[d].call)
        BY <1>9, IdleFields DEF IInv, Types
    <2>3. \A i \in DOMAIN log' : log'[i].status \in Int
        BY <1>2, <1>5 DEF IInv, Types
    <2>. QED BY <1>5, <1>7, <2>1, <2>2, <2>3 DEF Types
<1>11. QuietDigests'
    <2>1. Quiet' => Quiet
        BY <1>5 DEF Quiet
    <2>. QED BY <1>9, <2>1 DEF IInv, QuietDigests, Answered, ShowsNone
<1>. QED BY <1>8, <1>10, <1>11 DEF IInv

LEMMA NextIInv == IInv /\ [Next]_vars => IInv'
<1> SUFFICES ASSUME IInv, [Next]_vars PROVE IInv'
    OBVIOUS
<1>1. CASE Tick \/ RequestsStop \/ UNCHANGED vars
    <2>1. log' = log /\ recent' = recent /\ pc' = pc /\ act' = act
        BY <1>1 DEF Tick, RequestsStop, vars, stats
    <2>. QED BY <2>1 DEF IInv, Types, RecentIsTail, QuietDigests, Quiet, Answered,
                         ShowsNone
<1>2. ASSUME NEW c \in Callers,
             \/ \E call \in Calls : Begin(c, call)
             \/ \E reply \in Replies : Handle(c, reply)
             \/ Stage(c) \/ Snapshot(c) \/ Measure(c) \/ Record(c)
      PROVE  IInv'
    BY <1>2, BeginIInv, HandleIInv, StageIInv, SnapshotIInv, MeasureIInv, RecordIInv
<1>. QED BY <1>1, <1>2 DEF Next

LEMMA Invariance == Spec => []IInv
BY InitIInv, NextIInv, PTL DEF Spec

\* In whatever order the requests are recorded, the bounded list of recent
\* samples is the tail of all of them.
THEOREM RecentStaysTail == Spec => []RecentIsTail
<1>1. IInv => RecentIsTail
    BY DEF IInv
<1>. QED BY <1>1, Invariance, PTL

\* A page that polls the diagnostics raises no API issue about its own polls.
THEOREM PollsStayQuiet == Spec => []PollsDoNotComplain
<1>1. IInv => PollsDoNotComplain
    BY DEF IInv, QuietDigests, Quiet, QuietSample, ShowsNone, PollsDoNotComplain
<1>. QED BY <1>1, Invariance, PTL

-----------------------------------------------------------------------------
(* What a digest says of the requests and of itself. *)

\* What it says of the first n samples.
Told(issues, n) ==
    /\ "api-5xx" \in issues <=> \E s \in Latest(n) : StatusClass(s.status) = "server"
    /\ "api-slow" \in issues <=>
          \E s \in Latest(n) :
             /\ s.duration >= SlowThreshold
             /\ \/ s.method # "GET" \/ s.route # <<"diagnostics">>
                \/ StatusClass(s.status) = "server"

\* The times of a diagnostics request are numbers.
Timed(c) ==
    act[c].start \in Int /\ act[c].mark \in Int /\ act[c].stages \in Seq(Int)

Tells(c) ==
    LET a == act[c]
    IN  /\ a.seen \in 0..Len(log)
        /\ Told(a.issues, a.seen)
        /\ "diagnostics-slow" \in a.issues <=>
              "diagnostics-slow" \in TimingIssues(a.stages, a.mark - a.start)

Sound(c) ==
    /\ pc[c] \in {"stages", "snapshot"} \/ Answered(c) => Timed(c)
    /\ Answered(c) => Tells(c)

DigestInv == now \in Int /\ \A c \in Callers : Sound(c)

-----------------------------------------------------------------------------

LEMMA StagesType ==
    /\ Len(Stages) \in Nat \ {0} /\ DOMAIN Stages = 1..Len(Stages)
    /\ \A i \in DOMAIN Stages : Stages[i].warn \in Nat
<1> DEFINE T == [name : STRING, warn : Nat]
<1>1. Stages \in Seq(T) /\ Stages # <<>>
    BY BudgetsAssumption
<1>2. \A x \in T : x.warn \in Nat
    OBVIOUS
<1> HIDE DEF T
<1>3. Len(Stages) \in Nat \ {0} /\ DOMAIN Stages = 1..Len(Stages)
    BY <1>1, LenProperties, EmptySeq
<1>4. \A i \in DOMAIN Stages : Stages[i] \in T
    BY <1>1, <1>3, ElementOfSeq
<1>. QED BY <1>2, <1>3, <1>4

\* The budget of the whole: there are three numbers to choose from at most.
LEMMA BudgetOfAll ==
    LET budgets == {TotalWarn} \cup {Budget(Stages[i]) : i \in DOMAIN Stages}
    IN  /\ Max(budgets) \in Int /\ Max(budgets) >= TotalWarn
        /\ \A i \in DOMAIN Stages : Max(budgets) >= Budget(Stages[i])
        /\ \/ Max(budgets) = TotalWarn
           \/ \E i \in DOMAIN Stages : Max(budgets) = Budget(Stages[i])
<1> DEFINE own == {Budget(Stages[i]) : i \in DOMAIN Stages}
           budgets == {TotalWarn} \cup own
<1>1. TotalWarn \in Nat /\ StageWarn \in Nat
    BY BudgetsAssumption
<1>2. PICK w \in Nat : \A i \in DOMAIN Stages : Budget(Stages[i]) \in {StageWarn, w}
    <2>1. CASE \E i \in DOMAIN Stages : Stages[i].warn > 0
        <3>1. PICK j \in DOMAIN Stages : Stages[j].warn > 0
            BY <2>1
        <3>2. \A i \in DOMAIN Stages : Stages[i].warn > 0 => Stages[i].warn = Stages[j].warn
            BY <3>1, BudgetsAssumption
        <3>3. \A i \in DOMAIN Stages : Budget(Stages[i]) \in {StageWarn, Stages[j].warn}
            BY <3>2 DEF Budget
        <3>. QED BY <3>3, StagesType
    <2>2. CASE ~\E i \in DOMAIN Stages : Stages[i].warn > 0
        BY <1>1, <2>2 DEF Budget
    <2>. QED BY <2>1, <2>2
<1>3. own \subseteq {StageWarn, w} /\ TotalWarn \in budgets
    BY <1>2
<1> HIDE DEF own
<1>4. \E x \in budgets : \A y \in budgets : x >= y
    BY <1>1, <1>3
<1> HIDE DEF budgets
<1>5. Max(budgets) \in budgets /\ \A y \in budgets : Max(budgets) >= y
    BY <1>4 DEF Max
<1>6. budgets \subseteq Int
    BY <1>1, <1>3 DEF budgets
<1>7. \A i \in DOMAIN Stages : Budget(Stages[i]) \in budgets
    BY DEF budgets, own
<1>8. \A x \in budgets :
         x = TotalWarn \/ \E i \in DOMAIN Stages : x = Budget(Stages[i])
    BY DEF budgets, own
<1>. QED BY <1>3, <1>5, <1>6, <1>7, <1>8 DEF budgets, own

\* When a digest calls itself slow.
LEMMA Slowness ==
    ASSUME NEW durations \in Seq(Int), NEW took \in Int
    PROVE  LET slow == "diagnostics-slow" \in TimingIssues(durations, took)
               Limit(i) == IF Stages[i].warn = 0 THEN StageWarn ELSE Stages[i].warn
           IN  slow <=>
                  \/ \E i \in DOMAIN Stages : durations[i] >= Limit(i)
                  \/ took >= TotalWarn /\ \A i \in DOMAIN Stages : took >= Limit(i)
<1> DEFINE allowed == Max({TotalWarn} \cup {Budget(Stages[i]) : i \in DOMAIN Stages})
           slow == "diagnostics-slow" \in TimingIssues(durations, took)
           Limit(i) == IF Stages[i].warn = 0 THEN StageWarn ELSE Stages[i].warn
<1>1. slow <=> \/ took >= allowed
               \/ \E i \in DOMAIN Stages : durations[i] >= Budget(Stages[i])
    BY DEF TimingIssues
<1>2. /\ allowed \in Int /\ allowed >= TotalWarn
      /\ \A i \in DOMAIN Stages : allowed >= Budget(Stages[i])
      /\ allowed = TotalWarn \/ \E i \in DOMAIN Stages : allowed = Budget(Stages[i])
    BY BudgetOfAll
<1> HIDE DEF allowed, slow
<1>3. /\ TotalWarn \in Nat
      /\ \A i \in DOMAIN Stages : Limit(i) = Budget(Stages[i]) /\ Limit(i) \in Nat
    <2>1. TotalWarn \in Nat /\ StageWarn \in Nat
        BY BudgetsAssumption
    <2>. QED BY <2>1, StagesType DEF Budget
<1> HIDE DEF Limit
<1>4. took >= allowed <=> took >= TotalWarn /\ \A i \in DOMAIN Stages : took >= Limit(i)
    <2>1. ASSUME took >= allowed
          PROVE  took >= TotalWarn /\ \A i \in DOMAIN Stages : took >= Limit(i)
        <3>1. ASSUME NEW i \in DOMAIN Stages PROVE took >= Limit(i)
            BY <1>2, <1>3, <2>1
        <3>. QED BY <1>2, <1>3, <2>1, <3>1
    <2>2. ASSUME took >= TotalWarn, \A i \in DOMAIN Stages : took >= Limit(i)
          PROVE  took >= allowed
        BY <1>2, <1>3, <2>2
    <2>. QED BY <2>1, <2>2
<1>5. slow <=> \/ \E i \in DOMAIN Stages : durations[i] >= Limit(i)
               \/ took >= TotalWarn /\ \A i \in DOMAIN Stages : took >= Limit(i)
    BY <1>1, <1>3, <1>4
<1>. QED BY <1>5 DEF slow, Limit

-----------------------------------------------------------------------------

\* The samples that a snapshot sees are the last ones recorded.
LEMMA LatestIsRecent ==
    ASSUME IInv
    PROVE  Latest(Len(log)) = {recent[i] : i \in DOMAIN recent}
<1>1. PICK S : log \in Seq(S) /\ recent \in Seq(S)
    BY DEF IInv, Types
<1>2. /\ Len(log) \in Nat /\ DOMAIN log = 1..Len(log)
      /\ Len(recent) \in Nat /\ DOMAIN recent = 1..Len(recent)
    BY <1>1, LenProperties
<1>3. /\ Len(recent) = IF Len(log) < RecentLimit THEN Len(log) ELSE RecentLimit
      /\ \A i \in DOMAIN recent : recent[i] = log[Len(log) - Len(recent) + i]
    BY DEF IInv, RecentIsTail
<1>4. ASSUME NEW s \in Latest(Len(log)) PROVE \E i \in DOMAIN recent : s = recent[i]
    <2>1. PICK j \in DOMAIN log : j > Len(log) - RecentLimit /\ s = log[j]
        BY DEF Latest
    <2> DEFINE i == j - (Len(log) - Len(recent))
    <2>2. i \in DOMAIN recent /\ Len(log) - Len(recent) + i = j
        BY <1>2, <1>3, <2>1, LimitAssumption
    <2>. QED BY <1>3, <2>1, <2>2
<1>5. ASSUME NEW i \in DOMAIN recent PROVE recent[i] \in Latest(Len(log))
    <2> DEFINE j == Len(log) - Len(recent) + i
    <2>1. j \in DOMAIN log /\ j <= Len(log) /\ j > Len(log) - RecentLimit
        BY <1>2, <1>3, LimitAssumption
    <2>2. recent[i] = log[j]
        BY <1>3
    <2> HIDE DEF j
    <2>. QED BY <2>1, <2>2 DEF Latest
<1>. QED BY <1>4, <1>5

LEMMA ServerClass == \A n \in Int : StatusClass(n) = "server" <=> n >= 500
<1> TAKE n \in Int
<1>1. CASE n >= 500
    BY <1>1 DEF StatusClass
<1>2. CASE ~(n >= 500)
    <2>1. StatusClass(n) \in {"client", "redirect", "success", "other"}
        BY <1>2 DEF StatusClass
    <2>. QED BY <1>2, <2>1
<1>. QED BY <1>1, <1>2

LEMMA SnapshotTold ==
    ASSUME IInv, NEW timing, timing \subseteq {"diagnostics-slow"}
    PROVE  Told(RequestIssues(recent) \cup timing, Len(log))
<1>1. \A i \in DOMAIN recent : recent[i].status \in Int
    <2>1. PICK S : log \in Seq(S) /\ recent \in Seq(S)
        BY DEF IInv, Types
    <2>2. /\ Len(log) \in Nat /\ DOMAIN log = 1..Len(log)
          /\ Len(recent) \in Nat /\ DOMAIN recent = 1..Len(recent)
        BY <2>1, LenProperties
    <2> TAKE i \in DOMAIN recent
    <2>3. recent[i] = log[Len(log) - Len(recent) + i]
        BY DEF IInv, RecentIsTail
    <2>4. Len(log) - Len(recent) + i \in DOMAIN log
        BY <2>2, LimitAssumption DEF IInv, RecentIsTail
    <2>. QED BY <2>3, <2>4 DEF IInv, Types
<1>2. "api-5xx" \in RequestIssues(recent) <=> \E i \in DOMAIN recent : recent[i].status >= 500
    BY DEF RequestIssues
<1>3. "api-slow" \in RequestIssues(recent) <=>
         \E i \in DOMAIN recent : Promotable(recent[i])
    BY DEF RequestIssues
<1>4. "api-5xx" \in RequestIssues(recent) <=>
         \E s \in Latest(Len(log)) : StatusClass(s.status) = "server"
    BY <1>1, <1>2, LatestIsRecent, ServerClass
<1>5. "api-slow" \in RequestIssues(recent) <=>
         \E s \in Latest(Len(log)) :
            /\ s.duration >= SlowThreshold
            /\ \/ s.method # "GET" \/ s.route # <<"diagnostics">>
               \/ StatusClass(s.status) = "server"
    <2> DEFINE Slow(s) == /\ s.duration >= SlowThreshold
                          /\ \/ s.method # "GET" \/ s.route # <<"diagnostics">>
                             \/ StatusClass(s.status) = "server"
    <2>1. ASSUME NEW i \in DOMAIN recent PROVE Promotable(recent[i]) <=> Slow(recent[i])
        <3>1. StatusClass(recent[i].status) = "server" <=> ~(recent[i].status < 500)
            BY <1>1, ServerClass
        <3>. QED BY <3>1 DEF Promotable
    <2> HIDE DEF Slow
    <2>2. (\E i \in DOMAIN recent : Promotable(recent[i]))
             <=> \E s \in Latest(Len(log)) : Slow(s)
        BY <2>1, LatestIsRecent
    <2>. QED BY <1>3, <2>2 DEF Slow
<1>6. "api-5xx" \notin timing /\ "api-slow" \notin timing
    OBVIOUS
<1>. QED BY <1>4, <1>5, <1>6 DEF Told

\* What has been recorded stays as it is.
LEMMA LatestStays ==
    ASSUME NEW S, log \in Seq(S), NEW s \in S, log' = Append(log, s), NEW n \in 0..Len(log)
    PROVE  Latest(n)' = Latest(n) /\ n \in 0..Len(log)'
<1>1. /\ Len(log) \in Nat /\ Len(log') = Len(log) + 1
      /\ DOMAIN log = 1..Len(log) /\ DOMAIN log' = 1..(Len(log) + 1)
      /\ \A i \in 1..Len(log) : log'[i] = log[i]
    BY AppendProperties, LenProperties
<1>2. {j \in DOMAIN log' : j <= n /\ j > n - RecentLimit}
          = {j \in DOMAIN log : j <= n /\ j > n - RecentLimit}
    BY <1>1
<1> DEFINE J == {j \in DOMAIN log : j <= n /\ j > n - RecentLimit}
<1>3. Latest(n) = {log[i] : i \in J} /\ Latest(n)' = {log'[i] : i \in J}
    BY <1>2 DEF Latest
<1>4. \A i \in J : log'[i] = log[i]
    BY <1>1
<1> HIDE DEF J
<1>5. Latest(n)' = Latest(n)
    BY <1>3, <1>4
<1>. QED BY <1>1, <1>5

\* A caller that takes no part in a step.
LEMMA SoundStays ==
    ASSUME NEW c \in Callers, Sound(c), now \in Int, now' \in Int,
           pc'[c] = pc[c], act'[c] = act[c],
           \A n \in 0..Len(log) : Latest(n)' = Latest(n) /\ n \in 0..Len(log)'
    PROVE  Sound(c)'
<1>1. Answered(c)' <=> Answered(c)
    BY DEF Answered
<1>2. ASSUME Timed(c) PROVE Timed(c)'
    BY <1>2 DEF Timed
<1>3. ASSUME Tells(c) PROVE Tells(c)'
    <2>1. Told(act[c].issues, act[c].seen)'
        BY <1>3 DEF Tells, Told
    <2>. QED BY <1>3, <2>1 DEF Tells
<1>. QED BY <1>1, <1>2, <1>3 DEF Sound

\* A step of caller c that records nothing is judged by what becomes of c.
LEMMA OneCaller ==
    ASSUME IInv, DigestInv, NEW c \in Callers, NEW to, NEW x, UNCHANGED <<now, stats>>,
           pc' = [pc EXCEPT ![c] = to], act' = [act EXCEPT ![c] = x],
           pc'[c] = to /\ act'[c] = x => Sound(c)'
    PROVE  DigestInv'
<1>1. log' = log /\ now' = now /\ now \in Int
    BY DEF stats, DigestInv
<1>2. \A d \in Callers : /\ pc'[d] = IF d = c THEN to ELSE pc[d]
                         /\ act'[d] = IF d = c THEN x ELSE act[d]
    BY DEF IInv, Types
<1>3. \A n \in 0..Len(log) : Latest(n)' = Latest(n) /\ n \in 0..Len(log)'
    BY <1>1 DEF Latest
<1>4. ASSUME NEW d \in Callers PROVE Sound(d)'
    <2>1. CASE d = c
        BY <1>2, <2>1
    <2>2. CASE d # c
        BY <1>1, <1>2, <1>3, <2>2, SoundStays DEF DigestInv
    <2>. QED BY <2>1, <2>2
<1>. QED BY <1>1, <1>4 DEF DigestInv

LEMMA BeginSound ==
    ASSUME IInv, DigestInv, NEW c \in Callers, NEW call, Begin(c, call) PROVE DigestInv'
<1> DEFINE x == [Idle EXCEPT !.call = call, !.start = now, !.mark = now]
           to == IF Diagnoses(call) THEN "stages" ELSE "handler"
<1>1. /\ pc' = [pc EXCEPT ![c] = to] /\ act' = [act EXCEPT ![c] = x]
      /\ UNCHANGED <<now, stats>>
    BY DEF Begin, Goto
<1>2. x.start = now /\ x.mark = now /\ x.stages = <<>> /\ to \in {"stages", "handler"}
    BY DEF Idle
<1>3. <<>> \in Seq(Int) /\ Len(<<>>) = 0
    OBVIOUS
<1> HIDE DEF x, to
<1>4. ASSUME pc'[c] = to, act'[c] = x PROVE Sound(c)'
    <2>1. ~Answered(c)'
        BY <1>2, <1>4 DEF Answered
    <2>2. ASSUME to = "stages" PROVE Timed(c)'
        BY <1>2, <1>3, <1>4 DEF Timed, DigestInv
    <2>. QED BY <1>2, <1>4, <2>1, <2>2 DEF Sound
<1>. QED BY <1>1, <1>4, OneCaller

LEMMA HandleSound ==
    ASSUME IInv, DigestInv, NEW c \in Callers, NEW reply, Handle(c, reply) PROVE DigestInv'
<1> DEFINE x == [act[c] EXCEPT !.status = StatusOf(reply)]
<1>1. /\ pc[c] = "handler" /\ pc' = [pc EXCEPT ![c] = "handled"]
      /\ act' = [act EXCEPT ![c] = x] /\ UNCHANGED <<now, stats>>
    BY DEF Handle, Goto
<1>2. DOMAIN act[c] = DOMAIN Idle /\ ~Diagnoses(act[c].call)
    BY <1>1 DEF IInv, Types
<1>3. x.call = act[c].call
    BY <1>2, IdleFields
<1> HIDE DEF x
<1>4. ASSUME pc'[c] = "handled", act'[c] = x PROVE Sound(c)'
    <2>1. ~Answered(c)'
        BY <1>2, <1>3, <1>4 DEF Answered
    <2>. QED BY <1>4, <2>1 DEF Sound
<1>. QED BY <1>1, <1>4, OneCaller

LEMMA StageSound ==
    ASSUME IInv, DigestInv, NEW c \in Callers, Stage(c) PROVE DigestInv'
<1> DEFINE longer == Append(act[c].stages, now - act[c].mark)
           x == [act[c] EXCEPT !.stages = longer, !.mark = now]
           to == IF Len(act[c].stages) + 1 = Len(Stages) THEN "snapshot" ELSE "stages"
<1>1. /\ pc[c] = "stages" /\ pc' = [pc EXCEPT ![c] = to]
      /\ act' = [act EXCEPT ![c] = x] /\ UNCHANGED <<now, stats>>
    BY DEF Stage, Goto
<1>2. Timed(c) /\ now \in Int
    BY <1>1 DEF DigestInv, Sound
<1>3. longer \in Seq(Int)
    BY <1>2, AppendProperties DEF Timed
<1> HIDE DEF longer
<1>4. x.stages = longer /\ x.mark = now /\ x.start = act[c].start
    <2>1. DOMAIN act[c] = DOMAIN Idle
        BY DEF IInv, Types
    <2>. QED BY <2>1, IdleFields
<1>5. to \in {"stages", "snapshot"}
    OBVIOUS
<1> HIDE DEF x, to
<1>6. ASSUME pc'[c] = to, act'[c] = x PROVE Sound(c)'
    <2>1. ~Answered(c)'
        BY <1>5, <1>6 DEF Answered
    <2>2. Timed(c)'
        BY <1>2, <1>3, <1>4, <1>6 DEF Timed
    <2>. QED BY <2>1, <2>2 DEF Sound
<1>. QED BY <1>1, <1>6, OneCaller

LEMMA SnapshotSound ==
    ASSUME IInv, DigestInv, NEW c \in Callers, Snapshot(c) PROVE DigestInv'
<1> DEFINE timing == TimingIssues(act[c].stages, act[c].mark - act[c].start)
           issues == RequestIssues(recent) \cup timing
           x == [act[c] EXCEPT !.issues = issues, !.seen = Len(log), !.status = 200]
<1>1. /\ pc[c] = "snapshot" /\ pc' = [pc EXCEPT ![c] = "handled"]
      /\ act' = [act EXCEPT ![c] = x] /\ UNCHANGED <<now, stats>>
    BY DEF Snapshot, Goto
<1>2. Timed(c) /\ now' = now /\ log' = log
    BY <1>1 DEF DigestInv, Sound, stats
<1>3. DOMAIN act[c] = DOMAIN Idle
    BY DEF IInv, Types
<1>4. timing \subseteq {"diagnostics-slow"}
    BY Zenon DEF TimingIssues
<1>5. Told(issues, Len(log))
    BY <1>4, SnapshotTold
<1>6. "diagnostics-slow" \in issues <=> "diagnostics-slow" \in timing
    <2>1. "diagnostics-slow" \notin RequestIssues(recent)
        BY DEF RequestIssues
    <2>. QED BY <2>1
<1>7. Len(log) \in 0..Len(log)
    <2>1. PICK S : log \in Seq(S)
        BY DEF IInv, Types
    <2>2. Len(log) \in Nat
        BY <2>1, LenProperties
    <2>. QED BY <2>2
<1> HIDE DEF timing, issues
<1>8. /\ x.issues = issues /\ x.seen = Len(log) /\ x.stages = act[c].stages
      /\ x.mark = act[c].mark /\ x.start = act[c].start
    BY <1>3, IdleFields
<1> HIDE DEF x
<1>9. ASSUME pc'[c] = "handled", act'[c] = x PROVE Sound(c)'
    <2>1. Timed(c)'
        BY <1>1, <1>2, <1>8, <1>9 DEF Timed
    <2>3. Tells(c)'
        <3>1. Told(act[c].issues, act[c].seen)'
            BY <1>2, <1>5, <1>8, <1>9 DEF Told, Latest
        <3>2. (act'[c].seen \in 0..Len(log'))
            BY <1>2, <1>7, <1>8, <1>9
        <3>3. "diagnostics-slow" \in act'[c].issues <=>
                 "diagnostics-slow" \in TimingIssues(act'[c].stages, act'[c].mark - act'[c].start)
            BY <1>6, <1>8, <1>9 DEF timing
        <3>. QED BY <3>1, <3>2, <3>3 DEF Tells
    <2>. QED BY <2>1, <2>3 DEF Sound
<1>. QED BY <1>1, <1>9, OneCaller

LEMMA MeasureSound ==
    ASSUME IInv, DigestInv, NEW c \in Callers, Measure(c) PROVE DigestInv'
<1> DEFINE x == IF Watched(act[c].call)
                THEN [Idle EXCEPT !.call = act[c].call, !.status = act[c].status,
                                  !.duration = now - act[c].start]
                ELSE Idle
           to == IF Watched(act[c].call) THEN "record" ELSE "idle"
<1>1. /\ pc' = [pc EXCEPT ![c] = to] /\ act' = [act EXCEPT ![c] = x]
      /\ UNCHANGED <<now, stats>>
    BY DEF Measure, Goto
<1>2. to \in {"record", "idle"}
    OBVIOUS
<1> HIDE DEF x, to
<1>3. ASSUME pc'[c] = to, act'[c] = x PROVE Sound(c)'
    BY <1>2, <1>3 DEF Sound, Answered
<1>. QED BY <1>1, <1>3, OneCaller

LEMMA RecordSound ==
    ASSUME IInv, DigestInv, NEW c \in Callers, Record(c) PROVE DigestInv'
<1> DEFINE s == Sample(c)
<1>1. /\ pc' = [pc EXCEPT ![c] = "idle"] /\ act' = [act EXCEPT ![c] = Idle]
      /\ log' = Append(log, s) /\ now' = now
    BY DEF Record, Goto
<1> HIDE DEF s
<1>2. PICK S : log \in Seq(S)
    BY DEF IInv, Types
<1> DEFINE T == S \cup {s}
<1>3. log \in Seq(T) /\ s \in T
    BY <1>2, SeqMonotonic
<1> HIDE DEF T
<1>4. \A n \in 0..Len(log) : Latest(n)' = Latest(n) /\ n \in 0..Len(log)'
    BY <1>1, <1>3, LatestStays
<1>5. now \in Int /\ now' \in Int
    BY <1>1 DEF DigestInv
<1>6. \A d \in Callers : /\ pc'[d] = IF d = c THEN "idle" ELSE pc[d]
                         /\ act'[d] = IF d = c THEN Idle ELSE act[d]
    BY <1>1 DEF IInv, Types
<1>7. ASSUME NEW d \in Callers PROVE Sound(d)'
    <2>1. CASE d = c
        BY <1>6, <2>1 DEF Sound, Answered
    <2>2. CASE d # c
        BY <1>1, <1>4, <1>5, <1>6, <2>2, SoundStays DEF DigestInv
    <2>. QED BY <2>1, <2>2
<1>. QED BY <1>1, <1>5, <1>7 DEF DigestInv

LEMMA NextSound == IInv /\ DigestInv /\ [Next]_vars => DigestInv'
<1> SUFFICES ASSUME IInv, DigestInv, [Next]_vars PROVE DigestInv'
    OBVIOUS
<1>1. CASE Tick \/ RequestsStop \/ UNCHANGED vars
    <2>1. /\ log' = log /\ pc' = pc /\ act' = act /\ now \in Int
          /\ now' = now \/ now' = now + 1
        BY <1>1 DEF Tick, RequestsStop, vars, stats, DigestInv
    <2>2. now' \in Int
        BY <2>1
    <2>3. \A n \in 0..Len(log) : Latest(n)' = Latest(n) /\ n \in 0..Len(log)'
        BY <2>1 DEF Latest
    <2>4. \A d \in Callers : Sound(d)'
        BY <2>1, <2>2, <2>3, SoundStays DEF DigestInv
    <2>. QED BY <2>2, <2>4 DEF DigestInv
<1>2. ASSUME NEW c \in Callers,
             \/ \E call \in Calls : Begin(c, call)
             \/ \E reply \in Replies : Handle(c, reply)
             \/ Stage(c) \/ Snapshot(c) \/ Measure(c) \/ Record(c)
      PROVE  DigestInv'
    BY <1>2, BeginSound, HandleSound, StageSound, SnapshotSound, MeasureSound, RecordSound
<1>. QED BY <1>1, <1>2 DEF Next

\* What a digest says of the requests is what was recorded before its snapshot,
\* and it calls itself slow when the budgets, taken together, say so.
THEOREM DigestsTell == Spec => []DigestTells
<1>1. Init => DigestInv
    BY DEF Init, DigestInv, Sound, Answered
<1>2. IInv /\ DigestInv /\ [Next]_vars => DigestInv'
    BY NextSound
<1>3. DigestInv => DigestTells
    <2> SUFFICES ASSUME DigestInv, NEW c \in Callers, Answered(c)
                 PROVE  LET a == act[c]
                            took == a.mark - a.start
                            Limit(i) == IF Stages[i].warn = 0 THEN StageWarn
                                        ELSE Stages[i].warn
                        IN  /\ Told(a.issues, a.seen)
                            /\ "diagnostics-slow" \in a.issues <=>
                                  \/ \E i \in DOMAIN Stages : a.stages[i] >= Limit(i)
                                  \/ /\ took >= TotalWarn
                                     /\ \A i \in DOMAIN Stages : took >= Limit(i)
        BY DEF DigestTells, Told
    <2>1. Timed(c) /\ Tells(c) /\ pc[c] = "handled"
        BY DEF DigestInv, Sound, Answered
    <2> DEFINE a == act[c]
               took == a.mark - a.start
    <2>2. a.stages \in Seq(Int) /\ took \in Int
        BY <2>1 DEF Timed
    <2>3. /\ Told(a.issues, a.seen)
          /\ "diagnostics-slow" \in a.issues <=>
                "diagnostics-slow" \in TimingIssues(a.stages, took)
        BY <2>1 DEF Tells
    <2> HIDE DEF took
    <2>. QED BY <2>2, <2>3, Slowness DEF took
<1>. QED BY <1>1, <1>2, <1>3, Invariance, PTL DEF Spec

-----------------------------------------------------------------------------
\* Any set of naturals that is not empty has a least member.
LEMMA LeastNatural ==
    ASSUME NEW T, T \subseteq Nat, T # {}
    PROVE  \E x \in T : \A y \in T : x <= y
<1>1. \E x \in T : \A y \in T : ~(y < x)
    <2>1. PICK x \in T : \A y \in T : <<y, x>> \notin OpToRel(<, Nat)
        BY WFMin, NatLessThanWellFounded
    <2>2. \A y \in T : ~(y < x)
        BY <2>1 DEF OpToRel
    <2>. QED BY <2>2
<1>. QED BY <1>1

\* Among subsets of a finite set there is a minimal one: what fails for some
\* subset fails for one that it does not fail for any proper subset of.
LEMMA MinimalSet ==
    ASSUME NEW D, IsFiniteSet(D), NEW B, B \subseteq SUBSET D, B # {}
    PROVE  \E T \in B : \A x \in T : T \ {x} \notin B
<1> DEFINE sizes == {Cardinality(T) : T \in B}
<1>1. \A T \in B : IsFiniteSet(T) /\ Cardinality(T) \in Nat
    BY FS_Subset, FS_CardinalityType
<1>2. sizes \subseteq Nat /\ sizes # {}
    BY <1>1
<1>3. PICK k \in sizes : \A j \in sizes : k <= j
    <2> HIDE DEF sizes
    <2>. QED BY <1>2, LeastNatural
<1>4. PICK T \in B : k = Cardinality(T)
    OBVIOUS
<1>5. ASSUME NEW x \in T, T \ {x} \in B PROVE FALSE
    <2>1. Cardinality(T \ {x}) = Cardinality(T) - 1
        BY <1>1, <1>4, FS_RemoveElement
    <2>2. k <= Cardinality(T \ {x})
        BY <1>3, <1>5
    <2>3. Cardinality(T) \in Nat
        BY <1>1
    <2>. QED BY <1>4, <2>1, <2>2, <2>3
<1>. QED BY <1>5

-----------------------------------------------------------------------------
(* Sums over functions.  SumFunction is defined by recursion over the      *)
(* subsets of the domain; Fold says that g is that recursion for f.        *)

Pick(s) == CHOOSE x \in s : TRUE

Fold(f, g) ==
    g = [s \in SUBSET (DOMAIN f) |->
            IF s = {} THEN 0 ELSE f[Pick(s)] + g[s \ {Pick(s)}]]

Numbers(f) == IsFiniteSet(DOMAIN f) /\ \A x \in DOMAIN f : f[x] \in Int

LEMMA Picked == \A s : s # {} => Pick(s) \in s
BY DEF Pick

LEMMA FoldStep ==
    ASSUME NEW f, NEW g, Fold(f, g), NEW s \in SUBSET (DOMAIN f)
    PROVE  /\ s = {} => g[s] = 0
           /\ s # {} => g[s] = f[Pick(s)] + g[s \ {Pick(s)}]
BY DEF Fold

\* The recursion is well defined: up to n elements there is such a function,
\* for every n.
LEMMA FoldExists == ASSUME NEW f, Numbers(f) PROVE \E g : Fold(f, g)
<1> DEFINE D == DOMAIN f
           Small(n) == {s \in SUBSET D : Cardinality(s) <= n}
           Upto(n, g) == g = [s \in Small(n) |->
                                 IF s = {} THEN 0 ELSE f[Pick(s)] + g[s \ {Pick(s)}]]
           missing == {n \in Nat : ~\E g : Upto(n, g)}
<1>1. \A s \in SUBSET D : IsFiniteSet(s) /\ Cardinality(s) \in Nat
    BY FS_Subset, FS_CardinalityType DEF Numbers
<1>2. \A s \in SUBSET D : s # {} => /\ s \ {Pick(s)} \in SUBSET D
                                    /\ Cardinality(s \ {Pick(s)}) = Cardinality(s) - 1
    BY <1>1, Picked, FS_RemoveElement
<1>3. ASSUME missing # {} PROVE FALSE
    <2>1. missing \subseteq Nat
        OBVIOUS
    <2>2. PICK n \in missing : \A m \in missing : n <= m
        <3> HIDE DEF missing
        <3>. QED BY <1>3, <2>1, LeastNatural
    <2>3. n \in Nat /\ ~\E g : Upto(n, g)
        BY <2>2
    <2>4. CASE n = 0
        <3> DEFINE g == [s \in Small(0) |-> 0]
        <3>1. \A s \in Small(0) : s = {}
            <4> TAKE s \in Small(0)
            <4>1. IsFiniteSet(s) /\ Cardinality(s) = 0
                BY <1>1
            <4>. QED BY <4>1, FS_EmptySet
        <3>2. Upto(0, g)
            BY <3>1
        <3>. QED BY <2>3, <2>4, <3>2
    <2>5. CASE n # 0
        <3>1. n - 1 \in Nat /\ ~(n <= n - 1)
            BY <2>3, <2>5
        <3>2. n - 1 \notin missing
            <4> HIDE DEF missing
            <4>. QED BY <2>2, <3>1
        <3>3. PICK g : Upto(n - 1, g)
            BY <3>1, <3>2
        <3> DEFINE h == [s \in Small(n) |->
                            IF s = {} THEN 0 ELSE f[Pick(s)] + g[s \ {Pick(s)}]]
        <3>4. ASSUME NEW s \in Small(n), s # {}
              PROVE  h[s \ {Pick(s)}] = g[s \ {Pick(s)}]
            <4> DEFINE t == s \ {Pick(s)}
            <4>1. t \in SUBSET D /\ Cardinality(t) = Cardinality(s) - 1
                BY <1>2, <3>4
            <4>2. Cardinality(s) \in Nat /\ Cardinality(s) <= n
                BY <1>1
            <4>3. t \in Small(n - 1) /\ t \in Small(n)
                BY <2>3, <4>1, <4>2
            <4> HIDE DEF t
            <4>4. g[t] = IF t = {} THEN 0 ELSE f[Pick(t)] + g[t \ {Pick(t)}]
                BY <3>3, <4>3
            <4>5. h[t] = IF t = {} THEN 0 ELSE f[Pick(t)] + g[t \ {Pick(t)}]
                BY <4>3
            <4>. QED BY <4>4, <4>5 DEF t
        <3>5. Upto(n, h)
            BY <3>4
        <3>. QED BY <2>3, <3>5
    <2>. QED BY <2>4, <2>5
<1>4. Cardinality(D) \in Nat /\ Small(Cardinality(D)) = SUBSET D
    <2>1. IsFiniteSet(D) /\ Cardinality(D) \in Nat
        BY <1>1
    <2>2. \A s \in SUBSET D : Cardinality(s) <= Cardinality(D)
        BY <2>1, FS_Subset
    <2>. QED BY <2>1, <2>2
<1>5. PICK g : Upto(Cardinality(D), g)
    BY <1>3, <1>4
<1>6. Fold(f, g)
    BY <1>4, <1>5 DEF Fold
<1>. QED BY <1>6

LEMMA FoldType ==
    ASSUME NEW f, Numbers(f), NEW g, Fold(f, g)
    PROVE  \A T \in SUBSET (DOMAIN f) : g[T] \in Int
<1> DEFINE B == {T \in SUBSET (DOMAIN f) : g[T] \notin Int}
<1>1. ASSUME B # {} PROVE FALSE
    <2>1. PICK T \in B : \A x \in T : T \ {x} \notin B
        <3>1. B \subseteq SUBSET (DOMAIN f)
            OBVIOUS
        <3> HIDE DEF B
        <3>. QED BY <1>1, <3>1, MinimalSet DEF Numbers
    <2>2. CASE T = {}
        <3>1. g[T] = 0
            BY <2>2, FoldStep
        <3>. QED BY <3>1
    <2>3. CASE T # {}
        <3>1. Pick(T) \in T
            BY <2>3, Picked
        <3>2. g[T \ {Pick(T)}] \in Int /\ f[Pick(T)] \in Int
            BY <2>1, <3>1 DEF Numbers
        <3>3. g[T] = f[Pick(T)] + g[T \ {Pick(T)}]
            BY <2>3, FoldStep
        <3>. QED BY <3>2, <3>3
    <2>. QED BY <2>2, <2>3
<1>. QED BY <1>1

\* The order in which the elements are taken does not matter.
LEMMA FoldSplit ==
    ASSUME NEW f, Numbers(f), NEW g, Fold(f, g)
    PROVE  \A T \in SUBSET (DOMAIN f) : \A x \in T : g[T] = f[x] + g[T \ {x}]
<1> DEFINE B == {T \in SUBSET (DOMAIN f) : ~\A x \in T : g[T] = f[x] + g[T \ {x}]}
<1>1. ASSUME B # {} PROVE FALSE
    <2>1. PICK T \in B : \A x \in T : T \ {x} \notin B
        <3>1. B \subseteq SUBSET (DOMAIN f)
            OBVIOUS
        <3> HIDE DEF B
        <3>. QED BY <1>1, <3>1, MinimalSet DEF Numbers
    <2>2. PICK x \in T : g[T] # f[x] + g[T \ {x}]
        OBVIOUS
    <2> DEFINE y == Pick(T)
    <2>3. y \in T /\ g[T] = f[y] + g[T \ {y}]
        BY <2>2, Picked, FoldStep
    <2> HIDE DEF y
    <2>4. x # y
        BY <2>2, <2>3
    <2>5. T \ {y} \notin B /\ x \in T \ {y} /\ T \ {y} \in SUBSET (DOMAIN f)
        BY <2>1, <2>2, <2>3, <2>4
    <2>6. g[T \ {y}] = f[x] + g[(T \ {y}) \ {x}]
        BY <2>5
    <2>7. T \ {x} \notin B /\ y \in T \ {x} /\ T \ {x} \in SUBSET (DOMAIN f)
        BY <2>1, <2>2, <2>3, <2>4
    <2>8. g[T \ {x}] = f[y] + g[(T \ {x}) \ {y}]
        BY <2>7
    <2>9. (T \ {y}) \ {x} = (T \ {x}) \ {y}
        OBVIOUS
    <2>10. f[x] \in Int /\ f[y] \in Int /\ g[(T \ {x}) \ {y}] \in Int
        <3>1. (T \ {x}) \ {y} \in SUBSET (DOMAIN f)
            OBVIOUS
        <3>. QED BY <2>2, <2>3, <3>1, FoldType DEF Numbers
    <2>11. g[T] = f[y] + (f[x] + g[(T \ {x}) \ {y}])
        BY <2>3, <2>6, <2>9
    <2>12. f[x] + g[T \ {x}] = f[x] + (f[y] + g[(T \ {x}) \ {y}])
        BY <2>8
    <2>13. \A a, b, c \in Int : b + (a + c) = a + (b + c)
        OBVIOUS
    <2> HIDE DEF B
    <2>. QED BY <2>2, <2>10, <2>11, <2>12, <2>13
<1>. QED BY <1>1

\* Only the values on the elements matter.
LEMMA FoldLocal ==
    ASSUME NEW f, Numbers(f), NEW g, Fold(f, g),
           NEW h, Numbers(h), NEW k, Fold(h, k),
           NEW D \in SUBSET (DOMAIN f), D \subseteq DOMAIN h, \A x \in D : f[x] = h[x]
    PROVE  g[D] = k[D]
<1> DEFINE B == {T \in SUBSET D : g[T] # k[T]}
<1>1. ASSUME B # {} PROVE FALSE
    <2>1. PICK T \in B : \A x \in T : T \ {x} \notin B
        <3>1. B \subseteq SUBSET D /\ IsFiniteSet(D)
            BY FS_Subset DEF Numbers
        <3> HIDE DEF B
        <3>. QED BY <1>1, <3>1, MinimalSet
    <2>2. T \in SUBSET (DOMAIN f) /\ T \in SUBSET (DOMAIN h) /\ g[T] # k[T]
        OBVIOUS
    <2>3. CASE T # {}
        <3>1. Pick(T) \in T /\ Pick(T) \in D
            BY <2>3, Picked
        <3>2. g[T \ {Pick(T)}] = k[T \ {Pick(T)}] /\ f[Pick(T)] = h[Pick(T)]
            BY <2>1, <3>1
        <3>3. g[T] = f[Pick(T)] + g[T \ {Pick(T)}]
            BY <2>2, <2>3, FoldStep
        <3>4. k[T] = h[Pick(T)] + k[T \ {Pick(T)}]
            BY <2>2, <2>3, FoldStep
        <3>. QED BY <2>2, <3>2, <3>3, <3>4
    <2>4. CASE T = {}
        <3>1. g[T] = 0 /\ k[T] = 0
            BY <2>2, <2>4, FoldStep
        <3>. QED BY <2>2, <3>1
    <2>. QED BY <2>3, <2>4
<1>. QED BY <1>1

LEMMA SumIsFold ==
    ASSUME NEW f, Numbers(f)
    PROVE  \E g : Fold(f, g) /\ SumFunction(f) = g[DOMAIN f]
<1> DEFINE it == CHOOSE g : Fold(f, g)
<1>1. Fold(f, it)
    BY FoldExists
<1>2. SumFunction(f) = it[DOMAIN f]
    BY DEF SumFunction, SumFunctionOnSet, FoldFunctionOnSet, MapThenFoldSet, Fold, Pick
<1>. QED BY <1>1, <1>2

LEMMA SumOfNothing == ASSUME NEW f, DOMAIN f = {} PROVE SumFunction(f) = 0
<1>1. Numbers(f)
    BY FS_EmptySet DEF Numbers
<1>2. PICK g : Fold(f, g) /\ SumFunction(f) = g[DOMAIN f]
    BY <1>1, SumIsFold
<1>. QED BY <1>2, FoldStep

LEMMA SumOfZeros ==
    ASSUME NEW f, Numbers(f), \A x \in DOMAIN f : f[x] = 0
    PROVE  SumFunction(f) = 0
<1>1. PICK g : Fold(f, g) /\ SumFunction(f) = g[DOMAIN f]
    BY SumIsFold
<1> DEFINE D == DOMAIN f
           h == [s \in SUBSET D |-> 0]
<1>2. Fold(f, h)
    <2>1. \A s \in SUBSET D : s # {} => Pick(s) \in D /\ s \ {Pick(s)} \in SUBSET D
        BY Picked
    <2>2. \A s \in SUBSET D : s # {} => f[Pick(s)] + h[s \ {Pick(s)}] = 0
        BY <2>1
    <2>. QED BY <2>2 DEF Fold
<1>3. g[D] = h[D]
    BY <1>1, <1>2, FoldLocal
<1>. QED BY <1>1, <1>3

\* The sum after one value is added or changed.
LEMMA SumAfter ==
    ASSUME NEW f, Numbers(f), NEW h, NEW x, h[x] \in Int, DOMAIN h = DOMAIN f \cup {x},
           \A y \in DOMAIN f \ {x} : h[y] = f[y]
    PROVE  /\ Numbers(h) /\ SumFunction(f) \in Int
           /\ SumFunction(h) = SumFunction(f) + h[x] - (IF x \in DOMAIN f THEN f[x] ELSE 0)
<1>1. Numbers(h)
    BY FS_AddElement DEF Numbers
<1>2. PICK g : Fold(f, g) /\ SumFunction(f) = g[DOMAIN f]
    BY SumIsFold
<1>3. PICK k : Fold(h, k) /\ SumFunction(h) = k[DOMAIN h]
    BY <1>1, SumIsFold
<1> DEFINE R == DOMAIN f \ {x}
<1>4. R \in SUBSET (DOMAIN f) /\ R \subseteq DOMAIN h /\ \A y \in R : f[y] = h[y]
    OBVIOUS
<1>5. g[R] = k[R]
    <2> HIDE DEF R
    <2>. QED BY <1>1, <1>2, <1>3, <1>4, FoldLocal
<1>6. k[DOMAIN h] = h[x] + k[R]
    <2>1. DOMAIN h \in SUBSET (DOMAIN h) /\ x \in DOMAIN h /\ DOMAIN h \ {x} = R
        OBVIOUS
    <2>. QED BY <1>1, <1>3, <2>1, FoldSplit
<1>7. x \in DOMAIN f => g[DOMAIN f] = f[x] + g[R]
    BY <1>2, FoldSplit
<1>8. x \notin DOMAIN f => g[DOMAIN f] = g[R]
    <2>1. x \notin DOMAIN f => R = DOMAIN f
        OBVIOUS
    <2>. QED BY <2>1
<1>9. g[R] \in Int /\ g[DOMAIN f] \in Int
    BY <1>2, <1>4, FoldType
<1>10. x \in DOMAIN f => f[x] \in Int
    BY DEF Numbers
<1> HIDE DEF R
<1>. QED BY <1>1, <1>2, <1>3, <1>5, <1>6, <1>7, <1>8, <1>9, <1>10

\* The sum over one column of a table, when the row x grows by d, or is added
\* with d in this column.
LEMMA ColumnAfter ==
    ASSUME NEW f, Numbers(f), NEW h, NEW x, NEW d \in Int,
           DOMAIN h = DOMAIN f \cup {x}, \A y \in DOMAIN f \ {x} : h[y] = f[y],
           h[x] = (IF x \in DOMAIN f THEN f[x] ELSE 0) + d
    PROVE  /\ Numbers(h) /\ SumFunction(f) \in Int
           /\ SumFunction(h) = SumFunction(f) + d
<1>1. (IF x \in DOMAIN f THEN f[x] ELSE 0) \in Int
    BY DEF Numbers
<1>2. h[x] \in Int
    BY <1>1
<1>3. /\ Numbers(h) /\ SumFunction(f) \in Int
      /\ SumFunction(h) = SumFunction(f) + h[x] - (IF x \in DOMAIN f THEN f[x] ELSE 0)
    BY <1>2, SumAfter
<1>. QED BY <1>1, <1>3

-----------------------------------------------------------------------------
(* The counters. *)

Counters(c) ==
    /\ c.total \in Int /\ c.slow \in Int /\ c.duration \in Int /\ c.longest \in Int
    /\ DOMAIN c.classes = Classes /\ \A k \in Classes : c.classes[k] \in Int

\* How much one sample adds.
Slow(s) == IF s.duration >= SlowThreshold THEN 1 ELSE 0
InClass(s, k) == IF k = StatusClass(s.status) THEN 1 ELSE 0

Totals == [k \in DOMAIN routes |-> routes[k].total]
Slows == [k \in DOMAIN routes |-> routes[k].slow]
Durations == [k \in DOMAIN routes |-> routes[k].duration]
ClassOf(x) == [k \in DOMAIN routes |-> routes[k].classes[x]]

Agreement ==
    /\ all.total = Len(log)
    /\ all.total = SumFunction(Totals)
    /\ all.slow = SumFunction(Slows)
    /\ all.duration = SumFunction(Durations)
    /\ \A k \in Classes : all.classes[k] = SumFunction(ClassOf(k))
    /\ all.total = SumFunction(all.classes)
    /\ all.longest <= all.duration /\ all.slow <= all.total

\* A request under way began in the past, so a sample never takes less than no
\* time.
Clocked(c) ==
    /\ pc[c] \in {"handler", "stages", "snapshot", "handled"} =>
          act[c].start \in Int /\ act[c].start <= now
    /\ pc[c] = "record" => act[c].duration \in Nat

CountInv ==
    /\ now \in Int /\ \A c \in Callers : Clocked(c)
    /\ Counters(all) /\ all.duration >= 0
    /\ IsFiniteSet(DOMAIN routes) /\ \A k \in DOMAIN routes : Counters(routes[k])
    /\ Agreement

LEMMA AgreementIsAgreement == Agreement <=> CountersAgree
BY DEF Agreement, CountersAgree, Totals, Slows, Durations, ClassOf

LEMMA AClass == \A n \in Int : StatusClass(n) \in Classes
BY DEF StatusClass, Classes

LEMMA FiniteClasses == IsFiniteSet(Classes)
<1>1. IsFiniteSet({"success"})
    BY FS_Singleton
<1>2. IsFiniteSet({"success"} \cup {"redirect"})
    BY <1>1, FS_AddElement
<1>3. IsFiniteSet(({"success"} \cup {"redirect"}) \cup {"client"})
    BY <1>2, FS_AddElement
<1>4. IsFiniteSet((({"success"} \cup {"redirect"}) \cup {"client"}) \cup {"server"})
    BY <1>3, FS_AddElement
<1>5. IsFiniteSet(((({"success"} \cup {"redirect"}) \cup {"client"}) \cup {"server"})
                     \cup {"other"})
    BY <1>4, FS_AddElement
<1>6. Classes = ((({"success"} \cup {"redirect"}) \cup {"client"}) \cup {"server"})
                   \cup {"other"}
    BY DEF Classes
<1>. QED BY <1>5, <1>6

LEMMA NothingCounted ==
    /\ Counters(NoCounts) /\ NoCounts.total = 0 /\ NoCounts.slow = 0
    /\ NoCounts.duration = 0 /\ NoCounts.longest = 0
    /\ DOMAIN NoCounts.classes = Classes /\ \A k \in Classes : NoCounts.classes[k] = 0
BY DEF NoCounts, Counters

LEMMA OneMore ==
    ASSUME NEW c, Counters(c), NEW s, s.duration \in Int, s.status \in Int
    PROVE  /\ Counters(Counted(c, s))
           /\ Counted(c, s).total = c.total + 1
           /\ Counted(c, s).slow = c.slow + Slow(s)
           /\ Counted(c, s).duration = c.duration + s.duration
           /\ Counted(c, s).longest = IF s.duration > c.longest THEN s.duration ELSE c.longest
           /\ \A k \in Classes :
                 Counted(c, s).classes[k] = c.classes[k] + InClass(s, k)
<1> DEFINE r == Counted(c, s)
<1>1. /\ r.total = c.total + 1
      /\ r.slow = IF s.duration >= SlowThreshold THEN c.slow + 1 ELSE c.slow
      /\ r.duration = c.duration + s.duration
      /\ r.longest = IF s.duration > c.longest THEN s.duration ELSE c.longest
      /\ r.classes = [c.classes EXCEPT ![StatusClass(s.status)] = @ + 1]
    BY DEF Counted
<1> HIDE DEF r
<1>2. StatusClass(s.status) \in Classes
    BY AClass
<1>3. /\ DOMAIN r.classes = Classes
      /\ \A k \in Classes : r.classes[k] = c.classes[k] + InClass(s, k)
                            /\ r.classes[k] \in Int
    BY <1>1, <1>2 DEF Counters, InClass
<1>4. r.slow = c.slow + Slow(s) /\ r.slow \in Int
    BY <1>1 DEF Slow, Counters
<1>5. r.total \in Int /\ r.duration \in Int /\ r.longest \in Int
    BY <1>1 DEF Counters
<1>6. Counters(r)
    BY <1>3, <1>4, <1>5 DEF Counters
<1>. QED BY <1>1, <1>3, <1>4, <1>6 DEF r

\* The table of the routes after one more sample.
LEMMA TableAfter ==
    ASSUME NEW table, IsFiniteSet(DOMAIN table), \A k \in DOMAIN table : Counters(table[k]),
           NEW s, s.duration \in Int, s.status \in Int
    PROVE  LET t == CountedRoute(table, s)
               x == Key(s)
               old == IF x \in DOMAIN table THEN table[x] ELSE NoCounts
           IN  /\ DOMAIN t = DOMAIN table \cup {x} /\ IsFiniteSet(DOMAIN t)
               /\ t[x] = Counted(old, s) /\ Counters(old)
               /\ \A k \in DOMAIN table \ {x} : t[k] = table[k]
               /\ \A k \in DOMAIN t : Counters(t[k])
<1> DEFINE t == CountedRoute(table, s)
           x == Key(s)
           old == IF x \in DOMAIN table THEN table[x] ELSE NoCounts
<1>1. Counters(old)
    BY NothingCounted
<1>2. /\ DOMAIN t = DOMAIN table \cup {x}
      /\ t[x] = Counted(old, s)
      /\ \A k \in DOMAIN table \ {x} : t[k] = table[k]
    BY DEF CountedRoute
<1>3. IsFiniteSet(DOMAIN t)
    BY <1>2, FS_AddElement
<1> HIDE DEF t, x, old
<1>4. Counters(t[x])
    BY <1>1, <1>2, OneMore
<1>5. \A k \in DOMAIN t : Counters(t[k])
    BY <1>2, <1>4
<1>. QED BY <1>1, <1>2, <1>3, <1>5 DEF t, x, old

LEMMA RecordCounts ==
    ASSUME IInv, CountInv, NEW c \in Callers, Record(c) PROVE CountInv'
<1> DEFINE s == Sample(c)
           x == Key(s)
           old == IF x \in DOMAIN routes THEN routes[x] ELSE NoCounts
<1>1. /\ pc[c] = "record" /\ pc' = [pc EXCEPT ![c] = "idle"]
      /\ act' = [act EXCEPT ![c] = Idle] /\ now' = now
      /\ all' = Counted(all, s) /\ routes' = CountedRoute(routes, s)
      /\ log' = Append(log, s)
    BY DEF Record, Goto
<1>2. s.duration \in Nat /\ s.status \in Int
    BY <1>1 DEF Sample, CountInv, Clocked, IInv, Types
<1> HIDE DEF s
<1>3. s.duration \in Int /\ s.duration >= 0
    BY <1>2
<1>4. /\ Counters(all') /\ all'.total = all.total + 1 /\ all'.slow = all.slow + Slow(s)
      /\ all'.duration = all.duration + s.duration
      /\ all'.longest = IF s.duration > all.longest THEN s.duration ELSE all.longest
      /\ \A k \in Classes : all'.classes[k] = all.classes[k] + InClass(s, k)
    BY <1>1, <1>2, <1>3, OneMore DEF CountInv
<1>5. /\ DOMAIN routes' = DOMAIN routes \cup {x} /\ IsFiniteSet(DOMAIN routes')
      /\ routes'[x] = Counted(old, s) /\ Counters(old)
      /\ \A k \in DOMAIN routes \ {x} : routes'[k] = routes[k]
      /\ \A k \in DOMAIN routes' : Counters(routes'[k])
    BY <1>1, <1>2, <1>3, TableAfter DEF CountInv
<1>6. /\ routes'[x].total = old.total + 1
      /\ routes'[x].slow = old.slow + Slow(s)
      /\ routes'[x].duration = old.duration + s.duration
      /\ \A k \in Classes : routes'[x].classes[k] = old.classes[k] + InClass(s, k)
    BY <1>2, <1>3, <1>5, OneMore
<1>7. /\ old.total = (IF x \in DOMAIN routes THEN routes[x].total ELSE 0)
      /\ old.slow = (IF x \in DOMAIN routes THEN routes[x].slow ELSE 0)
      /\ old.duration = (IF x \in DOMAIN routes THEN routes[x].duration ELSE 0)
      /\ \A k \in Classes :
            old.classes[k] = (IF x \in DOMAIN routes THEN routes[x].classes[k] ELSE 0)
    BY NothingCounted
<1> HIDE DEF x, old
<1>8. Slow(s) \in Int /\ 0 <= Slow(s) /\ Slow(s) <= 1 /\ \A k : InClass(s, k) \in Int
    BY DEF Slow, InClass
<1>9. IsFiniteSet(DOMAIN routes) /\ \A k \in DOMAIN routes : Counters(routes[k])
    BY DEF CountInv
<1>10. SumFunction(Totals') = SumFunction(Totals) + 1
    <2> DEFINE f == Totals
               h == Totals'
    <2>1. /\ DOMAIN f = DOMAIN routes /\ DOMAIN h = DOMAIN routes'
          /\ \A k \in DOMAIN routes : f[k] = routes[k].total
          /\ \A k \in DOMAIN routes' : h[k] = routes'[k].total
        BY DEF Totals
    <2> HIDE DEF f, h
    <2>2. Numbers(f)
        BY <1>9, <2>1 DEF Numbers, Counters
    <2>3. /\ DOMAIN h = DOMAIN f \cup {x} /\ \A y \in DOMAIN f \ {x} : h[y] = f[y]
          /\ h[x] = (IF x \in DOMAIN f THEN f[x] ELSE 0) + 1
        BY <1>5, <1>6, <1>7, <2>1
    <2>. QED BY <2>2, <2>3, ColumnAfter DEF f, h
<1>11. SumFunction(Slows') = SumFunction(Slows) + Slow(s)
    <2> DEFINE f == Slows
               h == Slows'
    <2>1. /\ DOMAIN f = DOMAIN routes /\ DOMAIN h = DOMAIN routes'
          /\ \A k \in DOMAIN routes : f[k] = routes[k].slow
          /\ \A k \in DOMAIN routes' : h[k] = routes'[k].slow
        BY DEF Slows
    <2> HIDE DEF f, h
    <2>2. Numbers(f)
        BY <1>9, <2>1 DEF Numbers, Counters
    <2>3. /\ DOMAIN h = DOMAIN f \cup {x} /\ \A y \in DOMAIN f \ {x} : h[y] = f[y]
          /\ h[x] = (IF x \in DOMAIN f THEN f[x] ELSE 0) + Slow(s)
        BY <1>5, <1>6, <1>7, <2>1
    <2>. QED BY <1>8, <2>2, <2>3, ColumnAfter DEF f, h
<1>12. SumFunction(Durations') = SumFunction(Durations) + s.duration
    <2> DEFINE f == Durations
               h == Durations'
    <2>1. /\ DOMAIN f = DOMAIN routes /\ DOMAIN h = DOMAIN routes'
          /\ \A k \in DOMAIN routes : f[k] = routes[k].duration
          /\ \A k \in DOMAIN routes' : h[k] = routes'[k].duration
        BY DEF Durations
    <2> HIDE DEF f, h
    <2>2. Numbers(f)
        BY <1>9, <2>1 DEF Numbers, Counters
    <2>3. /\ DOMAIN h = DOMAIN f \cup {x} /\ \A y \in DOMAIN f \ {x} : h[y] = f[y]
          /\ h[x] = (IF x \in DOMAIN f THEN f[x] ELSE 0) + s.duration
        BY <1>5, <1>6, <1>7, <2>1
    <2>. QED BY <1>3, <2>2, <2>3, ColumnAfter DEF f, h
<1>13. ASSUME NEW k \in Classes
       PROVE  SumFunction(ClassOf(k)') = SumFunction(ClassOf(k)) + InClass(s, k)
    <2> DEFINE f == ClassOf(k)
               h == ClassOf(k)'
    <2>1. /\ DOMAIN f = DOMAIN routes /\ DOMAIN h = DOMAIN routes'
          /\ \A y \in DOMAIN routes : f[y] = routes[y].classes[k]
          /\ \A y \in DOMAIN routes' : h[y] = routes'[y].classes[k]
        BY DEF ClassOf
    <2> HIDE DEF f, h
    <2>2. Numbers(f)
        BY <1>9, <2>1 DEF Numbers, Counters
    <2>3. /\ DOMAIN h = DOMAIN f \cup {x} /\ \A y \in DOMAIN f \ {x} : h[y] = f[y]
          /\ h[x] = (IF x \in DOMAIN f THEN f[x] ELSE 0) + InClass(s, k)
        BY <1>5, <1>6, <1>7, <2>1
    <2>. QED BY <1>8, <2>2, <2>3, ColumnAfter DEF f, h
<1>14. SumFunction(all'.classes) = SumFunction(all.classes) + 1
    <2> DEFINE f == all.classes
               h == all'.classes
               k == StatusClass(s.status)
    <2>1. k \in Classes /\ DOMAIN f = Classes /\ DOMAIN h = Classes
        BY <1>2, <1>4, AClass DEF CountInv, Counters
    <2>2. Numbers(f)
        BY <2>1, FiniteClasses DEF Numbers, CountInv, Counters
    <2>3. /\ \A y \in Classes \ {k} : h[y] = f[y] + 0
          /\ h[k] = f[k] + 1
        BY <1>4, <2>1 DEF InClass
    <2>4. \A y \in Classes : f[y] \in Int
        BY <2>1, <2>2 DEF Numbers
    <2> HIDE DEF f, h, k
    <2>5. /\ DOMAIN h = DOMAIN f \cup {k} /\ \A y \in DOMAIN f \ {k} : h[y] = f[y]
          /\ h[k] = (IF k \in DOMAIN f THEN f[k] ELSE 0) + 1
        BY <2>1, <2>3, <2>4
    <2>6. 1 \in Int
        OBVIOUS
    <2>7. SumFunction(h) = SumFunction(f) + 1
        BY <2>2, <2>5, <2>6, ColumnAfter
    <2>. QED BY <2>7 DEF f, h
<1>15. Len(log') = Len(log) + 1
    <2>1. PICK S : log \in Seq(S)
        BY DEF IInv, Types
    <2>2. log \in Seq(S \cup {s}) /\ s \in S \cup {s}
        BY <2>1, SeqMonotonic
    <2>. QED BY <1>1, <2>2, AppendProperties
<1>16. /\ all'.longest <= all'.duration /\ all'.slow <= all'.total /\ all'.duration >= 0
    <2>1. /\ all.longest <= all.duration /\ all.slow <= all.total /\ all.duration >= 0
          /\ all.longest \in Int /\ all.duration \in Int /\ all.slow \in Int
          /\ all.total \in Int
        BY DEF CountInv, Agreement, Counters
    <2>2. all'.longest <= all'.duration /\ all'.duration >= 0
        BY <1>3, <1>4, <2>1
    <2>3. all'.slow <= all'.total
        BY <1>4, <1>8, <2>1
    <2>. QED BY <2>2, <2>3
<1>17. Agreement'
    <2>1. Agreement
        BY DEF CountInv
    <2>2. \A k \in Classes : all'.classes[k] = SumFunction(ClassOf(k)')
        BY <1>4, <1>13, <2>1 DEF Agreement
    <2>3. /\ all'.total = Len(log') /\ all'.total = SumFunction(Totals')
          /\ all'.slow = SumFunction(Slows') /\ all'.duration = SumFunction(Durations')
          /\ all'.total = SumFunction(all'.classes)
        BY <1>4, <1>10, <1>11, <1>12, <1>14, <1>15, <2>1 DEF Agreement
    <2>. QED BY <1>16, <2>2, <2>3 DEF Agreement
<1>18. \A d \in Callers : Clocked(d)'
    <2>1. \A d \in Callers : /\ pc'[d] = IF d = c THEN "idle" ELSE pc[d]
                             /\ act'[d] = IF d = c THEN Idle ELSE act[d]
        BY <1>1 DEF IInv, Types
    <2>. QED BY <1>1, <2>1 DEF Clocked, CountInv
<1>. QED BY <1>1, <1>4, <1>5, <1>16, <1>17, <1>18 DEF CountInv

\* A step of caller c that records nothing is judged by what becomes of c.
LEMMA CountsStay ==
    ASSUME IInv, CountInv, NEW c \in Callers, NEW to, NEW x, UNCHANGED <<now, stats>>,
           pc' = [pc EXCEPT ![c] = to], act' = [act EXCEPT ![c] = x],
           pc'[c] = to /\ act'[c] = x => Clocked(c)'
    PROVE  CountInv'
<1>1. now' = now /\ all' = all /\ routes' = routes /\ log' = log
    BY DEF stats
<1>2. \A d \in Callers : /\ pc'[d] = IF d = c THEN to ELSE pc[d]
                         /\ act'[d] = IF d = c THEN x ELSE act[d]
    BY DEF IInv, Types
<1>3. ASSUME NEW d \in Callers PROVE Clocked(d)'
    <2>1. CASE d = c
        BY <1>2, <2>1
    <2>2. CASE d # c
        BY <1>1, <1>2, <2>2 DEF CountInv, Clocked
    <2>. QED BY <2>1, <2>2
<1>4. Agreement'
    <2>1. /\ Totals' = Totals /\ Slows' = Slows /\ Durations' = Durations
          /\ \A k \in Classes : ClassOf(k)' = ClassOf(k)
        BY <1>1 DEF Totals, Slows, Durations, ClassOf
    <2>2. Agreement
        BY DEF CountInv
    <2>. QED BY <1>1, <2>1, <2>2 DEF Agreement
<1>5. /\ now' \in Int /\ Counters(all') /\ all'.duration >= 0
      /\ IsFiniteSet(DOMAIN routes') /\ \A k \in DOMAIN routes' : Counters(routes'[k])
    BY <1>1 DEF CountInv
<1>. QED BY <1>3, <1>4, <1>5 DEF CountInv

LEMMA NextCounts == IInv /\ CountInv /\ [Next]_vars => CountInv'
<1> SUFFICES ASSUME IInv, CountInv, [Next]_vars PROVE CountInv'
    OBVIOUS
<1>1. CASE Tick \/ RequestsStop \/ UNCHANGED vars
    <2>1. /\ pc' = pc /\ act' = act /\ now \in Int
          /\ now' = now \/ now' = now + 1
          /\ all' = all /\ routes' = routes /\ log' = log
        BY <1>1 DEF Tick, RequestsStop, vars, stats, CountInv
    <2>2. now' \in Int
        BY <2>1
    <2>3. \A d \in Callers : Clocked(d)'
        BY <2>1, <2>2 DEF CountInv, Clocked
    <2>4. Agreement'
        <3>1. /\ Totals' = Totals /\ Slows' = Slows /\ Durations' = Durations
              /\ \A k \in Classes : ClassOf(k)' = ClassOf(k)
            BY <2>1 DEF Totals, Slows, Durations, ClassOf
        <3>2. Agreement
            BY DEF CountInv
        <3>. QED BY <2>1, <3>1, <3>2 DEF Agreement
    <2>5. /\ Counters(all') /\ all'.duration >= 0
          /\ IsFiniteSet(DOMAIN routes') /\ \A k \in DOMAIN routes' : Counters(routes'[k])
        BY <2>1 DEF CountInv
    <2>. QED BY <2>2, <2>3, <2>4, <2>5 DEF CountInv
<1>2. ASSUME NEW c \in Callers, NEW call \in Calls, Begin(c, call) PROVE CountInv'
    <2> DEFINE x == [Idle EXCEPT !.call = call, !.start = now, !.mark = now]
               to == IF Diagnoses(call) THEN "stages" ELSE "handler"
    <2>1. /\ pc' = [pc EXCEPT ![c] = to] /\ act' = [act EXCEPT ![c] = x]
          /\ UNCHANGED <<now, stats>>
        BY <1>2 DEF Begin, Goto
    <2>2. x.start = now /\ to # "record" /\ now \in Int
        BY DEF Idle, CountInv
    <2> HIDE DEF x, to
    <2>3. ASSUME pc'[c] = to, act'[c] = x PROVE Clocked(c)'
        BY <2>1, <2>2, <2>3 DEF Clocked
    <2>. QED BY <2>1, <2>3, CountsStay
<1>3. ASSUME NEW c \in Callers, NEW reply \in Replies, Handle(c, reply) PROVE CountInv'
    <2> DEFINE x == [act[c] EXCEPT !.status = StatusOf(reply)]
    <2>1. /\ pc[c] = "handler" /\ pc' = [pc EXCEPT ![c] = "handled"]
          /\ act' = [act EXCEPT ![c] = x] /\ UNCHANGED <<now, stats>>
        BY <1>3 DEF Handle, Goto
    <2>2. x.start = act[c].start
        <3>1. DOMAIN act[c] = DOMAIN Idle
            BY DEF IInv, Types
        <3>. QED BY <3>1, IdleFields
    <2> HIDE DEF x
    <2>3. ASSUME pc'[c] = "handled", act'[c] = x PROVE Clocked(c)'
        BY <2>1, <2>2, <2>3 DEF Clocked, CountInv
    <2>. QED BY <2>1, <2>3, CountsStay
<1>4. ASSUME NEW c \in Callers, Stage(c) PROVE CountInv'
    <2> DEFINE x == [act[c] EXCEPT !.stages = Append(@, now - act[c].mark), !.mark = now]
               to == IF Len(act[c].stages) + 1 = Len(Stages) THEN "snapshot" ELSE "stages"
    <2>1. /\ pc[c] = "stages" /\ pc' = [pc EXCEPT ![c] = to]
          /\ act' = [act EXCEPT ![c] = x] /\ UNCHANGED <<now, stats>>
        BY <1>4 DEF Stage, Goto
    <2>2. x.start = act[c].start /\ to # "record"
        <3>1. DOMAIN act[c] = DOMAIN Idle
            BY DEF IInv, Types
        <3>. QED BY <3>1, IdleFields
    <2> HIDE DEF x, to
    <2>3. ASSUME pc'[c] = to, act'[c] = x PROVE Clocked(c)'
        BY <2>1, <2>2, <2>3 DEF Clocked, CountInv
    <2>. QED BY <2>1, <2>3, CountsStay
<1>5. ASSUME NEW c \in Callers, Snapshot(c) PROVE CountInv'
    <2> DEFINE x == [act[c] EXCEPT
                        !.issues = RequestIssues(recent)
                                   \cup TimingIssues(act[c].stages, act[c].mark - act[c].start),
                        !.seen = Len(log), !.status = 200]
    <2>1. /\ pc[c] = "snapshot" /\ pc' = [pc EXCEPT ![c] = "handled"]
          /\ act' = [act EXCEPT ![c] = x] /\ UNCHANGED <<now, stats>>
        BY <1>5 DEF Snapshot, Goto
    <2>2. x.start = act[c].start
        <3>1. DOMAIN act[c] = DOMAIN Idle
            BY DEF IInv, Types
        <3>. QED BY <3>1, IdleFields
    <2> HIDE DEF x
    <2>3. ASSUME pc'[c] = "handled", act'[c] = x PROVE Clocked(c)'
        BY <2>1, <2>2, <2>3 DEF Clocked, CountInv
    <2>. QED BY <2>1, <2>3, CountsStay
<1>6. ASSUME NEW c \in Callers, Measure(c) PROVE CountInv'
    <2> DEFINE x == IF Watched(act[c].call)
                    THEN [Idle EXCEPT !.call = act[c].call, !.status = act[c].status,
                                      !.duration = now - act[c].start]
                    ELSE Idle
               to == IF Watched(act[c].call) THEN "record" ELSE "idle"
    <2>1. /\ pc[c] = "handled" /\ pc' = [pc EXCEPT ![c] = to]
          /\ act' = [act EXCEPT ![c] = x] /\ UNCHANGED <<now, stats>>
        BY <1>6 DEF Measure, Goto
    <2>2. act[c].start \in Int /\ act[c].start <= now /\ now \in Int
        BY <2>1 DEF CountInv, Clocked
    <2>3. to \in {"record", "idle"} /\ (to = "record" => x.duration = now - act[c].start)
        BY DEF Idle
    <2> HIDE DEF x, to
    <2>4. ASSUME pc'[c] = to, act'[c] = x PROVE Clocked(c)'
        BY <2>2, <2>3, <2>4 DEF Clocked
    <2>. QED BY <2>1, <2>4, CountsStay
<1>7. ASSUME NEW c \in Callers, Record(c) PROVE CountInv'
    BY <1>7, RecordCounts
<1>. QED BY <1>1, <1>2, <1>3, <1>4, <1>5, <1>6, <1>7 DEF Next

LEMMA InitCounts == Init => CountInv
<1> SUFFICES ASSUME Init PROVE CountInv
    OBVIOUS
<1>1. /\ now = 0 /\ all = NoCounts /\ DOMAIN routes = {} /\ log = <<>>
      /\ \A c \in Callers : pc[c] = "idle"
    BY DEF Init
<1>2. IsFiniteSet(DOMAIN routes) /\ Len(log) = 0
    BY <1>1, FS_EmptySet
<1>3. /\ SumFunction(Totals) = 0 /\ SumFunction(Slows) = 0 /\ SumFunction(Durations) = 0
      /\ \A k \in Classes : SumFunction(ClassOf(k)) = 0
    <2>1. /\ DOMAIN Totals = {} /\ DOMAIN Slows = {} /\ DOMAIN Durations = {}
          /\ \A k : DOMAIN ClassOf(k) = {}
        BY <1>1 DEF Totals, Slows, Durations, ClassOf
    <2>. QED BY <2>1, SumOfNothing
<1>4. SumFunction(NoCounts.classes) = 0
    <2> DEFINE f == NoCounts.classes
    <2>1. DOMAIN f = Classes /\ \A k \in Classes : f[k] = 0
        BY NothingCounted
    <2> HIDE DEF f
    <2>2. Numbers(f) /\ \A k \in DOMAIN f : f[k] = 0
        BY <2>1, FiniteClasses DEF Numbers
    <2>. QED BY <2>2, SumOfZeros DEF f
<1>5. Agreement
    BY <1>1, <1>2, <1>3, <1>4, NothingCounted DEF Agreement
<1>6. \A c \in Callers : Clocked(c)
    BY <1>1 DEF Clocked
<1>7. Counters(all) /\ all.duration >= 0
    BY <1>1, NothingCounted
<1>. QED BY <1>1, <1>2, <1>5, <1>6, <1>7 DEF CountInv

\* The counters over all requests and the counters by method and route never
\* come apart, in whatever order the requests finish.
THEOREM CountersStayTogether == Spec => []CountersAgree
<1>1. Init => CountInv
    BY InitCounts
<1>2. IInv /\ CountInv /\ [Next]_vars => CountInv'
    BY NextCounts
<1>3. CountInv => CountersAgree
    BY AgreementIsAgreement DEF CountInv
<1>. QED BY <1>1, <1>2, <1>3, Invariance, PTL DEF Spec

-----------------------------------------------------------------------------

(***************************************************************************)
(* The board.  What statusd was started with was accepted, and Gatus' keys *)
(* are not empty.                                                          *)
(***************************************************************************)
Accepted(c) ==
    /\ IsFiniteSet(c.services) /\ IsFiniteSet(c.projects) /\ IsFiniteSet(c.nodes)
    /\ c.critical \subseteq c.services
    /\ \A s \in c.services :
          /\ c.nodeOf[s] \in c.nodes
          /\ c.projectOf[s] \in c.projects \cup {None}
    /\ \A p \in c.projects : c.serviceIDs[p] \in Seq(c.services)

\* The results of an endpoint come from different times, oldest first.
Aged(r) ==
    \A i, j \in DOMAIN r : i < j => r[j].age < r[i].age \/ r[i].age = PageWindow

BoardInv ==
    /\ config \in Configs
    /\ DOMAIN results \subseteq Endpoints
    /\ \A k \in DOMAIN results : results[k] \in Seq(Result) /\ Aged(results[k])
    /\ err \in BOOLEAN

LEMMA BoardAccepted == BoardInv => Accepted(config) /\ NoKey \notin DOMAIN results
BY ConfigsAssumption DEF BoardInv, Accepted

LEMMA OutcomesSay ==
    ASSUME NEW r \in Seq(Result)
    PROVE  /\ Outcomes(r) = <<>> <=> r = <<>>
           /\ r # <<>> => /\ Outcomes(r)[Len(Outcomes(r))] = r[Len(r)].success
                         /\ r[Len(r)] \in Result /\ Len(r) \in DOMAIN r
<1>1. Len(r) \in Nat /\ DOMAIN r = 1..Len(r) /\ \A i \in 1..Len(r) : r[i] \in Result
    BY LenProperties, ElementOfSeq
<1>2. Outcomes(r) = [i \in 1..Len(r) |-> r[i].success]
    BY <1>1 DEF Outcomes
<1>3. \A i \in 1..Len(r) : r[i].success \in BOOLEAN
    BY <1>1 DEF Result
<1>4. Outcomes(r) \in Seq(BOOLEAN) /\ Len(Outcomes(r)) = Len(r)
    BY <1>1, <1>2, <1>3
<1>5. r = <<>> <=> Len(r) = 0
    BY EmptySeq
<1>6. Outcomes(r) = <<>> <=> Len(Outcomes(r)) = 0
    BY <1>4, EmptySeq
<1>. QED BY <1>1, <1>2, <1>4, <1>5, <1>6

LEMMA ServiceSays ==
    ASSUME BoardInv, NEW s \in config.services
    PROVE  /\ board.services[s] = "ok" <=> LastProbe(s, TRUE)
           /\ board.services[s] = "down" <=> LastProbe(s, FALSE)
           /\ board.services[s] \in {"ok", "down", "unknown"}
<1> DEFINE k == config.keyOf[s]
<1>1. board.services[s] = IF ~err /\ k # NoKey /\ k \in DOMAIN results
                          THEN CheckStatus(Outcomes(results[k])) ELSE "unknown"
    BY DEF board, checks, Rollup, ServiceStatuses, ServiceStatus
<1>2. NoKey \notin DOMAIN results
    BY BoardAccepted
<1>3. ASSUME k \in DOMAIN results
      PROVE  LET r == results[k] IN
             /\ Outcomes(r) = <<>> <=> r = <<>>
             /\ r # <<>> => /\ Outcomes(r)[Len(Outcomes(r))] = r[Len(r)].success
                           /\ r[Len(r)].success \in BOOLEAN
    <2>1. results[k] \in Seq(Result)
        BY <1>3 DEF BoardInv
    <2>. QED BY <2>1, OutcomesSay DEF Result
<1> HIDE DEF k
<1>. QED BY <1>1, <1>2, <1>3 DEF LastProbe, CheckStatus, k

LEMMA CountSome ==
    ASSUME NEW st, NEW family, IsFiniteSet(DOMAIN family), NEW v
    PROVE  /\ CountOf(st, family, v) \in Nat
           /\ CountOf(st, family, v) > 0 <=> \E i \in DOMAIN family : st[family[i]] = v
<1> DEFINE S == {i \in DOMAIN family : st[family[i]] = v}
<1>1. IsFiniteSet(S)
    BY FS_Subset
<1>2. Cardinality(S) \in Nat /\ (Cardinality(S) = 0 <=> S = {})
    BY <1>1, FS_CardinalityType, FS_EmptySet
<1>3. CountOf(st, family, v) = Cardinality(S)
    BY DEF CountOf
<1>. QED BY <1>2, <1>3

\* What the status of a node or a project means.
LEMMA GroupSays ==
    ASSUME NEW c, NEW st, NEW family, IsFiniteSet(DOMAIN family),
           \A i \in DOMAIN family : st[family[i]] \in Statuses
    PROVE  LET a == AggregateStatus(c, st, family)
           IN  /\ a \in {"ok", "degraded", "down", "unknown"}
               /\ a = "unknown" <=> DOMAIN family = {}
               /\ a = "down" <=> \E i \in DOMAIN family :
                                    family[i] \in c.critical /\ st[family[i]] = "down"
               /\ a = "ok" <=> /\ DOMAIN family # {}
                               /\ \A i \in DOMAIN family :
                                     st[family[i]] \in {"ok", "maintenance"}
<1> DEFINE D == CountOf(st, family, "down")
           U == CountOf(st, family, "unknown")
           G == CountOf(st, family, "degraded")
<1>1. D \in Nat /\ U \in Nat /\ G \in Nat
    BY CountSome
<1>2. /\ D > 0 <=> \E i \in DOMAIN family : st[family[i]] = "down"
      /\ U > 0 <=> \E i \in DOMAIN family : st[family[i]] = "unknown"
      /\ G > 0 <=> \E i \in DOMAIN family : st[family[i]] = "degraded"
    BY CountSome
<1>3. AggregateStatus(c, st, family) =
        IF DOMAIN family = {} THEN "unknown"
        ELSE IF \E i \in DOMAIN family :
                  family[i] \in c.critical /\ st[family[i]] = "down" THEN "down"
        ELSE IF D + U + G > 0 THEN "degraded" ELSE "ok"
    BY DEF AggregateStatus
<1> HIDE DEF D, U, G
<1>4. D + U + G > 0 <=> D > 0 \/ U > 0 \/ G > 0
    BY <1>1
<1>5. D + U + G > 0 <=> \E i \in DOMAIN family : st[family[i]] \notin {"ok", "maintenance"}
    BY <1>2, <1>4 DEF Statuses
<1>. QED BY <1>3, <1>5

LEMMA OverallSays ==
    ASSUME NEW f, \A p \in DOMAIN f : f[p] \in {"ok", "degraded", "down", "unknown"}
    PROVE  LET o == AggregateOverall(f)
           IN  /\ o \in {"ok", "degraded", "down", "unknown"}
               /\ o = "unknown" <=> DOMAIN f = {}
               /\ o = "down" <=> \E p \in DOMAIN f : f[p] = "down"
               /\ o = "ok" <=> DOMAIN f # {} /\ \A p \in DOMAIN f : f[p] = "ok"
BY DEF AggregateOverall

LEMMA ListFinite ==
    ASSUME NEW S, NEW l \in Seq(S)
    PROVE  IsFiniteSet(DOMAIN l) /\ \A i \in DOMAIN l : l[i] \in S
<1>1. Len(l) \in Nat /\ DOMAIN l = 1..Len(l)
    BY LenProperties
<1>2. IsFiniteSet(1..Len(l))
    BY <1>1, FS_Interval
<1>. QED BY <1>1, <1>2, ElementOfSeq

LEMMA BoardParts ==
    /\ DOMAIN board.services = config.services
    /\ DOMAIN board.projects = config.projects /\ DOMAIN board.nodes = config.nodes
    /\ \A p \in config.projects : board.projects[p] =
          AggregateStatus(config, board.services, config.serviceIDs[p])
    /\ \A n \in config.nodes : board.nodes[n] =
          AggregateStatus(config, board.services, NodeFamily(config, n))
    /\ board.overall = AggregateOverall(board.projects)
    /\ board.counts = CountStatuses(board.services)
BY DEF board, Rollup, ServiceStatuses, ProjectStatuses, NodeStatuses, ProjectFamily

\* The status of a project in terms of the last probes.
LEMMA ProjectSays ==
    ASSUME BoardInv, NEW p \in config.projects
    PROVE  LET S == ListedServices(config, p)
               a == board.projects[p]
           IN  /\ S \subseteq config.services
               /\ a \in {"ok", "degraded", "down", "unknown"}
               /\ a = "unknown" <=> S = {}
               /\ a = "down" <=> \E s \in S : s \in config.critical /\ LastProbe(s, FALSE)
               /\ a = "ok" <=> S # {} /\ \A s \in S : LastProbe(s, TRUE)
<1> DEFINE l == config.serviceIDs[p]
           S == ListedServices(config, p)
           a == board.projects[p]
           st == board.services
<1>1. IsFiniteSet(DOMAIN l) /\ \A i \in DOMAIN l : l[i] \in config.services
    BY BoardAccepted, ListFinite DEF Accepted
<1>2. /\ S = {l[i] : i \in DOMAIN l} /\ S \subseteq config.services
      /\ S = {} <=> DOMAIN l = {}
    BY <1>1 DEF ListedServices, Range
<1>3. \A s \in config.services : /\ st[s] \in {"ok", "down", "unknown"}
                                 /\ st[s] = "ok" <=> LastProbe(s, TRUE)
                                 /\ st[s] = "down" <=> LastProbe(s, FALSE)
    BY ServiceSays
<1>4. \A i \in DOMAIN l : st[l[i]] \in Statuses
    BY <1>1, <1>3 DEF Statuses
<1>5. a = AggregateStatus(config, st, l)
    BY BoardParts
<1> HIDE DEF l, S, a, st
<1>6. /\ a \in {"ok", "degraded", "down", "unknown"}
      /\ a = "unknown" <=> DOMAIN l = {}
      /\ a = "down" <=> \E i \in DOMAIN l : l[i] \in config.critical /\ st[l[i]] = "down"
      /\ a = "ok" <=> /\ DOMAIN l # {}
                      /\ \A i \in DOMAIN l : st[l[i]] \in {"ok", "maintenance"}
    BY <1>1, <1>4, <1>5, GroupSays
<1>7. a = "down" <=> \E s \in S : s \in config.critical /\ st[s] = "down"
    BY <1>2, <1>6
<1>8. a = "ok" <=> S # {} /\ \A s \in S : st[s] = "ok"
    <2>1. (\A i \in DOMAIN l : st[l[i]] \in {"ok", "maintenance"})
             <=> \A s \in S : st[s] \in {"ok", "maintenance"}
        BY <1>2
    <2>2. \A s \in S : st[s] \in {"ok", "maintenance"} <=> st[s] = "ok"
        BY <1>2, <1>3
    <2>3. (\A s \in S : st[s] \in {"ok", "maintenance"}) <=> \A s \in S : st[s] = "ok"
        BY <2>2
    <2>. QED BY <1>2, <1>6, <2>1, <2>3
<1>9. a = "down" <=> \E s \in S : s \in config.critical /\ LastProbe(s, FALSE)
    BY <1>2, <1>3, <1>7
<1>10. a = "ok" <=> S # {} /\ \A s \in S : LastProbe(s, TRUE)
    BY <1>2, <1>3, <1>8
<1>. QED BY <1>2, <1>6, <1>9, <1>10 DEF S, a

LEMMA BoardMeans == BoardInv => OverallMeaning
<1> SUFFICES ASSUME BoardInv PROVE OverallMeaning
    OBVIOUS
<1> DEFINE f == board.projects
           o == board.overall
<1>1. DOMAIN f = config.projects /\ o = AggregateOverall(f)
    BY BoardParts
<1>2. \A p \in DOMAIN f : f[p] \in {"ok", "degraded", "down", "unknown"}
    BY <1>1, ProjectSays
<1>3. \A p \in config.projects :
         /\ f[p] = "down" <=> \E s \in ListedServices(config, p) :
                                 s \in config.critical /\ LastProbe(s, FALSE)
         /\ f[p] = "ok" <=> /\ ListedServices(config, p) # {}
                            /\ \A s \in ListedServices(config, p) : LastProbe(s, TRUE)
    BY ProjectSays
<1> HIDE DEF f, o
<1>4. /\ o \in {"ok", "degraded", "down", "unknown"}
      /\ o = "unknown" <=> DOMAIN f = {}
      /\ o = "down" <=> \E p \in DOMAIN f : f[p] = "down"
      /\ o = "ok" <=> DOMAIN f # {} /\ \A p \in DOMAIN f : f[p] = "ok"
    BY <1>1, <1>2, OverallSays
<1>5. /\ o = "down" <=> \E p \in config.projects : \E s \in ListedServices(config, p) :
                           s \in config.critical /\ LastProbe(s, FALSE)
      /\ o = "ok" <=> /\ config.projects # {}
                      /\ \A p \in config.projects :
                            /\ ListedServices(config, p) # {}
                            /\ \A s \in ListedServices(config, p) : LastProbe(s, TRUE)
      /\ o = "unknown" <=> config.projects = {}
      /\ o # "maintenance"
    BY <1>1, <1>3, <1>4
<1>. QED BY <1>5 DEF OverallMeaning, o

LEMMA RankValues ==
    /\ Rank("ok") = 0 /\ Rank("maintenance") = 0
    /\ Rank("degraded") = 1 /\ Rank("unknown") = 1 /\ Rank("down") = 2
BY DEF Rank

LEMMA RankSays ==
    /\ \A v \in Statuses : Rank(v) \in 0..2 /\ (Rank(v) = 0 <=> v \in {"ok", "maintenance"})
                           /\ (Rank(v) = 2 <=> v = "down")
BY RankValues DEF Statuses

\* When no member got better, the status of the group did not.
LEMMA GroupMonotone ==
    ASSUME NEW c, NEW family, IsFiniteSet(DOMAIN family),
           NEW st, \A i \in DOMAIN family : st[family[i]] \in Statuses,
           NEW tt, \A i \in DOMAIN family : tt[family[i]] \in Statuses,
           \A i \in DOMAIN family : Rank(st[family[i]]) <= Rank(tt[family[i]])
    PROVE  Rank(AggregateStatus(c, st, family)) <= Rank(AggregateStatus(c, tt, family))
<1> DEFINE a == AggregateStatus(c, st, family)
           b == AggregateStatus(c, tt, family)
           I == DOMAIN family
<1>1. /\ a \in {"ok", "degraded", "down", "unknown"}
      /\ a = "unknown" <=> I = {}
      /\ a = "down" <=> \E i \in I : family[i] \in c.critical /\ st[family[i]] = "down"
      /\ a = "ok" <=> I # {} /\ \A i \in I : st[family[i]] \in {"ok", "maintenance"}
    BY GroupSays
<1>2. /\ b \in {"ok", "degraded", "down", "unknown"}
      /\ b = "unknown" <=> I = {}
      /\ b = "down" <=> \E i \in I : family[i] \in c.critical /\ tt[family[i]] = "down"
      /\ b = "ok" <=> I # {} /\ \A i \in I : tt[family[i]] \in {"ok", "maintenance"}
    BY GroupSays
<1> HIDE DEF a, b, I
<1>3. \A i \in I : /\ st[family[i]] = "down" => tt[family[i]] = "down"
                   /\ tt[family[i]] \in {"ok", "maintenance"} =>
                         st[family[i]] \in {"ok", "maintenance"}
    <2>1. ASSUME NEW i \in I
          PROVE  /\ st[family[i]] = "down" => tt[family[i]] = "down"
                 /\ tt[family[i]] \in {"ok", "maintenance"} =>
                       st[family[i]] \in {"ok", "maintenance"}
        <3>1. /\ st[family[i]] \in Statuses /\ tt[family[i]] \in Statuses
              /\ Rank(st[family[i]]) <= Rank(tt[family[i]])
            BY <2>1 DEF I
        <3>. QED BY <3>1, RankSays
    <2>. QED BY <2>1
<1>4. a = "down" => b = "down"
    BY <1>1, <1>2, <1>3
<1>5. b = "ok" => a = "ok"
    BY <1>1, <1>2, <1>3
<1>6. Rank(a) <= Rank(b)
    BY <1>1, <1>2, <1>4, <1>5, RankValues
<1>. QED BY <1>6 DEF a, b

LEMMA OverallMonotone ==
    ASSUME NEW f, \A p \in DOMAIN f : f[p] \in {"ok", "degraded", "down", "unknown"},
           NEW g, \A p \in DOMAIN g : g[p] \in {"ok", "degraded", "down", "unknown"},
           DOMAIN g = DOMAIN f, \A p \in DOMAIN f : Rank(f[p]) <= Rank(g[p])
    PROVE  Rank(AggregateOverall(f)) <= Rank(AggregateOverall(g))
<1> DEFINE a == AggregateOverall(f)
           b == AggregateOverall(g)
<1>1. /\ a \in {"ok", "degraded", "down", "unknown"}
      /\ a = "unknown" <=> DOMAIN f = {}
      /\ a = "down" <=> \E p \in DOMAIN f : f[p] = "down"
      /\ a = "ok" <=> DOMAIN f # {} /\ \A p \in DOMAIN f : f[p] = "ok"
    BY OverallSays
<1>2. /\ b \in {"ok", "degraded", "down", "unknown"}
      /\ b = "unknown" <=> DOMAIN g = {}
      /\ b = "down" <=> \E p \in DOMAIN g : g[p] = "down"
      /\ b = "ok" <=> DOMAIN g # {} /\ \A p \in DOMAIN g : g[p] = "ok"
    BY OverallSays
<1> HIDE DEF a, b
<1>3. \A p \in DOMAIN f : /\ f[p] = "down" => g[p] = "down"
                          /\ g[p] = "ok" => f[p] = "ok"
    <2>1. ASSUME NEW p \in DOMAIN f
          PROVE  (f[p] = "down" => g[p] = "down") /\ (g[p] = "ok" => f[p] = "ok")
        <3>1. /\ f[p] \in {"ok", "degraded", "down", "unknown"}
              /\ g[p] \in {"ok", "degraded", "down", "unknown"}
              /\ Rank(f[p]) <= Rank(g[p])
            BY <2>1
        <3>. QED BY <3>1, RankValues
    <2>. QED BY <2>1
<1>4. a = "down" => b = "down"
    BY <1>1, <1>2, <1>3
<1>5. b = "ok" => a = "ok"
    BY <1>1, <1>2, <1>3
<1>6. Rank(a) <= Rank(b)
    BY <1>1, <1>2, <1>4, <1>5, RankValues
<1>. QED BY <1>6 DEF a, b

\* A board that can stand before another one: the parts that Rollup derives
\* from the services.
Derived(c, b) ==
    /\ DOMAIN b.services = c.services
    /\ \A s \in c.services : b.services[s] \in Statuses
    /\ DOMAIN b.projects = c.projects /\ DOMAIN b.nodes = c.nodes
    /\ \A p \in c.projects : b.projects[p] = AggregateStatus(c, b.services, c.serviceIDs[p])
    /\ \A n \in c.nodes : b.nodes[n] = AggregateStatus(c, b.services, NodeFamily(c, n))
    /\ b.overall = AggregateOverall(b.projects)

LEMMA NodeServices ==
    ASSUME NEW c, Accepted(c), NEW n
    PROVE  /\ IsFiniteSet(DOMAIN NodeFamily(c, n))
           /\ DOMAIN NodeFamily(c, n) = {s \in c.services : c.nodeOf[s] = n}
           /\ \A s \in DOMAIN NodeFamily(c, n) : NodeFamily(c, n)[s] = s /\ s \in c.services
<1>1. DOMAIN NodeFamily(c, n) = {s \in c.services : c.nodeOf[s] = n}
    BY DEF NodeFamily
<1>2. \A s \in DOMAIN NodeFamily(c, n) : NodeFamily(c, n)[s] = s /\ s \in c.services
    BY DEF NodeFamily
<1>3. IsFiniteSet({s \in c.services : c.nodeOf[s] = n})
    BY FS_Subset DEF Accepted
<1>. QED BY <1>1, <1>2, <1>3

LEMMA Monotone ==
    ASSUME NEW c, Accepted(c), NEW b, Derived(c, b), NEW d, Derived(c, d)
    PROVE  NothingBetter(b, d)
<1> SUFFICES ASSUME NoBetter(b.services, d.services)
             PROVE  /\ NoBetter(b.nodes, d.nodes)
                    /\ NoBetter(b.projects, d.projects)
                    /\ Rank(b.overall) <= Rank(d.overall)
    BY DEF NothingBetter
<1>1. \A s \in c.services : /\ b.services[s] \in Statuses /\ d.services[s] \in Statuses
                            /\ Rank(b.services[s]) <= Rank(d.services[s])
    BY DEF NoBetter, Derived
<1>2. ASSUME NEW p \in c.projects PROVE Rank(b.projects[p]) <= Rank(d.projects[p])
    <2> DEFINE l == c.serviceIDs[p]
    <2>1. IsFiniteSet(DOMAIN l) /\ \A i \in DOMAIN l : l[i] \in c.services
        BY ListFinite DEF Accepted
    <2> HIDE DEF l
    <2>2. Rank(AggregateStatus(c, b.services, l)) <= Rank(AggregateStatus(c, d.services, l))
        BY <1>1, <2>1, GroupMonotone
    <2>. QED BY <2>2 DEF Derived, l
<1>3. ASSUME NEW n \in c.nodes PROVE Rank(b.nodes[n]) <= Rank(d.nodes[n])
    <2> DEFINE l == NodeFamily(c, n)
    <2>1. IsFiniteSet(DOMAIN l) /\ \A i \in DOMAIN l : l[i] \in c.services
        BY NodeServices
    <2> HIDE DEF l
    <2>2. Rank(AggregateStatus(c, b.services, l)) <= Rank(AggregateStatus(c, d.services, l))
        BY <1>1, <2>1, GroupMonotone
    <2>. QED BY <2>2 DEF Derived, l
<1>4. ASSUME NEW x, Derived(c, x)
      PROVE  \A p \in DOMAIN x.projects :
                x.projects[p] \in {"ok", "degraded", "down", "unknown"}
    <2>1. ASSUME NEW p \in c.projects
          PROVE  AggregateStatus(c, x.services, c.serviceIDs[p])
                    \in {"ok", "degraded", "down", "unknown"}
        <3> DEFINE l == c.serviceIDs[p]
        <3>1. IsFiniteSet(DOMAIN l) /\ \A i \in DOMAIN l : l[i] \in c.services
            BY ListFinite DEF Accepted
        <3>2. \A i \in DOMAIN l : x.services[l[i]] \in Statuses
            BY <1>4, <3>1 DEF Derived
        <3> HIDE DEF l
        <3>3. AggregateStatus(c, x.services, l) \in {"ok", "degraded", "down", "unknown"}
            BY <3>1, <3>2, GroupSays
        <3>. QED BY <3>3 DEF l
    <2>. QED BY <1>4, <2>1 DEF Derived
<1>5. Rank(b.overall) <= Rank(d.overall)
    <2> DEFINE f == b.projects
               g == d.projects
    <2>1. /\ \A p \in DOMAIN f : f[p] \in {"ok", "degraded", "down", "unknown"}
          /\ \A p \in DOMAIN g : g[p] \in {"ok", "degraded", "down", "unknown"}
        BY <1>4
    <2>2. /\ DOMAIN f = c.projects /\ DOMAIN g = DOMAIN f
          /\ b.overall = AggregateOverall(f) /\ d.overall = AggregateOverall(g)
        BY DEF Derived
    <2>3. \A p \in DOMAIN f : Rank(f[p]) <= Rank(g[p])
        BY <1>2, <2>2
    <2> HIDE DEF f, g
    <2>. QED BY <2>1, <2>2, <2>3, OverallMonotone
<1>6. NoBetter(b.nodes, d.nodes) /\ NoBetter(b.projects, d.projects)
    BY <1>2, <1>3 DEF NoBetter, Derived
<1>. QED BY <1>5, <1>6

LEMMA BoardDerived == BoardInv => Derived(config, board)
<1> SUFFICES ASSUME BoardInv PROVE Derived(config, board)
    OBVIOUS
<1>1. \A s \in config.services : board.services[s] \in Statuses
    BY ServiceSays DEF Statuses
<1>. QED BY <1>1, BoardParts DEF Derived

-----------------------------------------------------------------------------
(* Gatus' results keep their form. *)

LEMMA BoardStart == GatusInit => BoardInv
BY DEF GatusInit, BoardInv

\* Time passes for all results of an endpoint.
LEMMA OlderKeeps ==
    ASSUME NEW r \in Seq(Result), Aged(r)
    PROVE  /\ Older(r) \in Seq(Result) /\ Aged(Older(r))
           /\ \A i \in DOMAIN Older(r) : Older(r)[i].age > 0
<1>1. PageWindow \in Nat \ {0}
    BY LimitsAssumption
<1>2. Len(r) \in Nat /\ DOMAIN r = 1..Len(r) /\ \A i \in 1..Len(r) : r[i] \in Result
    BY LenProperties, ElementOfSeq
<1> DEFINE older(i) == IF r[i].age < PageWindow THEN r[i].age + 1 ELSE r[i].age
<1>3. Older(r) = [i \in 1..Len(r) |-> [r[i] EXCEPT !.age = older(i)]]
    BY <1>2 DEF Older
<1>4. \A i \in 1..Len(r) : /\ r[i].success \in BOOLEAN /\ r[i].age \in Nat
                           /\ r[i].age <= PageWindow
                           /\ r[i] = [success |-> r[i].success, age |-> r[i].age]
    <2>1. \A x \in Result : /\ x.success \in BOOLEAN /\ x.age \in Nat
                             /\ x.age <= PageWindow
                             /\ x = [success |-> x.success, age |-> x.age]
        BY <1>1 DEF Result
    <2>. QED BY <1>2, <2>1
<1>5. ASSUME NEW i \in 1..Len(r)
      PROVE  /\ older(i) \in 0..PageWindow /\ older(i) > 0
             /\ Older(r)[i] \in Result /\ Older(r)[i].age = older(i)
    <2>1. r[i].age \in Nat /\ r[i].age <= PageWindow
        BY <1>4
    <2>2. older(i) \in 0..PageWindow /\ older(i) > 0
        BY <1>1, <2>1
    <2>3. r[i].success \in BOOLEAN /\ r[i] = [success |-> r[i].success, age |-> r[i].age]
        BY <1>4
    <2> HIDE DEF older
    <2>4. Older(r)[i] = [r[i] EXCEPT !.age = older(i)]
        BY <1>3
    <2>5. Older(r)[i] = [success |-> r[i].success, age |-> older(i)]
        BY <2>3, <2>4
    <2>. QED BY <2>2, <2>3, <2>5 DEF Result
<1>6. Older(r) = [i \in 1..Len(r) |-> Older(r)[i]]
    BY <1>3
<1>7. Older(r) \in Seq(Result) /\ DOMAIN Older(r) = 1..Len(r)
    BY <1>2, <1>5, <1>6
<1>8. ASSUME NEW i \in 1..Len(r), NEW j \in 1..Len(r), i < j
      PROVE  older(j) < older(i) \/ older(i) = PageWindow
    <2>1. r[j].age < r[i].age \/ r[i].age = PageWindow
        BY <1>2, <1>8 DEF Aged
    <2>2. /\ r[i].age \in Nat /\ r[i].age <= PageWindow
          /\ r[j].age \in Nat /\ r[j].age <= PageWindow
        BY <1>4
    <2>. QED BY <1>1, <2>1, <2>2
<1> HIDE DEF older
<1>9. Aged(Older(r))
    BY <1>5, <1>7, <1>8 DEF Aged
<1>. QED BY <1>5, <1>7, <1>9

\* A result of now is the youngest.
LEMMA ProbedKeeps ==
    ASSUME NEW r \in Seq(Result), Aged(r), NEW success \in BOOLEAN
    PROVE  LET x == Append(Older(r), [success |-> success, age |-> 0])
           IN  x \in Seq(Result) /\ Aged(x) /\ x # <<>>
<1> DEFINE o == Older(r)
           n == [success |-> success, age |-> 0]
           x == Append(o, n)
<1>1. o \in Seq(Result) /\ Aged(o) /\ \A i \in DOMAIN o : o[i].age > 0
    BY OlderKeeps
<1>2. n \in Result /\ n.age = 0
    BY LimitsAssumption DEF Result
<1> HIDE DEF o, n
<1>3. /\ x \in Seq(Result) /\ x # <<>> /\ Len(x) = Len(o) + 1
      /\ \A i \in 1..Len(o) : x[i] = o[i]
      /\ x[Len(o) + 1] = n
    BY <1>1, <1>2, AppendProperties
<1>4. Len(o) \in Nat /\ DOMAIN o = 1..Len(o) /\ DOMAIN x = 1..(Len(o) + 1)
    BY <1>1, <1>3, LenProperties
<1> HIDE DEF x
<1>5. ASSUME NEW i \in DOMAIN x, NEW j \in DOMAIN x, i < j
      PROVE  x[j].age < x[i].age \/ x[i].age = PageWindow
    <2>1. i \in DOMAIN o /\ x[i] = o[i]
        BY <1>3, <1>4, <1>5
    <2>2. CASE j = Len(o) + 1
        BY <1>1, <1>2, <1>3, <2>1, <2>2
    <2>3. CASE j \in DOMAIN o
        BY <1>1, <1>3, <1>4, <1>5, <2>1, <2>3 DEF Aged
    <2>. QED BY <1>4, <2>2, <2>3
<1>. QED BY <1>3, <1>5 DEF Aged, x, o, n

\* Gatus forgets the oldest result.
LEMMA TailKeeps ==
    ASSUME NEW r \in Seq(Result), Aged(r), r # <<>>
    PROVE  Tail(r) \in Seq(Result) /\ Aged(Tail(r))
<1>1. /\ Tail(r) \in Seq(Result) /\ Len(Tail(r)) = Len(r) - 1
      /\ \A i \in 1..Len(Tail(r)) : Tail(r)[i] = r[i + 1]
    BY HeadTailProperties
<1>2. /\ Len(r) \in Nat /\ DOMAIN r = 1..Len(r) /\ Len(Tail(r)) \in Nat
      /\ DOMAIN Tail(r) = 1..Len(Tail(r))
    BY <1>1, LenProperties
<1>3. ASSUME NEW i \in DOMAIN Tail(r), NEW j \in DOMAIN Tail(r), i < j
      PROVE  Tail(r)[j].age < Tail(r)[i].age \/ Tail(r)[i].age = PageWindow
    <2>1. i + 1 \in DOMAIN r /\ j + 1 \in DOMAIN r /\ i + 1 < j + 1
        BY <1>1, <1>2, <1>3
    <2>2. r[j + 1].age < r[i + 1].age \/ r[i + 1].age = PageWindow
        BY <2>1 DEF Aged
    <2>. QED BY <1>1, <1>2, <2>2
<1>. QED BY <1>1, <1>3 DEF Aged

LEMMA BoardStep == BoardInv /\ [GatusNext]_gatus => BoardInv' /\ config' = config
<1> SUFFICES ASSUME BoardInv, [GatusNext]_gatus PROVE BoardInv' /\ config' = config
    OBVIOUS
<1>1. ASSUME NEW k \in Endpoints, List(k) PROVE BoardInv' /\ config' = config
    <2>1. /\ DOMAIN results' = DOMAIN results \cup {k} /\ k \notin DOMAIN results
          /\ results'[k] = <<>> /\ \A j \in DOMAIN results : results'[j] = results[j]
          /\ config' = config /\ err' = err
        BY <1>1 DEF List
    <2>2. <<>> \in Seq(Result) /\ Aged(<<>>)
        BY DEF Aged
    <2>. QED BY <2>1, <2>2 DEF BoardInv
<1>2. ASSUME NEW k \in Endpoints, Unlist(k) PROVE BoardInv' /\ config' = config
    <2>1. /\ DOMAIN results' = DOMAIN results \ {k}
          /\ \A j \in DOMAIN results' : results'[j] = results[j]
          /\ config' = config /\ err' = err
        BY <1>2 DEF Unlist
    <2>. QED BY <2>1 DEF BoardInv
<1>3. ASSUME NEW k \in Endpoints, NEW success \in BOOLEAN, Probe(k, success)
      PROVE  BoardInv' /\ config' = config
    <2> DEFINE Now(j) == Append(Older(results[j]), [success |-> success, age |-> 0])
               Then(j) == IF j # k THEN Older(results[j])
                          ELSE IF Len(Now(j)) > MaxResults THEN Tail(Now(j)) ELSE Now(j)
    <2>1. results' = [j \in DOMAIN results |-> Then(j)] /\ config' = config /\ err' = err
        BY <1>3 DEF Probe
    <2>2. ASSUME NEW j \in DOMAIN results PROVE Then(j) \in Seq(Result) /\ Aged(Then(j))
        <3>1. results[j] \in Seq(Result) /\ Aged(results[j])
            BY DEF BoardInv
        <3>2. Older(results[j]) \in Seq(Result) /\ Aged(Older(results[j]))
            BY <3>1, OlderKeeps
        <3>3. Now(j) \in Seq(Result) /\ Aged(Now(j)) /\ Now(j) # <<>>
            BY <3>1, ProbedKeeps
        <3> HIDE DEF Now
        <3>4. Tail(Now(j)) \in Seq(Result) /\ Aged(Tail(Now(j)))
            BY <3>3, TailKeeps
        <3>. QED BY <3>2, <3>3, <3>4
    <2> HIDE DEF Then
    <2>3. DOMAIN results' = DOMAIN results /\ \A j \in DOMAIN results' : results'[j] = Then(j)
        BY <2>1
    <2>. QED BY <2>1, <2>2, <2>3 DEF BoardInv
<1>4. CASE Pause
    <2>1. /\ DOMAIN results' = DOMAIN results /\ config' = config /\ err' = err
          /\ \A j \in DOMAIN results' : results'[j] = Older(results[j])
        BY <1>4 DEF Pause
    <2>2. \A j \in DOMAIN results : Older(results[j]) \in Seq(Result) /\ Aged(Older(results[j]))
        BY OlderKeeps DEF BoardInv
    <2>. QED BY <2>1, <2>2 DEF BoardInv
<1>5. CASE Outage
    <2>1. err' = ~err /\ config' = config /\ results' = results
        BY <1>5 DEF Outage
    <2>. QED BY <2>1 DEF BoardInv
<1>6. CASE UNCHANGED gatus
    BY <1>6 DEF gatus, BoardInv
<1>. QED BY <1>1, <1>2, <1>3, <1>4, <1>5, <1>6 DEF GatusNext

LEMMA BoardAlways == GatusSpec => []BoardInv
<1>1. BoardInv /\ [GatusNext]_gatus => BoardInv'
    BY BoardStep
<1>. QED BY <1>1, BoardStart, PTL DEF GatusSpec

\* The word at the top of the board, in terms of the probes, for every
\* configuration and every history of results.
THEOREM OverallMeans == GatusSpec => []OverallMeaning
<1>1. BoardInv => OverallMeaning
    BY BoardMeans
<1>. QED BY <1>1, BoardAlways, PTL

\* No step, from whatever board to whatever other, makes a group look better
\* while no service got better.
THEOREM NeverLooksBetter == GatusSpec => WorseNeverLooksBetter
<1> DEFINE IsDerived == Derived(config, board)
<1>1. BoardInv => IsDerived
    BY BoardDerived
<1>2. BoardInv /\ IsDerived /\ IsDerived' /\ [GatusNext]_gatus =>
         [\/ UNCHANGED <<checks, err>>
          \/ \A before \in {board}, after \in {board'} : NothingBetter(before, after)]_gatus
    <2> SUFFICES ASSUME BoardInv, IsDerived, IsDerived', [GatusNext]_gatus
                 PROVE  NothingBetter(board, board')
        OBVIOUS
    <2>1. Derived(config, board) /\ Derived(config, board')
        BY BoardStep
    <2>2. Accepted(config)
        BY BoardAccepted
    <2>. QED BY <2>1, <2>2, Monotone
<1> HIDE DEF IsDerived
<1>. QED BY <1>1, <1>2, BoardAlways, PTL DEF GatusSpec, WorseNeverLooksBetter

-----------------------------------------------------------------------------
(* The counts of the board. *)

\* The classes of a finite set, as many as it may be split into, add up to it.
LEMMA PartitionSum ==
    ASSUME NEW S, IsFiniteSet(S), NEW N, IsFiniteSet(N), NEW f, \A s \in S : f[s] \in N
    PROVE  SumFunction([n \in N |-> Cardinality({s \in S : f[s] = n})]) = Cardinality(S)
<1> DEFINE Split(T) == [n \in N |-> Cardinality({s \in T : f[s] = n})]
           B == {T \in SUBSET S : SumFunction(Split(T)) # Cardinality(T)}
<1>1. ASSUME NEW T \in SUBSET S
      PROVE  /\ IsFiniteSet(T) /\ Cardinality(T) \in Nat
             /\ \A n \in N : /\ IsFiniteSet({s \in T : f[s] = n})
                             /\ Cardinality({s \in T : f[s] = n}) \in Nat
    <2>1. IsFiniteSet(T)
        BY FS_Subset
    <2>2. \A n : IsFiniteSet({s \in T : f[s] = n})
        BY <2>1, FS_Subset
    <2>. QED BY <2>1, <2>2, FS_CardinalityType
<1>2. ASSUME NEW T \in SUBSET S PROVE Numbers(Split(T))
    BY <1>1 DEF Numbers
<1>3. ASSUME B # {} PROVE FALSE
    <2>1. PICK T \in B : \A x \in T : T \ {x} \notin B
        <3>1. B \subseteq SUBSET S
            OBVIOUS
        <3> HIDE DEF B
        <3>. QED BY <1>3, <3>1, MinimalSet
    <2>2. T \in SUBSET S /\ SumFunction(Split(T)) # Cardinality(T)
        OBVIOUS
    <2>3. CASE T = {}
        <3>1. Cardinality(T) = 0
            BY <2>3, FS_EmptySet
        <3>2. \A n \in N : {s \in T : f[s] = n} = {}
            BY <2>3
        <3>3. \A n \in DOMAIN Split(T) : Split(T)[n] = 0
            BY <3>2, FS_EmptySet
        <3>4. Numbers(Split(T))
            BY <1>2, <2>2
        <3> HIDE DEF Split
        <3>5. SumFunction(Split(T)) = 0
            BY <3>3, <3>4, SumOfZeros
        <3>. QED BY <2>2, <3>1, <3>5
    <2>4. CASE T # {}
        <3>1. PICK x \in T : TRUE
            BY <2>4
        <3> DEFINE R == T \ {x}
                   k == f[x]
                   p == Split(R)
                   q == Split(T)
        <3>2. R \in SUBSET S /\ k \in N /\ R \notin B
            BY <2>1, <2>2, <3>1
        <3>3. SumFunction(p) = Cardinality(R)
            BY <3>2
        <3>4. Cardinality(R) = Cardinality(T) - 1 /\ Cardinality(T) \in Nat
            BY <1>1, <2>2, <3>1, FS_RemoveElement
        <3>5. /\ DOMAIN p = N /\ DOMAIN q = N
              /\ \A n \in N : p[n] = Cardinality({s \in R : f[s] = n})
              /\ \A n \in N : q[n] = Cardinality({s \in T : f[s] = n})
            OBVIOUS
        <3>6. \A n \in N \ {k} : q[n] = p[n]
            <4>1. \A n \in N \ {k} : {s \in R : f[s] = n} = {s \in T : f[s] = n}
                OBVIOUS
            <4>. QED BY <4>1
        <3>7. q[k] = p[k] + 1
            <4>1. {s \in R : f[s] = k} = {s \in T : f[s] = k} \ {x} /\ x \in {s \in T : f[s] = k}
                BY <3>1
            <4>2. IsFiniteSet({s \in T : f[s] = k}) /\ Cardinality({s \in T : f[s] = k}) \in Nat
                BY <1>1, <2>2, <3>2
            <4> DEFINE C == {s \in T : f[s] = k}
            <4>3. Cardinality(C \ {x}) = Cardinality(C) - 1
                <5> HIDE DEF C
                <5>. QED BY <4>1, <4>2, FS_RemoveElement DEF C
            <4>4. q[k] = Cardinality(C) /\ p[k] = Cardinality(C \ {x})
                BY <3>2, <3>5, <4>1
            <4>5. Cardinality(C) \in Nat
                BY <4>2
            <4> HIDE DEF C, p, q
            <4>. QED BY <4>3, <4>4, <4>5
        <3>8. Numbers(p)
            BY <1>2, <3>2
        <3>9. /\ DOMAIN q = DOMAIN p \cup {k} /\ \A y \in DOMAIN p \ {k} : q[y] = p[y]
              /\ q[k] = (IF k \in DOMAIN p THEN p[k] ELSE 0) + 1
            <4> HIDE DEF p, q, k
            <4>. QED BY <3>2, <3>5, <3>6, <3>7
        <3>10. 1 \in Int
            OBVIOUS
        <3> HIDE DEF p, q, k
        <3>11. SumFunction(q) = SumFunction(p) + 1
            BY <3>8, <3>9, <3>10, ColumnAfter
        <3>12. SumFunction(q) = Cardinality(T)
            BY <3>3, <3>4, <3>11
        <3>. QED BY <2>2, <3>12 DEF q
    <2>. QED BY <2>3, <2>4
<1>4. SumFunction(Split(S)) = Cardinality(S)
    BY <1>3
<1>. QED BY <1>4

LEMMA FiniteStatuses == IsFiniteSet(Statuses)
<1>1. IsFiniteSet({"ok"})
    BY FS_Singleton
<1>2. IsFiniteSet({"ok"} \cup {"degraded"})
    BY <1>1, FS_AddElement
<1>3. IsFiniteSet(({"ok"} \cup {"degraded"}) \cup {"down"})
    BY <1>2, FS_AddElement
<1>4. IsFiniteSet((({"ok"} \cup {"degraded"}) \cup {"down"}) \cup {"unknown"})
    BY <1>3, FS_AddElement
<1>5. IsFiniteSet(((({"ok"} \cup {"degraded"}) \cup {"down"}) \cup {"unknown"})
                     \cup {"maintenance"})
    BY <1>4, FS_AddElement
<1>6. Statuses = ((({"ok"} \cup {"degraded"}) \cup {"down"}) \cup {"unknown"})
                    \cup {"maintenance"}
    BY DEF Statuses
<1>. QED BY <1>5, <1>6

LEMMA BoardCounts == BoardInv => CountsAgree
<1> SUFFICES ASSUME BoardInv PROVE CountsAgree
    OBVIOUS
<1> DEFINE S == config.services
           N == config.nodes
           st == board.services
           on == config.nodeOf
           Failed == {s \in S : st[s] = "down"}
<1>1. /\ IsFiniteSet(S) /\ IsFiniteSet(N) /\ DOMAIN st = S
      /\ \A s \in S : on[s] \in N /\ st[s] \in Statuses
    BY BoardAccepted, BoardDerived DEF Accepted, Derived
<1>2. SumFunction(board.counts) = Cardinality(S)
    <2>1. board.counts = [v \in Statuses |-> Cardinality({s \in S : st[s] = v})]
        BY <1>1, BoardParts DEF CountStatuses
    <2> HIDE DEF S, st
    <2>. QED BY <1>1, <2>1, FiniteStatuses, PartitionSum
<1>3. SumFunction([n \in N |-> Cardinality(DOMAIN NodeFamily(config, n))]) = Cardinality(S)
    <2>1. [n \in N |-> Cardinality(DOMAIN NodeFamily(config, n))]
             = [n \in N |-> Cardinality({s \in S : on[s] = n})]
        BY DEF NodeFamily
    <2> HIDE DEF S, N, on
    <2>. QED BY <1>1, <2>1, PartitionSum
<1>4. SumFunction([n \in N |-> CountOf(st, NodeFamily(config, n), "down")]) = Cardinality(Failed)
    <2>1. ASSUME NEW n \in N
          PROVE  CountOf(st, NodeFamily(config, n), "down")
                    = Cardinality({s \in Failed : on[s] = n})
        <3> DEFINE l == NodeFamily(config, n)
        <3>1. DOMAIN l = {s \in S : on[s] = n} /\ \A s \in DOMAIN l : l[s] = s
            BY DEF NodeFamily
        <3> HIDE DEF l
        <3>2. {s \in DOMAIN l : st[l[s]] = "down"} = {s \in Failed : on[s] = n}
            BY <3>1
        <3>. QED BY <3>2 DEF CountOf, l
    <2>2. [n \in N |-> CountOf(st, NodeFamily(config, n), "down")]
             = [n \in N |-> Cardinality({s \in Failed : on[s] = n})]
        BY <2>1
    <2>3. IsFiniteSet(Failed) /\ \A s \in Failed : on[s] \in N
        BY <1>1, FS_Subset
    <2> HIDE DEF Failed, N, on
    <2>. QED BY <1>1, <2>2, <2>3, PartitionSum
<1>5. board.counts["down"] = Cardinality(Failed)
    BY <1>1, BoardParts DEF CountStatuses, Statuses
<1>. QED BY <1>2, <1>3, <1>4, <1>5 DEF CountsAgree

\* Every service is counted once, in the board's counts and on one node.
THEOREM CountsAddUp == GatusSpec => []CountsAgree
<1>1. BoardInv => CountsAgree
    BY BoardCounts
<1>. QED BY <1>1, BoardAlways, PTL

-----------------------------------------------------------------------------
(* The pages. *)

LEMMA ImageFinite ==
    ASSUME NEW f, IsFiniteSet(DOMAIN f)
    PROVE  IsFiniteSet({f[x] : x \in DOMAIN f})
<1> DEFINE g == [x \in DOMAIN f |-> f[x]]
<1>1. g \in Surjection(DOMAIN f, {f[x] : x \in DOMAIN f})
    BY DEF Surjection
<1>. QED BY <1>1, FS_Surjection

\* The results of a service that Gatus lists.
LEMMA EntriesSay ==
    ASSUME BoardInv, NEW s \in config.services, config.keyOf[s] \in DOMAIN results
    PROVE  LET r == results[config.keyOf[s]]
               E == Entries(config, results, s)
           IN  /\ IsFiniteSet(E)
               /\ \A e \in E : e.service = s /\ e.age \in Nat /\ r # <<>>
               /\ \A e \in E : e.age = r[Len(r)].age => e.success = r[Len(r)].success
               /\ r # <<>> => (E = {} <=> r[Len(r)].age = PageWindow)
<1> DEFINE r == results[config.keyOf[s]]
           J == {j \in DOMAIN r : r[j].age < PageWindow}
           f == [i \in J |-> [service |-> s, age |-> r[i].age, success |-> r[i].success]]
           E == Entries(config, results, s)
<1>1. r \in Seq(Result) /\ Aged(r) /\ Len(r) \in Nat /\ DOMAIN r = 1..Len(r)
    BY LenProperties DEF BoardInv
<1>2. E = {[service |-> s, age |-> r[i].age, success |-> r[i].success] : i \in J}
    BY DEF Entries
<1>3. PageWindow \in Nat \ {0}
    BY LimitsAssumption
<1> HIDE DEF r, E
<1>4. \A i \in 1..Len(r) : r[i].age \in Nat /\ r[i].age <= PageWindow
    <2>1. ASSUME NEW i \in 1..Len(r) PROVE r[i] \in Result
        BY <1>1, ElementOfSeq
    <2>2. \A x \in Result : x.age \in Nat /\ x.age <= PageWindow
        BY <1>3 DEF Result
    <2>. QED BY <2>1, <2>2
<1>5. IsFiniteSet(E)
    <2>1. IsFiniteSet(DOMAIN r)
        <3>1. Len(r) \in Int /\ DOMAIN r = 1..Len(r)
            BY <1>1
        <3>2. IsFiniteSet(1..Len(r))
            BY <3>1, FS_Interval
        <3>. QED BY <3>1, <3>2
    <2>2. IsFiniteSet(J)
        BY <2>1, FS_Subset
    <2>3. DOMAIN f = J /\ E = {f[i] : i \in DOMAIN f}
        BY <1>2
    <2> HIDE DEF f, J
    <2>. QED BY <2>2, <2>3, ImageFinite
<1>6. Len(r) = 0 <=> r = <<>>
    BY <1>1, EmptySeq
<1>7. ASSUME NEW e \in E
      PROVE  /\ e.service = s /\ e.age \in Nat /\ r # <<>>
             /\ e.age = r[Len(r)].age => e.success = r[Len(r)].success
    <2>1. PICK i \in J : e = [service |-> s, age |-> r[i].age, success |-> r[i].success]
        BY <1>2
    <2>2. i \in 1..Len(r) /\ r[i].age < PageWindow
        BY <1>1
    <2>3. e.age = r[i].age /\ e.service = s /\ e.success = r[i].success
        BY <2>1
    <2>4. Len(r) \in 1..Len(r)
        BY <1>1, <2>2
    <2>5. i < Len(r) => r[Len(r)].age < r[i].age \/ r[i].age = PageWindow
        BY <1>1, <2>2, <2>4 DEF Aged
    <2>6. e.age = r[Len(r)].age => i = Len(r)
        BY <1>1, <1>3, <1>4, <2>2, <2>3, <2>4, <2>5
    <2>. QED BY <1>4, <1>6, <2>2, <2>3, <2>4, <2>6
<1>8. ASSUME r # <<>> PROVE E = {} <=> r[Len(r)].age = PageWindow
    <2>1. Len(r) \in 1..Len(r)
        BY <1>1, <1>6, <1>8
    <2>2. ASSUME r[Len(r)].age # PageWindow PROVE E # {}
        <3>1. r[Len(r)].age < PageWindow
            BY <1>3, <1>4, <2>1, <2>2
        <3>2. Len(r) \in J
            BY <1>1, <2>1, <3>1
        <3>. QED BY <1>2, <3>2
    <2>3. ASSUME NEW i \in J PROVE r[Len(r)].age # PageWindow
        <3>1. i \in 1..Len(r) /\ r[i].age < PageWindow
            BY <1>1
        <3>2. i < Len(r) => r[Len(r)].age < r[i].age \/ r[i].age = PageWindow
            BY <1>1, <2>1, <3>1 DEF Aged
        <3>. QED BY <1>1, <1>3, <1>4, <2>1, <3>1, <3>2
    <2>4. E # {} => J # {}
        BY <1>2
    <2>. QED BY <2>2, <2>3, <2>4
<1>. QED BY <1>5, <1>7, <1>8 DEF r, E

\* The first so many of a finite set by age.
LEMMA NewestExist ==
    ASSUME NEW E, IsFiniteSet(E), \A e \in E : e.age \in Nat
    PROVE  \A n \in Nat : n <= Cardinality(E) =>
              \E K \in SUBSET E : /\ Cardinality(K) = n
                                  /\ \A k \in K, d \in E \ K : k.age <= d.age
<1> DEFINE Good(n, K) == /\ Cardinality(K) = n
                         /\ \A k \in K, d \in E \ K : k.age <= d.age
           missing == {n \in Nat : n <= Cardinality(E) /\ ~\E K \in SUBSET E : Good(n, K)}
<1>1. Cardinality(E) \in Nat
    BY FS_CardinalityType
<1>2. ASSUME missing # {} PROVE FALSE
    <2>1. missing \subseteq Nat
        OBVIOUS
    <2>2. PICK n \in missing : \A m \in missing : n <= m
        <3> HIDE DEF missing
        <3>. QED BY <1>2, <2>1, LeastNatural
    <2>3. n \in Nat /\ n <= Cardinality(E) /\ ~\E K \in SUBSET E : Good(n, K)
        BY <2>2
    <2>4. CASE n = 0
        <3>1. {} \in SUBSET E /\ Good(0, {})
            BY FS_EmptySet
        <3>. QED BY <2>3, <2>4, <3>1
    <2>5. CASE n # 0
        <3>1. n - 1 \in Nat /\ ~(n <= n - 1) /\ n - 1 <= Cardinality(E)
            BY <1>1, <2>3, <2>5
        <3>2. n - 1 \notin missing
            <4> HIDE DEF missing
            <4>. QED BY <2>2, <3>1
        <3>3. PICK K \in SUBSET E : Good(n - 1, K)
            BY <3>1, <3>2
        <3>4. IsFiniteSet(K) /\ Cardinality(K) = n - 1
            BY <3>3, FS_Subset
        <3> DEFINE R == E \ K
                   ages == {d.age : d \in R}
        <3>5. R # {}
            <4>1. Cardinality(K) # Cardinality(E)
                BY <1>1, <2>3, <3>4
            <4>2. K # E
                BY <4>1
            <4>. QED BY <4>2
        <3>6. ages \subseteq Nat /\ ages # {}
            BY <3>5
        <3>7. PICK a \in ages : \A b \in ages : a <= b
            <4> HIDE DEF ages
            <4>. QED BY <3>6, LeastNatural
        <3>8. PICK x \in R : a = x.age
            OBVIOUS
        <3> DEFINE L == K \cup {x}
        <3>9. Cardinality(L) = n
            <4>1. x \notin K
                OBVIOUS
            <4>2. Cardinality(L) = Cardinality(K) + 1
                BY <3>4, <4>1, FS_AddElement
            <4> HIDE DEF L
            <4>. QED BY <2>3, <3>4, <4>2
        <3>10. ASSUME NEW k \in L, NEW d \in E \ L PROVE k.age <= d.age
            <4>1. CASE k = x
                <5>1. d \in R
                    OBVIOUS
                <5>. QED BY <3>7, <3>8, <4>1, <5>1
            <4>2. CASE k \in K
                <5>1. d \in E \ K
                    OBVIOUS
                <5>. QED BY <3>3, <4>2, <5>1
            <4>. QED BY <4>1, <4>2
        <3>11. L \in SUBSET E /\ Good(n, L)
            <4>1. \A k \in L, d \in E \ L : k.age <= d.age
                BY <3>10
            <4>2. L \in SUBSET E
                OBVIOUS
            <4> HIDE DEF L
            <4>. QED BY <3>9, <4>1, <4>2
        <3>. QED BY <2>3, <3>11
    <2>. QED BY <2>4, <2>5
<1>. QED BY <1>2

LEMMA NewestSays ==
    ASSUME NEW E, IsFiniteSet(E), \A e \in E : e.age \in Nat, NEW limit \in Nat \ {0}
    PROVE  LET K == NewestEntries(E, limit)
           IN  /\ K \subseteq E /\ IsFiniteSet(K)
               /\ \A k \in K, d \in E \ K : k.age <= d.age
               /\ Cardinality(K) < limit => K = E
               /\ E # {} => K # {}
<1> DEFINE K == NewestEntries(E, limit)
           Good(T) == \A k \in T, d \in E \ T : k.age <= d.age
<1>1. Cardinality(E) \in Nat
    BY FS_CardinalityType
<1>2. CASE Cardinality(E) <= limit
    <2>1. K = E
        BY <1>2 DEF NewestEntries
    <2>. QED BY <2>1
<1>3. CASE ~(Cardinality(E) <= limit)
    <2>1. K = CHOOSE T \in kSubset(limit, E) : Good(T)
        BY <1>3 DEF NewestEntries
    <2>2. limit \in Nat /\ limit <= Cardinality(E)
        BY <1>1, <1>3
    <2>3. \E T \in kSubset(limit, E) : Good(T)
        BY <2>2, NewestExist DEF kSubset
    <2>4. K \in kSubset(limit, E) /\ Good(K)
        BY <2>1, <2>3
    <2>5. K \subseteq E /\ Cardinality(K) = limit
        BY <2>4 DEF kSubset
    <2>6. IsFiniteSet(K)
        BY <2>5, FS_Subset
    <2>7. K # {}
        BY <2>5, FS_EmptySet
    <2> HIDE DEF K
    <2>8. ~(Cardinality(K) < limit)
        BY <2>5
    <2>9. \A k \in K, d \in E \ K : k.age <= d.age
        BY <2>4
    <2>10. /\ K \subseteq E /\ IsFiniteSet(K)
           /\ \A k \in K, d \in E \ K : k.age <= d.age
           /\ Cardinality(K) < limit => K = E
           /\ E # {} => K # {}
        BY <2>5, <2>6, <2>7, <2>8, <2>9
    <2>. QED BY <2>10 DEF K
<1>. QED BY <1>2, <1>3

\* Everything that a page of these services could show.
Showable(services) == UNION {Entries(config, results, s) : s \in OnGatus(config, results, services)}

LEMMA ShowableSays ==
    ASSUME BoardInv, NEW services, services \subseteq config.services
    PROVE  LET U == Showable(services)
           IN  /\ IsFiniteSet(U) /\ \A e \in U : e.age \in Nat
               /\ \A s \in OnGatus(config, results, services) :
                     {e \in U : e.service = s} = Entries(config, results, s)
               /\ \A e \in U : e.service \in OnGatus(config, results, services)
<1> DEFINE U == Showable(services)
           G == OnGatus(config, results, services)
           f == [s \in G |-> Entries(config, results, s)]
<1>1. G \subseteq services /\ \A s \in G : config.keyOf[s] \in DOMAIN results
    BY DEF OnGatus, Mapped
<1>2. \A s \in G : /\ IsFiniteSet(Entries(config, results, s))
                   /\ \A e \in Entries(config, results, s) : e.service = s /\ e.age \in Nat
    BY <1>1, EntriesSay
<1>3. IsFiniteSet(G)
    <2>1. IsFiniteSet(config.services)
        BY BoardAccepted DEF Accepted
    <2>2. G \in SUBSET config.services
        BY <1>1
    <2>. QED BY <2>1, <2>2, FS_Subset
<1>4. U = UNION {f[s] : s \in DOMAIN f} /\ DOMAIN f = G
    BY DEF Showable
<1>5. IsFiniteSet({f[s] : s \in DOMAIN f}) /\ \A X \in {f[s] : s \in DOMAIN f} : IsFiniteSet(X)
    <2>1. \A s \in DOMAIN f : IsFiniteSet(f[s])
        BY <1>2
    <2>2. IsFiniteSet(DOMAIN f)
        BY <1>3, <1>4
    <2> HIDE DEF f
    <2>. QED BY <2>1, <2>2, ImageFinite
<1>6. IsFiniteSet(U)
    <2> HIDE DEF f
    <2>. QED BY <1>4, <1>5, FS_UNION
<1>7. ASSUME NEW e \in U PROVE e.age \in Nat /\ e.service \in G
    <2>1. PICK s \in G : e \in Entries(config, results, s)
        BY DEF Showable
    <2>. QED BY <1>2, <2>1
<1>8. ASSUME NEW s \in G PROVE {e \in U : e.service = s} = Entries(config, results, s)
    <2>1. ASSUME NEW e \in U, e.service = s PROVE e \in Entries(config, results, s)
        <3>1. PICK t \in G : e \in Entries(config, results, t)
            BY DEF Showable
        <3>2. t = s
            BY <1>2, <2>1, <3>1
        <3>. QED BY <3>1, <3>2
    <2>2. ASSUME NEW e \in Entries(config, results, s) PROVE e \in U /\ e.service = s
        BY <1>2 DEF Showable
    <2>. QED BY <2>1, <2>2
<1>. QED BY <1>6, <1>7, <1>8

\* What a page shows of one of its services.
LEMMA PageShows ==
    ASSUME BoardInv, NEW services, services \subseteq config.services,
           NEW limit \in Nat \ {0}
    PROVE  LET page == Page(config, results, services, limit)
           IN  /\ page.results \subseteq Showable(services) /\ IsFiniteSet(page.results)
               /\ Showable(services) # {} => page.results # {}
               /\ page.summary.total = Cardinality(page.results)
               /\ page.summary.successes + page.summary.failures = Cardinality(page.results)
               /\ page.endpoints <= Cardinality(config.services)
               /\ \A s \in OnGatus(config, results, services) :
                     /\ \A e \in Of(page, s), f \in Entries(config, results, s) :
                           f.age < e.age => f \in Of(page, s)
                     /\ page.summary.total < limit =>
                           Of(page, s) = Entries(config, results, s)
<1> DEFINE page == Page(config, results, services, limit)
           U == Showable(services)
           K == NewestEntries(U, limit)
<1>1. /\ IsFiniteSet(U) /\ \A e \in U : e.age \in Nat
      /\ \A s \in OnGatus(config, results, services) :
            {e \in U : e.service = s} = Entries(config, results, s)
    BY ShowableSays
<1>2. /\ page.results = K /\ page.summary = CheckSummary(K)
      /\ page.endpoints = Cardinality(Mapped(config, services))
    BY DEF Page, Showable
<1> HIDE DEF page, U
<1>3. /\ K \subseteq U /\ IsFiniteSet(K)
      /\ \A k \in K, d \in U \ K : k.age <= d.age
      /\ Cardinality(K) < limit => K = U
      /\ U # {} => K # {}
    BY <1>1, NewestSays
<1> HIDE DEF K
<1>4. page.summary.total = Cardinality(K)
    BY <1>2 DEF CheckSummary
<1>5. page.summary.successes + page.summary.failures = Cardinality(K)
    <2> DEFINE F == {e \in K : ~e.success}
    <2>1. page.summary.successes = Cardinality(K \ F) /\ page.summary.failures = Cardinality(F)
        BY <1>2 DEF CheckSummary
    <2>2. IsFiniteSet(F) /\ IsFiniteSet(K \ F) /\ F \cap (K \ F) = {} /\ K = (K \ F) \cup F
        BY <1>3, FS_Subset
    <2> HIDE DEF F
    <2>3. Cardinality((K \ F) \cup F) = Cardinality(K \ F) + Cardinality(F)
        <3>1. (K \ F) \cap F = {} /\ IsFiniteSet(F) /\ IsFiniteSet(K \ F)
            BY <2>2
        <3>2. /\ Cardinality(K \ F) \in Nat /\ Cardinality(F) \in Nat
              /\ Cardinality({}) = 0
            BY <3>1, FS_CardinalityType, FS_EmptySet
        <3>3. Cardinality((K \ F) \cup F)
                = Cardinality(K \ F) + Cardinality(F) - Cardinality((K \ F) \cap F)
            BY <3>1, FS_Union
        <3>4. Cardinality((K \ F) \cap F) = 0
            BY <3>1, <3>2
        <3>. QED BY <3>2, <3>3, <3>4
    <2>4. Cardinality((K \ F) \cup F) = Cardinality(K)
        BY <2>2
    <2>. QED BY <2>1, <2>3, <2>4
<1>6. page.endpoints <= Cardinality(config.services)
    <2>1. IsFiniteSet(config.services) /\ Mapped(config, services) \in SUBSET config.services
        BY BoardAccepted DEF Accepted, Mapped
    <2>. QED BY <1>2, <2>1, FS_Subset
<1>7. ASSUME NEW s \in OnGatus(config, results, services)
      PROVE  /\ \A e \in Of(page, s), f \in Entries(config, results, s) :
                   f.age < e.age => f \in Of(page, s)
             /\ page.summary.total < limit => Of(page, s) = Entries(config, results, s)
    <2>1. Of(page, s) = {e \in K : e.service = s}
        BY <1>2 DEF Of
    <2>2. Entries(config, results, s) = {e \in U : e.service = s}
        BY <1>1
    <2>3. ASSUME NEW e \in Of(page, s), NEW f \in Entries(config, results, s),
                 f.age < e.age, f \notin Of(page, s)
          PROVE  FALSE
        <3>1. e \in K /\ f \in U \ K
            BY <2>1, <2>2, <2>3
        <3>2. e.age <= f.age
            BY <1>3, <3>1
        <3>3. e.age \in Nat /\ f.age \in Nat
            BY <1>1, <1>3, <3>1
        <3>. QED BY <2>3, <3>2, <3>3
    <2>4. page.summary.total < limit => Of(page, s) = Entries(config, results, s)
        BY <1>3, <1>4, <2>1, <2>2
    <2>. QED BY <2>3, <2>4
<1>. QED BY <1>2, <1>3, <1>4, <1>5, <1>6, <1>7 DEF page, U

LEMMA ProbedListed ==
    ASSUME BoardInv, NEW s \in config.services, Probed(s)
    PROVE  /\ err = FALSE /\ config.keyOf[s] # NoKey /\ config.keyOf[s] \in DOMAIN results
           /\ results[config.keyOf[s]] # <<>>
           /\ \A services : s \in services => s \in OnGatus(config, results, services)
<1>1. /\ err = FALSE /\ config.keyOf[s] \in DOMAIN results
      /\ results[config.keyOf[s]] # <<>>
    BY DEF Probed, LastProbe, BoardInv
<1>2. NoKey \notin DOMAIN results
    BY BoardAccepted
<1>. QED BY <1>1, <1>2 DEF OnGatus, Mapped

\* Every page that s shares is one of services among which it is.
LEMMA SharedPage ==
    ASSUME BoardInv, NEW s \in config.services, Probed(s), NEW page \in SharedPages(s)
    PROVE  \E services : /\ services \subseteq config.services /\ s \in services
                         /\ page = Page(config, results, services, PageLimit)
<1>1. ~err
    BY ProbedListed
<1>2. CASE page = NodeChecks(config, results, err, config.nodeOf[s])
    <2> DEFINE T == {t \in config.services : config.nodeOf[t] = config.nodeOf[s]}
    <2>1. page = Page(config, results, T, PageLimit)
        BY <1>1, <1>2 DEF NodeChecks
    <2>2. T \subseteq config.services /\ s \in T
        OBVIOUS
    <2>. QED BY <2>1, <2>2
<1>3. ASSUME NEW p \in config.projects, Owns(config, p, s),
             page = ProjectChecks(config, results, err, p)
      PROVE  \E services : /\ services \subseteq config.services /\ s \in services
                           /\ page = Page(config, results, services, PageLimit)
    <2>1. page = Page(config, results, OwnedServices(config, p), PageLimit)
        BY <1>1, <1>3 DEF ProjectChecks
    <2>2. OwnedServices(config, p) \subseteq config.services /\ s \in OwnedServices(config, p)
        BY <1>3 DEF OwnedServices
    <2>. QED BY <2>1, <2>2
<1>. QED BY <1>2, <1>3 DEF SharedPages

LEMMA PagesMatch == BoardInv => PagesAgree
<1> SUFFICES ASSUME BoardInv, NEW s \in config.services, Probed(s)
             PROVE  LET own == ServiceChecks(config, results, err, s)
                        entries == Entries(config, results, s)
                        Gapless(shown) ==
                            \A e \in shown, f \in entries : f.age < e.age => f \in shown
                    IN  /\ own.results = {} <=> LastAge(s) = PageWindow
                        /\ Gapless(own.results)
                        /\ own.summary.total < ServiceLimit => own.results = entries
                        /\ \A page \in SharedPages(s) :
                              /\ Gapless(Of(page, s))
                              /\ page.summary.total < PageLimit => Of(page, s) = entries
                              /\ page.summary.successes + page.summary.failures
                                    = Cardinality(page.results)
                              /\ page.endpoints <= Cardinality(config.services)
    BY DEF PagesAgree
<1> DEFINE own == ServiceChecks(config, results, err, s)
           entries == Entries(config, results, s)
<1>1. /\ ~err /\ config.keyOf[s] \in DOMAIN results /\ results[config.keyOf[s]] # <<>>
      /\ \A services : s \in services => s \in OnGatus(config, results, services)
    BY ProbedListed
<1>2. ServiceLimit \in Nat \ {0} /\ PageLimit \in Nat \ {0}
    BY LimitsAssumption
<1>3. own = Page(config, results, {s}, ServiceLimit)
    BY <1>1 DEF ServiceChecks
<1>4. {s} \subseteq config.services /\ s \in OnGatus(config, results, {s})
    BY <1>1
<1>5. Showable({s}) = entries
    <2>1. OnGatus(config, results, {s}) = {s}
        BY <1>4 DEF OnGatus, Mapped
    <2>. QED BY <2>1 DEF Showable
<1>6. /\ entries = {} <=> LastAge(s) = PageWindow
      /\ \A e \in entries : e.service = s
    BY <1>1, EntriesSay DEF LastAge
<1> HIDE DEF own, entries
<1>7. /\ own.results \subseteq entries /\ (entries # {} => own.results # {})
      /\ \A e \in Of(own, s), f \in entries : f.age < e.age => f \in Of(own, s)
      /\ own.summary.total < ServiceLimit => Of(own, s) = entries
    <2> DEFINE page == Page(config, results, {s}, ServiceLimit)
    <2>1. /\ page.results \subseteq Showable({s})
          /\ Showable({s}) # {} => page.results # {}
          /\ \A t \in OnGatus(config, results, {s}) :
                /\ \A e \in Of(page, t), f \in Entries(config, results, t) :
                      f.age < e.age => f \in Of(page, t)
                /\ page.summary.total < ServiceLimit =>
                      Of(page, t) = Entries(config, results, t)
        BY <1>2, <1>4, PageShows
    <2> HIDE DEF page
    <2>2. own = page
        BY <1>3 DEF page
    <2>3. Entries(config, results, s) = entries
        BY DEF entries
    <2>. QED BY <1>4, <1>5, <1>6, <2>1, <2>2, <2>3
<1>8. Of(own, s) = own.results
    BY <1>6, <1>7 DEF Of
<1>9. ASSUME NEW page \in SharedPages(s)
      PROVE  /\ \A e \in Of(page, s), f \in entries : f.age < e.age => f \in Of(page, s)
             /\ page.summary.total < PageLimit => Of(page, s) = entries
             /\ page.summary.successes + page.summary.failures = Cardinality(page.results)
             /\ page.endpoints <= Cardinality(config.services)
    <2>1. PICK services : /\ services \subseteq config.services /\ s \in services
                          /\ page = Page(config, results, services, PageLimit)
        BY SharedPage
    <2>2. s \in OnGatus(config, results, services)
        BY <1>1, <2>1
    <2>. QED BY <1>2, <2>1, <2>2, PageShows DEF entries
<1>10. \A e \in own.results, f \in entries : f.age < e.age => f \in own.results
    BY <1>7, <1>8
<1>11. own.summary.total < ServiceLimit => own.results = entries
    BY <1>7, <1>8
<1>12. own.results = {} <=> LastAge(s) = PageWindow
    BY <1>6, <1>7
<1>. QED BY <1>9, <1>10, <1>11, <1>12 DEF own, entries

\* The three kinds of pages show the same results of a service.
THEOREM PagesTellTheSame == GatusSpec => []PagesAgree
<1>1. BoardInv => PagesAgree
    BY PagesMatch
<1>. QED BY <1>1, BoardAlways, PTL

LEMMA PageAndBoard == BoardInv => PageMatchesBoard
<1> SUFFICES ASSUME BoardInv, NEW p \in config.projects
             PROVE  LET detail == ProjectDetail(config, board.services, p)
                        page == ProjectChecks(config, results, err, p)
                        Noted(s) == ConfigIssue("warn", "service-project-list", s)
                                        \in ConfigIssues(config, DOMAIN checks, err)
                    IN  /\ board.projects[p] = "ok" => \A s \in detail.failures : Noted(s)
                        /\ board.projects[p] = "down" =>
                              detail.failures \cap config.critical # {}
                        /\ detail.failures = {} =>
                              board.projects[p] = "ok" \/ ListedServices(config, p) = {}
                        /\ ~err => \A e \in page.results :
                              e.age = LastAge(e.service) =>
                                  (e.success <=> e.service \notin detail.failures)
    BY DEF PageMatchesBoard
<1> DEFINE F == ProjectDetail(config, board.services, p).failures
           O == OwnedServices(config, p)
           S == ListedServices(config, p)
           st == board.services
<1>1. F = {s \in O : st[s] \notin Healthy} /\ O \subseteq config.services
    BY DEF ProjectDetail, OwnedServices
<1>2. S \subseteq config.services /\ S \subseteq O
    BY ProjectSays DEF OwnedServices, Owns
<1>3. \A s \in config.services : /\ st[s] \in {"ok", "down", "unknown"}
                                 /\ st[s] = "ok" <=> LastProbe(s, TRUE)
                                 /\ st[s] = "down" <=> LastProbe(s, FALSE)
    BY ServiceSays
<1>4. /\ board.projects[p] = "down" <=>
            \E s \in S : s \in config.critical /\ LastProbe(s, FALSE)
      /\ board.projects[p] = "ok" <=> S # {} /\ \A s \in S : LastProbe(s, TRUE)
    BY ProjectSays
<1> HIDE DEF F, O, S, st
<1>5. F = {s \in O : st[s] # "ok"}
    BY <1>1, <1>3 DEF Healthy
<1>6. ASSUME board.projects[p] = "ok", NEW s \in F
      PROVE  ConfigIssue("warn", "service-project-list", s)
                \in ConfigIssues(config, DOMAIN checks, err)
    <2>1. s \in config.services /\ s \in O /\ s \notin S
        BY <1>1, <1>3, <1>4, <1>5, <1>6
    <2>2. config.projectOf[s] = p
        BY <2>1 DEF O, S, OwnedServices, Owns
    <2> DEFINE i == ConfigIssue("warn", "service-project-list", s)
    <2>3. i \in ServiceIssues(config, DOMAIN checks, err, s)
        <3>1. config.projectOf[s] \in config.projects
                /\ s \notin ListedServices(config, config.projectOf[s])
            BY <2>1, <2>2 DEF S
        <3>. QED BY <3>1, Zenon DEF ServiceIssues
    <2> HIDE DEF i
    <2>4. i \in UNION {ServiceIssues(config, DOMAIN checks, err, t) : t \in config.services}
        BY <2>1, <2>3
    <2>5. i \in ConfigIssues(config, DOMAIN checks, err)
        BY <2>4, Zenon DEF ConfigIssues
    <2>. QED BY <2>5 DEF i
<1>7. board.projects[p] = "down" => F \cap config.critical # {}
    BY <1>2, <1>3, <1>4, <1>5
<1>8. F = {} => board.projects[p] = "ok" \/ S = {}
    BY <1>2, <1>3, <1>4, <1>5
<1>9. ASSUME ~err, NEW e \in ProjectChecks(config, results, err, p).results,
             e.age = LastAge(e.service)
      PROVE  e.success <=> e.service \notin F
    <2>1. e \in Page(config, results, O, PageLimit).results
        BY <1>9 DEF ProjectChecks, O
    <2>2. e \in Showable(O)
        BY <1>1, <2>1, LimitsAssumption, PageShows
    <2>3. PICK s \in OnGatus(config, results, O) : e \in Entries(config, results, s)
        BY <2>2 DEF Showable
    <2>4. s \in O /\ config.keyOf[s] \in DOMAIN results
        BY <2>3 DEF OnGatus, Mapped
    <2> DEFINE r == results[config.keyOf[s]]
    <2>5. e.service = s /\ r # <<>> /\ (e.age = r[Len(r)].age => e.success = r[Len(r)].success)
        BY <1>1, <2>3, <2>4, EntriesSay
    <2>6. e.age = r[Len(r)].age
        BY <1>9, <2>5 DEF LastAge
    <2>7. e.success <=> LastProbe(s, TRUE)
        <3>1. r \in Seq(Result)
            BY <2>4 DEF BoardInv
        <3>2. r[Len(r)].success \in BOOLEAN
            BY <2>5, <3>1, OutcomesSay DEF Result
        <3>. QED BY <1>9, <2>4, <2>5, <2>6, <3>2 DEF LastProbe
    <2>8. LastProbe(s, TRUE) <=> st[s] = "ok"
        BY <1>1, <1>3, <2>4
    <2>9. s \notin F <=> st[s] = "ok"
        BY <1>5, <2>4
    <2>. QED BY <2>5, <2>7, <2>8, <2>9
<1>10. /\ board.projects[p] = "ok" => \A s \in F :
             ConfigIssue("warn", "service-project-list", s)
                \in ConfigIssues(config, DOMAIN checks, err)
       /\ ~err => \A e \in ProjectChecks(config, results, err, p).results :
             e.age = LastAge(e.service) => (e.success <=> e.service \notin F)
    BY <1>6, <1>9
<1>. QED BY <1>7, <1>8, <1>10 DEF F, S

\* A project's page and the board part only over services that name the project
\* without being listed by it.
THEOREM PagesMatchTheBoard == GatusSpec => []PageMatchesBoard
<1>1. BoardInv => PageMatchesBoard
    BY PageAndBoard
<1>. QED BY <1>1, BoardAlways, PTL
=============================================================================
