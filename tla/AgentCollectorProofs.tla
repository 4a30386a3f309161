------------------------- MODULE AgentCollectorProofs -------------------------
(***************************************************************************)
(* The properties of AgentCollector for any number of runs, any interval   *)
(* and any clock:                                                          *)
(*                                                                         *)
(*   TypeCorrect      Spec => []TypeOK                                     *)
(*   CachedIsRecent   Spec => []OkIsRecent                                 *)
(*   ReadableAlways   Spec => []CacheReadable                              *)
(*   LoneSaves        Spec => LoneRunSaves                                 *)
(*                                                                         *)
(* Collected: a run collects after it began.  RecentInv: no entry claims   *)
(* to be newer than it is by more than what its run was at work and the    *)
(* clock was set back (AllHonest).  ReadableInv and LoneInv: who is at     *)
(* work alone knows what the file it writes aside holds; the first speaks  *)
(* of all runs as long as none overlapped, the second of each run by       *)
(* itself, whatever happened before it.                                    *)
(***************************************************************************)
EXTENDS AgentCollector, TLAPS

USE DEF Times, Offsets

-----------------------------------------------------------------------------

LEMMA InitType == Init => TypeOK
  <1> SUFFICES ASSUME Init PROVE TypeOK
    OBVIOUS
  <1>1. /\ now \in Times /\ offset \in Offsets /\ setback \in Nat
        /\ value \in [Runs -> Times] /\ began \in [Runs -> 1..now]
    BY BoundAssumption DEF Init
  <1>2. alone \in [Runs -> BOOLEAN] /\ overlapped \in BOOLEAN
    BY DEF Init
  <1>3. /\ pc \in [Runs -> {"idle", "collect", "open", "write", "replace"}]
        /\ file \in [Runs -> {"none", "tmp", "path", "gone"}]
        /\ \A r \in Runs : file[r] # "none" <=> pc[r] = "write"
    BY DEF Init
  <1>4. QED
    BY <1>1, <1>2, <1>3 DEF Init, TypeOK

\* What ends with a status keeps its type.
LEMMA ReportType ==
    ASSUME TypeOK, NEW r \in Runs, NEW ok \in BOOLEAN, NEW cached \in BOOLEAN,
           NEW entry \in Entry \cup {Nothing}, Report(r, ok, cached, entry)
    PROVE  /\ pc' \in [Runs -> {"idle", "collect", "open", "write", "replace"}]
           /\ file' \in [Runs -> {"none", "tmp", "path", "gone"}]
           /\ \A x \in Runs : file'[x] # "none" <=> pc'[x] = "write"
           /\ held' \in [Runs -> Entry \cup {Nothing}]
           /\ value' \in [Runs -> Times] /\ began' \in [Runs -> 1..now]
           /\ status' \in [Runs -> Status \cup {Nothing}]
  <1>1. [ok |-> ok, cached |-> cached, entry |-> entry, at |-> now,
         setback |-> setback] \in Status
    BY DEF TypeOK, Status
  <1>2. QED
    BY <1>1, BoundAssumption DEF TypeOK, Report, Goto

LEMMA ReuseType ==
    ASSUME TypeOK, NEW r \in Runs, Reuse(r)
    PROVE  /\ pc' \in [Runs -> {"idle", "collect", "open", "write", "replace"}]
           /\ file' \in [Runs -> {"none", "tmp", "path", "gone"}]
           /\ \A x \in Runs : file'[x] # "none" <=> pc'[x] = "write"
           /\ held' \in [Runs -> Entry \cup {Nothing}]
           /\ value' \in [Runs -> Times] /\ began' \in [Runs -> 1..now]
           /\ status' \in [Runs -> Status \cup {Nothing}]
  <1>1. held[r] \in Entry \cup {Nothing} /\ (held[r] # Nothing) \in BOOLEAN
    BY DEF TypeOK
  <1>2. QED
    BY <1>1, ReportType DEF Reuse

LEMMA LoadedType == TypeOK => Loaded \in Entry \cup {Nothing}
  BY DEF TypeOK, Loaded

\* What Write writes.
Fresh(r) == [captured |-> Wall, value |-> value[r], work |-> now - began[r],
             setback |-> setback]

LEMMA WriteFiles ==
    ASSUME TypeOK, NEW r \in Runs, Write(r)
    PROVE  /\ Fresh(r) \in Entry
           /\ tmp' = tmp \/ tmp' = Fresh(r) \/ tmp' = Garbled
           /\ path' = path \/ path' = Fresh(r) \/ path' = Garbled
  BY DEF TypeOK, Write, Written, Fresh, Wall, Entry

LEMMA StepType == TypeOK /\ [Next]_vars => TypeOK'
  <1> SUFFICES ASSUME TypeOK, [Next]_vars PROVE TypeOK'
    OBVIOUS
  <1>1. ASSUME NEW r \in Runs, Load(r) PROVE TypeOK'
    <2>1. CASE Loaded # Nothing /\ Young(Loaded)
      <3>1. Report(r, TRUE, TRUE, Loaded) /\ UNCHANGED <<clock, files, alone, overlapped>>
        BY <1>1, <2>1 DEF Load
      <3>2. QED
        BY <3>1, LoadedType, ReportType DEF TypeOK, clock, files
    <2>2. CASE ~(Loaded # Nothing /\ Young(Loaded))
      <3> DEFINE others == {x \in Runs \ {r} : pc[x] # "idle"}
      <3>1. alone' \in [Runs -> BOOLEAN] /\ overlapped' \in BOOLEAN
        <4>1. \A x \in Runs : \A b \in BOOLEAN :
                 (IF x = r THEN others = {} ELSE b /\ x \notin others) \in BOOLEAN
          BY Zenon
        <4>2. alone' = [x \in Runs |-> IF x = r THEN others = {}
                                       ELSE alone[x] /\ x \notin others]
          BY <1>1, <2>2, Zenon DEF Load
        <4>3. overlapped' = (overlapped \/ others # {})
          BY <1>1, <2>2, Zenon DEF Load
        <4>4. \A x \in Runs : alone[x] \in BOOLEAN
          BY DEF TypeOK
        <4>5. \A x \in Runs : (IF x = r THEN others = {}
                                ELSE alone[x] /\ x \notin others) \in BOOLEAN
          BY <4>1, <4>4
        <4>6. alone' \in [Runs -> BOOLEAN]
          BY <4>2, <4>5, Zenon
        <4>7. overlapped' \in BOOLEAN
          <5>1. (overlapped \/ others # {}) \in BOOLEAN
            BY Zenon
          <5>2. QED
            BY <4>3, <5>1, Zenon
        <4>8. QED
          BY <4>6, <4>7, Zenon
      <3>2. /\ held' = [held EXCEPT ![r] = Loaded]
            /\ status' = [status EXCEPT ![r] = Nothing]
            /\ pc' = [pc EXCEPT ![r] = "collect"]
            /\ pc[r] = "idle"
            /\ began' = [began EXCEPT ![r] = now]
            /\ UNCHANGED <<file, value, clock, files>>
        BY <1>1, <2>2, Zenon DEF Load, Goto
      <3>3. QED
        BY <3>1, <3>2, LoadedType DEF TypeOK, clock, files
    <2>3. QED
      BY <2>1, <2>2
  <1>2. ASSUME NEW r \in Runs, Collect(r) PROVE TypeOK'
    <2>1. CASE Reuse(r)
      BY <1>2, <2>1, ReuseType DEF Collect, TypeOK, clock, files
    <2>2. CASE ~Reuse(r)
      BY <1>2, <2>2 DEF Collect, TypeOK, Goto, clock, files
    <2>3. QED
      BY <2>1, <2>2
  <1>3. ASSUME NEW r \in Runs, Open(r) PROVE TypeOK'
    BY <1>3 DEF Open, TypeOK, Goto, clock
  <1>4. ASSUME NEW r \in Runs, Write(r) PROVE TypeOK'
    <2>1. /\ tmp' \in Entry \cup {NoFile, Empty, Garbled}
          /\ path' \in Entry \cup {NoFile, Empty, Garbled}
      BY <1>4, WriteFiles DEF TypeOK
    <2>2. QED
      BY <1>4, <2>1 DEF Write, TypeOK, Goto, clock
  <1>5. ASSUME NEW r \in Runs, Replace(r) PROVE TypeOK'
    <2>1. CASE tmp = NoFile
      BY <1>5, <2>1, ReuseType DEF Replace, TypeOK, clock, files
    <2>2. CASE tmp # NoFile
      <3>1. [ok |-> TRUE, cached |-> FALSE, entry |-> Nothing, at |-> now,
             setback |-> setback] \in Status
        BY DEF TypeOK, Status
      <3>2. /\ file' \in [Runs -> {"none", "tmp", "path", "gone"}]
            /\ \A x \in Runs : file'[x] # "none" <=> pc'[x] = "write"
        BY <1>5, <2>2 DEF Replace, TypeOK, Goto, Moved
      <3>3. /\ status' \in [Runs -> Status \cup {Nothing}]
            /\ held' \in [Runs -> Entry \cup {Nothing}]
            /\ value' \in [Runs -> Times] /\ began' \in [Runs -> 1..now]
            /\ pc' \in [Runs -> {"idle", "collect", "open", "write", "replace"}]
        <4>1. /\ status' = [status EXCEPT ![r] = [ok |-> TRUE,
                    cached |-> FALSE, entry |-> Nothing, at |-> now,
                    setback |-> setback]]
              /\ held' = [held EXCEPT ![r] = Nothing]
              /\ value' = [value EXCEPT ![r] = 1]
              /\ began' = [began EXCEPT ![r] = 1]
              /\ pc' = [pc EXCEPT ![r] = "idle"]
          BY <1>5, <2>2, Zenon DEF Replace, Goto
        <4>2. QED
          BY <3>1, <4>1, BoundAssumption DEF TypeOK
      <3>4. /\ path' = tmp /\ tmp' = NoFile
            /\ UNCHANGED <<clock, alone, overlapped>>
        BY <1>5, <2>2 DEF Replace
      <3>5. QED
        BY <3>2, <3>3, <3>4 DEF TypeOK, clock
    <2>3. QED
      BY <2>1, <2>2
  <1>6. ASSUME NEW r \in Runs, Fault(r) PROVE TypeOK'
    BY <1>6, ReuseType DEF Fault, TypeOK, clock, files
  <1>7. ASSUME NEW r \in Runs, Kill(r) PROVE TypeOK'
    BY <1>7, BoundAssumption DEF Kill, TypeOK, Goto, clock, files
  <1>8. CASE Tick
    BY <1>8, BoundAssumption DEF Tick, TypeOK, files, locals
  <1>9. ASSUME NEW o \in Offsets, SetClock(o) PROVE TypeOK'
    BY <1>9, BoundAssumption DEF SetClock, TypeOK, Positive, files, locals
  <1>10. CASE UNCHANGED vars
    BY <1>10 DEF vars, TypeOK, clock, files, locals
  <1>11. QED
    BY <1>1, <1>2, <1>3, <1>4, <1>5, <1>6, <1>7, <1>8, <1>9, <1>10 DEF Next

(***************************************************************************)
(* Types: in particular a file is open exactly while a run is writing, and *)
(* nothing that cannot be read is ever held or reported.                   *)
(***************************************************************************)
THEOREM TypeCorrect == Spec => []TypeOK
  BY InitType, StepType, PTL DEF Spec

-----------------------------------------------------------------------------

\* An entry does not claim to be newer than its value is, by more than what its
\* run was at work and the clock was set back since it was saved.
Honest(e) == e \in Entry =>
    e.captured <= e.value + e.work + offset + (setback - e.setback)

\* Every entry a run can still report is honest.
AllHonest ==
    /\ Honest(path) /\ Honest(tmp)
    /\ \A r \in Runs : Honest(held[r])

\* A run has collected since it began.
Collected == \A r \in Runs :
    pc[r] \in {"open", "write", "replace"} => began[r] <= value[r]

RecentInv == AllHonest /\ OkIsRecent

\* Honest entries stay so, also when the clock is set back.
LEMMA HonestLater ==
    ASSUME TypeOK, NEW o \in Offsets, NEW e, Honest(e),
           offset' = o, setback' = setback + Positive(offset - o)
    PROVE  Honest(e)'
  BY BoundAssumption DEF TypeOK, Honest, Entry, Positive

\* The reason for the bound: what Load takes for young is young.
LEMMA YoungIsRecent ==
    ASSUME TypeOK, NEW e \in Entry, Honest(e), Young(e)
    PROVE  now - e.value < Interval + e.work + (setback - e.setback)
  BY IntervalAssumption DEF TypeOK, Honest, Young, Positive, Wall, Entry

LEMMA InitRecent == Init => RecentInv
  BY SentinelAssumption DEF Init, RecentInv, AllHonest, Honest, OkIsRecent

\* Ends of runs that report a failure, or nothing.
LEMMA ReuseRecent ==
    ASSUME TypeOK, RecentInv, NEW r \in Runs, Reuse(r),
           UNCHANGED <<clock, files>>
    PROVE  RecentInv'
  <1>1. AllHonest'
    BY SentinelAssumption
    DEF Reuse, Report, TypeOK, RecentInv, AllHonest, Honest, clock, files
  <1>2. OkIsRecent'
    BY DEF Reuse, Report, TypeOK, RecentInv, OkIsRecent
  <1>3. QED
    BY <1>1, <1>2 DEF RecentInv

LEMMA StepCollected == TypeOK /\ Collected /\ [Next]_vars => Collected'
  <1> SUFFICES ASSUME TypeOK, Collected, [Next]_vars PROVE Collected'
    OBVIOUS
  <1>1. ASSUME NEW r \in Runs, Reuse(r) PROVE Collected'
    BY <1>1 DEF Reuse, Report, Goto, TypeOK, Collected
  <1>2. ASSUME NEW r \in Runs, Load(r) PROVE Collected'
    <2>1. pc' = [pc EXCEPT ![r] = "idle"] \/ pc' = [pc EXCEPT ![r] = "collect"]
      BY <1>2 DEF Load, Report, Goto
    <2>2. \A x \in Runs \ {r} : began'[x] = began[x] /\ value'[x] = value[x]
      BY <1>2 DEF Load, Report, TypeOK
    <2>3. QED
      BY <2>1, <2>2 DEF Collected, TypeOK
  <1>3. ASSUME NEW r \in Runs, Collect(r) PROVE Collected'
    <2>1. CASE ~Reuse(r)
      BY <1>3, <2>1 DEF Collect, Goto, TypeOK, Collected
    <2>2. QED
      BY <1>1, <2>1
  <1>4. ASSUME NEW r \in Runs, Open(r) \/ Write(r) PROVE Collected'
    BY <1>4 DEF Open, Write, Goto, TypeOK, Collected
  <1>5. ASSUME NEW r \in Runs, Replace(r) PROVE Collected'
    <2>1. CASE ~Reuse(r)
      BY <1>5, <2>1 DEF Replace, Goto, TypeOK, Collected
    <2>2. QED
      BY <1>1, <2>1
  <1>6. ASSUME NEW r \in Runs, Kill(r) PROVE Collected'
    BY <1>6 DEF Kill, Goto, TypeOK, Collected
  <1>7. CASE Tick \/ (\E o \in Offsets : SetClock(o)) \/ UNCHANGED vars
    BY <1>7 DEF Tick, SetClock, vars, locals, Collected
  <1>8. QED
    BY <1>1, <1>2, <1>3, <1>4, <1>5, <1>6, <1>7 DEF Next, Fault

LEMMA StepRecent ==
    ASSUME TypeOK, Collected, RecentInv, [Next]_vars
    PROVE  RecentInv'
  <1> SUFFICES ASSUME TypeOK, Collected, RecentInv, [Next]_vars PROVE RecentInv'
    OBVIOUS
  <1>1. ASSUME NEW r \in Runs, Load(r) PROVE RecentInv'
    <2>1. CASE Loaded # Nothing /\ Young(Loaded)
      <3>1. Loaded \in Entry /\ Honest(Loaded)
        BY <2>1, LoadedType DEF Loaded, RecentInv, AllHonest
      <3>2. now - Loaded.value < Interval + Loaded.work + (setback - Loaded.setback)
        BY <2>1, <3>1, YoungIsRecent
      <3>3. Report(r, TRUE, TRUE, Loaded) /\ UNCHANGED <<clock, files>>
        BY <1>1, <2>1 DEF Load
      <3>4. OkIsRecent'
        <4>1. \A x \in Runs : status'[x] =
                 IF x = r THEN [ok |-> TRUE, cached |-> TRUE, entry |-> Loaded,
                                at |-> now, setback |-> setback]
                 ELSE status[x]
          BY <3>3 DEF Report, TypeOK
        <4> DEFINE Recent(st) ==
               st # Nothing /\ st.ok /\ st.cached =>
                  st.at - st.entry.value <
                     Interval + st.entry.work + (st.setback - st.entry.setback)
        <4>2. \A x \in Runs : Recent(status[x])
          BY DEF RecentInv, OkIsRecent
        <4>3. Recent([ok |-> TRUE, cached |-> TRUE, entry |-> Loaded,
                      at |-> now, setback |-> setback])
          BY <3>2
        <4> HIDE DEF Recent
        <4>4. \A x \in Runs : Recent(status'[x])
          BY <4>1, <4>2, <4>3
        <4>5. QED
          BY <4>4 DEF Recent, OkIsRecent
      <3>5. AllHonest'
        BY <3>3, SentinelAssumption
        DEF Report, TypeOK, RecentInv, AllHonest, Honest, clock, files
      <3>6. QED
        BY <3>4, <3>5 DEF RecentInv
    <2>2. CASE ~(Loaded # Nothing /\ Young(Loaded))
      <3>1. Honest(Loaded)
        BY SentinelAssumption DEF Loaded, RecentInv, AllHonest, Honest
      <3>2. AllHonest'
        <4>1. /\ held' = [held EXCEPT ![r] = Loaded]
              /\ UNCHANGED <<clock, files>>
          BY <1>1, <2>2 DEF Load
        <4>2. QED
          BY <3>1, <4>1 DEF TypeOK, RecentInv, AllHonest, Honest, clock, files
      <3>3. OkIsRecent'
        BY <1>1, <2>2 DEF Load, TypeOK, RecentInv, OkIsRecent
      <3>4. QED
        BY <3>2, <3>3 DEF RecentInv
    <2>3. QED
      BY <2>1, <2>2
  <1>2. ASSUME NEW r \in Runs, Collect(r) PROVE RecentInv'
    <2>1. CASE Reuse(r)
      BY <1>2, <2>1, ReuseRecent DEF Collect
    <2>2. CASE ~Reuse(r)
      BY <1>2, <2>2
      DEF Collect, RecentInv, AllHonest, Honest, OkIsRecent, clock, files
    <2>3. QED
      BY <2>1, <2>2
  <1>3. ASSUME NEW r \in Runs, Open(r) PROVE RecentInv'
    BY <1>3, SentinelAssumption
    DEF Open, RecentInv, AllHonest, Honest, OkIsRecent, clock
  <1>4. ASSUME NEW r \in Runs, Write(r) PROVE RecentInv'
    <2>1. Honest(Fresh(r)) /\ Honest(Garbled)
      <3>1. began[r] <= value[r]
        BY <1>4 DEF Write, Collected
      <3>2. QED
        BY <3>1, SentinelAssumption DEF TypeOK, Honest, Fresh, Wall
    <2>2. UNCHANGED <<clock, held, status>>
      BY <1>4 DEF Write
    <2>3. Honest(path)' /\ Honest(tmp)'
      BY <1>4, <2>1, <2>2, WriteFiles DEF Honest, RecentInv, AllHonest, clock
    <2>4. QED
      BY <2>2, <2>3 DEF RecentInv, AllHonest, Honest, OkIsRecent, clock
  <1>5. ASSUME NEW r \in Runs, Replace(r) PROVE RecentInv'
    <2>1. CASE tmp = NoFile
      BY <1>5, <2>1, ReuseRecent DEF Replace
    <2>2. CASE tmp # NoFile
      <3>1. AllHonest'
        BY <1>5, <2>2, SentinelAssumption
        DEF Replace, TypeOK, RecentInv, AllHonest, Honest, clock
      <3>2. OkIsRecent'
        BY <1>5, <2>2 DEF Replace, TypeOK, RecentInv, OkIsRecent
      <3>3. QED
        BY <3>1, <3>2 DEF RecentInv
    <2>3. QED
      BY <2>1, <2>2
  <1>6. ASSUME NEW r \in Runs, Fault(r) PROVE RecentInv'
    BY <1>6, ReuseRecent DEF Fault
  <1>7. ASSUME NEW r \in Runs, Kill(r) PROVE RecentInv'
    BY <1>7, SentinelAssumption
    DEF Kill, TypeOK, RecentInv, AllHonest, Honest, OkIsRecent, clock, files
  <1>8. CASE Tick
    BY <1>8 DEF Tick, RecentInv, AllHonest, Honest, OkIsRecent, files, locals
  <1>9. ASSUME NEW o \in Offsets, SetClock(o) PROVE RecentInv'
    <2>1. UNCHANGED <<path, tmp, held, status>>
      BY <1>9 DEF SetClock, files, locals
    <2>2. offset' = o /\ setback' = setback + Positive(offset - o)
      BY <1>9 DEF SetClock
    <2>3. AllHonest'
      BY <2>1, <2>2, HonestLater DEF RecentInv, AllHonest, Honest
    <2>4. QED
      BY <2>1, <2>3 DEF RecentInv, OkIsRecent
  <1>10. CASE UNCHANGED vars
    BY <1>10
    DEF vars, RecentInv, AllHonest, Honest, OkIsRecent, clock, files, locals
  <1>11. QED
    BY <1>1, <1>2, <1>3, <1>4, <1>5, <1>6, <1>7, <1>8, <1>9, <1>10 DEF Next

(***************************************************************************)
(* No run ever reports a cached value as ok that was collected longer ago  *)
(* than the interval plus the time the run that collected it was at work   *)
(* and what the clock was set back since it saved the value.               *)
(***************************************************************************)
THEOREM CachedIsRecent == Spec => []OkIsRecent
  <1>1. Init => RecentInv
    BY InitRecent
  <1>2. Init => Collected
    BY DEF Init, Collected
  <1>3. TypeOK /\ Collected /\ RecentInv /\ [Next]_vars => RecentInv'
    BY StepRecent
  <1>4. RecentInv => OkIsRecent
    BY DEF RecentInv
  <1>5. QED
    BY <1>1, <1>2, <1>3, <1>4, StepCollected, TypeCorrect, PTL DEF Spec

-----------------------------------------------------------------------------

\* Runs that never overlapped are at work one at a time, and then know what
\* the file they write aside holds.
OneAtWork ==
    \A r, x \in Runs : pc[r] # "idle" /\ pc[x] # "idle" => r = x

AsideKnown ==
    \A r \in Runs :
        /\ pc[r] = "write" => file[r] = "tmp" /\ tmp = Empty
        /\ pc[r] = "replace" => tmp \in Entry

ReadableInv == ~overlapped =>
    OneAtWork /\ AsideKnown /\ path \notin {Empty, Garbled}

LEMMA InitReadable == Init => ReadableInv
  BY SentinelAssumption DEF Init, ReadableInv, OneAtWork, AsideKnown

\* A run that ends, and does not touch the files, leaves things as they were.
LEMMA EndReadable ==
    ASSUME TypeOK, ReadableInv, NEW r \in Runs,
           pc' = [pc EXCEPT ![r] = "idle"],
           \A x \in Runs \ {r} : file'[x] = file[x],
           UNCHANGED <<path, tmp, overlapped>>
    PROVE  ReadableInv'
  BY DEF TypeOK, ReadableInv, OneAtWork, AsideKnown

LEMMA ReuseReadable ==
    ASSUME TypeOK, ReadableInv, NEW r \in Runs, Reuse(r),
           UNCHANGED <<files, overlapped>>
    PROVE  ReadableInv'
  <1>1. /\ pc' = [pc EXCEPT ![r] = "idle"]
        /\ \A x \in Runs \ {r} : file'[x] = file[x]
    BY DEF Reuse, Report, Goto, TypeOK
  <1>2. QED
    BY <1>1, EndReadable DEF files

LEMMA StepReadable == TypeOK /\ ReadableInv /\ [Next]_vars => ReadableInv'
  <1> SUFFICES ASSUME TypeOK, ReadableInv, [Next]_vars PROVE ReadableInv'
    OBVIOUS
  <1>1. ASSUME NEW r \in Runs, Load(r) PROVE ReadableInv'
    <2>1. CASE Loaded # Nothing /\ Young(Loaded)
      <3>1. /\ pc' = [pc EXCEPT ![r] = "idle"]
            /\ \A x \in Runs \ {r} : file'[x] = file[x]
            /\ UNCHANGED <<path, tmp, overlapped>>
        BY <1>1, <2>1 DEF Load, Report, Goto, TypeOK, files
      <3>2. QED
        BY <3>1, EndReadable
    <2>2. CASE ~(Loaded # Nothing /\ Young(Loaded))
      <3> SUFFICES ASSUME ~overlapped'
                   PROVE  (OneAtWork /\ AsideKnown /\ path \notin {Empty, Garbled})'
        BY DEF ReadableInv
      <3> DEFINE others == {x \in Runs \ {r} : pc[x] # "idle"}
      <3>1. overlapped' = (overlapped \/ others # {})
        BY <1>1, <2>2, Zenon DEF Load
      <3>2. ~overlapped /\ others = {}
        BY <3>1, Zenon
      <3>3. /\ pc' = [pc EXCEPT ![r] = "collect"]
            /\ UNCHANGED <<file, path, tmp>>
        BY <1>1, <2>2 DEF Load, Goto, files
      <3>4. QED
        BY <3>2, <3>3 DEF TypeOK, ReadableInv, OneAtWork, AsideKnown
    <2>3. QED
      BY <2>1, <2>2
  <1>2. ASSUME NEW r \in Runs, Collect(r) PROVE ReadableInv'
    <2>1. CASE Reuse(r)
      BY <1>2, <2>1, ReuseReadable DEF Collect
    <2>2. CASE ~Reuse(r)
      BY <1>2, <2>2
      DEF Collect, Goto, TypeOK, ReadableInv, OneAtWork, AsideKnown, files
    <2>3. QED
      BY <2>1, <2>2
  <1>3. ASSUME NEW r \in Runs, Open(r) PROVE ReadableInv'
    BY <1>3 DEF Open, Goto, TypeOK, ReadableInv, OneAtWork, AsideKnown
  <1>4. ASSUME NEW r \in Runs, Write(r) PROVE ReadableInv'
    <2> SUFFICES ASSUME ~overlapped
                 PROVE  (OneAtWork /\ AsideKnown /\ path \notin {Empty, Garbled})'
      BY <1>4 DEF ReadableInv, Write
    <2>1. /\ pc[r] = "write" /\ file[r] = "tmp" /\ tmp = Empty
          /\ pc' = [pc EXCEPT ![r] = "replace"]
      BY <1>4 DEF Write, Goto, ReadableInv, AsideKnown
    <2>2. tmp' \in Entry /\ path' = path
      BY <1>4, <2>1, WriteFiles DEF Write, Written, Fresh
    <2>3. QED
      BY <2>1, <2>2 DEF TypeOK, ReadableInv, OneAtWork, AsideKnown
  <1>5. ASSUME NEW r \in Runs, Replace(r) PROVE ReadableInv'
    <2>1. CASE tmp = NoFile
      BY <1>5, <2>1, ReuseReadable DEF Replace
    <2>2. CASE tmp # NoFile
      <3> SUFFICES ASSUME ~overlapped
                   PROVE  (OneAtWork /\ AsideKnown /\ path \notin {Empty, Garbled})'
        BY <1>5 DEF ReadableInv, Replace
      <3>1. /\ pc[r] = "replace" /\ path' = tmp
            /\ pc' = [pc EXCEPT ![r] = "idle"]
        BY <1>5, <2>2 DEF Replace, Goto
      <3>2. tmp \in Entry
        BY <3>1 DEF ReadableInv, AsideKnown
      <3>3. \A x \in Runs : pc'[x] = "idle"
        BY <3>1 DEF TypeOK, ReadableInv, OneAtWork
      <3>4. QED
        BY <3>1, <3>2, <3>3, SentinelAssumption DEF OneAtWork, AsideKnown
    <2>3. QED
      BY <2>1, <2>2
  <1>6. ASSUME NEW r \in Runs, Fault(r) PROVE ReadableInv'
    BY <1>6, ReuseReadable DEF Fault
  <1>7. ASSUME NEW r \in Runs, Kill(r) PROVE ReadableInv'
    <2>1. /\ pc' = [pc EXCEPT ![r] = "idle"]
          /\ \A x \in Runs \ {r} : file'[x] = file[x]
          /\ UNCHANGED <<path, tmp, overlapped>>
      BY <1>7 DEF Kill, Goto, TypeOK, files
    <2>2. QED
      BY <2>1, EndReadable
  <1>8. CASE Tick \/ (\E o \in Offsets : SetClock(o)) \/ UNCHANGED vars
    BY <1>8
    DEF Tick, SetClock, vars, ReadableInv, OneAtWork, AsideKnown, files, locals
  <1>9. QED
    BY <1>1, <1>2, <1>3, <1>4, <1>5, <1>6, <1>7, <1>8 DEF Next

(***************************************************************************)
(* As long as no two runs overlapped, the file under <path> is whole,      *)
(* wherever runs were killed or ran out of disk.                           *)
(***************************************************************************)
THEOREM ReadableAlways == Spec => []CacheReadable
  <1>1. Init => ReadableInv
    BY InitReadable
  <1>2. TypeOK /\ ReadableInv /\ [Next]_vars => ReadableInv'
    BY StepReadable
  <1>3. ReadableInv => CacheReadable
    BY DEF ReadableInv, CacheReadable
  <1>4. QED
    BY <1>1, <1>2, <1>3, TypeCorrect, PTL DEF Spec

-----------------------------------------------------------------------------

\* A run at work has not reported yet; and if it has been alone so far, it
\* knows what the file it writes aside holds, whatever was there before.
Undisturbed(r) ==
    /\ \A x \in Runs \ {r} : pc[x] = "idle"
    /\ pc[r] = "write" => file[r] = "tmp" /\ tmp = Empty
    /\ pc[r] = "replace" => tmp \in Entry /\ tmp.value = value[r]

AtWork(r) ==
    pc[r] # "idle" => status[r] = Nothing /\ (alone[r] => Undisturbed(r))

LoneInv == \A r \in Runs : AtWork(r)

LEMMA InitLone == Init => LoneInv
  BY DEF Init, LoneInv, AtWork

\* What a run reports at its end is nobody else's.
LEMMA ReportLone ==
    ASSUME TypeOK, LoneInv, NEW r \in Runs, NEW ok, NEW cached, NEW entry,
           Report(r, ok, cached, entry), UNCHANGED files,
           \A x \in Runs \ {r} : alone'[x] => alone[x]
    PROVE  LoneInv'
  <1> SUFFICES ASSUME NEW x \in Runs PROVE AtWork(x)'
    BY DEF LoneInv
  <1>1. /\ pc' = [pc EXCEPT ![r] = "idle"] /\ UNCHANGED <<path, tmp>>
        /\ \A y \in Runs \ {r} : /\ file'[y] = file[y] /\ value'[y] = value[y]
                                 /\ status'[y] = status[y]
    BY DEF Report, Goto, TypeOK, files
  <1>2. pc'[r] = "idle" /\ \A y \in Runs \ {r} : pc'[y] = pc[y]
    BY <1>1 DEF TypeOK
  <1>3. CASE x = r
    BY <1>2, <1>3 DEF AtWork
  <1>4. CASE x # r
    <2>1. AtWork(x) /\ (alone'[x] => alone[x])
      BY <1>4 DEF LoneInv
    <2>2. Undisturbed(x) => Undisturbed(x)'
      BY <1>1, <1>2, <1>4 DEF Undisturbed
    <2>3. pc'[x] = pc[x] /\ status'[x] = status[x]
      BY <1>1, <1>2, <1>4
    <2>. QED
      BY <2>1, <2>2, <2>3 DEF AtWork
  <1>. QED
    BY <1>3, <1>4

LEMMA StepLone == TypeOK /\ LoneInv /\ [Next]_vars => LoneInv'
  <1> SUFFICES ASSUME TypeOK, LoneInv, [Next]_vars PROVE LoneInv'
    OBVIOUS
  <1>1. ASSUME NEW r \in Runs, Load(r) PROVE LoneInv'
    <2>1. CASE Loaded # Nothing /\ Young(Loaded)
      <3>1. Report(r, TRUE, TRUE, Loaded) /\ UNCHANGED <<files, alone>>
        BY <1>1, <2>1 DEF Load
      <3>. QED
        BY <3>1, ReportLone
    <2>2. CASE ~(Loaded # Nothing /\ Young(Loaded))
      <3> DEFINE others == {x \in Runs \ {r} : pc[x] # "idle"}
      <3>1. alone' = [x \in Runs |-> IF x = r THEN others = {}
                                     ELSE alone[x] /\ x \notin others]
        BY <1>1, <2>2, Zenon DEF Load
      <3>2. alone'[r] => others = {}
        BY <3>1, Zenon
      <3>3. \A x \in Runs \ {r} : alone'[x] => x \notin others
        BY <3>1, Zenon
      <3>4. /\ pc'[r] = "collect" /\ status'[r] = Nothing
            /\ \A x \in Runs \ {r} : pc'[x] = pc[x] /\ status'[x] = status[x]
        BY <1>1, <2>2 DEF Load, Goto, TypeOK
      <3>5. AtWork(r)'
        BY <3>2, <3>4 DEF AtWork, Undisturbed
      <3>6. ASSUME NEW x \in Runs \ {r} PROVE AtWork(x)'
        <4>1. pc'[x] # "idle" => status'[x] = Nothing
          BY <3>4 DEF LoneInv, AtWork
        <4>2. pc'[x] # "idle" => ~alone'[x]
          BY <3>3, <3>4
        <4>. QED
          BY <4>1, <4>2 DEF AtWork
      <3>. QED
        BY <3>5, <3>6 DEF LoneInv
    <2>. QED
      BY <2>1, <2>2
  <1>2. ASSUME NEW r \in Runs, Collect(r) PROVE LoneInv'
    <2>1. CASE Reuse(r)
      BY <1>2, <2>1, ReportLone DEF Collect, Reuse
    <2>2. CASE ~Reuse(r)
      <3>1. /\ pc[r] = "collect" /\ pc' = [pc EXCEPT ![r] = "open"]
            /\ value' = [value EXCEPT ![r] = now]
            /\ UNCHANGED <<file, status, path, tmp, alone>>
        BY <1>2, <2>2 DEF Collect, Goto, files
      <3>. QED
        BY <3>1 DEF TypeOK, LoneInv, AtWork, Undisturbed
    <2>. QED
      BY <2>1, <2>2
  <1>3. ASSUME NEW r \in Runs, Open(r) PROVE LoneInv'
    <2>1. /\ pc[r] = "open" /\ pc' = [pc EXCEPT ![r] = "write"]
          /\ file' = [file EXCEPT ![r] = "tmp"] /\ tmp' = Empty
          /\ UNCHANGED <<value, status, alone>>
      BY <1>3 DEF Open, Goto
    <2>. QED
      BY <2>1 DEF TypeOK, LoneInv, AtWork, Undisturbed
  <1>4. ASSUME NEW r \in Runs, Write(r) PROVE LoneInv'
    <2>1. /\ pc[r] = "write" /\ pc' = [pc EXCEPT ![r] = "replace"]
          /\ file' = [file EXCEPT ![r] = "none"]
          /\ UNCHANGED <<value, status, alone>>
      BY <1>4 DEF Write, Goto
    <2>2. file[r] = "tmp" /\ tmp = Empty => tmp' = Fresh(r)
      BY <1>4 DEF Write, Written, Fresh
    <2>3. Fresh(r) \in Entry /\ Fresh(r).value = value[r]
      BY <1>4, WriteFiles DEF Fresh
    <2>4. AtWork(r)'
      BY <2>1, <2>2, <2>3 DEF TypeOK, LoneInv, AtWork, Undisturbed
    <2>5. ASSUME NEW x \in Runs \ {r} PROVE AtWork(x)'
      BY <2>1 DEF TypeOK, LoneInv, AtWork, Undisturbed
    <2>. QED
      BY <2>4, <2>5 DEF LoneInv
  <1>5. ASSUME NEW r \in Runs, Replace(r) PROVE LoneInv'
    <2>1. CASE tmp = NoFile
      BY <1>5, <2>1, ReportLone DEF Replace, Reuse
    <2>2. CASE tmp # NoFile
      <3>1. /\ pc[r] = "replace" /\ pc' = [pc EXCEPT ![r] = "idle"]
            /\ \A x \in Runs \ {r} : status'[x] = status[x]
            /\ UNCHANGED alone
        BY <1>5, <2>2 DEF Replace, Goto, TypeOK
      <3>2. \A x \in Runs : pc'[x] # "idle" => x # r /\ pc'[x] = pc[x]
        BY <3>1 DEF TypeOK
      <3>3. \A x \in Runs : pc'[x] # "idle" => ~alone[x]
        BY <3>1, <3>2 DEF LoneInv, AtWork, Undisturbed
      <3>. QED
        BY <3>1, <3>2, <3>3 DEF LoneInv, AtWork
    <2>. QED
      BY <2>1, <2>2
  <1>6. ASSUME NEW r \in Runs, Fault(r) PROVE LoneInv'
    <2>1. \A x \in Runs \ {r} : alone'[x] => alone[x]
      BY <1>6 DEF Fault, TypeOK
    <2>. QED
      BY <1>6, <2>1, ReportLone DEF Fault, Reuse
  <1>7. ASSUME NEW r \in Runs, Kill(r) PROVE LoneInv'
    <2>1. /\ pc' = [pc EXCEPT ![r] = "idle"]
          /\ \A x \in Runs \ {r} : file'[x] = file[x] /\ value'[x] = value[x]
          /\ UNCHANGED <<path, tmp, status, alone>>
      BY <1>7 DEF Kill, Goto, TypeOK, files
    <2>. QED
      BY <2>1 DEF TypeOK, LoneInv, AtWork, Undisturbed
  <1>8. CASE Tick \/ (\E o \in Offsets : SetClock(o)) \/ UNCHANGED vars
    BY <1>8 DEF Tick, SetClock, vars, LoneInv, AtWork, Undisturbed, files, locals
  <1>. QED
    BY <1>1, <1>2, <1>3, <1>4, <1>5, <1>6, <1>7, <1>8 DEF Next

\* Only the end of Replace reports after a value was collected and no write
\* failed.
LEMMA LoneStep ==
    ASSUME TypeOK, LoneInv, [Next]_vars, NEW r \in Runs,
           pc[r] \in {"open", "write", "replace"},
           pc'[r] = "idle", status'[r] # Nothing, alone'[r]
    PROVE  /\ status'[r].ok
           /\ path' \in Entry /\ path'.value = value[r]
  <1>1. status[r] = Nothing
    BY DEF LoneInv, AtWork
  <1>2. PICK x \in Runs : \/ Load(x) \/ Collect(x) \/ Open(x) \/ Write(x)
                          \/ Replace(x) \/ Fault(x) \/ Kill(x)
    BY DEF Next, Tick, SetClock, vars, locals
  <1>3. x = r
    BY <1>2 DEF Load, Collect, Open, Write, Replace, Fault, Kill, Reuse,
                Report, Goto, TypeOK
  <1>4. ~Load(r) /\ ~Collect(r) /\ ~Open(r) /\ ~Write(r)
    BY DEF Load, Collect, Open, Write, Goto, TypeOK
  <1>5. ~Kill(r)
    BY <1>1 DEF Kill
  <1>6. ~Fault(r)
    <2>1. Fault(r) => alone' = [alone EXCEPT ![r] = FALSE]
      BY DEF Fault
    <2>2. DOMAIN alone = Runs
      BY DEF TypeOK
    <2>. QED
      BY <2>1, <2>2, Zenon
  <1>7. Replace(r)
    BY <1>2, <1>3, <1>4, <1>5, <1>6
  <1>8. tmp \in Entry /\ tmp.value = value[r]
    BY <1>7 DEF Replace, LoneInv, AtWork, Undisturbed
  <1>9. tmp # NoFile
    BY <1>8, SentinelAssumption
  <1>10. /\ path' = tmp
         /\ status' = [status EXCEPT ![r] = [ok |-> TRUE, cached |-> FALSE,
                entry |-> Nothing, at |-> now, setback |-> setback]]
    BY <1>7, <1>9 DEF Replace
  <1>. QED
    BY <1>8, <1>10 DEF TypeOK

(***************************************************************************)
(* A run that collected a value, was alone and could write reports the     *)
(* value as ok and leaves it in the cache, whatever earlier runs left in   *)
(* the directory.                                                          *)
(***************************************************************************)
THEOREM LoneSaves == Spec => LoneRunSaves
  <1>1. Init => LoneInv
    BY InitLone
  <1>2. TypeOK /\ LoneInv /\ [Next]_vars => LoneInv'
    BY StepLone
  <1>3. TypeOK /\ LoneInv /\ [Next]_vars =>
          [\A r \in Runs :
              /\ pc[r] \in {"open", "write", "replace"}
              /\ pc'[r] = "idle" /\ status'[r] # Nothing
              /\ alone'[r]
              => /\ status'[r].ok
                 /\ path' \in Entry /\ path'.value = value[r]]_vars
    BY LoneStep
  <1>. QED
    BY <1>1, <1>2, <1>3, TypeCorrect, PTL DEF Spec, LoneRunSaves
=============================================================================
