-------------------------- MODULE StatusStoreProofs --------------------------
(***************************************************************************)
(* Theorems about StatusStore for any callers, subjects, statuses and any  *)
(* bound on the log:                                                       *)
(*                                                                         *)
(*   TypeCorrect         Spec => []TypeOK                                  *)
(*   PreviousNeverStale  Spec => []PreviousIsCurrent                       *)
(*   ChainHolds          Spec => []EventChain                              *)
(*   StoreImplementsLog  Spec => ImplementsStatusLog                       *)
(*                                                                         *)
(* The inductive invariant is IInv.  EventChain alone is not inductive:    *)
(* Commit publishes txStatus and txEvents, so one must know that they are  *)
(* the committed tables plus one whole observation, which is TxView, and   *)
(* that no other transaction published something since they were read,     *)
(* which is the exclusive connection.                                      *)
(***************************************************************************)
EXTENDS StatusStore, SequenceTheorems, TLAPS

IInv == TypeOK /\ PreviousIsCurrent /\ EventChain

-----------------------------------------------------------------------------

\* Observe, the one step of StatusLog, keeps the log's type.
LEMMA ObserveTypeOK ==
    ASSUME Log!TypeOK, NEW s \in Subjects, NEW v \in Statuses, Log!Observe(s, v)
    PROVE  Log!TypeOK'
<1> USE AbsentAssumption DEF Log!TypeOK
<1>1. statusCache' \in [Subjects -> Statuses \cup {Absent}]
    BY DEF Log!Observe
<1>2. events' \in Seq(Log!Event)
    <2>1. CASE Log!IsTransition(statusCache[s], v)
        <3>1. [subject |-> s, from |-> statusCache[s], to |-> v] \in Log!Event
            BY <2>1 DEF Log!IsTransition, Log!Event
        <3>. QED BY <2>1, <3>1, AppendProperties DEF Log!Observe, Log!Logged
    <2>2. CASE ~Log!IsTransition(statusCache[s], v)
        BY <2>2 DEF Log!Observe, Log!Logged
    <2>. QED BY <2>1, <2>2
<1>. QED BY <1>1, <1>2

\* Observe keeps every subject's events a path that ends in its status.
LEMMA ObserveChain ==
    ASSUME Log!TypeOK, Log!EventChain,
           NEW s \in Subjects, NEW v \in Statuses, Log!Observe(s, v)
    PROVE  Log!EventChain'
<1> DEFINE e == [subject |-> s, from |-> statusCache[s], to |-> v]
           L == Len(events)
<1> USE AbsentAssumption DEF Log!TypeOK
<1>1. L \in Nat /\ \A i \in 1..L : events[i] \in Log!Event
    BY LenProperties, ElementOfSeq
<1>2. \A i \in 1..L : events[i].subject \in Subjects /\ events[i].to \in Statuses
    BY <1>1 DEF Log!Event
<1>3. \A x \in Subjects : statusCache'[x] = IF x = s THEN v ELSE statusCache[x]
    BY DEF Log!Observe
<1>4. CASE ~Log!IsTransition(statusCache[s], v)
    <2>1. events' = events
        BY <1>4 DEF Log!Observe, Log!Logged
    <2>2. ASSUME NEW i \in 1..L, Log!NoneBetween(i, L + 1, events[i].subject)
          PROVE  statusCache'[events[i].subject] = events[i].to
        <3>1. statusCache[events[i].subject] = events[i].to
            BY <2>2 DEF Log!EventChain
        <3>2. events[i].subject = s => statusCache[s] = v
            BY <3>1, <1>2, <1>4 DEF Log!IsTransition
        <3>. QED BY <3>1, <3>2, <1>2, <1>3
    <2>. QED BY <2>1, <2>2 DEF Log!EventChain, Log!NoneBetween
<1>5. CASE Log!IsTransition(statusCache[s], v)
    <2>1. e \in Log!Event /\ e.from # e.to
        BY <1>5 DEF Log!IsTransition, Log!Event
    <2>2. events' = Append(events, e)
        BY <1>5 DEF Log!Observe, Log!Logged
    <2>3. /\ Len(events') = L + 1
          /\ \A i \in 1..L : events'[i] = events[i]
          /\ events'[L + 1] = e
        BY <2>1, <2>2, AppendProperties
    <2> HIDE DEF L, e
    <2>4. e.subject = s /\ e.from = statusCache[s] /\ e.to = v
        BY DEF e
    <2>5. \A i \in 1..(L + 1) : events'[i].from # events'[i].to
        BY <1>1, <2>1, <2>3 DEF Log!EventChain, L
    <2>6. ASSUME NEW i \in 1..(L + 1), NEW j \in 1..(L + 1), i < j,
                 events'[i].subject = events'[j].subject,
                 \A k \in (i + 1)..(j - 1) : events'[k].subject # events'[i].subject
          PROVE  events'[j].from = events'[i].to
        <3>1. i \in 1..L /\ events'[i] = events[i]
            BY <2>6, <1>1, <2>3
        <3>2. Log!NoneBetween(i, j, events[i].subject)
            BY <2>3, <2>6, <3>1, <1>1 DEF Log!NoneBetween
        <3>3. CASE j \in 1..L
            BY <3>1, <3>2, <3>3, <2>3, <2>6 DEF Log!EventChain, L
        <3>4. CASE j = L + 1
            <4>1. events[i].subject = s
                BY <3>1, <3>4, <2>3, <2>4, <2>6
            <4>2. statusCache[s] = events[i].to
                BY <3>1, <3>2, <3>4, <4>1 DEF Log!EventChain, L
            <4>. QED BY <3>1, <3>4, <4>2, <2>3, <2>4
        <3>. QED BY <3>3, <3>4, <1>1
    <2>7. ASSUME NEW i \in 1..(L + 1),
                 \A k \in (i + 1)..(L + 1) : events'[k].subject # events'[i].subject
          PROVE  statusCache'[events'[i].subject] = events'[i].to
        <3>1. CASE i = L + 1
            BY <3>1, <2>3, <2>4, <1>3
        <3>2. CASE i \in 1..L
            <4>1. events'[i] = events[i]
                BY <3>2, <2>3
            <4>2. \A k \in (i + 1)..(L + 1) : events'[k].subject # events[i].subject
                BY <2>7, <4>1
            <4>3. events[i].subject # s
                BY <4>2, <3>2, <1>1, <2>3, <2>4
            <4>4. Log!NoneBetween(i, L + 1, events[i].subject)
                BY <4>2, <3>2, <1>1, <2>3 DEF Log!NoneBetween
            <4>5. statusCache[events[i].subject] = events[i].to
                BY <3>2, <4>4 DEF Log!EventChain, L
            <4>. QED BY <3>2, <4>1, <4>3, <4>5, <1>2, <1>3
        <3>. QED BY <3>1, <3>2, <1>1
    <2>8. Len(events') + 1 - 1 = L + 1
        BY <1>1, <2>3
    <2>. QED BY <2>3, <2>5, <2>6, <2>7, <2>8 DEF Log!EventChain, Log!NoneBetween
<1>. QED BY <1>4, <1>5

-----------------------------------------------------------------------------

\* The connection has one holder, and that holder's view is current: what
\* Commit publishes is one observation of the committed tables.
LEMMA CommitObserves ==
    ASSUME TypeOK, PreviousIsCurrent, NEW c \in Callers, Commit(c)
    PROVE  /\ arg[c].subject \in Subjects /\ arg[c].status \in Statuses
           /\ Log!Observe(arg[c].subject, arg[c].status)
<1>1. pc[c] = "commit"
    BY DEF Commit
<1>2. TxView(c)
    BY DEF PreviousIsCurrent
<1>3. /\ txStatus = [statusCache EXCEPT ![arg[c].subject] = arg[c].status]
      /\ txEvents = Log!Logged(events, arg[c].subject,
                               statusCache[arg[c].subject], arg[c].status)
    BY <1>1, <1>2 DEF TxView
<1>. QED BY <1>3 DEF Commit, Log!Observe, TypeOK

\* Every step leaves the committed tables alone or is one observation.
LEMMA StepIsLogStep ==
    ASSUME TypeOK, PreviousIsCurrent, [Next]_vars
    PROVE  \/ UNCHANGED tables
           \/ \E s \in Subjects, v \in Statuses : Log!Observe(s, v)
<1>1. ASSUME NEW c \in Callers, Commit(c)
      PROVE  \E s \in Subjects, v \in Statuses : Log!Observe(s, v)
    BY <1>1, CommitObserves
<1>2. ASSUME NEW c \in Callers, Step(c), ~Commit(c)
      PROVE  UNCHANGED tables
    BY <1>2 DEF Step, SelectPrevious, Upsert, InsertEvent, CloseRows
<1>3. ASSUME NEW c \in Callers,
             \/ \E s \in Subjects, v \in Statuses : CallRecordStatus(c, s, v)
             \/ BeginTx(c) \/ Rollback(c) \/ GiveUp(c)
             \/ CallRecentEvents(c) \/ OpenRows(c)
      PROVE  UNCHANGED tables
    BY <1>3 DEF CallRecordStatus, BeginTx, Rollback, GiveUp, CallRecentEvents,
                OpenRows
<1>4. CASE Restart
    BY <1>4 DEF Restart
<1>5. CASE UNCHANGED vars
    BY <1>5 DEF vars
<1>. QED BY <1>1, <1>2, <1>3, <1>4, <1>5 DEF Next

LEMMA LogStepTypeOK ==
    ASSUME TypeOK, PreviousIsCurrent, [Next]_vars
    PROVE  Log!TypeOK'
<1>1. CASE UNCHANGED tables
    BY <1>1 DEF tables, TypeOK, Log!TypeOK
<1>2. CASE \E s \in Subjects, v \in Statuses : Log!Observe(s, v)
    BY <1>2, ObserveTypeOK DEF TypeOK
<1>. QED BY <1>1, <1>2, StepIsLogStep

\* Every step keeps the types of the variables.
LEMMA StepTypeOK ==
    ASSUME TypeOK, PreviousIsCurrent, [Next]_vars
    PROVE  TypeOK'
<1> USE DEF TypeOK, Goto, PCs, InTx, tables, txTables
<1>1. Log!TypeOK'
    BY LogStepTypeOK
<1>2. ASSUME NEW c \in Callers, NEW s \in Subjects, NEW v \in Statuses,
             CallRecordStatus(c, s, v)
      PROVE  TypeOK'
    BY <1>1, <1>2 DEF CallRecordStatus
<1>3. ASSUME NEW c \in Callers, BeginTx(c)
      PROVE  TypeOK'
    BY <1>1, <1>3 DEF BeginTx, Log!TypeOK
<1>4. ASSUME NEW c \in Callers, SelectPrevious(c)
      PROVE  TypeOK'
    BY <1>1, <1>4 DEF SelectPrevious
<1>5. ASSUME NEW c \in Callers, Upsert(c)
      PROVE  TypeOK'
    BY <1>1, <1>5 DEF Upsert
<1>6. ASSUME NEW c \in Callers, InsertEvent(c)
      PROVE  TypeOK'
    <2>1. previous[c] \in Statuses
        BY <1>6 DEF PreviousIsCurrent, InsertEvent, TxView, Log!IsTransition
    <2>2. [subject |-> arg[c].subject, from |-> previous[c], to |-> arg[c].status]
              \in Log!Event
        BY <2>1 DEF Log!Event
    <2>3. txEvents' \in Seq(Log!Event)
        BY <1>6, <2>2, AppendProperties DEF InsertEvent
    <2>. QED BY <1>1, <1>6, <2>3 DEF InsertEvent
<1>7. ASSUME NEW c \in Callers, Commit(c)
      PROVE  TypeOK'
    BY <1>1, <1>7 DEF Commit
<1>8. ASSUME NEW c \in Callers, Rollback(c)
      PROVE  TypeOK'
    BY <1>1, <1>8 DEF Rollback, Log!TypeOK
<1>9. ASSUME NEW c \in Callers,
             GiveUp(c) \/ CallRecentEvents(c) \/ OpenRows(c) \/ CloseRows(c)
      PROVE  TypeOK'
    BY <1>1, <1>9 DEF GiveUp, CallRecentEvents, OpenRows, CloseRows
<1>10. CASE Restart
    BY <1>1, <1>10 DEF Restart, Idle, Log!TypeOK
<1>11. CASE UNCHANGED vars
    BY <1>1, <1>11 DEF vars
<1>. QED BY <1>2, <1>3, <1>4, <1>5, <1>6, <1>7, <1>8, <1>9, <1>10, <1>11
         DEF Next, Step

\* Every step keeps the holder's view current.
LEMMA StepPreviousIsCurrent ==
    ASSUME TypeOK, PreviousIsCurrent, [Next]_vars
    PROVE  PreviousIsCurrent'
<1> DEFINE Exclusive(c) == pc[c] \in InTx \cup {"rows"} <=> conn = c
<1> USE NobodyAssumption DEF TypeOK, Log!TypeOK, Goto, PCs, InTx, tables, txTables
<1>1. \A c \in Callers : Exclusive(c) /\ TxView(c)
    BY DEF PreviousIsCurrent
<1>2. SUFFICES ASSUME NEW d \in Callers
               PROVE  Exclusive(d)' /\ TxView(d)'
    BY DEF PreviousIsCurrent
<1>3. ASSUME NEW c \in Callers, NEW s \in Subjects, NEW v \in Statuses,
             CallRecordStatus(c, s, v)
      PROVE  Exclusive(d)' /\ TxView(d)'
    BY <1>1, <1>3 DEF CallRecordStatus, TxView
<1>4. ASSUME NEW c \in Callers, BeginTx(c)
      PROVE  Exclusive(d)' /\ TxView(d)'
    BY <1>1, <1>4 DEF BeginTx, TxView
<1>5. ASSUME NEW c \in Callers, SelectPrevious(c)
      PROVE  Exclusive(d)' /\ TxView(d)'
    BY <1>1, <1>5 DEF SelectPrevious, TxView
<1>6. ASSUME NEW c \in Callers, Upsert(c)
      PROVE  Exclusive(d)' /\ TxView(d)'
    BY <1>1, <1>6 DEF Upsert, TxView, Log!Logged
<1>7. ASSUME NEW c \in Callers, InsertEvent(c)
      PROVE  Exclusive(d)' /\ TxView(d)'
    BY <1>1, <1>7 DEF InsertEvent, TxView, Log!Logged
<1>8. ASSUME NEW c \in Callers, Commit(c)
      PROVE  Exclusive(d)' /\ TxView(d)'
    BY <1>1, <1>8 DEF Commit, TxView
<1>9. ASSUME NEW c \in Callers, Rollback(c)
      PROVE  Exclusive(d)' /\ TxView(d)'
    BY <1>1, <1>9 DEF Rollback, TxView
<1>10. ASSUME NEW c \in Callers,
              GiveUp(c) \/ CallRecentEvents(c) \/ OpenRows(c) \/ CloseRows(c)
       PROVE  Exclusive(d)' /\ TxView(d)'
    BY <1>1, <1>10 DEF GiveUp, CallRecentEvents, OpenRows, CloseRows, TxView
<1>11. CASE Restart
    BY <1>1, <1>11 DEF Restart, Idle, TxView
<1>12. CASE UNCHANGED vars
    BY <1>1, <1>12 DEF vars, TxView
<1>. QED BY <1>3, <1>4, <1>5, <1>6, <1>7, <1>8, <1>9, <1>10, <1>11, <1>12
         DEF Next, Step

LEMMA StepEventChain ==
    ASSUME TypeOK, PreviousIsCurrent, EventChain, [Next]_vars
    PROVE  EventChain'
<1>1. CASE UNCHANGED tables
    BY <1>1 DEF tables, EventChain, Log!EventChain, Log!NoneBetween
<1>2. CASE \E s \in Subjects, v \in Statuses : Log!Observe(s, v)
    BY <1>2, ObserveChain DEF EventChain, TypeOK
<1>. QED BY <1>1, <1>2, StepIsLogStep

-----------------------------------------------------------------------------

LEMMA InitIInv == Init => IInv
<1> SUFFICES ASSUME Init PROVE IInv
    OBVIOUS
<1> USE DEF Init, Log!Init, Idle
<1>1. Log!TypeOK
    BY EmptySeq DEF Log!TypeOK
<1>2. TypeOK
    BY <1>1, EmptySeq DEF TypeOK, Log!TypeOK, PCs
<1>3. PreviousIsCurrent
    BY NobodyAssumption DEF PreviousIsCurrent, TxView, InTx
<1>4. EventChain
    BY EmptySeq DEF EventChain, Log!EventChain
<1>. QED BY <1>2, <1>3, <1>4 DEF IInv

LEMMA StepIInv == IInv /\ [Next]_vars => IInv'
BY StepTypeOK, StepPreviousIsCurrent, StepEventChain DEF IInv

(***************************************************************************)
(* Every reachable state of the store satisfies the inductive invariant.   *)
(***************************************************************************)
THEOREM Invariance == Spec => []IInv
BY InitIInv, StepIInv, PTL DEF Spec

(***************************************************************************)
(* The tables, the transaction's view and every caller's locals keep their *)
(* types.                                                                  *)
(***************************************************************************)
THEOREM TypeCorrect == Spec => []TypeOK
<1>1. IInv => TypeOK
    BY DEF IInv
<1>. QED BY <1>1, Invariance, PTL

(***************************************************************************)
(* RecordStatus compares with the committed status until it commits, for   *)
(* any number of callers: its `previous` cannot be stale.                  *)
(***************************************************************************)
THEOREM PreviousNeverStale == Spec => []PreviousIsCurrent
<1>1. IInv => PreviousIsCurrent
    BY DEF IInv
<1>. QED BY <1>1, Invariance, PTL

(***************************************************************************)
(* The events of every subject form a path that ends in its row of         *)
(* status_cache, for any number of callers and subjects, any statuses, and *)
(* whatever fails or crashes.                                              *)
(***************************************************************************)
THEOREM ChainHolds == Spec => []EventChain
<1>1. IInv => EventChain
    BY DEF IInv
<1>. QED BY <1>1, Invariance, PTL

(***************************************************************************)
(* RecordStatus' statements, with their failures and crashes, implement    *)
(* the indivisible observations of StatusLog.                              *)
(***************************************************************************)
THEOREM StoreImplementsLog == Spec => ImplementsStatusLog
<1>1. Init => Log!Init
    BY DEF Init
<1>2. IInv /\ [Next]_vars => [Log!Next]_(Log!vars)
    BY StepIsLogStep DEF IInv, Log!Next, Log!vars, tables
<1>. QED BY <1>1, <1>2, Invariance, PTL DEF Spec, ImplementsStatusLog, Log!Spec
=============================================================================
