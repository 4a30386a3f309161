----------------------------- MODULE StatusStore -----------------------------
(***************************************************************************)
(* The status half of backend/internal/app/store.go at the grain of its    *)
(* SQL statements.  Callers (HTTP requests of Summary, heartbeat posts,    *)
(* event pages) share one database/sql pool that OpenStore limits to one   *)
(* connection.  RecordStatus runs a transaction on it                      *)
(*                                                                         *)
(*   BeginTx -> SELECT status -> upsert -> [INSERT event] -> Commit        *)
(*                                                                         *)
(* and rolls back on any error, a cancelled request context included;      *)
(* RecentEvents waits for the connection like every transaction and holds  *)
(* it from its query until rows.Close.                                     *)
(* The process may die at any point and reopen the same file.              *)
(*                                                                         *)
(* Left out: labels, details and timestamps of the rows (no property here  *)
(* tells them apart), and the metrics half of the store.                   *)
(***************************************************************************)
EXTENDS Naturals, Sequences, FiniteSets

CONSTANTS
    Callers,    \* goroutines using the store
    Subjects, Statuses, Absent,     \* as in StatusLog
    Nobody,     \* the pooled connection is free
    MaxEvents   \* bound: no call starts once the log could outgrow this

ASSUME AbsentAssumption == Absent \notin Statuses
ASSUME NobodyAssumption == Nobody \notin Callers
ASSUME BoundAssumption == MaxEvents \in Nat

VARIABLES
    statusCache, events,        \* the committed tables, as in StatusLog
    txStatus, txEvents,         \* the tables as the open transaction sees them
    conn,                       \* the caller that holds the connection
    pc,                         \* the next statement of each caller
    arg,                        \* the subject and status it was called with
    previous                    \* RecordStatus' variable of that name

tables == <<statusCache, events>>
txTables == <<txStatus, txEvents>>
vars == <<tables, txTables, conn, pc, arg, previous>>

Log == INSTANCE StatusLog

\* Statements of RecordStatus that run inside its transaction.
InTx == {"select", "upsert", "insert", "commit"}

PCs == {"idle", "begin", "query", "rows"} \cup InTx

TypeOK ==
    /\ Log!TypeOK
    /\ txStatus \in [Subjects -> Statuses \cup {Absent}]
    /\ txEvents \in Seq(Log!Event)
    /\ conn \in Callers \cup {Nobody}
    /\ pc \in [Callers -> PCs]
    /\ arg \in [Callers -> [subject : Subjects, status : Statuses]]
    /\ previous \in [Callers -> Statuses \cup {Absent}]

Idle == [c \in Callers |-> "idle"]

Init ==
    /\ Log!Init
    /\ txStatus = statusCache
    /\ txEvents = events
    /\ conn = Nobody
    /\ pc = Idle
    /\ arg \in [Callers -> [subject : Subjects, status : Statuses]]
    /\ previous = [c \in Callers |-> Absent]

-----------------------------------------------------------------------------

Goto(c, next) == pc' = [pc EXCEPT ![c] = next]

\* Callers whose transaction may still append an event.
Recording == {c \in Callers : pc[c] \in InTx \cup {"begin"}}

CallRecordStatus(c, s, v) ==
    /\ pc[c] = "idle"
    /\ Len(events) + Cardinality(Recording) < MaxEvents
    /\ arg' = [arg EXCEPT ![c] = [subject |-> s, status |-> v]]
    /\ Goto(c, "begin")
    /\ UNCHANGED <<tables, txTables, conn, previous>>

\* db.BeginTx: wait for the connection, then see the committed tables.
BeginTx(c) ==
    /\ pc[c] = "begin"
    /\ conn = Nobody
    /\ conn' = c
    /\ txStatus' = statusCache
    /\ txEvents' = events
    /\ Goto(c, "select")
    /\ UNCHANGED <<tables, arg, previous>>

\* Mutant of SelectPrevious: the status a caller saw last is remembered and
\* not read again.
SelectPreviousOnce(c) ==
    /\ pc[c] = "select"
    /\ previous' = [previous EXCEPT ![c] =
                       IF @ = Absent THEN txStatus[arg[c].subject] ELSE @]
    /\ Goto(c, "upsert")
    /\ UNCHANGED <<tables, txTables, conn, arg>>

\* SELECT status ... Scan(&previous); sql.ErrNoRows is no error.
SelectPrevious(c) ==
    /\ pc[c] = "select"
    /\ previous' = [previous EXCEPT ![c] = txStatus[arg[c].subject]]
    /\ Goto(c, "upsert")
    /\ UNCHANGED <<tables, txTables, conn, arg>>

\* INSERT ... ON CONFLICT DO UPDATE, then the test for a transition.
Upsert(c) ==
    /\ pc[c] = "upsert"
    /\ txStatus' = [txStatus EXCEPT ![arg[c].subject] = arg[c].status]
    /\ Goto(c, IF Log!IsTransition(previous[c], arg[c].status)
               THEN "insert" ELSE "commit")
    /\ UNCHANGED <<tables, txEvents, conn, arg, previous>>

\* Mutant of InsertEvent: from and to exchanged.
InsertEventSwapped(c) ==
    /\ pc[c] = "insert"
    /\ txEvents' = Append(txEvents, [subject |-> arg[c].subject,
                                     from |-> arg[c].status,
                                     to |-> previous[c]])
    /\ Goto(c, "commit")
    /\ UNCHANGED <<tables, txStatus, conn, arg, previous>>

InsertEvent(c) ==
    /\ pc[c] = "insert"
    /\ txEvents' = Append(txEvents, [subject |-> arg[c].subject,
                                     from |-> previous[c],
                                     to |-> arg[c].status])
    /\ Goto(c, "commit")
    /\ UNCHANGED <<tables, txStatus, conn, arg, previous>>

Commit(c) ==
    /\ pc[c] = "commit"
    /\ statusCache' = txStatus
    /\ events' = txEvents
    /\ conn' = Nobody
    /\ Goto(c, "idle")
    /\ UNCHANGED <<txTables, arg, previous>>

\* Mutant of Rollback: the statements ran in autocommit mode, so what was
\* written before the error stays.
RollbackNothing(c) ==
    /\ pc[c] \in InTx
    /\ statusCache' = txStatus
    /\ events' = txEvents
    /\ conn' = Nobody
    /\ Goto(c, "idle")
    /\ UNCHANGED <<txTables, arg, previous>>

\* The deferred Rollback after a statement failed or ctx was cancelled.
Rollback(c) ==
    /\ pc[c] \in InTx
    /\ txStatus' = statusCache
    /\ txEvents' = events
    /\ conn' = Nobody
    /\ Goto(c, "idle")
    /\ UNCHANGED <<tables, arg, previous>>

\* ctx is cancelled while the caller still waits for the connection.
GiveUp(c) ==
    /\ pc[c] \in {"begin", "query"}
    /\ Goto(c, "idle")
    /\ UNCHANGED <<tables, txTables, conn, arg, previous>>

CallRecentEvents(c) ==
    /\ pc[c] = "idle"
    /\ Goto(c, "query")
    /\ UNCHANGED <<tables, txTables, conn, arg, previous>>

\* db.QueryContext: wait for the connection, then keep it for the rows.
OpenRows(c) ==
    /\ pc[c] = "query"
    /\ conn = Nobody
    /\ conn' = c
    /\ Goto(c, "rows")
    /\ UNCHANGED <<tables, txTables, arg, previous>>

\* Mutant of CloseRows: the rows are never closed.
LeakRows(c) ==
    /\ pc[c] = "rows"
    /\ Goto(c, "idle")
    /\ UNCHANGED <<tables, txTables, conn, arg, previous>>

\* The rows are read, a row cannot be read or ctx is cancelled: the deferred
\* rows.Close returns the connection.
CloseRows(c) ==
    /\ pc[c] = "rows"
    /\ conn' = Nobody
    /\ Goto(c, "idle")
    /\ UNCHANGED <<tables, txTables, arg, previous>>

\* The process dies; SQLite discards the open transaction when OpenStore
\* opens the file again, and init finds its tables in place.
Restart ==
    /\ pc # Idle
    /\ txStatus' = statusCache
    /\ txEvents' = events
    /\ conn' = Nobody
    /\ pc' = Idle
    /\ UNCHANGED <<tables, arg, previous>>

Step(c) ==
    \/ SelectPrevious(c) \/ Upsert(c) \/ InsertEvent(c) \/ Commit(c)
    \/ CloseRows(c)

Next ==
    \/ \E c \in Callers :
          \/ \E s \in Subjects, v \in Statuses : CallRecordStatus(c, s, v)
          \/ BeginTx(c) \/ Step(c)
          \/ Rollback(c) \/ GiveUp(c)
          \/ CallRecentEvents(c) \/ OpenRows(c)
    \/ Restart

Spec == Init /\ [][Next]_vars

(***************************************************************************)
(* A running statement finishes.  The pool hands a freed connection to     *)
(* some waiter, so a caller that waits while the connection is freed again *)
(* and again gets it some time: strong fairness.  Calls, cancellations and *)
(* restarts are not owed to anyone.                                        *)
(***************************************************************************)
Fairness ==
    \A c \in Callers :
        WF_vars(Step(c)) /\ SF_vars(BeginTx(c)) /\ SF_vars(OpenRows(c))

FairSpec == Spec /\ Fairness

-----------------------------------------------------------------------------

(***************************************************************************)
(* The committed event log of every subject is a path that ends in its     *)
(* committed status, whatever calls interleave, fail or die (the hazard of *)
(* RecordStatus' read-compare-write over two tables).                      *)
(***************************************************************************)
EventChain == Log!EventChain

\* What the open transaction of c sees before its next statement.
TxView(c) ==
    LET s == arg[c].subject  v == arg[c].status  p == statusCache[s]
        Written == [statusCache EXCEPT ![s] = v]
    IN  CASE pc[c] = "select" ->
                /\ txStatus = statusCache /\ txEvents = events
          [] pc[c] = "upsert" ->
                /\ txStatus = statusCache /\ txEvents = events
                /\ previous[c] = p
          [] pc[c] = "insert" ->
                /\ txStatus = Written /\ txEvents = events
                /\ previous[c] = p /\ Log!IsTransition(p, v)
          [] pc[c] = "commit" ->
                /\ txStatus = Written
                /\ txEvents = Log!Logged(events, s, p, v)
          [] OTHER -> TRUE

(***************************************************************************)
(* At most one caller is between taking and returning the connection, and  *)
(* the status it compared against is still the committed one when it       *)
(* commits: `previous` is never stale.                                     *)
(***************************************************************************)
PreviousIsCurrent ==
    \A c \in Callers :
        /\ pc[c] \in InTx \cup {"rows"} <=> conn = c
        /\ TxView(c)

(***************************************************************************)
(* However the statements of several calls interleave, fail or are cut off *)
(* by a crash, the committed tables only ever change by one whole          *)
(* observation: the store implements StatusLog.                            *)
(***************************************************************************)
ImplementsStatusLog == Log!Spec

(***************************************************************************)
(* No caller waits for ever: every RecordStatus and every RecentEvents     *)
(* returns, although all of them queue for a single connection.            *)
(***************************************************************************)
CallsReturn == \A c \in Callers : (pc[c] # "idle") ~> (pc[c] = "idle")
=============================================================================
