------------------------------ MODULE StatusLog ------------------------------
(***************************************************************************)
(* What the status half of the store promises (backend/internal/app/       *)
(* store.go): a table status_cache with the last status of every subject   *)
(* and an append-only table events with its transitions.  An observation   *)
(* is one indivisible step: it sets the status and, when the subject was   *)
(* known with another status, appends the transition.  The first           *)
(* observation of a subject is not a transition.                           *)
(*                                                                         *)
(* StatusStore implements this with several SQL statements per call; the   *)
(* modules above the store (Summary) are built on this one.                *)
(***************************************************************************)
EXTENDS Naturals, Sequences

CONSTANTS
    Subjects,   \* the (kind, subject_id) pairs statuses are recorded for
    Statuses,   \* the values of type Status
    Absent      \* no status: the subject has no row in status_cache. That it
                \* is none is assumed by the modules that instantiate this one

VARIABLES
    statusCache,    \* the rows of status_cache, by primary key
    events          \* the rows of events, in the order of their ids

vars == <<statusCache, events>>

Event == [subject : Subjects, from : Statuses, to : Statuses]

TypeOK ==
    /\ statusCache \in [Subjects -> Statuses \cup {Absent}]
    /\ events \in Seq(Event)

-----------------------------------------------------------------------------

\* Mutant of IsTransition: the first observation counts as one.
IsChange(previous, v) == previous # v

\* An observation v of subject s is a transition when s has another status.
IsTransition(previous, v) == previous # Absent /\ previous # v

\* The log after observing v for a subject s whose status was `previous`.
Logged(log, s, previous, v) ==
    IF IsTransition(previous, v)
    THEN Append(log, [subject |-> s, from |-> previous, to |-> v])
    ELSE log

Init ==
    /\ statusCache = [s \in Subjects |-> Absent]
    /\ events = <<>>

Observe(s, v) ==
    /\ statusCache' = [statusCache EXCEPT ![s] = v]
    /\ events' = Logged(events, s, statusCache[s], v)

Next == \E s \in Subjects, v \in Statuses : Observe(s, v)

Spec == Init /\ [][Next]_vars

-----------------------------------------------------------------------------

\* Nothing about s was logged between the log positions i and j.
NoneBetween(i, j, s) == \A k \in (i + 1)..(j - 1) : events[k].subject # s

(***************************************************************************)
(* The event log of a subject is a path through the statuses that ends in  *)
(* its current status: every event changes the status, starts where the    *)
(* subject's previous event ended, and the newest one ends in the row of   *)
(* status_cache.  This is what RecentEvents, StatusVolatility and the      *)
(* event pages rely on when they show `from -> to` next to the status.     *)
(***************************************************************************)
EventChain ==
    /\ \A i \in 1..Len(events) : events[i].from # events[i].to
    /\ \A i, j \in 1..Len(events) :
          /\ i < j
          /\ events[i].subject = events[j].subject
          /\ NoneBetween(i, j, events[i].subject)
          => events[j].from = events[i].to
    /\ \A i \in 1..Len(events) :
          NoneBetween(i, Len(events) + 1, events[i].subject)
          => statusCache[events[i].subject] = events[i].to
=============================================================================
