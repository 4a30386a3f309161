---------------------------- MODULE AgentCollector ----------------------------
(***************************************************************************)
(* One cached collector of the metrics agent (cached_timed_collector of    *)
(* deploy/agent/rtime-status-agent.py).  Every run of the agent is a       *)
(* process of its own; cron, the timer and --check can start one while     *)
(* another is still at work.  They share two names in a directory:         *)
(*                                                                         *)
(*   load <path>; young enough -> report it                                *)
(*   else collect -> open <path>.tmp -> write the time and the value       *)
(*        -> os.replace(<path>.tmp, <path>) -> report the new value        *)
(*   any exception on the way -> report what was loaded, as failed         *)
(*                                                                         *)
(* An open file stays the same file when its name moves: a run may write   *)
(* into a file that another one has already renamed to <path>, or that has *)
(* no name any more.  A value fits the write buffer, so a file is written  *)
(* in one piece when it is closed.  A value is named by the true time of   *)
(* its collection; `began`, `setback` and what entries carry besides       *)
(* captured_at and the value are histories.  captured_at is the time of    *)
(* the save, not of the collection.                                        *)
(***************************************************************************)
EXTENDS Integers

CONSTANTS
    Runs,           \* agent processes that may be at work together
    Interval,       \* interval_seconds
    NoFile,         \* the name does not exist
    Empty,          \* a file that was opened for writing and not written yet
    Garbled,        \* a file that is not JSON: text of two runs in one
    Nothing,        \* nothing loaded; no collector status yet
    MaxTime,        \* bound: of true time
    MaxOffset       \* bound: how far the wall clock is ahead of it, and how
                    \* far it is set back in all

ASSUME IntervalAssumption == Interval \in Nat \ {0}
ASSUME BoundAssumption == MaxTime \in Nat \ {0} /\ MaxOffset \in Nat

Times == 1..MaxTime
Offsets == 0..MaxOffset

VARIABLES
    now, offset,    \* true time; the wall clock shows now + offset
    setback,        \* history: by how much the wall clock was set back in all
    path, tmp,      \* the files of these names
    pc,             \* where each run is
    file,           \* the name its open file has now
    held,           \* cached_value and its captured_at, as loaded
    value,          \* what the collector returned
    began,          \* history: when the run found nothing young enough
    status,         \* the status the run ended with
    alone,          \* history: no other run overlapped it, no write failed
    overlapped      \* history: two runs were at work together

clock == <<now, offset, setback>>
files == <<path, tmp>>
locals == <<pc, file, held, value, began, status>>
vars == <<clock, files, locals, alone, overlapped>>

\* captured_at and the value; for how long the run had been at work when it
\* saved them, and `setback` at that time.
Entry == [captured : Nat, value : Times, work : Nat, setback : Nat]

ASSUME SentinelAssumption ==
    /\ {NoFile, Empty, Garbled, Nothing} \cap Entry = {}
    /\ NoFile \notin {Empty, Garbled} /\ Empty # Garbled

Status == [ok : BOOLEAN, cached : BOOLEAN, entry : Entry \cup {Nothing},
           at : Times, setback : Nat]

TypeOK ==
    /\ now \in Times
    /\ offset \in Offsets
    /\ setback \in Nat
    /\ path \in Entry \cup {NoFile, Empty, Garbled}
    /\ tmp \in Entry \cup {NoFile, Empty, Garbled}
    /\ pc \in [Runs -> {"idle", "collect", "open", "write", "replace"}]
    /\ file \in [Runs -> {"none", "tmp", "path", "gone"}]
    /\ \A r \in Runs : file[r] # "none" <=> pc[r] = "write"
    /\ held \in [Runs -> Entry \cup {Nothing}]
    /\ value \in [Runs -> Times]
    /\ began \in [Runs -> 1..now]
    /\ status \in [Runs -> Status \cup {Nothing}]
    /\ alone \in [Runs -> BOOLEAN]
    /\ overlapped \in BOOLEAN

Init ==
    /\ now = 1
    /\ offset \in Offsets
    /\ setback = 0
    /\ path = NoFile
    /\ tmp = NoFile
    /\ pc = [r \in Runs |-> "idle"]
    /\ file = [r \in Runs |-> "none"]
    /\ held = [r \in Runs |-> Nothing]
    /\ value = [r \in Runs |-> 1]
    /\ began = [r \in Runs |-> 1]
    /\ status = [r \in Runs |-> Nothing]
    /\ alone = [r \in Runs |-> TRUE]
    /\ overlapped = FALSE

-----------------------------------------------------------------------------

Goto(r, next) == pc' = [pc EXCEPT ![r] = next]

Wall == now + offset

\* Mutant of Report: the file is not closed when an exception ends the run.
ReportLeavesOpen(r, ok, cached, entry) ==
    /\ Goto(r, "idle")
    /\ status' = [status EXCEPT ![r] = [ok |-> ok, cached |-> cached,
                     entry |-> entry, at |-> now, setback |-> setback]]
    /\ held' = [held EXCEPT ![r] = Nothing]
    /\ value' = [value EXCEPT ![r] = 1]
    /\ began' = [began EXCEPT ![r] = 1]
    /\ UNCHANGED file

\* The run reports and ends; what it held no longer matters.
Report(r, ok, cached, entry) ==
    /\ Goto(r, "idle")
    /\ status' = [status EXCEPT ![r] = [ok |-> ok, cached |-> cached,
                     entry |-> entry, at |-> now, setback |-> setback]]
    /\ file' = [file EXCEPT ![r] = "none"]
    /\ held' = [held EXCEPT ![r] = Nothing]
    /\ value' = [value EXCEPT ![r] = 1]
    /\ began' = [began EXCEPT ![r] = 1]

\* except Exception: the cached value, or the fallback, and ok = False.
Reuse(r) == Report(r, FALSE, held[r] # Nothing, held[r])

\* load_cached_collector: an entry, or None for a file that cannot be read.
Loaded == IF path \in {NoFile, Empty, Garbled} THEN Nothing ELSE path

Positive(n) == IF n < 0 THEN 0 ELSE n

\* Mutant of Young: the comparison is off by one.
YoungAtInterval(e) == Positive(Wall - e.captured) <= Interval

\* cache_age, cut at zero, against interval_seconds.
Young(e) == Positive(Wall - e.captured) < Interval

\* A run starts: the cached value is reported when it is young enough.
Load(r) ==
    LET others == {x \in Runs \ {r} : pc[x] # "idle"} IN
    /\ pc[r] = "idle"
    /\ IF Loaded # Nothing /\ Young(Loaded)
       THEN /\ Report(r, TRUE, TRUE, Loaded)
            /\ UNCHANGED <<alone, overlapped>>
       ELSE /\ held' = [held EXCEPT ![r] = Loaded]
            /\ began' = [began EXCEPT ![r] = now]
            /\ status' = [status EXCEPT ![r] = Nothing]
            /\ alone' = [x \in Runs |-> IF x = r THEN others = {}
                                        ELSE alone[x] /\ x \notin others]
            /\ overlapped' = (overlapped \/ others # {})
            /\ Goto(r, "collect")
            /\ UNCHANGED <<file, value>>
    /\ UNCHANGED <<clock, files>>

\* collector() returns a value or raises.
Collect(r) ==
    /\ pc[r] = "collect"
    /\ \/ /\ value' = [value EXCEPT ![r] = now]
          /\ Goto(r, "open")
          /\ UNCHANGED <<file, held, began, status>>
       \/ Reuse(r)
    /\ UNCHANGED <<clock, files, alone, overlapped>>

\* Mutants of Open: the file is written in place; a left-over file is an error.
OpenInPlace(r) ==
    /\ pc[r] = "open"
    /\ path' = Empty
    /\ file' = [file EXCEPT ![r] = "path"]
    /\ Goto(r, "write")
    /\ UNCHANGED <<clock, tmp, held, value, began, status, alone, overlapped>>

OpenExclusive(r) ==
    /\ pc[r] = "open"
    /\ IF tmp = NoFile
       THEN /\ tmp' = Empty
            /\ file' = [file EXCEPT ![r] = "tmp"]
            /\ Goto(r, "write")
            /\ UNCHANGED <<held, value, began, status>>
       ELSE Reuse(r) /\ UNCHANGED tmp
    /\ UNCHANGED <<clock, path, alone, overlapped>>

\* open(tmp_path, "w") creates the file, or empties the one that is there,
\* be it left over by a run that was killed or open in another one.
Open(r) ==
    /\ pc[r] = "open"
    /\ tmp' = Empty
    /\ file' = [file EXCEPT ![r] = "tmp"]
    /\ Goto(r, "write")
    /\ UNCHANGED <<clock, path, held, value, began, status, alone, overlapped>>

\* What a file holds after e was written to it from its start: the rest of a
\* longer text of another run may stay behind it.
Written(content, e) == IF content = Empty THEN {e} ELSE {e, Garbled}

\* json.dump with time.time(), and the end of the with block.
Write(r) ==
    LET e == [captured |-> Wall, value |-> value[r],
              work |-> now - began[r], setback |-> setback]
    IN  /\ pc[r] = "write"
        /\ IF file[r] = "tmp" THEN tmp' \in Written(tmp, e) ELSE tmp' = tmp
        /\ IF file[r] = "path" THEN path' \in Written(path, e) ELSE path' = path
        /\ file' = [file EXCEPT ![r] = "none"]
        /\ Goto(r, "replace")
        /\ UNCHANGED <<clock, held, value, began, status, alone, overlapped>>

\* Where an open file is after <path>.tmp was renamed to <path>.
Moved(name) == CASE name = "tmp" -> "path"
                 [] name = "path" -> "gone"
                 [] OTHER -> name

\* os.replace; another run may have renamed the file, which is an exception
\* although the value was collected.
Replace(r) ==
    /\ pc[r] = "replace"
    /\ IF tmp = NoFile
       THEN Reuse(r) /\ UNCHANGED files
       ELSE /\ path' = tmp
            /\ tmp' = NoFile
            /\ status' = [status EXCEPT ![r] = [ok |-> TRUE, cached |-> FALSE,
                  entry |-> Nothing, at |-> now, setback |-> setback]]
            /\ file' = [x \in Runs |-> Moved(file[x])]
            /\ held' = [held EXCEPT ![r] = Nothing]
            /\ value' = [value EXCEPT ![r] = 1]
            /\ began' = [began EXCEPT ![r] = 1]
            /\ Goto(r, "idle")
    /\ UNCHANGED <<clock, alone, overlapped>>

\* An OSError of makedirs, open or write, such as a full disk.
Fault(r) ==
    /\ pc[r] \in {"open", "write"}
    /\ Reuse(r)
    /\ alone' = [alone EXCEPT ![r] = FALSE]
    /\ UNCHANGED <<clock, files, overlapped>>

\* The run is killed; its file stays as it is.
Kill(r) ==
    /\ pc[r] # "idle"
    /\ Goto(r, "idle")
    /\ file' = [file EXCEPT ![r] = "none"]
    /\ held' = [held EXCEPT ![r] = Nothing]
    /\ value' = [value EXCEPT ![r] = 1]
    /\ began' = [began EXCEPT ![r] = 1]
    /\ UNCHANGED <<clock, files, status, alone, overlapped>>

Tick ==
    /\ now < MaxTime
    /\ now' = now + 1
    /\ UNCHANGED <<offset, setback, files, locals, alone, overlapped>>

\* Somebody, or NTP, sets the wall clock.
SetClock(o) ==
    /\ setback + Positive(offset - o) <= MaxOffset
    /\ offset' = o
    /\ setback' = setback + Positive(offset - o)
    /\ UNCHANGED <<now, files, locals, alone, overlapped>>

Next ==
    \/ \E r \in Runs : \/ Load(r) \/ Collect(r) \/ Open(r) \/ Write(r)
                       \/ Replace(r) \/ Fault(r) \/ Kill(r)
    \/ Tick
    \/ \E o \in Offsets : SetClock(o)

Spec == Init /\ [][Next]_vars

-----------------------------------------------------------------------------

(***************************************************************************)
(* A value that is reported from the cache as ok was collected less than   *)
(* the interval ago in true time, and the time the run that collected it   *)
(* was at work (captured_at is stamped when it saves), and what the wall   *)
(* clock was set back since then: overlapping runs, killed runs and failed *)
(* collectors never make an old value look new (a failed run must not      *)
(* renew its cache).                                                       *)
(***************************************************************************)
OkIsRecent ==
    \A r \in Runs :
        LET st == status[r] IN
        st # Nothing /\ st.ok /\ st.cached =>
            st.at - st.entry.value <
                Interval + st.entry.work + (st.setback - st.entry.setback)

(***************************************************************************)
(* A reader never finds half a file under <path>, whichever runs were      *)
(* killed at whatever point or ran out of disk, as long as no two runs     *)
(* were at work together: the purpose of writing aside and renaming.       *)
(***************************************************************************)
CacheReadable == ~overlapped => path \notin {Empty, Garbled}

(***************************************************************************)
(* A run that collected a value, overlapped no other run and could write   *)
(* reports the value as ok and leaves it in the cache, whatever earlier    *)
(* runs, overlapping and killed ones included, left in the directory: a    *)
(* broken cache is mended by the next such run.                            *)
(***************************************************************************)
LoneRunSaves ==
    [][\A r \in Runs :
          /\ pc[r] \in {"open", "write", "replace"}
          /\ pc'[r] = "idle" /\ status'[r] # Nothing
          /\ alone'[r]
          => /\ status'[r].ok
             /\ path' \in Entry /\ path'.value = value[r]]_vars
=============================================================================
