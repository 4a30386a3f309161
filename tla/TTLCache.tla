------------------------------ MODULE TTLCache ------------------------------
(***************************************************************************)
(* What the deployment checks promise to those who ask for them: an answer *)
(* was put together by some requester, from observations that took it at   *)
(* most MaxRebuild, and was filled in less than TTL ago; and nobody        *)
(* refreshes again within TTL.  Nothing is promised about the order: a     *)
(* slow refresh may replace a faster one that began later.                 *)
(***************************************************************************)
EXTENDS Integers

CONSTANTS Requesters, TTL, MaxRebuild, NoEntry

VARIABLES
    now,            \* the clock
    entry,          \* the last answer filled in: [from, filled], or NoEntry
    refreshed,      \* requester -> when it last filled the entry in, or -TTL
    given           \* requester -> the entry it was given, NoEntry if it asks

vars == <<now, entry, refreshed, given>>

Init ==
    /\ now = 0
    /\ entry = NoEntry
    /\ refreshed = [r \in Requesters |-> -TTL]
    /\ given = [r \in Requesters |-> NoEntry]

Tick ==
    /\ now' = now + 1
    /\ UNCHANGED <<entry, refreshed, given>>

Ask(r) ==
    /\ given' = [given EXCEPT ![r] = NoEntry]
    /\ UNCHANGED <<now, entry, refreshed>>

\* r answers from the cache.
Reuse(r) ==
    /\ entry # NoEntry
    /\ now < entry.filled + TTL
    /\ given' = [given EXCEPT ![r] = entry]
    /\ UNCHANGED <<now, entry, refreshed>>

\* r answers with what it has observed itself, its last refresh having expired.
Refresh(r) ==
    /\ refreshed[r] + TTL <= now
    /\ \E from \in now - MaxRebuild .. now :
          entry' = [from |-> from, filled |-> now]
    /\ refreshed' = [refreshed EXCEPT ![r] = now]
    /\ given' = [given EXCEPT ![r] = entry']
    /\ UNCHANGED now

Next == Tick \/ \E r \in Requesters : Ask(r) \/ Reuse(r) \/ Refresh(r)

Spec == Init /\ [][Next]_vars
=============================================================================
