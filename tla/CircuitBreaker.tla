---------------------------- MODULE CircuitBreaker ----------------------------
(***************************************************************************)
(* What the drawdown kill switch promises to those who trade under it,     *)
(* without equities, opens and refreshes: a daily halt lasts for the UTC   *)
(* day of the snapshot that caused it, a weekly halt lasts until the       *)
(* operator acknowledges it, and only the end of the process forgets it.   *)
(* An entry is let through without a halt only; one that was let through   *)
(* before a halt may still leave for OKX during it.                        *)
(***************************************************************************)
EXTENDS Integers

CONSTANT Strategies

VARIABLES
  level,   \* normal, daily or weekly
  day,     \* UTC day of the last snapshot
  entries  \* per strategy, entries let through that have not left yet

NoEntries == [s \in Strategies |-> 0]

Init == level = "normal" /\ day = 0 /\ entries = NoEntries

\* A snapshot of a later day may reopen a daily halt; one of the same day
\* may only keep or escalate it.
Snapshot ==
  /\ day' \in Int
  /\ level' \in CASE level = "weekly" -> {"weekly"}
                  [] level = "daily" /\ day' = day -> {"daily", "weekly"}
                  [] OTHER -> {"normal", "daily", "weekly"}
  /\ UNCHANGED entries

Acknowledge ==
  /\ level = "weekly"
  /\ level' = "normal"
  /\ UNCHANGED <<day, entries>>

ProcessEnds == level' = "normal" /\ day' = 0 /\ entries' = NoEntries

Admit(s) ==
  /\ level = "normal"
  /\ entries' = [entries EXCEPT ![s] = @ + 1]
  /\ UNCHANGED <<level, day>>

\* Submitted or given up.
Leave(s) ==
  /\ entries[s] > 0
  /\ entries' = [entries EXCEPT ![s] = @ - 1]
  /\ UNCHANGED <<level, day>>

Next ==
  \/ Snapshot
  \/ Acknowledge
  \/ ProcessEnds
  \/ \E s \in Strategies : Admit(s) \/ Leave(s)

Spec == Init /\ [][Next]_<<level, day, entries>>

=============================================================================
