---------------------------- MODULE DrawdownTracker ----------------------------
(***************************************************************************)
(* The state machine of risk/drawdown.py as a record and the functions     *)
(* that compute its next value.  DrawdownTracker and its subclass          *)
(* AccountDrawdownTracker behave alike.                                    *)
(*                                                                         *)
(* Time is counted in ticks of the monitor's poll interval; equities are   *)
(* positive integers, thresholds are percentages.                          *)
(***************************************************************************)
EXTENDS Integers

CONSTANTS
  DailyPct,     \* daily_threshold_pct * 100
  WeeklyPct,    \* weekly_threshold_pct * 100
  TicksPerDay,
  DaysPerWeek

ASSUME TrackerAssumption ==
  /\ DailyPct \in Nat \ {0}
  /\ WeeklyPct \in Nat \ {0}
  /\ TicksPerDay \in Nat \ {0}
  /\ DaysPerWeek \in Nat \ {0}

Levels == {"normal", "daily", "weekly"}

Day(ts)  == ts \div TicksPerDay
Week(ts) == Day(ts) \div DaysPerWeek

\* 1 - eq / open >= pct / 100
Breached(pct, open, eq) == (open - eq) * 100 >= pct * open

\* A tracker that no snapshot has reached: both opens are 0.0.
Fresh == [state |-> "normal", dayOpen |-> 0, weekOpen |-> 0, lastTs |-> 0,
          cur |-> 0]

\* Mutant: the daily threshold is looked at first.
DailyFirst(state, dayOpen, weekOpen, eq) ==
  CASE state = "weekly"                  -> "weekly"
    [] state # "weekly" /\ Breached(DailyPct, dayOpen, eq)
                                         -> "daily"
    [] state # "weekly" /\ ~Breached(DailyPct, dayOpen, eq)
         /\ Breached(WeeklyPct, weekOpen, eq)
                                         -> "weekly"
    [] OTHER                             -> state

\* The checks at the end of record_equity: WEEKLY_BREACH is locked, the
\* weekly threshold overrides the daily one.
Checked(state, dayOpen, weekOpen, eq) ==
  IF state = "weekly" \/ Breached(WeeklyPct, weekOpen, eq) THEN "weekly"
  ELSE IF Breached(DailyPct, dayOpen, eq) THEN "daily"
  ELSE state

\* Mutant: the weekly lock opens with the new day, like the daily one.
ReopenAll(state) == "normal"

\* The state a new UTC day starts from.
Reopen(state) == IF state = "daily" THEN "normal" ELSE state

\* record_equity(ts, eq); the first call only initialises the opens.
Record(t, ts, eq) ==
  LET newDay   == Day(ts) # Day(t.lastTs)
      dayOpen  == IF newDay THEN eq ELSE t.dayOpen
      weekOpen == IF Week(ts) # Week(t.lastTs) THEN eq ELSE t.weekOpen
      state    == IF newDay THEN Reopen(t.state) ELSE t.state
  IN  IF t.dayOpen = 0
      THEN [t EXCEPT !.dayOpen = eq, !.weekOpen = eq, !.lastTs = ts, !.cur = eq]
      ELSE [state    |-> Checked(state, dayOpen, weekOpen, eq),
            dayOpen  |-> dayOpen,
            weekOpen |-> weekOpen,
            lastTs   |-> ts,
            cur      |-> eq]

\* acknowledge_weekly_breach, called in WEEKLY_BREACH.
Acknowledged(t) == [t EXCEPT !.state = "normal", !.weekOpen = t.cur]

\* DrawdownCheck.check and AccountDrawdownCheck.check reject every intent.
Halted(t) == t.state # "normal"

=============================================================================
