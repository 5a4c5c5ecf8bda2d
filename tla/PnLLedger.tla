----------------------------- MODULE PnLLedger -----------------------------
(***************************************************************************)
(* What one strategy earned: the trades table (pnl/tracker.py), written    *)
(* by the strategy when it submits an exit (strategies/pnl_hook.py), the   *)
(* ledger trades_okx, written every night from the bills of OKX            *)
(* (scripts/reconcile_pnl_from_okx.py), and the daily equity.  A day       *)
(* begins when the nightly run is due; the file outlives the process.      *)
(***************************************************************************)
EXTENDS Integers, FiniteSets

CONSTANTS Days,       \* --days of the nightly run
          PageCap,    \* bills one window of fetch_bills can return
          LastDay,    \* bound: days of a behaviour
          LastOrder   \* bound: orders of a behaviour

VARIABLES
  part,      \* "pnl" for the tables of trades, "equity" for the daily equity
  today,     \* nightly runs that have been due
  due,       \* the run of today is still to come
  ordered,   \* orders sent so far
  bills,     \* bills at OKX: [order, fill, day, pnl]
  trades,    \* trades table: [order, day]
  ledger,    \* trades_okx: the bills that have a row
  equities,  \* equities table: how many snapshots each day has
  noted,     \* last_day of the strategy; 0 when it has none
  missed,    \* history: days whose run failed
  restarts   \* history: days on which the process was started again

pvars == <<part, today, due, ordered, bills, trades, ledger, equities, noted, missed, restarts>>
books == <<ordered, bills, trades>>

Quiet ==
  /\ today = 1 /\ due = FALSE /\ ordered = 0 /\ bills = {} /\ trades = {}
  /\ ledger = {} /\ equities = [d \in 1..LastDay |-> 0] /\ noted = 0 /\ missed = {} /\ restarts = {}

Init == part \in {"pnl", "equity"} /\ Quiet
-----------------------------------------------------------------------------
(* Orders, and the bills their fills leave at OKX.                         *)

Bill(n, fill, pnl) == [order |-> n, fill |-> fill, day |-> today, pnl |-> pnl]

(* An entry leaves a bill with a fee and no profit.                        *)
Enter ==
  /\ part = "pnl" /\ ordered < LastOrder /\ ordered' = ordered + 1
  /\ bills' = bills \cup {Bill(ordered', 1, 0)}
  /\ UNCHANGED <<part, today, due, trades, ledger, equities, noted, missed, restarts>>

(* record_strategy_trade comes with the submission; OKX may refuse the     *)
(* order or fill it in parts.                                              *)
Exit ==
  /\ part = "pnl" /\ ordered < LastOrder /\ ordered' = ordered + 1
  /\ trades' = trades \cup {[order |-> ordered', day |-> today]}
  /\ \E pnl \in {-1, 1}, fillCount \in 0..2 :
       bills' = bills \cup {Bill(ordered', f, pnl) : f \in 1..fillCount}
  /\ UNCHANGED <<part, today, due, ledger, equities, noted, missed, restarts>>
-----------------------------------------------------------------------------
(* The nightly run.                                                        *)

Newer(found, b) ==
  {c \in found : c.order > b.order \/ (c.order = b.order /\ c.fill > b.fill)}

(* The pages of a window come newest first, and end at the cap: what is    *)
(* older is dropped ("HIT 20k CAP").                                       *)
Newest(found) == {b \in found : Cardinality(Newer(found, b)) < PageCap}

OfDay(day) == {b \in bills : b.day = day}

Within(from) == {b \in bills : b.day >= from}

\* Mutant: the whole window is asked for at once.
FetchAtOnce(from) == Newest(Within(from))

(* Day by day, each paged on its own.                                      *)
FetchBills(from) == UNION {Newest(OfDay(d)) : d \in from..today}

(* INSERT OR IGNORE: the primary key is the id of the bill.                *)
UpsertBills(rows, found) == rows \cup found

(* Nothing is written before every page was read.  A run by hand has       *)
(* windows of its own, from whatever moment it is started at to the same   *)
(* moment of the day after: what of the bills they find is left open.      *)
Reconcile ==
  /\ part = "pnl" \/ (part = "equity" /\ due)
  /\ \E found \in IF due THEN {FetchBills(today - Days)}
                   ELSE SUBSET Within(today - Days) :
       ledger' = UpsertBills(ledger, found)
  /\ due' = FALSE
  /\ UNCHANGED <<part, today, equities, noted, missed, restarts, books>>

ReconcileFails ==
  /\ due /\ due' = FALSE /\ missed' = missed \cup {today}
  /\ UNCHANGED <<part, today, ledger, equities, noted, restarts, books>>

NextDay ==
  /\ part \in {"pnl", "equity"} /\ ~due /\ today < LastDay
  /\ today' = today + 1 /\ due' = TRUE
  /\ UNCHANGED <<part, ledger, equities, noted, missed, restarts, books>>
-----------------------------------------------------------------------------
(* The daily equity.                                                       *)

Kept(day) == noted' = day

(* record_strategy_equity_daily, on every bar.                             *)
RecordEquity ==
  /\ part = "equity" /\ noted # today
  /\ equities' = [equities EXCEPT ![today] = @ + 1] /\ Kept(today)
  /\ UNCHANGED <<part, today, due, ledger, missed, restarts, books>>

Restart ==
  /\ part = "equity" /\ restarts = {} /\ restarts' = {today} /\ noted' = 0
  /\ UNCHANGED <<part, today, due, ledger, equities, missed, books>>

Next == \/ Enter \/ Exit \/ Reconcile \/ ReconcileFails \/ NextDay
        \/ RecordEquity \/ Restart

Spec == Init /\ [][Next]_pvars
-----------------------------------------------------------------------------
(* Reading.                                                                *)

(* The profit or loss of a bill is one unit or nothing.                    *)
SumPnL(rows) ==
  Cardinality({b \in rows : b.pnl = 1}) - Cardinality({b \in rows : b.pnl = -1})

(* One record per order, of the bills since a day.                         *)
RowsSince(since) == {b \in ledger : b.day >= since}
OrdersOf(rows)   == {b.order : b \in rows}
RowsOf(rows, n)  == {b \in rows : b.order = n}

FetchTradesOkx(since) == OrdersOf(RowsSince(since))
Realized(since) ==
  {n \in FetchTradesOkx(since) : SumPnL(RowsOf(RowsSince(since), n)) # 0}

Estimates(since) == {t.order : t \in {e \in trades : e.day >= since}}

(* Entries are no round trips, and a strategy that is in the ledger with   *)
(* nothing but entries has none; one that is not there has its estimates.  *)
GetRoundTrips(since) ==
  IF Realized(since) # {} THEN Realized(since)
  ELSE IF FetchTradesOkx(since) # {} THEN {} ELSE Estimates(since)

(* One snapshot counts per day, the last, and a day has its return from    *)
(* the day before it that has one.                                         *)
ComputeDailyReturns ==
  LET days == {d \in 1..LastDay : equities[d] > 0}
  IN  {r \in [from : days, to : days] :
         r.from < r.to /\ \A d \in days : ~(r.from < d /\ d < r.to)}
-----------------------------------------------------------------------------
(* What the ledger holds came from OKX, and no table is ahead of its day.  *)
PnLTypeOK ==
  /\ today \in 1..LastDay /\ due \in BOOLEAN /\ ordered \in 0..LastOrder
  /\ \A b \in bills : b.order \in 1..ordered /\ b.day \in 1..today
  /\ ledger \subseteq bills /\ equities \in [1..LastDay -> Nat]
  /\ noted \in 0..today /\ missed \subseteq 1..today /\ restarts \subseteq 1..today

(* "bills may have been dropped": as many newer ones as a window can       *)
(* return are of the same day.                                             *)
Buried(b) == Cardinality(Newer(OfDay(b.day), b)) >= PageCap

(* A bill is missing only when every nightly run whose window held it has  *)
(* failed, or its day hit the cap: one missed night costs nothing, and a   *)
(* busy day takes nothing from the days beside it.                         *)
LedgerComplete ==
  \A b \in bills \ ledger :
    \A d \in (b.day + 1)..(b.day + Days) :
      d < today \/ (d = today /\ ~due) => d \in missed \/ Buried(b)

(* With the strategy in the ledger, what counts as a round trip was closed *)
(* at OKX: neither an entry nor an exit that OKX refused.                  *)
RoundTripsAreCloses ==
  \A since \in 1..today :
    FetchTradesOkx(since) # {} =>
      \A n \in GetRoundTrips(since) : \E b \in bills : b.order = n /\ b.pnl # 0

(* A day has one snapshot per process at most, and one return whatever     *)
(* restarts there were.                                                    *)
EquityOncePerDay ==
  /\ \A d \in 1..LastDay : equities[d] <= IF d \in restarts THEN 2 ELSE 1
  /\ \A r, s \in ComputeDailyReturns : r.to = s.to => r = s
=============================================================================
