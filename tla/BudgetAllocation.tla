-------------------------- MODULE BudgetAllocation --------------------------
(***************************************************************************)
(* The capital of the strategies: the allocators (portfolio/) divide the   *)
(* account's equity, build_live_context gives each strategy its share of   *)
(* the configured equity, and LiveMonitor._refresh_allocations divides the *)
(* real one again and writes the shares into the strategies.               *)
(*                                                                         *)
(* Equity is counted in cents.  The inverse volatility and the correlation *)
(* penalty of the strategies are inputs: their product is a weight.        *)
(***************************************************************************)
EXTENDS Integers

CONSTANTS Parties,    \* number of enabled strategies, in their order
          Totals,     \* values the account's equity may have, in cents
          MaxWeight   \* weights are 0..MaxWeight

VARIABLES
  kind,       \* "equal" or "risk": portfolio_optimizer.mode
  total,      \* the equity divided last
  granted,    \* what allocate returned last
  inUse       \* _allocated_equity_usdt, or account_equity_usdt before it is set

bvars == <<kind, total, granted, inUse>>

Modes == {"equal", "risk"}
Names == 1..Parties

(* What the first strategies have together.                                *)
SumTo(f, k) ==
  LET sum[n \in 0..Parties] == IF n = 0 THEN 0 ELSE sum[n - 1] + f[n]
  IN  sum[k]
SumOver(f) == SumTo(f, Parties)

-----------------------------------------------------------------------------
(* EqualWeightAllocator: the last strategy takes what the division leaves. *)
EqualShares(t) ==
  LET per == t \div Parties
  IN  [s \in Names |-> IF s = Parties THEN t - per * (Parties - 1) ELSE per]

(* Decimal.quantize: to the nearest cent, halves to the even.              *)
Quantize(a, b) ==
  LET q == a \div b  twice == 2 * (a % b)
  IN  IF twice > b \/ (twice = b /\ q % 2 = 1) THEN q + 1 ELSE q

(* RiskBudgetingAllocator with weights: shares are rounded, the last one   *)
(* is the rest.                                                            *)
WeightedShares(t, w) ==
  LET share == [s \in Names |-> Quantize(t * w[s], SumOver(w))]
  IN  [share EXCEPT ![Parties] = t - SumTo(share, Parties - 1)]

(* A history that is too short, no volatility anywhere, or weights that    *)
(* sum to nothing: equal shares.  A single strategy has everything.        *)
RiskShares(t, w, warm) ==
  IF Parties = 1 THEN [s \in Names |-> t]
  ELSE IF ~warm \/ SumOver(w) = 0 THEN EqualShares(t)
  ELSE WeightedShares(t, w)

Weights == [Names -> 0..MaxWeight]

(* What allocate may return for a total, by the mode.                      *)
RiskAllocations == [t \in Totals |-> {RiskShares(t, i.w, i.warm) : i \in [w : Weights, warm : BOOLEAN]}]

Allocations(t) == IF kind = "equal" THEN {EqualShares(t)} ELSE RiskAllocations[t]

-----------------------------------------------------------------------------
BudgetQuiet ==
  /\ total = 0 /\ granted = [s \in Names |-> 0] /\ inUse = [s \in Names |-> 0]

(* build_live_context: the shares of the configured equity.                *)
Init ==
  /\ kind \in Modes
  /\ total \in Totals
  /\ granted \in Allocations(total) /\ inUse = granted

\* Mutant: a budget is raised, never lowered.
WriteRaises(g) == [s \in Names |-> IF g[s] > inUse[s] THEN g[s] ELSE inUse[s]]

(* The monitor writes the shares that are positive and skips the others:   *)
(* such a strategy keeps the budget it had.                                *)
Write(g) == [s \in Names |-> IF g[s] > 0 THEN g[s] ELSE inUse[s]]

(* An equity provider that fails or has nothing changes nothing.           *)
Refresh ==
  /\ \E t \in Totals : /\ total' = t
                       /\ granted' \in Allocations(t)
  /\ inUse' = Write(granted')
  /\ UNCHANGED kind

Next == Refresh
Spec == Init /\ [][Next]_bvars

-----------------------------------------------------------------------------
(* "sum == total_equity_usdt" (portfolio/base.py), to the cent.            *)
SharesSumToTotal == SumOver(granted) = total

(* The rest may be negative, as the other shares were rounded, by half a   *)
(* cent for each of them at most.                                          *)
SharesBarelyNegative == \A s \in Names : 2 * granted[s] >= 1 - Parties

(* When every strategy has a share, the budgets in use sum to the equity   *)
(* that was divided, whatever they were before.  A share that is not       *)
(* positive breaks this: its strategy keeps a budget the others were given *)
(* too.                                                                    *)
BudgetsSumToTotal == (\A s \in Names : granted[s] > 0) => SumOver(inUse) = total
=============================================================================
