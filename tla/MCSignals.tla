----------------------------- MODULE MCSignals -----------------------------
(***************************************************************************)
(* The five directional strategies (DirectionalTrade) for TLC, together    *)
(* with what strategies compute from: their price buffers (PriceHistory),  *)
(* the choice of their legs (LegSelection) and their capital               *)
(* (BudgetAllocation).  The variable kind, fixed in Init, says which one a *)
(* behaviour is about; the variables of the others stay as they began.     *)
(***************************************************************************)
EXTENDS DirectionalTrade

CONSTANTS N, Cap, Want, MinBars, Period, Attempts, MaxNow,  \* PriceHistory
          Universe, TopScore, MaxSide, MaxCap,              \* LegSelection
          Parties, Totals, MaxWeight                        \* BudgetAllocation

(* What the defaults of the strategy configurations satisfy.               *)
ASSUME HistoryAssumption ==
  /\ N \in Nat \ {0} /\ Want \in Nat \ {0} /\ Cap \in Nat /\ Want <= Cap
  /\ MinBars \in Nat \ {0} /\ Period \in Nat \ {0} /\ Attempts \in Nat \ {0}
  /\ MaxNow \in Nat /\ MaxNow > Cap
ASSUME SelectionAssumption ==
  /\ Universe \in Nat /\ TopScore \in Nat /\ MaxSide \in Nat /\ MaxCap \in Nat
  /\ Parties \in Nat \ {0} /\ Totals \subseteq Nat /\ MaxWeight \in Nat

VARIABLES
  now, pushed, series, phase, todo, asked, fetched, attempt, lastRebalance,
  rebalancing, missed,
  score, top, bot, cap, longs, shorts, picked,
  total, granted, inUse

single  == <<isolated, position, schedule, tasks, orders, outside, seenOpp>>
buffers == <<now, pushed, series, phase, todo, asked, fetched, attempt,
             lastRebalance, rebalancing, missed>>
choice  == <<score, top, bot, cap, longs, shorts, picked>>
budgets == <<total, granted, inUse>>
allVars == <<kind, single, buffers, choice, budgets>>

Prices    == INSTANCE PriceHistory
Selection == INSTANCE LegSelection
Budget    == INSTANCE BudgetAllocation

SingleQuiet == Flat /\ isolated = FALSE /\ since = 0

MCInit ==
  \/ Init /\ Prices!HistoryQuiet /\ Selection!SelectionQuiet /\ Budget!BudgetQuiet
  \/ Prices!Init /\ SingleQuiet /\ Selection!SelectionQuiet /\ Budget!BudgetQuiet
  \/ Selection!Init /\ SingleQuiet /\ Prices!HistoryQuiet /\ Budget!BudgetQuiet
  \/ Budget!Init /\ SingleQuiet /\ Prices!HistoryQuiet /\ Selection!SelectionQuiet

MCNext ==
  \/ kind \in Kinds /\ Next /\ UNCHANGED <<buffers, choice, budgets>>
  \/ /\ kind \in Prices!HistoryKinds /\ Prices!Next
     /\ UNCHANGED <<single, choice, budgets>>
  \/ /\ kind \in Selection!SelectionKinds /\ Selection!Next
     /\ UNCHANGED <<single, buffers, budgets>>
  \/ /\ kind \in Budget!Modes /\ Budget!Next
     /\ UNCHANGED <<single, buffers, choice>>

(* Bars keep coming while a position is watched, the warm-up goes on.      *)
MCSpec == /\ MCInit /\ [][MCNext]_allVars
          /\ Fairness /\ Prices!Fairness
-----------------------------------------------------------------------------
(* The attributes of a directional strategy keep their ranges, its orders  *)
(* are whole lots, and no price buffer outgrows its maximum length.        *)
SignalsTypeOK ==
  /\ kind \in Kinds => TypeOK
  /\ kind \in Prices!HistoryKinds => Prices!HistoryTypeOK

(* ob_imbalance does not re-enter the side it has left before the book has *)
(* turned, a position with a time limit ends (ob, skew, ml), and so does a *)
(* warm-up: the attempts are limited and failures are survived.            *)
SignalsProceed == NoSameSideChurn /\ HoldEnds /\ Prices!WarmupEnds

(* Warm-ups that race live bars: the buffers of stat_arb_pairs and         *)
(* funding_cross_section stay in order, and a bar that was delivered       *)
(* survives the refill unless it came between fetch and refill.            *)
BuffersAreTrue ==
  Prices!SeriesInOrder /\ (kind \in Prices!HistoryKinds => Prices!BarsSurvive)

(* "aligned across inst via tail-take" (_build_panel): the rows that a     *)
(* rebalance of factor_portfolio reads are of the same time.               *)
ColumnsAligned == Prices!ColumnsAligned

(* The legs of a round: no instrument that was passed over would have been *)
(* a better leg, the cap of xs_momentum is met and used up, and with       *)
(* enough scores both sides are filled.                                    *)
LegsAreBest ==
  Selection!ExtremesAreChosen /\ Selection!CapIsUsed /\ Selection!BothSidesFull

(* The shares of the strategies sum to the equity to the cent, the rest    *)
(* that the last one takes is barely negative, and when every share is     *)
(* positive the budgets in use sum to the equity (allocate,                *)
(* _refresh_allocations).                                                  *)
BudgetsAreExact ==
  /\ Budget!SharesSumToTotal /\ Budget!SharesBarelyNegative
  /\ kind \in Budget!Modes => Budget!BudgetsSumToTotal
=============================================================================
