---------------------------- MODULE MCStrategies ----------------------------
(***************************************************************************)
(* The strategies with several legs, for TLC: two carries (CarryTrade) and *)
(* the straddle seller (OptionStraddle).  The variable kind, fixed in      *)
(* Init, says which one a behaviour is about; the variables of the other   *)
(* stay as they began.                                                     *)
(***************************************************************************)
EXTENDS Integers

CONSTANTS Lot, MaxRaw, Every, EntryRate, ExitRate, MaxRate, MaxDays, \* CarryTrade
          ForceDays, MaxRounds,
          MaxQty, Threshold, HedgeGap, CloseDays,                    \* OptionStraddle
          MaxPerp, MaxSold

(* What the defaults of the strategy configurations satisfy.               *)
ASSUME CarryAssumption ==
  /\ Lot \in Nat \ {0} /\ MaxRaw \in Nat /\ Every \in Nat \ {0}
  /\ ExitRate \in Nat /\ EntryRate \in Nat /\ ExitRate < EntryRate
  /\ MaxRate \in Nat /\ MaxDays \in Nat /\ ForceDays \in Nat /\ MaxRounds \in Nat
ASSUME OptionAssumption ==
  /\ MaxQty \in Nat \ {0} /\ Threshold \in Nat /\ HedgeGap \in Nat
  /\ CloseDays \in Nat /\ MaxPerp \in Nat /\ MaxSold \in Nat

VARIABLES
  kind, days, rounds, mishap,
  isolated, hedged, has, spotQty, perpQty, since, task, plan, key, mode,
  asking, cached, legs, spot, perp, replaced, oneLegged,
  sold, qty, perpPos, hedgeAge, checking, delta, orders, account

carryOnly == <<isolated, hedged, has, spotQty, perpQty, since, task, plan, key,
               mode, asking, cached, legs, spot, perp, replaced, oneLegged>>
optionOnly == <<sold, qty, perpPos, hedgeAge, checking, delta, orders, account>>
vars == <<kind, days, rounds, mishap, carryOnly, optionOnly>>

Carry  == INSTANCE CarryTrade
Option == INSTANCE OptionStraddle

Init == \/ Carry!Init /\ Option!Quiet
        \/ Option!Init /\ Carry!Quiet /\ isolated = FALSE /\ hedged = FALSE

Next == \/ Carry!Next /\ UNCHANGED optionOnly
        \/ Option!Next /\ UNCHANGED carryOnly

Spec == Init /\ [][Next]_vars /\ Carry!Fairness /\ Option!Fairness
-----------------------------------------------------------------------------
(* The attributes of the strategies keep their ranges: a carry is believed *)
(* exactly when both of its sizes are positive, and there is a hedge only  *)
(* while a straddle is sold.                                               *)
StrategiesTypeOK ==
  /\ kind \in {"carry", "basis"} => Carry!CarryTypeOK
  /\ kind = "option" => Option!OptionTypeOK

(* funding_carry and basis_arb: at rest, unless a leg went wrong, the      *)
(* account holds the carry that is believed, its legs less than one lot    *)
(* apart; "we never end up with a one-sided (non-delta-neutral) position", *)
(* unless the posMode of the service changed under a waiting entry.        *)
CarryStaysNeutral == Carry!LegsMatch /\ Carry!NeverOneLegged

(* option_vol_selling: at rest, unless an order was refused or filled      *)
(* short, the account holds the straddle and the hedge it believes in.     *)
StraddleMatchesAccount == kind = "option" => Option!StraddleMatches

(* Whichever it is, an account at rest holds what its strategy believes.   *)
AccountsMatchBelief == CarryStaysNeutral /\ StraddleMatchesAccount

(* A future that nears its expiry, and a straddle that does, are closed in *)
(* the end, on the account too unless an order was not sent, refused or    *)
(* filled short, whatever requests and fetches fail in between.            *)
ExpiriesAreMet == Carry!ClosedBeforeExpiry /\ Option!StraddleEnds

(* "adjust perp_pos so that the portfolio delta is about 0"                *)
(* (_hedge_to_neutral): after an adjustment the net delta is below the     *)
(* threshold.                                                              *)
HedgeNeutral == Option!HedgeNeutral
=============================================================================
