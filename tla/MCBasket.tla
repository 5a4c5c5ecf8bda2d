------------------------------- MODULE MCBasket -------------------------------
(***************************************************************************)
(* BasketRebalance for TLC.  In Basket.cfg the momentum strategy trades    *)
(* instruments 1 and 2 and the funding strategy instrument 2, with         *)
(* different leverages; the account starts short in instrument 1.          *)
(* Either the funding strategy and one coroutine of momentum run, or two   *)
(* coroutines of momentum.                                                 *)
(***************************************************************************)
EXTENDS BasketRebalance

MCLevers   == [s \in Coroutines |-> IF s = "fxs" THEN {4} ELSE {3}]
MCOwner    == [s \in Coroutines |-> IF s = "fxs" THEN "funding" ELSE "momentum"]
MCKind     == [s \in Coroutines |-> IF s = "fxs" THEN "fxs" ELSE "xsm"]
MCUniverse == [s \in Coroutines |-> IF s = "fxs" THEN {2} ELSE {1, 2}]
MCCarried  == [i \in Insts |-> IF i = 1 THEN {-1} ELSE {0}]

MCSchedules ==
  {n \in [Coroutines -> 0..2] :
     /\ n["xsm"] <= 1 /\ n["again"] <= n["xsm"]
     /\ n["fxs"] = 0 \/ n["again"] = 0}

=============================================================================
