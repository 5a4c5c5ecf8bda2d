----------------------------- MODULE OrderMirror -----------------------------
(***************************************************************************)
(* What NT's strategies may rely on for an order, without requests,        *)
(* retries, answers and frames: it is at OKX once, it fills up to its      *)
(* quantity until it is filled or cancelled, and what NT books are fills   *)
(* that OKX has made, each of them once.                                   *)
(***************************************************************************)
EXTENDS Integers

CONSTANTS Orders, Qty

VARIABLES
  order,   \* state of the order at OKX
  filled,  \* quantity filled there
  booked   \* quantity NT has booked

Init ==
  /\ order  = [o \in Orders |-> "absent"]
  /\ filled = [o \in Orders |-> 0]
  /\ booked = [o \in Orders |-> 0]

Enter(o) ==
  /\ order[o] = "absent"
  /\ order' = [order EXCEPT ![o] = "live"]
  /\ UNCHANGED <<filled, booked>>

Fill(o, n) ==
  /\ order[o] = "live"
  /\ filled' = [filled EXCEPT ![o] = @ + n]
  /\ order'  = [order EXCEPT ![o] = IF filled[o] + n = Qty THEN "filled" ELSE @]
  /\ UNCHANGED booked

Cancel(o) ==
  /\ order[o] = "live"
  /\ order' = [order EXCEPT ![o] = "canceled"]
  /\ UNCHANGED <<filled, booked>>

\* NT learns of fills, late but never too much.
Book(o, n) ==
  /\ booked' = [booked EXCEPT ![o] = @ + n]
  /\ UNCHANGED <<order, filled>>

Next ==
  \E o \in Orders :
    \/ Enter(o)
    \/ \E n \in 1..(Qty - filled[o]) : Fill(o, n)
    \/ Cancel(o)
    \/ \E n \in 1..(filled[o] - booked[o]) : Book(o, n)

Spec == Init /\ [][Next]_<<order, filled, booked>>

==============================================================================
