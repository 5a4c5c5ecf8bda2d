--------------------------- MODULE OptionStraddle ---------------------------
(***************************************************************************)
(* option_vol_selling: sell a straddle, hedge its delta with the           *)
(* perpetual, and close everything near expiry or far from the strike.     *)
(* All contracts are worth one unit.  The delta of one straddle, call and  *)
(* put together, is an input between -1 and 1; so are the market's         *)
(* distance from the strike and whether the premium invites an entry.      *)
(***************************************************************************)
EXTENDS Integers

CONSTANTS MaxQty,      \* straddles the notional limit allows
          Threshold,   \* delta above which the position is hedged again
          HedgeGap,    \* delta_hedge_freq_min, in checks
          MaxDays,     \* days to expiry of a straddle that is sold
          CloseDays,   \* close_days_before_expiry
          MaxPerp,     \* bound: hedge position
          MaxSold      \* bound: straddles sold in a behaviour

VARIABLES
  kind,      \* which strategy runs; fixed in Init
  sold,      \* _call_inst_id is not None
  qty,       \* _call_qty = _put_qty
  perpPos,   \* _perp_pos
  days,      \* to the expiry of the straddle
  hedgeAge,  \* checks since _last_hedge_ts_ms
  checking,  \* a check is under way
  delta,     \* delta of one straddle at the latest check
  orders,    \* orders on their way
  account,   \* contracts held: straddle legs and perpetual
  rounds,    \* straddles sold
  mishap     \* history: an order was refused or filled short

ovars == <<kind, sold, qty, perpPos, days, hedgeAge, checking, delta, orders, account,
           rounds, mishap>>

Legs == {"call", "put", "perp"}
Abs(n) == IF n < 0 THEN -n ELSE n

\* A straddle that is sold has a size, and the hedge outlives no straddle:
\* _perp_pos is 0 as soon as none is sold.
OptionTypeOK ==
  /\ sold \in BOOLEAN /\ qty \in 0..MaxQty /\ (sold <=> qty > 0)
  /\ perpPos \in -MaxPerp..MaxPerp /\ (~sold => perpPos = 0)
  /\ days \in 0..MaxDays /\ hedgeAge \in 0..HedgeGap /\ checking \in BOOLEAN
  /\ delta \in -1..1
  /\ \A o \in orders : o.leg \in Legs /\ o.size \in Int \ {0}
  /\ \A l \in Legs : account[l] \in Int
  /\ rounds \in 0..MaxSold /\ mishap \in BOOLEAN

Quiet ==
  /\ sold = FALSE /\ qty = 0 /\ perpPos = 0 /\ hedgeAge = HedgeGap
  /\ checking = FALSE /\ delta = 0 /\ orders = {}
  /\ account = [l \in Legs |-> 0]

Init == kind = "option" /\ Quiet /\ days = 0 /\ rounds = 0 /\ mishap = FALSE

(* Orders are numbered by what was sent before; reduce-only ones take at   *)
(* most what is held.                                                      *)
Order(leg, size, reduce) == [leg |-> leg, size |-> size, reduce |-> reduce, n |-> rounds]

-----------------------------------------------------------------------------
NeedsRehedge(net) == Abs(net) > Threshold

(* The target is the opposite of the delta it is given.                    *)
HedgeTarget(net) == -net

(* _hedge_to_neutral, from a perpetual position and a net delta: at most   *)
(* once per gap, and only when a whole contract is missing.                *)
HedgeToNeutral(position, net, sent) ==
  LET diff == HedgeTarget(net) - position
  IN  IF hedgeAge < HedgeGap \/ diff = 0
      THEN /\ perpPos' = position /\ UNCHANGED hedgeAge
           /\ orders' = orders \cup sent
      ELSE /\ Abs(position + diff) <= MaxPerp
           /\ perpPos' = position + diff /\ hedgeAge' = 0
           /\ orders' = orders \cup sent \cup {Order("perp", diff, FALSE)}

(* Expiry and strike nearest to the targets, premium against realised      *)
(* volatility: any of them may end the check.                              *)
NoEntry == UNCHANGED <<sold, qty, perpPos, days, hedgeAge, orders, rounds>>

(* Both legs are sold, the state is written, the first hedge follows.      *)
OpenStraddle(n, d) ==
  /\ sold' = TRUE /\ qty' = n /\ days' = MaxDays /\ rounds' = rounds + 1
  /\ HedgeToNeutral(perpPos, -n * d,
                    {Order("call", -n, FALSE), Order("put", -n, FALSE)})

MaybeEnter(d) ==
  \/ NoEntry
  \/ rounds < MaxSold /\ \E n \in 1..MaxQty : OpenStraddle(n, d)

\* Mutant: the hedge outlives the straddle.
CloseStraddle ==
  /\ orders' = orders \cup {Order("call", qty, TRUE), Order("put", qty, TRUE)}
  /\ sold' = FALSE /\ qty' = 0 /\ perpPos' = 0 /\ days' = 0
  /\ UNCHANGED <<hedgeAge, rounds>>

(* Everything is bought back or sold, and forgotten.                       *)
CloseAll ==
  /\ orders' = orders \cup {Order("call", qty, TRUE), Order("put", qty, TRUE)}
                      \cup (IF perpPos = 0 THEN {}
                            ELSE {Order("perp", -perpPos, TRUE)})
  /\ sold' = FALSE /\ qty' = 0 /\ perpPos' = 0 /\ days' = 0
  /\ UNCHANGED <<hedgeAge, rounds>>

ManagePosition(d, far) ==
  IF days <= CloseDays \/ far
  THEN CloseAll
  ELSE LET net == -qty * d + perpPos
       IN  /\ IF NeedsRehedge(net)
              THEN HedgeToNeutral(perpPos, net, {})
              ELSE UNCHANGED <<perpPos, hedgeAge, orders>>
           /\ UNCHANGED <<sold, qty, days, rounds>>

-----------------------------------------------------------------------------
(* on_bar: the day goes on and a check starts when it is due.  Checks are  *)
(* an hour apart: the market orders of the one before are done.            *)
OptionBar ==
  /\ kind = "option" /\ ~checking /\ checking' = TRUE /\ orders = {}
  /\ hedgeAge' = (IF hedgeAge < HedgeGap THEN hedgeAge + 1 ELSE HedgeGap)
  /\ days' \in {days, IF days = 0 THEN 0 ELSE days - 1}
  /\ UNCHANGED <<kind, sold, qty, perpPos, delta, orders, account, rounds, mishap>>

(* The chain could not be fetched, or is empty.                            *)
ChainFails == /\ checking /\ checking' = FALSE
              /\ UNCHANGED <<kind, sold, qty, perpPos, days, hedgeAge, delta,
                             orders, account, rounds, mishap>>

CheckOptions ==
  /\ checking /\ checking' = FALSE
  /\ \E d \in -1..1, far \in BOOLEAN :
       /\ delta' = d
       /\ IF ~sold THEN MaybeEnter(d) ELSE ManagePosition(d, far)
  /\ UNCHANGED <<kind, account, mishap>>

Reduced(o, n) == o.reduce => Abs(n) <= Abs(account[o.leg]) /\ n * account[o.leg] <= 0

(* MaxPerp also bounds what the account may drift to.                      *)
OptionFill ==
  /\ \E o \in orders, n \in -MaxPerp*2..MaxPerp*2 :
       /\ Abs(n) <= Abs(o.size) /\ n * o.size >= 0 /\ Reduced(o, n)
       /\ Abs(account.perp + n) <= MaxPerp \/ o.leg # "perp" \/ o.reduce
       /\ n = 0 \/ n = o.size \/ (o.reduce /\ n = -account[o.leg])
       /\ orders' = orders \ {o}
       /\ account' = [account EXCEPT ![o.leg] = @ + n]
       /\ mishap' = (mishap \/ n # o.size)
  /\ UNCHANGED <<kind, sold, qty, perpPos, days, hedgeAge, checking, delta, rounds>>

Next == OptionBar \/ ChainFails \/ CheckOptions \/ OptionFill

Fairness == WF_ovars(OptionBar) /\ SF_ovars(CheckOptions) /\ WF_ovars(OptionFill)
-----------------------------------------------------------------------------
(* At rest, unless an order went wrong, the account holds the straddle and *)
(* the hedge that are believed, and nothing when nothing is.               *)
StraddleMatches ==
  (orders = {} /\ ~mishap) =>
    account = [l \in Legs |-> IF l = "perp" THEN perpPos ELSE -qty]

(* A straddle near its expiry is bought back in the end, and its hedge is  *)
(* closed: the account is empty unless an order went wrong.                *)
StraddleEnds ==
  (sold /\ days <= CloseDays)
    ~> (~sold /\ (mishap \/ \A l \in Legs : account[l] = 0))

(* "adjust perp_pos so that the portfolio delta is about zero": after a    *)
(* hedge the position is neutral.                                          *)
HedgeNeutral ==
  [][sold' /\ perpPos' # perpPos => -qty' * delta' + perpPos' = 0]_ovars
=============================================================================
