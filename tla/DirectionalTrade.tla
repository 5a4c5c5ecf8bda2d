-------------------------- MODULE DirectionalTrade --------------------------
(***************************************************************************)
(* One directional position on one instrument, as each of the five         *)
(* single-leg strategies keeps it: liq_reversal ("liq"), ob_imbalance      *)
(* ("ob"), range_breakout ("range"), funding_skew_momentum ("skew") and a  *)
(* leg of ml_fusion ("ml").  All of them write their position when the     *)
(* order is SUBMITTED, never on a fill, clear it when the closing order is *)
(* submitted, and learn of a refusal through on_order_rejected only.       *)
(*                                                                         *)
(* Sizes are counted in units of which Lot make one lot.  Time is counted  *)
(* in bars.  Prices are left out: whether a bar hits the stop or the       *)
(* target, and what a signal says, are inputs.  The order's way to the     *)
(* venue is the one of OrderLifecycle seen from the strategy.              *)
(***************************************************************************)
EXTENDS Integers

CONSTANTS Lot,          \* units in one lot
          MaxRaw,       \* largest size the sizing formula asks for, in units
          MaxEntries,   \* bound: entries in a behaviour
          Cool,         \* bars between triggers (liq), after an exit (ob),
                        \* between funding checks (skew)
          Hold          \* bars a position is held at most (ob, skew, ml)

ASSUME SizesAreLots == Lot \in Nat \ {0} /\ MaxRaw \in Nat /\ MaxRaw >= Lot
ASSUME DelaysArePositive == Cool \in Nat \ {0} /\ Hold \in Nat \ {0}
ASSUME EntriesAreCounted == MaxEntries \in Nat

VARIABLES
  kind,       \* which strategy; fixed in Init
  isolated,   \* enable_isolated_margin; fixed in Init
  active,     \* _active_direction: 0 flat, 1 long, -1 short
  contracts,  \* _position_contracts
  age,        \* bars since _entry_ts_ms
  since,      \* bars since the last trigger, exit, check or prediction
  exitSign,   \* ob: _last_exit_imb_sign, 0 before the first exit
  flipped,    \* ob: _imb_sign_flipped_since_exit
  task,       \* the coroutine of skew and ml: "idle", "fetch" or "lever"
  wanted,     \* the direction that coroutine will enter
  feed,       \* the background channel task of liq and ob is alive
  gen,        \* entries submitted so far: the name of the latest one
  orders,     \* orders on their way to the venue
  rejects,    \* OrderRejected events not yet delivered
  venue,      \* signed position per margin mode
  mishap,     \* history: something the strategy cannot see went wrong
  lastDir,    \* history: direction of the latest entry, 0 once a rejection
              \* has cleared it
  seenOpp     \* history: a book of the other sign was read since that entry

position == <<active, contracts, age, gen, lastDir>>
schedule == <<since, exitSign, flipped>>
tasks    == <<task, wanted, feed>>
outside  == <<rejects, venue, mishap>>
vars == <<kind, isolated, position, schedule, tasks, orders, outside, seenOpp>>

Kinds == {"liq", "ob", "range", "skew", "ml"}
Dirs  == {1, -1}
Modes == {"cross", "isolated"}

Least(a, b) == IF a < b THEN a ELSE b
Upto(n, bound) == Least(n + 1, bound)

\* Types; every order is of whole lots in a margin mode that exists.
TypeOK ==
  /\ kind \in Kinds /\ isolated \in BOOLEAN
  /\ active \in {0} \cup Dirs /\ contracts \in 0..MaxRaw
  /\ age \in 0..Hold /\ since \in 0..(Cool + Hold)
  /\ exitSign \in {0} \cup Dirs /\ flipped \in BOOLEAN
  /\ task \in {"idle", "fetch", "lever"} /\ wanted \in {0} \cup Dirs
  /\ feed \in BOOLEAN /\ gen \in 0..MaxEntries
  /\ \A o \in orders \cup rejects :
       /\ o.role \in {"entry", "exit"} /\ o.dir \in Dirs
       /\ o.qty \in Lot..MaxRaw /\ o.qty % Lot = 0 /\ o.mode \in Modes /\ o.gen \in 1..MaxEntries
  /\ \A m \in Modes : venue[m] \in Int
  /\ mishap \in BOOLEAN /\ lastDir \in {0} \cup Dirs /\ seenOpp \in BOOLEAN

-----------------------------------------------------------------------------
(* Construction of each strategy.                                          *)

Flat == /\ active = 0 /\ contracts = 0 /\ age = 0 /\ gen = 0 /\ lastDir = 0
        /\ exitSign = 0 /\ flipped = FALSE /\ task = "idle" /\ wanted = 0
        /\ feed = TRUE /\ orders = {} /\ rejects = {}
        /\ venue = [m \in Modes |-> 0] /\ mishap = FALSE /\ seenOpp = FALSE

LiqInit   == kind = "liq"   /\ isolated = FALSE /\ since = Cool
ObInit    == kind = "ob"    /\ isolated = FALSE /\ since = Cool
RangeInit == kind = "range" /\ isolated = FALSE /\ since = Cool
SkewInit  == kind = "skew"  /\ isolated \in BOOLEAN /\ since = Cool
MlInit    == kind = "ml"    /\ isolated \in BOOLEAN /\ since = Hold

Init == Flat /\ (LiqInit \/ ObInit \/ RangeInit \/ SkewInit \/ MlInit)

-----------------------------------------------------------------------------
(* Orders.                                                                 *)

(* The quantity an instrument accepts: rounded down to the lot, nothing    *)
(* when that leaves nothing.                                               *)
SafeMakeQty(size) == size - (size % Lot)

\* Mutant: the order carries the size before the risk manager shrank it.
OpenUnscaled(d, mode, age0) ==
  /\ gen < MaxEntries
  /\ \E raw \in {n \in Lot..MaxRaw : n % Lot = 0} : \E adjusted \in 0..raw :
       /\ SafeMakeQty(adjusted) > 0
       /\ orders' = orders \cup {[role |-> "entry", dir |-> d, qty |-> raw,
                                 mode |-> mode, gen |-> gen + 1]}
       /\ contracts' = adjusted
  /\ active' = d /\ age' = age0 /\ gen' = gen + 1 /\ lastDir' = d

(* An entry: position_contracts gives a whole number of lots, the risk     *)
(* manager may shrink it to any size, the order carries the quantity the   *)
(* instrument accepts and the state keeps the size before rounding.        *)
Open(d, mode, age0) ==
  /\ gen < MaxEntries
  /\ \E raw \in {n \in Lot..MaxRaw : n % Lot = 0} : \E adjusted \in 0..raw :
       /\ SafeMakeQty(adjusted) > 0
       /\ orders' = orders \cup
            {[role |-> "entry", dir |-> d, qty |-> SafeMakeQty(adjusted),
              mode |-> mode, gen |-> gen + 1]}
       /\ contracts' = adjusted
  /\ active' = d /\ age' = age0 /\ gen' = gen + 1
  /\ lastDir' = d

(* No size, a refusal by the risk manager or less than a lot: no order.    *)
NoOpen == UNCHANGED <<position, orders>>

(* A close: reduce-only, in cross mode because no tag is attached, for the *)
(* rounded size; skipped, with the position kept, when that is nothing.    *)
Close ==
  IF SafeMakeQty(contracts) = 0
  THEN /\ age' = Upto(age, Hold)
       /\ UNCHANGED <<active, contracts, gen, lastDir, orders>>
  ELSE /\ orders' = orders \cup
            {[role |-> "exit", dir |-> -active, qty |-> SafeMakeQty(contracts),
              mode |-> "cross", gen |-> gen]}
       /\ active' = 0 /\ contracts' = 0 /\ age' = 0
       /\ UNCHANGED <<gen, lastDir>>

KeepHolding == /\ age' = Upto(age, Hold)
               /\ UNCHANGED <<active, contracts, gen, lastDir, orders>>

-----------------------------------------------------------------------------
(* liq_reversal.                                                           *)

LiqEnter(d) == Open(d, "cross", 0) \/ NoOpen

LiqExit == Close

(* The cooldown starts at a trigger, also when the entry came to nothing.  *)
LiqMaybeTrigger(now) ==
  IF active # 0 \/ now < Cool
  THEN NoOpen /\ since' = now
  ELSE \/ NoOpen /\ since' = now
       \/ \E d \in Dirs : LiqEnter(d) /\ since' = 0

LiqCheckExit == LiqExit \/ KeepHolding

LiqBar ==
  /\ kind = "liq"
  /\ IF active # 0
     THEN LiqCheckExit /\ since' = Upto(since, Cool)
     ELSE LiqMaybeTrigger(Upto(since, Cool))
  /\ UNCHANGED <<kind, isolated, exitSign, flipped, tasks, outside, seenOpp>>

LiqEvent ==
  /\ kind = "liq" /\ feed
  /\ \E now \in {since, Upto(since, Cool)} : LiqMaybeTrigger(now)
  /\ UNCHANGED <<kind, isolated, exitSign, flipped, tasks, outside, seenOpp>>

-----------------------------------------------------------------------------
(* ob_imbalance.                                                           *)

ObEnter(d) == Open(d, "cross", 0) \/ NoOpen

\* Mutant: the sign kept for the gate is the one of the closing order.
ObExitOrderSign ==
  /\ Close
  /\ since' = 0 /\ exitSign' = -active /\ flipped' = FALSE

(* The exit arms the re-entry gate: cooldown, sign of the position, and no *)
(* reversal seen yet.                                                      *)
ObExit ==
  /\ Close
  /\ IF active' = 0
     THEN since' = 0 /\ exitSign' = active /\ flipped' = FALSE
     ELSE since' = Upto(since, Cool) /\ UNCHANGED <<exitSign, flipped>>

ObCheckExit ==
  \/ ObExit
  \/ /\ Upto(age, Hold) < Hold
     /\ KeepHolding /\ since' = Upto(since, Cool)
     /\ UNCHANGED <<exitSign, flipped>>

ObBar ==
  /\ kind = "ob"
  /\ IF active # 0
     THEN ObCheckExit
     ELSE NoOpen /\ since' = Upto(since, Cool) /\ UNCHANGED <<exitSign, flipped>>
  /\ UNCHANGED <<kind, isolated, tasks, outside, seenOpp>>

(* One aggregated book whose average imbalance has the given sign.         *)
ObAggregate(sign, now) ==
  /\ since' = now /\ UNCHANGED exitSign
  /\ IF active # 0 \/ (exitSign # 0 /\ now < Cool)
     THEN NoOpen /\ UNCHANGED flipped
     ELSE /\ flipped' = (flipped \/ (exitSign # 0 /\ sign = -exitSign))
          /\ IF (exitSign # 0 /\ ~flipped') \/ sign = 0
             THEN NoOpen
             ELSE NoOpen \/ ObEnter(sign)

ObBook ==
  /\ kind = "ob" /\ feed
  /\ \E sign \in {0} \cup Dirs, now \in {since, Upto(since, Cool)} :
       /\ ObAggregate(sign, now)
       /\ seenOpp' = IF gen' # gen THEN FALSE
                     ELSE seenOpp \/ (sign # 0 /\ sign = -lastDir)
  /\ UNCHANGED <<kind, isolated, tasks, outside>>

(* The channel task logs an exception and ends; nothing starts it again.   *)
LiqLoopCrash == kind = "liq" /\ feed /\ feed' = FALSE
ObLoopCrash  == kind = "ob"  /\ feed /\ feed' = FALSE

FeedCrash ==
  /\ LiqLoopCrash \/ ObLoopCrash
  /\ UNCHANGED <<kind, isolated, position, schedule, task, wanted, orders,
                 outside, seenOpp>>

-----------------------------------------------------------------------------
(* range_breakout.                                                         *)

RangeEnter(d) == Open(d, "cross", 0) \/ NoOpen

RangeExit == Close

RangeCheckExit == RangeExit \/ KeepHolding

RangeBar ==
  /\ kind = "range"
  /\ IF active # 0 THEN RangeCheckExit
                   ELSE NoOpen \/ \E d \in Dirs : RangeEnter(d)
  /\ UNCHANGED <<kind, isolated, schedule, tasks, outside, seenOpp>>

-----------------------------------------------------------------------------
(* funding_skew_momentum.  A check is a coroutine: it waits for the        *)
(* funding rate and, with margin isolation on, for set-leverage.  It ends  *)
(* well within check_interval_sec, so two checks do not overlap.           *)

SkewExit == Close

SkewCheckExit == SkewExit \/ (Upto(age, Hold) < Hold /\ KeepHolding)

SkewBar ==
  /\ kind = "skew"
  /\ IF active # 0
     THEN SkewCheckExit /\ since' = Upto(since, Cool) /\ UNCHANGED task
     ELSE /\ NoOpen
          /\ IF Upto(since, Cool) < Cool \/ task # "idle"
             THEN since' = Upto(since, Cool) /\ UNCHANGED task
             ELSE since' = 0 /\ task' = "fetch"
  /\ UNCHANGED <<kind, isolated, exitSign, flipped, wanted, feed, outside, seenOpp>>

SkewCheckFunding ==
  /\ kind = "skew" /\ task = "fetch"
  /\ \/ task' = "idle" /\ UNCHANGED wanted
     \/ /\ active = 0
        /\ task' = "lever" /\ wanted' \in Dirs
  /\ UNCHANGED <<kind, isolated, position, schedule, feed, orders, outside, seenOpp>>

(* The rest of _enter once submit_isolated_order has answered.             *)
SkewEnter ==
  /\ kind = "skew" /\ task = "lever"
  /\ Open(wanted, IF isolated THEN "isolated" ELSE "cross", 0) \/ NoOpen
  /\ task' = "idle" /\ wanted' = 0
  /\ UNCHANGED <<kind, isolated, schedule, feed, outside, seenOpp>>

-----------------------------------------------------------------------------
(* ml_fusion, one leg.  Every bar first closes a leg held to the horizon,  *)
(* then starts a prediction when the horizon has passed since the last.    *)

MlCloseLeg == Close

MlBar ==
  /\ kind = "ml"
  /\ IF active # 0 /\ Upto(age, Hold) >= Hold THEN MlCloseLeg
     ELSE IF active # 0 THEN KeepHolding
     ELSE NoOpen
  /\ IF Upto(since, Hold) >= Hold /\ task = "idle"
     THEN since' = 0 /\ task' = "fetch"
     ELSE since' = Upto(since, Hold) /\ UNCHANGED task
  /\ UNCHANGED <<kind, isolated, exitSign, flipped, wanted, feed, outside, seenOpp>>

(* Ranking puts the instrument in no side or in one; a leg of another      *)
(* direction is closed, a missing one will be opened.                      *)
MlPredict ==
  /\ kind = "ml" /\ task = "fetch"
  /\ \E target \in {0} \cup Dirs :
       /\ IF active # 0 /\ target # active THEN MlCloseLeg ELSE NoOpen
       /\ IF target # 0 /\ active' = 0
          THEN task' = "lever" /\ wanted' = target
          ELSE task' = "idle" /\ wanted' = 0
  /\ UNCHANGED <<kind, isolated, schedule, feed, outside, seenOpp>>

(* The leg is dated by the bar that started the prediction.                *)
MlOpenLeg ==
  /\ kind = "ml" /\ task = "lever"
  /\ Open(wanted, IF isolated THEN "isolated" ELSE "cross", since) \/ NoOpen
  /\ task' = "idle" /\ wanted' = 0
  /\ UNCHANGED <<kind, isolated, schedule, feed, outside, seenOpp>>

-----------------------------------------------------------------------------
(* The venue and the events the strategy receives.                         *)

Reducible(o) == LET held == -o.dir * venue[o.mode]
                IN  IF held < 0 THEN 0 ELSE Least(o.qty, held)

Overtaken(o) == \E e \in orders : e.role = "entry" /\ e.gen = o.gen

(* A close that leaves something of its position behind.                   *)
ShortClose(o, filled) ==
  o.role = "exit" /\ (filled < Reducible(o) \/ Overtaken(o) \/ venue["isolated"] # 0)

(* Immediate-or-cancel: filled in part or in full, the rest cancelled      *)
(* without a word; a reduce-only order takes at most the position.         *)
Execute(o, filled) ==
  /\ filled \in 0..(IF o.role = "exit" THEN Reducible(o) ELSE o.qty)
  /\ filled % Lot = 0
  /\ orders' = orders \ {o}
  /\ venue' = [venue EXCEPT ![o.mode] = @ + o.dir * filled]

Fill(o) ==
  \E filled \in 0..o.qty :
    /\ Execute(o, filled)
    /\ mishap' = (mishap \/ ShortClose(o, filled))
    /\ UNCHANGED rejects

(* Refused by the venue, or given up by the transport.                     *)
Refuse(o) ==
  /\ Execute(o, 0)
  /\ mishap' = (mishap \/ ShortClose(o, 0))
  /\ rejects' = rejects \cup {o}

(* The answer is lost: the order is reported as rejected and has executed. *)
ExecutedButRejected(o) ==
  \E filled \in Lot..o.qty :
    /\ Execute(o, filled)
    /\ mishap' = (mishap \/ o.role = "entry" \/ ShortClose(o, filled))
    /\ rejects' = rejects \cup {o}

VenueStep ==
  /\ \E o \in orders : Fill(o) \/ Refuse(o) \/ ExecutedButRejected(o)
  /\ UNCHANGED <<kind, isolated, position, schedule, tasks, seenOpp>>

(* on_order_rejected clears whatever position there is, whichever order    *)
(* was refused; ml_fusion has no such handler.                             *)
ClearOnReject(o) ==
  IF active = 0
  THEN UNCHANGED <<active, contracts, age, lastDir, mishap>>
  ELSE /\ active' = 0 /\ contracts' = 0 /\ age' = 0 /\ lastDir' = 0
       /\ mishap' = (mishap \/ o.role = "exit" \/ o.gen # gen)

LiqRejected(o)   == kind = "liq"   /\ ClearOnReject(o)
ObRejected(o)    == kind = "ob"    /\ ClearOnReject(o)
RangeRejected(o) == kind = "range" /\ ClearOnReject(o)
SkewRejected(o)  == kind = "skew"  /\ ClearOnReject(o)
MlRejected(o)    == kind = "ml"    /\ UNCHANGED <<active, contracts, age, lastDir, mishap>>

OrderRejected ==
  /\ \E o \in rejects :
       /\ rejects' = rejects \ {o}
       /\ \/ LiqRejected(o)  \/ ObRejected(o) \/ RangeRejected(o)
          \/ SkewRejected(o) \/ MlRejected(o)
  /\ UNCHANGED <<kind, isolated, gen, schedule, tasks, orders, venue, seenOpp>>

Bar == LiqBar \/ ObBar \/ RangeBar \/ SkewBar \/ MlBar

Next == \/ Bar \/ LiqEvent \/ ObBook \/ FeedCrash
        \/ SkewCheckFunding \/ SkewEnter \/ MlPredict \/ MlOpenLeg
        \/ VenueStep \/ OrderRejected

(* Bars keep coming.                                                       *)
Fairness == WF_vars(Bar)

Spec == Init /\ [][Next]_vars /\ Fairness

-----------------------------------------------------------------------------
(* A strategy that is flat with nothing on its way holds nothing at the    *)
(* venue, unless one of five things it cannot see has happened: a close    *)
(* refused or filled short, a close that overtook its entry, a close sent  *)
(* in cross mode for an isolated position, an executed entry reported as   *)
(* rejected, or a late rejection that cleared another order's position.    *)
FlatMeansFlat ==
  (active = 0 /\ orders = {} /\ ~mishap) => \A m \in Modes : venue[m] = 0

(* While a position is tracked the venue never holds more of its direction *)
(* than the strategy will close, under the same reservations.              *)
NoMoreThanTracked ==
  (active # 0 /\ orders = {} /\ ~mishap) =>
    active * (venue["cross"] + venue["isolated"]) <= SafeMakeQty(contracts)

(* A prediction of ml_fusion always starts flat: legs are closed by the    *)
(* horizon on the bar that starts it and none is carried over.             *)
PredictionStartsFlat == (kind = "ml" /\ task = "fetch") => active = 0

(* The single-leg strategies write their position at submission: at rest,  *)
(* unless one of the named mishaps happened, flat is flat at OKX, nothing  *)
(* beyond the tracked size is held, and ml_fusion predicts from flat.      *)
BookMatchesVenue == FlatMeansFlat /\ NoMoreThanTracked /\ PredictionStartsFlat

(* ob_imbalance never enters a direction twice in a row without having     *)
(* read a book of the opposite sign in between, unless the first position  *)
(* was cleared by a rejection.                                             *)
NoSameSideChurn ==
  [][kind = "ob" /\ gen' # gen /\ lastDir' = lastDir => seenOpp]_vars

(* A position with a time limit ends, whatever the bars and the venue do.  *)
HoldEnds == (kind \in {"ob", "skew", "ml"} /\ active # 0) ~> (active = 0)
=============================================================================
