------------------------------ MODULE StatArbPairs ------------------------------
(***************************************************************************)
(* StatArbStrategy (strategies/stat_arb_pairs.py) live: every bar of a     *)
(* leg spawns a detached coroutine that enters or exits the pair, and the  *)
(* coroutines await the posMode and set-leverage lookups of the shared     *)
(* IsolatedMarginService (risk/isolated_margin_service.py) on their way to *)
(* submit_order (strategies/_okx_base.py).  Orders are filled or rejected  *)
(* later.  The data client hands on every push of the candle that is       *)
(* forming (adapter/data.py), so bars come at any time and any number of   *)
(* coroutines is under way together.                                       *)
(*                                                                         *)
(* asyncio runs one coroutine at a time: `loop` holds it until it awaits   *)
(* an answer from OKX; an await that is served from a cache does not       *)
(* suspend.  A market order is settled within cooldown_sec_after_exit.     *)
(* A pair is one unit of each leg; z is twice the z-score.                 *)
(***************************************************************************)
EXTENDS Integers, FiniteSets

CONSTANTS
  Tasks,      \* the coroutines that may be under way together
  Isolated,   \* enable_isolated_margin
  PosMode,    \* posMode of the OKX account
  Zs,         \* doubled z-scores a bar may show
  ZEntry, ZExit, ZStop,  \* spread_z_entry / exit / stop, doubled
  Faults,     \* REST lookups may fail
  Rejections, \* OKX may reject an order
  Sharing,    \* other strategies set other leverages on the same legs
  MaxHeld     \* bound: no new entry once a leg holds this much

Nobody == "nobody"

ASSUME ConstantsAssumption ==
  /\ IsFiniteSet(Tasks) /\ Nobody \notin Tasks
  /\ Isolated \in BOOLEAN
  /\ PosMode \in {"net_mode", "long_short_mode"}
  /\ Zs \subseteq Int
  /\ ZEntry \in Int /\ ZExit \in Int /\ ZStop \in Int
  /\ Faults \in BOOLEAN
  /\ Rejections \in BOOLEAN
  /\ Sharing \in BOOLEAN
  /\ MaxHeld \in Nat

Legs == {"left", "right"}
Directions == {"long_spread", "short_spread"}

VARIABLES
  cooling,   \* _last_exit_ts_ms is less than cooldown_sec_after_exit ago
  before,    \* the orders that were in flight when the last exit ended, and are
  position,  \* _position
  loop,      \* the coroutine that runs
  task,      \* where each coroutine is
  posMode,   \* _pos_mode of the service
  levers,    \* _lever_cache: the keys that hold isolated_lever
  orders,    \* submitted orders that are not settled
  held,      \* long and short position per leg at OKX
  rejected,  \* OKX rejected an order it could have filled, then or later
  shared,    \* another strategy changed a leverage
  exitFailed,\* a set-leverage lookup failed on the way out of a pair
  crossed,   \* an exit was under way together with an entry
  flapped    \* overlapping posMode lookups were answered differently

serviceVars == <<posMode, levers>>
clock       == <<cooling, before>>
vars == <<cooling, before, position, loop, task, posMode, levers, orders, held,
          rejected, shared, exitFailed, crossed, flapped>>

Modes == {"unknown", "net_mode", "long_short_mode"}

\* Coroutine states: the lookups are the states named after a leg.
Lookups == {"ensureLeft", "ensureRight", "enterLeft", "enterRight",
            "exitLeft", "exitRight"}
Pcs == {"idle", "signal", "broken", "mode"} \union Lookups

LegOf(pc) == IF pc \in {"ensureLeft", "enterLeft", "exitLeft"} THEN "left" ELSE "right"
IsExit(pc) == pc \in {"exitLeft", "exitRight"}
IsEntry(pc) == pc \in {"mode", "ensureLeft", "ensureRight", "enterLeft", "enterRight"}

Opposite(side) == IF side = "buy" THEN "sell" ELSE "buy"

\* long_spread buys left and sells right.
EntrySide(dir, leg) ==
  IF (dir = "long_spread") = (leg = "left") THEN "buy" ELSE "sell"

\* The side of the order a lookup is for.
SideOf(pc, dir) ==
  LET side == EntrySide(dir, LegOf(pc))
  IN  IF IsExit(pc) THEN Opposite(side) ELSE side

\* The posSide of the lookup: derived from the order's side, whether the order
\* opens or closes.
PosSide(mode, side) ==
  IF mode # "long_short_mode" THEN "net"
  ELSE IF side = "buy" THEN "long" ELSE "short"

Key(k) == <<LegOf(k.pc), PosSide(k.mode, SideOf(k.pc, k.dir))>>
Keys == Legs \X {"net", "long", "short"}

\* Both legs are checked under the posMode _enter_pair was told; every order
\* asks for it again.
AsksMode(k) == IF k.pc \in {"ensureLeft", "ensureRight"} THEN k
               ELSE [k EXCEPT !.mode = posMode]

Order(pc, dir, t) == [leg |-> LegOf(pc), side |-> SideOf(pc, dir),
                      reduce |-> IsExit(pc), by |-> t]

\* `old` is history: the coroutine was on its way in when an exit ended.
Idle == [pc |-> "idle", dir |-> "long_spread", ok |-> TRUE, mode |-> "unknown",
         old |-> FALSE]

Init ==
  /\ cooling = FALSE
  /\ before = {}
  /\ position = "none"
  /\ loop = Nobody
  /\ task = [t \in Tasks |-> Idle]
  /\ posMode = "unknown"
  /\ levers = {}
  /\ orders = {}
  /\ held = [l \in Legs |-> [long |-> 0, short |-> 0]]
  /\ rejected = FALSE
  /\ shared = FALSE
  /\ exitFailed = FALSE
  /\ crossed = FALSE
  /\ flapped = FALSE

-----------------------------------------------------------------------------
(* Bars and time *)

Quiet == loop = Nobody /\ orders = {} /\ \A t \in Tasks : task[t].pc = "idle"

\* cooldown_sec_after_exit have passed on the wall clock.
CooldownEnds ==
  /\ cooling
  /\ loop = Nobody
  /\ before = {}
  /\ cooling' = FALSE
  /\ UNCHANGED <<before, position, loop, task, serviceVars, orders, held,
                 rejected, shared, exitFailed, crossed, flapped>>

\* on_bar: the pair is cointegrated or not; a coroutine is spawned, whatever
\* else is under way.  (Not cointegrated and nothing open: nothing happens.)
OnBar(t) ==
  /\ loop = Nobody
  /\ task[t] = Idle
  /\ \A o \in orders : o.by # t
  /\ \E pc \in {"signal"} \union (IF position # "none" THEN {"broken"} ELSE {}) :
       task' = [task EXCEPT ![t] = [Idle EXCEPT !.pc = pc]]
  /\ UNCHANGED <<clock, position, loop, serviceVars, orders, held, rejected,
                 shared, exitFailed, crossed, flapped>>

-----------------------------------------------------------------------------
(* _evaluate_signal, and the first lines of _enter_pair and _exit_pair *)

WantsExit(z) ==
  \/ position = "long_spread" /\ (z >= -ZExit \/ z <= -ZStop)
  \/ position = "short_spread" /\ (z <= ZExit \/ z >= ZStop)

\* Mutant: the gate forgets the exit.
NoCooldown == TRUE

CooldownOver == ~cooling

\* Mutant: a signal may enter on top of an open pair.
EntersAgain(z) == z >= ZEntry \/ z <= -ZEntry

WantsEntry(z) == position = "none" /\ (z >= ZEntry \/ z <= -ZEntry)

Goto(t, pc, dir) ==
  /\ task' = [task EXCEPT ![t] = [@ EXCEPT !.pc = pc, !.dir = dir]]
  /\ loop' = t

Done(t) ==
  /\ task' = [task EXCEPT ![t] = Idle]
  /\ loop' = Nobody

\* A coroutine of the pair, or an order in flight, goes in, or out.
EntryUnderWay ==
  (\E o \in orders : ~o.reduce) \/ \E u \in Tasks : IsEntry(task[u].pc)
ExitUnderWay ==
  (\E o \in orders : o.reduce) \/ \E u \in Tasks : IsExit(task[u].pc)

StartExit(t) ==
  /\ Goto(t, "exitLeft", position)
  /\ crossed' = (crossed \/ EntryUnderWay)

\* The risk pipeline approved the entry.
StartEntry(t, z) ==
  /\ \A l \in Legs : held[l].long + held[l].short < MaxHeld
  /\ Goto(t, IF Isolated THEN "mode" ELSE "enterLeft",
          IF z >= ZEntry THEN "short_spread" ELSE "long_spread")
  /\ crossed' = (crossed \/ ExitUnderWay)

Evaluate(t) ==
  /\ task[t].pc = "signal"
  /\ loop = Nobody
  /\ \E z \in Zs :
       \/ WantsExit(z) /\ StartExit(t)
       \/ WantsEntry(z) /\ CooldownOver /\ StartEntry(t, z)
       \/ ~WantsExit(z) /\ Done(t) /\ UNCHANGED crossed
            \* no signal, cooldown, or risk REJECT
  /\ UNCHANGED <<clock, position, serviceVars, orders, held, rejected, shared,
                 exitFailed, flapped>>

\* Mutant: the exit trusts what on_bar saw of the position.
ExitUnchecked(t) ==
  /\ task[t].pc = "broken"
  /\ loop = Nobody
  /\ StartExit(t)
  /\ UNCHANGED <<clock, position, serviceVars, orders, held, rejected, shared,
                 exitFailed, flapped>>

\* _exit_pair(reason="COINT_BROKEN") looks at the position again.
ExitBroken(t) ==
  /\ task[t].pc = "broken"
  /\ loop = Nobody
  /\ IF position = "none" THEN Done(t) /\ UNCHANGED crossed ELSE StartExit(t)
  /\ UNCHANGED <<clock, position, serviceVars, orders, held, rejected, shared,
                 exitFailed, flapped>>

-----------------------------------------------------------------------------
(* The lookups and what follows them *)

\* submit_isolated_order and ensure_leverage return without awaiting OKX.
Hit(t) == ~Isolated \/ Key(AsksMode(task[t])) \in levers

\* Mutant: a failed pre-validation does not abort the entry.
KeepGoing(t, ok) ==
  task' = [task EXCEPT ![t] = [@ EXCEPT !.pc = "enterLeft", !.ok = TRUE]]

\* Phase 2: both legs were looked up, and either failure aborts the pair.
AfterEnsure(t, ok) ==
  task' = [task EXCEPT ![t] =
             IF @.ok /\ ok THEN [@ EXCEPT !.pc = "enterLeft"] ELSE Idle]

\* The lookup at the coroutine's pc has returned: what the coroutine does up
\* to the next lookup.
Proceed(t, ok) ==
  LET pc == task[t].pc
      dir == task[t].dir
  IN
  /\ orders' = IF ok /\ pc \notin {"ensureLeft", "ensureRight"}
               THEN orders \union {Order(pc, dir, t)} ELSE orders
  /\ exitFailed' = (exitFailed \/ (IsExit(pc) /\ ~ok))
  /\ \/ /\ pc \in {"ensureLeft", "enterLeft", "exitLeft"}
        /\ task' = [task EXCEPT ![t] =
             [@ EXCEPT !.ok = ok,
                       !.pc = CASE pc = "ensureLeft" -> "ensureRight"
                                [] pc = "enterLeft"  -> "enterRight"
                                [] pc = "exitLeft"   -> "exitRight"]]
        /\ loop' = t
        /\ UNCHANGED <<position, clock>>
     \/ /\ pc = "ensureRight"
        /\ AfterEnsure(t, ok)
        /\ loop' = IF task'[t].pc = "idle" THEN Nobody ELSE t
        /\ UNCHANGED <<position, clock>>
     \/ /\ pc = "enterRight"
        /\ position' = IF task[t].ok /\ ok THEN dir ELSE position
        /\ Done(t)
        /\ UNCHANGED clock
     \/ /\ pc = "exitRight"
        /\ position' = "none"
        /\ cooling' = TRUE
        /\ before' = orders'
        /\ loop' = Nobody
        /\ task' = [u \in Tasks |->
              IF u = t THEN Idle
              ELSE IF IsEntry(task[u].pc) THEN [task[u] EXCEPT !.old = TRUE]
              ELSE task[u]]

\* The running coroutine looks up a leverage: from the cache it goes on at
\* once, else it awaits set-leverage.
Lookup(t) ==
  /\ loop = t
  /\ task[t].pc \in Lookups
  /\ IF Hit(t)
     THEN Proceed(t, TRUE)
     ELSE /\ loop' = Nobody
          /\ task' = [task EXCEPT ![t] = AsksMode(@)]
          /\ UNCHANGED <<position, clock, orders, exitFailed>>
  /\ UNCHANGED <<serviceVars, held, rejected, shared, crossed, flapped>>

\* set-leverage is answered: a success is cached, a failure skips the leg.
\* OKX refuses a posSide that does not fit the posMode of the account.
SetLeverageReturns(t) ==
  /\ loop = Nobody
  /\ task[t].pc \in Lookups
  /\ \E ok \in BOOLEAN :
       /\ ok => task[t].mode = PosMode
       /\ ~ok => Faults \/ task[t].mode # PosMode
       /\ Proceed(t, ok)
       /\ levers' = IF ok THEN levers \union {Key(task[t])} ELSE levers
  /\ UNCHANGED <<posMode, held, rejected, shared, crossed, flapped>>

EnsureUnder(t, mode) ==
  /\ task' = [task EXCEPT ![t] = [@ EXCEPT !.pc = "ensureLeft", !.mode = mode]]
  /\ loop' = t

\* get_pos_mode: cached, or asked for.
LookupMode(t) ==
  /\ loop = t
  /\ task[t].pc = "mode"
  /\ IF posMode # "unknown"
     THEN EnsureUnder(t, posMode)
     ELSE loop' = Nobody /\ UNCHANGED task
  /\ UNCHANGED <<clock, position, serviceVars, orders, held, rejected, shared,
                 exitFailed, crossed, flapped>>

\* The answer, or net_mode for a failure, is kept for good, unless a lookup that
\* was under way at the same time overwrites it.
PosModeReturns(t) ==
  /\ loop = Nobody
  /\ task[t].pc = "mode"
  /\ posMode' \in {PosMode} \union (IF Faults THEN {"net_mode"} ELSE {})
  /\ EnsureUnder(t, posMode')
  /\ flapped' = (flapped \/ posMode \notin {"unknown", posMode'})
  /\ UNCHANGED <<clock, position, levers, orders, held, rejected, shared,
                 exitFailed, crossed>>

\* Another strategy of the process trades a leg at another leverage.
OtherStrategy ==
  /\ Sharing
  /\ loop = Nobody
  /\ \E k \in levers : levers' = levers \ {k}
  /\ shared' = TRUE
  /\ UNCHANGED <<clock, position, loop, task, posMode, orders, held, rejected,
                 exitFailed, crossed, flapped>>

-----------------------------------------------------------------------------
(* OKX and NT (external), and on_order_rejected *)

\* The position of a leg after an order on one side of it is filled.
Opened(p, side) ==
  CASE side = "buy"  /\ PosMode = "net_mode" /\ p.short > 0 -> [p EXCEPT !.short = @ - 1]
    [] side = "sell" /\ PosMode = "net_mode" /\ p.long > 0  -> [p EXCEPT !.long = @ - 1]
    [] side = "buy"  /\ ~(PosMode = "net_mode" /\ p.short > 0) -> [p EXCEPT !.long = @ + 1]
    [] side = "sell" /\ ~(PosMode = "net_mode" /\ p.long > 0)  -> [p EXCEPT !.short = @ + 1]

Closed(p, side) ==
  IF side = "buy" THEN [p EXCEPT !.short = @ - 1] ELSE [p EXCEPT !.long = @ - 1]

Closable(o) ==
  IF o.side = "buy" THEN held[o.leg].short > 0 ELSE held[o.leg].long > 0

Fill(o) ==
  /\ loop = Nobody
  /\ o.reduce => Closable(o)
  /\ orders' = orders \ {o}
  /\ held' = [held EXCEPT ![o.leg] =
                IF o.reduce THEN Closed(@, o.side) ELSE Opened(@, o.side)]
  /\ before' = before \ {o}
  /\ UNCHANGED <<cooling, position, loop, task, serviceVars, rejected, shared,
                 exitFailed, crossed, flapped>>

\* on_order_rejected clears the position, whichever order it was.
OnOrderRejected(o) ==
  /\ orders' = orders \ {o}
  /\ position' = "none"
  /\ before' = before \ {o}
  /\ UNCHANGED <<cooling, loop, task, serviceVars, held, shared, exitFailed,
                 crossed, flapped>>

\* There is nothing to reduce: another exit was first, or this one overtook the
\* entry it closes.
RejectReduce(o) ==
  /\ loop = Nobody
  /\ o.reduce /\ ~Closable(o)
  /\ OnOrderRejected(o)
  /\ rejected' = (rejected \/ \E e \in orders : e.leg = o.leg /\ ~e.reduce)

Reject(o) ==
  /\ Rejections
  /\ loop = Nobody
  /\ o.reduce => Closable(o)
  /\ OnOrderRejected(o)
  /\ rejected' = TRUE

-----------------------------------------------------------------------------
Next ==
  \/ CooldownEnds
  \/ \E t \in Tasks :
       \/ OnBar(t)
       \/ Evaluate(t)
       \/ ExitBroken(t)
       \/ Lookup(t)
       \/ SetLeverageReturns(t)
       \/ LookupMode(t)
       \/ PosModeReturns(t)
  \/ OtherStrategy
  \/ \E o \in orders : Fill(o) \/ RejectReduce(o) \/ Reject(o)

Spec == Init /\ [][Next]_vars

-----------------------------------------------------------------------------
(* Properties *)

\* Type invariant.  Beyond the types: the coroutine that holds the loop is one
\* that was started, and no leg's position is negative.
TypeOK ==
  /\ cooling \in BOOLEAN
  /\ before \subseteq orders
  /\ position \in Directions \union {"none"}
  /\ loop \in Tasks \union {Nobody}
  /\ loop # Nobody => task[loop].pc \in Lookups \union {"mode"}
  /\ task \in [Tasks -> [pc : Pcs, dir : Directions, ok : BOOLEAN,
                        mode : Modes, old : BOOLEAN]]
  /\ posMode \in Modes
  /\ levers \subseteq Keys
  /\ orders \subseteq [leg : Legs, side : {"buy", "sell"}, reduce : BOOLEAN, by : Tasks]
  /\ held \in [Legs -> [long : Nat, short : Nat]]
  /\ rejected \in BOOLEAN /\ shared \in BOOLEAN /\ exitFailed \in BOOLEAN
  /\ crossed \in BOOLEAN /\ flapped \in BOOLEAN

Net(leg) == held[leg].long - held[leg].short

\* "abort the whole pair to avoid a directional residual": once everything is
\* settled the two legs offset each other, whatever set-leverage and posMode
\* answered on the way in, however many coroutines entered over each other or
\* closed the same pair at once, and however often the pair was entered and
\* left.  What may leave a residual is named: a rejected order, another
\* strategy's leverage on a leg between the check of both legs and their orders,
\* a failed set-leverage on the way out, an entry that overlaps an exit, and a
\* posMode that two overlapping lookups read differently.
PairStaysHedged ==
  Quiet /\ ~rejected /\ ~shared /\ ~exitFailed /\ ~crossed /\ ~flapped
    => Net("left") = -Net("right")

\* cooldown_sec_after_exit: after an exit an entry order leaves within the
\* cooldown only from a coroutine that had passed the gate before that exit
\* ended and awaited OKX across it; none does from a bar that came later.
NoEntryInCooldown ==
  [][ cooling => \A o \in orders' \ orders : o.reduce \/ task[o.by].old ]_vars

\* What the strategy believes is what the account holds: at rest _position
\* names the direction of the one pair held, and None means flat.
Exposure(dir, leg) ==
  IF dir = "none" THEN 0 ELSE IF EntrySide(dir, leg) = "buy" THEN 1 ELSE -1

PositionMatchesVenue ==
  Quiet /\ ~rejected => \A l \in Legs : Net(l) = Exposure(position, l)

\* The comment of _exit_pair: "closing one leg even if the other rejects only
\* shrinks the residual, never creates one".  Also when set-leverage fails on
\* the way out, a settled account is hedged.  The code does not keep this, nor
\* the next one; no run checks them, see the README under Observations.
ExitNeverCreatesResidual ==
  Quiet /\ ~rejected /\ ~shared => Net("left") = -Net("right")

\* stat_arb_pairs.py: "single-position cap: risk_pct per pair".  Entries start
\* only from _position None, so a leg never holds more than one pair's units.
OnePair == \A l \in Legs : held[l].long + held[l].short <= 1

=============================================================================
