----------------------------- MODULE CarryTrade -----------------------------
(***************************************************************************)
(* The two delta-neutral carries: funding_carry ("carry", spot against the *)
(* perpetual) and basis_arb ("basis", spot against a dated future).  A     *)
(* coroutine started from on_bar fetches the market, decides, and opens or *)
(* closes both legs.  With margin isolation on, the leverage of the        *)
(* derivative leg is ensured before either leg is sent, under the posMode  *)
(* the service answers then; the helper that sends the leg asks it again.  *)
(*                                                                         *)
(* One contract is worth one unit of spot; derivatives trade in lots of    *)
(* Lot units, spot in single units.                                        *)
(***************************************************************************)
EXTENDS Integers

CONSTANTS Lot, MaxRaw,     \* lot of the derivative, largest size
          Every,           \* bars between two checks
          EntryRate,       \* rate (APR or annualised basis) to enter at
          ExitRate,        \* rate to leave at
          MaxRate,
          MaxDays,         \* days to expiry at the start (basis)
          ForceDays,       \* force_close_days_before_expiry
          MaxRounds        \* bound: entries in a behaviour

VARIABLES
  kind,      \* which strategy; fixed in Init
  isolated,  \* margin isolation is on and the service is there; fixed in Init
  hedged,    \* the account is in long_short_mode; fixed in Init
  has,       \* _has_position
  spotQty, perpQty,   \* _spot_qty and _perp_contracts / _futures_contracts
  since,     \* bars since _last_check_ts_ns
  days,      \* days to expiry
  task,      \* the check: "idle", or what it awaits: the market ("fetch"), the
             \* posMode ("mode"), the leverage ensured before an entry ("lever"),
             \* the one the helper sets for the entry's derivative leg ("helper")
             \* or for the one of a close ("unwind")
  plan,      \* size of an entry that waits
  key,       \* key of the set-leverage call that is awaited, "net" at rest
  mode,      \* _pos_mode of the margin service, shared by all strategies
  asking,    \* coroutines of other strategies await the posMode
  cached,    \* keys whose leverage the margin service holds as set
  legs,      \* orders on their way
  spot, perp,         \* what the account holds
  rounds,    \* entries so far
  mishap,    \* history: a leg was refused, filled short or not sent at all
  replaced,  \* history: another lookup replaced the posMode under which the
             \* entry that waits had its leverage ensured
  oneLegged  \* history: an entry whose posMode was not replaced sent its spot
             \* leg without the other

cvars == <<kind, isolated, hedged, has, spotQty, perpQty, since, days, task,
           plan, key, mode, asking, cached, legs, spot, perp, rounds, mishap,
           replaced, oneLegged>>
fixed == <<kind, isolated, hedged>>
book == <<has, spotQty, perpQty>>
posMode == <<mode, asking>>
held == <<spot, perp>>

Modes == {"unknown", "net_mode", "long_short_mode"}
Keys == {"net", "long", "short"}
Tasks == {"idle", "fetch", "mode", "lever", "helper", "unwind"}

Floor(n) == n - (n % Lot)

\* Sizes stay in their bounds, and a strategy that believes it has a
\* position knows a size of a lot or more for both legs.
CarryTypeOK ==
  /\ kind \in {"carry", "basis"} /\ isolated \in BOOLEAN /\ hedged \in BOOLEAN
  /\ has \in BOOLEAN /\ spotQty \in 0..MaxRaw /\ perpQty \in 0..MaxRaw
  /\ (has <=> Floor(perpQty) > 0) /\ (has <=> spotQty > 0)
  /\ since \in 0..Every /\ days \in 0..MaxDays
  /\ task \in Tasks /\ plan \in 0..MaxRaw /\ key \in Keys
  /\ mode \in Modes /\ asking \in BOOLEAN /\ cached \subseteq Keys
  /\ \A l \in legs : l.qty \in 1..MaxRaw
  /\ spot \in Int /\ perp \in Int /\ rounds \in 0..MaxRounds
  /\ mishap \in BOOLEAN /\ replaced \in BOOLEAN /\ oneLegged \in BOOLEAN

(* The state of a strategy that has not traded, and its start.             *)
Quiet ==
  /\ has = FALSE /\ spotQty = 0 /\ perpQty = 0 /\ since = Every
  /\ task = "idle" /\ plan = 0 /\ key = "net" /\ cached = {} /\ legs = {}
  /\ mode = "unknown" /\ asking = FALSE
  /\ spot = 0 /\ perp = 0 /\ replaced = FALSE /\ oneLegged = FALSE

CarryInit == kind = "carry" /\ Quiet /\ days = MaxDays
BasisInit == kind = "basis" /\ Quiet /\ days = MaxDays

Init ==
  /\ CarryInit \/ BasisInit
  /\ isolated \in BOOLEAN /\ hedged \in BOOLEAN /\ rounds = 0 /\ mishap = FALSE

-----------------------------------------------------------------------------
(* Decisions.                                                              *)

FundingCarryDecision(apr) ==
  IF has THEN IF apr < ExitRate THEN "exit" ELSE "hold"
         ELSE IF apr >= EntryRate THEN "enter" ELSE "hold"

(* A contract that has expired, or whose expiry is unknown, has no basis.  *)
AnnualizedBasis(rate) == IF days = 0 THEN 0 ELSE rate

\* Mutant: only the rate closes a position.
ByRate(rate) ==
  IF has THEN IF rate <= ExitRate THEN "exit" ELSE "hold"
         ELSE IF rate >= EntryRate THEN "enter" ELSE "hold"

BasisDecision(rate) ==
  IF has THEN IF days < ForceDays \/ rate <= ExitRate THEN "exit" ELSE "hold"
         ELSE IF rate >= EntryRate THEN "enter" ELSE "hold"

(* Both legs start equal; the risk manager may shrink the derivative to    *)
(* any size and the spot leg follows in proportion.                        *)
CarrySizes == UNION {1..raw : raw \in {n \in Lot..MaxRaw : n % Lot = 0}}
BasisSizes == CarrySizes

-----------------------------------------------------------------------------
(* Orders.                                                                 *)

(* submit_isolated_order derives the side of the key from the order; the   *)
(* check before an entry names the short side itself.  Both know the       *)
(* account by the posMode they were told.                                  *)
HelperKey(m, side) == IF m # "long_short_mode" THEN "net"
                      ELSE IF side = "buy" THEN "long" ELSE "short"

\* Mutant: the side of the spot leg.
EntryKeyOfSpot(m) == IF m = "long_short_mode" THEN "long" ELSE "net"

EntryKey(m) == IF m = "long_short_mode" THEN "short" ELSE "net"

Leg(what, side, n) == [what |-> what, side |-> side, qty |-> n]

(* The state is written whether or not the helper sent the derivative leg. *)
Opened(n) == has' = TRUE /\ spotQty' = n /\ perpQty' = n /\ rounds' = rounds + 1

(* The spot leg leaves at once.  The helper looks its own key up, and may  *)
(* have to wait for a leverage of its own before the other leg leaves.     *)
SubmitPair(n, m, keys) ==
  IF ~isolated \/ HelperKey(m, "sell") \in keys
  THEN /\ legs' = legs \cup {Leg("spot", "buy", n), Leg("perp", "sell", Floor(n))}
       /\ Opened(n) /\ task' = "idle" /\ plan' = 0 /\ key' = "net"
       /\ replaced' = FALSE
  ELSE /\ legs' = legs \cup {Leg("spot", "buy", n)}
       /\ task' = "helper" /\ plan' = n /\ key' = HelperKey(m, "sell")
       /\ UNCHANGED <<book, rounds, replaced>>

(* ensure_leverage, of an entry that was told the posMode m.               *)
EnsureFirst(n, m) ==
  IF EntryKey(m) \in cached
  THEN SubmitPair(n, m, cached)
  ELSE /\ task' = "lever" /\ plan' = n /\ key' = EntryKey(m)
       /\ UNCHANGED <<book, legs, rounds, replaced>>

(* No entry: no size, a refusal, less than a lot of either leg.            *)
SkipEntry ==
  /\ task' = "idle"
  /\ UNCHANGED <<book, plan, key, cached, legs, rounds, mishap, replaced, oneLegged>>

(* get_pos_mode: kept once it was answered, and asked for until then.      *)
Enter(sizes) ==
  /\ rounds < MaxRounds
  /\ \E n \in sizes :
       /\ Floor(n) > 0
       /\ \/ ~isolated /\ SubmitPair(n, mode, cached)
          \/ isolated /\ mode # "unknown" /\ EnsureFirst(n, mode)
          \/ /\ isolated /\ mode = "unknown" /\ task' = "mode" /\ plan' = n
             /\ UNCHANGED <<book, key, legs, rounds, replaced>>
  /\ UNCHANGED <<cached, mishap, oneLegged>>

\* Mutant: the sizes of the closed position stay.
ForgetFlag == has' = FALSE /\ UNCHANGED <<spotQty, perpQty>>

Forget == has' = FALSE /\ spotQty' = 0 /\ perpQty' = 0

\* Mutant: the spot leg of a close is sold by the lot of the derivative.
ExitByLot ==
  /\ legs' = legs \cup {Leg("spot", "sell", Floor(spotQty)),
                        Leg("perp", "buy", Floor(perpQty))}
  /\ Forget /\ task' = "idle"
  /\ UNCHANGED <<plan, key, cached, rounds, mishap, replaced, oneLegged>>

(* The spot leg is sold at once; the derivative leg goes through the       *)
(* helper, which may have to wait for a leverage first.                    *)
Exit ==
  /\ IF ~isolated \/ HelperKey(mode, "buy") \in cached
     THEN /\ legs' = legs \cup {Leg("spot", "sell", spotQty),
                                Leg("perp", "buy", Floor(perpQty))}
          /\ Forget /\ task' = "idle" /\ UNCHANGED key
     ELSE /\ legs' = legs \cup {Leg("spot", "sell", spotQty)}
          /\ task' = "unwind" /\ key' = HelperKey(mode, "buy") /\ UNCHANGED book
  /\ UNCHANGED <<plan, cached, rounds, mishap, replaced, oneLegged>>

CarryEnter == Enter(CarrySizes) \/ SkipEntry
BasisEnter == Enter(BasisSizes) \/ SkipEntry
CarryExit  == Exit
BasisExit  == Exit

-----------------------------------------------------------------------------
(* The check.  Checks are half an hour or more apart (check_interval_sec): *)
(* the requests and the market orders of the one before are over.          *)

StartCheck ==
  IF since + 1 < Every
  THEN since' = since + 1 /\ UNCHANGED task
  ELSE task = "idle" /\ legs = {} /\ since' = 0 /\ task' = "fetch"

CarryBar == kind = "carry" /\ StartCheck /\ UNCHANGED days
BasisBar == kind = "basis" /\ StartCheck /\ days' \in {days, IF days = 0 THEN 0 ELSE days - 1}

Bar ==
  /\ CarryBar \/ BasisBar
  /\ UNCHANGED <<fixed, book, plan, key, posMode, cached, legs, held, rounds,
                 mishap, replaced, oneLegged>>

(* The request raised: the exception is logged and the check is over.      *)
FetchFails == /\ task = "fetch" /\ task' = "idle"
              /\ UNCHANGED <<fixed, book, since, days, plan, key, posMode, cached,
                             legs, held, rounds, mishap, replaced, oneLegged>>

Hold == /\ task' = "idle"
        /\ UNCHANGED <<book, plan, key, cached, legs, rounds, mishap, replaced,
                       oneLegged>>

CarryCheck(apr) ==
  LET action == FundingCarryDecision(apr)
  IN  kind = "carry" /\ \/ action = "enter" /\ CarryEnter
                        \/ action = "exit"  /\ CarryExit
                        \/ action = "hold"  /\ Hold

BasisCheck(rate) ==
  LET action == BasisDecision(AnnualizedBasis(rate))
  IN  kind = "basis" /\ \/ action = "enter" /\ BasisEnter
                        \/ action = "exit"  /\ BasisExit
                        \/ action = "hold"  /\ Hold

Check ==
  /\ task = "fetch"
  /\ \E rate \in 0..MaxRate : CarryCheck(rate) \/ BasisCheck(rate)
  /\ UNCHANGED <<fixed, since, days, posMode, held>>

(* What the service answers: the account's mode, or net_mode for a lookup  *)
(* that failed; either is kept, in the place of an earlier answer too.     *)
LookedUp == {IF hedged THEN "long_short_mode" ELSE "net_mode", "net_mode"}

ModeAnswered ==
  /\ task = "mode"
  /\ mode' \in LookedUp
  /\ EnsureFirst(plan, mode')
  /\ UNCHANGED <<fixed, since, days, asking, cached, held, mishap, oneLegged>>

(* Coroutines of other strategies ask while the mode is unknown, and their *)
(* answers come when they come.                                            *)
OtherAsks ==
  /\ isolated /\ mode = "unknown" /\ asking' = TRUE
  /\ UNCHANGED <<fixed, book, since, days, task, plan, key, mode, cached, legs,
                 held, rounds, mishap, replaced, oneLegged>>

OtherAnswered ==
  /\ asking /\ asking' \in BOOLEAN
  /\ mode' \in LookedUp
  /\ replaced' = (replaced \/ (task = "lever" /\ mode' # mode))
  /\ UNCHANGED <<fixed, book, since, days, task, plan, key, cached, legs, held,
                 rounds, mishap, oneLegged>>

(* The answer to the set-leverage call of an entry: a failure sends        *)
(* neither leg.                                                            *)
LeverAnswered ==
  /\ task = "lever"
  /\ \/ /\ task' = "idle" /\ plan' = 0 /\ key' = "net" /\ replaced' = FALSE
        /\ UNCHANGED <<book, cached, legs, rounds>>
     \/ /\ cached' = cached \cup {key}
        /\ SubmitPair(plan, mode, cached')
  /\ UNCHANGED <<fixed, since, days, posMode, held, mishap, oneLegged>>

(* The answer to the call of the helper, the spot leg being sent: after a  *)
(* failure the pair is written all the same.                               *)
HelperAnswered ==
  /\ task = "helper"
  /\ task' = "idle" /\ plan' = 0 /\ key' = "net" /\ replaced' = FALSE /\ Opened(plan)
  /\ \/ /\ cached' = cached \cup {key}
        /\ legs' = legs \cup {Leg("perp", "sell", Floor(plan))}
        /\ UNCHANGED <<mishap, oneLegged>>
     \/ /\ mishap' = TRUE /\ oneLegged' = (oneLegged \/ ~replaced)
        /\ UNCHANGED <<cached, legs>>
  /\ UNCHANGED <<fixed, since, days, posMode, held>>

(* The answer to the one of a close: a failure skips the derivative leg,   *)
(* and the position is forgotten either way.                               *)
UnwindAnswered ==
  /\ task = "unwind"
  /\ task' = "idle" /\ key' = "net" /\ Forget
  /\ \/ /\ cached' = cached \cup {key}
        /\ legs' = legs \cup {Leg("perp", "buy", Floor(perpQty))}
        /\ UNCHANGED mishap
     \/ mishap' = TRUE /\ UNCHANGED <<cached, legs>>
  /\ UNCHANGED <<fixed, since, days, plan, posMode, held, rounds, replaced, oneLegged>>

(* Another strategy sets another leverage on the instrument.               *)
OtherStrategy ==
  /\ isolated
  /\ \E k \in cached : cached' = cached \ {k}
  /\ UNCHANGED <<fixed, book, since, days, task, plan, key, posMode, legs, held,
                 rounds, mishap, replaced, oneLegged>>

(* The venue fills an order, or refuses it, or fills what a reduce-only    *)
(* order can close: the strategies handle no event of either.              *)
VenueStep ==
  /\ \E l \in legs, n \in 0..MaxRaw :
       /\ IF l.what = "perp" /\ l.side = "buy" /\ l.qty > -perp
          THEN n \in {0, -perp}
          ELSE n \in {0, l.qty}
       /\ legs' = legs \ {l}
       /\ spot' = IF l.what # "spot" THEN spot
                  ELSE IF l.side = "buy" THEN spot + n ELSE spot - n
       /\ perp' = IF l.what # "perp" THEN perp
                  ELSE IF l.side = "buy" THEN perp + n ELSE perp - n
       /\ mishap' = (mishap \/ n < l.qty)
  /\ UNCHANGED <<fixed, book, since, days, task, plan, key, posMode, cached,
                 rounds, replaced, oneLegged>>

Next == Bar \/ FetchFails \/ Check \/ ModeAnswered \/ LeverAnswered
        \/ HelperAnswered \/ UnwindAnswered \/ OtherAsks \/ OtherAnswered
        \/ OtherStrategy \/ VenueStep

(* Bars keep coming, requests and market orders are answered, and not      *)
(* every fetch fails.                                                      *)
Fairness == WF_cvars(Bar) /\ SF_cvars(Check) /\ WF_cvars(VenueStep)
            /\ WF_cvars(ModeAnswered) /\ WF_cvars(LeverAnswered)
            /\ WF_cvars(HelperAnswered) /\ WF_cvars(UnwindAnswered)

Spec == Init /\ [][Next]_cvars /\ Fairness

-----------------------------------------------------------------------------
(* At rest, unless a leg went wrong, the account holds the position that   *)
(* is believed: both legs or none, and their difference is below one lot   *)
(* of the derivative however the risk manager scaled the pair.             *)
LegsMatch ==
  (legs = {} /\ task \notin {"helper", "unwind"} /\ ~mishap) =>
    /\ spot = spotQty /\ -perp = Floor(perpQty)
    /\ spot + perp \in 0..(Lot - 1)

(* "we never end up with a one-sided (non-delta-neutral) position": the    *)
(* helper sends the derivative leg of a pair whose leverage was ensured,   *)
(* unless the posMode was replaced while the entry waited for it.          *)
NeverOneLegged == ~oneLegged

(* A position in a future that nears its expiry is closed in the end: it   *)
(* is forgotten, and the account holds nothing of it unless a leg of it,   *)
(* or of one before, was not sent, refused or filled short.                *)
ClosedBeforeExpiry ==
  (kind = "basis" /\ has /\ days < ForceDays)
    ~> (~has /\ ((spot = 0 /\ perp = 0) \/ mishap))
=============================================================================
