---------------------------- MODULE BasketRebalance ----------------------------
(***************************************************************************)
(* The rebalance coroutines of three strategies that trade baskets of      *)
(* perpetual swaps on one account:                                         *)
(*   fxs  FundingXSStrategy        strategies/funding_cross_section.py     *)
(*   fp   FactorPortfolioStrategy  strategies/factor_portfolio.py          *)
(*   xsm  XSMomentumStrategy       strategies/xs_momentum.py               *)
(* with submit_isolated_order (strategies/_okx_base.py) and the shared     *)
(* IsolatedMarginService, live and with isolated margin enabled.           *)
(*                                                                         *)
(* fxs and fp keep their legs in _positions (book) and diff against it;    *)
(* xsm diffs against the net position of the account.  fxs and xsm set the *)
(* leverage of every leg before the first order, fp leg by leg.            *)
(*                                                                         *)
(* asyncio runs one coroutine at a time: `turn` names it until it awaits   *)
(* an answer of OKX; an await served from the cache does not suspend.      *)
(* Quantities are lots, positive for long and negative for short.  The     *)
(* signal is any target.                                                   *)
(*                                                                         *)
(* fxs and fp stamp the hour before they start a round, so their rounds    *)
(* are hours apart and all orders have settled when the next one starts.   *)
(* xsm stamps the day at the end of a round that it completes: until then  *)
(* every bar, and so every push of a candle that is forming, starts one    *)
(* more coroutine beside those under way.                                  *)
(***************************************************************************)
EXTENDS IsolatedMargin, Sequences

CONSTANTS
  Owner,     \* the strategy of a coroutine
  Kind,      \* which code a coroutine runs
  Universe,  \* instrument_ids of its strategy
  MaxQty,    \* bound on the lots of a target leg
  Schedules, \* bound: how many rounds the coroutines may have begun, together
  Carried,   \* Carried[i]: what the account may hold in i when the process starts
  Rejections \* OKX may reject an order it could fill

Loop == "loop" \* no coroutine runs

\* The coroutines of the same strategy.
Family(s) == {t \in Coroutines : Owner[t] = Owner[s]}

ASSUME BasketAssumption ==
  /\ Loop \notin Coroutines
  /\ Kind \in [Coroutines -> {"fxs", "fp", "xsm"}]
  /\ Universe \in [Coroutines -> SUBSET Insts]
  /\ \A s \in Coroutines : \A t \in Family(s) :
       Kind[t] = Kind[s] /\ Universe[t] = Universe[s] /\ Levers[t] = Levers[s]
  /\ \A s \in Coroutines : Kind[s] # "xsm" => Family(s) = {s}
  /\ MaxQty \in Nat
  /\ Schedules \subseteq [Coroutines -> Nat] /\ [s \in Coroutines |-> 0] \in Schedules
  /\ Carried \in [Insts -> SUBSET (-MaxQty..MaxQty)]
  /\ Rejections \in BOOLEAN
  /\ AccountMode = "long_short_mode"

VARIABLES
  turn,     \* the coroutine that runs, or Loop
  pc,       \* where each coroutine is
  rounds,   \* rebalances begun
  want,     \* the target of the round
  ask,      \* the leverage of each leg of the round
  delta,    \* xsm: deltas computed before the first await
  work,     \* instruments the current phase has not treated
  failed,   \* the leverage of some leg could not be set
  todo,     \* orders of the current instrument that are not submitted
  book,     \* fxs, fp: _positions
  inflight, \* orders OKX has not settled
  held,     \* lots at OKX per margin mode, instrument and side
  dropped,  \* fxs, xsm: orders of the round given up because of the leverage
  rejected, \* xsm: instruments of the round with an order that OKX rejected
  overlapped, \* another round of the strategy ran, or had orders at OKX, meanwhile
  complete  \* xsm: the last round came to its end without abort and stamped the day

roundVars == <<rounds, want, ask, delta>>
history   == <<dropped, rejected, overlapped>>
vars == <<posMode, cache, lever, call, doubt, turn, pc, rounds, want, ask, delta,
          work, failed, todo, book, inflight, held, dropped, rejected, overlapped, complete>>

Sign(q) == IF q > 0 THEN 1 ELSE IF q < 0 THEN -1 ELSE 0
Lots(q) == IF q < 0 THEN -q ELSE q
Signed  == -MaxQty..MaxQty
NoTarget == [i \in Insts |-> 0]

-----------------------------------------------------------------------------
(* Orders *)

\* resolve_pos_side: a reduce-only order names the side it reduces.
PositionSide(q, reduce) == IF (q > 0) # reduce THEN "long" ELSE "short"

\* What _build_order_request makes of a market order of q lots.  Orders that
\* carry the td_mode tag go to the isolated position, the others to td_mode.
Order(s, i, q, reduce, mode) ==
  [by |-> s, inst |-> i, side |-> PositionSide(q, reduce), lots |-> Lots(q),
   reduce |-> reduce, mode |-> mode]

\* submit_isolated_order asks for the leverage of the side that a buy opens or
\* a sell opens, whether or not the order reduces.
OrderKey(i, q) == KeyOf(i, IF q > 0 THEN "long" ELSE "short")

\* portfolio.net_position: what all strategies hold in all margin modes.
Net(i) ==
  held["isolated"][i]["long"] + held["cross"][i]["long"]
    - held["isolated"][i]["short"] - held["cross"][i]["short"]

Job(i, q, r) == [inst |-> i, qty |-> q, reduce |-> r]

\* Mutant: the second half of a flip has the size of the whole delta.
PlanFullReopen(i, current, d) ==
  IF d = 0 THEN <<>>
  ELSE IF current = 0 \/ Sign(current) = Sign(d) THEN <<Job(i, d, FALSE)>>
  ELSE IF Lots(d) <= Lots(current) THEN <<Job(i, d, TRUE)>>
  ELSE <<Job(i, -current, TRUE), Job(i, d, FALSE)>>

\* plan_delta_orders: a flip is split into a close and an open.
PlanDeltaOrders(i, current, d) ==
  IF d = 0 THEN <<>>
  ELSE IF current = 0 \/ Sign(current) = Sign(d) THEN <<Job(i, d, FALSE)>>
  ELSE IF Lots(d) <= Lots(current) THEN <<Job(i, d, TRUE)>>
  ELSE <<Job(i, -current, TRUE), Job(i, d + current, FALSE)>>

-----------------------------------------------------------------------------
\* Types; an instrument has at most two orders still to be planned and
\* nothing that OKX holds becomes negative.
TypeOK ==
  /\ MarginTypeOK
  /\ turn \in Coroutines \union {Loop}
  /\ pc \in [Coroutines -> {"idle", "mode", "validate", "submit"}]
  /\ rounds \in Schedules
  /\ want \in [Coroutines -> [Insts -> Signed]]
  /\ ask \in [Coroutines -> [Insts -> Levels]]
  /\ \A s \in Coroutines : work[s] \subseteq Universe[s] /\ Len(todo[s]) <= 2
  /\ failed \in [Coroutines -> BOOLEAN]
  /\ book \in [Coroutines -> [Insts -> Signed]]
  /\ \A m \in {"isolated", "cross"}, i \in Insts, d \in {"long", "short"} :
       held[m][i][d] \in Nat
  /\ overlapped \in [Coroutines -> BOOLEAN]
  /\ complete \in [Coroutines -> BOOLEAN]

\* The process starts; the account may hold what an earlier one left.
Init ==
  /\ MarginInit
  /\ turn = Loop
  /\ pc = [s \in Coroutines |-> "idle"]
  /\ rounds = [s \in Coroutines |-> 0]
  /\ want = [s \in Coroutines |-> NoTarget]
  /\ ask = [s \in Coroutines |-> [i \in Insts |-> FirstLever]]
  /\ delta = [s \in Coroutines |-> NoTarget]
  /\ work = [s \in Coroutines |-> {}]
  /\ failed = [s \in Coroutines |-> FALSE]
  /\ todo = [s \in Coroutines |-> <<>>]
  /\ book = [s \in Coroutines |-> NoTarget]
  /\ inflight = {}
  /\ \E h \in [Insts -> Signed] :
       /\ \A i \in Insts : h[i] \in Carried[i]
       /\ held = [m \in {"isolated", "cross"} |-> [i \in Insts |->
                    [d \in {"long", "short"} |->
                      IF m = "isolated" /\ PositionSide(h[i], FALSE) = d THEN Lots(h[i]) ELSE 0]]]
  /\ dropped = [s \in Coroutines |-> {}]
  /\ rejected = [s \in Coroutines |-> {}]
  /\ overlapped = [s \in Coroutines |-> FALSE]
  /\ complete = [s \in Coroutines |-> FALSE]

-----------------------------------------------------------------------------
(* A round begins *)

\* The bar that triggers a round, and what the signal and the risk pipeline
\* make of it.
Targets(s) == {w \in [Insts -> Signed] : \A i \in Insts \ Universe[s] : w[i] = 0}
Leverages(s) == {a \in [Insts -> Levels] : \A i \in Insts :
                   IF i \in Universe[s] THEN a[i] \in Levers[s] ELSE a[i] = FirstLever}

Settled(s) == pc[s] = "idle" /\ \A o \in inflight : o.by # s

\* A coroutine that is not under way.  When the day is stamped it is one of the
\* next day, and what was under way has settled.
Begin(s) ==
  /\ turn = Loop /\ Settled(s)
  /\ (\E t \in Family(s) : complete[t]) => \A t \in Family(s) : Settled(t)
  /\ rounds' = [rounds EXCEPT ![s] = @ + 1]
  /\ rounds' \in Schedules
  /\ overlapped' = [t \in Coroutines |->
       IF t = s THEN \E u \in Family(s) : ~Settled(u)
       ELSE overlapped[t] \/ (t \in Family(s) /\ ~Settled(t))]
  /\ complete' = [t \in Coroutines |-> complete[t] /\ t \notin Family(s)]
  /\ \E a \in Leverages(s) : ask' = [ask EXCEPT ![s] = a]
  /\ dropped' = [dropped EXCEPT ![s] = {}]
  /\ rejected' = [rejected EXCEPT ![s] = {}]
  /\ UNCHANGED <<marginVars, failed, todo, held>>

\* get_pos_mode suspends only while the mode is not known.
ModeTurn(s) == IF posMode = NoMode THEN Loop ELSE s

\* xsm _rebalance up to its first await: the deltas against the account.
BeginMomentum(s) ==
  /\ Begin(s)
  /\ Kind[s] = "xsm"
  /\ \E w \in Targets(s) :
       /\ want' = [want EXCEPT ![s] = w]
       /\ delta' = [delta EXCEPT ![s] =
                      [i \in Insts |-> IF i \in Universe[s] THEN w[i] - Net(i) ELSE 0]]
       /\ work' = [work EXCEPT ![s] = {i \in Insts : w[i] # 0}]
  /\ pc' = [pc EXCEPT ![s] = "mode"]
  /\ turn' = ModeTurn(s)
  /\ UNCHANGED <<book, inflight>>

\* The legs that a diff closes: direction gone or changed, in fxs also the size.
Closes(s, w) ==
  {i \in Insts : book[s][i] # 0 /\ IF Kind[s] = "fxs" THEN w[i] # book[s][i]
                                   ELSE Sign(w[i]) # Sign(book[s][i])}

\* Mutant: the close is not reduce-only.
CloseUnreduced(s, i) == Order(s, i, -book[s][i], FALSE, "cross")

\* _close_leg submits without the td_mode tag.
CloseOrder(s, i) == Order(s, i, -book[s][i], TRUE, "cross")

\* fxs _execute_diff phases 1 and 2, fp _rebalance up to the first open leg;
\* _close_leg forgets the leg.
BeginDiff(s) ==
  /\ Begin(s)
  /\ Kind[s] \in {"fxs", "fp"}
  /\ \E w \in Targets(s) :
       LET closes == Closes(s, w)
           open == {i \in Insts : w[i] # 0 /\ (book[s][i] = 0 \/ i \in closes)} IN
       /\ want' = [want EXCEPT ![s] = IF open = {} THEN NoTarget ELSE w]
       /\ inflight' = inflight \union {CloseOrder(s, i) : i \in closes}
       /\ book' = [book EXCEPT ![s] = [i \in Insts |-> IF i \in closes THEN 0 ELSE @[i]]]
       /\ work' = [work EXCEPT ![s] = open]
       /\ pc' = [pc EXCEPT ![s] = IF open = {} THEN "idle" ELSE "mode"]
       /\ turn' = IF open = {} THEN Loop ELSE ModeTurn(s)
  /\ UNCHANGED delta

-----------------------------------------------------------------------------
(* posMode and the leverage of every leg *)

\* get_pos_mode returns: from the cache, or with the answer of OKX.  fp asks in
\* submit_isolated_order, after the risk pipeline has passed its first leg.
ModeKnown(s) ==
  /\ pc[s] = "mode"
  /\ \/ turn = s /\ UNCHANGED marginVars
     \/ turn = Loop /\ LearnPosMode
  /\ turn' = s
  /\ pc' = [pc EXCEPT ![s] = IF Kind[s] = "fp" THEN "submit" ELSE "validate"]
  /\ UNCHANGED <<roundVars, work, failed, todo, book, inflight, held, history, complete>>

LegKey(s, i) == KeyOf(i, IF want[s][i] > 0 THEN "long" ELSE "short")

\* batch_ensure_leverage, one leg: from the cache, or by a call.  The order of
\* the legs is that of the target, which the signal makes.
ValidateLeg(s) ==
  /\ turn = s /\ pc[s] = "validate"
  /\ \E i \in work[s] :
       \/ /\ Cached(LegKey(s, i), ask[s][i])
          /\ work' = [work EXCEPT ![s] = @ \ {i}]
          /\ UNCHANGED <<marginVars, turn>>
       \/ /\ Ask(s, LegKey(s, i), ask[s][i])
          /\ turn' = Loop
          /\ UNCHANGED work
  /\ UNCHANGED <<roundVars, pc, failed, todo, book, inflight, held, history, complete>>

\* Mutant: an error ends the loop over the legs without a result.
LegValidatedOrStuck(s) ==
  /\ turn = Loop /\ pc[s] = "validate"
  /\ Ensured(s)
  /\ work' = [work EXCEPT ![s] = @ \ {call[s].key[1]}]
  /\ turn' = s
  /\ UNCHANGED <<roundVars, pc, failed, todo, book, inflight, held, history, complete>>

\* A set-leverage call of the phase is answered.
LegValidated(s) ==
  /\ turn = Loop /\ pc[s] = "validate"
  /\ \/ Ensured(s) /\ UNCHANGED failed
     \/ Denied(s) /\ failed' = [failed EXCEPT ![s] = TRUE]
  /\ work' = [work EXCEPT ![s] = @ \ {call[s].key[1]}]
  /\ turn' = s
  /\ UNCHANGED <<roundVars, pc, todo, book, inflight, held, history, complete>>

\* The coroutine returns and its locals are gone; xsm keeps the target of a
\* round that it completed in _target_contracts.
Return(s, done) ==
  /\ pc' = [pc EXCEPT ![s] = "idle"]
  /\ turn' = Loop
  /\ want' = IF Kind[s] = "xsm" /\ done THEN want ELSE [want EXCEPT ![s] = NoTarget]
  /\ delta' = [delta EXCEPT ![s] = NoTarget]
  /\ failed' = [failed EXCEPT ![s] = FALSE]
  /\ complete' = [complete EXCEPT ![s] = done /\ Kind[s] = "xsm"]
  /\ UNCHANGED <<marginVars, rounds, ask, todo, book, inflight, held, history>>

\* The leverage of some leg could not be set: no order of the round leaves.
Abort(s) ==
  /\ turn = s /\ pc[s] = "validate" /\ work[s] = {} /\ failed[s]
  /\ Return(s, FALSE)
  /\ UNCHANGED work

\* Mutant: result.all_ok is not looked at.
ValidatedAnyway(s) ==
  /\ turn = s /\ pc[s] = "validate" /\ work[s] = {}
  /\ pc' = [pc EXCEPT ![s] = "submit"]
  /\ work' = [work EXCEPT ![s] =
                {i \in Insts : IF Kind[s] = "xsm" THEN delta[s][i] # 0
                               ELSE want[s][i] # 0 /\ book[s][i] = 0}]
  /\ UNCHANGED <<marginVars, roundVars, turn, failed, todo, book, inflight, held,
                 history, complete>>

\* All legs are validated: go on to the orders.
Validated(s) ==
  /\ turn = s /\ pc[s] = "validate" /\ work[s] = {} /\ ~failed[s]
  /\ pc' = [pc EXCEPT ![s] = "submit"]
  /\ work' = [work EXCEPT ![s] =
                {i \in Insts : IF Kind[s] = "xsm" THEN delta[s][i] # 0
                               ELSE want[s][i] # 0 /\ book[s][i] = 0}]
  /\ UNCHANGED <<marginVars, roundVars, turn, failed, todo, book, inflight, held,
                 history, complete>>

-----------------------------------------------------------------------------
(* Orders *)

\* xsm _submit_delta: plan the next instrument against the position of now.
NextDelta(s) ==
  /\ turn = s /\ pc[s] = "submit" /\ todo[s] = <<>>
  /\ Kind[s] = "xsm"
  /\ \E i \in work[s] :
       /\ todo' = [todo EXCEPT ![s] = PlanDeltaOrders(i, Net(i), delta[s][i])]
       /\ work' = [work EXCEPT ![s] = @ \ {i}]
  /\ UNCHANGED <<marginVars, roundVars, turn, pc, failed, book, inflight, held,
                 history, complete>>

\* fxs, fp _open_leg: the risk pipeline may shrink or reject the next leg.
NextOpen(s) ==
  /\ turn = s /\ pc[s] = "submit" /\ todo[s] = <<>>
  /\ Kind[s] # "xsm"
  /\ \E i \in work[s] :
       /\ \E n \in 0..Lots(want[s][i]) :
            todo' = [todo EXCEPT ![s] =
              IF n = 0 THEN <<>> ELSE <<Job(i, Sign(want[s][i]) * n, FALSE)>>]
       /\ work' = [work EXCEPT ![s] = @ \ {i}]
  /\ UNCHANGED <<marginVars, roundVars, turn, pc, failed, book, inflight, held,
                 history, complete>>

\* submit_order: the order leaves, fxs and fp record the leg as theirs.
Launch(s) ==
  LET j == Head(todo[s]) IN
  /\ inflight' = inflight \union {Order(s, j.inst, j.qty, j.reduce, "isolated")}
  /\ book' = IF Kind[s] = "xsm" THEN book ELSE [book EXCEPT ![s][j.inst] = j.qty]
  /\ todo' = [todo EXCEPT ![s] = Tail(@)]

\* submit_isolated_order, and what fxs _open_leg does in its place.
SubmitOrder(s) ==
  /\ turn = s /\ pc[s] = "submit" /\ todo[s] # <<>>
  /\ LET j == Head(todo[s])
         k == OrderKey(j.inst, j.qty)
         l == ask[s][j.inst] IN
       \/ /\ Cached(k, l)
          /\ Launch(s)
          /\ UNCHANGED <<marginVars, turn>>
       \/ /\ Ask(s, k, l)
          /\ turn' = Loop
          /\ UNCHANGED <<todo, book, inflight>>
  /\ UNCHANGED <<roundVars, pc, work, failed, held, history, complete>>

\* The set-leverage call of an order is answered: submit it, or give it up.
OrderAnswered(s) ==
  /\ turn = Loop /\ pc[s] = "submit"
  /\ \/ /\ Ensured(s)
        /\ Launch(s)
        /\ UNCHANGED dropped
     \/ /\ Denied(s)
        /\ todo' = [todo EXCEPT ![s] = Tail(@)]
        /\ dropped' = IF Kind[s] = "fp" THEN dropped ELSE
             [dropped EXCEPT ![s] = @ \union {[job |-> Head(todo[s]), key |-> call[s].key]}]
        /\ UNCHANGED <<book, inflight>>
  /\ turn' = s
  /\ UNCHANGED <<roundVars, pc, work, failed, held, rejected, overlapped, complete>>

\* Every leg is treated.
Finish(s) ==
  /\ turn = s /\ pc[s] = "submit" /\ todo[s] = <<>> /\ work[s] = {}
  /\ Return(s, TRUE)
  /\ UNCHANGED work

-----------------------------------------------------------------------------
(* OKX *)

\* A market order is settled and NT learns of it.  A reduce-only order takes
\* from the position of its own margin mode, and needs one of its size.
Fill(o) ==
  /\ turn = Loop /\ o \in inflight
  /\ inflight' = inflight \ {o}
  /\ \/ /\ ~o.reduce
        /\ held' = [held EXCEPT ![o.mode][o.inst][o.side] = @ + o.lots]
     \/ /\ o.reduce
        /\ held[o.mode][o.inst][o.side] >= o.lots
        /\ held' = [held EXCEPT ![o.mode][o.inst][o.side] = @ - o.lots]
  /\ UNCHANGED <<marginVars, roundVars, turn, pc, work, failed, todo, book, history, complete>>

\* on_order_rejected changes nothing in any of the three strategies.
Reject(o) ==
  /\ turn = Loop /\ o \in inflight
  /\ Rejections \/ (o.reduce /\ held[o.mode][o.inst][o.side] < o.lots)
  /\ inflight' = inflight \ {o}
  /\ rejected' = IF Kind[o.by] = "xsm" THEN [rejected EXCEPT ![o.by] = @ \union {o.inst}]
                                          ELSE rejected
  /\ UNCHANGED <<marginVars, roundVars, turn, pc, work, failed, todo, book, held,
                 dropped, overlapped, complete>>

\* OKX works on a set-leverage call.  It does so between the stretches of the
\* loop: what a coroutine does in a stretch and what OKX does commute.
OkxLeverage(s) ==
  /\ turn = Loop
  /\ OkxSets(s)
  /\ UNCHANGED <<turn, roundVars, pc, work, failed, todo, book, inflight, held,
                 history, complete>>

-----------------------------------------------------------------------------
\* What a coroutine does once it has begun.
Resume(s) ==
  \/ ModeKnown(s) \/ ValidateLeg(s) \/ LegValidated(s) \/ Abort(s) \/ Validated(s)
  \/ NextDelta(s) \/ NextOpen(s) \/ SubmitOrder(s) \/ OrderAnswered(s) \/ Finish(s)

Next ==
  \/ \E s \in Coroutines : BeginMomentum(s) \/ BeginDiff(s) \/ Resume(s) \/ OkxLeverage(s)
  \/ \E o \in inflight : Fill(o) \/ Reject(o)

Spec == Init /\ [][Next]_vars

\* The loop runs ready coroutines, OKX answers or the transport gives up, and
\* market orders are settled.
FairSpec ==
  /\ Spec
  /\ \A s \in Coroutines : WF_vars(Resume(s)) /\ WF_vars(OkxLeverage(s))
  /\ WF_vars(\E o \in inflight : Fill(o) \/ Reject(o))

-----------------------------------------------------------------------------
\* Nobody but this round trades the instrument: neither another strategy nor
\* another round of the same.
Private(s, i) ==
  /\ \A t \in Coroutines \ Family(s) : i \notin Universe[t]
  /\ ~overlapped[s]

\* The guard against directional residual (_execute_diff phase 3,
\* _validate_isolated_leverage): once all legs were validated, an opening order
\* is given up for its leverage only where another strategy or an overlapping
\* round trades the instrument, or after a failed lookup has replaced the posMode.
ValidatedLegsOpen ==
  \A s \in Coroutines : Kind[s] # "fp" =>
    \A d \in dropped[s] :
      d.job.reduce \/ ~Private(s, d.job.inst) \/ ~Accepts(d.key)

\* A leg is opened in isolated mode and closed in cross mode, where nothing is
\* held: OKX may refuse the close, but never opens a position with it that
\* would stand against the leg, whatever is rejected or given up.
ClosesOpenNothing ==
  \A i \in Insts, d \in {"long", "short"} : held["cross"][i][d] = 0

\* No round leaves a leg at OKX that was not decided on: neither by opening a
\* part of a validated set nor by closing in the wrong margin mode.
NoStrayLegs == ValidatedLegsOpen /\ ClosesOpenNothing

\* A complete round of xsm brings the account to its target wherever no other
\* strategy trades and no order of the round was given up or rejected, unless
\* another round of the strategy overlapped it: both then submit their deltas
\* against the same position.  Deltas, plan and order sides must fit together
\* over the awaits between them.
RoundReachesTarget ==
  \A s \in Coroutines : Kind[s] = "xsm" /\ complete[s] /\ Settled(s) =>
    \A i \in Universe[s] :
      \/ Net(i) = want[s][i]
      \/ ~Private(s, i)
      \/ i \in rejected[s]
      \/ \E d \in dropped[s] : d.job.inst = i

\* Every round comes to an end.
RoundEnds == \A s \in Coroutines : pc[s] # "idle" ~> pc[s] = "idle"

\* "closes still proceed" (docstring of _execute_diff): what the book has
\* dropped is not held any more, as long as OKX fills every order it can.  The
\* code does not keep this; no run checks it, see the README under Observations.
ClosesProceed ==
  \A s \in Coroutines : Kind[s] # "xsm" /\ Settled(s) =>
    \A i \in Universe[s] : Private(s, i) /\ book[s][i] = 0 => Net(i) = 0

=============================================================================
