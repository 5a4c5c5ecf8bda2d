# okx-trade: a TLA+ model

`src/` is a live trading system in Python: an adapter that connects
NautilusTrader (NT) to the OKX exchange, REST and WebSocket clients, strategies
that trade perpetual swaps in pairs and baskets, and the risk, allocation and
monitoring around them. This directory models its control: what the coroutines,
the exchange, the network and the operator can do to the state, in every order.
TLC checks the models on small instances, TLAPS proves all but one of the invariants they check
for every value of the constants.

All of the live system is one `asyncio` process. Nothing preempts a coroutine;
every `await` of a network answer, a lock or a sleep is a point where the others
run. The hard behaviours are therefore: state read before an await and used
after it; answers, WebSocket frames and timeouts that arrive in any order;
requests that are retried though the first attempt was taken; caches that
outlive what they describe; one of two legs failing; and the restart of the
process, which forgets everything that is not in a file.

Paths below are relative to `src/src/okx_trade/` unless they begin with `src/`.

## 1. Inventory

| Component | State | Operations | Interacts through | What makes it correct |
|---|---|---|---|---|
| Order execution client, `adapter/execution.py` | the submit and cancel coroutines; NT keeps the orders | connect, submit, cancel, modify, order lists, orders / account channel handlers, startup reports | REST trade API, private WebSocket, NT event emitters | one NT order is one OKX order; NT never leads OKX; a certain rejection is true; fills are not lost or booked twice; tasks end; the reports after a start leave nothing out |
| REST transport, `rest/transport.py`, `rest/ratelimit.py` | retry budgets of a call, token buckets per endpoint group | `request`, `acquire`, `cool_down` | every REST API, shared buckets | budgets respected; bounded grants per window; nobody starves |
| WebSocket connection, `ws/connection.py`, `ws/subscription.py` | events, socket, attempt counter, reference-counted registry | start, stop, subscribe, unsubscribe, reconnect, resubscribe | the client's callers, the server | after any fault the server pushes exactly what is held; stop ends |
| WebSocket client, dispatcher, trading: `ws/client.py`, `ws/dispatcher.py`, `ws/trade.py` | connections per endpoint, callbacks, queues, futures by request id | get-or-start, close, dispatch, iterate, send and await an operation | connection, execution and data client | an answer reaches the operation it is about; no future is left behind; an iterator sees the latest frames |
| Data client, instrument provider, `adapter/data.py`, `adapter/instrument_provider.py` | handlers, active subscriptions | load, subscribe, unsubscribe, handlers | WebSocket client, NT | what is held to be active is subscribed and heard; bars are closed candles |
| Account kill switch, `risk/drawdown.py`, `monitor/live.py`, `runtime/live_node.py` | tracker state and opens, refresh clocks | record equity, acknowledge, poll, refresh, restart | equity provider (REST), every strategy's risk pipeline | a breach halts, a halt lasts as promised, the tracker is fed on time |
| Risk pipeline, `risk/base.py`, `integration.py`, `trade_rate.py`, `kelly.py`, `vol_target.py`, `correlation.py`, `regime_*.py` | sliding window, estimators | check_all, apply_risk_manager, feed | strategies before every entry | refusals are final, sizes only shrink, the rate is bounded and reopens |
| Capital allocation, `portfolio/`, `monitor/live.py` | weights, budgets | allocate, refresh | monitor, strategies | budgets are the account's equity, to the cent |
| PnL tracking, `pnl/`, `strategies/pnl_hook.py`, `src/scripts/reconcile_pnl_from_okx.py` | SQLite tables trades, trades_okx, equities | record, reconcile, read round trips | strategies, the nightly job, reports | every bill once; a round trip is one that was closed; one return per day |
| Pair strategy, `strategies/stat_arb_pairs.py`, `_okx_base.py` | `_position`, cooldown stamp, price buffers, coroutines under way | on_bar, warm-up, enter, exit, on_order_rejected | margin service, NT orders | two legs or none; believed position is the held one; cooldown; buffers in order |
| Isolated margin service, `risk/isolated_margin_service.py` | posMode cache, leverage cache | get_pos_mode, ensure_leverage, batch | all strategies share it | a leverage is set before the order that needs it |
| Basket strategies: `funding_cross_section`, `xs_momentum`, `factor_portfolio` | holdings, rebalance stamp, price buffers | warm-up, selection, rebalance coroutine | margin service, risk pipeline | the best legs are chosen; a round ends at its target |
| Carry strategies: `funding_carry`, `basis_arb` | sizes of the two legs | check, enter, exit | as the pair strategy | spot and derivative offset each other; closed before expiry |
| Directional strategies: `liq_reversal`, `ob_imbalance`, `range_breakout`, `funding_skew_momentum`, `ml_fusion` | one position per instrument, cooldowns, a channel task | on_bar, event loop, enter, exit, on_order_rejected | WebSocket client, risk pipeline, NT | flat is flat; no churn; a position with a time limit ends |
| Option volatility selling, `strategies/option_vol_selling.py` | straddle, hedge | check, sell, hedge, close | REST chain, NT | straddle and hedge are opened and closed together; the hedge neutralises |
| Daily report, alert sinks, research, backtest, other scripts, REST wrappers, data classes | files | | | not modelled: formatting, files, offline numerics, pure conversion |

`PROJECT.json` lists each with its sources and status, and under `hazards` every
place where one of the hard behaviours bites, with the properties that cover it.

## 2. The modules

| Module | Models | Abstract specification | Proofs |
|---|---|---|---|
| `OrderLifecycle` | one order between NT, the REST retry loop, OKX and the orders channel | `OrderMirror` | `OrderLifecycle_proofs` |
| `StartupReports` | `_connect`, the account, and the reports that rebuild NT's view after a start | | `Services_proofs` |
| `WSConnection` | one endpoint: run task, callers, registry, send lock, server | | `WSConnection_proofs` |
| `WSClient` | connections on demand, trading operations by request id, the queue of an iterator | | `Services_proofs` |
| `MarketData` | loading instruments, subscription commands, pushes that become NT data | | `Services_proofs` |
| `DrawdownTracker` | the tracker as a record and pure functions | | |
| `KillSwitch` | tracker + monitor loop + process life cycle + entries (extends `DrawdownTracker`) | `CircuitBreaker` | `KillSwitch_proofs` |
| `TokenBucket` | one rate-limit group | | `Services_proofs` |
| `RiskPipeline` | the checks an entry passes, in the order they are assembled | | `Services_proofs` |
| `PnLLedger` | trades, bills, the nightly reconciliation, daily equity | | `Services_proofs` |
| `BudgetAllocation` | the allocators and the budgets in use | | `Signals_proofs` |
| `StatArbPairs`, `MCStatArb` | the pair strategy with the margin service and OKX | | `StatArbPairs_proofs` |
| `IsolatedMargin` | the margin service: posMode and leverage cache, calls under way, the leverage at OKX | `MarginSpec` | `BasketRebalance_proofs` |
| `BasketRebalance`, `MCBasket` | the rebalance coroutines of three basket strategies with orders and positions (extends `IsolatedMargin`) | | `BasketRebalance_proofs` |
| `LegSelection` | how a round chooses its legs | | `Signals_proofs` |
| `PriceHistory` | price buffers that a warm-up and live bars fill together | | `Signals_proofs` |
| `DirectionalTrade` | the position of the five single-leg strategies | | `Signals_proofs` |
| `CarryTrade`, `OptionStraddle` | the strategies with several legs | | `Strategies_proofs` |
| `MCServices`, `MCSignals`, `MCStrategies` | compositions for TLC, see section 3 | | |

### OrderLifecycle

`nt`, `ntFilled` are the order in NT's cache, `task`, `net`, `trans` the
`_submit_order` coroutine inside `Transport.request` with its two retry budgets,
`wire` the attempts OKX has not processed, `reply` the answer of the current
attempt, `book`, `venue`, `vFilled` the order at OKX, `push` the frames on the
private connection, `cancel` the `_cancel_order` coroutine. History, which the properties have to
except: `unclear` (some attempt ended without telling whether OKX took the order), `expired`
(NT's in-flight timer gave the order up) and `lost` (frames went with a dropped connection).

- `Submit`, `SubmitInvalid`: `_submit_order` up to the request (453-468, 386-447).
- `RestOk`, `RestBusinessError`, `RestUnreadable`, `RestRateLimited`, `RestTransient`,
  `RestNoAnswer`: one pass through the `while` loop of `Transport.request`
  with its outcome, down to the event the coroutine emits. An attempt that ended
  without an answer stays in `wire`: OKX may take it later. `RestUnreadable` is a body that is
  not JSON, or a code 0 without data: the order is rejected, and OKX may hold it. `RestOk` with
  an answer that has no `ordId` emits nothing (`task` is then `"silent"`) and leaves the order
  to its live frame.
- `RequestCancel`, `CancelTaken`, `CancelRefused`, `CancelException`: `_cancel_order`.
- `HandleOrderUpdate`: the head of the channel goes through `_handle_order_update`
  and `_emit_fill`, and is dropped when the sanitised client order id is not in
  NT's cache (`Routed`).
- `VenueTake`, `VenueRefuse`, `VenueFill`, `VenueCancel`, `WSDrop`,
  `InFlightExpire` are external: OKX, the network, and NT's in-flight check.

NT's own state machine (`OnAccepted`, `OnFilled`, ...) is external too: events
that are not legal in a status are ignored, as NT logs and drops them.

`OrderMirror` says what a strategy may rely on, with nothing but the order's state at OKX,
what is filled there and what NT has booked: the order enters once, fills up to its quantity
until it is filled or cancelled, and NT books fills that were made, none twice.
`OrderLifecycle` implements it with `order <- venue`, `filled <- vFilled`,
`booked <- ntFilled`.

### WSConnection

`run` is the position of `_run` / `_run_once` in its awaits. `sendq` is the line
for `_send_lock`; its head is the sender that is blocked on the socket. `wire`
holds what the server has not processed, `server` the keys it pushes on this
connection, `refs` is `SubscriptionRegistry._refs`. `Subscribe` and `Unsubscribe`
change the registry and, when the socket is connected, join the line; `SendNext`
is the frame going out or the send raising. `LinkDrop`, `ConnectFail`,
`LoginFail` and `ReadUnexpected` are the faults; the `finally` clause of the read
loop is `ReadFinally`, and the paths it does not cover leave `_ws` and the event
as the code does. `GiveUp` is the literal 5 of `if attempt > 5: raise`.

### DrawdownTracker, KillSwitch, CircuitBreaker

`Record` is `record_equity` line by line; opens of 0 stand for a fresh tracker,
percentages are integers and the comparison is exact. In `KillSwitch`, `monitor`
is where `LiveMonitor.run` is, `asked` its local `now_ms` (read before the await
and remembered after it), `answer` what the equity provider returned. `Tick` is
one poll interval; time cannot pass while the loop is ready to run. `Feed` gives
the strategies their budget and the tracker its snapshot, `Skip` is a refresh
that fed nothing. `CheckEntry` and `SubmitEntry` are the two sides of the await in
`submit_isolated_order`. `Crash` is followed by systemd's restart
(`src/deploy/okx-trade.service`), with a fresh tracker.

`CircuitBreaker` says what those who trade under the switch may rely on, with
nothing but a level, a day and the number of entries that were let through and have not
left: a daily halt stays for its day, a weekly halt until it is acknowledged, only the end
of the process forgets it, and while a halt lasts entries leave but none is let through.
`KillSwitch` implements it with `level <- acct.state`, `day <- Day(acct.lastTs)`,
`entries <- approved`.

### StatArbPairs

`OnBar` spawns a coroutine, at any time and whatever else is under way: every push of a
forming candle of either leg is a bar. `Tasks` bounds how many are under way together, not how
many there are. `loop` names the one that runs: it is interrupted only where it awaits OKX
(`SetLeverageReturns`, `PosModeReturns`), and not where a cache answers
(`Lookup`, `LookupMode`). `Evaluate` is `_evaluate_signal` with the z-score as
input, `ExitBroken` the exit of a pair that is no longer cointegrated.
`StartEntry`, `AfterEnsure`, `Proceed` carry `_enter_pair` and `_exit_pair` from
await to await, `levers` is the leverage cache with the key the code uses (leg and posSide), `Fill`,
`RejectReduce` and `Reject` settle an order at OKX. `cooling` says that the cooldown stamp of the
last exit is not old enough yet; `CooldownEnds` is the passing of that time. `before` holds the orders
that were in flight at the stamp: they settle within the cooldown. `PosMode` and `Isolated` are the
account's and the strategy's setting. History: a coroutine is `old` when it was on its way in while
an exit ended, `crossed` says that an entry and an exit were under way together, `flapped` that two
posMode lookups under way disagreed, `rejected`, `shared` and `exitFailed` are what their names say.

### TokenBucket

`queue` is `asyncio.Lock`: its head holds it. `elapsed` is `now - last_refill`,
negative during a cool-down. A token is `Period` units so that refills are
integers. `age` and `count` count the grants of a window; `NewWindow` may begin one
at any time, so that the bound is about every window.

### IsolatedMargin

`cache` is `_lever_cache`, `posMode` is `_pos_mode`, `lever` what OKX holds per
instrument and side, `call` the set-leverage request each strategy awaits. `Ask`,
`OkxSets`, `Ensured`, `Denied` are one `ensure_leverage` from the cache miss to its
two returns; `Cached` is the hit, which returns without suspending. A retry of the
transport is `OkxSets` once more, a lost answer `Denied` after it. `doubt`
gathers the keys for which the code has no defence: two calls under way at once
(their answers may come in the other order), and a call that failed after OKX had
carried it out. `MarginSpec` is the service under strategies that may ask for
anything at any time.

### BasketRebalance

`turn` names the coroutine that runs, `pc` is where each is: awaiting posMode,
setting the leverage of its legs, submitting its orders. `Owner` is the strategy of a coroutine and
`Family` all coroutines of one strategy. `funding_cross_section` and `factor_portfolio` stamp the hour
before they start a round, and have one coroutine each; `xs_momentum` stamps the day at the end of a
round that completes (`complete`), so until then any bar begins one more (`Begin`), with
deltas against the same position. `overlapped` marks a round beside which another one of its strategy
ran or had orders at OKX. `BeginMomentum` is
`xs_momentum` up to its first await, deltas included, `BeginDiff` phases 1 and 2 of
`_execute_diff` (`funding_cross_section`) or the head of `_rebalance`
(`factor_portfolio`): closes leave at once, what opens waits in `work`.
`ValidateLeg`, `LegValidated` are `batch_ensure_leverage`, `Abort` and `Validated`
its two results. `NextDelta` plans an instrument against the position of that
moment (`PlanDeltaOrders`), `NextOpen` passes a leg through the risk pipeline, which
may shrink it or refuse. `SubmitOrder` and `OrderAnswered` are the two sides of the
await in `submit_isolated_order`. `book` is `_positions`, `held` what OKX holds per
margin mode, instrument and side, `Carried` what it may hold before the first round: an
order with the `td_mode` tag goes to the
isolated position, one without it to the cross position (`td_mode: cross` in
`src/configs/live.yaml`), and a reduce-only order can only take from its own.
The order in which legs are treated is that of the target, thus any.

### The services: StartupReports, WSClient, MarketData, RiskPipeline, PnLLedger

`StartupReports`. `stage` is how far `_connect` has come, `currency` the details of
the account, `venue` the orders at OKX. `EmitAccountState` clips and raises the
balances as `_build_account_balances` does, and sends 0 USDT when there are none.
The three report coroutines (`GenerateOrderStatusReports`, `GenerateFillReports`,
`GeneratePositionStatusReports`) are interleaved; each sends its requests in the
order of the code and goes on after one that failed. `OrderEnds` is OKX: an order
ends at any moment and is pushed to a channel that is active.

`WSClient`. `conn` is what `_connections` holds for an endpoint, seen from its
callers: absent, on its way, up or down (`WSConnection` is the inside). `call` is the
coroutine of each operation, `pending` the futures by request id, `replies` the
frames on their way back. `GiveUpOn` is the timeout or a send that raised, `TryComplete` is
`_on_frame`. `stream`, `frames` are an iterator and its bounded queue.

`MarketData`. `Subscribe`, `Activate`, `Activated`, `ActivateFails` are one
`_subscribe_*` coroutine: the handler first, then the connection, then the frame.
`Unsubscribe` and its failure for `books5`, whose call passes a parameter that
`deactivate` does not take, are the other way. `handlers`, `refs`, `activeSubs` are
the dispatcher's callbacks, the registry's references and `_active_subs`. `Push` is a
candle, a book or a trade, which every registered handler turns into NT data.

`RiskPipeline`. `CheckOrder` is the order in which `build_risk_manager` appends the
checks; `Answer` is the formula of each over one record of `Readings`, which stands for
whatever its estimator has been fed. `CheckAll`, `Noted` are the loop with its early
end and the window of the rate check; `Expired` is the prefix that `Prune` takes off. Times are ages in ticks.

`PnLLedger`. `Exit` records the trade at submission and OKX fills it in 0, 1 or 2
parts, `Reconcile` is a nightly run, or one by hand, which is started at any moment and finds any
part of the bills. `FetchBills` is its windows of a day, of which each returns the newest `PageCap` bills
and drops the others (`Newest`), `UpsertBills` the `INSERT OR IGNORE`. `GetRoundTrips`, `ComputeDailyReturns` are what reports read.

### The strategies: DirectionalTrade, CarryTrade, OptionStraddle

In all of them the position is written when an order is submitted; orders on their
way are a set from which OKX takes any. `mishap` is history: the things the
strategy cannot see and the properties except.

`DirectionalTrade`. `active`, `contracts`, `age` are `_active_direction`,
`_position_contracts` and the bars since `_entry_ts_ms` under the names each
strategy gives them; `Open` is the path from the raw size through the risk manager
to the rounded order, `Close` the reduce-only order in cross mode. Each strategy has
its own bar, trigger and exit (`LiqBar`, `ObBook`, `SkewCheckFunding`, `MlPredict`, ...).
`FeedCrash` is the end of a channel task. `Fill`, `Refuse` and
`ExecutedButRejected` are the outcomes `OrderLifecycle` has for an order.

`CarryTrade`. `task` is where the check is in its awaits: the market, the posMode (`"mode"`),
the leverage that is ensured before an entry (`"lever"`), the one that the helper sets for the derivative
leg of an entry (`"helper"`) or of a close (`"unwind"`). `plan` is the size that waits, `key` the key of the
awaited call. `mode` is the posMode of the service; the entry is told it once (`EntryKey`) and the helper
asks again (`HelperKey`). Coroutines of other strategies that share the service ask too (`OtherAsks`), and
their answers replace the mode when they come (`OtherAnswered`); `replaced` is history and says that one
did while the entry waited for its leverage. `SubmitPair` sends the spot leg and, when the helper
finds its key in the cache, the derivative in the same step; else it awaits `HelperAnswered`. `Exit` sells
the spot leg at once and the derivative after its own lookup (`UnwindAnswered`); the position is
forgotten whether or not the leg was sent.

`OptionStraddle`. `OpenStraddle`, `HedgeToNeutral`, `ManagePosition` and `CloseAll`
are the parts of a check; the delta of one straddle is an input.

### What strategies compute from: PriceHistory, LegSelection, BudgetAllocation

`PriceHistory`. An entry of a buffer is the candle it is of and whether it came as a
bar. `Push` is a bar (of a candle that is still forming, as the data client sends
them), `Fetch` one REST answer, empty answer or exception of a warm-up, `Apply` the refill:
two strategies clear and extend, `factor_portfolio` appends.

`LegSelection`. `CrossSectionRank`, `ApplyInstCountCap`, `FundingLegs`, `FactorLegs` are
the functions of the same names, with Python's slices and rounding. A slice of a sorted list is
written as a set: the instruments with fewer than n others before them (`Front`) or behind
them (`Back`) in the order `Before`. `CutShorts` is the cut of the shorts, which the code turns
before it slices, so that the weakest stay.

`BudgetAllocation`. `EqualShares` and `WeightedShares` work in cents with Decimal's
rounding, `Write` is the monitor's update, which skips shares that are not positive.

### Compositions for TLC

Components that share no state are checked in one run: `MCServices`, `MCSignals`,
`MCStrategies` and `MCStatArb` hold a variable (`part`, `kind` or `setup`) that is fixed in
the initial state and says which component a behaviour is about; the variables of the
others keep their initial values. Nothing is lost by this, as no action of one
component is enabled in a behaviour of another. `BasketRebalance` with
`IsolatedMargin`, and `KillSwitch` with `DrawdownTracker`, are compositions of
components that do interact.

## 3. The runs

Bounds are constants of the modules and appear in a guard each. Deadlock is checked in
`Strategies`, where bars never end; everywhere else a bound, or the legitimate end of an
order, of a round or of a stopped endpoint, stops the model, and `CHECK_DEADLOCK` is off.

| Run | Question | Instance, and why it is enough |
|---|---|---|
| `OrderLifecycle` | Do NT and OKX agree, and do the tasks end? | one order (orders share nothing but the connection), 3 lots so that a fill, a partial fill and a cancel interleave, 2 + 1 retries so that both budgets run out with attempts still on the wire, answers that are lost, unreadable or without an ordId; 75 263 states |
| `WSConnection` | Does the server push what is held, whatever breaks when? | 2 keys and 2 callers (sharing a key, or not), login, 2 faults and one unexpected exception, give-up after 1 so that the endpoint also dies; 269 916 states |
| `KillSwitch` | Is a breach a halt, does it last, is the tracker fed? | clock 0..10 over 4 days and 2 weeks, equities inside, beyond the daily and beyond the weekly limit, a failed refresh, slow answers, one crash; 1 307 136 states |
| `StatArb` | Two legs or none? Is the believed position held? Who may enter in the cooldown? | three coroutines under way together, so that two may pass the gate beside an exit; setup "cross": net account, rejected orders (the configured constants); setups "isolated" and "shared": long/short account with failing lookups, in "shared" also foreign leverage changes and at most two coroutines (instances with constants of their own). z on both sides of entry, exit and stop. With isolated margin a pair is entered only while nothing is held (`MaxHeld`), on cross margin while a leg holds less than 2 units; coroutines that start before the first fill enter on top of each other in either case. Coroutines are symmetric; 2 028 339 states |
| `Basket` | Is the cache true? Do validated legs open, does a round reach its target, does it end? | momentum on two instruments and funding on one of them, with different leverages, so that they race for a key; failing lookups and calls, rejected orders, a short position left by an earlier process; targets -1..1 so that closing, opening and flipping occur; either two rounds of funding beside one of momentum, or two coroutines of momentum (`MCSchedules`); 533 809 states |
| `Signals` | Is the tracked position the held one? Do buffers stay in order, are the best legs chosen, do budgets sum up? | each of five strategies with sizes up to two lots of two units (so that a size is shrunk below a lot), two entries (so that an old order meets a new position), cooldown and time limit of 2 bars; 2 instruments, buffers of 3 candles, 6 candles, 2 attempts; all scores 0..2 of 4 instruments, up to 2 legs a side, caps up to 3; 4 strategies, totals of 2 and 5 cents (which do not divide), weights 0..2; 489 637 states |
| `Strategies` | Are the legs balanced, and closed in time? | lots of 2 units, so that rounding leaves less than a lot; 2 rounds; both margin modes and both account modes; an expiry 2 days off with force-close below 2; the posMode known, asked for by this and by another strategy, or misread; up to 2 straddles and hedges of up to 4; 354 572 states |
| `Services` | Rate limit; risk pipeline; trading answers; streams; startup reports; books | 3 coroutines and 2 tokens per 3 ticks (not divisible, so that waits are rounded), cool-down of a tick, windows of up to 3 ticks; five configurations of checks and readings on both sides of every threshold, 2 trades per 2 ticks; 2 operations; a queue of 2 and 3 frames; 3 channels and 3 handlers; 2 orders of different types; 2 orders, 4 days, nightly runs over 2 days, windows that return 2 bills, so that a day of two orders in two parts hits the cap; 136 106 states |

In words, what they show:

- `OneOrderOrNone`: the POST is re-sent with the same clOrdId, so a late first
  attempt and a retry are one order (`OneVenueOrder`), and (`CertainRejectIsAbsent`) `OrderRejected`
  is false only when an attempt ended without a clear answer (a timeout, a 5xx, the codes 50004 and 51290,
  a body that is not JSON or has no data) or NT's own timer gave up.
  `NtTrailsVenue` and `NoFillLost`: frames and the REST answer may be handled in any
  order. `MirrorSpec` is the refinement: no late attempt revives a finished order, no fill is
  booked twice. `TasksResolve` (`SubmitResolves`, `CancelResolves`): no order stays SUBMITTED or
  PENDING_CANCEL for ever, except when the frame it waits for was lost or is not routed: a cancel always
  waits for one, a submission only after an answer without an ordId.
- `ServerFollowsRegistry`, `RegistryCoversHolders`, and `EndpointRecovers` (`HeldIsPushed`:
  a held key is pushed again after every fault; `StopEnds`: stop() ends the run task
  wherever it is).
- `HaltCoversBreach`: a tracker that is not halted was last fed an equity inside
  both limits. Its first conjunct excepts the state right after an acknowledgement, which
  moves the week's open but not the day's: the next snapshot may halt again at once.
  `FedOnTime` bounds how long it may be blind. `BreakerSpec` is the refinement: with it, what
  reaches OKX during a halt was approved before it.
- `PairStaysHedged`, `CooldownHolds`, `CrossPositionMatchesVenue`, for any interleaving of the
  coroutines that repeated bars spawn. At rest the legs offset each other, unless one of five things
  happened that the comment on the property names; each is a variable of the model and reachable. Within the
  cooldown no entry leaves on cross margin, where nothing is awaited between the gate and the orders;
  with isolated margin one does only from a coroutine that had passed the gate before the exit
  ended. On cross margin, `_position` names the one pair that is held.
- `CacheMatchesOkx`: whatever overlaps and fails, an entry of the cache outside `doubt` is
  what OKX holds, so that a skipped call is a call not needed. `NoStrayLegs`
  (`ValidatedLegsOpen`: once every leg was validated, an opening order is given up for its
  leverage only where another strategy or an overlapping round of the same one trades the instrument,
  or the posMode was misread;
  `ClosesOpenNothing`: a close that misses its leg, see Observations, opens nothing against it).
  `RoundReachesTarget`: the deltas of `xs_momentum` are computed before its awaits and
  split after them; on instruments of its own the account still ends at the target, unless an order was
  rejected or given up, or another round of the strategy overlapped this one.
  `RoundEnds`: no answer and no failure leaves a coroutine behind.
- `BookMatchesVenue` (`FlatMeansFlat`, `NoMoreThanTracked`, `PredictionStartsFlat`): five things
  make a directional strategy's position differ from the account, and nothing else does: a
  close refused or filled short, a close that overtakes its entry, a cross-mode close of an
  isolated position, an executed entry reported as rejected, and a rejection that clears
  the position of another order. `SignalsProceed` (`NoSameSideChurn`, `HoldEnds`, `WarmupEnds`): the
  re-entry gate of `ob_imbalance` holds across aggregated books and bars; a time limit ends a position
  also when the channel task is dead, and a warm-up whose requests fail gives up.
- `BuffersAreTrue` (`SeriesInOrder`, `BarsSurvive`), `LegsAreBest`
  (`ExtremesAreChosen`, `CapIsUsed`, `BothSidesFull`), `BudgetsAreExact` (`SharesSumToTotal`,
  `SharesBarelyNegative`, `BudgetsSumToTotal`): what the signals and the sizes are computed from.
- `AccountsMatchBelief`: at rest the account holds what the strategy believes, unless an order was not
  sent, refused or filled short. For a carry (`CarryStaysNeutral`): with the leverage checked first, the
  helper never withholds the second leg of an entry, although it asks the posMode again, unless a lookup of
  another strategy replaced the mode while the entry waited; sizes that the risk manager shrinks
  keep the legs within a lot of each other. For a straddle (`StraddleMatchesAccount`): the three
  legs are opened, hedged and closed by different checks, and a close takes all of them.
  `ExpiriesAreMet` (`ClosedBeforeExpiry`, `StraddleEnds`): what expires is closed before, whichever fetches
  fail; of a carry the account, too, holds nothing then, unless an order was not sent, refused or filled short.
- `GrantsBounded`: at most a full bucket plus its refill in any window.
- `EntriesAreRationed` (`RateBounded`, `CountedIsAccepted`, `NeverEnlarged`): the
  rate check is the last, so what it counts has passed the others; that the least of the answers is
  taken undoes volatility targets above 100 percent.
- `OperationsAreTrue` (`AnswersAreTrue`, `PendingMatchesWaiters`): a late answer meets
  no future, and none is left behind. `StreamsDeliver` (`QueueIsLatest`, `NoPushUnheard`,
  `ActiveIsSubscribed`).
- `ReportsCoverVenue` (`SnapshotComplete`, `NothingFallsBetween`): live orders are asked for before
  ended ones, so an order that ends between two requests is reported; and the channels are active
  before the first report.
- `ServicesProgress` (`AcquireReturns`: FIFO and the lock held across the sleep rule out
  starvation, even under a stream of 429; `RateReopens`, `SentResolves`, `AccountRegistered`,
  `ReportsEnd`): whoever waits for one of the services is served.
- `BooksAreTrue` (`LedgerComplete`, `RoundTripsAreCloses`, `EquityOncePerDay`): one failed night or a
  run by hand costs no bill and counts none twice. A day beyond the cap loses its oldest bills
  and takes none from the days beside it.

### Runs that end in a violation

Each states what a comment or a document says, and the code does otherwise:

- `FillsReachNt`: a ClientOrderId with hyphens is sent without them and looked up
  without them; every frame of the order is dropped.
- `HedgeNeutral`: "portfolio delta ≈ 0": the net delta that the hedge of
  `option_vol_selling` is computed from contains the hedge, which is then subtracted again; a
  straddle that is hedged again is left with the opposite of its previous hedge.
- `BarsAreConfirmed`: "the last N confirmed bars": every push of a candle that is still
  forming becomes an NT bar.
- `ColumnsAligned`: "aligned across inst via tail-take": `factor_portfolio` rebalances on the
  first bar of an hour, when the other instruments' buffers end an hour earlier.

### Observations

Four more statements of the repository are definitions of the modules that no run
checks, because they do not hold; adding `INVARIANT X` to the configuration shows the
behaviour:

- `NoEntryWhileHalted` (`KillSwitch.cfg`): "halts ALL strategies": an entry that passed the
  check before the halt is submitted after it. (None is approved during it, see `BreakerSpec`.)
- `ExitNeverCreatesResidual` (`StatArb.cfg`): the exit asks for the leverage of the closing
  side in a long/short account; one failed call leaves one leg open.
- `OnePair` (`StatArb.cfg`): several coroutines enter while `_position` is still None.
- `ClosesProceed` (`Basket.cfg` with `Coroutines = {"fxs"}` and its schedules, no faults, no rejections,
  nothing carried): "closes still proceed": the close of an isolated leg
  carries no `td_mode` tag, goes to the empty cross position and is rejected; `_positions`
  has forgotten the leg, which stays open. `funding_skew_momentum` and `ml_fusion` close in
  the same way.

What the exceptions of the properties stand for is behaviour of the code too:

- Pairs (`strategies/stat_arb_pairs.py`, isolated margin, before the leverages are cached). A
  coroutine that awaits OKX between the gate and its orders enters within the cooldown of an exit that ended
  meanwhile. A pair entered twice is closed once, and the second one stays open while `_position` is
  None. An exit that overlaps an entry sells one leg before it is bought, is rejected for it, and
  a single leg remains.
- Momentum (`strategies/xs_momentum.py:508`). Rounds started by several pushes of one daily candle
  compute their deltas from the same position, and each submits them: the account ends at up to
  as many times the target as there were rounds.
- Carries. When two lookups are under way and the later answer is a failure, read as
  `net_mode`, the leverage was ensured for another key than the helper asks for
  (`strategies/_okx_base.py:125`); if OKX refuses that one, the spot leg stands alone and the pair is
  believed to be open (`strategies/funding_carry.py:474`).
- `basis_arb` ignores whether the derivative leg of its exit was sent (`strategies/basis_arb.py:491`): after a
  failed set-leverage, or a refusal, the future is forgotten and runs into its expiry.
- The ledger. A day with more than 20 000 bills loses the oldest, for good (the script prints
  "HIT 20k CAP" and goes on).
- Orders. A 2xx answer whose body cannot be read ends the submission as a rejection, and an ok answer
  without an `ordId` ends it without an event (`adapter/execution.py:496`).

Without a definition of their own:

- Adapter. `OrderAccepted` is emitted a second time when the live frame is handled before
  the REST answer (the comment at `adapter/execution.py:494` expects a guard that exists
  on the other path only; NT ignores the second event). `_build_account_balances` raises the
  total to what is free (`:155`), where its docstring says free is limited to the total. A
  successful modify emits nothing, and a modify whose answer is lost is reported rejected.
  Startup reports ask for one page of 100 rows and cover SWAP and SPOT, for positions SWAP
  only; a failed positions request returns an empty list, which says "flat". `cancel_all`
  and `query_order` do nothing. `unsubscribe_*` calls `deactivate("books5", instId=...)`,
  whose definition in `ws/client.py` takes a key: it raises, the channel stays subscribed, the
  handler stays registered, and a new subscription hands every tick to NT twice.
  `runtime/live_node.py:253` injects `option_ulys` "so that BTC options are loaded at
  startup", but options are not among the default instrument types. Inverse swaps are never
  marked inverse.
- WebSocket. After five ordinary disconnects since the last clean close, the first unexpected
  exception ends the endpoint, though the comment says such exceptions reconnect too
  (`ws/connection.py:169`). An operation "times out after 5 s" (`ws/trade.py:26`), but before its
  frame is sent it waits for the connection without a limit (`:183`). A connection that did
  not come up in time stays in `_connections`. A new iterator has no queue until it is
  first asked for a frame.
- Kill switch. A crash restarts with a fresh tracker and so reopens a weekly halt
  (`risk/drawdown.py:43`, `src/docs/operations.md:135`). The daily reference is the first
  snapshot of the day, not yesterday's close (`:7`, `:74`). `poll_once` raises drawdown alerts only
  from per-strategy trackers that nothing feeds (`monitor/live.py:393`), so the account
  tracker's halt raises none.
- Margin. Two strategies that set one key with different leverages undo each other, and
  answers that arrive in the other order leave the cache beside OKX, which
  `src/docs/superpowers/specs/2026-05-26-isolated-margin-services-design.md:390` takes for
  safe; the second lookup of phase 4 is then no longer the "NO-OP" of
  `strategies/funding_cross_section.py:680`.
- Strategies. `xs_momentum` diffs against the net position of the whole account, other
  strategies included, and an aborted round is tried again on the next daily bar, not in an
  hour (`strategies/xs_momentum.py:588`). The first rebalance of `factor_portfolio` is spent
  when fewer than 24 bars are there, as the stamp is set anyway. `on_order_rejected` clears the position
  for any order of the strategy, also for one that was closed long ago. A close that
  overtakes its entry is rejected as reduce-only. The channel tasks of `liq_reversal` and
  `ob_imbalance` are not started again after an exception. `basis_arb` may enter a future
  that it will close at the next check. The closing branch of `ml_fusion`'s REBALANCE never fires, as
  the horizon has closed the leg before.
- Legs. With few scores the two sides overlap, and the shorts win; `ranked[-bot_n:]` with
  `bot_n = 0` is everything; an instrument without data gets the neutral score 0 in
  `synthesize_score` and may be chosen.
- Buffers. `factor_portfolio` appends history behind live bars ("merge cleanly", `:359`),
  and history is stamped with the opening of a candle, a bar with its close. With every push a
  bar, windows of `funding_cross_section` counted in bars are flushed within seconds.
- Risk and capital. `feed_risk_handles` has no caller in live code, so the Kelly and correlation
  checks never see data; a volatility target above 100 percent has no effect in `check_all`. A full
  bucket and its refill together exceed the nominal limit within one period
  (`rest/ratelimit.py:3`), and `cool_down` waits in line behind queued acquirers (`:72`). The
  last share may be slightly negative, and a share that is not positive leaves its strategy
  the budget it had. All strategies record the same account equity, so their
  correlations are 1 and the penalties equal.
- PnL. The nightly job numbers strategies over the whole YAML, disabled ones included, where NT
  counts enabled ones only; a bill whose mapping has become None keeps its old strategy.

### Fairness

`OrderLifecycle`: the submit and the cancel task and the frame handler are weakly
fair, because `httpx` has a timeout on every call and the event loop runs what is
ready; OKX, the network and NT's timer owe nothing. `WSConnection`: the run task
(every wait in it has a timeout), the sender at the head of the lock, and a
reachable server are weakly fair; callers and faults are not, and faults are
finite. `BasketRebalance`: a coroutine resumes (its answer comes, or the transport gives
up), OKX carries out a call it was sent, and a market order is settled. `TokenBucket`: time
passes and the coroutine whose turn it is runs; no request and no answer is owed, so the
429s may go on for ever. `RiskPipeline`: time passes and the strategy asks. `WSClient`: the
waits that have a timeout end and a coroutine whose future is done goes on; the connection
owes nothing. `StartupReports`: a request is answered or fails, the snapshot request
too, and OKX pushes the account to a channel that was activated. `DirectionalTrade`:
bars keep coming, nothing else. `PriceHistory`: the warm-up's requests end. `CarryTrade` and
`OptionStraddle`: bars keep coming, calls and market orders are answered, and a fetch that is
tried for ever succeeds at some time (strong fairness of the check), which is what a close
before expiry rests on. The other components need none.

## 4. Proofs

Each proof module extends its component's, `BasketRebalance_proofs` the margin service with
it, `Strategies_proofs` the composition of the carries and the straddle seller, `Services_proofs`
that of the services, and `Signals_proofs` that of the directional strategies and of what signals and
sizes are computed from. The
assumptions are those of the component (`ConstantsAssumption`, `MarginAssumption`, `RiskAssumption`, ...), which
say no more than that quantities are naturals, budgets naturals, leverages and lots positive, and, for the kill switch, that an equity request is answered within
the allocation interval; for the baskets, that the account is in long/short mode; for a
connection, that its callers are finitely many and the run task is none of them.

| Theorem | Says | Argument |
|---|---|---|
| `OrderLifecycle_proofs!TypeCorrect` | `[]TypeOK`, for all budgets and quantities | inductive as it stands, split into NT's, the task's and the venue's variables |
| `OrderLifecycle_proofs!NtNeverLeads` | `[]NtTrailsVenue` | not inductive: the fills of NT and those in the channel must add up. The invariant says of every frame in `push` that its cumulative quantity is covered by the venue, and of every suffix that what NT has booked plus what it still holds does not exceed it; lemmas on Append and Tail carry it through the channel |
| `OrderLifecycle_proofs!RejectionIsCertain` | `[]CertainRejectIsAbsent`, for both retry budgets | not inductive: `Traced` says that, as long as every attempt had a clear answer, the attempt the coroutine waits on is the only one under way, that a refusal finds no order in the book, and that an order not yet submitted has left no trace anywhere |
| `OrderLifecycle_proofs!OneOrNone` | `[]OneOrderOrNone` | `RejectionIsCertain`, and the lemma `IdempotentSubmit`: every entry of `book` has the one name `ClOrdId(o, 0)` |
| `OrderLifecycle_proofs!ImplementsMirror` | `Spec => MirrorSpec` | an attempt that OKX takes finds an empty book, as all attempts have one name, and then an order that is absent (`OneName`, `Trailing`); a frame adds what it fills, which `NtTrailsVenue` keeps within OKX's total; the rest stutters (`MirrorStep`) |
| `OrderLifecycle_proofs!FillsAreBooked` | `[]NoFillLost` | not inductive: the frames in the channel are a `Chain` from what NT has booked to what OKX has filled, each beginning where the one before ended, and frames that are not about a fill carry none; `ChainAppend` and `ChainTail` carry it through the channel |
| `WSConnection_proofs!TypeCorrect` | `[]TypeOK`, for every finite set of callers | the bound on the references needs `RefsAreCounts`: no more than there are callers |
| `WSConnection_proofs!RegistryCounts` | `[]RegistryCoversHolders` | `RefsAreCounts`: the references of a key are the callers inside, holding it or gone with an exception (`Counted`); cardinalities of sets that change by one member |
| `WSConnection_proofs!ServerFollows` | `[]ServerFollowsRegistry` | `WSInv`: with `InLine` (a frame in the line of the send lock is the one its sender waits for, once) and `Session` (what the server will push once all frames on the line are processed, where the last mention of a key decides, is registered; and after the resubscription conversely) |
| `KillSwitch_proofs!TypeCorrect` | `[]TypeOK` | a lemma per tracker function |
| `KillSwitch_proofs!HaltIsSound` | `[]HaltCoversBreach`, for every threshold and calendar | no equity breaches its own open, and `Record` ends with the checks |
| `KillSwitch_proofs!ImplementsBreaker` | `Spec => BreakerSpec` | `Feed` is a `Snapshot`, `CheckEntry` is `Admit`, `SubmitEntry` and `AbandonEntry` are `Leave`, the process end and the acknowledgement map to their namesakes, the rest stutters (`BreakerSteps`) |
| `KillSwitch_proofs!HaltAdmitsNothing` | during a halt `approved` never grows, an action property | from the same case split |
| `KillSwitch_proofs!FedInTime` | `[]FedOnTime` | not inductive: `Timely` relates the clock, `asked`, `lastAlloc`, `since` and the number of skips at each position of the loop |
| `Services_proofs!ServicesTypeCorrect` | `[]ServicesTypeOK` | `ServicesInv`, one conjunct for each service; a step of one leaves the others at rest (`BucketRests`, ...). The bucket needs the bound on a Retry-After that is waiting, the balances that a raised total covers what is free (`AnnouncedFits`) |
| `Services_proofs!RateBound` | `[]GrantsBounded` | `Credit`: what was granted plus what could be granted now never exceeds a full bucket and the refill of the window |
| `Services_proofs!EntriesRationed` | `[]EntriesAreRationed`, for every configuration and reading | `RiskInv`: the entries are `Aging` (oldest first), and those that have not expired are exactly those that were accepted. It does not matter when the expired ones are taken off (`PruneOlder`); the rate check is asked when nobody else refuses (`RateIsLast`); the answers are naturals and the least of them exists (`LeastIsLeast`) |
| `Services_proofs!OperationsTrue` | `[]OperationsAreTrue`, for any number of operations | `OpsInv`: an answer on its way, or in a future, is about a request that was sent and says what OKX did with it (`Told`); a request that is not on the wire has not been carried out |
| `Services_proofs!StreamsAreDelivered` | `[]StreamsDeliver`, for every queue and number of handlers | `StreamInv` gives each frame of the queue by its position; `DataInv`: while an activation is awaited, a handler is registered that holds no reference yet |
| `Services_proofs!VenueIsReported` | `[]ReportsCoverVenue` | `StartupInv`: once the live orders of a type were asked for, an order is in the reports or no longer live; once the ended ones were asked for as well, it is in the reports |
| `Services_proofs!BooksTrue` | `[]BooksAreTrue`, for every number of days, bills and pages | `PnLInv`: a bill that fewer newer ones of its day than the cap precede is in what a night fetches, and one the cap buries stays buried; a day's snapshots are counted by the processes that wrote them |
| `BasketRebalance_proofs!CacheCoherent` | `MarginSpec => []CacheMatchesOkx` | not inductive: `OneCall` adds that a key outside `doubt` has at most one call under way, and that OKX still holds what an applied call has set |
| `BasketRebalance_proofs!TypeCorrect` | `[]TypeOK`, for all strategies, universes, quantities and rounds | `BasketInv`: nothing is wanted outside the universe, jobs keep the bound, a call is outstanding only where the coroutine awaits it |
| `BasketRebalance_proofs!UsesService` | `Spec => MarginSpec` | every step of the coroutines is an operation of the service on a key and a leverage of the strategy, or leaves it alone |
| `BasketRebalance_proofs!CacheCoherentInUse` | `Spec => []CacheMatchesOkx` | from the two above |
| `BasketRebalance_proofs!LegsStayOpen` | `[]ValidatedLegsOpen`, for all strategies, universes and leverages | `LegsInv`: the cache never names a key that OKX refuses (`Refused`), a history that is not in `doubt` has no failed lookup (`HistoryOK`), a call belongs to the leg or job at hand (`CallOwn`), and a leg of one's own that was validated stays in the cache until its orders are sent (`Vetted`, `OrderWaits`), since the other strategies touch their own keys only (`OthersKeep`) and a round that nobody overlapped is the only one of its strategy that is not at rest (`Sole`) |
| `BasketRebalance_proofs!NoLegIsStray` | `[]NoStrayLegs` | `LegsStayOpen`, and `NothingCross`: an order that goes to the cross position reduces, and one that reduces an empty position moves nothing |
| `BasketRebalance_proofs!TargetIsReached` | `[]RoundReachesTarget`, for targets and positions of any size | `TargetInv`: between the deltas and the plan nothing moves on an instrument of one's own, a plan adds up to its delta (`PlanSums`), an order moves what its job says (`OrderEffect`, `FillMoves`), so that held + under way + planned = target (`OnTheWay`), as long as the round is the only one of its strategy (`Sole`) |
| `StatArbPairs_proofs!TypeCorrect` | `[]TypeOK` | `Typed` adds that the posMode known is the account's or the fallback; a lemma for the part that every coroutine shares (`Proceed`) |
| `StatArbPairs_proofs!CooldownIsKept` | `NoEntryInCooldown`, an action property, for any number of coroutines and every account | `Late`: within the cooldown every coroutine on its way in is one that an exit overtook; and a new opening order is that of a coroutine on its way in (`WhoOpens`) |
| `StatArbPairs_proofs!CrossCooldownIsKept` | without margin isolation no entry order at all within the cooldown | `Unsuspended`: without isolation no await suspends, so a coroutine on its way holds the loop; `Undisturbed`: hence none is on its way in when an exit ends |
| `StatArbPairs_proofs!EntriesAreWhole` | `[]EntryIsWhole`: the two orders of an entry leave together and neither is skipped, unless another strategy changes a leverage or two lookups disagree on the posMode | `Vetted`: the check of the legs passes under the account's posMode only, and what it found set stays in the cache (`LegsVetted`), however many coroutines share it |
| `StatArbPairs_proofs!PositionIsTrue` | `[]PositionMatchesVenue`, without margin isolation, for any number of coroutines | `CrossInv`: unless an order was rejected, the strategy goes round in five phases (`Round`): nothing held, a pair being opened, one that is held, one being closed, one whose orders are settling |
| `StatArbPairs_proofs!CrossPositionIsTrue` | `MCSpec => []CrossPositionMatchesVenue`, without margin isolation | the same invariant wherever `setup` is "cross", which no step changes |
| `Strategies_proofs!TypeCorrect` | `[]StrategiesTypeOK` | from the two invariants below; an entry that waits for its leverage is still within the bound on the rounds (`CarryRest`) |
| `Strategies_proofs!AccountHoldsBelief` | `[]AccountsMatchBelief`, for every lot, size and threshold | two invariants, one for each kind of strategy. `CarryInv`: at most one order of each leg is on its way, and with it the account holds the believed size (`Coming`); the derivative is the spot size rounded down to the lot (`FloorBounds`); while no lookup replaces the posMode, the key an entry waits for (`EntryKey`) is the one the helper looks up (`Waits`), and it has just been cached, so the helper never waits. `OptionInv`: the same for the three legs of the straddle (`Arrives`); the order of a hedge is the difference to the position that is written (`HedgeFrom`) |
| `Signals_proofs!SignalsTypeCorrect` | `[]SignalsTypeOK`, for the five strategies and the buffers | `SignalsInv`, the invariant of the component a behaviour is about, and the others at rest |
| `Signals_proofs!BookIsTrue` | `[]BookMatchesVenue`, for every lot, size and number of entries | `TradeInv`: not inductive, since the orders of several positions overlap. `Balanced` counts, per direction, the units that a tracked position or a close under way will take back (`Owed`), less those that an entry has not brought (`Due`), and what the account holds is never more. Units are pairs of a position and a number, so that a fill, a refusal or a close moves a block of them (`BlockSize`, `GrowsBy`, `LosesBy`) |
| `Signals_proofs!NoChurn` | `NoSameSideChurn`, an action property | `Gate`: a side that was left is remembered until the book has turned |
| `Signals_proofs!LegsChosenBest` | `[]LegsAreBest`, for every number of instruments, all scores, sides and caps | `ChoiceInv`: what was picked are the legs of its strategy. The ranks of a strict order are different (`FirstAndLastDiffer`), so a slice of n has n members, or all (`FirstCount`), and nothing outside it is before one of them (`FrontFacts`, `BackFacts`); the cap is divided within its bounds (`RatioWithin`) and what is left over is used (`CapDivides`) |
| `Signals_proofs!EquityIsDivided` | `[]BudgetsAreExact`, for every number of strategies, equity and weights | `BudgetInv`: what was granted is one of the allocations. `SumIs` turns the recursive sum into its steps; that two functions which agree have one sum, and that a rounded share misses its part by half a cent at most (`RoundedSum`), are shown for the least number of strategies for which they could fail |
| `Signals_proofs!WarmupLosesNoBar` | `[]BuffersAreTrue`, for every buffer length and number of candles | `Good`: in a buffer candles do not go back (`InOrder`) and after a bar come bars of all later candles up to the latest one pushed (`Follows`), so that what a full buffer pushes out is older than what it keeps; every bar is in the buffer while it is short (`Kept`), and what came after the answer was read is in `missed` (`Waiting`). A lemma per operation (`PushGood`, `FetchGood`, `RefillGood`, `ExtendGood`, ...) |

`CooldownIsKept` and `CrossCooldownIsKept` are the two sides of the action property `CooldownHolds`
that the run `StatArb` checks. `EntryIsWhole` is stated in the proof module; it is the half of
`PairStaysHedged` that is about entries.
`PositionIsTrue` covers both account modes; `CrossPositionIsTrue` says the same of the
composition of the accounts that the run checks, whichever values the constants have.

The strengthenings were tried as invariants of the runs before they were proved, as far as TLC can
evaluate them. That they say something about the code was tried on the models: with the marker `failed` of a validation
ignored, or with a flip planned as a whole reopening, the proofs of `LegsStayOpen` and of
`TargetIsReached` fail at the step in question.

Two forms of argument stand in for the induction over data that the provers do not have.
The least member of a set of naturals is obtained from the library's theorem that the finite subsets
of a set are well-founded under inclusion, applied to the intervals 0..n (`HasLeast`, in
`Services_proofs` and `Signals_proofs`); from it
come the least of the checks' answers, the first entry of a window that has not expired
(`PrefixExpires`) and, as the least counterexample, what is true of every partial sum of shares.
And sums of bills, slices of a ranking and units of a position are cardinalities of sets.

Proved are all invariants of the passing runs but `PairStaysHedged`, the action properties
`NoEntryInCooldown` and `NoSameSideChurn`, and the refinements of `OrderMirror`, `CircuitBreaker` and
`MarginSpec`. Only model-checked: `PairStaysHedged`, for which the exits of several coroutines would have to
be counted against the entries of others; the
liveness properties (`TasksResolve`, `EndpointRecovers`, `RoundEnds`, `ServicesProgress`,
`ExpiriesAreMet`, and of `SignalsProceed` all but `NoSameSideChurn`), since fairness and ENABLED are
outside the prover's reach; and that the definitions of the violating runs fail.

## 5. What the models leave out

- Payloads, prices, signatures, logging, layout. Quantities are lots or units, z-scores are
  doubled integers, percentages and cents are integers; floating-point rounding is not modelled.
- `OrderLifecycle`: modify and order lists, which NT's strategies here do not use.
- `StartupReports`: one page of every request; a push is taken to reach NT, where a push between a
  report and the moment NT has filled its cache would not be routed
  (`adapter/execution.py:1067`).
- `WSConnection`: the heartbeat task (a missing pong shows as `LinkDrop`). `WSClient`: one of
  the three endpoints, which share no state.
- `KillSwitch`: ISO week numbers (weeks are blocks of days), the other alerts of
  `poll_once`, the assembly of the node.
- `RiskPipeline`: the estimators (EWMA volatility, trade statistics, correlations, the HMM and
  the volatility filter) are any reading; a strategy's own fallback when the pipeline
  is absent.
- `PnLLedger`: Sharpe ratios and drawdowns; the mapping of orders to strategies.
- `StatArbPairs`: sizing and cointegration; a market order that is in flight when an exit ends settles
  within the cooldown. In the run, three coroutines are under way together (two in "shared"), each with its
  orders; the proofs have no such bound.
- `BasketRebalance`: live trading with isolated margin in a long/short account only (in
  backtests and on cross margin nothing is awaited); signals and sizes are any target;
  `factor_portfolio` asks for posMode after its first leg has passed the risk pipeline,
  the model before; rounds of `funding_cross_section` and of `factor_portfolio`, which stamp the hour before
  they start one, do not overlap, and their orders have settled before the next; a momentum round of the next
  day finds the orders of the day before settled; an attempt of set-leverage does not reach
  OKX after the transport has given up.
- `DirectionalTrade`, `CarryTrade`, `OptionStraddle`: signals, prices and Greeks are inputs; checks
  that are half an hour apart do not overlap. One instrument or pair each; the strategies
  do not share an account position here.
- `PriceHistory`: the buffers of the strategies that have no warm-up of this form.
  `LegSelection`: how scores come about.
- Not modelled: report formatting and alert files; the offline research and backtest code,
  which is single-threaded and numerical; scripts other than the reconciliation; parsing of
  fields and construction of clients, which are pure; REST wrappers of one line.

## 6. Plan

Done: all modules of section 2, and the proofs of section 4. Of the invariants `PairStaysHedged` is left
to prove. What could be added next is the code that section 5 leaves out: modify and order lists, and several strategies
of one kind on one instrument.
