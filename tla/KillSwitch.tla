------------------------------ MODULE KillSwitch ------------------------------
(***************************************************************************)
(* The account kill switch as the live process runs it: LiveMonitor.run    *)
(* (monitor/live.py) polls, and every alloc_interval_s asks OKX for the    *)
(* account's totalEq and feeds the single AccountDrawdownTracker; the same *)
(* loop awaits the refresh of the regime detector.  Every strategy's risk  *)
(* pipeline reads the tracker before an entry, and the entry goes out      *)
(* after another await (set-leverage).  systemd restarts a process that    *)
(* dies, with fresh trackers.                                              *)
(*                                                                         *)
(* One tick of the clock is one poll interval.  asyncio is prompt: time    *)
(* passes only while the monitor sleeps or waits for OKX.                  *)
(***************************************************************************)
EXTENDS DrawdownTracker

CONSTANTS
  Strategies,
  Equities,       \* values totalEq may take
  AllocInterval,  \* alloc_interval_s, in ticks
  MaxAwait,       \* longest time get_balance may take, in ticks
  RegimeInterval, \* regime_refresh_interval_s, in ticks
  MaxRegime,      \* longest time the regime refresh may take, in ticks
  MaxSkips,       \* refreshes that may fail in a row
  MaxInFlight,    \* entry coroutines a strategy may have under way
  MaxTime,        \* bound on the clock
  MaxCrashes      \* bound on process ends

ASSUME ConstantsAssumption ==
  /\ Equities \subseteq Nat \ {0}
  /\ AllocInterval \in Nat
  /\ MaxAwait \in Nat
  /\ MaxAwait < AllocInterval
  /\ RegimeInterval \in Nat
  /\ MaxRegime \in Nat
  /\ MaxSkips \in Nat
  /\ MaxInFlight \in Nat
  /\ MaxTime \in Nat
  /\ MaxCrashes \in Nat

VARIABLES
  now,        \* wall clock
  equity,     \* totalEq at OKX
  acct,       \* the AccountDrawdownTracker
  monitor,    \* where LiveMonitor.run is
  asked,      \* its local now_ms: the clock when this iteration looked
  booting,    \* run() has not reached its loop yet
  answer,     \* what equity_provider returns to it, None for a skip
  lastAlloc,  \* _last_alloc_ms
  lastRegime, \* _last_regime_ms
  since,      \* the clock when the regime refresh was started
  skips,      \* refreshes since the last snapshot that fed nothing
  budget,     \* _account_total_equity_usdt of the strategies
  approved,   \* per strategy, entries between the risk check and submit
  late,       \* some entry was submitted while the tracker was halted
  crashes     \* process ends so far

regimeVars   == <<lastRegime, since>>
monitorVars  == <<monitor, asked, booting, answer, lastAlloc, skips, regimeVars>>
strategyVars == <<approved, late>>
vars == <<now, equity, acct, monitor, asked, booting, answer, lastAlloc, skips,
          lastRegime, since, budget, approved, late, crashes>>

None == 0

Awaiting == {"asking", "answered"}

Init ==
  /\ now \in 0..MaxTime
  /\ equity \in Equities
  /\ acct = Fresh
  /\ monitor = "off"
  /\ asked = 0
  /\ booting = FALSE
  /\ answer = None
  /\ lastAlloc = 0
  /\ lastRegime = 0
  /\ since = 0
  /\ skips = 0
  /\ budget = None
  /\ approved = [s \in Strategies |-> 0]
  /\ late = FALSE
  /\ crashes = 0

-----------------------------------------------------------------------------
(* The environment: time and the market *)

\* The loop's wait_for times out and run() goes round again.
Tick ==
  /\ now < MaxTime
  /\ monitor # "wake"
  /\ monitor \in Awaiting => now < asked + MaxAwait
  /\ monitor = "regime" => now < since + MaxRegime
  /\ now' = now + 1
  /\ monitor' = IF monitor = "sleep" THEN "wake" ELSE monitor
  /\ UNCHANGED <<equity, acct, asked, booting, answer, lastAlloc, skips,
                 regimeVars, budget, strategyVars, crashes>>

MarketMoves ==
  /\ equity' \in Equities \ {equity}
  /\ UNCHANGED <<now, acct, monitorVars, budget, strategyVars, crashes>>

-----------------------------------------------------------------------------
(* LiveMonitor.run *)

\* The process starts and refreshes before the loop.
Start ==
  /\ monitor = "off"
  /\ monitor' = "asking"
  /\ asked' = now
  /\ booting' = TRUE
  /\ UNCHANGED <<now, equity, acct, answer, lastAlloc, skips, regimeVars, budget,
                 strategyVars, crashes>>

\* Mutant: strictly more than the interval.
DueLate == now - lastAlloc > AllocInterval

Due == now - lastAlloc >= AllocInterval

\* The rest of the iteration, after the allocation refresh or without one:
\* the regime detector is refreshed at startup and then when it is due by the
\* clock the iteration looked at.
RegimeOrSleep ==
  IF booting \/ asked' - lastRegime >= RegimeInterval
  THEN monitor' = "regime" /\ since' = now
  ELSE monitor' = "sleep" /\ UNCHANGED since

\* poll_once, then the refresh when it is due.
Poll ==
  /\ monitor = "wake"
  /\ asked' = now
  /\ IF Due
     THEN monitor' = "asking" /\ UNCHANGED since
     ELSE RegimeOrSleep
  /\ UNCHANGED <<now, equity, acct, booting, answer, lastAlloc, lastRegime, skips,
                 budget, strategyVars, crashes>>

\* OKX answers with the equity of this moment, or the provider returns None
\* for an error or an equity that is not positive.
Answer ==
  /\ monitor = "asking"
  /\ answer' \in {equity, None}
  /\ monitor' = "answered"
  /\ UNCHANGED <<now, equity, acct, asked, booting, lastAlloc, skips, regimeVars,
                 budget, strategyVars, crashes>>

\* The refresh returned, whatever it did: in the loop the clock read before
\* the await is remembered, at startup the one read after it.
Refreshed ==
  /\ lastAlloc' = IF booting THEN now ELSE asked
  /\ answer' = None
  /\ UNCHANGED <<asked, booting, lastRegime>>
  /\ RegimeOrSleep

\* None, or allocate() raised: nothing is fed.
Skip ==
  /\ monitor = "answered"
  /\ skips < MaxSkips
  /\ skips' = skips + 1
  /\ Refreshed
  /\ UNCHANGED <<now, equity, acct, budget, strategyVars, crashes>>

\* Mutant: None is not filtered out.
FeedAnything ==
  /\ monitor = "answered"
  /\ budget' = answer
  /\ acct' = Record(acct, now, answer)
  /\ skips' = 0
  /\ Refreshed
  /\ UNCHANGED <<now, equity, strategyVars, crashes>>

\* Every strategy gets the new total and the tracker is fed with the clock
\* read after the await.
Feed ==
  /\ monitor = "answered"
  /\ answer # None
  /\ budget' = answer
  /\ acct' = Record(acct, now, answer)
  /\ skips' = 0
  /\ Refreshed
  /\ UNCHANGED <<now, equity, strategyVars, crashes>>

\* The regime refresh returned (it catches its own errors).
RegimeRefreshed ==
  /\ monitor = "regime"
  /\ monitor' = "sleep"
  /\ lastRegime' = IF booting THEN now ELSE asked
  /\ booting' = FALSE
  /\ UNCHANGED <<now, equity, acct, asked, answer, lastAlloc, skips, since, budget,
                 strategyVars, crashes>>

-----------------------------------------------------------------------------
(* Strategies *)

\* Mutant: AccountDrawdownCheck is not in the pipeline.
CheckEntryUngated(s) ==
  /\ monitor # "off"
  /\ approved[s] < MaxInFlight
  /\ approved' = [approved EXCEPT ![s] = @ + 1]
  /\ UNCHANGED <<now, equity, acct, monitorVars, budget, late, crashes>>

\* apply_risk_manager with AccountDrawdownCheck in front: approved entries
\* go on to await ensure_leverage.
CheckEntry(s) ==
  /\ monitor # "off"
  /\ ~Halted(acct)
  /\ approved[s] < MaxInFlight
  /\ approved' = [approved EXCEPT ![s] = @ + 1]
  /\ UNCHANGED <<now, equity, acct, monitorVars, budget, late, crashes>>

\* The leverage is set and the order is submitted.
SubmitEntry(s) ==
  /\ approved[s] > 0
  /\ approved' = [approved EXCEPT ![s] = @ - 1]
  /\ late' = (late \/ Halted(acct))
  /\ UNCHANGED <<now, equity, acct, monitorVars, budget, crashes>>

\* ensure_leverage failed: the leg is skipped.
AbandonEntry(s) ==
  /\ approved[s] > 0
  /\ approved' = [approved EXCEPT ![s] = @ - 1]
  /\ UNCHANGED <<now, equity, acct, monitorVars, budget, late, crashes>>

-----------------------------------------------------------------------------
(* Operator and process *)

Acknowledge ==
  /\ acct.state = "weekly"
  /\ acct' = Acknowledged(acct)
  /\ UNCHANGED <<now, equity, monitorVars, budget, strategyVars, crashes>>

ProcessEnds ==
  /\ monitor # "off"
  /\ acct' = Fresh
  /\ monitor' = "off"
  /\ asked' = 0
  /\ booting' = FALSE
  /\ answer' = None
  /\ lastAlloc' = 0
  /\ lastRegime' = 0
  /\ since' = 0
  /\ skips' = 0
  /\ budget' = None
  /\ approved' = [s \in Strategies |-> 0]
  /\ UNCHANGED <<now, equity, late>>

\* systemd: Restart=on-failure.
Crash ==
  /\ crashes < MaxCrashes
  /\ crashes' = crashes + 1
  /\ ProcessEnds

OperatorStop ==
  /\ ProcessEnds
  /\ UNCHANGED crashes

-----------------------------------------------------------------------------
Next ==
  \/ Tick
  \/ MarketMoves
  \/ Start
  \/ Poll
  \/ Answer
  \/ Skip
  \/ Feed
  \/ RegimeRefreshed
  \/ \E s \in Strategies : CheckEntry(s) \/ SubmitEntry(s) \/ AbandonEntry(s)
  \/ Acknowledge
  \/ Crash
  \/ OperatorStop

Spec == Init /\ [][Next]_vars

-----------------------------------------------------------------------------
(* Properties *)

Trackers == [state : Levels, dayOpen : Equities, weekOpen : Equities,
             lastTs : 0..MaxTime, cur : Equities]

\* A tracker is either fresh or fully initialised with positive equities.
TypeOK ==
  /\ now \in 0..MaxTime
  /\ equity \in Equities
  /\ acct \in Trackers \union {Fresh}
  /\ monitor \in {"off", "sleep", "wake", "regime"} \union Awaiting
  /\ asked \in 0..MaxTime
  /\ booting \in BOOLEAN
  /\ answer \in Equities \union {None}
  /\ lastAlloc \in 0..MaxTime
  /\ lastRegime \in 0..MaxTime
  /\ since \in 0..MaxTime
  /\ skips \in 0..MaxSkips
  /\ budget \in Equities \union {None}
  /\ approved \in [Strategies -> 0..MaxInFlight]
  /\ late \in BOOLEAN
  /\ crashes \in 0..MaxCrashes

\* The tracker never understates what it was last fed: without a halt the
\* last equity is inside both limits, and a daily halt never hides a weekly
\* breach, across day and week changes, restarts and acknowledgements.  The
\* one exception is the code's own: an acknowledgement moves the week's open
\* and leaves the day's open where it was.
HaltCoversBreach ==
  /\ acct.state = "normal" /\ acct.dayOpen # 0 /\ acct.weekOpen # acct.cur
       => ~Breached(DailyPct, acct.dayOpen, acct.cur)
  /\ acct.state # "weekly" /\ acct.dayOpen # 0
       => ~Breached(WeeklyPct, acct.weekOpen, acct.cur)

\* The tracker is never blind for longer than the failed refreshes account
\* for: one interval each and what a regime refresh may add to it, and the
\* time OKX may take for the last one.
FedOnTime ==
  acct # Fresh =>
    now - acct.lastTs <= (skips + 1) * (AllocInterval + MaxRegime) + MaxAwait

\* The kill switch implements the circuit breaker: no sequence of refreshes,
\* failures, midnights, acknowledgements and restarts reopens it otherwise, and
\* what reaches OKX during a halt passed the risk check before it.
Breaker == INSTANCE CircuitBreaker
             WITH level <- acct.state, day <- Day(acct.lastTs), entries <- approved
BreakerSpec == Breaker!Spec

\* drawdown.py: a halt "refuses all new orders".  The code does not keep this
\* (an entry approved before the halt is submitted after it); no run checks it,
\* the README shows the behaviour under Observations.  What it does keep is
\* Breaker!Admit: nothing is approved during a halt.
NoEntryWhileHalted == ~late

=============================================================================
