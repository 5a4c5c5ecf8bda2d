---------------------------- MODULE RiskPipeline ----------------------------
(***************************************************************************)
(* The checks an entry passes before it is sent (risk/base.py), assembled  *)
(* from the configuration of the strategy (risk/integration.py).  A check  *)
(* answers with a size; size 0 is a refusal.  Percentages are integers.    *)
(*                                                                         *)
(* What the estimators have been fed is an input of every decision: one    *)
(* record of readings, which feeding may change between any two of them.   *)
(***************************************************************************)
EXTENDS Integers, Sequences

CONSTANTS Sizes,        \* sizes strategies ask for
          MaxTrades,    \* trade_rate_max_trades
          Window,       \* trade_rate_window_sec, in ticks
          TargetVol, MaxScale, MinScale,  \* vol_target, percent
          Vols,         \* realised volatilities, percent
          Fraction, MaxFraction,          \* kelly, percent
          WinRates, Rewards,              \* win rates and payoffs, percent
          CorrThreshold, HighCorrScale, Corrs,   \* correlation, percent
          Ranks,        \* of the volatility: "none", "low", "mid", "high"
          Kinds,        \* regime_strategy_kind
          Configs       \* sets of checks a configuration turns on

VARIABLES
  part,        \* which service runs; fixed in Init
  enabled,     \* checks the configuration turns on; fixed in Init
  halted,      \* drawdown trackers in breach: "account", "strategy"
  entries,     \* TradeRateCheck._entries, as ages
  accepted,    \* history: ages of the entries approved within the window
  verdict      \* history: latest decision, what was asked and the answer

rvars == <<part, enabled, halted, entries, accepted, verdict>>

\* Mutant: the rate check counts before the others had their say.
RateFirst == <<"rate", "account", "vol", "kelly", "drawdown", "correlation", "regime">>

(* In the order build_risk_manager appends them.  "account" needs the      *)
(* shared tracker, "regime" the shared detector; without a configuration   *)
(* only the account check is there.                                        *)
CheckOrder == <<"account", "vol", "kelly", "drawdown", "correlation", "regime", "rate">>

-----------------------------------------------------------------------------
(* The checks.                                                             *)

Clamp(n, low, high) == IF n > high THEN high ELSE IF n < low THEN low ELSE n

Percent(n, p) == (n * p) \div 100

(* A change below five percent is no change.                               *)
Scaled(size, percent) ==
  IF percent \in 96..104 THEN size ELSE Percent(size, percent)

(* Before a quarter of the window is sampled the size passes; a market     *)
(* that does not move has no volatility and is refused.                    *)
VolTarget(size, reading) ==
  IF ~reading.sampled THEN size
  ELSE IF reading.vol = 0 \/ TargetVol = 0 THEN 0
  ELSE Scaled(size, Clamp((100 * TargetVol) \div reading.vol, MinScale, MaxScale))

KellyFraction(win, r) ==
  IF win \notin 1..99 THEN 0 ELSE (win * r - 100 * (100 - win)) \div r

(* A share of the full fraction, which the size is taken to stand for.     *)
Kelly(size, reading) ==
  LET full == KellyFraction(reading.win, reading.reward)
      f    == Clamp(full * Fraction, 0, 100 * MaxFraction)
  IN  IF full <= 0 THEN 0 ELSE Scaled(size, f \div full)

Correlation(size, reading) ==
  IF reading.sampled /\ reading.corr > CorrThreshold
  THEN Percent(size, HighCorrScale) ELSE size

(* RuleBasedRegimeDetector: above or below the average, and where the      *)
(* latest volatility ranks; too short a history is neutral, too short a    *)
(* history of volatility leaves the average alone.                         *)
RegimeState(reading) ==
  IF ~reading.sampled THEN "neutral"
  ELSE IF reading.rank = "none"
       THEN IF reading.above THEN "trending" ELSE "mean_reverting"
  ELSE IF reading.above /\ reading.rank = "low" THEN "trending"
  ELSE IF ~reading.above \/ reading.rank = "high" THEN "mean_reverting"
  ELSE "neutral"

RegimeScale(state, kind) ==
  CASE kind = "neutral" -> 100
    [] kind # "neutral" /\ state = "neutral" -> 70
    [] kind = "momentum" /\ state # "neutral" -> IF state = "trending" THEN 100 ELSE 40
    [] kind = "reversal" /\ state # "neutral" -> IF state = "trending" THEN 40 ELSE 100

RegimeGate(size, reading) == Percent(size, RegimeScale(RegimeState(reading), reading.kind))

(* The oldest come first and are taken off; those as old as the window     *)
(* still count.                                                            *)
Expired(ages, n) ==
  /\ \A i \in 1..n : ages[i] > Window
  /\ n < Len(ages) => ages[n + 1] <= Window

Prune(ages) ==
  SubSeq(ages, (CHOOSE n \in 0..Len(ages) : Expired(ages, n)) + 1, Len(ages))

RateFull(ages) == Len(ages) >= MaxTrades

TradeRate(size) == IF RateFull(Prune(entries)) THEN 0 ELSE size

Answer(c, size, reading) ==
  CASE c = "account"     -> IF "account" \in halted THEN 0 ELSE size
    [] c = "drawdown"    -> IF "strategy" \in halted THEN 0 ELSE size
    [] c = "vol"         -> VolTarget(size, reading)
    [] c = "kelly"       -> Kelly(size, reading)
    [] c = "correlation" -> Correlation(size, reading)
    [] c = "regime"      -> RegimeGate(size, reading)
    [] c = "rate"        -> TradeRate(size)

-----------------------------------------------------------------------------
(* Checks run in order until one refuses; otherwise the least of what was  *)
(* asked and what they answered is taken.                                  *)
Sizings(size, answers) == {size} \cup {answers[c] : c \in enabled}

Least(sizings) == CHOOSE m \in sizings : \A n \in sizings : m <= n

(* A check is asked unless one before it refuses.                          *)
IsAsked(c, answers) ==
  \E j \in DOMAIN CheckOrder :
    /\ CheckOrder[j] = c /\ c \in enabled
    /\ \A i \in 1..(j - 1) : CheckOrder[i] \in enabled => answers[CheckOrder[i]] # 0

CheckAll(size, answers) ==
  IF \E c \in enabled : answers[c] = 0 THEN 0 ELSE Least(Sizings(size, answers))

(* The rate check notes the time of an entry it lets pass.                 *)
Noted(answers) ==
  LET ages == Prune(entries)
  IN  IF ~IsAsked("rate", answers) THEN entries
      ELSE IF RateFull(ages) THEN ages ELSE Append(ages, 0)

Readings ==
  [sampled : BOOLEAN, vol : Vols, win : WinRates, reward : Rewards,
   corr : Corrs, above : BOOLEAN, rank : Ranks, kind : Kinds]

(* A strategy asks; a size of less than one unit is refused by the         *)
(* strategy itself, like a refusal of the pipeline.                        *)
ApplyRiskManager(size, reading) ==
  LET answers == [c \in enabled |-> Answer(c, size, reading)]
      granted == CheckAll(size, answers)
  IN  /\ entries' = Noted(answers)
      /\ accepted' = IF granted = 0 THEN accepted ELSE Append(accepted, 0)
      /\ verdict' = [asked |-> size, granted |-> granted,
                     byRate |-> IsAsked("rate", answers) /\ answers["rate"] = 0]

Ask ==
  /\ part = "risk" /\ Len(accepted) <= MaxTrades
  /\ \E size \in Sizes, reading \in Readings : ApplyRiskManager(size, reading)
  /\ UNCHANGED <<part, enabled, halted>>

(* A tracker goes into or out of breach.                                   *)
TrackerFed ==
  /\ part = "risk"
  /\ halted' \in SUBSET {"account", "strategy"}
  /\ UNCHANGED <<part, enabled, entries, accepted, verdict>>

Older(ages) == [i \in DOMAIN ages |-> IF ages[i] > Window THEN ages[i] ELSE ages[i] + 1]

Tick ==
  /\ part = "risk"
  /\ entries' = Older(entries)
  /\ accepted' = Prune(Older(accepted))
  /\ UNCHANGED <<part, enabled, halted, verdict>>

Quiet == halted = {} /\ entries = <<>> /\ accepted = <<>>
         /\ verdict = [asked |-> 0, granted |-> 0, byRate |-> FALSE]

Init == part = "risk" /\ Quiet /\ enabled \in Configs

Next == Ask \/ TrackerFed \/ Tick

(* Time passes, and entries are asked for.                                 *)
Fairness == WF_rvars(Tick) /\ WF_rvars(Ask)
Spec == Init /\ [][Next]_rvars /\ Fairness
-----------------------------------------------------------------------------
\* Only configured checks run, and the window of the rate check never
\* holds more than MaxTrades entries.
RiskTypeOK ==
  /\ enabled \subseteq {CheckOrder[i] : i \in DOMAIN CheckOrder} /\ halted \subseteq {"account", "strategy"}
  /\ entries \in Seq(0..(Window + 1)) /\ Len(entries) <= MaxTrades
  /\ accepted \in Seq(0..Window)

(* In every window at most MaxTrades entries leave the pipeline.           *)
RateBounded == "rate" \in enabled => Len(accepted) <= MaxTrades

(* "counts only entries that pass every other check": what fills the rate  *)
(* window has been approved.                                               *)
CountedIsAccepted ==
  Len(Prune(entries)) <= Len(accepted)

(* No combination of checks lets more pass than was asked for, volatility  *)
(* targets above 100 percent included.                                     *)
NeverEnlarged == verdict.granted <= verdict.asked

(* A strategy refused for its rate is not refused for its rate for ever,   *)
(* however often it asks meanwhile.                                        *)
RateReopens == verdict.byRate ~> ~verdict.byRate
=============================================================================
