---------------------------- MODULE PriceHistory ----------------------------
(***************************************************************************)
(* The price buffers three strategies compute their signals from, and the  *)
(* coroutine each starts in on_start to fill them over REST while live     *)
(* bars arrive: stat_arb_pairs ("pair"), funding_cross_section ("cross")   *)
(* and factor_portfolio ("factor").                                        *)
(*                                                                         *)
(* A price is left out; an entry of a buffer is the candle it belongs to.  *)
(* Candles are numbered by their opening.  The data client forwards every  *)
(* push of a candle that is still forming as a bar, and REST answers       *)
(* include that candle too.                                                *)
(***************************************************************************)
EXTENDS Integers, Sequences

CONSTANTS N,         \* instruments
          Cap,       \* buffer length; stat_arb_pairs and
                     \* funding_cross_section request as many candles
          Want,      \* candles factor_portfolio requests
          MinBars,   \* bars below which no panel is built
          Period,    \* rebalance_hours
          Attempts,  \* attempts of factor_portfolio's warm-up
          MaxNow     \* bound: candles

VARIABLES
  kind,         \* which strategy; fixed in Init
  now,          \* the candle that is forming
  pushed,       \* latest candle pushed to each instrument, 0 before the first
  series,       \* the buffer of each instrument
  phase,        \* the warm-up: "fetch", "apply" or "done"
  todo,         \* instruments not fetched yet
  asked,        \* end of the window factor_portfolio asks for
  fetched,      \* what the answers hold, waiting to be applied
  attempt,      \* attempts that failed
  lastRebalance, rebalancing,   \* _last_rebalance_ms; a _rebalance is waiting
  missed        \* history: candles pushed between their fetch and the refill

hvars == <<kind, now, pushed, series, phase, todo, asked, fetched, attempt,
           lastRebalance, rebalancing, missed>>
warmup == <<phase, todo, asked, fetched, attempt>>

Insts == 1..N
HistoryKinds == {"pair", "cross", "factor"}
Candles == 1..MaxNow

(* The value of a buffer entry matters less than when it is from: the      *)
(* candle, and whether it came as a bar or in an answer.                   *)
Entry(candle, live) == [candle |-> candle, live |-> live]
Entries == [candle : Candles, live : BOOLEAN]

(* A bar carries the closing time of its candle, an answer the opening.    *)
Stamp(e) == e.candle + (IF e.live THEN 1 ELSE 0)

Least(a, b) == IF a < b THEN a ELSE b

\* Mutant: the buffer has no maximum length.
KeepAll(s) == s

(* deque(maxlen = Cap), and the cap funding_cross_section cuts to.         *)
Keep(s) == SubSeq(s, Len(s) - Least(Len(s), Cap) + 1, Len(s))

\* Buffers stay within their maxlen, attempts within the retry budget,
\* and a warm-up has something left to fetch exactly while it fetches.
HistoryTypeOK ==
  /\ kind \in HistoryKinds /\ now \in Candles
  /\ \A i \in Insts : /\ pushed[i] \in 0..now /\ Len(series[i]) <= Cap
                      /\ \A k \in DOMAIN series[i] : series[i][k] \in Entries
                      /\ missed[i] \subseteq Candles
  /\ phase \in {"fetch", "apply", "done"} /\ todo \subseteq Insts
  /\ attempt \in 0..Attempts /\ asked \in 0..now
  /\ (phase = "apply" => todo = {}) /\ (phase = "fetch" => todo # {})
  /\ lastRebalance \in 0..(MaxNow + 1) /\ rebalancing \in BOOLEAN

-----------------------------------------------------------------------------
(* The candles up to one, as REST answers them: the latest of them.        *)
Answer(end) == LET n == IF kind = "factor" THEN Want ELSE Cap
               IN  [k \in 1..n |-> Entry(end - n + k, FALSE)]

NotFetched == [i \in Insts |-> <<>>]

HistoryQuiet ==
  /\ now = Cap + 1 /\ pushed = [i \in Insts |-> 0]
  /\ series = NotFetched /\ fetched = NotFetched /\ asked = 0
  /\ phase = "done" /\ todo = {} /\ attempt = 0 /\ lastRebalance = 0
  /\ rebalancing = FALSE /\ missed = [i \in Insts |-> {}]

(* on_start: bars are subscribed to and the warm-up is started, unless it  *)
(* is turned off; factor_portfolio may load a cached panel instead.        *)
Starting ==
  /\ now = Cap + 1 /\ pushed = [i \in Insts |-> 0]
  /\ fetched = NotFetched /\ asked = now
  /\ attempt = 0 /\ lastRebalance = 0 /\ rebalancing = FALSE
  /\ missed = [i \in Insts |-> {}]

PairStart   == kind = "pair"   /\ phase \in {"fetch", "done"} /\ series = NotFetched
CrossStart  == kind = "cross"  /\ phase \in {"fetch", "done"} /\ series = NotFetched
FactorStart == /\ kind = "factor"
               /\ \/ phase \in {"fetch", "done"} /\ series = NotFetched
                  \/ phase = "done" /\ series = [i \in Insts |-> Answer(now - 1)]

Init == /\ Starting /\ (PairStart \/ CrossStart \/ FactorStart)
        /\ todo = (IF phase = "fetch" THEN Insts ELSE {})

-----------------------------------------------------------------------------
(* Bars.                                                                   *)

(* on_bar of factor_portfolio: a bar that is due wakes a rebalance.        *)
FactorBar(e) ==
  IF kind = "factor" /\ Stamp(e) - lastRebalance >= Period
  THEN rebalancing' = TRUE /\ lastRebalance' = Stamp(e)
  ELSE UNCHANGED <<rebalancing, lastRebalance>>

(* The candle is one of those a fetch that waits to be applied misses.     *)
Missed(i, candle) ==
  missed' = IF fetched[i] # <<>> /\ kind # "factor"
            THEN [missed EXCEPT ![i] = @ \cup {candle}] ELSE missed

(* A push of the forming candle, or of the one before, which has closed.   *)
Push(i) ==
  /\ \E candle \in {pushed[i], pushed[i] + 1, now} :
       /\ candle \in now - 1..now /\ candle > 0 /\ candle >= pushed[i]
       /\ (pushed[i] = 0 => candle = now)
       /\ pushed' = [pushed EXCEPT ![i] = candle]
       /\ series' = [series EXCEPT ![i] = Keep(Append(@, Entry(candle, TRUE)))]
       /\ FactorBar(Entry(candle, TRUE)) /\ Missed(i, candle)
  /\ UNCHANGED <<kind, now, warmup>>

(* The next candle opens; every instrument trades in every candle.         *)
Tick ==
  /\ now < MaxNow /\ \A i \in Insts : pushed[i] = now
  /\ now' = now + 1
  /\ UNCHANGED <<kind, pushed, series, warmup, lastRebalance, rebalancing, missed>>

-----------------------------------------------------------------------------
(* The warm-up.                                                            *)

(* factor_portfolio fetches its instruments at once, the others in turn.   *)
Next1(i) == i \in todo /\ (kind # "factor" => \A j \in todo : i <= j)

(* An instrument is answered; the answer may be empty.                     *)
Fetched(i, answer) ==
  /\ fetched' = [fetched EXCEPT ![i] = answer]
  /\ todo' = todo \ {i}
  /\ phase' = (IF todo = {i} THEN "apply" ELSE "fetch")
  /\ UNCHANGED <<asked, attempt>>

PairFetch(i)   == kind = "pair"  /\ \E a \in {Answer(now), <<>>} : Fetched(i, a)
CrossFetch(i)  == kind = "cross" /\ \E a \in {Answer(now), <<>>} : Fetched(i, a)
FactorFetch(i) == kind = "factor" /\ \E a \in {Answer(asked), <<>>} : Fetched(i, a)

GiveUp == /\ phase' = "done" /\ todo' = {} /\ fetched' = NotFetched
          /\ UNCHANGED asked

(* An exception ends the warm-up of stat_arb_pairs.                        *)
PairFails == kind = "pair" /\ GiveUp /\ UNCHANGED attempt

(* funding_cross_section goes on with the next instrument, but not when    *)
(* the client itself fails.                                                *)
CrossFails(i) == /\ kind = "cross"
                 /\ Fetched(i, <<>>) \/ (GiveUp /\ UNCHANGED attempt)

(* factor_portfolio starts over, after a pause and for a new window, until *)
(* its attempts are used up.                                               *)
Retry ==
  /\ attempt' = attempt + 1
  /\ IF attempt + 1 < Attempts
     THEN todo' = Insts /\ fetched' = NotFetched /\ asked' = now /\ UNCHANGED phase
     ELSE GiveUp

FactorFails == kind = "factor" /\ Retry

Fetch ==
  /\ phase = "fetch"
  /\ \E i \in todo :
       /\ Next1(i)
       /\ \/ PairFetch(i) \/ CrossFetch(i) \/ FactorFetch(i)
          \/ PairFails \/ CrossFails(i) \/ FactorFails
  /\ UNCHANGED <<kind, now, pushed, series, lastRebalance, rebalancing, missed>>

\* Mutant: an empty answer empties the buffer.
RefillAlways(i) == fetched[i]

(* Clear and refill, if there is something to refill with.                 *)
Refill(i) == IF fetched[i] = <<>> THEN series[i] ELSE fetched[i]

PairApply   == kind = "pair"  /\ series' = [i \in Insts |-> Refill(i)]
CrossApply  == kind = "cross" /\ series' = [i \in Insts |-> Refill(i)]

(* _apply_warmup_panel appends the rows of the panel, whatever is there.   *)
FactorApply == /\ kind = "factor"
               /\ series' = [i \in Insts |-> Keep(series[i] \o fetched[i])]

Apply ==
  /\ phase = "apply" /\ phase' = "done" /\ fetched' = NotFetched
  /\ PairApply \/ CrossApply \/ FactorApply
  /\ UNCHANGED <<kind, now, pushed, todo, asked, attempt, lastRebalance,
                 rebalancing, missed>>

-----------------------------------------------------------------------------
(* _build_panel: the last T entries of every buffer, T the shortest, side  *)
(* by side.                                                                *)
Rows == CHOOSE t \in 0..Cap : /\ \E i \in Insts : Len(series[i]) = t
                              /\ \A i \in Insts : Len(series[i]) >= t

Column(i) == [k \in 1..Rows |-> Stamp(series[i][Len(series[i]) - Rows + k])]

(* The coroutine runs after the callback that created it has returned.     *)
Rebalance ==
  /\ rebalancing /\ rebalancing' = FALSE
  /\ UNCHANGED <<kind, now, pushed, series, warmup, lastRebalance, missed>>

Bars == (\E i \in Insts : Push(i)) \/ Tick
Next == Bars \/ Fetch \/ Apply \/ Rebalance

(* Requests are answered or fail, and the coroutines are scheduled.        *)
Fairness == WF_hvars(Fetch) /\ WF_hvars(Apply)

Spec == Init /\ [][Next]_hvars /\ Fairness

-----------------------------------------------------------------------------
Covered(i) == {series[i][k].candle : k \in DOMAIN series[i]}

(* The prices of stat_arb_pairs and funding_cross_section follow each      *)
(* other in time through the refill.  One thing may step back, by one      *)
(* candle: the last push of a candle that arrives after an answer which    *)
(* held the next one already.                                              *)
SeriesInOrder ==
  kind \in {"pair", "cross"} =>
    \A i \in Insts : \A k \in 1..Len(series[i]) - 1 :
      LET e == series[i][k]  f == series[i][k + 1]
      IN  \/ e.candle <= f.candle
          \/ ~e.live /\ f.live /\ e.candle = f.candle + 1

(* "Losing 5s of live bars is the better tradeoff" (stat_arb_pairs) is all *)
(* that is lost: a candle of which a bar was delivered is in the buffer,   *)
(* was pushed out of it by the maximum length, or was delivered between    *)
(* the fetch and the refill.                                               *)
BarsSurvive ==
  \A i \in Insts : pushed[i] # 0 =>
    \A c \in Cap + 1..pushed[i] :
      \/ c \in Covered(i) \cup missed[i]
      \/ Len(series[i]) = Cap /\ (kind = "factor" \/ c < series[i][1].candle)

(* A warm-up ends: the attempts are limited and failures are survived.     *)
WarmupEnds == phase = "fetch" ~> phase = "done"

(* "Real bar timestamps (last T per inst), aligned across inst via         *)
(* tail-take" (_build_panel): the rows a rebalance of factor_portfolio     *)
(* reads are of the same time in every column.                             *)
ColumnsAligned ==
  [][Rebalance /\ Rows >= MinBars => \A i, j \in Insts : Column(i) = Column(j)]_hvars
=============================================================================
