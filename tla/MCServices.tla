----------------------------- MODULE MCServices -----------------------------
(***************************************************************************)
(* The services around the strategies, for TLC: one bucket of the rate     *)
(* limiter (TokenBucket, which this module extends), the risk pipeline,    *)
(* the WebSocket client, the market data client, the startup reports and   *)
(* the PnL ledger.  They share no state here: the variable part, fixed in  *)
(* Init, says which one a behaviour is about, and the variables of the     *)
(* others stay as they began.                                              *)
(***************************************************************************)
EXTENDS TokenBucket

CONSTANTS
  Sizes, MaxTrades, Window, TargetVol, MaxScale, MinScale, Vols,  \* RiskPipeline
  Fraction, MaxFraction, WinRates, Rewards, CorrThreshold, HighCorrScale,
  Corrs, Ranks, Kinds, Configs,
  Requests, QueueSize, MaxFrames,                                 \* WSClient
  OptionUlys, MaxHandlers,                                        \* MarketData
  Days, PageCap, LastDay, LastOrder                               \* PnLLedger

(* What the defaults of RiskConfig satisfy.                                *)
ASSUME RiskAssumption ==
  /\ Sizes \subseteq Nat \ {0} /\ MaxTrades \in Nat \ {0} /\ Window \in Nat \ {0}
  /\ MinScale \in Nat /\ MaxScale \in Nat \ {0} /\ TargetVol \in Nat
  /\ Fraction \in 1..100 /\ MaxFraction \in 1..100 /\ HighCorrScale \in 1..100
  /\ Vols \subseteq Nat /\ WinRates \subseteq 0..100 /\ Rewards \subseteq Nat \ {0}
  /\ Kinds \subseteq {"neutral", "momentum", "reversal"}
  /\ Configs \subseteq SUBSET {"account", "vol", "kelly", "drawdown", "correlation",
                             "regime", "rate"}
ASSUME ServiceAssumption ==
  /\ QueueSize \in Nat \ {0} /\ MaxFrames \in Nat /\ OptionUlys \in BOOLEAN
  /\ MaxHandlers \in Nat /\ Days \in Nat \ {0} /\ PageCap \in Nat \ {0}
  /\ LastDay \in Nat \ {0} /\ LastOrder \in Nat

VARIABLES
  part,
  enabled, halted, entries, accepted, verdict,
  closed, conn, call, pending, answer, wire, replies, executed, stream, frames,
  pushed, read,
  connected, loaded, wanted, starting, sending, handlers, refs, activeSubs, latest,
  stage, currency, balances, venue, asked, failed, seen, fills, positions, told,
  today, due, ordered, bills, trades, ledger, equities, noted, missed, restarts

bucketOnly  == <<tokens, elapsed, queue, pc, left, age, count>>
riskOnly    == <<enabled, halted, entries, accepted, verdict>>
clientOnly  == <<closed, conn, call, pending, answer, wire, replies, executed,
                 stream, frames, pushed, read>>
dataOnly    == <<connected, loaded, wanted, starting, sending, handlers, refs,
                 activeSubs, latest>>
startupOnly == <<stage, currency, balances, venue, asked, failed, seen, fills,
                 positions, told>>
pnlOnly     == <<today, due, ordered, bills, trades, ledger, equities, noted, missed,
                 restarts>>
mcvars == <<part, bucketOnly, riskOnly, clientOnly, dataOnly, startupOnly, pnlOnly>>

(* What OKX lists, the orders it holds, and what an account may hold.      *)
Listed == [type : {"SWAP", "OPTION"}, live : BOOLEAN, sizes : BOOLEAN]
LiveOrders == {1, 2}
InstType == <<"SWAP", "SPOT">>
Currencies == {[eq |-> 0, cash |-> 0, avail |-> 0], [eq |-> -1, cash |-> 1, avail |-> 3]}

Risk    == INSTANCE RiskPipeline
Client  == INSTANCE WSClient
Data    == INSTANCE MarketData
Startup == INSTANCE StartupReports WITH pushed <- told
PnL     == INSTANCE PnLLedger

Parts == {"bucket", "risk", "ws", "stream", "data", "startup", "pnl", "equity"}

MCInit ==
  /\ part \in Parts /\ Init
  /\ IF part = "risk" THEN Risk!Init ELSE Risk!Quiet /\ enabled = {}
  /\ Client!Quiet /\ Data!Quiet /\ PnL!Quiet
  /\ IF part = "startup" THEN Startup!Init ELSE Startup!Quiet

MCNext ==
  \/ /\ part = "bucket" /\ Next
     /\ UNCHANGED <<part, riskOnly, clientOnly, dataOnly, startupOnly, pnlOnly>>
  \/ /\ part = "risk" /\ Risk!Next
     /\ UNCHANGED <<bucketOnly, clientOnly, dataOnly, startupOnly, pnlOnly>>
  \/ /\ part \in {"ws", "stream"} /\ Client!Next
     /\ UNCHANGED <<bucketOnly, riskOnly, dataOnly, startupOnly, pnlOnly>>
  \/ /\ part = "data" /\ Data!Next
     /\ UNCHANGED <<bucketOnly, riskOnly, clientOnly, startupOnly, pnlOnly>>
  \/ /\ part = "startup" /\ Startup!Next
     /\ UNCHANGED <<bucketOnly, riskOnly, clientOnly, dataOnly, pnlOnly>>
  \/ /\ part \in {"pnl", "equity"} /\ PnL!Next
     /\ UNCHANGED <<bucketOnly, riskOnly, clientOnly, dataOnly, startupOnly>>

(* The fairness of TokenBucket, for the behaviours that are about it.      *)
BucketFairness ==
  /\ WF_vars(part = "bucket" /\ Tick)
  /\ \A t \in Tasks : WF_vars(part = "bucket" /\ Turn(t))

MCSpec == /\ MCInit /\ [][MCNext]_mcvars
          /\ BucketFairness /\ Risk!Fairness /\ Client!Fairness /\ Startup!Fairness
-----------------------------------------------------------------------------
(* Every service keeps its attributes in their ranges: among others, a     *)
(* balance that is announced is free within its total, a bill has one row, *)
(* and only instruments that can be traded are loaded.                     *)
ServicesTypeOK ==
  /\ TypeOK /\ Risk!RiskTypeOK /\ Client!ClientTypeOK /\ Data!DataTypeOK
  /\ Startup!StartupTypeOK /\ PnL!PnLTypeOK

(* The risk pipeline (RiskManager.check_all, TradeRateCheck): at most      *)
(* MaxTrades entries leave it in any window, only entries that every check *)
(* approved fill the window, no combination of checks enlarges a size.     *)
EntriesAreRationed ==
  Risk!RateBounded /\ Risk!CountedIsAccepted /\ Risk!NeverEnlarged

(* Trading operations (WSTradeClient): what is reported done was carried   *)
(* out and what is reported refused was not, whatever answers arrive late; *)
(* a future is registered exactly while its caller waits.                  *)
OperationsAreTrue ==
  Client!AnswersAreTrue /\ Client!PendingMatchesWaiters

(* From a push to whoever subscribed (Dispatcher, OKXLiveDataClient): an   *)
(* iterator keeps the latest frames in order, a channel is active only     *)
(* with its handler in place, and what is held to be active is subscribed. *)
StreamsDeliver ==
  Client!QueueIsLatest /\ Data!NoPushUnheard /\ Data!ActiveIsSubscribed

(* The start of the execution client (_connect, generate_*_reports): every *)
(* order of a covered type is reported or its end is pushed, however the   *)
(* orders move meanwhile.                                                  *)
ReportsCoverVenue ==
  Startup!SnapshotComplete /\ Startup!NothingFallsBetween

(* Whatever fails meanwhile: a coroutine gets its token although each      *)
(* request meets a 429 (acquire), a strategy refused for its rate is not   *)
(* refused for ever (TradeRateCheck), an operation that was sent ends also *)
(* when the connection is lost (_send_op), NT learns the account, and its  *)
(* reports end (_connect, generate_*_reports).                             *)
ServicesProgress ==
  /\ AcquireReturns /\ Risk!RateReopens /\ Client!SentResolves
  /\ Startup!AccountRegistered /\ Startup!ReportsEnd

(* The PnL database (reconcile_pnl_from_okx, get_round_trips, pnl_hook): a *)
(* bill is missing only when every night that could have had it failed or  *)
(* its day hit the cap of the pages, a round trip was closed at OKX, and a *)
(* day has one return.                                                     *)
BooksAreTrue ==
  PnL!LedgerComplete /\ PnL!RoundTripsAreCloses /\ PnL!EquityOncePerDay

(* "BarBuffer: the last N confirmed bars" (strategies/base.py): a bar the  *)
(* data client hands to NT has closed.                                     *)
BarsAreConfirmed == Data!BarsAreConfirmed
=============================================================================
