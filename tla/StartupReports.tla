--------------------------- MODULE StartupReports ---------------------------
(***************************************************************************)
(* OKXLiveExecutionClient while NT starts (adapter/execution.py): the      *)
(* private channels are activated, the account is announced, then NT       *)
(* gathers order, fill and position reports, three coroutines that each    *)
(* send one request after the other while orders of an earlier process     *)
(* still fill at OKX.  One order per instrument; the instrument is known   *)
(* to NT.                                                                  *)
(***************************************************************************)
EXTENDS Integers, Sequences

CONSTANTS LiveOrders,   \* orders an earlier process left at OKX
          InstType,     \* type of the instrument of each
          Currencies    \* what an account may hold: [eq, cash, avail]

Covered == {"SWAP", "SPOT"}     \* inst_types of the reports
AtOkx   == {"live", "filled", "canceled"}

VARIABLES
  part,       \* which service runs; fixed in Init
  stage,      \* _connect: "start", "orders", "account", "up", or "gone"
  currency,   \* what the account holds; fixed in Init
  balances,   \* latest AccountState given to NT; {} when there is none
  venue,      \* state of the order at OKX
  asked,      \* requests sent by the coroutines of the reports
  failed,     \* some request failed
  seen,       \* latest order report of each order, or "none"
  fills,      \* orders with a fill report
  positions,  \* orders whose instrument has a position report
  pushed      \* history: orders that ended with the orders channel active

svars   == <<part, stage, currency, balances, venue, asked, failed, seen, fills,
             positions, pushed>>
reports == <<asked, failed, seen, fills, positions>>

Fresh ==
  /\ stage = "start" /\ balances = {} /\ failed = FALSE
  /\ venue = [o \in LiveOrders |-> "live"]
  /\ asked = [orders |-> 0, fills |-> 0, positions |-> 0]
  /\ seen = [o \in LiveOrders |-> "none"]
  /\ fills = {} /\ positions = {} /\ pushed = {}

Init ==
  /\ part = "startup" /\ Fresh
  /\ currency \in Currencies

(* As the other services of a model see it.                                *)
Quiet ==
  /\ Fresh /\ currency = [eq |-> 0, cash |-> 0, avail |-> 0]
-----------------------------------------------------------------------------
(* The account.  A currency is its equity, its cash and what is available. *)

Most(a, b) == IF a > b THEN a ELSE b

\* Mutant: what is available may exceed the total.
Unraised(total, free) == total

(* More may be available than the equity, which losses take down.          *)
Raised(total, free) == Most(total, free)

(* Currencies without anything are left out.                               *)
BuildAccountBalances(details) ==
  {[total |-> Raised(Most(0, IF d.eq # 0 THEN d.eq ELSE d.cash), Most(0, d.avail)),
    free  |-> Most(0, d.avail)] :
     d \in {c \in details : c.avail > 0 \/ c.eq > 0 \/ (c.eq = 0 /\ c.cash > 0)}}

(* "NT needs at least one balance to register the account": 0 USDT then.   *)
EmitAccountState(details) ==
  balances' = IF BuildAccountBalances(details) = {} THEN {[total |-> 0, free |-> 0]}
              ELSE BuildAccountBalances(details)

HandleAccountUpdate ==
  /\ stage \in {"account", "up"}
  /\ EmitAccountState({currency})
  /\ UNCHANGED <<part, stage, currency, venue, pushed, reports>>
-----------------------------------------------------------------------------
(* _connect; a channel that cannot be activated ends it.                   *)
Becomes(from, to) ==
  /\ part = "startup" /\ stage = from /\ stage' = to
  /\ UNCHANGED <<part, currency, balances, venue, pushed, reports>>

ActivateOrders  == Becomes("start", "orders")
ActivateAccount == Becomes("orders", "account")
ConnectFails    == \E s \in {"start", "orders"} : Becomes(s, "gone")

(* The snapshot may fail: the account is announced by a push then.         *)
Snapshot ==
  /\ stage = "account" /\ stage' = "up"
  /\ UNCHANGED balances \/ EmitAccountState({currency})
  /\ UNCHANGED <<part, currency, venue, pushed, reports>>

(* An order ends at OKX, which pushes it to whoever listens.               *)

Listens(o) == stage \in {"orders", "account", "up"}   \* instType ANY

OrderEnds(o) ==
  /\ part = "startup" /\ venue[o] = "live"
  /\ \E s \in {"filled", "canceled"} : venue' = [venue EXCEPT ![o] = s]
  /\ pushed' = IF Listens(o) THEN pushed \cup {o} ELSE pushed
  /\ UNCHANGED <<part, stage, currency, balances, reports>>
-----------------------------------------------------------------------------
(* The reports.  A request that fails is logged and the next one is sent.  *)

\* Mutant: the ended orders are asked for before the live ones.
HistoryFirst == <<[of |-> "history", type |-> "SWAP"], [of |-> "history", type |-> "SPOT"],
                  [of |-> "live", type |-> "SWAP"], [of |-> "live", type |-> "SPOT"]>>

OrderRequests == <<[of |-> "live", type |-> "SWAP"], [of |-> "live", type |-> "SPOT"],
                   [of |-> "history", type |-> "SWAP"], [of |-> "history", type |-> "SPOT"]>>

FillRequests  == <<"SWAP", "SPOT">>

Rows(request) ==
  {o \in LiveOrders : /\ InstType[o] = request.type
                      /\ (venue[o] = "live") = (request.of = "live")}

Sent(coroutine) == asked' = [asked EXCEPT ![coroutine] = @ + 1]

RequestFailed(coroutine) == failed' = TRUE /\ Sent(coroutine)

GenerateOrderStatusReports ==
  /\ stage = "up" /\ asked.orders < Len(OrderRequests)
  /\ \/ RequestFailed("orders") /\ UNCHANGED seen
     \/ /\ LET rows == Rows(OrderRequests[asked.orders + 1])
           IN  seen' = [o \in LiveOrders |-> IF o \in rows THEN venue[o] ELSE seen[o]]
        /\ Sent("orders") /\ UNCHANGED failed
  /\ UNCHANGED <<part, stage, currency, balances, venue, fills, positions, pushed>>

GenerateFillReports ==
  /\ stage = "up" /\ asked.fills < Len(FillRequests)
  /\ \/ RequestFailed("fills") /\ UNCHANGED fills
     \/ /\ fills' = fills \cup {o \in LiveOrders : venue[o] = "filled"
                                  /\ InstType[o] = FillRequests[asked.fills + 1]}
        /\ Sent("fills") /\ UNCHANGED failed
  /\ UNCHANGED <<part, stage, currency, balances, venue, seen, positions, pushed>>

(* Without an instrument only perpetual swaps are asked for.               *)
GeneratePositionStatusReports ==
  /\ stage = "up" /\ asked.positions = 0
  /\ \/ RequestFailed("positions") /\ UNCHANGED positions
     \/ /\ positions' = {o \in LiveOrders : venue[o] = "filled" /\ InstType[o] = "SWAP"}
        /\ Sent("positions") /\ UNCHANGED failed
  /\ UNCHANGED <<part, stage, currency, balances, venue, seen, fills, pushed>>

Gather == \/ GenerateOrderStatusReports \/ GenerateFillReports
          \/ GeneratePositionStatusReports

Gathered == /\ asked.orders = Len(OrderRequests)
            /\ asked.fills = Len(FillRequests) /\ asked.positions = 1

Next == \/ ActivateOrders \/ ActivateAccount \/ ConnectFails \/ Snapshot
        \/ HandleAccountUpdate \/ Gather
        \/ \E o \in LiveOrders : OrderEnds(o)

(* Every request is answered or fails, and OKX pushes the account to a     *)
(* channel that was activated.  OKX owes no order its end.                 *)
Fairness == WF_svars(Gather) /\ WF_svars(Snapshot) /\ WF_svars(HandleAccountUpdate)

Spec == Init /\ [][Next]_svars /\ Fairness
-----------------------------------------------------------------------------
\* What the start has asked for and been told, and every balance that is
\* announced is free within its total (_build_account_balances).
StartupTypeOK ==
  /\ stage \in {"start", "orders", "account", "up", "gone"} /\ currency \in Currencies
  /\ venue \in [LiveOrders -> AtOkx]
  /\ asked.orders \in 0..4 /\ asked.fills \in 0..2 /\ asked.positions \in 0..1
  /\ seen \in [LiveOrders -> AtOkx \cup {"none"}]
  /\ fills \cup positions \cup pushed \subseteq LiveOrders
  /\ \A b \in balances : b.free \in 0..b.total

(* "returns a complete snapshot together with orders-pending": an order of *)
(* a covered type is reported even if it ends between two requests, and so *)
(* is the order behind every fill and every position.                      *)
SnapshotComplete ==
  Gathered /\ ~failed =>
    /\ \A o \in LiveOrders : InstType[o] \in Covered => seen[o] # "none"
    /\ \A o \in fills \cup positions : seen[o] # "none"

(* What a report is too early to say, the orders channel pushes.           *)
NothingFallsBetween ==
  Gathered /\ ~failed =>
    \A o \in LiveOrders : InstType[o] \in Covered => seen[o] = venue[o] \/ o \in pushed

(* NT learns the account, whose absence would cost it every fill, whatever *)
(* the balances are and although the snapshot may fail.                    *)
AccountRegistered == stage = "up" ~> balances # {}

(* The reports end although requests fail.                                 *)
ReportsEnd == stage = "up" ~> Gathered
=============================================================================
