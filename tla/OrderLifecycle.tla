--------------------------- MODULE OrderLifecycle ---------------------------
(***************************************************************************)
(* One order from NautilusTrader (NT) to OKX and back, as driven by        *)
(* OKXLiveExecutionClient (adapter/execution.py): the submit task and the  *)
(* REST transport's retry loop under it, the orders WebSocket channel, the *)
(* cancel task, and NT's order state machine that receives the events.     *)
(*                                                                         *)
(* The exchange, the network and NT itself are external: they are modelled *)
(* from the fields and codes the adapter reads, and from the comments that *)
(* say why it reads them.                                                  *)
(***************************************************************************)
EXTENDS Integers, Sequences

CONSTANTS
  Orders,        \* NT orders
  HyphenIds,     \* the orders whose NT ClientOrderId contains a hyphen
  Qty,           \* quantity of every order, in lots
  MaxRetries,    \* settings.max_retries: network, 5xx and rate-limit budget
  MaxTransient   \* settings.max_transient_retries: 50004 / 51290 budget

ASSUME ConstantsAssumption ==
  /\ HyphenIds \subseteq Orders
  /\ Qty \in Nat \ {0}
  /\ MaxRetries \in Nat
  /\ MaxTransient \in Nat

VARIABLES
  nt,         \* status of the order in NT's cache
  ntFilled,   \* quantity NT has booked for the order
  task,       \* the _submit_order coroutine: idle, waiting on HTTP, done,
              \* or ended without an event (silent)
  net,        \* network_attempts of Transport.request
  trans,      \* transient_attempts of Transport.request
  wire,       \* attempts that were sent and that OKX has not processed yet
  reply,      \* OKX's answer to the current attempt, on its way back
  book,       \* clOrdIds OKX has accepted, per order
  venue,      \* state of the order at OKX
  vFilled,    \* quantity filled at OKX
  push,       \* orders-channel frames not handled yet
  lost,       \* some frame of the order was lost with a connection
  unclear,    \* some attempt ended without telling whether OKX took it
  expired,    \* NT's in-flight check gave the order up
  cancel      \* the _cancel_order coroutine

ntVars    == <<nt, ntFilled>>
taskVars  == <<task, net, trans, unclear>>
venueVars == <<book, venue, vFilled>>
vars == <<nt, ntFilled, task, net, trans, wire, reply, book, venue,
          vFilled, push, lost, unclear, expired, cancel>>

Attempts == 0 .. (MaxRetries + MaxTransient)

Status == {"INITIALIZED", "SUBMITTED", "ACCEPTED", "PARTIALLY_FILLED",
           "PENDING_CANCEL", "FILLED", "CANCELED", "REJECTED"}

\* ok: code 0 and sCode 0 with an ordId; noid: the same without one;
\* business: a refusal; unreadable: a 2xx body that is no JSON, or code 0 with
\* no data, whatever OKX did with the request.
Answers == {"ok", "noid", "business", "unreadable", "ratelimit", "transient"}

Frames == [state : {"live", "partially_filled", "filled", "canceled"},
           fillSz : 0..Qty, accFillSz : 0..Qty]

-----------------------------------------------------------------------------
(* Identifiers.  An NT ClientOrderId is a name and whether it is spelt     *)
(* with hyphens.                                                           *)

NtId(o) == <<o, o \in HyphenIds>>

\* Mutant: a fresh clOrdId for every attempt.
FreshClOrdId(o, a) == <<<<o, a>>, FALSE>>

\* The clOrdId sent with attempt a: hyphens are stripped; Transport.request
\* serialises the body once, so every attempt carries the same one.
ClOrdId(o, a) == <<NtId(o)[1], FALSE>>

\* self._cache.order(ClientOrderId(clOrdId)) finds the order.
Routed(o) == ClOrdId(o, 0) = NtId(o)

-----------------------------------------------------------------------------
(* NT's order state machine: an event that is not legal in the current     *)
(* status is logged and dropped.                                           *)

OnAccepted(s) == IF s \in {"SUBMITTED", "PENDING_CANCEL"} THEN "ACCEPTED" ELSE s

OnRejected(s) == IF s \in {"SUBMITTED", "ACCEPTED"} THEN "REJECTED" ELSE s

OnCanceled(s) ==
  IF s \in {"SUBMITTED", "ACCEPTED", "PARTIALLY_FILLED", "PENDING_CANCEL"}
  THEN "CANCELED" ELSE s

OnCancelRejected(s, filled) ==
  IF s # "PENDING_CANCEL" THEN s
  ELSE IF filled > 0 THEN "PARTIALLY_FILLED" ELSE "ACCEPTED"

Fillable(s) == s \in {"SUBMITTED", "ACCEPTED", "PARTIALLY_FILLED",
                      "PENDING_CANCEL", "CANCELED"}

OnFilled(s, total) == IF total >= Qty THEN "FILLED" ELSE "PARTIALLY_FILLED"

-----------------------------------------------------------------------------
Init ==
  /\ nt       = [o \in Orders |-> "INITIALIZED"]
  /\ ntFilled = [o \in Orders |-> 0]
  /\ task     = [o \in Orders |-> "idle"]
  /\ net      = [o \in Orders |-> 0]
  /\ trans    = [o \in Orders |-> 0]
  /\ wire     = [o \in Orders |-> {}]
  /\ reply    = [o \in Orders |-> "none"]
  /\ book     = [o \in Orders |-> {}]
  /\ venue    = [o \in Orders |-> "absent"]
  /\ vFilled  = [o \in Orders |-> 0]
  /\ push     = [o \in Orders |-> <<>>]
  /\ lost     = [o \in Orders |-> FALSE]
  /\ unclear  = [o \in Orders |-> FALSE]
  /\ expired  = [o \in Orders |-> FALSE]
  /\ cancel   = [o \in Orders |-> "none"]

-----------------------------------------------------------------------------
(* _submit_order *)

\* The index of the attempt the coroutine is waiting on.
Attempt(o) == net[o] + trans[o]

\* OrderSubmitted is emitted first, then the request is built and sent.
Submit(o) ==
  /\ nt[o] = "INITIALIZED"
  /\ nt'   = [nt EXCEPT ![o] = "SUBMITTED"]
  /\ task' = [task EXCEPT ![o] = "waiting"]
  /\ wire' = [wire EXCEPT ![o] = {0}]
  /\ UNCHANGED <<ntFilled, net, trans, unclear, reply, venueVars,
                 push, lost, expired, cancel>>

\* _build_order_request raises (quantity below min_quantity): the order is
\* submitted and rejected without touching the network.
SubmitInvalid(o) ==
  /\ nt[o] = "INITIALIZED"
  /\ nt'   = [nt EXCEPT ![o] = OnRejected("SUBMITTED")]
  /\ task' = [task EXCEPT ![o] = "done"]
  /\ UNCHANGED <<ntFilled, net, trans, unclear, wire, reply,
                 venueVars, push, lost, expired, cancel>>

\* Mutant: the exception is logged and no event is emitted.
SwallowException(o) ==
  /\ task' = [task EXCEPT ![o] = "done"]
  /\ UNCHANGED nt

\* place_order raised: OrderRejected, whatever the exception was.
RejectOnException(o) ==
  /\ nt'   = [nt EXCEPT ![o] = OnRejected(@)]
  /\ task' = [task EXCEPT ![o] = "done"]

\* code 0 and sCode 0: OrderAccepted straight from the REST answer, without
\* looking at the status NT has for the order; no event if ordId is empty.
RestOk(o) ==
  /\ task[o] = "waiting"
  /\ \/ /\ reply[o] = "ok"
        /\ nt'   = [nt EXCEPT ![o] = OnAccepted(@)]
        /\ task' = [task EXCEPT ![o] = "done"]
     \/ /\ reply[o] = "noid"
        /\ task' = [task EXCEPT ![o] = "silent"]
        /\ UNCHANGED nt
  /\ reply'   = [reply EXCEPT ![o] = "none"]
  /\ UNCHANGED <<ntFilled, net, trans, unclear, wire, venueVars, push, lost,
                 expired, cancel>>

\* A 4xx, a business code or sCode # 0 is raised without a retry.
RestBusinessError(o) ==
  /\ task[o] = "waiting"
  /\ reply[o] = "business"
  /\ RejectOnException(o)
  /\ reply' = [reply EXCEPT ![o] = "none"]
  /\ UNCHANGED <<ntFilled, net, trans, unclear, wire, venueVars,
                 push, lost, expired, cancel>>

\* parse_error and "empty": raised without a retry, though OKX may have taken
\* the order.
RestUnreadable(o) ==
  /\ task[o] = "waiting"
  /\ reply[o] = "unreadable"
  /\ RejectOnException(o)
  /\ reply'   = [reply EXCEPT ![o] = "none"]
  /\ unclear' = [unclear EXCEPT ![o] = TRUE]
  /\ UNCHANGED <<ntFilled, net, trans, wire, venueVars, push, lost, expired,
                 cancel>>

\* Mutant: one retry too many.
RetryNetworkOnceMore(o) ==
  IF net[o] <= MaxRetries
  THEN /\ net'  = [net EXCEPT ![o] = @ + 1]
       /\ wire' = [wire EXCEPT ![o] = @ \union {Attempt(o) + 1}]
       /\ UNCHANGED <<nt, task, trans>>
  ELSE /\ RejectOnException(o)
       /\ UNCHANGED <<net, trans, wire>>

\* Mutant: the order is rejected on every failed attempt, before the retry.
RejectAndRetry(o) ==
  /\ net[o] < MaxRetries
  /\ net'  = [net EXCEPT ![o] = @ + 1]
  /\ wire' = [wire EXCEPT ![o] = @ \union {Attempt(o) + 1}]
  /\ nt'   = [nt EXCEPT ![o] = OnRejected(@)]
  /\ UNCHANGED <<task, trans>>

\* The attempt failed with a retryable error counted in `net`.
RetryNetwork(o) ==
  IF net[o] < MaxRetries
  THEN /\ net'  = [net EXCEPT ![o] = @ + 1]
       /\ wire' = [wire EXCEPT ![o] = @ \union {Attempt(o) + 1}]
       /\ UNCHANGED <<nt, task, trans>>
  ELSE /\ RejectOnException(o)
       /\ UNCHANGED <<net, trans, wire>>

\* ... or in `trans`.
RetryTransient(o) ==
  IF trans[o] < MaxTransient
  THEN /\ trans' = [trans EXCEPT ![o] = @ + 1]
       /\ wire'  = [wire EXCEPT ![o] = @ \union {Attempt(o) + 1}]
       /\ UNCHANGED <<nt, task, net>>
  ELSE /\ RejectOnException(o)
       /\ UNCHANGED <<net, trans, wire>>

\* HTTP 429 or code 50011 / 50013: OKX refused the request outright.
RestRateLimited(o) ==
  /\ task[o] = "waiting"
  /\ reply[o] = "ratelimit"
  /\ RetryNetwork(o)
  /\ reply' = [reply EXCEPT ![o] = "none"]
  /\ UNCHANGED <<ntFilled, unclear, venueVars, push, lost, expired,
                 cancel>>

\* Code 50004 / 51290.
RestTransient(o) ==
  /\ task[o] = "waiting"
  /\ reply[o] = "transient"
  /\ RetryTransient(o)
  /\ reply'   = [reply EXCEPT ![o] = "none"]
  /\ unclear' = [unclear EXCEPT ![o] = TRUE]
  /\ UNCHANGED <<ntFilled, venueVars, push, lost, expired, cancel>>

\* httpx times out or fails, or a 5xx comes back: no answer, or an answer
\* that is lost.  OKX may process the request later.
RestNoAnswer(o) ==
  /\ task[o] = "waiting"
  /\ RetryNetwork(o)
  /\ reply'   = [reply EXCEPT ![o] = "none"]
  /\ unclear' = [unclear EXCEPT ![o] = TRUE]
  /\ UNCHANGED <<ntFilled, venueVars, push, lost, expired, cancel>>

-----------------------------------------------------------------------------
(* OKX (external) *)

\* The answer reaches the coroutine only if it still waits for attempt a.
Answer(o, a, ans) ==
  reply' = IF task[o] = "waiting" /\ a = Attempt(o)
           THEN [reply EXCEPT ![o] = ans] ELSE reply

VenueTake(o, a) ==
  /\ a \in wire[o]
  /\ ClOrdId(o, a) \notin book[o]
  /\ wire'  = [wire EXCEPT ![o] = @ \ {a}]
  /\ book'  = [book EXCEPT ![o] = @ \union {ClOrdId(o, a)}]
  /\ venue' = [venue EXCEPT ![o] = "live"]
  /\ push'  = [push EXCEPT ![o] =
                 Append(@, [state |-> "live", fillSz |-> 0, accFillSz |-> 0])]
  /\ \E ans \in {"ok", "noid", "unreadable", "transient"} : Answer(o, a, ans)
  /\ UNCHANGED <<ntVars, taskVars, vFilled, lost, expired, cancel>>

\* Refused, or a clOrdId OKX already knows.
VenueRefuse(o, a) ==
  /\ a \in wire[o]
  /\ wire' = [wire EXCEPT ![o] = @ \ {a}]
  /\ \E ans \in (IF ClOrdId(o, a) \in book[o] THEN {"business", "unreadable"}
                 ELSE Answers \ {"ok", "noid"}) : Answer(o, a, ans)
  /\ UNCHANGED <<ntVars, taskVars, venueVars, push, lost, expired, cancel>>

VenueFill(o) ==
  /\ venue[o] = "live"
  /\ vFilled[o] < Qty
  /\ \E sz \in 1..(Qty - vFilled[o]) :
       LET total == vFilled[o] + sz
           state == IF total = Qty THEN "filled" ELSE "partially_filled"
       IN  /\ vFilled' = [vFilled EXCEPT ![o] = total]
           /\ venue'   = [venue EXCEPT ![o] = IF total = Qty THEN "filled" ELSE @]
           /\ push'    = [push EXCEPT ![o] =
                Append(@, [state |-> state, fillSz |-> sz, accFillSz |-> total])]
  /\ UNCHANGED <<ntVars, taskVars, wire, reply, book, lost, expired, cancel>>

\* What the exchange does to the order when it cancels it.
CancelAtVenue(o) ==
  /\ venue[o] = "live"
  /\ venue' = [venue EXCEPT ![o] = "canceled"]
  /\ push'  = [push EXCEPT ![o] =
       Append(@, [state |-> "canceled", fillSz |-> 0, accFillSz |-> vFilled[o]])]

\* IOC remainder, mmp_canceled, or a cancel by hand.
VenueCancel(o) ==
  /\ CancelAtVenue(o)
  /\ UNCHANGED <<ntVars, taskVars, wire, reply, book, vFilled, lost, expired,
                 cancel>>

-----------------------------------------------------------------------------
(* _cancel_order *)

RequestCancel(o) ==
  /\ nt[o] \in {"ACCEPTED", "PARTIALLY_FILLED"}
  /\ cancel[o] = "none"
  /\ nt'     = [nt EXCEPT ![o] = "PENDING_CANCEL"]
  /\ cancel' = [cancel EXCEPT ![o] = "wire"]
  /\ UNCHANGED <<ntFilled, taskVars, wire, reply, venueVars, push,
                 lost, expired>>

\* OKX cancels the order; the answer is ok, or cannot be read, or is lost and
\* the retry is told that there is no such order.
CancelTaken(o) ==
  /\ cancel[o] = "wire"
  /\ CancelAtVenue(o)
  /\ \E out \in {"ok", "failed"} : cancel' = [cancel EXCEPT ![o] = out]
  /\ UNCHANGED <<ntVars, taskVars, wire, reply, book, vFilled, lost, expired>>

\* OrderNotFound, or the transport ran out of retries before OKX saw it.
CancelRefused(o) ==
  /\ cancel[o] = "wire"
  /\ cancel' = [cancel EXCEPT ![o] = "failed"]
  /\ UNCHANGED <<ntVars, taskVars, wire, reply, venueVars, push, lost, expired>>

\* The exception handler emits OrderCancelRejected.  A successful answer
\* emits nothing: the canceled frame is to follow.
CancelException(o) ==
  /\ cancel[o] = "failed"
  /\ cancel' = [cancel EXCEPT ![o] = "ok"]
  /\ nt'     = [nt EXCEPT ![o] = OnCancelRejected(@, ntFilled[o])]
  /\ UNCHANGED <<ntFilled, taskVars, wire, reply, venueVars, push,
                 lost, expired>>

-----------------------------------------------------------------------------
(* The orders channel: _handle_order_update *)

\* Mutant: last_qty is the cumulative accFillSz.
EmitCumulativeFill(o, frame) ==
  IF Fillable(nt[o])
  THEN /\ ntFilled' = [ntFilled EXCEPT ![o] = @ + frame.accFillSz]
       /\ nt'       = [nt EXCEPT ![o] =
                         OnFilled(@, ntFilled[o] + frame.accFillSz)]
  ELSE UNCHANGED <<nt, ntFilled>>

\* Mutant: a fill is ignored once NT has asked for the cancel.
EmitFillUnlessCancelling(o, frame) ==
  IF Fillable(nt[o]) /\ nt[o] # "PENDING_CANCEL"
  THEN /\ ntFilled' = [ntFilled EXCEPT ![o] = @ + frame.fillSz]
       /\ nt'       = [nt EXCEPT ![o] =
                         OnFilled(@, ntFilled[o] + frame.fillSz)]
  ELSE UNCHANGED <<nt, ntFilled>>

\* generate_order_filled with last_qty = fillSz.
EmitFill(o, frame) ==
  IF Fillable(nt[o])
  THEN /\ ntFilled' = [ntFilled EXCEPT ![o] = @ + frame.fillSz]
       /\ nt'       = [nt EXCEPT ![o] =
                         OnFilled(@, ntFilled[o] + frame.fillSz)]
  ELSE UNCHANGED <<nt, ntFilled>>

HandleRouted(o, frame) ==
  \/ /\ frame.state = "live"
     /\ nt[o] = "SUBMITTED"
     /\ nt'      = [nt EXCEPT ![o] = OnAccepted(@)]
        /\ UNCHANGED ntFilled
  \/ /\ frame.state = "live"
     /\ nt[o] # "SUBMITTED"
     /\ UNCHANGED ntVars
  \/ /\ frame.state \in {"partially_filled", "filled"}
     /\ EmitFill(o, frame)
  \/ /\ frame.state = "canceled"
     /\ nt' = [nt EXCEPT ![o] = OnCanceled(@)]
     /\ UNCHANGED ntFilled

HandleOrderUpdate(o) ==
  /\ push[o] # <<>>
  /\ push' = [push EXCEPT ![o] = Tail(@)]
  /\ IF Routed(o) THEN HandleRouted(o, Head(push[o])) ELSE UNCHANGED ntVars
  /\ UNCHANGED <<taskVars, wire, reply, venueVars, lost, expired, cancel>>

\* The private connection drops: frames under way are gone, and OKX does not
\* replay the orders channel after the resubscription.
WSDrop ==
  /\ \E o \in Orders : push[o] # <<>>
  /\ push' = [o \in Orders |-> <<>>]
  /\ lost' = [o \in Orders |-> lost[o] \/ push[o] # <<>>]
  /\ UNCHANGED <<ntVars, taskVars, wire, reply, venueVars, expired, cancel>>

\* NT's in-flight check: the query it sends is a no-op in this adapter, so an
\* order that stays SUBMITTED is resolved as rejected.
InFlightExpire(o) ==
  /\ nt[o] = "SUBMITTED"
  /\ nt'      = [nt EXCEPT ![o] = OnRejected(@)]
  /\ expired' = [expired EXCEPT ![o] = TRUE]
  /\ UNCHANGED <<ntFilled, taskVars, wire, reply, venueVars, push,
                 lost, cancel>>

-----------------------------------------------------------------------------
SubmitTask(o) ==
  \/ RestOk(o)
  \/ RestBusinessError(o)
  \/ RestUnreadable(o)
  \/ RestRateLimited(o)
  \/ RestTransient(o)
  \/ RestNoAnswer(o)

CancelTask(o) ==
  \/ CancelTaken(o)
  \/ CancelRefused(o)
  \/ CancelException(o)

Exchange(o) ==
  \/ \E a \in Attempts : VenueTake(o, a) \/ VenueRefuse(o, a)
  \/ VenueFill(o)
  \/ VenueCancel(o)

Next ==
  \/ \E o \in Orders :
       \/ Submit(o)
       \/ SubmitInvalid(o)
       \/ SubmitTask(o)
       \/ Exchange(o)
       \/ RequestCancel(o)
       \/ CancelTask(o)
       \/ HandleOrderUpdate(o)
       \/ InFlightExpire(o)
  \/ WSDrop

\* httpx always returns or times out, and the event loop runs every ready
\* coroutine and callback; neither OKX nor NT's timer owes anything.
Fairness ==
  \A o \in Orders :
    /\ WF_vars(SubmitTask(o))
    /\ WF_vars(CancelTask(o))
    /\ WF_vars(HandleOrderUpdate(o))

Spec == Init /\ [][Next]_vars
FairSpec == Spec /\ Fairness

-----------------------------------------------------------------------------
(* Properties *)

\* Types; both retry budgets of Transport.request are respected and OKX
\* never fills more than was ordered.
TypeOK ==
  /\ nt       \in [Orders -> Status]
  /\ ntFilled \in [Orders -> Nat]
  /\ task     \in [Orders -> {"idle", "waiting", "done", "silent"}]
  /\ net      \in [Orders -> 0..MaxRetries]
  /\ trans    \in [Orders -> 0..MaxTransient]
  /\ wire     \in [Orders -> SUBSET Attempts]
  /\ reply    \in [Orders -> Answers \union {"none"}]
  /\ book     \in [Orders -> SUBSET {ClOrdId(o, a) : o \in Orders, a \in Attempts}]
  /\ venue    \in [Orders -> {"absent", "live", "filled", "canceled"}]
  /\ vFilled  \in [Orders -> 0..Qty]
  /\ push     \in [Orders -> Seq(Frames)]
  /\ lost     \in [Orders -> BOOLEAN]
  /\ unclear  \in [Orders -> BOOLEAN]
  /\ expired  \in [Orders -> BOOLEAN]
  /\ cancel   \in [Orders -> {"none", "wire", "ok", "failed"}]

\* However often Transport.request re-sends the POST, and however late OKX
\* processes an attempt the client gave up on, one NT order is at most one
\* order at OKX: the clOrdId is the same on every attempt.
OneVenueOrder == \A o \in Orders : \A x, y \in book[o] : x = y

\* NT never believes in an order, or in a quantity, that OKX does not have:
\* OrderAccepted and OrderFilled always trail the exchange.
NtTrailsVenue ==
  \A o \in Orders :
    /\ nt[o] \in {"ACCEPTED", "PARTIALLY_FILLED", "PENDING_CANCEL", "FILLED",
                  "CANCELED"} => venue[o] # "absent"
    /\ ntFilled[o] <= vFilled[o]
    /\ nt[o] = "FILLED" => venue[o] = "filled"

\* A rejection is the truth at OKX unless an attempt ended without telling
\* (timeout, 5xx, 50004 / 51290, an unreadable or empty 2xx answer) or NT gave
\* the order up first: a refusal, a rate limit or an invalid order never hides
\* a live one, however many attempts went before it.
CertainRejectIsAbsent ==
  \A o \in Orders :
    nt[o] = "REJECTED" /\ ~unclear[o] /\ ~expired[o] => venue[o] = "absent"

\* An NT order is one order at OKX, or none when its rejection is certain.
OneOrderOrNone == OneVenueOrder /\ CertainRejectIsAbsent

\* Retries, lost answers, late attempts and frames implement the plain order:
\* no attempt brings a finished order back to life, and no sequence of frames,
\* events and restarts of the channel books a fill twice or takes one back.
Mirror == INSTANCE OrderMirror WITH order <- venue, filled <- vFilled, booked <- ntFilled
MirrorSpec == Mirror!Spec

\* While the connection holds and NT has not rejected the order, nothing OKX
\* fills is lost on the way: what NT has not booked is still in the channel,
\* whatever order the REST answer and the frames are handled in.
NoFillLost ==
  \A o \in Orders :
    Routed(o) /\ ~lost[o] /\ nt[o] # "REJECTED" /\ push[o] = <<>>
      => ntFilled[o] = vFilled[o]

\* The retry loop ends: an order does not stay SUBMITTED for ever, even when
\* OKX never answers.  Only an answer without an ordId leaves it so, and then
\* only if the live frame is lost too, or cannot be routed.
SubmitResolves ==
  \A o \in Orders :
    nt[o] = "SUBMITTED"
      ~> (nt[o] # "SUBMITTED" \/ (task[o] = "silent" /\ (lost[o] \/ ~Routed(o))))

\* A cancel that NT waits for is answered by a frame or by a cancel-rejected
\* event, for the orders whose frames are routed and not lost.
CancelResolves ==
  \A o \in Orders :
    (nt[o] = "PENDING_CANCEL" /\ Routed(o)) ~> (nt[o] # "PENDING_CANCEL" \/ lost[o])

\* The submit and the cancel task of an order (_submit_order, _cancel_order)
\* end with an event for NT, or leave it to a frame that comes, whatever the
\* network and OKX do.
TasksResolve == SubmitResolves /\ CancelResolves

\* The orders subscription "receives the fill reports", and the handler
\* "routes the push to generate_order_*".
FillsReachNt ==
  \A o \in Orders :
    ~lost[o] /\ nt[o] # "REJECTED" /\ push[o] = <<>> => ntFilled[o] = vFilled[o]

=============================================================================
