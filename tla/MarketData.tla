----------------------------- MODULE MarketData -----------------------------
(***************************************************************************)
(* OKXLiveDataClient (adapter/data.py) and OKXInstrumentProvider           *)
(* (adapter/instrument_provider.py): the instruments are loaded when NT    *)
(* connects, subscription commands are coroutines that register a handler  *)
(* and activate the channel, and what OKX pushes becomes NT data.  The     *)
(* socket is WSClient seen from its caller: a key is subscribed once its   *)
(* activation returned.                                                    *)
(***************************************************************************)
EXTENDS Integers

CONSTANTS Listed,       \* instruments OKX lists: [type, live, sizes, options]
          OptionUlys,   \* option_ulys of the configuration is set
          MaxHandlers   \* bound: handlers registered with the dispatcher

Channels == {"books5", "trades", "candle"}

VARIABLES
  part,       \* which service runs; fixed in Init
  connected,  \* _ws: "no", "yes", or "gone" once NT has disconnected
  loaded,     \* instruments in NT's cache
  wanted,     \* keys NT believes it has subscribed
  starting,   \* keys whose subscribe coroutine awaits its connection
  sending,    \* keys whose subscribe frame is on its way
  handlers,   \* callbacks registered with the dispatcher, per key
  refs,       \* references to the key in the registry of its connection
  activeSubs, \* _active_subs
  latest      \* history: the latest data NT received and how many copies of it

dvars == <<part, connected, loaded, wanted, starting, sending, handlers, refs, activeSubs,
           latest>>
keys  == <<wanted, starting, sending, handlers, refs, activeSubs, latest>>

Nothing == [key |-> "none", copies |-> 0, confirmed |-> TRUE]

Quiet ==
  /\ connected = "no" /\ loaded = {} /\ wanted = {} /\ starting = {} /\ sending = {}
  /\ handlers = [k \in Channels |-> 0] /\ refs = [k \in Channels |-> 0]
  /\ activeSubs = {} /\ latest = Nothing

Init == part = "data" /\ Quiet
-----------------------------------------------------------------------------
(* Instruments.                                                            *)

(* Unless the caller says otherwise options are not asked for, with or     *)
(* without underlyings; with them, they are asked for one by one.          *)
DefaultTypes == {"SWAP", "SPOT", "FUTURES"}

AskedFor(types) ==
  IF OptionUlys THEN types ELSE types \ {"OPTION"}

(* Lacking tick and lot size, or what its type needs, an instrument cannot *)
(* be parsed and is skipped.                                               *)
Parses(i) == i.sizes

LoadAll(types) ==
  {i \in Listed : i.type \in AskedFor(types) /\ i.live /\ Parses(i)}

(* A request for one type raises: nothing is loaded and NT does not start. *)
ConnectFails == /\ part = "data" /\ connected = "no" /\ connected' = "gone"
                /\ UNCHANGED <<part, loaded, keys>>

Connect == /\ part = "data" /\ connected = "no" /\ connected' = "yes"
           /\ loaded' = LoadAll(DefaultTypes)
           /\ UNCHANGED <<part, keys>>

(* The socket is closed and with it every subscription.                    *)
Disconnect ==
  /\ connected = "yes" /\ connected' = "gone"
  /\ refs' = [k \in Channels |-> 0]
  /\ UNCHANGED <<part, loaded, wanted, starting, sending, handlers, activeSubs, latest>>
-----------------------------------------------------------------------------
(* Subscriptions.  NT sends a command for the first subscriber and for the *)
(* last, and notes it whatever becomes of the coroutine.                   *)

AddCallback(k) == handlers' = [handlers EXCEPT ![k] = @ + 1]

(* ws.on comes before ws.activate.                                         *)
Subscribe(k) ==
  /\ connected = "yes" /\ k \notin wanted \cup starting \cup sending
  /\ handlers["books5"] + handlers["trades"] + handlers["candle"] < MaxHandlers
  /\ wanted' = wanted \cup {k} /\ starting' = starting \cup {k}
  /\ AddCallback(k)
  /\ UNCHANGED <<part, connected, loaded, sending, refs, activeSubs, latest>>

(* The connection is there: the key is registered and the subscribe frame  *)
(* goes out.                                                               *)
Activate(k) ==
  /\ k \in starting /\ connected = "yes"
  /\ starting' = starting \ {k} /\ sending' = sending \cup {k}
  /\ refs' = [refs EXCEPT ![k] = @ + 1]
  /\ UNCHANGED <<part, connected, loaded, wanted, handlers, activeSubs, latest>>

(* The connection could not be had in time.                                *)
ActivateFails(k) ==
  /\ k \in starting /\ starting' = starting \ {k}
  /\ UNCHANGED <<part, connected, loaded, wanted, sending, handlers, refs, activeSubs, latest>>

Activated(k) ==
  /\ k \in sending /\ sending' = sending \ {k}
  /\ \/ activeSubs' = activeSubs \cup {k}
     \/ UNCHANGED activeSubs                        \* sending the frame raised
  /\ UNCHANGED <<part, connected, loaded, wanted, starting, handlers, refs, latest>>

(* deactivate is called with a channel and a filter and takes neither: the *)
(* coroutine raises before it has changed anything.                        *)
Unsubscribe(k) ==
  /\ connected = "yes" /\ k \in wanted /\ wanted' = wanted \ {k}
  /\ UNCHANGED <<part, connected, loaded, starting, sending, handlers, refs,
                 activeSubs, latest>>

SubscribeQuoteTicks == Subscribe("books5")
SubscribeTradeTicks == Subscribe("trades")
SubscribeBars       == Subscribe("candle")
UnsubscribeQuoteTicks == Unsubscribe("books5")
UnsubscribeTradeTicks == Unsubscribe("trades")
UnsubscribeBars       == Unsubscribe("candle")

(* A push reaches every handler of its key, and each hands the data to NT. *)
(* A candle is pushed while it forms and, confirmed, when it closes.       *)
Push(k) ==
  /\ connected = "yes" /\ refs[k] > 0
  /\ \E confirmed \in (IF k = "candle" THEN BOOLEAN ELSE {TRUE}) :
       latest' = [key |-> k, copies |-> handlers[k], confirmed |-> confirmed]
  /\ UNCHANGED <<part, connected, loaded, wanted, starting, sending, handlers, refs,
                 activeSubs>>

Next == \/ Connect \/ ConnectFails \/ Disconnect
        \/ SubscribeQuoteTicks \/ SubscribeTradeTicks \/ SubscribeBars
        \/ UnsubscribeQuoteTicks \/ UnsubscribeTradeTicks \/ UnsubscribeBars
        \/ \E k \in Channels : Activate(k) \/ ActivateFails(k) \/ Activated(k) \/ Push(k)

Spec == Init /\ [][Next]_dvars
-----------------------------------------------------------------------------
\* Only instruments that can be traded are loaded ("preopen instruments
\* lack tick and lot size"), and the connection never counts more references
\* of a channel than there are handlers registered for it.
DataTypeOK ==
  /\ connected \in {"no", "yes", "gone"} /\ loaded \subseteq {i \in Listed : i.live /\ i.sizes}
  /\ wanted \subseteq Channels /\ starting \subseteq Channels
  /\ sending \subseteq Channels
  /\ handlers \in [Channels -> 0..MaxHandlers] /\ refs \in [Channels -> 0..MaxHandlers]
  /\ activeSubs \subseteq Channels
  /\ \A k \in Channels : refs[k] <= handlers[k]

(* No push goes unheard: a key is subscribed only after its handler has    *)
(* been registered.                                                        *)
NoPushUnheard == latest.key # "none" => latest.copies > 0

(* What the client holds to be active is subscribed, whichever activations *)
(* failed or were still awaited when NT unsubscribed.                      *)
ActiveIsSubscribed == connected = "yes" => \A k \in activeSubs : refs[k] > 0

(* "BarBuffer: the last N confirmed bars": a bar NT receives has closed.   *)
BarsAreConfirmed == latest.confirmed
=============================================================================
