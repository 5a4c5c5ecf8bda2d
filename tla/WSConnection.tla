---------------------------- MODULE WSConnection ----------------------------
(***************************************************************************)
(* One OKX WebSocket endpoint: the run coroutine of WSConnection           *)
(* (ws/connection.py) that connects, logs in, resubscribes and reads, the  *)
(* reference-counted SubscriptionRegistry (ws/subscription.py), and the    *)
(* tasks that call subscribe / unsubscribe at any moment of it.            *)
(*                                                                         *)
(* asyncio runs one coroutine at a time: a step below is what runs between *)
(* two awaits.  The socket and the OKX server are external.                *)
(***************************************************************************)
EXTENDS Integers, Sequences, FiniteSets

CONSTANTS
  Keys,        \* subscription keys
  Callers,     \* tasks that subscribe and unsubscribe
  NeedsLogin,  \* private and business endpoints log in first
  MaxFaults,   \* connection faults the network may inject
  MaxBugs,     \* unexpected exceptions the read loop may raise
  GiveUp,      \* attempts after which such an exception ends _run: 5 in the code
  MaxWire      \* frames the socket buffers before send() blocks

RunTask == "the run task"

ASSUME ConstantsAssumption ==
  /\ NeedsLogin \in BOOLEAN
  /\ MaxFaults \in Nat
  /\ MaxBugs \in Nat
  /\ GiveUp \in Nat
  /\ IsFiniteSet(Callers) /\ RunTask \notin Callers
  /\ MaxWire \in Nat \ {0}

VARIABLES
  run,        \* where the _run task is
  connected,  \* _connected_event
  loginDone,  \* _login_done_event
  sock,       \* the socket self._ws refers to
  attempt,    \* the local variable of _run
  stopping,   \* _stop_event
  refs,       \* SubscriptionRegistry._refs
  pc,         \* where each caller is
  key,        \* the key of the caller's current subscription
  sendq,      \* senders in line for _send_lock, with their frames
  wire,       \* frames sent and not processed by the server
  authed,     \* the server accepted the login of this connection
  server,     \* keys the server pushes on this connection
  faults,     \* connection faults left
  bugs        \* unexpected exceptions so far

connVars   == <<run, connected, loginDone, sock, attempt, stopping>>
callerVars == <<refs, pc, key>>
serverVars == <<wire, authed, server>>
vars == <<run, connected, loginDone, sock, attempt, stopping, refs, pc, key,
          sendq, wire, authed, server, faults, bugs>>

\* attempt is compared with the limit and clipped to the backoff table: one
\* more than the limit stands for every larger value.
MaxAttempt == GiveUp + 1
NextAttempt == IF attempt < MaxAttempt THEN attempt + 1 ELSE attempt

Frame(op, ks, by) == [op |-> op, keys |-> ks, by |-> by]

Active == {k \in Keys : refs[k] > 0}

IsConnected == sock # "none" /\ connected

-----------------------------------------------------------------------------
Init ==
  /\ run = "off"
  /\ connected = FALSE
  /\ loginDone = FALSE
  /\ sock = "none"
  /\ attempt = 0
  /\ stopping = FALSE
  /\ refs = [k \in Keys |-> 0]
  /\ pc = [c \in Callers |-> "idle"]
  /\ key \in [Callers -> Keys]
  /\ sendq = <<>>
  /\ wire = <<>>
  /\ authed = FALSE
  /\ server = {}
  /\ faults = MaxFaults
  /\ bugs = 0

-----------------------------------------------------------------------------
(* The registry *)

\* Mutant: the registry is a set.
SetRef(k)  == refs' = [refs EXCEPT ![k] = 1]
AddRef(k)  == refs' = [refs EXCEPT ![k] = @ + 1]
\* Mutant: only the last removal is counted.
DropLastRef(k) == refs' = [refs EXCEPT ![k] = IF @ <= 1 THEN 0 ELSE @]
DropRef(k) == refs' = [refs EXCEPT ![k] = IF @ <= 1 THEN 0 ELSE @ - 1]

FirstRef(k) == refs[k] = 0
\* Mutant: every removal is taken for the last one.
AnyRef(k) == refs[k] > 0
LastRef(k) == refs[k] = 1

-----------------------------------------------------------------------------
(* _run *)

\* The while test; _run_once clears both events before it awaits connect().
LoopTop ==
  IF stopping
  THEN /\ run' = "off"
       /\ UNCHANGED <<connected, loginDone>>
  ELSE /\ run' = "connecting"
       /\ connected' = FALSE
       /\ loginDone' = FALSE

Start ==
  /\ run = "off"
  /\ ~stopping
  /\ LoopTop
  /\ UNCHANGED <<sock, attempt, stopping, callerVars, sendq, serverVars,
                 faults, bugs>>

\* An expected error, from where events are left as they were: only the read
\* loop has a finally clause that clears _connected_event and _ws.
BackOff ==
  /\ run' = IF stopping THEN "off" ELSE "backoff"
  /\ attempt' = IF stopping THEN attempt ELSE NextAttempt

\* Mutant: nothing is resubscribed after a connect.
NoResubscribe ==
  /\ run' = "reading"
  /\ UNCHANGED sendq

\* _resubscribe_all: the snapshot is taken and joins the line for the lock in
\* one step.
Resubscribe ==
  IF Active = {}
  THEN /\ run' = "reading"
       /\ UNCHANGED sendq
  ELSE /\ run' = "resubscribing"
       /\ sendq' = Append(sendq, Frame("subscribe", Active, RunTask))

\* The handshake is done: _connected_event is set before the login.
ConnectOk ==
  /\ run = "connecting"
  /\ sock' = "open"
  /\ connected' = TRUE
  /\ server' = {}
  /\ IF NeedsLogin
     THEN /\ run' = "login"
          /\ wire' = <<Frame("login", {}, RunTask)>>
          /\ authed' = FALSE
          /\ UNCHANGED sendq
     ELSE /\ Resubscribe
          /\ wire' = <<>>
          /\ authed' = TRUE
  /\ UNCHANGED <<loginDone, attempt, stopping, callerVars, faults, bugs>>

ConnectFail ==
  /\ run = "connecting"
  /\ faults > 0
  /\ faults' = faults - 1
  /\ BackOff
  /\ UNCHANGED <<connected, loginDone, sock, stopping, callerVars, sendq,
                 serverVars, bugs>>

LoginOk ==
  /\ run = "login"
  /\ sock = "open"
  /\ authed
  /\ loginDone' = TRUE
  /\ Resubscribe
  /\ UNCHANGED <<connected, sock, attempt, stopping, callerVars, serverVars,
                 faults, bugs>>

\* The socket is gone, with what was under way on it.
CloseSocket ==
  /\ sock' = "closed"
  /\ wire' = <<>>
  /\ authed' = FALSE
  /\ server' = {}

\* A timeout, a refused login, another frame in place of the answer, or a
\* closed connection: the async with closes the socket and the exception
\* leaves _run_once with _connected_event set and _ws pointing at the socket.
LoginFail ==
  /\ run = "login"
  /\ \/ sock = "closed" /\ UNCHANGED faults
     \/ sock = "open" /\ faults > 0 /\ faults' = faults - 1
  /\ CloseSocket
  /\ BackOff
  /\ UNCHANGED <<connected, loginDone, stopping, callerVars, sendq, bugs>>

LinkDrop ==
  /\ sock = "open"
  /\ faults > 0
  /\ faults' = faults - 1
  /\ CloseSocket
  /\ UNCHANGED <<run, connected, loginDone, attempt, stopping, callerVars,
                 sendq, bugs>>

\* The finally clause around the read loop.
ReadFinally ==
  /\ connected' = FALSE
  /\ sock' = "none"

\* The peer closed with 1000 / 1001 (or stop() closed the socket): _run_once
\* returns and the loop reconnects at once.
ReadEndClean ==
  /\ run = "reading"
  /\ sock = "closed"
  /\ attempt' = 0
  /\ run' = IF stopping THEN "off" ELSE "connecting"
  /\ loginDone' = IF stopping THEN loginDone ELSE FALSE
  /\ ReadFinally
  /\ UNCHANGED <<stopping, callerVars, sendq, serverVars, faults, bugs>>

\* ConnectionClosedError.
ReadEndError ==
  /\ run = "reading"
  /\ sock = "closed"
  /\ BackOff
  /\ ReadFinally
  /\ UNCHANGED <<loginDone, stopping, callerVars, sendq, serverVars, faults,
                 bugs>>

\* Any other exception out of the read loop.
ReadUnexpected ==
  /\ run = "reading"
  /\ sock = "open"
  /\ bugs < MaxBugs
  /\ bugs' = bugs + 1
  /\ attempt' = NextAttempt
  /\ run' = IF attempt + 1 > GiveUp THEN "dead" ELSE "sleeping"
  /\ ReadFinally
  /\ wire' = <<>>
  /\ authed' = FALSE
  /\ server' = {}
  /\ UNCHANGED <<loginDone, stopping, callerVars, sendq, faults>>

\* The backoff wait ends, by its timeout or by the stop event; the sleep
\* after an unexpected exception ends by its timeout only.
WaitEnd ==
  /\ run \in {"backoff", "sleeping"}
  /\ LoopTop
  /\ UNCHANGED <<sock, attempt, stopping, callerVars, sendq, serverVars,
                 faults, bugs>>

\* stop(): the event is set and the socket closed, if there is one.
Stop ==
  /\ ~stopping
  /\ stopping' = TRUE
  /\ IF sock = "open" THEN CloseSocket ELSE UNCHANGED <<sock, serverVars>>
  /\ UNCHANGED <<run, connected, loginDone, attempt, callerVars, sendq,
                 faults, bugs>>

\* The run task leaves the line for the lock, if it is in it.
Withdraw ==
  \/ \E i \in 1..Len(sendq) :
       /\ sendq[i].by = RunTask
       /\ sendq' = SubSeq(sendq, 1, i - 1) \o SubSeq(sendq, i + 1, Len(sendq))
  \/ /\ \A i \in 1..Len(sendq) : sendq[i].by # RunTask
     /\ UNCHANGED sendq

\* stop() has waited for five seconds: the task is cancelled where it is.
\* Cancelled inside the async with, the socket is closed on the way out.
StopCancel ==
  /\ stopping
  /\ run \notin {"off", "dead"}
  /\ run' = "off"
  /\ IF run = "reading"
     THEN ReadFinally
     ELSE /\ sock' = IF sock = "open" THEN "closed" ELSE sock
          /\ UNCHANGED connected
  /\ Withdraw
  /\ wire' = <<>>
  /\ authed' = FALSE
  /\ server' = {}
  /\ UNCHANGED <<loginDone, attempt, stopping, callerVars, faults, bugs>>

-----------------------------------------------------------------------------
(* subscribe / unsubscribe *)

\* Registered first; the frame goes out only for a new key on a connection
\* that is up, else the next _resubscribe_all sends it.
Subscribe(c, k) ==
  /\ pc[c] = "idle"
  /\ run # "off"
  /\ AddRef(k)
  /\ key' = [key EXCEPT ![c] = k]
  /\ IF FirstRef(k) /\ IsConnected
     THEN /\ pc' = [pc EXCEPT ![c] = "subscribing"]
          /\ sendq' = Append(sendq, Frame("subscribe", {k}, c))
     ELSE /\ pc' = [pc EXCEPT ![c] = "holding"]
          /\ UNCHANGED sendq
  /\ UNCHANGED <<connVars, serverVars, faults, bugs>>

Unsubscribe(c) ==
  /\ pc[c] = "holding"
  /\ DropRef(key[c])
  /\ IF LastRef(key[c]) /\ IsConnected
     THEN /\ pc' = [pc EXCEPT ![c] = "leaving"]
          /\ sendq' = Append(sendq, Frame("unsubscribe", {key[c]}, c))
     ELSE /\ pc' = [pc EXCEPT ![c] = "idle"]
          /\ UNCHANGED sendq
  /\ UNCHANGED <<connVars, key, serverVars, faults, bugs>>

\* send(): whoever is first in line for _send_lock writes to the socket that
\* self._ws refers to by then, or fails with it.
Sent(f) ==
  /\ sock = "open"
  /\ Len(wire) < MaxWire
  /\ wire' = Append(wire, f)
  /\ IF f.by = RunTask
     THEN run' = "reading" /\ UNCHANGED pc
     ELSE /\ pc' = [pc EXCEPT ![f.by] =
                      IF f.op = "subscribe" THEN "holding" ELSE "idle"]
          /\ UNCHANGED run
  /\ UNCHANGED <<attempt, authed, server>>

\* ConnectionClosed, or AttributeError on None, is raised to the sender; the
\* registry keeps what it had recorded.
SendFailed(f) ==
  /\ sock # "open"
  /\ IF f.by = RunTask
     THEN BackOff /\ UNCHANGED pc
     ELSE /\ pc' = [pc EXCEPT ![f.by] =
                      IF f.op = "subscribe" THEN "failed" ELSE "idle"]
          /\ UNCHANGED <<run, attempt>>
  /\ UNCHANGED serverVars

SendNext ==
  /\ sendq # <<>>
  /\ sendq' = Tail(sendq)
  /\ Sent(Head(sendq)) \/ SendFailed(Head(sendq))
  /\ UNCHANGED <<connected, loginDone, sock, stopping, refs, key, faults, bugs>>

-----------------------------------------------------------------------------
(* The OKX server (external) *)

ServerStep ==
  /\ wire # <<>>
  /\ LET f == Head(wire) IN
       /\ authed' = (authed \/ f.op = "login")
       /\ server' = CASE f.op = "subscribe" /\ authed -> server \union f.keys
                      [] f.op = "unsubscribe" /\ authed -> server \ f.keys
                      [] OTHER -> server
  /\ wire' = Tail(wire)
  /\ UNCHANGED <<connVars, callerVars, sendq, faults, bugs>>

-----------------------------------------------------------------------------
RunStep ==
  \/ ConnectOk
  \/ LoginOk
  \/ LoginFail
  \/ ReadEndClean
  \/ ReadEndError
  \/ WaitEnd
  \/ StopCancel

Next ==
  \/ Start
  \/ RunStep
  \/ ConnectFail
  \/ LinkDrop
  \/ ReadUnexpected
  \/ Stop
  \/ \E c \in Callers, k \in Keys : Subscribe(c, k)
  \/ \E c \in Callers : Unsubscribe(c)
  \/ SendNext
  \/ ServerStep

\* The event loop runs what is ready, every wait in _run has a timeout, and a
\* server that is reachable reads its socket.  Callers and faults owe nothing.
Fairness ==
  /\ WF_vars(RunStep)
  /\ WF_vars(SendNext)
  /\ WF_vars(ServerStep)

Spec == Init /\ [][Next]_vars
FairSpec == Spec /\ Fairness

-----------------------------------------------------------------------------
(* Properties *)

RunStates == {"off", "connecting", "login", "resubscribing", "reading",
              "backoff", "sleeping", "dead"}

FrameType == [op : {"login", "subscribe", "unsubscribe"},
              keys : SUBSET Keys, by : Callers \union {RunTask}]

\* Types; a key never counts more references than there are callers.
TypeOK ==
  /\ run \in RunStates
  /\ connected \in BOOLEAN
  /\ loginDone \in BOOLEAN
  /\ sock \in {"none", "open", "closed"}
  /\ attempt \in 0..MaxAttempt
  /\ stopping \in BOOLEAN
  /\ refs \in [Keys -> 0..Cardinality(Callers)]
  /\ pc \in [Callers -> {"idle", "subscribing", "holding", "leaving", "failed"}]
  /\ key \in [Callers -> Keys]
  /\ sendq \in Seq(FrameType)
  /\ wire \in Seq(FrameType)
  /\ authed \in BOOLEAN
  /\ server \in SUBSET Keys
  /\ faults \in 0..MaxFaults
  /\ bugs \in 0..MaxBugs

Holders(k) == {c \in Callers : pc[c] \in {"subscribing", "holding"} /\ key[c] = k}

\* Once the endpoint reads and every frame has gone out and been processed,
\* the server pushes exactly the keys of the registry, however the subscribe
\* and unsubscribe calls fell into the connect, login and resubscribe steps of
\* this connection and of the ones before it.
ServerFollowsRegistry ==
  run = "reading" /\ sock = "open" /\ sendq = <<>> /\ wire = <<>>
    => server = Active

\* A key some task holds is in the registry, so that the next connection asks
\* for it; a key nobody holds stays there only when a subscribe call raised.
RegistryCoversHolders ==
  \A k \in Keys :
    /\ Holders(k) # {} => refs[k] > 0
    /\ refs[k] > Cardinality(Holders(k)) =>
         \E c \in Callers : pc[c] = "failed" /\ key[c] = k

\* A task that holds a key gets it from the server, through every fault of
\* the network, as long as it holds it, the endpoint is not stopped and no
\* unexpected exception has ended its run task.
HeldIsPushed ==
  \A k \in Keys :
    (Holders(k) # {} /\ ~stopping)
      ~> (k \in server \/ Holders(k) = {} \/ stopping \/ run = "dead")

\* stop() comes to an end wherever the run task is.
StopEnds == stopping ~> run \in {"off", "dead"}

\* What the endpoint owes its callers (_run, stop): keys that are held are
\* pushed again after every fault, and stopping it ends.
EndpointRecovers == HeldIsPushed /\ StopEnds

=============================================================================
