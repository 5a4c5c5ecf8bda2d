------------------------------ MODULE WSClient ------------------------------
(***************************************************************************)
(* OKXWSClient (ws/client.py) with its Dispatcher and WSTradeClient: calls *)
(* for one endpoint start its connection on demand, trading operations are *)
(* matched with their answers by request id, and pushed frames go to the   *)
(* queues of the iterators.  The connection itself is WSConnection; here   *)
(* it is up, on its way or gone.                                           *)
(***************************************************************************)
EXTENDS Integers, Sequences

CONSTANTS Requests,   \* place, cancel and amend operations
          QueueSize,  \* queue_maxsize of the Dispatcher
          MaxFrames   \* bound: frames pushed in a behaviour

VARIABLES
  part,      \* "ws" for operations, "stream" for an iterator; fixed in Init
  closed,    \* _closed of the client
  conn,      \* the connection in _connections, "none" when there is none
  call,      \* each operation: where its coroutine is
  pending,   \* _pending of WSTradeClient: operations whose future is registered
  answer,    \* result of each future: "none", "ok" or "refused"
  wire,      \* operations OKX has not processed
  replies,   \* frames on their way back, in order
  executed,  \* operations OKX carried out
  stream,    \* the iterator of a subscription: "off", "open" or "reading"
  frames,    \* its queue, of frame numbers
  pushed,    \* history: number of the latest frame dispatched
  read       \* history: number of the latest frame the iterator yielded

callVars   == <<call, pending, answer, wire, replies, executed>>
streamVars == <<stream, frames, pushed, read>>
wvars == <<part, closed, conn, callVars, streamVars>>

Ongoing == {"starting", "sending", "waiting"}
Ended   == {"ok", "refused", "failed"}

Quiet ==
  /\ closed = FALSE /\ conn = "none"
  /\ call = [r \in Requests |-> "idle"] /\ pending = {}
  /\ answer = [r \in Requests |-> "none"]
  /\ wire = {} /\ replies = <<>> /\ executed = {}
  /\ stream = "off" /\ frames = <<>> /\ pushed = 0 /\ read = 0

Init == part \in {"ws", "stream"} /\ Quiet
-----------------------------------------------------------------------------
(* Connections.                                                            *)

(* _get_or_start: refused once the client is closed.  The first caller     *)
(* waits until the connection is up, later ones take it as it is.          *)
GetOrStart(r) ==
  CASE closed -> call' = [call EXCEPT ![r] = "failed"] /\ UNCHANGED <<conn, pending>>
    [] ~closed /\ conn = "none" ->
         conn' = "starting" /\ call' = [call EXCEPT ![r] = "starting"] /\ UNCHANGED pending
    [] ~closed /\ conn # "none" ->
         /\ call' = [call EXCEPT ![r] = "sending"] /\ pending' = pending \cup {r}
         /\ UNCHANGED conn

Begin(r) ==
  /\ part = "ws" /\ call[r] = "idle" /\ GetOrStart(r)
  /\ UNCHANGED <<part, closed, answer, wire, replies, executed, streamVars>>

(* wait_connected returns, or raises after its timeout and leaves the      *)
(* connection behind for the next caller.                                  *)
WaitConnected(r) ==
  /\ call[r] = "starting"
  /\ IF conn = "up"
     THEN call' = [call EXCEPT ![r] = "sending"] /\ pending' = pending \cup {r}
     ELSE call' = [call EXCEPT ![r] = "failed"] /\ UNCHANGED pending
  /\ UNCHANGED <<part, closed, conn, answer, wire, replies, executed, streamVars>>

ConnUp == /\ conn \in {"starting", "down"} /\ conn' = "up"
          /\ UNCHANGED <<part, closed, callVars, streamVars>>

(* What was on its way is lost with the socket; the futures stay.          *)
ConnDown == /\ conn = "up" /\ conn' = "down"
            /\ wire' = {} /\ replies' = <<>>
            /\ UNCHANGED <<part, closed, call, pending, answer, executed, streamVars>>

(* close() refuses new calls, then stops the connections.                  *)
Close == /\ part \in {"ws", "stream"} /\ ~closed /\ closed' = TRUE
         /\ UNCHANGED <<part, conn, callVars, streamVars>>

StopConn == /\ closed /\ conn # "none" /\ conn' = "none"
            /\ wire' = {} /\ replies' = <<>>
            /\ UNCHANGED <<part, closed, call, pending, answer, executed, streamVars>>
-----------------------------------------------------------------------------
(* Trading operations.                                                     *)

(* send() waits for the connection as long as it takes.                    *)
SendOp(r) ==
  /\ call[r] = "sending" /\ conn = "up"
  /\ call' = [call EXCEPT ![r] = "waiting"] /\ wire' = wire \cup {r}
  /\ UNCHANGED <<part, closed, conn, pending, answer, replies, executed, streamVars>>

Unregister(r) == pending \ {r}

(* The answer did not come in time, or the send raised.                    *)
GiveUpOn(r) ==
  /\ call[r] \in {"sending", "waiting"} /\ answer[r] = "none"
  /\ call[r] = "sending" => conn = "up"
  /\ call' = [call EXCEPT ![r] = "failed"] /\ pending' = Unregister(r)
  /\ UNCHANGED <<part, closed, conn, answer, wire, replies, executed, streamVars>>

(* OKX carries an operation out or refuses it, and answers.                *)
Process(r) ==
  /\ r \in wire /\ wire' = wire \ {r}
  /\ \E verdict \in {"ok", "refused"} :
       /\ replies' = Append(replies, [id |-> r, verdict |-> verdict])
       /\ executed' = IF verdict = "ok" THEN executed \cup {r} ELSE executed
  /\ UNCHANGED <<part, closed, conn, call, pending, answer, streamVars>>

\* Mutant: an answer completes the operation that is found first.
First(frame) == IF pending = {} THEN {} ELSE {CHOOSE r \in pending : TRUE}

Matching(frame) == pending \cap {frame.id}

(* _on_frame: try_complete takes the frame if its id is registered, else   *)
(* it goes to the dispatcher, which ignores it.                            *)
TryComplete ==
  /\ replies # <<>> /\ replies' = Tail(replies)
  /\ LET done == Matching(Head(replies))
     IN  /\ pending' = pending \ done
         /\ answer' = [r \in Requests |-> IF r \in done THEN Head(replies).verdict
                                          ELSE answer[r]]
  /\ UNCHANGED <<part, closed, conn, call, wire, executed, streamVars>>

(* The coroutine goes on with its answer.                                  *)
Answered(r) ==
  /\ call[r] = "waiting" /\ answer[r] # "none"
  /\ call' = [call EXCEPT ![r] = answer[r]]
  /\ UNCHANGED <<part, closed, conn, pending, answer, wire, replies, executed, streamVars>>

PlaceOrder(r) == WaitConnected(r) \/ SendOp(r) \/ GiveUpOn(r) \/ Answered(r)
-----------------------------------------------------------------------------
(* One iterator, from subscribe() to the end of its block.  The queue is   *)
(* made when the first frame is asked for.                                 *)
Subscribe ==
  /\ part = "stream" /\ stream = "off"
  /\ \/ conn = "none" /\ ~closed /\ conn' = "starting" /\ UNCHANGED stream
     \/ conn = "up" /\ ~closed /\ stream' = "open" /\ UNCHANGED conn
  /\ UNCHANGED <<part, closed, callVars, frames, pushed, read>>

IterEvents == /\ stream = "open" /\ stream' = "reading"
              /\ UNCHANGED <<part, closed, conn, callVars, frames, pushed, read>>

\* Mutant: a frame that finds the queue full is the one to go.
DropNewest(q, frame) == IF Len(q) < QueueSize THEN Append(q, frame) ELSE q

(* A full queue loses its oldest frame.                                    *)
Enqueue(q, frame) ==
  Append(IF Len(q) < QueueSize THEN q ELSE Tail(q), frame)

Dispatch == /\ conn = "up" /\ stream # "off" /\ pushed < MaxFrames
            /\ pushed' = pushed + 1
            /\ frames' = IF stream = "reading" THEN Enqueue(frames, pushed') ELSE frames
            /\ UNCHANGED <<part, closed, conn, callVars, stream, read>>

Yield == /\ stream = "reading" /\ frames # <<>>
         /\ read' = Head(frames) /\ frames' = Tail(frames)
         /\ UNCHANGED <<part, closed, conn, callVars, stream, pushed>>

(* The block is left: the queue is dropped, and the key is unsubscribed.   *)
LeaveBlock == /\ stream # "off" /\ stream' = "off" /\ frames' = <<>>
              /\ UNCHANGED <<part, closed, conn, callVars, pushed, read>>

Next ==
  \/ \E r \in Requests : Begin(r) \/ PlaceOrder(r) \/ Process(r)
  \/ ConnUp \/ ConnDown \/ Close \/ StopConn \/ TryComplete
  \/ Subscribe \/ IterEvents \/ Dispatch \/ Yield \/ LeaveBlock

(* Timeouts expire, coroutines that can go on do, close() stops what it    *)
(* found.  Nothing makes the connection come up.                           *)
Fairness == /\ \A r \in Requests : WF_wvars(WaitConnected(r)) /\ WF_wvars(GiveUpOn(r))
                                   /\ WF_wvars(Answered(r))
            /\ WF_wvars(StopConn)

Spec == Init /\ [][Next]_wvars /\ Fairness
-----------------------------------------------------------------------------
\* A full iterator queue never grows beyond its limit (Dispatcher.dispatch).
ClientTypeOK ==
  /\ closed \in BOOLEAN /\ conn \in {"none", "starting", "up", "down"}
  /\ call \in [Requests -> {"idle"} \cup Ongoing \cup Ended]
  /\ pending \subseteq Requests
  /\ answer \in [Requests -> {"none", "ok", "refused"}]
  /\ wire \subseteq Requests /\ executed \subseteq Requests
  /\ stream \in {"off", "open", "reading"}
  /\ frames \in Seq(1..MaxFrames) /\ Len(frames) <= QueueSize
  /\ pushed \in 0..MaxFrames /\ read \in 0..MaxFrames

(* An operation reported done was carried out, one reported refused was    *)
(* not, whatever answers arrive late.                                      *)
AnswersAreTrue ==
  \A r \in Requests : /\ call[r] = "ok" => r \in executed
                      /\ call[r] = "refused" => r \notin executed

(* A future is registered exactly while its caller waits without answer:   *)
(* none is left behind by a timeout, a failed send or a disconnect.        *)
PendingMatchesWaiters ==
  pending = {r \in Requests : call[r] \in {"sending", "waiting"} /\ answer[r] = "none"}

(* The iterator keeps what is most recent, in order, and nothing of an     *)
(* earlier block: its queue is the last frames dispatched.                 *)
QueueIsLatest ==
  frames # <<>> => /\ frames[Len(frames)] = pushed
                  /\ \A i \in 1..(Len(frames) - 1) : frames[i + 1] = frames[i] + 1
                  /\ Head(frames) > read

(* An operation that was sent comes to an end, also when the connection    *)
(* is lost.                                                                *)
SentResolves == \A r \in Requests : (call[r] = "waiting") ~> (call[r] \in Ended)
=============================================================================
