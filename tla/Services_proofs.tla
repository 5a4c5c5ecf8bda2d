---------------------------- MODULE Services_proofs ----------------------------
(***************************************************************************)
(* Proofs about the services around the strategies, one section for each:  *)
(* the token bucket, the WebSocket client, the market data client, the     *)
(* reports at the start, the risk pipeline and the PnL ledger, for every   *)
(* number of requests, sizes, windows, days and bounds.                    *)
(***************************************************************************)
EXTENDS MCServices, TLAPS, SequenceTheorems, FiniteSetTheorems, WellFoundedInduction


-----------------------------------------------------------------------------
(* The token bucket                                                        *)

\* What is granted in the window and what could be granted now are covered by
\* a full bucket and the refill of the window.
Credit == count * Period + Refilled <= Full + Capacity * age

\* A cool-down that waits for the lock keeps its Retry-After.
RetryAfterBounded == \A t \in Tasks : pc[t] = "limited" => left[t] \in 0..MaxCool

BucketInv == TypeOK /\ RetryAfterBounded /\ Credit

LEMMA FullType == Full \in Nat /\ Full >= Period
<1>1. Capacity \in Nat /\ Period \in Nat /\ Capacity >= 1 /\ Period >= 1
  BY ConstantsAssumption
<1>2. \A m, n \in Nat : m >= 1 => m * n \in Nat /\ m * n >= n
  OBVIOUS
<1> QED BY <1>1, <1>2 DEF Full

LEMMA ProductType ==
  ASSUME NEW m \in Nat, NEW n \in Nat
  PROVE  m * n \in Nat
OBVIOUS

\* One more factor.
LEMMA OneMore ==
  ASSUME NEW m \in Int, NEW n \in Int
  PROVE  /\ m * n \in Int
         /\ m * (n + 1) = m * n + m
         /\ (n + 1) * m = n * m + m
OBVIOUS

\* deficit / refill_rate is not negative.
LEMMA WaitType ==
  ASSUME NEW units \in Nat, units < Period
  PROVE  Wait(units) \in Nat
<1>1. Period - units + Capacity - 1 \in Nat
  BY ConstantsAssumption
<1>2. \A m \in Nat, n \in Nat \ {0} : m \div n \in Nat
  OBVIOUS
<1> QED BY <1>1, <1>2, ConstantsAssumption DEF Wait

\* Refilled, as a function of the tokens and of the time since the last refill.
Refill(k, e) == IF e > 0 THEN Least(Full, k + Capacity * e) ELSE k

\* The refill stays within the bucket and never takes a token away.
LEMMA RefillType ==
  ASSUME NEW k \in 0..Full, NEW e \in -MaxCool..Period
  PROVE  Refill(k, e) \in 0..Full /\ k <= Refill(k, e)
<1>1. CASE e > 0
  <2>1. e \in Nat
    BY <1>1, ConstantsAssumption
  <2>2. Capacity * e \in Nat
    BY <2>1, ProductType, ConstantsAssumption
  <2> QED BY <1>1, <2>2, FullType DEF Refill, Least
<1>2. CASE ~(e > 0)
  BY <1>2, FullType DEF Refill
<1> QED BY <1>1, <1>2

\* A tick adds at most the rate.
LEMMA RefillTick ==
  ASSUME NEW k \in 0..Full, NEW e \in -MaxCool..Period
  PROVE  Refill(k, e + 1) <= Refill(k, e) + Capacity
<1>1. CASE e > 0
  <2>1. Capacity * e \in Int /\ Capacity * (e + 1) = Capacity * e + Capacity
    BY OneMore, ConstantsAssumption
  <2> QED BY <1>1, <2>1, FullType, ConstantsAssumption DEF Refill, Least
<1>2. CASE e = 0
  <2>1. Capacity * 1 = Capacity
    BY ConstantsAssumption
  <2> QED BY <1>2, <2>1, FullType, ConstantsAssumption DEF Refill, Least
<1>3. CASE e < 0
  BY <1>3, FullType, ConstantsAssumption DEF Refill
<1> QED BY <1>1, <1>2, <1>3, ConstantsAssumption

LEMMA TypeInit == Init => TypeOK /\ RetryAfterBounded
BY FullType, ConstantsAssumption DEF Init, TypeOK, RetryAfterBounded

LEMMA CreditInit == Init => Credit
<1> SUFFICES ASSUME Init PROVE Credit
  OBVIOUS
<1>1. Refilled = Full
  BY DEF Init, Refilled
<1>2. count * Period = 0 /\ Capacity * age = 0
  BY ConstantsAssumption DEF Init
<1> QED BY <1>1, <1>2, FullType DEF Credit

\* The tokens and the elapsed time after the refill at the top of the loop.
LEMMA TurnType ==
  ASSUME TypeOK
  PROVE  /\ Refilled \in 0..Full
         /\ Refilled = Refill(tokens, elapsed)
         /\ Least(elapsed, 0) \in -MaxCool..Period
         /\ Least(elapsed, 0) <= 0
<1>1. Refilled = Refill(tokens, elapsed)
  BY DEF Refilled, Refill
<1>2. Refill(tokens, elapsed) \in 0..Full
  BY RefillType DEF TypeOK
<1>3. Least(elapsed, 0) \in -MaxCool..Period /\ Least(elapsed, 0) <= 0
  BY ConstantsAssumption DEF TypeOK, Least
<1> QED BY <1>1, <1>2, <1>3

LEMMA TypeStep ==
  ASSUME TypeOK, RetryAfterBounded, [Next]_vars
  PROVE  TypeOK' /\ RetryAfterBounded'
<1>1. CASE Tick
  BY <1>1, ConstantsAssumption DEF Tick, TypeOK, RetryAfterBounded
<1>2. CASE NewWindow
  BY <1>2, ConstantsAssumption DEF NewWindow, TypeOK, RetryAfterBounded
<1>3. ASSUME NEW t \in Tasks, Acquire(t)
      PROVE  TypeOK' /\ RetryAfterBounded'
  BY <1>3 DEF Acquire, TypeOK, RetryAfterBounded, history
<1>4. ASSUME NEW t \in Tasks, Grant(t)
      PROVE  TypeOK' /\ RetryAfterBounded'
  <2>1. tokens' \in 0..Full /\ elapsed' \in -MaxCool..Period
    BY <1>4, TurnType, FullType, ConstantsAssumption DEF Grant
  <2>2. queue' \in Seq(Tasks)
    BY <1>4 DEF Grant, HasLock, TypeOK
  <2> QED BY <1>4, <2>1, <2>2 DEF Grant, TypeOK, RetryAfterBounded
<1>5. ASSUME NEW t \in Tasks, Sleep(t)
      PROVE  TypeOK' /\ RetryAfterBounded'
  <2>1. Wait(Refilled) \in Nat
    BY <1>5, TurnType, WaitType DEF Sleep
  <2> QED
    BY <1>5, <2>1, TurnType DEF Sleep, KeepTurn, TypeOK, RetryAfterBounded, history
<1>6. ASSUME NEW t \in Tasks, Answered(t)
      PROVE  TypeOK' /\ RetryAfterBounded'
  BY <1>6 DEF Answered, TypeOK, RetryAfterBounded, history
<1>7. ASSUME NEW t \in Tasks, TooManyRequests(t)
      PROVE  TypeOK' /\ RetryAfterBounded'
  BY <1>7, ConstantsAssumption DEF TooManyRequests, TypeOK, RetryAfterBounded, history
<1>8. ASSUME NEW t \in Tasks, CoolDown(t)
      PROVE  TypeOK' /\ RetryAfterBounded'
  BY <1>8, FullType, ConstantsAssumption
     DEF CoolDown, HasLock, TypeOK, RetryAfterBounded, history
<1>9. ASSUME NEW t \in Tasks, CoolDownReturns(t)
      PROVE  TypeOK' /\ RetryAfterBounded'
  BY <1>9 DEF CoolDownReturns, TypeOK, RetryAfterBounded, history
<1>10. CASE UNCHANGED vars
  BY <1>10 DEF vars, TypeOK, RetryAfterBounded
<1> QED
  BY <1>1, <1>2, <1>3, <1>4, <1>5, <1>6, <1>7, <1>8, <1>9, <1>10 DEF Next, Turn

\* Each step leaves the credit balanced: a tick pays one rate on both sides, a
\* grant moves one token from what could be granted to what is, and nothing
\* else adds to either.
LEMMA CreditStep ==
  ASSUME TypeOK, TypeOK', RetryAfterBounded, Credit, [Next]_vars
  PROVE  Credit'
<1> DEFINE after == Refill(tokens', elapsed')
<1>1. /\ Refilled = Refill(tokens, elapsed) /\ Refilled' = after
      /\ Refilled \in 0..Full /\ after \in 0..Full
  BY RefillType DEF TypeOK, Refilled, Refill
<1>2. /\ count * Period \in Int /\ count' * Period \in Int
      /\ Capacity * age \in Int /\ Capacity * age' \in Int
  BY ProductType, ConstantsAssumption DEF TypeOK
<1>3. ASSUME after <= Refilled, UNCHANGED history
      PROVE  Credit'
  BY <1>1, <1>2, <1>3, FullType DEF Credit, history
<1>4. ASSUME age' = 0, count' = 0
      PROVE  Credit'
  <2>1. count' * Period = 0 /\ Capacity * age' = 0
    BY <1>4, ConstantsAssumption
  <2> QED BY <1>1, <2>1, FullType DEF Credit
<1>5. CASE Tick
  <2>1. CASE age < MaxAge
    <3>1. after <= Refilled + Capacity
      BY <1>1, <1>5, RefillTick, ConstantsAssumption DEF Tick, TypeOK
    <3>2. Capacity * age' = Capacity * age + Capacity
      BY <1>5, <2>1, OneMore, ConstantsAssumption DEF Tick, TypeOK
    <3>3. count' = count
      BY <1>5, <2>1 DEF Tick
    <3> QED BY <1>1, <1>2, <3>1, <3>2, <3>3, FullType, ConstantsAssumption DEF Credit
  <2>2. CASE ~(age < MaxAge)
    BY <1>4, <1>5, <2>2 DEF Tick
  <2> QED BY <2>1, <2>2
<1>6. CASE NewWindow
  BY <1>4, <1>6 DEF NewWindow
<1>7. ASSUME NEW t \in Tasks, Grant(t)
      PROVE  Credit'
  <2>1. after = Refilled - Period
    BY <1>7, TurnType DEF Grant, Refill
  <2>2. count' * Period = count * Period + Period
    BY <1>7, OneMore, ConstantsAssumption DEF Grant, TypeOK
  <2>3. age' = age
    BY <1>7 DEF Grant
  <2> QED BY <1>1, <1>2, <2>1, <2>2, <2>3, FullType, ConstantsAssumption DEF Credit
<1>8. ASSUME NEW t \in Tasks, Sleep(t)
      PROVE  Credit'
  <2>1. after = Refilled
    BY <1>8, TurnType DEF Sleep, Refill
  <2> QED BY <1>1, <1>3, <1>8, <2>1 DEF Sleep
<1>9. ASSUME NEW t \in Tasks, CoolDown(t)
      PROVE  Credit'
  <2>1. left[t] >= 0 /\ left[t] \in Int
    BY <1>9 DEF CoolDown, TypeOK
  <2>2. after = 0
    BY <1>9, <2>1 DEF CoolDown, Refill
  <2> QED BY <1>1, <1>3, <1>9, <2>2 DEF CoolDown
<1>10. ASSUME UNCHANGED <<tokens, elapsed, history>>
       PROVE  Credit'
  BY <1>1, <1>3, <1>10
<1>11. ASSUME NEW t \in Tasks,
              Acquire(t) \/ Answered(t) \/ TooManyRequests(t) \/ CoolDownReturns(t)
       PROVE  Credit'
  BY <1>10, <1>11 DEF Acquire, Answered, TooManyRequests, CoolDownReturns
<1>12. CASE UNCHANGED vars
  BY <1>10, <1>12 DEF vars, history
<1> QED
  BY <1>5, <1>6, <1>7, <1>8, <1>9, <1>11, <1>12 DEF Next, Turn

LEMMA BucketInit == Init => BucketInv
BY TypeInit, CreditInit DEF BucketInv

LEMMA NextBucket == ASSUME BucketInv, Next PROVE BucketInv'
<1>1. TypeOK' /\ RetryAfterBounded'
  BY TypeStep DEF BucketInv
<1>2. Credit'
  BY <1>1, CreditStep DEF BucketInv
<1> QED BY <1>1, <1>2 DEF BucketInv

LEMMA BucketHolds == ASSUME BucketInv PROVE TypeOK /\ GrantsBounded
<1>1. Refilled \in 0..Full
  BY TurnType DEF BucketInv
<1>2. count * Period \in Int /\ Capacity * age \in Int
  BY ProductType, ConstantsAssumption DEF BucketInv, TypeOK
<1> QED BY <1>1, <1>2, FullType DEF BucketInv, Credit, GrantsBounded
-----------------------------------------------------------------------------
(* The WebSocket client                                                    *)

(* OKX has dealt with r, which was sent once, and v is what it said.       *)
Told(r, v) ==
  /\ r \notin wire /\ call[r] \notin {"idle", "starting", "sending"}
  /\ v = "ok" <=> r \in executed

Verdicts == {"ok", "refused"}
Replies  == [id : Requests, verdict : Verdicts]

OpsInv ==
  /\ call \in [Requests -> {"idle"} \cup Client!Ongoing \cup Client!Ended]
  /\ answer \in [Requests -> {"none"} \cup Verdicts]
  /\ wire \subseteq Requests /\ executed \subseteq Requests /\ replies \in Seq(Replies)
  /\ Client!PendingMatchesWaiters
  /\ \A r \in wire : call[r] \in {"waiting", "failed"}
  /\ \A r \in Requests : r \in wire \/ call[r] \in {"idle", "starting", "sending"}
                           => r \notin executed
  /\ \A i \in 1..Len(replies) : Told(replies[i].id, replies[i].verdict)
  /\ \A r \in Requests : /\ answer[r] # "none" => Told(r, answer[r])
                         /\ call[r] \in Verdicts => answer[r] = call[r]

(* The queue holds the latest frames, and the reader is behind them.       *)
StreamInv ==
  /\ closed \in BOOLEAN /\ conn \in {"none", "starting", "up", "down"}
  /\ stream \in {"off", "open", "reading"} /\ pushed \in 0..MaxFrames
  /\ frames \in Seq(1..MaxFrames) /\ Len(frames) <= QueueSize
  /\ stream # "reading" => frames = <<>>
  /\ \A i \in 1..Len(frames) : frames[i] = pushed - Len(frames) + i
  /\ read \in 0..(pushed - Len(frames))

ClientInv == OpsInv /\ StreamInv

LEMMA ReplyType ==
  ASSUME NEW s \in Seq(Replies), NEW i \in 1..Len(s)
  PROVE  s[i].id \in Requests /\ s[i].verdict \in Verdicts
<1>1. s[i] \in Replies
  BY ElementOfSeq
<1> QED BY <1>1 DEF Replies

LEMMA ClientInit == Client!Quiet => ClientInv
<1> SUFFICES ASSUME Client!Quiet PROVE ClientInv
  OBVIOUS
<1>1. OpsInv
  BY DEF Client!Quiet, OpsInv, Client!PendingMatchesWaiters, Client!Ongoing, Client!Ended,
         Replies, Verdicts
<1>2. MaxFrames \in Nat /\ QueueSize \in Nat
  BY ServiceAssumption
<1>3. Len(frames) = 0 /\ frames \in Seq(1..MaxFrames) /\ pushed = 0 /\ read = 0
  BY EmptySeq DEF Client!Quiet
<1>4. pushed - Len(frames) = 0 /\ read \in 0..(pushed - Len(frames)) /\ pushed \in 0..MaxFrames
  BY <1>2, <1>3
<1>5. \A i \in 1..Len(frames) : frames[i] = pushed - Len(frames) + i
  BY <1>3
<1>6. Len(frames) <= QueueSize
  BY <1>2, <1>3
<1>7. closed = FALSE /\ conn = "none" /\ stream = "off" /\ frames = <<>>
  BY DEF Client!Quiet
<1>8. StreamInv
  BY <1>3, <1>4, <1>5, <1>6, <1>7 DEF StreamInv
<1> QED BY <1>1, <1>8 DEF ClientInv

LEMMA OpsUnmoved ==
  ASSUME OpsInv, UNCHANGED Client!callVars PROVE OpsInv'
BY DEF OpsInv, Client!callVars, Client!PendingMatchesWaiters, Told

LEMMA StreamUnmoved ==
  ASSUME StreamInv, UNCHANGED <<closed, conn, Client!streamVars>> PROVE StreamInv'
BY DEF StreamInv, Client!streamVars

(* A call that has not been answered goes from one state to the next.      *)
LEMMA CallMoves ==
  ASSUME OpsInv, NEW r \in Requests,
         NEW to \in {"starting", "sending", "failed"},
         call[r] \in {"idle", "starting"},
         call' = [call EXCEPT ![r] = to],
         pending' = IF to = "sending" THEN pending \cup {r} ELSE pending,
         UNCHANGED <<answer, wire, replies, executed>>
  PROVE  OpsInv'
<1>1. call' \in [Requests -> {"idle"} \cup Client!Ongoing \cup Client!Ended]
  BY DEF OpsInv, Client!Ongoing, Client!Ended
<1>2. answer[r] = "none" /\ r \notin wire
  BY DEF OpsInv, Told, Verdicts
<1>3. \A s \in Requests, v \in Verdicts : Told(s, v) => Told(s, v)'
  BY DEF OpsInv, Told
<1>4. Client!PendingMatchesWaiters'
  BY <1>2 DEF OpsInv, Client!PendingMatchesWaiters
<1>5. \A i \in 1..Len(replies) : replies[i].id \in Requests /\ replies[i].verdict \in Verdicts
  BY ReplyType DEF OpsInv
<1>6. \A s \in wire : s # r
  BY <1>2
<1>7. \A s \in Requests : call'[s] \in Verdicts => call[s] = call'[s]
  BY DEF OpsInv, Verdicts
<1> QED BY <1>1, <1>3, <1>4, <1>5, <1>6, <1>7 DEF OpsInv, Verdicts

LEMMA BeginPreserves ==
  ASSUME ClientInv, NEW r \in Requests, Client!Begin(r) \/ Client!WaitConnected(r)
  PROVE  ClientInv'
<1>1. CASE Client!Begin(r)
  <2>1. PICK to \in {"starting", "sending", "failed"} :
          /\ call' = [call EXCEPT ![r] = to]
          /\ pending' = IF to = "sending" THEN pending \cup {r} ELSE pending
    <3>1. CASE closed
      BY <1>1, <3>1 DEF Client!Begin, Client!GetOrStart
    <3>2. CASE ~closed /\ conn = "none"
      BY <1>1, <3>2 DEF Client!Begin, Client!GetOrStart
    <3>3. CASE ~closed /\ conn # "none"
      BY <1>1, <3>3 DEF Client!Begin, Client!GetOrStart
    <3> QED BY <3>1, <3>2, <3>3
  <2>2. OpsInv'
    BY <1>1, <2>1, CallMoves DEF ClientInv, Client!Begin
  <2>3. /\ UNCHANGED <<closed, stream, frames, pushed, read>>
        /\ conn' \in {conn, "starting"}
    BY <1>1 DEF Client!Begin, Client!GetOrStart, Client!streamVars
  <2> QED BY <2>2, <2>3 DEF ClientInv, StreamInv
<1>2. CASE Client!WaitConnected(r)
  <2>1. PICK to \in {"sending", "failed"} :
          /\ call' = [call EXCEPT ![r] = to]
          /\ pending' = IF to = "sending" THEN pending \cup {r} ELSE pending
    BY <1>2 DEF Client!WaitConnected
  <2>2. OpsInv'
    BY <1>2, <2>1, CallMoves DEF ClientInv, Client!WaitConnected
  <2> QED BY <1>2, <2>2, StreamUnmoved DEF ClientInv, Client!WaitConnected
<1> QED BY <1>1, <1>2

(* Losing the socket takes what was on its way with it, and nothing else.  *)
LEMMA ConnPreserves ==
  ASSUME ClientInv,
         Client!ConnUp \/ Client!ConnDown \/ Client!Close \/ Client!StopConn
  PROVE  ClientInv'
<1>1. OpsInv'
  <2>1. CASE UNCHANGED Client!callVars
    BY <2>1, OpsUnmoved DEF ClientInv
  <2>2. CASE wire' = {} /\ replies' = <<>> /\ UNCHANGED <<call, pending, answer, executed>>
    BY <2>2 DEF ClientInv, OpsInv, Client!PendingMatchesWaiters, Told
  <2> QED BY <2>1, <2>2 DEF Client!ConnUp, Client!ConnDown, Client!Close, Client!StopConn
<1>2. StreamInv'
  BY DEF ClientInv, StreamInv, Client!ConnUp, Client!ConnDown, Client!Close, Client!StopConn,
         Client!streamVars
<1> QED BY <1>1, <1>2 DEF ClientInv

LEMMA SendPreserves ==
  ASSUME ClientInv, NEW r \in Requests, Client!SendOp(r) PROVE ClientInv'
<1>1. OpsInv /\ call[r] = "sending" /\ call' = [call EXCEPT ![r] = "waiting"]
      /\ wire' = wire \cup {r} /\ UNCHANGED <<pending, answer, replies, executed>>
  BY DEF ClientInv, Client!SendOp
<1>2. call' \in [Requests -> {"idle"} \cup Client!Ongoing \cup Client!Ended]
  BY <1>1 DEF OpsInv, Client!Ongoing, Client!Ended
<1>3. \A s \in Requests, v \in Verdicts : Told(s, v) => Told(s, v)'
  BY <1>1 DEF OpsInv, Told
<1>4. Client!PendingMatchesWaiters'
  BY <1>1 DEF OpsInv, Client!PendingMatchesWaiters
<1>5. \A i \in 1..Len(replies) : replies[i].id \in Requests /\ replies[i].verdict \in Verdicts
  BY <1>1, ReplyType DEF OpsInv
<1>6. OpsInv'
  BY <1>1, <1>2, <1>3, <1>4, <1>5 DEF OpsInv, Verdicts
<1> QED BY <1>6, StreamUnmoved DEF ClientInv, Client!SendOp

(* A caller goes on, with its answer or without one.                       *)
LEMMA EndPreserves ==
  ASSUME ClientInv, NEW r \in Requests, Client!GiveUpOn(r) \/ Client!Answered(r)
  PROVE  ClientInv'
<1>1. PICK to \in {"ok", "refused", "failed"} :
        /\ call' = [call EXCEPT ![r] = to]
        /\ pending' = pending \ {r}
        /\ to # "failed" => answer[r] = to
  <2>1. CASE Client!GiveUpOn(r)
    BY <2>1 DEF Client!GiveUpOn, Client!Unregister
  <2>2. CASE Client!Answered(r)
    <3>1. answer[r] \in Verdicts /\ r \notin pending
      BY <2>2 DEF ClientInv, OpsInv, Client!PendingMatchesWaiters, Client!Answered
    <3> QED BY <2>2, <3>1 DEF Client!Answered, Verdicts
  <2> QED BY <2>1, <2>2
<1>2. OpsInv /\ call[r] \in {"sending", "waiting"} /\ UNCHANGED <<answer, wire, replies, executed>>
  BY DEF ClientInv, Client!GiveUpOn, Client!Answered
<1>3. call' \in [Requests -> {"idle"} \cup Client!Ongoing \cup Client!Ended]
  BY <1>1, <1>2 DEF OpsInv, Client!Ongoing, Client!Ended
<1>4. r \in wire => call[r] = "waiting" /\ call'[r] = "failed"
  BY <1>1, <1>2 DEF OpsInv, Told
<1>5. \A s \in Requests, v \in Verdicts : Told(s, v) => Told(s, v)'
  BY <1>1, <1>2 DEF OpsInv, Told
<1>6. Client!PendingMatchesWaiters'
  BY <1>1, <1>2 DEF OpsInv, Client!PendingMatchesWaiters
<1>7. \A i \in 1..Len(replies) : replies[i].id \in Requests /\ replies[i].verdict \in Verdicts
  BY <1>2, ReplyType DEF OpsInv
<1>8. OpsInv'
  BY <1>1, <1>2, <1>3, <1>4, <1>5, <1>6, <1>7 DEF OpsInv, Verdicts
<1>9. UNCHANGED <<closed, conn, Client!streamVars>>
  BY DEF Client!GiveUpOn, Client!Answered
<1> QED BY <1>8, <1>9, StreamUnmoved DEF ClientInv

(* OKX carries out or refuses what it has not dealt with before.           *)
LEMMA ProcessPreserves ==
  ASSUME ClientInv, NEW r \in Requests, Client!Process(r) PROVE ClientInv'
<1>1. PICK v \in Verdicts :
        /\ replies' = Append(replies, [id |-> r, verdict |-> v])
        /\ executed' = IF v = "ok" THEN executed \cup {r} ELSE executed
  BY DEF Client!Process, Verdicts
<1>2. OpsInv /\ r \in wire /\ wire' = wire \ {r} /\ UNCHANGED <<call, pending, answer>>
  BY DEF ClientInv, Client!Process
<1>3. [id |-> r, verdict |-> v] \in Replies
  BY DEF Replies
<1>4. /\ replies' \in Seq(Replies) /\ Len(replies') = Len(replies) + 1
      /\ \A i \in 1..Len(replies) : replies'[i] = replies[i]
      /\ replies'[Len(replies) + 1] = [id |-> r, verdict |-> v]
  BY <1>1, <1>2, <1>3, AppendProperties DEF OpsInv
<1>5. \A s \in Requests, w \in Verdicts : Told(s, w) => Told(s, w)'
  BY <1>1, <1>2 DEF Told
<1>6. Told(r, v)'
  BY <1>1, <1>2 DEF OpsInv, Told, Verdicts
<1>7. \A i \in 1..Len(replies) : replies[i].id \in Requests /\ replies[i].verdict \in Verdicts
  BY <1>2, ReplyType DEF OpsInv
<1>8. (\A i \in 1..Len(replies) : Told(replies[i].id, replies[i].verdict))'
  BY <1>2, <1>4, <1>5, <1>6, <1>7 DEF OpsInv
<1>9. answer \in [Requests -> {"none"} \cup Verdicts]
  BY <1>2 DEF OpsInv
<1>10. (\A s \in Requests : answer[s] # "none" => Told(s, answer[s]))'
  BY <1>2, <1>5, <1>9 DEF OpsInv
<1>11. Client!PendingMatchesWaiters'
  BY <1>2 DEF OpsInv, Client!PendingMatchesWaiters
<1>12. /\ wire' \subseteq Requests /\ executed' \subseteq Requests
       /\ \A s \in Requests : s \in wire' \/ call'[s] \in {"idle", "starting", "sending"}
                                => s \notin executed'
  BY <1>1, <1>2 DEF OpsInv
<1>13. OpsInv'
  BY <1>2, <1>4, <1>8, <1>10, <1>11, <1>12 DEF OpsInv
<1> QED BY <1>13, StreamUnmoved DEF ClientInv, Client!Process

(* An answer is that of the caller whose id it carries, if one waits.      *)
LEMMA CompletePreserves ==
  ASSUME ClientInv, Client!TryComplete PROVE ClientInv'
<1> DEFINE first == Head(replies)
           done  == Client!Matching(first)
<1>1. OpsInv /\ replies # <<>> /\ replies' = Tail(replies)
      /\ pending' = pending \ done
      /\ answer' = [r \in Requests |-> IF r \in done THEN first.verdict ELSE answer[r]]
      /\ UNCHANGED <<call, wire, executed>>
  BY DEF ClientInv, Client!TryComplete
<1>2. /\ first \in Replies /\ replies' \in Seq(Replies) /\ Len(replies') = Len(replies) - 1
      /\ \A i \in 1..Len(replies') : replies'[i] = replies[i + 1]
      /\ Len(replies) \in Nat /\ Len(replies) >= 1 /\ first = replies[1]
  BY <1>1, HeadTailProperties DEF OpsInv
<1>3. \A s \in Requests, v \in Verdicts : Told(s, v) => Told(s, v)'
  BY <1>1 DEF Told
<1>4. \A i \in 1..Len(replies) : replies[i].id \in Requests /\ replies[i].verdict \in Verdicts
  BY <1>1, ReplyType DEF OpsInv
<1>5. (\A i \in 1..Len(replies) : Told(replies[i].id, replies[i].verdict))'
  <2> SUFFICES ASSUME NEW i \in 1..Len(replies') PROVE Told(replies[i].id, replies[i].verdict)'
    OBVIOUS
  <2>1. i + 1 \in 1..Len(replies) /\ replies'[i] = replies[i + 1]
    BY <1>2
  <2> QED BY <1>1, <1>3, <1>4, <2>1 DEF OpsInv
<1>6. first.verdict \in Verdicts /\ first.id \in Requests /\ Told(first.id, first.verdict)
  BY <1>1, <1>2, <1>4 DEF OpsInv
<1>7. done = pending \cap {first.id}
  BY DEF Client!Matching
<1>8. answer' \in [Requests -> {"none"} \cup Verdicts]
  BY <1>1, <1>6 DEF OpsInv
<1>9. (\A s \in Requests : answer[s] # "none" => Told(s, answer[s]))'
  <2> SUFFICES ASSUME NEW s \in Requests, answer'[s] # "none" PROVE Told(s, answer[s])'
    OBVIOUS
  <2>1. CASE s \in done
    BY <1>1, <1>3, <1>6, <1>7, <2>1
  <2>2. CASE s \notin done
    BY <1>1, <1>3, <2>2 DEF OpsInv
  <2> QED BY <2>1, <2>2
<1>10. Client!PendingMatchesWaiters'
  <2>1. \A s \in Requests : answer'[s] = "none" <=> answer[s] = "none" /\ s \notin done
    BY <1>1, <1>6 DEF Verdicts
  <2> QED BY <1>1, <1>7, <2>1 DEF OpsInv, Client!PendingMatchesWaiters
<1>11. \A s \in Requests : call'[s] \in Verdicts => answer'[s] = call'[s]
  BY <1>1, <1>7 DEF OpsInv, Client!PendingMatchesWaiters, Verdicts
<1>12. OpsInv'
  BY <1>1, <1>2, <1>5, <1>8, <1>9, <1>10, <1>11 DEF OpsInv
<1> QED BY <1>12, StreamUnmoved DEF ClientInv, Client!TryComplete

(* The iterator.                                                           *)
LEMMA FrameAppended ==
  ASSUME StreamInv, UNCHANGED <<closed, conn, stream, read>>, stream = "reading",
         pushed' = pushed + 1, pushed < MaxFrames,
         NEW kept \in Seq(1..MaxFrames), frames' = Append(kept, pushed + 1),
         Len(kept) < QueueSize, Len(kept) <= Len(frames),
         \A i \in 1..Len(kept) : kept[i] = pushed - Len(kept) + i
  PROVE  StreamInv'
<1>1. /\ pushed \in Nat /\ MaxFrames \in Nat /\ QueueSize \in Nat /\ Len(kept) \in Nat
      /\ Len(frames) \in Nat
  BY ServiceAssumption DEF StreamInv
<1>2. pushed + 1 \in 1..MaxFrames
  BY <1>1
<1>3. /\ frames' \in Seq(1..MaxFrames) /\ Len(frames') = Len(kept) + 1
      /\ \A i \in 1..Len(kept) : frames'[i] = kept[i]
      /\ frames'[Len(kept) + 1] = pushed + 1
  BY <1>2, AppendProperties
<1>4. PICK n \in Nat : n = Len(kept)
  BY <1>1
<1>5. \A i \in 1..(n + 1) : frames'[i] = pushed + 1 - (n + 1) + i
  BY <1>1, <1>3, <1>4
<1>6. read \in 0..(pushed + 1 - (n + 1)) /\ n + 1 <= QueueSize
  BY <1>1, <1>4 DEF StreamInv
<1> QED BY <1>1, <1>2, <1>3, <1>4, <1>5, <1>6 DEF StreamInv

LEMMA DispatchPreserves ==
  ASSUME ClientInv, Client!Dispatch PROVE ClientInv'
<1>1. OpsInv'
  BY OpsUnmoved DEF ClientInv, Client!Dispatch
<1>2. /\ StreamInv /\ pushed < MaxFrames /\ pushed' = pushed + 1
      /\ UNCHANGED <<closed, conn, stream, read>>
      /\ pushed \in Nat /\ QueueSize \in Nat \ {0} /\ Len(frames) \in Nat
      /\ MaxFrames \in Nat
  BY ServiceAssumption DEF ClientInv, StreamInv, Client!Dispatch
<1>3. CASE stream # "reading"
  <2>1. frames' = frames /\ Len(frames) = 0
    BY <1>2, <1>3 DEF StreamInv, Client!Dispatch
  <2> QED BY <1>1, <1>2, <1>3, <2>1 DEF StreamInv, ClientInv
<1>4. CASE stream = "reading"
  <2>1. CASE Len(frames) < QueueSize
    <3>1. frames' = Append(frames, pushed + 1)
      BY <1>2, <1>4, <2>1 DEF Client!Enqueue, Client!Dispatch
    <3>2. StreamInv'
      BY <1>2, <1>4, <2>1, <3>1, FrameAppended DEF StreamInv
    <3> QED BY <1>1, <3>2 DEF ClientInv
  <2>2. CASE ~(Len(frames) < QueueSize)
    <3>1. frames' = Append(Tail(frames), pushed + 1)
      BY <1>2, <1>4, <2>2 DEF Client!Enqueue, Client!Dispatch
    <3>2. frames # <<>> /\ Len(frames) = QueueSize
      BY <1>2, <2>2 DEF StreamInv
    <3>3. PICK kept \in Seq(1..MaxFrames) :
            /\ kept = Tail(frames) /\ Len(kept) = Len(frames) - 1
            /\ \A i \in 1..Len(kept) : kept[i] = frames[i + 1]
      BY <1>2, <3>2, HeadTailProperties DEF StreamInv
    <3>4. \A i \in 1..Len(kept) : frames[i + 1] = pushed - Len(frames) + (i + 1)
      BY <1>2, <3>3 DEF StreamInv
    <3>5. \A i \in 1..Len(kept) : kept[i] = pushed - Len(kept) + i
      BY <1>2, <3>3, <3>4
    <3>6. frames' = Append(kept, pushed + 1) /\ Len(kept) < QueueSize /\ Len(kept) <= Len(frames)
      BY <1>2, <3>1, <3>2, <3>3
    <3>7. StreamInv'
      BY <1>2, <1>4, <3>5, <3>6, FrameAppended
    <3> QED BY <1>1, <3>7 DEF ClientInv
  <2> QED BY <2>1, <2>2
<1> QED BY <1>3, <1>4

LEMMA IterPreserves ==
  ASSUME ClientInv,
         Client!Subscribe \/ Client!IterEvents \/ Client!Yield \/ Client!LeaveBlock
  PROVE  ClientInv'
<1>1. OpsInv'
  BY OpsUnmoved DEF ClientInv, Client!Subscribe, Client!IterEvents, Client!Yield,
     Client!LeaveBlock
<1>2. StreamInv /\ Len(frames) \in Nat /\ pushed \in Nat
  BY DEF ClientInv, StreamInv
<1>3. CASE Client!Subscribe
  BY <1>1, <1>2, <1>3 DEF Client!Subscribe, StreamInv, ClientInv
<1>4. CASE Client!IterEvents
  BY <1>1, <1>2, <1>4 DEF Client!IterEvents, StreamInv, ClientInv
<1>5. CASE Client!LeaveBlock
  <2>1. Len(frames') = 0 /\ frames' \in Seq(1..MaxFrames)
    BY <1>5, EmptySeq DEF Client!LeaveBlock
  <2> QED BY <1>1, <1>2, <1>5, <2>1, ServiceAssumption
          DEF Client!LeaveBlock, StreamInv, ClientInv
<1>6. CASE Client!Yield
  <2>1. /\ frames' \in Seq(1..MaxFrames) /\ Len(frames') = Len(frames) - 1
        /\ \A i \in 1..Len(frames') : frames'[i] = frames[i + 1]
        /\ read' = frames[1] /\ Len(frames) >= 1
    BY <1>2, <1>6, HeadTailProperties DEF Client!Yield, StreamInv
  <2>2. \A i \in 1..Len(frames') : i + 1 \in 1..Len(frames)
    BY <1>2, <2>1
  <2>3. frames[1] = pushed - Len(frames) + 1 /\ pushed - Len(frames) \in Nat
    BY <1>2, <2>1 DEF StreamInv
  <2>4. \A i \in 1..Len(frames') : frames'[i] = pushed - Len(frames') + i
    BY <1>2, <2>1, <2>2 DEF StreamInv
  <2>5. read' \in 0..(pushed - Len(frames'))
    BY <1>2, <2>1, <2>3
  <2>6. Len(frames') <= QueueSize
    BY <1>2, <2>1, ServiceAssumption DEF StreamInv
  <2> QED BY <1>1, <1>2, <1>6, <2>1, <2>4, <2>5, <2>6
          DEF Client!Yield, StreamInv, ClientInv
<1> QED BY <1>3, <1>4, <1>5, <1>6

LEMMA NextClient == ASSUME ClientInv, Client!Next PROVE ClientInv'
BY BeginPreserves, ConnPreserves, SendPreserves, EndPreserves, ProcessPreserves,
   CompletePreserves, DispatchPreserves, IterPreserves
DEF Client!Next, Client!PlaceOrder

(* What the invariant is for.                                              *)
LEMMA ClientHolds ==
  ASSUME ClientInv
  PROVE  /\ Client!ClientTypeOK /\ Client!AnswersAreTrue
         /\ Client!PendingMatchesWaiters /\ Client!QueueIsLatest
<1>1. Client!AnswersAreTrue
  BY DEF ClientInv, OpsInv, Client!AnswersAreTrue, Told, Verdicts
<1>2. pending \subseteq Requests
  BY DEF ClientInv, OpsInv, Client!PendingMatchesWaiters
<1>3. MaxFrames \in Nat /\ read \in 0..MaxFrames
  BY ServiceAssumption DEF ClientInv, StreamInv
<1>4. Client!ClientTypeOK
  BY <1>2, <1>3 DEF ClientInv, OpsInv, StreamInv, Client!ClientTypeOK, Verdicts
<1>5. Client!QueueIsLatest
  <2> SUFFICES ASSUME frames # <<>>
               PROVE  /\ frames[Len(frames)] = pushed
                      /\ \A i \in 1..(Len(frames) - 1) : frames[i + 1] = frames[i] + 1
                      /\ Head(frames) > read
    BY DEF Client!QueueIsLatest
  <2>1. /\ Len(frames) \in Nat /\ Len(frames) >= 1 /\ Head(frames) = frames[1]
        /\ pushed \in Nat /\ read \in Nat /\ read <= pushed - Len(frames)
        /\ \A i \in 1..Len(frames) : frames[i] = pushed - Len(frames) + i
    BY ServiceAssumption DEF ClientInv, StreamInv
  <2>2. frames[1] = pushed - Len(frames) + 1 /\ frames[Len(frames)] = pushed
    BY <2>1
  <2>3. \A i \in 1..(Len(frames) - 1) : i \in 1..Len(frames) /\ i + 1 \in 1..Len(frames)
    BY <2>1
  <2> QED BY <2>1, <2>2, <2>3
<1> QED BY <1>1, <1>4, <1>5 DEF ClientInv, OpsInv

-----------------------------------------------------------------------------
(* The market data client                                                  *)

(* Every reference of a key, and every activation that will add one, has a *)
(* handler of its own; a key keeps its references until NT disconnects.    *)
DataInv ==
  /\ Data!DataTypeOK
  /\ \A k \in starting : refs[k] < handlers[k]
  /\ connected # "gone" => \A k \in sending \cup activeSubs : refs[k] > 0
  /\ Data!NoPushUnheard

LEMMA DataInit == Data!Quiet => DataInv
BY ServiceAssumption DEF Data!Quiet, DataInv, Data!DataTypeOK, Data!Nothing, Data!NoPushUnheard

LEMMA ConnectPreserves ==
  ASSUME DataInv, Data!Connect \/ Data!ConnectFails \/ Data!Disconnect PROVE DataInv'
<1>1. CASE Data!Connect
  <2>1. loaded' \subseteq {i \in Listed : i.live /\ i.sizes}
    BY <1>1 DEF Data!Connect, Data!LoadAll, Data!Parses
  <2> QED BY <1>1, <2>1
          DEF Data!Connect, Data!keys, DataInv, Data!DataTypeOK, Data!NoPushUnheard
<1>2. CASE Data!ConnectFails
  BY <1>2 DEF Data!ConnectFails, Data!keys, DataInv, Data!DataTypeOK, Data!NoPushUnheard
<1>3. CASE Data!Disconnect
  <2>1. refs' \in [Data!Channels -> 0..MaxHandlers]
    BY <1>3, ServiceAssumption DEF Data!Disconnect
  <2>2. \A k \in Data!Channels : refs'[k] <= handlers[k] /\ refs'[k] <= refs[k]
    BY <1>3 DEF Data!Disconnect, DataInv, Data!DataTypeOK
  <2>3. \A k \in starting : refs'[k] < handlers[k]
    BY <1>3 DEF Data!Disconnect, DataInv, Data!DataTypeOK
  <2> QED BY <1>3, <2>1, <2>2, <2>3
          DEF Data!Disconnect, DataInv, Data!DataTypeOK, Data!NoPushUnheard
<1> QED BY <1>1, <1>2, <1>3

(* The handler is registered before the key is activated.                  *)
LEMMA SubscribePreserves ==
  ASSUME DataInv, NEW k \in Data!Channels, Data!Subscribe(k) PROVE DataInv'
<1>1. /\ handlers \in [Data!Channels -> 0..MaxHandlers] /\ MaxHandlers \in Nat
      /\ refs \in [Data!Channels -> 0..MaxHandlers]
      /\ handlers["books5"] + handlers["trades"] + handlers["candle"] < MaxHandlers
      /\ handlers' = [handlers EXCEPT ![k] = @ + 1]
  BY ServiceAssumption DEF DataInv, Data!DataTypeOK, Data!Subscribe, Data!AddCallback
<1>2. handlers[k] < MaxHandlers
  BY <1>1 DEF Data!Channels
<1>3. handlers' \in [Data!Channels -> 0..MaxHandlers]
  BY <1>1, <1>2
<1>4. \A c \in Data!Channels : handlers'[c] = IF c = k THEN handlers[c] + 1 ELSE handlers[c]
  BY <1>1
<1>5. \A c \in Data!Channels : refs[c] <= handlers[c] /\ refs[c] \in Nat /\ handlers[c] \in Nat
  BY <1>1 DEF DataInv, Data!DataTypeOK
<1>6. /\ \A c \in Data!Channels : refs[c] <= handlers'[c]
      /\ \A c \in starting \cup {k} : refs[c] < handlers'[c]
  BY <1>4, <1>5 DEF DataInv, Data!DataTypeOK
<1> QED BY <1>3, <1>6 DEF Data!Subscribe, DataInv, Data!DataTypeOK, Data!NoPushUnheard

LEMMA ActivatePreserves ==
  ASSUME DataInv, NEW k \in Data!Channels,
         Data!Activate(k) \/ Data!ActivateFails(k) \/ Data!Activated(k)
  PROVE  DataInv'
<1>1. CASE Data!Activate(k)
  <2>1. \A c \in Data!Channels : refs[c] \in 0..MaxHandlers /\ handlers[c] \in 0..MaxHandlers
    BY DEF DataInv, Data!DataTypeOK
  <2>2. /\ refs' = [refs EXCEPT ![k] = @ + 1] /\ refs[k] < handlers[k]
        /\ refs \in [Data!Channels -> 0..MaxHandlers] /\ k \in starting
    BY <1>1 DEF Data!Activate, DataInv, Data!DataTypeOK
  <2>3. refs[k] + 1 \in 0..MaxHandlers /\ refs[k] + 1 <= handlers[k] /\ refs[k] + 1 > 0
    BY <2>1, <2>2, ServiceAssumption
  <2>4. refs' \in [Data!Channels -> 0..MaxHandlers]
    BY <2>2, <2>3
  <2>5. \A c \in Data!Channels : refs'[c] = IF c = k THEN refs[c] + 1 ELSE refs[c]
    BY <2>2
  <2>6. starting' = starting \ {k} /\ sending' = sending \cup {k} /\ starting \subseteq Data!Channels
        /\ sending \subseteq Data!Channels /\ activeSubs \subseteq Data!Channels
        /\ UNCHANGED <<connected, loaded, wanted, handlers, activeSubs, latest>>
    BY <1>1 DEF Data!Activate, DataInv, Data!DataTypeOK
  <2>7. /\ \A c \in Data!Channels : refs'[c] <= handlers[c]
        /\ \A c \in starting' : refs'[c] < handlers[c]
    BY <2>1, <2>3, <2>5, <2>6 DEF DataInv, Data!DataTypeOK
  <2>8. connected # "gone" => \A c \in sending' \cup activeSubs : refs'[c] > 0
    BY <2>3, <2>5, <2>6 DEF DataInv
  <2> QED BY <2>4, <2>6, <2>7, <2>8 DEF DataInv, Data!DataTypeOK, Data!NoPushUnheard
<1>2. CASE Data!ActivateFails(k)
  BY <1>2 DEF Data!ActivateFails, DataInv, Data!DataTypeOK, Data!NoPushUnheard
<1>3. CASE Data!Activated(k)
  BY <1>3 DEF Data!Activated, DataInv, Data!DataTypeOK, Data!NoPushUnheard
<1> QED BY <1>1, <1>2, <1>3

LEMMA PushPreserves ==
  ASSUME DataInv, NEW k \in Data!Channels, Data!Push(k) \/ Data!Unsubscribe(k) PROVE DataInv'
<1>1. CASE Data!Push(k)
  <2>1. refs[k] <= handlers[k] /\ refs[k] > 0 /\ refs[k] \in Int /\ handlers[k] \in Int
    BY <1>1 DEF Data!Push, DataInv, Data!DataTypeOK
  <2>2. latest'.copies = handlers[k]
    BY <1>1 DEF Data!Push
  <2>3. Data!NoPushUnheard'
    BY <2>1, <2>2 DEF Data!NoPushUnheard
  <2> QED BY <1>1, <2>3 DEF Data!Push, DataInv, Data!DataTypeOK
<1>2. CASE Data!Unsubscribe(k)
  BY <1>2 DEF Data!Unsubscribe, DataInv, Data!DataTypeOK, Data!NoPushUnheard
<1> QED BY <1>1, <1>2

LEMMA NextData == ASSUME DataInv, Data!Next PROVE DataInv'
<1>1. "books5" \in Data!Channels /\ "trades" \in Data!Channels /\ "candle" \in Data!Channels
  BY DEF Data!Channels
<1> QED BY <1>1, ConnectPreserves, SubscribePreserves, ActivatePreserves, PushPreserves
        DEF Data!Next, Data!SubscribeQuoteTicks, Data!SubscribeTradeTicks, Data!SubscribeBars,
            Data!UnsubscribeQuoteTicks, Data!UnsubscribeTradeTicks, Data!UnsubscribeBars

LEMMA DataHolds ==
  DataInv => Data!DataTypeOK /\ Data!NoPushUnheard /\ Data!ActiveIsSubscribed
BY DEF DataInv, Data!ActiveIsSubscribed

-----------------------------------------------------------------------------
(* The reports at the start                                                *)

(* The reports begin once the orders channel is active, so that an order   *)
(* that changes after it was reported is pushed.  An order that has not    *)
(* been reported when its live orders have been asked for has ended, and   *)
(* an ended one stays ended until its history is asked for.                *)
LiveAsked(o)  == asked.orders >= IF InstType[o] = "SWAP" THEN 1 ELSE 2
EndedAsked(o) == asked.orders >= IF InstType[o] = "SWAP" THEN 3 ELSE 4

StartupInv ==
  /\ Startup!StartupTypeOK
  /\ asked \in [orders : 0..4, fills : 0..2, positions : 0..1] /\ failed \in BOOLEAN
  /\ \A o \in fills \cup positions : InstType[o] \in Startup!Covered
  /\ \A o \in LiveOrders :
       /\ seen[o] # "none" => stage = "up" /\ (seen[o] = venue[o] \/ o \in told)
       /\ ~failed /\ LiveAsked(o)  => seen[o] # "none" \/ venue[o] # "live"
       /\ ~failed /\ EndedAsked(o) /\ InstType[o] \in Startup!Covered => seen[o] # "none"

LEMMA StartupFresh == Startup!Fresh /\ currency \in Currencies => StartupInv
<1> SUFFICES ASSUME Startup!Fresh, currency \in Currencies PROVE StartupInv
  OBVIOUS
<1>1. /\ stage = "start" /\ balances = {} /\ failed = FALSE /\ fills = {} /\ positions = {}
      /\ told = {} /\ asked = [orders |-> 0, fills |-> 0, positions |-> 0]
      /\ venue = [o \in LiveOrders |-> "live"] /\ seen = [o \in LiveOrders |-> "none"]
  BY DEF Startup!Fresh
<1>2. asked \in [orders : 0..4, fills : 0..2, positions : 0..1] /\ asked.orders = 0
      /\ asked.fills = 0 /\ asked.positions = 0
  BY <1>1
<1>3. \A o \in LiveOrders : seen[o] = "none" /\ ~LiveAsked(o) /\ ~EndedAsked(o)
  BY <1>1, <1>2 DEF LiveAsked, EndedAsked
<1>4. Startup!StartupTypeOK
  BY <1>1, <1>2 DEF Startup!StartupTypeOK, Startup!AtOkx
<1> QED BY <1>1, <1>2, <1>3, <1>4 DEF StartupInv

LEMMA StartupInit == Startup!Init \/ Startup!Quiet => StartupInv
BY StartupFresh DEF Startup!Init, Startup!Quiet, Currencies

(* A balance is announced free within its total.                           *)
LEMMA BalancesFit ==
  ASSUME NEW d \in Currencies, NEW b \in Startup!BuildAccountBalances({d})
  PROVE  b.free \in 0..b.total
<1>1. d.eq \in Int /\ d.cash \in Int /\ d.avail \in Int
  BY DEF Currencies
<1>2. b = [total |-> Startup!Raised(Startup!Most(0, IF d.eq # 0 THEN d.eq ELSE d.cash),
                                    Startup!Most(0, d.avail)),
           free |-> Startup!Most(0, d.avail)]
  BY DEF Startup!BuildAccountBalances
<1> QED BY <1>1, <1>2 DEF Startup!Raised, Startup!Most

LEMMA AnnouncedFits ==
  ASSUME StartupInv, Startup!EmitAccountState({currency})
  PROVE  \A b \in balances' : b.free \in 0..b.total
<1>1. currency \in Currencies
  BY DEF StartupInv, Startup!StartupTypeOK
<1>2. \A b \in Startup!BuildAccountBalances({currency}) : b.free \in 0..b.total
  BY <1>1, BalancesFit
<1> QED BY <1>2 DEF Startup!EmitAccountState

LEMMA AccountPreserves ==
  ASSUME StartupInv,
         \/ Startup!ActivateOrders \/ Startup!ActivateAccount \/ Startup!ConnectFails
         \/ Startup!Snapshot \/ Startup!HandleAccountUpdate
  PROVE  StartupInv'
<1>1. UNCHANGED <<currency, venue, told, asked, failed, seen, fills, positions>>
  BY DEF Startup!ActivateOrders, Startup!ActivateAccount, Startup!ConnectFails, Startup!Becomes,
         Startup!Snapshot, Startup!HandleAccountUpdate, Startup!reports
<1>2. \A b \in balances' : b.free \in 0..b.total
  BY AnnouncedFits
  DEF StartupInv, Startup!StartupTypeOK, Startup!ActivateOrders, Startup!ActivateAccount,
      Startup!ConnectFails, Startup!Becomes, Startup!Snapshot, Startup!HandleAccountUpdate
<1>3. stage' \in {"start", "orders", "account", "up", "gone"} /\ (stage = "up" => stage' = "up")
  BY DEF StartupInv, Startup!StartupTypeOK, Startup!ActivateOrders, Startup!ActivateAccount,
         Startup!ConnectFails, Startup!Becomes, Startup!Snapshot, Startup!HandleAccountUpdate
<1> QED BY <1>1, <1>2, <1>3 DEF StartupInv, Startup!StartupTypeOK, LiveAsked, EndedAsked

LEMMA OrderEndsPreserves ==
  ASSUME StartupInv, NEW o \in LiveOrders, Startup!OrderEnds(o) PROVE StartupInv'
<1>1. PICK s \in {"filled", "canceled"} : venue' = [venue EXCEPT ![o] = s]
  BY DEF Startup!OrderEnds
<1>2. venue[o] = "live" /\ UNCHANGED <<stage, currency, balances, asked, failed, seen, fills, positions>>
      /\ told' = IF Startup!Listens(o) THEN told \cup {o} ELSE told
  BY DEF Startup!OrderEnds, Startup!reports
<1>3. venue' \in [LiveOrders -> Startup!AtOkx] /\ told' \subseteq LiveOrders
  BY <1>1, <1>2 DEF StartupInv, Startup!StartupTypeOK, Startup!AtOkx
<1>4. seen[o] # "none" => o \in told'
  BY <1>2 DEF StartupInv, Startup!Listens
<1>5. \A p \in LiveOrders :
        /\ seen[p] # "none" => stage = "up" /\ (seen[p] = venue'[p] \/ p \in told')
        /\ venue[p] # "live" => venue'[p] # "live"
  BY <1>1, <1>2, <1>4 DEF StartupInv, Startup!StartupTypeOK
<1> QED BY <1>2, <1>3, <1>5 DEF StartupInv, Startup!StartupTypeOK, LiveAsked, EndedAsked

(* The n-th request of the order reports.                                  *)
LEMMA RequestRows ==
  ASSUME StartupInv, NEW n \in 1..4, NEW o \in LiveOrders
  PROVE  o \in Startup!Rows(Startup!OrderRequests[n]) <=>
           \/ n = 1 /\ InstType[o] = "SWAP" /\ venue[o] = "live"
           \/ n = 2 /\ InstType[o] = "SPOT" /\ venue[o] = "live"
           \/ n = 3 /\ InstType[o] = "SWAP" /\ venue[o] # "live"
           \/ n = 4 /\ InstType[o] = "SPOT" /\ venue[o] # "live"
<1>1. CASE n = 1
  BY <1>1 DEF Startup!Rows, Startup!OrderRequests
<1>2. CASE n = 2
  BY <1>2 DEF Startup!Rows, Startup!OrderRequests
<1>3. CASE n = 3
  BY <1>3 DEF Startup!Rows, Startup!OrderRequests
<1>4. CASE n = 4
  BY <1>4 DEF Startup!Rows, Startup!OrderRequests
<1> QED BY <1>1, <1>2, <1>3, <1>4

LEMMA InstTypes == \A o \in LiveOrders : InstType[o] \in {"SWAP", "SPOT"}
BY DEF LiveOrders, InstType

LEMMA OrderReportPreserves ==
  ASSUME StartupInv, Startup!GenerateOrderStatusReports PROVE StartupInv'
<1>1. /\ stage = "up" /\ asked.orders \in 0..3
      /\ UNCHANGED <<stage, currency, balances, venue, fills, positions, told>>
  BY DEF Startup!GenerateOrderStatusReports, StartupInv, Startup!OrderRequests
<1>2. PICK n \in 0..3 : n = asked.orders
  BY <1>1
<1>3. /\ asked' = [asked EXCEPT !.orders = n + 1]
      /\ asked' \in [orders : 0..4, fills : 0..2, positions : 0..1] /\ asked'.orders = n + 1
  BY <1>2 DEF Startup!GenerateOrderStatusReports, Startup!RequestFailed, Startup!Sent, StartupInv
<1>4. CASE failed' = TRUE /\ UNCHANGED seen
  BY <1>1, <1>3, <1>4 DEF StartupInv, Startup!StartupTypeOK
<1>5. CASE failed' = failed
           /\ seen' = [o \in LiveOrders |-> IF o \in Startup!Rows(Startup!OrderRequests[n + 1])
                                            THEN venue[o] ELSE seen[o]]
  <2>1. \A o \in LiveOrders :
          seen'[o] = IF o \in Startup!Rows(Startup!OrderRequests[n + 1]) THEN venue[o] ELSE seen[o]
    BY <1>5
  <2>2. \A o \in LiveOrders : venue[o] \in Startup!AtOkx /\ venue[o] # "none"
    BY DEF StartupInv, Startup!StartupTypeOK, Startup!AtOkx
  <2>3. seen' \in [LiveOrders -> Startup!AtOkx \cup {"none"}]
    BY <1>5, <2>2 DEF StartupInv, Startup!StartupTypeOK
  <2>4. \A o \in LiveOrders :
          /\ seen'[o] # "none" => seen'[o] = venue[o] \/ o \in told
          /\ seen[o] # "none" => seen'[o] # "none"
    BY <2>1, <2>2 DEF StartupInv
  <2>5. ASSUME NEW o \in LiveOrders, ~failed, LiveAsked(o)'
        PROVE  seen'[o] # "none" \/ venue[o] # "live"
    <3>1. LiveAsked(o) \/ n + 1 = IF InstType[o] = "SWAP" THEN 1 ELSE 2
      BY <1>2, <1>3, <2>5, InstTypes DEF LiveAsked
    <3>2. CASE LiveAsked(o)
      BY <2>4, <2>5, <3>2 DEF StartupInv
    <3>3. CASE n + 1 = IF InstType[o] = "SWAP" THEN 1 ELSE 2
      BY <2>1, <2>2, <3>3, InstTypes, RequestRows
    <3> QED BY <3>1, <3>2, <3>3
  <2>6. ASSUME NEW o \in LiveOrders, ~failed, EndedAsked(o)', InstType[o] \in Startup!Covered
        PROVE  seen'[o] # "none"
    <3>1. EndedAsked(o) \/ n + 1 = IF InstType[o] = "SWAP" THEN 3 ELSE 4
      BY <1>2, <1>3, <2>6, InstTypes DEF EndedAsked
    <3>2. CASE EndedAsked(o)
      BY <2>4, <2>6, <3>2 DEF StartupInv
    <3>3. CASE n + 1 = IF InstType[o] = "SWAP" THEN 3 ELSE 4
      <4>1. LiveAsked(o)
        BY <1>2, <3>3 DEF LiveAsked
      <4>2. seen[o] # "none" \/ venue[o] # "live"
        BY <2>6, <4>1 DEF StartupInv
      <4>3. venue[o] # "live" => o \in Startup!Rows(Startup!OrderRequests[n + 1])
        BY <3>3, InstTypes, RequestRows
      <4> QED BY <2>1, <2>2, <2>4, <4>2, <4>3
    <3> QED BY <3>1, <3>2, <3>3
  <2> QED BY <1>1, <1>3, <1>5, <2>3, <2>4, <2>5, <2>6 DEF StartupInv, Startup!StartupTypeOK
<1> QED BY <1>2, <1>4, <1>5 DEF Startup!GenerateOrderStatusReports, Startup!RequestFailed

(* Fills and positions are asked for by type, of covered types only.       *)
LEMMA OtherReportsPreserve ==
  ASSUME StartupInv, Startup!GenerateFillReports \/ Startup!GeneratePositionStatusReports
  PROVE  StartupInv'
<1>1. UNCHANGED <<stage, currency, balances, venue, seen, told>>
  BY DEF Startup!GenerateFillReports, Startup!GeneratePositionStatusReports
<1>2. /\ asked' \in [orders : 0..4, fills : 0..2, positions : 0..1] /\ asked'.orders = asked.orders
      /\ failed' \in BOOLEAN /\ (failed => failed')
  <2>1. CASE Startup!GenerateFillReports
    <3>1. asked.fills + 1 \in 0..2
      BY <2>1 DEF Startup!GenerateFillReports, StartupInv, Startup!FillRequests
    <3>2. asked' = [asked EXCEPT !.fills = asked.fills + 1] /\ failed' \in {failed, TRUE}
      BY <2>1 DEF Startup!GenerateFillReports, Startup!RequestFailed, Startup!Sent
    <3> QED BY <3>1, <3>2 DEF StartupInv
  <2>2. CASE Startup!GeneratePositionStatusReports
    <3>1. asked.positions + 1 \in 0..1
      BY <2>2 DEF Startup!GeneratePositionStatusReports, StartupInv
    <3>2. asked' = [asked EXCEPT !.positions = asked.positions + 1] /\ failed' \in {failed, TRUE}
      BY <2>2 DEF Startup!GeneratePositionStatusReports, Startup!RequestFailed, Startup!Sent
    <3> QED BY <3>1, <3>2 DEF StartupInv
  <2> QED BY <2>1, <2>2
<1>3. /\ fills' \cup positions' \subseteq LiveOrders
      /\ \A o \in fills' \cup positions' : InstType[o] \in Startup!Covered
  BY InstTypes DEF Startup!GenerateFillReports, Startup!GeneratePositionStatusReports, StartupInv,
     Startup!StartupTypeOK, Startup!Covered
<1> QED BY <1>1, <1>2, <1>3 DEF StartupInv, Startup!StartupTypeOK, LiveAsked, EndedAsked

LEMMA NextStartup == ASSUME StartupInv, Startup!Next PROVE StartupInv'
BY AccountPreserves, OrderEndsPreserves, OrderReportPreserves, OtherReportsPreserve
DEF Startup!Next, Startup!Gather

LEMMA StartupHolds ==
  StartupInv => /\ Startup!StartupTypeOK /\ Startup!SnapshotComplete
                /\ Startup!NothingFallsBetween
<1> SUFFICES ASSUME StartupInv, Startup!Gathered, ~failed
             PROVE  /\ \A o \in LiveOrders : InstType[o] \in Startup!Covered => seen[o] # "none"
                    /\ \A o \in fills \cup positions : seen[o] # "none"
                    /\ \A o \in LiveOrders : InstType[o] \in Startup!Covered =>
                         seen[o] = venue[o] \/ o \in told
  BY DEF StartupInv, Startup!SnapshotComplete, Startup!NothingFallsBetween
<1>1. \A o \in LiveOrders : EndedAsked(o)
  BY DEF Startup!Gathered, Startup!OrderRequests, EndedAsked
<1>2. fills \cup positions \subseteq LiveOrders
  BY DEF StartupInv, Startup!StartupTypeOK
<1> QED BY <1>1, <1>2 DEF StartupInv


-----------------------------------------------------------------------------
(* The risk pipeline                                                       *)

(* The intervals below the members of S are ordered by inclusion, which    *)
(* has least elements.                                                     *)
LEMMA HasLeast ==
  ASSUME NEW S \in SUBSET Nat, S # {}
  PROVE  \E m \in S : \A n \in S : m <= n
<1> DEFINE T == {0..n : n \in S}
<1>1. T \subseteq FiniteSubsetsOf(Nat) /\ T # {}
  <2>1. \A n \in S : IsFiniteSet(0..n) /\ 0..n \subseteq Nat
    BY FS_Interval
  <2> QED BY <2>1 DEF FiniteSubsetsOf
<1> HIDE DEF T
<1>2. PICK t \in T : \A u \in T : <<u, t>> \notin StrictSubsetOrdering(Nat)
  BY <1>1, FS_StrictSubsetOrderingWellFounded, WFMin, Zenon
<1>3. PICK m \in S : t = 0..m
  BY DEF T
<1>4. \A n \in S : ~(n < m)
  <2> SUFFICES ASSUME NEW n \in S, n < m PROVE FALSE
    OBVIOUS
  <2>1. 0..n \in T /\ 0..n \in SUBSET Nat /\ 0..m \in SUBSET Nat
    BY DEF T
  <2>2. 0..n \subseteq 0..m /\ m \in 0..m /\ m \notin 0..n
    OBVIOUS
  <2>3. 0..n # 0..m
    BY <2>2
  <2> QED BY <1>2, <1>3, <2>1, <2>2, <2>3 DEF StrictSubsetOrdering
<1> QED BY <1>4

(* What the pipeline grants is one of the sizings, and the least of them.  *)
LEMMA LeastIsLeast ==
  ASSUME NEW S \in SUBSET Nat, S # {}
  PROVE  Risk!Least(S) \in S /\ \A n \in S : Risk!Least(S) <= n
BY HasLeast DEF Risk!Least

(* The first entry that has not expired ends the prefix that has.          *)
LEMMA PrefixExpires ==
  ASSUME NEW s \in Seq(Nat)
  PROVE  \E n \in 0..Len(s) : Risk!Expired(s, n)
<1>1. Len(s) \in Nat /\ Window \in Nat /\ \A i \in 1..Len(s) : s[i] \in Nat
  BY LenProperties, ElementOfSeq, RiskAssumption
<1>2. CASE \A i \in 1..Len(s) : s[i] > Window
  BY <1>1, <1>2 DEF Risk!Expired
<1>3. CASE \E i \in 1..Len(s) : s[i] <= Window
  <2> DEFINE K == {i \in 1..Len(s) : s[i] <= Window}
  <2>1. K \in SUBSET Nat /\ K # {}
    BY <1>3
  <2>2. PICK m \in K : \A n \in K : m <= n
    BY <2>1, HasLeast, Zenon
  <2>3. m \in 1..Len(s) /\ s[m] <= Window /\ m - 1 \in 0..Len(s)
    BY <1>1
  <2>4. \A i \in 1..(m - 1) : s[i] > Window
    <3> SUFFICES ASSUME NEW i \in 1..(m - 1) PROVE s[i] > Window
      OBVIOUS
    <3>1. i \in 1..Len(s) /\ i < m /\ s[i] \in Nat
      BY <1>1, <2>3
    <3>2. i \notin K
      BY <2>2, <3>1
    <3> QED BY <1>1, <3>1, <3>2
  <2>5. Risk!Expired(s, m - 1)
    BY <1>1, <2>3, <2>4 DEF Risk!Expired
  <2> QED BY <2>3, <2>5
<1> QED BY <1>1, <1>2, <1>3

(* There is one such prefix, and Prune takes it off.                       *)
LEMMA PruneBy ==
  ASSUME NEW s \in Seq(Nat), NEW n \in 0..Len(s), Risk!Expired(s, n)
  PROVE  /\ Risk!Prune(s) = SubSeq(s, n + 1, Len(s))
         /\ Risk!Prune(s) \in Seq(Nat)
         /\ Len(Risk!Prune(s)) = Len(s) - n
         /\ \A i \in 1..(Len(s) - n) : Risk!Prune(s)[i] = s[n + i]
<1>1. Len(s) \in Nat /\ Window \in Nat /\ \A i \in 1..Len(s) : s[i] \in Nat
  BY LenProperties, ElementOfSeq, RiskAssumption
<1>2. ASSUME NEW m \in 0..Len(s), Risk!Expired(s, m), NEW k \in 0..Len(s), Risk!Expired(s, k),
             k < m
      PROVE  FALSE
  <2>1. k + 1 \in 1..m /\ k < Len(s)
    BY <1>1, <1>2
  <2>2. s[k + 1] > Window
    BY <1>2, <2>1 DEF Risk!Expired
  <2>3. s[k + 1] <= Window
    BY <1>2, <2>1 DEF Risk!Expired
  <2>4. s[k + 1] \in Nat
    BY <1>1, <2>1
  <2> QED BY <1>1, <2>2, <2>3, <2>4
<1>3. \A m \in 0..Len(s) : Risk!Expired(s, m) => m = n
  <2> SUFFICES ASSUME NEW m \in 0..Len(s), Risk!Expired(s, m) PROVE m = n
    OBVIOUS
  <2>1. ~(m < n) /\ ~(n < m)
    BY <1>2
  <2> QED BY <1>1, <2>1
<1>4. (CHOOSE m \in 0..Len(s) : Risk!Expired(s, m)) = n
  BY <1>3
<1>5. Risk!Prune(s) = SubSeq(s, n + 1, Len(s))
  BY <1>4 DEF Risk!Prune
<1>6. n + 1 \in Int /\ Len(s) \in Int /\ \A i \in (n + 1)..Len(s) : s[i] \in Nat
  BY <1>1
<1>7. /\ SubSeq(s, n + 1, Len(s)) \in Seq(Nat)
      /\ Len(SubSeq(s, n + 1, Len(s))) = IF n + 1 <= Len(s) THEN Len(s) - (n + 1) + 1 ELSE 0
      /\ \A i \in 1..(Len(s) - (n + 1) + 1) : SubSeq(s, n + 1, Len(s))[i] = s[(n + 1) + i - 1]
  BY <1>6, SubSeqProperties
<1>8. Len(s) - (n + 1) + 1 = Len(s) - n /\ \A i \in Int : (n + 1) + i - 1 = n + i
  BY <1>1
<1>9. Len(SubSeq(s, n + 1, Len(s))) = Len(s) - n
  BY <1>1, <1>7
<1>10. \A i \in 1..(Len(s) - n) : SubSeq(s, n + 1, Len(s))[i] = s[n + i]
  <2> SUFFICES ASSUME NEW i \in 1..(Len(s) - n) PROVE SubSeq(s, n + 1, Len(s))[i] = s[n + i]
    OBVIOUS
  <2>1. (n + 1) + i - 1 = n + i /\ i \in 1..(Len(s) - (n + 1) + 1)
    BY <1>8
  <2> QED BY <1>7, <2>1
<1> QED BY <1>5, <1>7, <1>9, <1>10

(* What has not expired stays.                                             *)
LEMMA PruneFresh ==
  ASSUME NEW s \in Seq(0..Window)
  PROVE  Risk!Prune(s) = s
<1>1. s \in Seq(Nat) /\ Len(s) \in Nat /\ Window \in Nat /\ 0 \in 0..Len(s)
  BY SeqMonotonic, LenProperties, RiskAssumption
<1>2. 0 < Len(s) => s[0 + 1] <= Window
  <2> SUFFICES ASSUME 0 < Len(s) PROVE s[0 + 1] <= Window
    OBVIOUS
  <2>1. 0 + 1 \in 1..Len(s)
    BY <1>1
  <2>2. s[0 + 1] \in 0..Window
    BY <2>1, ElementOfSeq
  <2> QED BY <1>1, <2>2
<1>3. Risk!Expired(s, 0)
  BY <1>1, <1>2 DEF Risk!Expired
<1>4. Risk!Prune(s) = SubSeq(s, 0 + 1, Len(s))
  BY <1>1, <1>3, PruneBy
<1>5. 0 + 1 = 1
  OBVIOUS
<1> QED BY <1>1, <1>4, <1>5, SubSeqFull

(* The entries of the window, oldest first.                                *)
Aging(s) == \A i, j \in 1..Len(s) : i <= j => s[i] >= s[j]

LEMMA PruneAging ==
  ASSUME NEW s \in Seq(0..(Window + 1)), Aging(s)
  PROVE  /\ Risk!Prune(s) \in Seq(0..Window) /\ Aging(Risk!Prune(s))
         /\ Len(Risk!Prune(s)) <= Len(s)
<1>1. s \in Seq(Nat) /\ Len(s) \in Nat /\ Window \in Nat
      /\ \A i \in 1..Len(s) : s[i] \in 0..(Window + 1)
  BY SeqMonotonic, LenProperties, ElementOfSeq, RiskAssumption
<1>2. PICK n \in 0..Len(s) : Risk!Expired(s, n)
  BY <1>1, PrefixExpires
<1> DEFINE p == Risk!Prune(s)
<1>3. p \in Seq(Nat) /\ Len(p) = Len(s) - n /\ \A i \in 1..(Len(s) - n) : p[i] = s[n + i]
  BY <1>1, <1>2, PruneBy
<1> HIDE DEF p
<1>4. Len(p) \in Nat /\ \A i \in 1..Len(p) : n + i \in 1..Len(s) /\ p[i] = s[n + i]
  BY <1>1, <1>3
<1>5. \A i \in 1..Len(p) : p[i] \in 0..Window
  <2> SUFFICES ASSUME NEW i \in 1..Len(p) PROVE p[i] \in 0..Window
    OBVIOUS
  <2>1. n < Len(s) /\ n + 1 \in 1..Len(s) /\ n + i \in 1..Len(s) /\ n + 1 <= n + i
    BY <1>1, <1>3, <1>4
  <2>2. s[n + 1] <= Window
    BY <1>2, <2>1 DEF Risk!Expired
  <2>3. s[n + 1] >= s[n + i]
    BY <2>1 DEF Aging
  <2>4. s[n + i] \in 0..(Window + 1) /\ s[n + 1] \in 0..(Window + 1) /\ p[i] = s[n + i]
    BY <1>1, <1>4, <2>1
  <2> QED BY <1>1, <2>2, <2>3, <2>4
<1>6. p \in Seq(0..Window)
  <2>1. p \in [1..Len(p) -> 0..Window]
    BY <1>3, <1>5, LenProperties
  <2> QED BY <1>4, <2>1, SeqDef
<1>7. Aging(p)
  <2> SUFFICES ASSUME NEW i \in 1..Len(p), NEW j \in 1..Len(p), i <= j PROVE p[i] >= p[j]
    BY DEF Aging
  <2>1. n + i \in 1..Len(s) /\ n + j \in 1..Len(s) /\ n + i <= n + j
    BY <1>4
  <2> QED BY <1>4, <2>1 DEF Aging
<1>8. Len(p) <= Len(s)
  BY <1>1, <1>3
<1> QED BY <1>6, <1>7, <1>8 DEF p

(* A tick later.                                                           *)
LEMMA OlderType ==
  ASSUME NEW s \in Seq(0..(Window + 1)), Aging(s)
  PROVE  /\ Risk!Older(s) \in Seq(0..(Window + 1)) /\ Aging(Risk!Older(s))
         /\ Len(Risk!Older(s)) = Len(s)
         /\ \A i \in 1..Len(s) : Risk!Older(s)[i] = IF s[i] > Window THEN s[i] ELSE s[i] + 1
<1>1. Len(s) \in Nat /\ Window \in Nat /\ DOMAIN s = 1..Len(s)
      /\ \A i \in 1..Len(s) : s[i] \in 0..(Window + 1)
  BY LenProperties, ElementOfSeq, RiskAssumption
<1> DEFINE o == Risk!Older(s)
<1>2. DOMAIN o = 1..Len(s) /\ \A i \in 1..Len(s) : o[i] = IF s[i] > Window THEN s[i] ELSE s[i] + 1
  BY <1>1 DEF Risk!Older
<1>3. \A i \in 1..Len(s) : (IF s[i] > Window THEN s[i] ELSE s[i] + 1) \in 0..(Window + 1)
  BY <1>1
<1>4. o \in [1..Len(s) -> 0..(Window + 1)]
  BY <1>1, <1>3 DEF Risk!Older
<1> HIDE DEF o
<1>5. o \in Seq(0..(Window + 1))
  BY <1>1, <1>4, SeqDef
<1>6. Len(o) = Len(s)
  BY <1>1, <1>2, <1>5, LenProperties
<1>7. Aging(o)
  <2> SUFFICES ASSUME NEW i \in 1..Len(s), NEW j \in 1..Len(s), i <= j PROVE o[i] >= o[j]
    BY <1>6 DEF Aging
  <2>1. s[i] >= s[j] /\ s[i] \in Int /\ s[j] \in Int
    BY <1>1 DEF Aging
  <2>2. o[i] = (IF s[i] > Window THEN s[i] ELSE s[i] + 1)
        /\ o[j] = (IF s[j] > Window THEN s[j] ELSE s[j] + 1)
    BY <1>2
  <2> QED BY <1>1, <2>1, <2>2
<1> QED BY <1>2, <1>5, <1>6, <1>7 DEF o

(* It does not matter when the expired entries are taken off.              *)
LEMMA PruneOlder ==
  ASSUME NEW s \in Seq(0..(Window + 1)), Aging(s)
  PROVE  Risk!Prune(Risk!Older(Risk!Prune(s))) = Risk!Prune(Risk!Older(s))
<1>1. s \in Seq(Nat) /\ Len(s) \in Nat /\ Window \in Nat
      /\ \A i \in 1..Len(s) : s[i] \in 0..(Window + 1)
  BY SeqMonotonic, LenProperties, ElementOfSeq, RiskAssumption
<1> DEFINE p == Risk!Prune(s)
           o == Risk!Older(s)
           q == Risk!Older(p)
<1>2. /\ o \in Seq(0..(Window + 1)) /\ Len(o) = Len(s)
      /\ \A i \in 1..Len(s) : o[i] = IF s[i] > Window THEN s[i] ELSE s[i] + 1
  BY OlderType
<1>3. PICK n \in 0..Len(s) : Risk!Expired(s, n)
  BY <1>1, PrefixExpires
<1>4. p \in Seq(Nat) /\ Len(p) = Len(s) - n /\ \A i \in 1..(Len(s) - n) : p[i] = s[n + i]
  BY <1>1, <1>3, PruneBy
<1>5. p \in Seq(0..(Window + 1)) /\ Aging(p)
  BY <1>1, PruneAging, SeqMonotonic
<1>6. /\ q \in Seq(0..(Window + 1)) /\ Len(q) = Len(p)
      /\ \A i \in 1..Len(p) : q[i] = IF p[i] > Window THEN p[i] ELSE p[i] + 1
  BY <1>5, OlderType
<1>7. o \in Seq(Nat) /\ q \in Seq(Nat)
  BY <1>1, <1>2, <1>6, SeqMonotonic
<1>8. PICK k \in 0..Len(o) : Risk!Expired(o, k)
  BY <1>7, PrefixExpires
<1> HIDE DEF p, o, q
<1>9. \A i \in 1..(Len(s) - n) : n + i \in 1..Len(s) /\ q[i] = o[n + i]
  <2> SUFFICES ASSUME NEW i \in 1..(Len(s) - n) PROVE n + i \in 1..Len(s) /\ q[i] = o[n + i]
    OBVIOUS
  <2>1. n + i \in 1..Len(s) /\ i \in 1..Len(p)
    BY <1>1, <1>4
  <2>2. p[i] = s[n + i]
    BY <1>4
  <2> QED BY <1>2, <1>6, <2>1, <2>2
<1>10. n <= k
  <2> SUFFICES ASSUME k < n PROVE FALSE
    BY <1>1, <1>2
  <2>1. k + 1 \in 1..n /\ k + 1 \in 1..Len(s) /\ k < Len(o)
    BY <1>1, <1>2
  <2>2. s[k + 1] > Window
    BY <1>3, <2>1 DEF Risk!Expired
  <2>3. o[k + 1] = s[k + 1]
    BY <1>2, <2>1, <2>2
  <2>4. o[k + 1] <= Window
    BY <1>8, <2>1 DEF Risk!Expired
  <2> QED BY <1>1, <2>1, <2>2, <2>3, <2>4
<1>11. k - n \in 0..Len(q) /\ Len(q) = Len(s) - n
  BY <1>1, <1>2, <1>4, <1>6, <1>10
<1>12. Risk!Expired(q, k - n)
  <2>1. \A i \in 1..(k - n) : q[i] > Window
    <3> SUFFICES ASSUME NEW i \in 1..(k - n) PROVE q[i] > Window
      OBVIOUS
    <3>1. n + i \in 1..k /\ i \in 1..(Len(s) - n)
      BY <1>1, <1>2, <1>10
    <3> QED BY <1>8, <1>9, <3>1 DEF Risk!Expired
  <2>2. ASSUME k - n < Len(q) PROVE q[k - n + 1] <= Window
    <3>1. k < Len(o) /\ k - n + 1 \in 1..(Len(s) - n) /\ n + (k - n + 1) = k + 1
      BY <1>1, <1>2, <1>11, <2>2, <1>10
    <3>2. o[k + 1] <= Window
      BY <1>8, <3>1 DEF Risk!Expired
    <3>3. q[k - n + 1] = o[n + (k - n + 1)]
      BY <1>9, <3>1
    <3> QED BY <3>1, <3>2, <3>3
  <2> QED BY <2>1, <2>2 DEF Risk!Expired
<1> DEFINE x == Risk!Prune(q)
           y == Risk!Prune(o)
<1>13. x \in Seq(Nat) /\ Len(x) = Len(q) - (k - n)
       /\ \A i \in 1..(Len(q) - (k - n)) : x[i] = q[(k - n) + i]
  BY <1>7, <1>11, <1>12, PruneBy
<1>14. y \in Seq(Nat) /\ Len(y) = Len(o) - k /\ \A i \in 1..(Len(o) - k) : y[i] = o[k + i]
  BY <1>7, <1>8, PruneBy
<1> HIDE DEF x, y
<1>15. Len(x) = Len(y)
  BY <1>1, <1>2, <1>11, <1>13, <1>14
<1>16. \A i \in 1..Len(x) : x[i] = y[i]
  <2> SUFFICES ASSUME NEW i \in 1..Len(x) PROVE x[i] = y[i]
    OBVIOUS
  <2>1. /\ i \in 1..(Len(q) - (k - n)) /\ i \in 1..(Len(o) - k)
        /\ (k - n) + i \in 1..(Len(s) - n) /\ n + ((k - n) + i) = k + i
    BY <1>1, <1>2, <1>10, <1>11, <1>13, <1>14, <1>15
  <2> QED BY <1>9, <1>13, <1>14, <2>1
<1>17. x = y
  BY <1>13, <1>14, <1>15, <1>16, SeqEqual
<1> QED BY <1>17 DEF x, y, p, o, q

LEMMA AppendNew ==
  ASSUME NEW s \in Seq(0..Window), Aging(s)
  PROVE  Append(s, 0) \in Seq(0..Window) /\ Aging(Append(s, 0)) /\ Len(Append(s, 0)) = Len(s) + 1
<1>1. Len(s) \in Nat /\ Window \in Nat /\ 0 \in 0..Window
      /\ \A i \in 1..Len(s) : s[i] \in 0..Window
  BY LenProperties, ElementOfSeq, RiskAssumption
<1>2. /\ Append(s, 0) \in Seq(0..Window) /\ Len(Append(s, 0)) = Len(s) + 1
      /\ \A i \in 1..Len(s) : Append(s, 0)[i] = s[i] /\ Append(s, 0)[Len(s) + 1] = 0
  BY <1>1, AppendProperties
<1>3. Append(s, 0)[Len(s) + 1] = 0
  BY <1>1, AppendProperties
<1> DEFINE t == Append(s, 0)
<1> HIDE DEF t
<1>4. Aging(t)
  <2> SUFFICES ASSUME NEW i \in 1..(Len(s) + 1), NEW j \in 1..(Len(s) + 1), i <= j
               PROVE  t[i] >= t[j]
    BY <1>2 DEF Aging, t
  <2>1. CASE j = Len(s) + 1
    <3>1. t[j] = 0
      BY <1>3, <2>1 DEF t
    <3>2. t[i] \in 0..Window
      BY <1>1, <1>2, ElementOfSeq DEF t
    <3> QED BY <1>1, <3>1, <3>2
  <2>2. CASE j # Len(s) + 1
    <3>1. i \in 1..Len(s) /\ j \in 1..Len(s)
      BY <1>1, <2>2
    <3>2. t[i] = s[i] /\ t[j] = s[j]
      BY <1>2, <3>1 DEF t
    <3> QED BY <3>1, <3>2 DEF Aging
  <2> QED BY <2>1, <2>2
<1> QED BY <1>2, <1>4 DEF t

(* Every check answers with a size, and the rate check with all or nothing. *)
LEMMA DivType ==
  /\ \A n \in Nat, k \in Nat \ {0} : n \div k \in Nat
  /\ \A n \in Int, k \in Nat \ {0} : n \div k \in Int
OBVIOUS

LEMMA PercentType == ASSUME NEW n \in Nat, NEW p \in Nat PROVE Risk!Percent(n, p) \in Nat
<1>1. n * p \in Nat
  OBVIOUS
<1> QED BY <1>1, DivType DEF Risk!Percent

LEMMA ScaledType == ASSUME NEW n \in Nat, NEW p \in Nat PROVE Risk!Scaled(n, p) \in Nat
BY PercentType DEF Risk!Scaled

LEMMA VolTargetType ==
  ASSUME NEW size \in Nat, NEW r \in Risk!Readings
  PROVE  Risk!VolTarget(size, r) \in Nat
<1>1. r.vol \in Nat
  BY RiskAssumption DEF Risk!Readings
<1>2. CASE r.sampled /\ ~(r.vol = 0 \/ TargetVol = 0)
  <2>1. 100 * TargetVol \in Nat
    BY RiskAssumption
  <2>2. (100 * TargetVol) \div r.vol \in Nat
    BY <1>1, <1>2, <2>1, DivType
  <2>3. Risk!Clamp((100 * TargetVol) \div r.vol, MinScale, MaxScale) \in Nat
    BY <2>2, RiskAssumption DEF Risk!Clamp
  <2> QED BY <1>2, <2>3, ScaledType DEF Risk!VolTarget
<1>3. CASE ~(r.sampled /\ ~(r.vol = 0 \/ TargetVol = 0))
  BY <1>3 DEF Risk!VolTarget
<1> QED BY <1>2, <1>3

LEMMA KellyType ==
  ASSUME NEW size \in Nat, NEW r \in Risk!Readings
  PROVE  Risk!Kelly(size, r) \in Nat
<1> DEFINE full == Risk!KellyFraction(r.win, r.reward)
           f    == Risk!Clamp(full * Fraction, 0, 100 * MaxFraction)
<1>1. r.win \in 0..100 /\ r.reward \in Nat \ {0}
  BY RiskAssumption DEF Risk!Readings
<1>2. full \in Int
  <2>1. CASE r.win \in 1..99
    <3>1. r.win * r.reward \in Int /\ 100 * (100 - r.win) \in Int
      BY <1>1
    <3>2. r.win * r.reward - 100 * (100 - r.win) \in Int
      BY <3>1
    <3>3. (r.win * r.reward - 100 * (100 - r.win)) \div r.reward \in Int
      BY <1>1, <3>2, DivType
    <3> QED BY <2>1, <3>3 DEF Risk!KellyFraction
  <2>2. CASE r.win \notin 1..99
    BY <2>2 DEF Risk!KellyFraction
  <2> QED BY <2>1, <2>2
<1>3. Risk!Kelly(size, r) = IF full <= 0 THEN 0 ELSE Risk!Scaled(size, f \div full)
  BY DEF Risk!Kelly
<1> HIDE DEF full
<1>4. CASE full > 0
  <2>1. full \in Nat \ {0} /\ 100 * MaxFraction \in Nat /\ full * Fraction \in Int
    BY <1>2, <1>4, RiskAssumption
  <2>2. f \in Nat
    BY <2>1 DEF Risk!Clamp
  <2>3. f \div full \in Nat
    BY <2>1, <2>2, DivType
  <2>4. Risk!Scaled(size, f \div full) \in Nat
    BY <2>3, ScaledType
  <2> QED BY <1>2, <1>3, <1>4, <2>4
<1> QED BY <1>2, <1>3, <1>4

LEMMA RegimeType ==
  ASSUME NEW size \in Nat, NEW r \in Risk!Readings
  PROVE  Risk!RegimeGate(size, r) \in Nat
<1>1. Risk!RegimeState(r) \in {"neutral", "trending", "mean_reverting"}
  BY DEF Risk!RegimeState
<1>2. r.kind \in {"neutral", "momentum", "reversal"}
  BY RiskAssumption DEF Risk!Readings
<1>3. Risk!RegimeScale(Risk!RegimeState(r), r.kind) \in {40, 70, 100}
  BY <1>1, <1>2 DEF Risk!RegimeScale
<1> QED BY <1>3, PercentType DEF Risk!RegimeGate

Checks == {"account", "vol", "kelly", "drawdown", "correlation", "regime", "rate"}

LEMMA AnswerType ==
  ASSUME NEW c \in Checks, NEW size \in Nat, NEW r \in Risk!Readings
  PROVE  Risk!Answer(c, size, r) \in Nat
<1>1. Risk!Correlation(size, r) \in Nat
  <2>1. HighCorrScale \in Nat
    BY RiskAssumption
  <2>2. Risk!Percent(size, HighCorrScale) \in Nat
    BY <2>1, PercentType
  <2> QED BY <2>2, Zenon DEF Risk!Correlation
<1>2. Risk!TradeRate(size) \in Nat
  BY DEF Risk!TradeRate
<1>3. CASE c = "account" \/ c = "drawdown"
  BY <1>3 DEF Risk!Answer
<1>4. CASE c = "vol" \/ c = "kelly"
  BY <1>4, VolTargetType, KellyType DEF Risk!Answer
<1>5. CASE c = "correlation" \/ c = "regime" \/ c = "rate"
  BY <1>1, <1>2, <1>5, RegimeType DEF Risk!Answer
<1> QED BY <1>3, <1>4, <1>5 DEF Checks

(* The rate check comes last: it is asked when no other check refuses.     *)
LEMMA RateIsLast ==
  ASSUME NEW answers, enabled \subseteq Checks, "rate" \in enabled
  PROVE  Risk!IsAsked("rate", answers) <=> \A c \in enabled \ {"rate"} : answers[c] # 0
<1>1. /\ DOMAIN Risk!CheckOrder = 1..7 /\ Risk!CheckOrder[1] = "account"
      /\ Risk!CheckOrder[2] = "vol" /\ Risk!CheckOrder[3] = "kelly"
      /\ Risk!CheckOrder[4] = "drawdown" /\ Risk!CheckOrder[5] = "correlation"
      /\ Risk!CheckOrder[6] = "regime" /\ Risk!CheckOrder[7] = "rate"
  BY DEF Risk!CheckOrder
<1>2. \A j \in 1..7 : Risk!CheckOrder[j] = "rate" <=> j = 7
  BY <1>1
<1>3. Risk!IsAsked("rate", answers)
        <=> \A i \in 1..6 : Risk!CheckOrder[i] \in enabled => answers[Risk!CheckOrder[i]] # 0
  BY <1>1, <1>2 DEF Risk!IsAsked
<1>4. \A i \in 1..6 : Risk!CheckOrder[i] # "rate"
  BY <1>2
<1>5. \A c \in enabled \ {"rate"} : \E i \in 1..6 : Risk!CheckOrder[i] = c
  BY <1>1 DEF Checks
<1> QED BY <1>3, <1>4, <1>5

(* Whatever is granted is the least of the sizings.                        *)
LEMMA Granted ==
  ASSUME NEW size \in Nat \ {0}, NEW answers, \A c \in enabled : answers[c] \in Nat
  PROVE  /\ Risk!CheckAll(size, answers) \in Nat /\ Risk!CheckAll(size, answers) <= size
         /\ Risk!CheckAll(size, answers) = 0 <=> \E c \in enabled : answers[c] = 0
<1> DEFINE S == Risk!Sizings(size, answers)
<1>1. S \in SUBSET Nat /\ size \in S /\ \A c \in enabled : answers[c] \in S
  BY DEF Risk!Sizings
<1>2. S # {} /\ \A n \in S : n = size \/ \E c \in enabled : n = answers[c]
  BY <1>1 DEF Risk!Sizings
<1> HIDE DEF S
<1>3. Risk!Least(S) \in S /\ Risk!Least(S) <= size /\ Risk!Least(S) \in Nat
  BY <1>1, <1>2, LeastIsLeast
<1>4. Risk!CheckAll(size, answers)
        = IF \E c \in enabled : answers[c] = 0 THEN 0 ELSE Risk!Least(S)
  BY DEF Risk!CheckAll, S
<1>5. CASE \E c \in enabled : answers[c] = 0
  BY <1>4, <1>5
<1>6. CASE ~\E c \in enabled : answers[c] = 0
  <2>1. Risk!Least(S) # 0
    BY <1>2, <1>3, <1>6
  <2> QED BY <1>3, <1>4, <1>6, <2>1
<1> QED BY <1>5, <1>6

(* With the rate check on, what fills its window is what was accepted;     *)
(* without it, the window stays empty.                                     *)
RiskInv ==
  /\ enabled \subseteq Checks /\ halted \subseteq {"account", "strategy"}
  /\ entries \in Seq(0..(Window + 1)) /\ Aging(entries) /\ Len(entries) <= MaxTrades
  /\ accepted \in Seq(0..Window) /\ Aging(accepted)
  /\ ("rate" \in enabled => accepted = Risk!Prune(entries))
  /\ ("rate" \notin enabled => entries = <<>>)
  /\ verdict.granted <= verdict.asked

LEMMA EmptyWindow ==
  /\ <<>> \in Seq(0..(Window + 1)) /\ <<>> \in Seq(0..Window) /\ Len(<<>>) = 0
  /\ Aging(<<>>) /\ Risk!Prune(<<>>) = <<>>
<1>1. <<>> \in Seq(0..(Window + 1)) /\ <<>> \in Seq(0..Window) /\ Len(<<>>) = 0
  BY EmptySeq
<1>2. Aging(<<>>)
  BY <1>1 DEF Aging
<1> QED BY <1>1, <1>2, PruneFresh

LEMMA RiskInit == Risk!Quiet /\ (enabled = {} \/ enabled \in Configs) => RiskInv
<1> SUFFICES ASSUME Risk!Quiet, enabled = {} \/ enabled \in Configs PROVE RiskInv
  OBVIOUS
<1>1. /\ halted = {} /\ entries = <<>> /\ accepted = <<>>
      /\ verdict = [asked |-> 0, granted |-> 0, byRate |-> FALSE]
  BY DEF Risk!Quiet
<1>2. enabled \subseteq Checks
  BY RiskAssumption DEF Checks
<1>3. verdict.granted <= verdict.asked
  BY <1>1
<1> QED BY <1>1, <1>2, <1>3, EmptyWindow, RiskAssumption DEF RiskInv

LEMMA AskPreserves ==
  ASSUME RiskInv, NEW size \in Sizes, NEW r \in Risk!Readings, Risk!ApplyRiskManager(size, r),
         UNCHANGED <<enabled, halted>>
  PROVE  RiskInv'
<1> DEFINE answers == [c \in enabled |-> Risk!Answer(c, size, r)]
           granted == Risk!CheckAll(size, answers)
           ages    == Risk!Prune(entries)
<1>1. size \in Nat \ {0} /\ enabled \subseteq Checks /\ MaxTrades \in Nat \ {0} /\ Window \in Nat
      /\ entries \in Seq(0..(Window + 1)) /\ Aging(entries) /\ Len(entries) <= MaxTrades
      /\ accepted \in Seq(0..Window) /\ Aging(accepted)
  BY RiskAssumption DEF RiskInv
<1>2. /\ entries' = Risk!Noted(answers)
      /\ accepted' = IF granted = 0 THEN accepted ELSE Append(accepted, 0)
      /\ verdict' = [asked |-> size, granted |-> granted,
                     byRate |-> Risk!IsAsked("rate", answers) /\ answers["rate"] = 0]
  BY DEF Risk!ApplyRiskManager
<1>3. \A c \in enabled : answers[c] \in Nat
  BY <1>1, AnswerType
<1>4. "rate" \in enabled => answers["rate"] = IF Risk!RateFull(ages) THEN 0 ELSE size
  BY DEF Risk!Answer, Risk!TradeRate
<1> HIDE DEF answers
<1>5. /\ granted \in Nat /\ granted <= size
      /\ granted = 0 <=> \E c \in enabled : answers[c] = 0
  BY <1>1, <1>3, Granted
<1>6. Risk!Noted(answers) = IF ~Risk!IsAsked("rate", answers) THEN entries
                            ELSE IF Risk!RateFull(ages) THEN ages ELSE Append(ages, 0)
  BY DEF Risk!Noted
<1> HIDE DEF granted
<1>7. verdict'.granted <= verdict'.asked
  BY <1>2, <1>5
<1>8. accepted' \in Seq(0..Window) /\ Aging(accepted)'
  <2>1. Append(accepted, 0) \in Seq(0..Window) /\ Aging(Append(accepted, 0))
    BY <1>1, AppendNew
  <2>2. CASE granted = 0
    <3>1. accepted' = accepted
      BY <1>2, <2>2
    <3> QED BY <1>1, <3>1
  <2>3. CASE granted # 0
    <3>1. accepted' = Append(accepted, 0)
      BY <1>2, <2>3
    <3> QED BY <2>1, <3>1
  <2> QED BY <2>2, <2>3
<1>9. CASE "rate" \notin enabled
  <2>1. ~Risk!IsAsked("rate", answers)
    BY <1>9 DEF Risk!IsAsked
  <2>2. entries' = entries /\ entries = <<>>
    BY <1>2, <1>6, <1>9, <2>1 DEF RiskInv
  <2> QED BY <1>1, <1>7, <1>8, <1>9, <2>2 DEF RiskInv
<1>10. CASE "rate" \in enabled
  <2>1. Risk!IsAsked("rate", answers) <=> \A c \in enabled \ {"rate"} : answers[c] # 0
    BY <1>1, <1>10, RateIsLast
  <2>2. accepted = ages /\ ages \in Seq(0..Window) /\ Len(ages) <= MaxTrades /\ Aging(ages)
        /\ Len(ages) \in Nat
    BY <1>1, <1>10, PruneAging, LenProperties DEF RiskInv
  <2>3. ages \in Seq(0..(Window + 1)) /\ Risk!Prune(ages) = ages
    BY <1>1, <2>2, PruneFresh, SeqMonotonic
  <2> HIDE DEF ages
  <2>4. CASE ~Risk!IsAsked("rate", answers)
    <3>1. granted = 0
      BY <1>5, <2>1, <2>4
    <3>2. entries' = entries /\ accepted' = accepted
      BY <1>2, <1>6, <2>4, <3>1
    <3>3. accepted = Risk!Prune(entries)
      BY <2>2 DEF ages
    <3> QED BY <1>1, <1>7, <1>8, <1>10, <3>2, <3>3 DEF RiskInv
  <2>5. CASE Risk!IsAsked("rate", answers) /\ Risk!RateFull(ages)
    <3>1. granted = 0
      BY <1>4, <1>5, <1>10, <2>5
    <3>2. entries' = ages /\ accepted' = ages
      BY <1>2, <1>6, <2>2, <2>5, <3>1
    <3>3. entries' \in Seq(0..(Window + 1)) /\ Aging(entries)' /\ Len(entries') <= MaxTrades
      BY <2>2, <2>3, <3>2
    <3>4. accepted' = Risk!Prune(entries)'
      BY <2>3, <3>2
    <3> QED BY <1>1, <1>7, <1>8, <1>10, <3>3, <3>4 DEF RiskInv
  <2>6. CASE Risk!IsAsked("rate", answers) /\ ~Risk!RateFull(ages)
    <3>1. \A c \in enabled : answers[c] # 0
      BY <1>1, <1>4, <1>10, <2>1, <2>6
    <3>2. granted # 0
      BY <1>5, <3>1
    <3>3. entries' = Append(ages, 0) /\ accepted' = Append(ages, 0)
      BY <1>2, <1>6, <2>2, <2>6, <3>2
    <3> DEFINE new == Append(ages, 0)
    <3>4. new \in Seq(0..Window) /\ Aging(new) /\ Len(new) = Len(ages) + 1
      BY <2>2, AppendNew
    <3>5. Len(new) <= MaxTrades
      BY <1>1, <2>2, <2>6, <3>4 DEF Risk!RateFull
    <3>6. new \in Seq(0..(Window + 1)) /\ Risk!Prune(new) = new
      <4>1. 0..Window \subseteq 0..(Window + 1)
        BY <1>1
      <4> HIDE DEF new
      <4> QED BY <3>4, <4>1, PruneFresh, SeqMonotonic
    <3>7. entries' = new /\ accepted' = new
      BY <3>3
    <3> HIDE DEF new
    <3>8. entries' \in Seq(0..(Window + 1)) /\ Aging(entries)' /\ Len(entries') <= MaxTrades
      BY <3>4, <3>5, <3>6, <3>7
    <3>9. accepted' = Risk!Prune(entries)'
      BY <3>6, <3>7
    <3> QED BY <1>1, <1>7, <1>8, <1>10, <3>8, <3>9 DEF RiskInv
  <2> QED BY <2>4, <2>5, <2>6
<1> QED BY <1>9, <1>10

LEMMA RiskTickPreserves == ASSUME RiskInv, Risk!Tick PROVE RiskInv'
<1>1. /\ entries' = Risk!Older(entries) /\ accepted' = Risk!Prune(Risk!Older(accepted))
      /\ UNCHANGED <<enabled, halted, verdict>>
  BY DEF Risk!Tick
<1>2. /\ entries \in Seq(0..(Window + 1)) /\ Aging(entries) /\ Len(entries) <= MaxTrades
      /\ accepted \in Seq(0..(Window + 1)) /\ Aging(accepted) /\ Window \in Nat
  <2>1. 0..Window \subseteq 0..(Window + 1) /\ Window \in Nat
    BY RiskAssumption
  <2> QED BY <2>1, SeqMonotonic DEF RiskInv
<1>3. /\ Risk!Older(entries) \in Seq(0..(Window + 1)) /\ Aging(Risk!Older(entries))
      /\ Len(Risk!Older(entries)) = Len(entries)
      /\ Risk!Older(accepted) \in Seq(0..(Window + 1)) /\ Aging(Risk!Older(accepted))
  BY <1>2, OlderType
<1>4. entries' \in Seq(0..(Window + 1)) /\ Aging(entries)' /\ Len(entries') <= MaxTrades
  BY <1>1, <1>2, <1>3
<1>5. accepted' \in Seq(0..Window) /\ Aging(accepted)'
  BY <1>1, <1>3, PruneAging
<1>6. ASSUME "rate" \in enabled PROVE accepted' = Risk!Prune(entries)'
  <2>1. Risk!Prune(Risk!Older(Risk!Prune(entries))) = Risk!Prune(Risk!Older(entries))
    BY <1>2, PruneOlder
  <2>2. accepted = Risk!Prune(entries)
    BY <1>6 DEF RiskInv
  <2>3. Risk!Prune(entries)' = Risk!Prune(Risk!Older(entries))
    BY <1>1
  <2> QED BY <1>1, <2>1, <2>2, <2>3
<1>7. ASSUME "rate" \notin enabled PROVE entries' = <<>>
  <2>1. entries = <<>>
    BY <1>7 DEF RiskInv
  <2>2. Len(Risk!Older(entries)) = 0
    BY <1>3, <2>1, EmptyWindow
  <2> QED BY <1>1, <1>3, <2>2, EmptySeq
<1> QED BY <1>1, <1>4, <1>5, <1>6, <1>7 DEF RiskInv

LEMMA NextRisk == ASSUME RiskInv, Risk!Next PROVE RiskInv'
<1>1. CASE Risk!Ask
  BY <1>1, AskPreserves DEF Risk!Ask
<1>2. CASE Risk!TrackerFed
  BY <1>2 DEF Risk!TrackerFed, RiskInv
<1>3. CASE Risk!Tick
  BY <1>3, RiskTickPreserves
<1> QED BY <1>1, <1>2, <1>3 DEF Risk!Next

LEMMA RiskHolds ==
  ASSUME RiskInv
  PROVE  Risk!RiskTypeOK /\ Risk!RateBounded /\ Risk!CountedIsAccepted /\ Risk!NeverEnlarged
<1>1. Risk!RiskTypeOK
  <2>1. Checks \subseteq {Risk!CheckOrder[i] : i \in DOMAIN Risk!CheckOrder}
    <3>1. /\ DOMAIN Risk!CheckOrder = 1..7 /\ Risk!CheckOrder[1] = "account"
          /\ Risk!CheckOrder[2] = "vol" /\ Risk!CheckOrder[3] = "kelly"
          /\ Risk!CheckOrder[4] = "drawdown" /\ Risk!CheckOrder[5] = "correlation"
          /\ Risk!CheckOrder[6] = "regime" /\ Risk!CheckOrder[7] = "rate"
      BY DEF Risk!CheckOrder
    <3> QED BY <3>1 DEF Checks
  <2> QED BY <2>1 DEF RiskInv, Risk!RiskTypeOK
<1>2. Len(Risk!Prune(entries)) <= Len(entries) /\ Len(Risk!Prune(entries)) \in Nat
      /\ Len(accepted) \in Nat /\ Len(entries) \in Nat
  BY PruneAging, LenProperties DEF RiskInv
<1>3. Risk!RateBounded
  BY <1>2, RiskAssumption DEF RiskInv, Risk!RateBounded
<1>4. Risk!CountedIsAccepted
  <2>1. CASE "rate" \in enabled
    BY <1>2, <2>1 DEF RiskInv, Risk!CountedIsAccepted
  <2>2. CASE "rate" \notin enabled
    <3>1. Len(Risk!Prune(entries)) = 0
      BY <2>2, EmptyWindow DEF RiskInv
    <3> QED BY <1>2, <3>1 DEF Risk!CountedIsAccepted
  <2> QED BY <2>1, <2>2
<1>5. Risk!NeverEnlarged
  BY DEF RiskInv, Risk!NeverEnlarged
<1> QED BY <1>1, <1>3, <1>4, <1>5
-----------------------------------------------------------------------------
(* The PnL ledger                                                          *)

(* Bills are finitely many; a process writes its equity of a day once, and *)
(* is started again once.                                                  *)
PnLInv ==
  /\ PnL!PnLTypeOK /\ PnL!LedgerComplete /\ IsFiniteSet(bills)
  /\ \A d \in 1..LastDay :
       /\ d < today => equities[d] <= IF d \in restarts THEN 2 ELSE 1
       /\ d = today => equities[d] <= (IF noted = today THEN 1 ELSE 0)
                                        + (IF today \in restarts THEN 1 ELSE 0)
       /\ d > today => equities[d] = 0

(* The ledger counts with the cardinality of the library.                  *)
LEMMA SameCardinality == ASSUME NEW S PROVE PnL!Cardinality(S) = Cardinality(S)
BY DEF Cardinality, PnL!Cardinality

LEMMA PnLInit == PnL!Quiet => PnLInv
<1> SUFFICES ASSUME PnL!Quiet PROVE PnLInv
  OBVIOUS
<1>1. /\ today = 1 /\ due = FALSE /\ ordered = 0 /\ bills = {} /\ ledger = {} /\ noted = 0
      /\ missed = {} /\ restarts = {} /\ equities = [d \in 1..LastDay |-> 0]
  BY DEF PnL!Quiet
<1>2. /\ today \in 1..LastDay /\ ordered \in 0..LastOrder /\ noted \in 0..today
      /\ equities \in [1..LastDay -> Nat]
  BY <1>1, ServiceAssumption
<1>3. PnL!PnLTypeOK
  BY <1>1, <1>2 DEF PnL!PnLTypeOK
<1>4. PnL!LedgerComplete
  BY <1>1 DEF PnL!LedgerComplete
<1>5. IsFiniteSet(bills)
  BY <1>1, FS_EmptySet
<1>6. \A d \in 1..LastDay : equities[d] = 0 /\ d >= 1
  BY <1>1, ServiceAssumption
<1> QED BY <1>1, <1>3, <1>4, <1>5, <1>6 DEF PnLInv

(* What comes with an order is billed today, and buries no bill of before. *)
LEMMA BilledPreserves ==
  ASSUME PnLInv, ordered < LastOrder, ordered' = ordered + 1,
         NEW new, \A b \in new : b.order = ordered + 1 /\ b.day = today,
         IsFiniteSet(new), bills' = bills \cup new,
         UNCHANGED <<today, due, ledger, equities, noted, missed, restarts>>
  PROVE  PnLInv'
<1>1. today \in 1..LastDay /\ ordered \in 0..LastOrder /\ LastDay \in Nat /\ LastOrder \in Nat
  BY ServiceAssumption DEF PnLInv, PnL!PnLTypeOK
<1>2. bills' = bills \cup new
  OBVIOUS
<1>3. \A b \in bills' : b.order \in 1..ordered' /\ b.day \in 1..today
  BY <1>1, <1>2 DEF PnLInv, PnL!PnLTypeOK
<1>4. PnL!PnLTypeOK'
  BY <1>1, <1>2, <1>3 DEF PnLInv, PnL!PnLTypeOK
<1>5. PnL!LedgerComplete'
  <2> SUFFICES ASSUME NEW b \in bills' \ ledger, NEW d \in (b.day + 1)..(b.day + Days),
                      d < today \/ (d = today /\ ~due)
               PROVE  d \in missed \/ PnL!Buried(b)'
    BY DEF PnL!LedgerComplete
  <2>1. b \in bills \ ledger /\ b.day \in Int /\ b.day # today
    <3>1. b.day \in 1..today
      BY <1>3
    <3>2. b.day # today
      BY <1>1, <3>1, ServiceAssumption
    <3> QED BY <1>2, <3>1, <3>2
  <2>2. PnL!OfDay(b.day)' = PnL!OfDay(b.day)
    BY <1>2, <2>1 DEF PnL!OfDay
  <2>3. PnL!Buried(b)' = PnL!Buried(b)
    BY <2>2 DEF PnL!Buried, PnL!Newer
  <2>4. d \in missed \/ PnL!Buried(b)
    BY <2>1 DEF PnLInv, PnL!LedgerComplete
  <2> QED BY <2>3, <2>4
<1>6. IsFiniteSet(bills')
  <2>1. IsFiniteSet(bills) /\ IsFiniteSet(new)
    BY DEF PnLInv
  <2>2. IsFiniteSet(bills \cup new)
    BY <2>1, FS_Union
  <2> QED BY <1>2, <2>2, Zenon
<1> QED BY <1>4, <1>5, <1>6 DEF PnLInv

LEMMA OrderPreserves == ASSUME PnLInv, PnL!Enter \/ PnL!Exit PROVE PnLInv'
<1>1. CASE PnL!Enter
  <2> DEFINE new == {PnL!Bill(ordered', 1, 0)}
  <2>1. ordered' = ordered + 1 /\ \A b \in new : b.order = ordered + 1 /\ b.day = today
    BY <1>1 DEF PnL!Enter, PnL!Bill
  <2>2. IsFiniteSet(new) /\ bills' = bills \cup new
    BY <1>1, FS_Singleton DEF PnL!Enter
  <2> HIDE DEF new
  <2> QED BY <1>1, <2>1, <2>2, BilledPreserves DEF PnL!Enter
<1>2. CASE PnL!Exit
  <2>1. PICK pnl \in {-1, 1}, fillCount \in 0..2 :
          bills' = bills \cup {PnL!Bill(ordered', f, pnl) : f \in 1..fillCount}
    BY <1>2 DEF PnL!Exit
  <2> DEFINE new == {PnL!Bill(ordered', f, pnl) : f \in 1..fillCount}
  <2>2. ordered' = ordered + 1 /\ \A b \in new : b.order = ordered + 1 /\ b.day = today
    BY <1>2 DEF PnL!Exit, PnL!Bill
  <2>3. IsFiniteSet(new)
    <3> DEFINE two == {PnL!Bill(ordered', 1, pnl)} \cup {PnL!Bill(ordered', 2, pnl)}
    <3>1. IsFiniteSet(two)
      BY FS_Singleton, FS_Union
    <3>2. \A f \in 1..fillCount : f = 1 \/ f = 2
      OBVIOUS
    <3>3. new \subseteq two
      BY <3>2
    <3> QED BY <3>1, <3>3, FS_Subset
  <2>4. bills' = bills \cup new
    BY <2>1
  <2> HIDE DEF new
  <2> QED BY <1>2, <2>2, <2>3, <2>4, BilledPreserves DEF PnL!Exit
<1> QED BY <1>1, <1>2

(* Every bill of the window is fetched but those that the newer bills of   *)
(* their own day bury.                                                     *)
LEMMA WindowIsFetched ==
  ASSUME PnLInv, NEW from \in Int, NEW b \in bills, b.day >= from
  PROVE  b \in PnL!FetchBills(from) \/ PnL!Buried(b)
<1>1. b.day \in from..today /\ b.day \in Int
  BY ServiceAssumption DEF PnLInv, PnL!PnLTypeOK
<1> DEFINE above == PnL!Newer(PnL!OfDay(b.day), b)
<1>2. Cardinality(above) \in Nat
  <2>1. above \subseteq bills
    BY DEF PnL!Newer, PnL!OfDay
  <2>2. IsFiniteSet(above)
    BY <2>1, FS_Subset DEF PnLInv
  <2> HIDE DEF above
  <2> QED BY <2>2, FS_CardinalityType
<1>3. PnL!Cardinality(above) \in Nat
  BY <1>2, SameCardinality, Zenon
<1>4. b \in PnL!OfDay(b.day)
  BY DEF PnL!OfDay
<1>5. CASE PnL!Cardinality(above) < PageCap
  <2>1. b \in PnL!Newest(PnL!OfDay(b.day))
    BY <1>4, <1>5 DEF PnL!Newest
  <2> QED BY <1>1, <2>1 DEF PnL!FetchBills
<1>6. CASE ~(PnL!Cardinality(above) < PageCap)
  <2> HIDE DEF above
  <2>1. PnL!Cardinality(above) >= PageCap
    BY <1>3, <1>6, ServiceAssumption
  <2> USE DEF above
  <2> QED BY <2>1 DEF PnL!Buried
<1> QED BY <1>5, <1>6

LEMMA FetchedAreBills ==
  ASSUME NEW from PROVE PnL!FetchBills(from) \subseteq bills
BY DEF PnL!FetchBills, PnL!Newest, PnL!OfDay

LEMMA ReconcilePreserves ==
  ASSUME PnLInv, PnL!Reconcile \/ PnL!ReconcileFails PROVE PnLInv'
<1>1. /\ UNCHANGED <<today, equities, noted, restarts, ordered, bills>> /\ due' = FALSE
      /\ today \in Int /\ Days \in Nat
      /\ missed \subseteq missed' /\ missed' \subseteq 1..today
  <2>1. today \in 1..LastDay /\ LastDay \in Nat /\ Days \in Nat /\ missed \subseteq 1..today
    BY ServiceAssumption DEF PnLInv, PnL!PnLTypeOK
  <2>2. CASE PnL!Reconcile
    BY <2>1, <2>2 DEF PnL!Reconcile, PnL!books
  <2>3. CASE PnL!ReconcileFails
    BY <2>1, <2>3 DEF PnL!ReconcileFails, PnL!books
  <2> QED BY <2>2, <2>3
<1>2. ledger \subseteq ledger' /\ ledger' \subseteq bills
  <2>1. ledger \subseteq bills
    BY DEF PnLInv, PnL!PnLTypeOK
  <2>2. CASE PnL!Reconcile
    <3>1. PICK found \in IF due THEN {PnL!FetchBills(today - Days)}
                         ELSE SUBSET PnL!Within(today - Days) : ledger' = ledger \cup found
      BY <2>2 DEF PnL!Reconcile, PnL!UpsertBills
    <3>2. found \subseteq bills
      BY <3>1, FetchedAreBills DEF PnL!Within
    <3> QED BY <2>1, <3>1, <3>2
  <2>3. CASE PnL!ReconcileFails
    BY <2>1, <2>3 DEF PnL!ReconcileFails
  <2> QED BY <2>2, <2>3
<1>3. PnL!LedgerComplete'
  <2> SUFFICES ASSUME NEW b \in bills \ ledger', NEW d \in (b.day + 1)..(b.day + Days),
                      d <= today
               PROVE  d \in missed' \/ PnL!Buried(b)
    BY <1>1 DEF PnL!LedgerComplete, PnL!Buried, PnL!Newer, PnL!OfDay
  <2>1. b \in bills \ ledger /\ b.day \in Int /\ d \in Int
    BY <1>1, <1>2 DEF PnLInv, PnL!PnLTypeOK
  <2>2. CASE d < today \/ ~due
    <3>1. d \in missed \/ PnL!Buried(b)
      BY <1>1, <2>1, <2>2 DEF PnLInv, PnL!LedgerComplete
    <3> QED BY <1>1, <3>1
  <2>3. CASE d = today /\ due /\ PnL!Reconcile
    <3>1. today - Days \in Int /\ b.day >= today - Days
      BY <1>1, <2>1, <2>3
    <3>2. b \in PnL!FetchBills(today - Days) \/ PnL!Buried(b)
      BY <2>1, <3>1, WindowIsFetched
    <3>3. ledger' = ledger \cup PnL!FetchBills(today - Days)
      BY <2>3 DEF PnL!Reconcile, PnL!UpsertBills
    <3> QED BY <3>2, <3>3
  <2>4. CASE d = today /\ PnL!ReconcileFails
    BY <2>4 DEF PnL!ReconcileFails
  <2> QED BY <1>1, <2>1, <2>2, <2>3, <2>4
<1>4. PnL!PnLTypeOK'
  BY <1>1, <1>2 DEF PnLInv, PnL!PnLTypeOK
<1> QED BY <1>1, <1>3, <1>4 DEF PnLInv

LEMMA DayPreserves == ASSUME PnLInv, PnL!NextDay PROVE PnLInv'
<1>1. /\ UNCHANGED <<ledger, equities, noted, missed, restarts, ordered, bills>>
      /\ today' = today + 1 /\ due' = TRUE /\ ~due /\ today' \in 1..LastDay
      /\ today \in Nat /\ today >= 1 /\ noted \in 0..today /\ restarts \subseteq 1..today
  BY ServiceAssumption DEF PnLInv, PnL!PnLTypeOK, PnL!NextDay, PnL!books
<1>2. \A n \in Int : n \in 1..today => n \in 1..(today + 1)
  BY <1>1
<1>3. PnL!PnLTypeOK'
  BY <1>1, <1>2 DEF PnLInv, PnL!PnLTypeOK
<1>4. PnL!LedgerComplete'
  <2> SUFFICES ASSUME NEW b \in bills \ ledger, NEW d \in (b.day + 1)..(b.day + Days),
                      d < today + 1
               PROVE  d \in missed \/ PnL!Buried(b)
    BY <1>1 DEF PnL!LedgerComplete, PnL!Buried, PnL!Newer, PnL!OfDay
  <2>1. d < today \/ (d = today /\ ~due)
    BY <1>1, ServiceAssumption DEF PnLInv, PnL!PnLTypeOK
  <2> QED BY <2>1 DEF PnLInv, PnL!LedgerComplete
<1>5. \A d \in 1..LastDay :
        /\ d < today + 1 => equities[d] <= IF d \in restarts THEN 2 ELSE 1
        /\ d >= today + 1 => equities[d] = 0
  <2> SUFFICES ASSUME NEW d \in 1..LastDay
               PROVE  /\ d < today + 1 => equities[d] <= IF d \in restarts THEN 2 ELSE 1
                      /\ d >= today + 1 => equities[d] = 0
    OBVIOUS
  <2>1. d \in Int /\ equities[d] \in Nat
    BY ServiceAssumption DEF PnLInv, PnL!PnLTypeOK
  <2> QED BY <1>1, <2>1 DEF PnLInv
<1>6. noted # today + 1 /\ today + 1 \notin restarts
  BY <1>1
<1> QED BY <1>1, <1>3, <1>4, <1>5, <1>6 DEF PnLInv

LEMMA EquityPreserves == ASSUME PnLInv, PnL!RecordEquity \/ PnL!Restart PROVE PnLInv'
<1>1. /\ UNCHANGED <<ledger, today, due, missed, ordered, bills>>
      /\ today \in 1..LastDay /\ LastDay \in Nat /\ noted \in 0..today
      /\ restarts \subseteq 1..today /\ equities \in [1..LastDay -> Nat]
      /\ equities[today] \in Nat
  BY ServiceAssumption DEF PnLInv, PnL!PnLTypeOK, PnL!RecordEquity, PnL!Restart, PnL!books
<1>2. /\ noted' \in 0..today /\ restarts' \subseteq 1..today /\ restarts \subseteq restarts'
      /\ equities' \in [1..LastDay -> Nat]
      /\ \A d \in 1..LastDay : d # today => equities'[d] = equities[d]
  <2>1. CASE PnL!RecordEquity
    <3>1. /\ equities' = [equities EXCEPT ![today] = equities[today] + 1]
          /\ noted' = today /\ restarts' = restarts
      BY <2>1 DEF PnL!RecordEquity, PnL!Kept
    <3>2. equities[today] + 1 \in Nat
      BY <1>1
    <3> QED BY <1>1, <3>1, <3>2
  <2>2. CASE PnL!Restart
    BY <1>1, <2>2 DEF PnL!Restart
  <2> QED BY <2>1, <2>2
<1>3. PnL!PnLTypeOK' /\ PnL!LedgerComplete'
  BY <1>1, <1>2 DEF PnLInv, PnL!PnLTypeOK, PnL!LedgerComplete, PnL!Buried, PnL!Newer, PnL!OfDay
<1>4. equities'[today] <= (IF noted' = today THEN 1 ELSE 0) + (IF today \in restarts' THEN 1 ELSE 0)
  <2>1. equities[today] <= (IF noted = today THEN 1 ELSE 0) + (IF today \in restarts THEN 1 ELSE 0)
    BY <1>1 DEF PnLInv
  <2>2. CASE PnL!RecordEquity
    <3>1. /\ equities'[today] = equities[today] + 1 /\ noted # today /\ noted' = today
          /\ restarts' = restarts
      BY <1>1, <2>2 DEF PnL!RecordEquity, PnL!Kept
    <3> QED BY <1>1, <2>1, <3>1
  <2>3. CASE PnL!Restart
    <3>1. /\ equities' = equities /\ restarts = {} /\ restarts' = {today} /\ noted' = 0
      BY <2>3 DEF PnL!Restart
    <3> QED BY <1>1, <2>1, <3>1
  <2> QED BY <2>2, <2>3
<1>5. \A d \in 1..LastDay :
        /\ d < today => equities'[d] <= IF d \in restarts' THEN 2 ELSE 1
        /\ d > today => equities'[d] = 0
  <2> SUFFICES ASSUME NEW d \in 1..LastDay
               PROVE  /\ d < today => equities'[d] <= IF d \in restarts' THEN 2 ELSE 1
                      /\ d > today => equities'[d] = 0
    OBVIOUS
  <2>1. d \in Int /\ equities[d] \in Nat
    BY <1>1
  <2>2. /\ d < today => equities[d] <= IF d \in restarts THEN 2 ELSE 1
        /\ d > today => equities[d] = 0
    BY DEF PnLInv
  <2> QED BY <1>1, <1>2, <2>1, <2>2
<1>6. IsFiniteSet(bills')
  BY <1>1 DEF PnLInv
<1>7. \A d \in 1..LastDay : d = today => equities'[d] <= (IF noted' = today THEN 1 ELSE 0)
                                           + (IF today \in restarts' THEN 1 ELSE 0)
  BY <1>4
<1> QED BY <1>1, <1>3, <1>5, <1>6, <1>7 DEF PnLInv

LEMMA NextPnL == ASSUME PnLInv, PnL!Next PROVE PnLInv'
BY OrderPreserves, ReconcilePreserves, DayPreserves, EquityPreserves DEF PnL!Next

(* A round trip is an order with a bill that is not zero, and one day has  *)
(* one return.                                                             *)
LEMMA PnLHolds ==
  ASSUME PnLInv
  PROVE  PnL!PnLTypeOK /\ PnL!LedgerComplete /\ PnL!RoundTripsAreCloses /\ PnL!EquityOncePerDay
<1>1. PnL!RoundTripsAreCloses
  <2> SUFFICES ASSUME NEW since, PnL!FetchTradesOkx(since) # {},
                      NEW n \in PnL!GetRoundTrips(since)
               PROVE  \E b \in bills : b.order = n /\ b.pnl # 0
    BY DEF PnL!RoundTripsAreCloses
  <2> DEFINE rows == PnL!RowsOf(PnL!RowsSince(since), n)
  <2>1. n \in PnL!Realized(since)
    BY DEF PnL!GetRoundTrips
  <2>2. PnL!SumPnL(rows) # 0
    BY <2>1 DEF PnL!Realized
  <2>3. \E b \in rows : b.pnl = 1 \/ b.pnl = -1
    <3> SUFFICES ASSUME \A b \in rows : b.pnl # 1 /\ b.pnl # -1 PROVE FALSE
      OBVIOUS
    <3>1. {b \in rows : b.pnl = 1} = {} /\ {b \in rows : b.pnl = -1} = {}
      OBVIOUS
    <3> HIDE DEF rows
    <3>2. /\ PnL!Cardinality({b \in rows : b.pnl = 1}) = 0
          /\ PnL!Cardinality({b \in rows : b.pnl = -1}) = 0
      BY <3>1, FS_EmptySet, SameCardinality, Zenon
    <3>3. PnL!SumPnL(rows) = 0
      BY <3>2 DEF PnL!SumPnL
    <3> QED BY <2>2, <3>3
  <2>4. \A b \in rows : b \in bills /\ b.order = n
    BY DEF PnL!RowsOf, PnL!RowsSince, PnLInv, PnL!PnLTypeOK
  <2> QED BY <2>3, <2>4
<1>2. PnL!EquityOncePerDay
  <2>1. \A d \in 1..LastDay : equities[d] <= IF d \in restarts THEN 2 ELSE 1
    <3> SUFFICES ASSUME NEW d \in 1..LastDay
                 PROVE  equities[d] <= IF d \in restarts THEN 2 ELSE 1
      OBVIOUS
    <3>1. d \in Int /\ equities[d] \in Nat /\ today \in Int
      BY ServiceAssumption DEF PnLInv, PnL!PnLTypeOK
    <3> QED BY <3>1 DEF PnLInv
  <2>2. \A r, s \in PnL!ComputeDailyReturns : r.to = s.to => r = s
    <3> SUFFICES ASSUME NEW r \in PnL!ComputeDailyReturns, NEW s \in PnL!ComputeDailyReturns,
                        r.to = s.to
                 PROVE  r = s
      OBVIOUS
    <3> DEFINE days == {d \in 1..LastDay : equities[d] > 0}
    <3>1. /\ r \in [from : days, to : days] /\ r.from < r.to
          /\ s \in [from : days, to : days] /\ s.from < s.to
          /\ \A d \in days : ~(r.from < d /\ d < r.to) /\ ~(s.from < d /\ d < s.to)
      BY DEF PnL!ComputeDailyReturns
    <3>2. days \subseteq Int
      BY ServiceAssumption
    <3> HIDE DEF days
    <3>3. /\ r.from \in days /\ s.from \in days /\ r.to \in days
          /\ r.from < r.to /\ s.from < r.to
      BY <3>1
    <3>4. ~(r.from < s.from /\ s.from < r.to) /\ ~(s.from < r.from /\ r.from < r.to)
      BY <3>1, <3>3
    <3>5. r.from = s.from
      <4>1. r.from \in Int /\ s.from \in Int
        BY <3>2, <3>3
      <4>2. ~(r.from < s.from) /\ ~(s.from < r.from)
        BY <3>3, <3>4
      <4> QED BY <4>1, <4>2
    <3> QED BY <3>1, <3>5
  <2> QED BY <2>1, <2>2 DEF PnL!EquityOncePerDay
<1> QED BY <1>1, <1>2 DEF PnLInv


-----------------------------------------------------------------------------
(* The services side by side: a step is a step of one of them, and leaves  *)
(* the variables of the others as they are.                                *)

ServicesInv == BucketInv /\ RiskInv /\ ClientInv /\ DataInv /\ StartupInv /\ PnLInv

LEMMA BucketRests == ASSUME BucketInv, UNCHANGED bucketOnly PROVE BucketInv'
BY DEF bucketOnly, BucketInv, TypeOK, RetryAfterBounded, Credit, Refilled

LEMMA RiskRests == ASSUME RiskInv, UNCHANGED riskOnly PROVE RiskInv'
BY DEF riskOnly, RiskInv

LEMMA ClientRests == ASSUME ClientInv, UNCHANGED clientOnly PROVE ClientInv'
<1>1. OpsInv'
  BY OpsUnmoved DEF clientOnly, Client!callVars, ClientInv
<1>2. StreamInv'
  BY StreamUnmoved DEF clientOnly, Client!streamVars, ClientInv
<1> QED BY <1>1, <1>2 DEF ClientInv

LEMMA DataRests == ASSUME DataInv, UNCHANGED dataOnly PROVE DataInv'
BY DEF dataOnly, DataInv, Data!DataTypeOK, Data!NoPushUnheard

LEMMA StartupRests == ASSUME StartupInv, UNCHANGED startupOnly PROVE StartupInv'
BY DEF startupOnly, StartupInv, Startup!StartupTypeOK, LiveAsked, EndedAsked

LEMMA PnLRests == ASSUME PnLInv, UNCHANGED pnlOnly PROVE PnLInv'
BY DEF pnlOnly, PnLInv, PnL!PnLTypeOK, PnL!LedgerComplete, PnL!Buried, PnL!Newer, PnL!OfDay

LEMMA ServicesInit == MCInit => ServicesInv
<1> SUFFICES ASSUME MCInit PROVE ServicesInv
  OBVIOUS
<1>1. BucketInv
  BY BucketInit DEF MCInit
<1>2. RiskInv
  BY RiskInit DEF MCInit, Risk!Init
<1>3. ClientInv /\ DataInv /\ PnLInv
  BY ClientInit, DataInit, PnLInit DEF MCInit
<1>4. StartupInv
  BY StartupInit DEF MCInit
<1> QED BY <1>1, <1>2, <1>3, <1>4 DEF ServicesInv

LEMMA ServicesStep == ServicesInv /\ [MCNext]_mcvars => ServicesInv'
<1> SUFFICES ASSUME ServicesInv, [MCNext]_mcvars PROVE ServicesInv'
  OBVIOUS
<1>1. BucketInv /\ RiskInv /\ ClientInv /\ DataInv /\ StartupInv /\ PnLInv
  BY DEF ServicesInv
<1>2. CASE Next /\ UNCHANGED <<riskOnly, clientOnly, dataOnly, startupOnly, pnlOnly>>
  BY <1>1, <1>2, NextBucket, RiskRests, ClientRests, DataRests, StartupRests, PnLRests
     DEF ServicesInv
<1>3. CASE Risk!Next /\ UNCHANGED <<bucketOnly, clientOnly, dataOnly, startupOnly, pnlOnly>>
  BY <1>1, <1>3, BucketRests, NextRisk, ClientRests, DataRests, StartupRests, PnLRests
     DEF ServicesInv
<1>4. CASE Client!Next /\ UNCHANGED <<bucketOnly, riskOnly, dataOnly, startupOnly, pnlOnly>>
  BY <1>1, <1>4, BucketRests, RiskRests, NextClient, DataRests, StartupRests, PnLRests
     DEF ServicesInv
<1>5. CASE Data!Next /\ UNCHANGED <<bucketOnly, riskOnly, clientOnly, startupOnly, pnlOnly>>
  BY <1>1, <1>5, BucketRests, RiskRests, ClientRests, NextData, StartupRests, PnLRests
     DEF ServicesInv
<1>6. CASE Startup!Next /\ UNCHANGED <<bucketOnly, riskOnly, clientOnly, dataOnly, pnlOnly>>
  BY <1>1, <1>6, BucketRests, RiskRests, ClientRests, DataRests, NextStartup, PnLRests
     DEF ServicesInv
<1>7. CASE PnL!Next /\ UNCHANGED <<bucketOnly, riskOnly, clientOnly, dataOnly, startupOnly>>
  BY <1>1, <1>7, BucketRests, RiskRests, ClientRests, DataRests, StartupRests, NextPnL
     DEF ServicesInv
<1>8. CASE UNCHANGED mcvars
  BY <1>1, <1>8, BucketRests, RiskRests, ClientRests, DataRests, StartupRests, PnLRests
     DEF ServicesInv, mcvars
<1> QED BY <1>2, <1>3, <1>4, <1>5, <1>6, <1>7, <1>8 DEF MCNext

(* Type correctness of every service.                                      *)
THEOREM ServicesTypeCorrect == MCSpec => []ServicesTypeOK
<1>1. ServicesInv => ServicesTypeOK
  BY BucketHolds, RiskHolds, ClientHolds, DataHolds, StartupHolds, PnLHolds
     DEF ServicesInv, ServicesTypeOK
<1> QED BY <1>1, ServicesInit, ServicesStep, PTL DEF MCSpec

(* The bound of the bucket (acquire, cool_down): the grants of a window,   *)
(* times the period, never exceed a full bucket and the refill of the      *)
(* window, for every capacity, period, number of coroutines and cool-down. *)
THEOREM RateBound == MCSpec => []GrantsBounded
<1>1. ServicesInv => GrantsBounded
  BY BucketHolds DEF ServicesInv
<1> QED BY <1>1, ServicesInit, ServicesStep, PTL DEF MCSpec

(* The risk pipeline (check_all, TradeRateCheck): at most MaxTrades        *)
(* entries leave it in any window, whatever the checks answer, only        *)
(* entries that every check approved fill the window, and no combination   *)
(* of checks, percentages and readings enlarges a size.                    *)
THEOREM EntriesRationed == MCSpec => []EntriesAreRationed
<1>1. ServicesInv => EntriesAreRationed
  BY RiskHolds DEF ServicesInv, EntriesAreRationed
<1> QED BY <1>1, ServicesInit, ServicesStep, PTL DEF MCSpec

(* Trading operations (_send_op, _process): what was reported is what      *)
(* happened at OKX, for any number of operations in flight, and a future   *)
(* is registered exactly while its caller waits.                           *)
THEOREM OperationsTrue == MCSpec => []OperationsAreTrue
<1>1. ServicesInv => OperationsAreTrue
  BY ClientHolds DEF ServicesInv, OperationsAreTrue
<1> QED BY <1>1, ServicesInit, ServicesStep, PTL DEF MCSpec

(* Streams and subscriptions (Dispatcher, OKXLiveDataClient): the queue    *)
(* holds the latest frames in order, for every capacity, and what is held  *)
(* to be active is subscribed with its handler in place.                   *)
THEOREM StreamsAreDelivered == MCSpec => []StreamsDeliver
<1>1. ServicesInv => StreamsDeliver
  BY ClientHolds, DataHolds DEF ServicesInv, StreamsDeliver
<1> QED BY <1>1, ServicesInit, ServicesStep, PTL DEF MCSpec

(* The start of the execution client (generate_*_reports): every order of  *)
(* a covered type is reported or its end is pushed, in every interleaving  *)
(* of the requests with the orders that end.                               *)
THEOREM VenueIsReported == MCSpec => []ReportsCoverVenue
<1>1. ServicesInv => ReportsCoverVenue
  BY StartupHolds DEF ServicesInv, ReportsCoverVenue
<1> QED BY <1>1, ServicesInit, ServicesStep, PTL DEF MCSpec

(* The PnL database (reconcile_pnl_from_okx, get_round_trips): a bill is   *)
(* missing only when every night whose window held it failed or its day    *)
(* hit the cap with newer ones, a round trip was closed at OKX, and a day  *)
(* has one return, for every number of days, every cap and every window.   *)
THEOREM BooksTrue == MCSpec => []BooksAreTrue
<1>1. ServicesInv => BooksAreTrue
  BY PnLHolds DEF ServicesInv, BooksAreTrue
<1> QED BY <1>1, ServicesInit, ServicesStep, PTL DEF MCSpec
=============================================================================
