------------------------------ MODULE TokenBucket ------------------------------
(***************************************************************************)
(* The token bucket of one endpoint group (rest/ratelimit.py), shared by   *)
(* the coroutines of Transport.request (rest/transport.py): every attempt  *)
(* acquires one token first, and an HTTP 429 calls cool_down.              *)
(*                                                                         *)
(* Times are in ticks and relative: `elapsed` is now - last_refill, which  *)
(* is negative while the bucket cools down.  A token is Period units, so   *)
(* that a tick refills Capacity units.  Sleeps end on time or later.       *)
(***************************************************************************)
EXTENDS Integers, Sequences

CONSTANTS
  Tasks,     \* coroutines that send requests of the group
  Capacity,  \* tokens of a full bucket
  Period,    \* ticks it takes to fill
  MaxCool,   \* longest Retry-After of a 429, in ticks
  MaxAge     \* bound: length of the windows in which grants are counted

ASSUME ConstantsAssumption ==
  /\ Capacity \in Nat \ {0}
  /\ Period \in Nat \ {0}
  /\ MaxCool \in Nat
  /\ MaxAge \in Nat

VARIABLES
  tokens,   \* TokenBucket.tokens, in units
  elapsed,  \* now - last_refill; Period stands for more
  queue,    \* who holds _lock, then who waits for it
  pc,       \* what each coroutine does
  left,     \* the rest of its sleep, or of the cool-down it asks for
  age,      \* ticks since the window of the history began
  count     \* tokens granted in it

history == <<age, count>>
vars == <<tokens, elapsed, queue, pc, left, age, count>>

Full == Capacity * Period

Init ==
  /\ tokens = Full
  /\ elapsed = 0
  /\ queue = <<>>
  /\ pc = [t \in Tasks |-> "idle"]
  /\ left = [t \in Tasks |-> 0]
  /\ age = 0
  /\ count = 0

-----------------------------------------------------------------------------
(* Time *)

\* The history starts a new window when the last one reaches its bound.
Tick ==
  /\ elapsed' = IF elapsed < Period THEN elapsed + 1 ELSE elapsed
  /\ left' = [t \in Tasks |-> IF pc[t] \in {"asleep", "cooling"} /\ left[t] > 0
                              THEN left[t] - 1 ELSE left[t]]
  /\ IF age < MaxAge
     THEN age' = age + 1 /\ UNCHANGED count
     ELSE age' = 0 /\ count' = 0
  /\ UNCHANGED <<tokens, queue, pc>>

\* Any moment may be taken for the beginning of a window.
NewWindow ==
  /\ age > 0
  /\ age' = 0
  /\ count' = 0
  /\ UNCHANGED <<tokens, elapsed, queue, pc, left>>

-----------------------------------------------------------------------------
(* acquire *)

Least(x, y) == IF x < y THEN x ELSE y

\* Mutant: the refill is not clipped at the capacity.
RefilledPastFull == IF elapsed > 0 THEN tokens + Capacity * elapsed ELSE tokens

\* The tokens after the refill at the top of the loop.
Refilled == IF elapsed > 0 THEN Least(Full, tokens + Capacity * elapsed) ELSE tokens

\* deficit / refill_rate, in whole ticks.
Wait(units) == (Period - units + Capacity - 1) \div Capacity

\* Mutant: whoever waits for tokens releases the lock and queues again.
ReleaseTurn == queue' = Append(Tail(queue), Head(queue))

\* asyncio.sleep is awaited inside the async with: the lock stays taken.
KeepTurn == UNCHANGED queue

HasLock(t) == queue # <<>> /\ Head(queue) = t

Acquire(t) ==
  /\ pc[t] = "idle"
  /\ pc' = [pc EXCEPT ![t] = "asking"]
  /\ queue' = Append(queue, t)
  /\ UNCHANGED <<tokens, elapsed, left, history>>

\* One turn of the loop under the lock.
Grant(t) ==
  /\ HasLock(t)
  /\ pc[t] = "asking" \/ (pc[t] = "asleep" /\ left[t] = 0)
  /\ Refilled >= Period
  /\ tokens' = Refilled - Period
  /\ elapsed' = Least(elapsed, 0)
  /\ queue' = Tail(queue)
  /\ pc' = [pc EXCEPT ![t] = "sent"]
  /\ count' = count + 1
  /\ UNCHANGED <<left, age>>

Sleep(t) ==
  /\ HasLock(t)
  /\ pc[t] = "asking" \/ (pc[t] = "asleep" /\ left[t] = 0)
  /\ Refilled < Period
  /\ tokens' = Refilled
  /\ elapsed' = Least(elapsed, 0)
  /\ left' = [left EXCEPT ![t] = Wait(Refilled)]
  /\ pc' = [pc EXCEPT ![t] = "asleep"]
  /\ KeepTurn
  /\ UNCHANGED history

-----------------------------------------------------------------------------
(* The answer (external), and cool_down *)

Answered(t) ==
  /\ pc[t] = "sent"
  /\ pc' = [pc EXCEPT ![t] = "idle"]
  /\ UNCHANGED <<tokens, elapsed, queue, left, history>>

\* HTTP 429 with its Retry-After.
TooManyRequests(t) ==
  /\ pc[t] = "sent"
  /\ pc' = [pc EXCEPT ![t] = "limited"]
  /\ queue' = Append(queue, t)
  /\ \E seconds \in 0..MaxCool : left' = [left EXCEPT ![t] = seconds]
  /\ UNCHANGED <<tokens, elapsed, history>>

\* cool_down: the bucket is emptied under the lock, the sleep is outside it.
CoolDown(t) ==
  /\ HasLock(t)
  /\ pc[t] = "limited"
  /\ tokens' = 0
  /\ elapsed' = -left[t]
  /\ queue' = Tail(queue)
  /\ pc' = [pc EXCEPT ![t] = "cooling"]
  /\ UNCHANGED <<left, history>>

CoolDownReturns(t) ==
  /\ pc[t] = "cooling"
  /\ left[t] = 0
  /\ pc' = [pc EXCEPT ![t] = "idle"]
  /\ UNCHANGED <<tokens, elapsed, queue, left, history>>

-----------------------------------------------------------------------------
Turn(t) == Grant(t) \/ Sleep(t) \/ CoolDown(t)

Next ==
  \/ Tick
  \/ NewWindow
  \/ \E t \in Tasks :
       \/ Acquire(t)
       \/ Turn(t)
       \/ Answered(t)
       \/ TooManyRequests(t)
       \/ CoolDownReturns(t)

Spec == Init /\ [][Next]_vars

\* Time passes and the event loop runs what is ready.  Nobody has to send a
\* request, and OKX may answer every one of them with a 429.
Fairness ==
  /\ WF_vars(Tick)
  /\ \A t \in Tasks : WF_vars(Turn(t))

FairSpec == Spec /\ Fairness

-----------------------------------------------------------------------------
(* Properties *)

\* The bucket is never negative and never above its capacity.
TypeOK ==
  /\ tokens \in 0..Full
  /\ elapsed \in -MaxCool..Period
  /\ queue \in Seq(Tasks)
  /\ pc \in [Tasks -> {"idle", "asking", "asleep", "sent", "limited", "cooling"}]
  /\ left \in [Tasks -> Nat]
  /\ age \in 0..MaxAge
  /\ count \in Nat

\* In a window of any length, beginning at any moment, the bucket grants no
\* more than it holds when full and what the rate refills in the window,
\* however the coroutines interleave, oversleep and cool it down.
GrantsBounded == count * Period <= Full + Capacity * age

\* Nobody waits for ever for a token, even when every request sent meets a
\* 429 that empties the bucket again.
AcquireReturns ==
  \A t \in Tasks : pc[t] \in {"asking", "asleep"} ~> pc[t] = "sent"

=============================================================================
