------------------------ MODULE BasketRebalance_proofs ------------------------
(***************************************************************************)
(* For every set of strategies, instruments, leverages and rounds:         *)
(* the leverage cache of the margin service agrees with OKX, whatever is   *)
(* asked and whatever fails (IsolatedMargin, the first part); the          *)
(* coroutines of the baskets keep their types and use the service by its   *)
(* operations, so that the cache stays true under them; a leg that was     *)
(* validated is not given up for its leverage; and a complete round of the *)
(* momentum strategy reaches its target.                                   *)
(***************************************************************************)
EXTENDS BasketRebalance, TLAPS, SequenceTheorems

\* A key without doubt has at most one call under way, and OKX still holds the
\* leverage of a call that it has carried out.
OneCall ==
  \A s \in Coroutines : call[s] # Idle /\ call[s].key \notin doubt =>
    /\ \A t \in Coroutines : call[t] # Idle /\ call[t].key = call[s].key => t = s
    /\ call[s].at = "applied" => lever[call[s].key] = call[s].value

MarginInv == MarginTypeOK /\ OneCall /\ CacheMatchesOkx

-----------------------------------------------------------------------------
LEMMA CallType ==
  ASSUME MarginTypeOK, NEW s \in Coroutines, call[s] # Idle
  PROVE  /\ call[s] \in Calls
         /\ call[s].at \in {"sent", "applied"}
         /\ call[s].key \in Keys
         /\ call[s].value \in Levels
BY DEF MarginTypeOK, Calls

LEMMA IdleIsNoCall == \A c \in Calls : c # Idle
BY DEF Calls, Idle

LEMMA LeverType ==
  ASSUME NEW s \in Coroutines, NEW l \in Levers[s]
  PROVE  l \in Levels
BY DEF Levels

LEMMA InitMargin == MarginInit => MarginInv
<1> SUFFICES ASSUME MarginInit PROVE MarginInv
  OBVIOUS
<1>1. MarginTypeOK
  BY MarginAssumption DEF MarginInit, MarginTypeOK, Levels, NoMode, NoLever
<1>2. OneCall
  BY DEF MarginInit, OneCall
<1>3. CacheMatchesOkx
  BY DEF MarginInit, CacheMatchesOkx
<1> QED BY <1>1, <1>2, <1>3 DEF MarginInv

-----------------------------------------------------------------------------
(* The steps *)

LEMMA LearnStep == ASSUME MarginInv, LearnPosMode PROVE MarginInv'
<1>1. MarginTypeOK'
  BY MarginAssumption DEF MarginInv, MarginTypeOK, LearnPosMode, Modes
<1>2. OneCall' /\ CacheMatchesOkx'
  BY DEF MarginInv, OneCall, CacheMatchesOkx, LearnPosMode
<1> QED BY <1>1, <1>2 DEF MarginInv

LEMMA AskStep ==
  ASSUME MarginInv, NEW s \in Coroutines, NEW k \in Keys, NEW l \in Levers[s],
         Ask(s, k, l)
  PROVE  MarginInv'
<1> DEFINE c == [at |-> "sent", key |-> k, value |-> l]
<1>1. c \in Calls /\ c.at = "sent" /\ c.key = k /\ c # Idle
  BY LeverType, IdleIsNoCall DEF Calls
<1>2. MarginTypeOK'
  BY <1>1 DEF MarginInv, MarginTypeOK, Ask
<1>3. /\ call'[s] = c
      /\ \A t \in Coroutines : t # s => call'[t] = call[t]
      /\ call[s] = Idle
  BY DEF MarginInv, MarginTypeOK, Ask
<1>4. doubt \subseteq doubt' /\ (k \notin doubt' => ~Busy(k)) /\ lever' = lever /\ cache' = cache
  BY DEF Ask
<1>5. OneCall'
  <2> SUFFICES ASSUME NEW t \in Coroutines, call'[t] # Idle, call'[t].key \notin doubt'
               PROVE  /\ \A u \in Coroutines :
                           call'[u] # Idle /\ call'[u].key = call'[t].key => u = t
                      /\ call'[t].at = "applied" => lever'[call'[t].key] = call'[t].value
    BY DEF OneCall
  <2>1. CASE t = s
    BY <2>1, <1>1, <1>3, <1>4 DEF Busy
  <2>2. CASE t # s
    <3>1. call'[t] = call[t] /\ call[t].key \notin doubt
      BY <2>2, <1>3, <1>4
    <3>2. call[t].key # k
      BY <3>1, <1>4, <2>2, <1>3 DEF Busy
    <3> QED BY <2>2, <3>1, <3>2, <1>1, <1>3, <1>4 DEF MarginInv, OneCall
  <2> QED BY <2>1, <2>2
<1>6. CacheMatchesOkx'
  <2> SUFFICES ASSUME NEW j \in Keys \ doubt'
               PROVE  \/ cache'[j] \in {NoLever, lever'[j]}
                      \/ \E t \in Coroutines :
                           call'[t] # Idle /\ call'[t].key = j /\ call'[t].at = "applied"
    BY DEF CacheMatchesOkx
  <2>1. j \in Keys \ doubt
    BY <1>4
  <2> QED BY <2>1, <1>3, <1>4 DEF MarginInv, CacheMatchesOkx
<1> QED BY <1>2, <1>5, <1>6 DEF MarginInv

LEMMA OkxSetsStep ==
  ASSUME MarginInv, NEW s \in Coroutines, OkxSets(s)
  PROVE  MarginInv'
<1> DEFINE k == call[s].key
<1>1. call[s] \in Calls /\ k \in Keys /\ call[s].value \in Levels
  BY CallType DEF MarginInv, OkxSets
<1>2. /\ call' = [call EXCEPT ![s] = [@ EXCEPT !.at = "applied"]]
      /\ lever' = [lever EXCEPT ![k] = call[s].value]
      /\ UNCHANGED <<posMode, cache, doubt>>
  BY DEF OkxSets
<1>3. /\ call'[s] \in Calls /\ call'[s].key = k /\ call'[s].value = call[s].value
      /\ call'[s].at = "applied"
      /\ \A t \in Coroutines : t # s => call'[t] = call[t]
  BY <1>1, <1>2 DEF MarginInv, MarginTypeOK, Calls
<1>4. MarginTypeOK'
  <2>1. call' \in [Coroutines -> Calls \union {Idle}]
    BY <1>2, <1>3 DEF MarginInv, MarginTypeOK
  <2>2. lever' \in [Keys -> Levels]
    BY <1>1, <1>2 DEF MarginInv, MarginTypeOK
  <2> QED BY <1>2, <2>1, <2>2 DEF MarginInv, MarginTypeOK
<1>5. lever'[k] = call[s].value /\ \A j \in Keys : j # k => lever'[j] = lever[j]
  BY <1>1, <1>2 DEF MarginInv, MarginTypeOK
<1>6. call'[s] # Idle /\ call[s] # Idle
  BY <1>3, IdleIsNoCall DEF OkxSets
<1>7. OneCall'
  <2> SUFFICES ASSUME NEW t \in Coroutines, call'[t] # Idle, call'[t].key \notin doubt'
               PROVE  /\ \A u \in Coroutines :
                           call'[u] # Idle /\ call'[u].key = call'[t].key => u = t
                      /\ call'[t].at = "applied" => lever'[call'[t].key] = call'[t].value
    BY DEF OneCall
  <2>1. \A u \in Coroutines : call'[u] # Idle => call[u] # Idle /\ call[u].key = call'[u].key
    BY <1>3, <1>6
  <2>2. call[t] # Idle /\ call[t].key = call'[t].key /\ call[t].key \notin doubt
    BY <2>1, <1>2
  <2>3. \A u \in Coroutines : call[u] # Idle /\ call[u].key = call[t].key => u = t
    BY <2>2 DEF MarginInv, OneCall
  <2>4. call'[t].at = "applied" => lever'[call'[t].key] = call'[t].value
    <3>1. CASE t = s
      BY <3>1, <1>3, <1>5
    <3>2. CASE t # s
      <4>1. call'[t] = call[t] /\ call[t].key \in Keys /\ call[t].key # k
        BY <3>2, <1>3, <2>2, <2>3, <1>6, CallType DEF MarginInv
      <4> QED BY <4>1, <2>2, <1>5 DEF MarginInv, OneCall
    <3> QED BY <3>1, <3>2
  <2> QED BY <2>1, <2>2, <2>3, <2>4
<1>8. CacheMatchesOkx'
  <2> SUFFICES ASSUME NEW j \in Keys \ doubt'
               PROVE  \/ cache'[j] \in {NoLever, lever'[j]}
                      \/ \E t \in Coroutines :
                           call'[t] # Idle /\ call'[t].key = j /\ call'[t].at = "applied"
    BY DEF CacheMatchesOkx
  <2>1. CASE j = k
    BY <2>1, <1>3, <1>6
  <2>2. CASE j # k
    <3>1. lever'[j] = lever[j] /\ cache'[j] = cache[j] /\ j \in Keys \ doubt
      BY <2>2, <1>5, <1>2
    <3>2. \A t \in Coroutines : call[t] # Idle /\ call[t].key = j => call'[t] = call[t]
      BY <2>2, <1>3
    <3> QED BY <3>1, <3>2 DEF MarginInv, CacheMatchesOkx
  <2> QED BY <2>1, <2>2
<1> QED BY <1>4, <1>7, <1>8 DEF MarginInv

\* A call ends and takes neither the leverage nor the other calls along.
LEMMA CallEnds ==
  ASSUME MarginInv, NEW s \in Coroutines, call[s] # Idle,
         call' = [call EXCEPT ![s] = Idle], lever' = lever, doubt \subseteq doubt'
  PROVE  /\ OneCall'
         /\ \A t \in Coroutines : t # s => call'[t] = call[t]
         /\ call'[s] = Idle
         /\ call' \in [Coroutines -> Calls \union {Idle}]
<1>1. /\ \A t \in Coroutines : t # s => call'[t] = call[t]
      /\ call'[s] = Idle
      /\ call' \in [Coroutines -> Calls \union {Idle}]
  BY DEF MarginInv, MarginTypeOK
<1>2. OneCall'
  BY <1>1 DEF MarginInv, OneCall
<1> QED BY <1>1, <1>2

LEMMA EnsuredStep ==
  ASSUME MarginInv, NEW s \in Coroutines, Ensured(s)
  PROVE  MarginInv'
<1> DEFINE k == call[s].key
<1>1. call[s] # Idle
  BY DEF Ensured, Idle
<1>2. k \in Keys /\ call[s].value \in Levels /\ call[s].at = "applied"
  BY <1>1, CallType DEF MarginInv, Ensured
<1>3. /\ OneCall'
      /\ \A t \in Coroutines : t # s => call'[t] = call[t]
      /\ call'[s] = Idle
      /\ call' \in [Coroutines -> Calls \union {Idle}]
  BY <1>1, CallEnds DEF Ensured
<1>4. MarginTypeOK'
  BY <1>2, <1>3 DEF MarginInv, MarginTypeOK, Ensured
<1>5. CacheMatchesOkx'
  <2> SUFFICES ASSUME NEW j \in Keys \ doubt'
               PROVE  \/ cache'[j] \in {NoLever, lever'[j]}
                      \/ \E t \in Coroutines :
                           call'[t] # Idle /\ call'[t].key = j /\ call'[t].at = "applied"
    BY DEF CacheMatchesOkx
  <2>0. j \in Keys \ doubt /\ lever' = lever
    BY DEF Ensured
  <2>1. CASE j = k
    <3>1. cache'[j] = call[s].value
      BY <2>1, <1>2 DEF MarginInv, MarginTypeOK, Ensured
    <3>2. lever[k] = call[s].value
      BY <2>0, <2>1, <1>1, <1>2 DEF MarginInv, OneCall
    <3> QED BY <3>1, <3>2, <2>0, <2>1
  <2>2. CASE j # k
    <3>1. cache'[j] = cache[j]
      BY <2>2 DEF MarginInv, MarginTypeOK, Ensured
    <3>2. \A t \in Coroutines : call[t] # Idle /\ call[t].key = j => call'[t] = call[t]
      BY <2>2, <1>3
    <3> QED BY <3>1, <3>2, <2>0 DEF MarginInv, CacheMatchesOkx
  <2> QED BY <2>1, <2>2
<1> QED BY <1>3, <1>4, <1>5 DEF MarginInv

LEMMA DeniedStep ==
  ASSUME MarginInv, NEW s \in Coroutines, Denied(s)
  PROVE  MarginInv'
<1> DEFINE k == call[s].key
<1>1. call[s] # Idle /\ k \in Keys /\ call[s].at \in {"sent", "applied"}
  BY CallType DEF MarginInv, Denied
<1>2. doubt \subseteq doubt' /\ (k \notin doubt' => call[s].at = "sent")
  BY <1>1 DEF Denied
<1>3. /\ OneCall'
      /\ \A t \in Coroutines : t # s => call'[t] = call[t]
      /\ call'[s] = Idle
      /\ call' \in [Coroutines -> Calls \union {Idle}]
  BY <1>1, <1>2, CallEnds DEF Denied
<1>4. MarginTypeOK'
  BY <1>1, <1>3 DEF MarginInv, MarginTypeOK, Denied
<1>5. CacheMatchesOkx'
  <2> SUFFICES ASSUME NEW j \in Keys \ doubt'
               PROVE  \/ cache'[j] \in {NoLever, lever'[j]}
                      \/ \E t \in Coroutines :
                           call'[t] # Idle /\ call'[t].key = j /\ call'[t].at = "applied"
    BY DEF CacheMatchesOkx
  <2>1. j \in Keys \ doubt /\ lever' = lever /\ cache' = cache
    BY <1>2 DEF Denied
  <2>2. ASSUME NEW t \in Coroutines, call[t] # Idle, call[t].key = j, call[t].at = "applied"
        PROVE  t # s
    BY <2>2, <1>2
  <2> QED BY <2>1, <2>2, <1>3 DEF MarginInv, CacheMatchesOkx
<1> QED BY <1>3, <1>4, <1>5 DEF MarginInv

-----------------------------------------------------------------------------
LEMMA MarginStep == MarginInv /\ [MarginNext]_marginVars => MarginInv'
<1> SUFFICES ASSUME MarginInv, [MarginNext]_marginVars PROVE MarginInv'
  OBVIOUS
<1>1. CASE UNCHANGED marginVars
  BY <1>1 DEF marginVars, MarginInv, MarginTypeOK, OneCall, CacheMatchesOkx
<1>2. CASE LearnPosMode
  BY <1>2, LearnStep
<1>3. ASSUME NEW s \in Coroutines, NEW k \in Keys, NEW l \in Levers[s], Ask(s, k, l)
      PROVE  MarginInv'
  BY <1>3, AskStep
<1>4. ASSUME NEW s \in Coroutines, OkxSets(s) PROVE MarginInv'
  BY <1>4, OkxSetsStep
<1>5. ASSUME NEW s \in Coroutines, Ensured(s) PROVE MarginInv'
  BY <1>5, EnsuredStep
<1>6. ASSUME NEW s \in Coroutines, Denied(s) PROVE MarginInv'
  BY <1>6, DeniedStep
<1> QED BY <1>1, <1>2, <1>3, <1>4, <1>5, <1>6 DEF MarginNext

THEOREM MarginInvariant == MarginSpec => []MarginInv
<1>1. MarginInit => MarginInv
  BY InitMargin
<1>2. MarginInv /\ [MarginNext]_marginVars => MarginInv'
  BY MarginStep
<1> QED BY <1>1, <1>2, PTL DEF MarginSpec

\* The service keeps its cache true to OKX, whoever asks for what and when:
\* what it reports as set is what OKX holds, unless two calls for one key were
\* under way at once or a call failed after OKX had carried it out.
THEOREM CacheCoherent == MarginSpec => []CacheMatchesOkx
<1>1. MarginInv => CacheMatchesOkx
  BY DEF MarginInv
<1> QED BY <1>1, MarginInvariant, PTL

-----------------------------------------------------------------------------
\* A job of strategy s; only xsm treats quantities beyond MaxQty.
AnyJob  == [inst : Insts, qty : Int, reduce : BOOLEAN]
Jobs(s) == {j \in AnyJob : j.inst \in Universe[s] /\ (Kind[s] # "xsm" => j.qty \in Signed)}

AnyOrder == [by : Coroutines, inst : Insts, side : {"long", "short"}, lots : Nat,
             reduce : BOOLEAN, mode : {"isolated", "cross"}]

ControlOK ==
  /\ turn \in Coroutines \union {Loop}
  /\ pc \in [Coroutines -> {"idle", "mode", "validate", "submit"}]
  /\ failed \in [Coroutines -> BOOLEAN]
  /\ complete \in [Coroutines -> BOOLEAN]
  /\ overlapped \in [Coroutines -> BOOLEAN]

\* A strategy wants nothing outside its universe.
RoundOK ==
  /\ rounds \in Schedules
  /\ want \in [Coroutines -> [Insts -> Signed]]
  /\ ask \in [Coroutines -> [Insts -> Levels]]
  /\ delta \in [Coroutines -> [Insts -> Int]]
  /\ \A s \in Coroutines, i \in Insts :
       (want[s][i] # 0 \/ delta[s][i] # 0) => i \in Universe[s]

\* The leverages of a round are the strategy's.
AskOK ==
  \A s \in Coroutines, i \in Insts :
    pc[s] # "idle" /\ i \in Universe[s] => ask[s][i] \in Levers[s]

WorkOK ==
  /\ work \in [Coroutines -> SUBSET Insts]
  /\ \A s \in Coroutines : work[s] \subseteq Universe[s]

JobsOK ==
  /\ todo \in [Coroutines -> Seq(AnyJob)]
  /\ \A s \in Coroutines : todo[s] \in Seq(Jobs(s)) /\ Len(todo[s]) <= 2
  /\ book \in [Coroutines -> [Insts -> Signed]]
  /\ inflight \subseteq AnyOrder

HeldOK == held \in [{"isolated", "cross"} -> [Insts -> [{"long", "short"} -> Nat]]]

\* A strategy has a set-leverage call under way only while its coroutine
\* awaits the answer, and then for a leg or for the order at hand.
AwaitOK ==
  /\ \A s \in Coroutines :
       turn = s \/ pc[s] \in {"idle", "mode"} => call[s] = Idle
  /\ \A s \in Coroutines : pc[s] = "submit" /\ call[s] # Idle => todo[s] # <<>>

BasketInv ==
  MarginInv /\ ControlOK /\ RoundOK /\ AskOK /\ WorkOK /\ JobsOK /\ HeldOK /\ AwaitOK

-----------------------------------------------------------------------------
(* Data *)

LEMMA LoopIsNone == Loop \notin Coroutines
BY BasketAssumption

LEMMA BasketInvTypes == BasketInv => TypeOK
BY DEF BasketInv, MarginInv, ControlOK, RoundOK, WorkOK, JobsOK, HeldOK, TypeOK

LEMMA SignedType == Signed \subseteq Int /\ 0 \in Signed /\ \A q \in Signed : -q \in Signed
BY BasketAssumption DEF Signed

LEMMA LotsType == \A q \in Int : Lots(q) \in Nat
BY DEF Lots

\* The risk pipeline shrinks a leg.
LEMMA ShrunkType ==
  ASSUME NEW q \in Signed, NEW n \in 0..Lots(q)
  PROVE  Sign(q) * n \in Signed
<1>1. n \in Int /\ q \in Int /\ MaxQty \in Nat
  BY SignedType, LotsType, BasketAssumption
<1>2. CASE q > 0
  BY <1>1, <1>2 DEF Sign, Signed, Lots
<1>3. CASE q < 0
  BY <1>1, <1>3 DEF Sign, Signed, Lots
<1>4. CASE q = 0
  BY <1>1, <1>4, SignedType DEF Sign, Signed, Lots
<1> QED BY <1>1, <1>2, <1>3, <1>4

LEMMA OrderType ==
  ASSUME NEW s \in Coroutines, NEW i \in Insts, NEW q \in Int, NEW r \in BOOLEAN,
         NEW m \in {"isolated", "cross"}
  PROVE  Order(s, i, q, r, m) \in AnyOrder
BY LotsType DEF Order, AnyOrder, PositionSide

LEMMA NetType == ASSUME HeldOK, NEW i \in Insts PROVE Net(i) \in Int
BY DEF HeldOK, Net

\* The key of an order or a leg.
LEMMA KeyType ==
  ASSUME NEW i \in Insts, NEW d \in {"long", "short"}
  PROVE  KeyOf(i, d) \in Keys
BY DEF KeyOf, Keys

LEMMA OneJobType ==
  ASSUME NEW S, NEW j \in S
  PROVE  <<j>> \in Seq(S) /\ Len(<<j>>) <= 2
OBVIOUS

LEMMA TwoJobsType ==
  ASSUME NEW S, NEW j \in S, NEW k \in S
  PROVE  <<j, k>> \in Seq(S) /\ Len(<<j, k>>) <= 2
OBVIOUS

LEMMA NoJobType == ASSUME NEW S PROVE <<>> \in Seq(S) /\ Len(<<>>) <= 2
OBVIOUS

\* What is left of the jobs of a strategy.
LEMMA TailType ==
  ASSUME NEW S, NEW q \in Seq(S), q # <<>>, Len(q) <= 2
  PROVE  Head(q) \in S /\ Tail(q) \in Seq(S) /\ Len(Tail(q)) <= 2
<1>1. Head(q) \in S /\ Tail(q) \in Seq(S) /\ Len(Tail(q)) = Len(q) - 1
  BY HeadTailProperties
<1> QED BY <1>1, LenProperties

\* plan_delta_orders makes at most two jobs of the delta.
LEMMA PlanType ==
  ASSUME NEW s \in Coroutines, Kind[s] = "xsm", NEW i \in Insts, i \in Universe[s],
         NEW c \in Int, NEW d \in Int
  PROVE  PlanDeltaOrders(i, c, d) \in Seq(Jobs(s)) /\ Len(PlanDeltaOrders(i, c, d)) <= 2
<1>1. \A q \in Int, r \in BOOLEAN : Job(i, q, r) \in Jobs(s)
  BY DEF Job, Jobs, AnyJob
<1>2. Job(i, d, FALSE) \in Jobs(s) /\ Job(i, d, TRUE) \in Jobs(s)
  BY <1>1
<1>3. Job(i, -c, TRUE) \in Jobs(s) /\ Job(i, d + c, FALSE) \in Jobs(s)
  <2>1. -c \in Int /\ d + c \in Int
    OBVIOUS
  <2> QED BY <1>1, <2>1
<1>4. CASE d = 0
  BY <1>4, NoJobType DEF PlanDeltaOrders
<1>5. CASE d # 0 /\ (c = 0 \/ Sign(c) = Sign(d))
  BY <1>2, <1>5, OneJobType DEF PlanDeltaOrders
<1>6. CASE d # 0 /\ ~(c = 0 \/ Sign(c) = Sign(d)) /\ Lots(d) <= Lots(c)
  BY <1>2, <1>6, OneJobType DEF PlanDeltaOrders
<1>7. CASE d # 0 /\ ~(c = 0 \/ Sign(c) = Sign(d)) /\ ~(Lots(d) <= Lots(c))
  BY <1>3, <1>7, TwoJobsType DEF PlanDeltaOrders
<1> QED BY <1>4, <1>5, <1>6, <1>7

-----------------------------------------------------------------------------
(* The steps.  Each is an operation of the service or leaves it alone. *)

LEMMA ServiceStep ==
  ASSUME BasketInv, [MarginNext]_marginVars
  PROVE  MarginInv'
BY MarginStep DEF BasketInv

LEMMA InitBasket == Init => BasketInv
<1> SUFFICES ASSUME Init PROVE BasketInv
  OBVIOUS
<1>1. MarginInv
  BY InitMargin DEF Init
<1>2. ControlOK
  BY DEF Init, ControlOK
<1>3. RoundOK
  <2>1. NoTarget \in [Insts -> Signed] /\ NoTarget \in [Insts -> Int]
        /\ \A i \in Insts : NoTarget[i] = 0
    BY SignedType DEF NoTarget
  <2>2. FirstLever \in Levels
    BY DEF Levels
  <2>3. rounds \in Schedules
    BY BasketAssumption DEF Init
  <2>4. ask \in [Coroutines -> [Insts -> Levels]]
    BY <2>2 DEF Init
  <2>5. want \in [Coroutines -> [Insts -> Signed]] /\ delta \in [Coroutines -> [Insts -> Int]]
    BY <2>1 DEF Init
  <2>6. \A s \in Coroutines, i \in Insts : want[s][i] = 0 /\ delta[s][i] = 0
    BY <2>1 DEF Init
  <2> QED BY <2>3, <2>4, <2>5, <2>6 DEF RoundOK
<1>4. WorkOK
  BY DEF Init, WorkOK
<1>5. JobsOK
  <2>1. NoTarget \in [Insts -> Signed]
    BY SignedType DEF NoTarget
  <2> QED BY <2>1, NoJobType DEF Init, JobsOK
<1>6. HeldOK
  <2>1. PICK h \in [Insts -> Signed] :
          held = [m \in {"isolated", "cross"} |-> [i \in Insts |->
                    [d \in {"long", "short"} |->
                      IF m = "isolated" /\ PositionSide(h[i], FALSE) = d THEN Lots(h[i]) ELSE 0]]]
    BY DEF Init
  <2>2. \A i \in Insts : Lots(h[i]) \in Nat
    BY LotsType, SignedType
  <2> QED BY <2>1, <2>2 DEF HeldOK
<1>7. AwaitOK /\ AskOK
  BY DEF Init, MarginInit, AwaitOK, AskOK
<1> QED BY <1>1, <1>2, <1>3, <1>4, <1>5, <1>6, <1>7 DEF BasketInv

\* What a round begins with.
LEMMA BeginRound ==
  ASSUME BasketInv, NEW s \in Coroutines, Begin(s)
  PROVE  /\ MarginInv' /\ call' = call /\ call[s] = Idle
         /\ rounds' \in Schedules
         /\ complete' \in [Coroutines -> BOOLEAN] /\ overlapped' \in [Coroutines -> BOOLEAN]
         /\ ask' \in [Coroutines -> [Insts -> Levels]]
         /\ \A t \in Coroutines, i \in Insts :
              (t = s \/ pc[t] # "idle") /\ i \in Universe[t] => ask'[t][i] \in Levers[t]
<1>1. UNCHANGED marginVars
  BY DEF Begin
<1>2. MarginInv' /\ call' = call /\ call[s] = Idle
  BY <1>1, ServiceStep DEF marginVars, BasketInv, AwaitOK, Begin, Settled
<1>3. /\ rounds' \in Schedules
      /\ complete' \in [Coroutines -> BOOLEAN] /\ overlapped' \in [Coroutines -> BOOLEAN]
  <2>1. complete' \in [Coroutines -> BOOLEAN]
    BY DEF Begin
  <2>2. overlapped' = [t \in Coroutines |->
          IF t = s THEN \E u \in Family(s) : ~Settled(u)
          ELSE overlapped[t] \/ (t \in Family(s) /\ ~Settled(t))]
    BY DEF Begin
  <2> DEFINE f(t) == IF t = s THEN \E u \in Family(s) : ~Settled(u)
                     ELSE overlapped[t] \/ (t \in Family(s) /\ ~Settled(t))
  <2>3. \A t \in Coroutines : f(t) \in BOOLEAN
    OBVIOUS
  <2> HIDE DEF f
  <2>4. overlapped' = [t \in Coroutines |-> f(t)]
    BY <2>2 DEF f
  <2> QED BY <2>1, <2>3, <2>4 DEF Begin
<1>4. PICK a \in Leverages(s) : ask' = [ask EXCEPT ![s] = a]
  BY DEF Begin
<1>5. a \in [Insts -> Levels] /\ \A i \in Insts : i \in Universe[s] => a[i] \in Levers[s]
  BY DEF Leverages
<1>6. /\ ask' \in [Coroutines -> [Insts -> Levels]]
      /\ \A t \in Coroutines, i \in Insts :
           (t = s \/ pc[t] # "idle") /\ i \in Universe[t] => ask'[t][i] \in Levers[t]
  BY <1>4, <1>5 DEF BasketInv, RoundOK, AskOK
<1> QED BY <1>2, <1>3, <1>6

LEMMA TurnType ==
  ASSUME NEW s \in Coroutines
  PROVE  ModeTurn(s) \in {s, Loop}
BY DEF ModeTurn

LEMMA BeginMomentumStep ==
  ASSUME BasketInv, NEW s \in Coroutines, BeginMomentum(s)
  PROVE  BasketInv'
<1>1. /\ MarginInv' /\ call' = call /\ call[s] = Idle
      /\ rounds' \in Schedules
      /\ complete' \in [Coroutines -> BOOLEAN] /\ overlapped' \in [Coroutines -> BOOLEAN]
      /\ ask' \in [Coroutines -> [Insts -> Levels]]
      /\ \A t \in Coroutines, i \in Insts :
           (t = s \/ pc[t] # "idle") /\ i \in Universe[t] => ask'[t][i] \in Levers[t]
  BY BeginRound DEF BeginMomentum
<1>2. PICK w \in Targets(s) :
        /\ want' = [want EXCEPT ![s] = w]
        /\ delta' = [delta EXCEPT ![s] =
                       [i \in Insts |-> IF i \in Universe[s] THEN w[i] - Net(i) ELSE 0]]
        /\ work' = [work EXCEPT ![s] = {i \in Insts : w[i] # 0}]
  BY DEF BeginMomentum
<1>3. w \in [Insts -> Signed] /\ \A i \in Insts : w[i] # 0 => i \in Universe[s]
  BY DEF Targets
<1> DEFINE d == [i \in Insts |-> IF i \in Universe[s] THEN w[i] - Net(i) ELSE 0]
<1>4. d \in [Insts -> Int] /\ \A i \in Insts : d[i] # 0 => i \in Universe[s]
  <2>1. \A i \in Insts : w[i] \in Int /\ Net(i) \in Int
    BY <1>3, NetType, SignedType DEF BasketInv
  <2> QED BY <2>1
<1>5. RoundOK'
  <2>1. want' \in [Coroutines -> [Insts -> Signed]]
        /\ \A t \in Coroutines, i \in Insts : want'[t][i] # 0 => i \in Universe[t]
    BY <1>2, <1>3 DEF BasketInv, RoundOK
  <2>2. delta' \in [Coroutines -> [Insts -> Int]]
        /\ \A t \in Coroutines, i \in Insts : delta'[t][i] # 0 => i \in Universe[t]
    <3>1. delta' = [delta EXCEPT ![s] = d]
      BY <1>2
    <3> HIDE DEF d
    <3> QED BY <3>1, <1>4 DEF BasketInv, RoundOK
  <2> QED BY <1>1, <2>1, <2>2 DEF RoundOK
<1>6. WorkOK'
  BY <1>2, <1>3 DEF BasketInv, WorkOK
<1>7. ControlOK'
  BY <1>1, TurnType DEF BeginMomentum, Begin, BasketInv, ControlOK
<1>8. JobsOK' /\ HeldOK'
  BY DEF BeginMomentum, Begin, BasketInv, JobsOK, HeldOK
<1>9. AwaitOK'
  BY <1>1, TurnType DEF BeginMomentum, Begin, BasketInv, AwaitOK, ControlOK
<1>10. AskOK'
  BY <1>1 DEF BeginMomentum, BasketInv, AskOK, ControlOK
<1> QED BY <1>10, <1>1, <1>5, <1>6, <1>7, <1>8, <1>9 DEF BasketInv

LEMMA BeginDiffStep ==
  ASSUME BasketInv, NEW s \in Coroutines, BeginDiff(s)
  PROVE  BasketInv'
<1>1. /\ MarginInv' /\ call' = call /\ call[s] = Idle
      /\ rounds' \in Schedules
      /\ complete' \in [Coroutines -> BOOLEAN] /\ overlapped' \in [Coroutines -> BOOLEAN]
      /\ ask' \in [Coroutines -> [Insts -> Levels]]
      /\ \A t \in Coroutines, i \in Insts :
           (t = s \/ pc[t] # "idle") /\ i \in Universe[t] => ask'[t][i] \in Levers[t]
  BY BeginRound DEF BeginDiff
<1>2. PICK w \in Targets(s) :
       LET closes == Closes(s, w)
           open == {i \in Insts : w[i] # 0 /\ (book[s][i] = 0 \/ i \in closes)} IN
       /\ want' = [want EXCEPT ![s] = IF open = {} THEN NoTarget ELSE w]
       /\ inflight' = inflight \union {CloseOrder(s, i) : i \in closes}
       /\ book' = [book EXCEPT ![s] = [i \in Insts |-> IF i \in closes THEN 0 ELSE @[i]]]
       /\ work' = [work EXCEPT ![s] = open]
       /\ pc' = [pc EXCEPT ![s] = IF open = {} THEN "idle" ELSE "mode"]
       /\ turn' = IF open = {} THEN Loop ELSE ModeTurn(s)
  BY DEF BeginDiff
<1> DEFINE closes == Closes(s, w)
           open == {i \in Insts : w[i] # 0 /\ (book[s][i] = 0 \/ i \in closes)}
           kept == [i \in Insts |-> IF i \in closes THEN 0 ELSE book[s][i]]
<1>3. /\ want' = [want EXCEPT ![s] = IF open = {} THEN NoTarget ELSE w]
      /\ inflight' = inflight \union {CloseOrder(s, i) : i \in closes}
      /\ book' = [book EXCEPT ![s] = kept]
      /\ work' = [work EXCEPT ![s] = open]
      /\ pc' = [pc EXCEPT ![s] = IF open = {} THEN "idle" ELSE "mode"]
      /\ turn' = IF open = {} THEN Loop ELSE ModeTurn(s)
  BY <1>2 DEF BasketInv, JobsOK
<1>4. /\ w \in [Insts -> Signed] /\ \A i \in Insts : w[i] # 0 => i \in Universe[s]
      /\ open \subseteq Insts /\ \A i \in open : w[i] # 0
      /\ closes \subseteq Insts
  BY DEF Targets, Closes
<1>5. kept \in [Insts -> Signed]
  BY SignedType DEF BasketInv, JobsOK
<1>6. {CloseOrder(s, i) : i \in closes} \subseteq AnyOrder
  <2> SUFFICES ASSUME NEW i \in closes
               PROVE  CloseOrder(s, i) \in AnyOrder
    OBVIOUS
  <2>1. -book[s][i] \in Int
    BY <1>4, SignedType DEF BasketInv, JobsOK
  <2> QED BY <2>1, <1>4, OrderType DEF CloseOrder
<1> HIDE DEF open, closes, kept
<1>7. RoundOK'
  <2>1. NoTarget \in [Insts -> Signed] /\ \A i \in Insts : NoTarget[i] = 0
    BY SignedType DEF NoTarget
  <2> DEFINE v == IF open = {} THEN NoTarget ELSE w
  <2>2. v \in [Insts -> Signed] /\ \A i \in Insts : v[i] # 0 => i \in Universe[s]
    BY <1>4, <2>1
  <2> HIDE DEF v
  <2>3. want' = [want EXCEPT ![s] = v]
    BY <1>3 DEF v
  <2>4. want' \in [Coroutines -> [Insts -> Signed]]
        /\ \A t \in Coroutines, i \in Insts : want'[t][i] # 0 => i \in Universe[t]
    BY <2>2, <2>3 DEF BasketInv, RoundOK
  <2> QED BY <1>1, <2>4 DEF BasketInv, RoundOK, BeginDiff
<1>8. WorkOK'
  BY <1>3, <1>4 DEF BasketInv, WorkOK
<1>9. ControlOK'
  BY <1>1, <1>3, TurnType DEF BeginDiff, Begin, BasketInv, ControlOK
<1>10. JobsOK'
  <2>1. inflight' \subseteq AnyOrder
    BY <1>3, <1>6 DEF BasketInv, JobsOK
  <2>2. book' \in [Coroutines -> [Insts -> Signed]]
    BY <1>3, <1>5 DEF BasketInv, JobsOK
  <2> QED BY <2>1, <2>2 DEF BeginDiff, Begin, BasketInv, JobsOK
<1>11. HeldOK'
  BY DEF BeginDiff, Begin, BasketInv, HeldOK
<1>12. AwaitOK'
  BY <1>1, <1>3, TurnType DEF BeginDiff, Begin, BasketInv, AwaitOK, ControlOK
<1>13. AskOK'
  BY <1>1, <1>3 DEF BasketInv, AskOK, ControlOK
<1> QED BY <1>13, <1>1, <1>7, <1>8, <1>9, <1>10, <1>11, <1>12 DEF BasketInv

\* ModeKnown, ValidateLeg, LegValidated: the service is asked or answers.
LEMMA ModeKnownStep ==
  ASSUME BasketInv, NEW s \in Coroutines, ModeKnown(s)
  PROVE  BasketInv' /\ [MarginNext]_marginVars
<1>1. [MarginNext]_marginVars /\ call' = call
  BY DEF ModeKnown, MarginNext, LearnPosMode, marginVars
<1>2. ControlOK'
  BY DEF ModeKnown, roundVars, history, BasketInv, ControlOK
<1>3. RoundOK' /\ WorkOK' /\ JobsOK' /\ HeldOK'
  BY DEF ModeKnown, roundVars, history, BasketInv, RoundOK, WorkOK, JobsOK, HeldOK
<1>4. AskOK'
  BY DEF ModeKnown, roundVars, BasketInv, ControlOK, AskOK
<1>5. AwaitOK'
  BY <1>1 DEF ModeKnown, BasketInv, ControlOK, AwaitOK
<1> QED BY <1>1, <1>2, <1>3, <1>4, <1>5, ServiceStep DEF BasketInv

LEMMA ValidateLegStep ==
  ASSUME BasketInv, NEW s \in Coroutines, ValidateLeg(s)
  PROVE  BasketInv' /\ [MarginNext]_marginVars
<1>1. PICK i \in work[s] :
        \/ /\ Cached(LegKey(s, i), ask[s][i])
           /\ work' = [work EXCEPT ![s] = @ \ {i}]
           /\ UNCHANGED <<marginVars, turn>>
        \/ /\ Ask(s, LegKey(s, i), ask[s][i])
           /\ turn' = Loop
           /\ UNCHANGED work
  BY DEF ValidateLeg
<1>2. i \in Universe[s] /\ i \in Insts
  BY DEF BasketInv, WorkOK
<1>3. LegKey(s, i) \in Keys
  BY <1>2, KeyType DEF LegKey
<1>4. ask[s][i] \in Levers[s]
  BY <1>2 DEF ValidateLeg, BasketInv, AskOK
<1>5. [MarginNext]_marginVars
  BY <1>1, <1>3, <1>4 DEF MarginNext
<1>6. \A t \in Coroutines : t # s => call'[t] = call[t]
  BY <1>1 DEF Ask, marginVars, BasketInv, MarginInv, MarginTypeOK
<1>7. turn' = Loop \/ (turn' = s /\ call' = call)
  BY <1>1 DEF ValidateLeg, marginVars
<1>8. ControlOK'
  BY <1>7 DEF ValidateLeg, history, BasketInv, ControlOK
<1>9. RoundOK' /\ JobsOK' /\ HeldOK' /\ AskOK'
  BY DEF ValidateLeg, roundVars, history, BasketInv, RoundOK, JobsOK, HeldOK, AskOK
<1>10. WorkOK'
  BY <1>1 DEF BasketInv, WorkOK
<1>11. AwaitOK'
  <2>1. pc' = pc /\ todo' = todo /\ pc[s] = "validate" /\ turn = s
    BY DEF ValidateLeg
  <2> QED BY <2>1, <1>6, <1>7, LoopIsNone DEF BasketInv, AwaitOK
<1> QED BY <1>5, <1>8, <1>9, <1>10, <1>11, ServiceStep DEF BasketInv

LEMMA LegValidatedStep ==
  ASSUME BasketInv, NEW s \in Coroutines, LegValidated(s)
  PROVE  BasketInv' /\ [MarginNext]_marginVars
<1>1. [MarginNext]_marginVars
  BY DEF LegValidated, MarginNext
<1>2. call' = [call EXCEPT ![s] = Idle]
  BY DEF LegValidated, Ensured, Denied
<1>3. ControlOK'
  BY DEF LegValidated, history, BasketInv, ControlOK
<1>4. RoundOK' /\ JobsOK' /\ HeldOK' /\ AskOK'
  BY DEF LegValidated, roundVars, history, BasketInv, RoundOK, JobsOK, HeldOK, AskOK
<1>5. WorkOK'
  BY DEF LegValidated, BasketInv, WorkOK
<1>6. AwaitOK'
  BY <1>2 DEF LegValidated, BasketInv, AwaitOK, MarginInv, MarginTypeOK
<1> QED BY <1>1, <1>3, <1>4, <1>5, <1>6, ServiceStep DEF BasketInv

-----------------------------------------------------------------------------
\* The coroutine returns.
LEMMA ReturnStep ==
  ASSUME BasketInv, NEW s \in Coroutines, NEW done \in BOOLEAN, turn = s,
         Return(s, done), UNCHANGED work
  PROVE  BasketInv'
<1>1. UNCHANGED marginVars
  BY DEF Return
<1>2. MarginInv' /\ call' = call
  BY <1>1, ServiceStep DEF marginVars
<1>3. ControlOK'
  BY Zenon DEF Return, BasketInv, ControlOK, history
<1>4. RoundOK'
  <2>1. NoTarget \in [Insts -> Signed] /\ NoTarget \in [Insts -> Int]
        /\ \A i \in Insts : NoTarget[i] = 0
    BY SignedType DEF NoTarget
  <2>2. want' = want \/ want' = [want EXCEPT ![s] = NoTarget]
    BY DEF Return
  <2>3. want' \in [Coroutines -> [Insts -> Signed]]
        /\ \A t \in Coroutines, i \in Insts : want'[t][i] # 0 => i \in Universe[t]
    BY <2>1, <2>2 DEF BasketInv, RoundOK
  <2>4. delta' \in [Coroutines -> [Insts -> Int]]
        /\ \A t \in Coroutines, i \in Insts : delta'[t][i] # 0 => i \in Universe[t]
    BY <2>1 DEF Return, BasketInv, RoundOK
  <2> QED BY <2>3, <2>4 DEF Return, BasketInv, RoundOK
<1>5. WorkOK' /\ JobsOK' /\ HeldOK'
  BY DEF Return, history, BasketInv, WorkOK, JobsOK, HeldOK
<1>6. AskOK'
  BY DEF Return, BasketInv, AskOK, ControlOK
<1>7. AwaitOK'
  BY <1>2, LoopIsNone DEF Return, BasketInv, AwaitOK, ControlOK
<1> QED BY <1>2, <1>3, <1>4, <1>5, <1>6, <1>7 DEF BasketInv

LEMMA AbortStep ==
  ASSUME BasketInv, NEW s \in Coroutines, Abort(s)
  PROVE  BasketInv' /\ [MarginNext]_marginVars
<1>1. BasketInv'
  BY ReturnStep DEF Abort
<1> QED BY <1>1 DEF Abort, Return

LEMMA FinishStep ==
  ASSUME BasketInv, NEW s \in Coroutines, Finish(s)
  PROVE  BasketInv' /\ [MarginNext]_marginVars
<1>1. BasketInv'
  BY ReturnStep DEF Finish
<1> QED BY <1>1 DEF Finish, Return

LEMMA ValidatedStep ==
  ASSUME BasketInv, NEW s \in Coroutines, Validated(s)
  PROVE  BasketInv' /\ [MarginNext]_marginVars
<1>1. UNCHANGED marginVars
  BY DEF Validated
<1>2. MarginInv' /\ call' = call
  BY <1>1, ServiceStep DEF marginVars
<1>3. ControlOK'
  BY DEF Validated, roundVars, history, BasketInv, ControlOK
<1>4. RoundOK' /\ JobsOK' /\ HeldOK' /\ AskOK'
  BY DEF Validated, roundVars, history, BasketInv, RoundOK, JobsOK, HeldOK, AskOK, ControlOK
<1>5. WorkOK'
  <2> DEFINE W == {i \in Insts : IF Kind[s] = "xsm" THEN delta[s][i] # 0
                                 ELSE want[s][i] # 0 /\ book[s][i] = 0}
  <2>1. W \subseteq Universe[s] /\ W \subseteq Insts
    BY DEF BasketInv, RoundOK
  <2>2. work' = [work EXCEPT ![s] = W]
    BY DEF Validated
  <2> HIDE DEF W
  <2> QED BY <2>1, <2>2 DEF BasketInv, WorkOK
<1>6. AwaitOK'
  BY <1>2 DEF Validated, BasketInv, AwaitOK, ControlOK
<1> QED BY <1>1, <1>2, <1>3, <1>4, <1>5, <1>6 DEF BasketInv

-----------------------------------------------------------------------------
(* Orders *)

LEMMA NextDeltaStep ==
  ASSUME BasketInv, NEW s \in Coroutines, NextDelta(s)
  PROVE  BasketInv' /\ [MarginNext]_marginVars
<1>1. UNCHANGED marginVars
  BY DEF NextDelta
<1>2. MarginInv' /\ call' = call
  BY <1>1, ServiceStep DEF marginVars
<1>3. PICK i \in work[s] :
        /\ todo' = [todo EXCEPT ![s] = PlanDeltaOrders(i, Net(i), delta[s][i])]
        /\ work' = [work EXCEPT ![s] = @ \ {i}]
  BY DEF NextDelta
<1>4. i \in Insts /\ i \in Universe[s]
  BY DEF BasketInv, WorkOK
<1>5. /\ PlanDeltaOrders(i, Net(i), delta[s][i]) \in Seq(Jobs(s))
      /\ Len(PlanDeltaOrders(i, Net(i), delta[s][i])) <= 2
  <2>1. Net(i) \in Int /\ delta[s][i] \in Int /\ Kind[s] = "xsm"
    BY <1>4, NetType DEF BasketInv, RoundOK, NextDelta
  <2> QED BY <2>1, <1>4, PlanType
<1>6. \A q : q \in Seq(Jobs(s)) => q \in Seq(AnyJob)
  BY DEF Jobs
<1>7. JobsOK'
  <2> DEFINE q == PlanDeltaOrders(i, Net(i), delta[s][i])
  <2>1. q \in Seq(Jobs(s)) /\ Len(q) <= 2 /\ q \in Seq(AnyJob) /\ todo' = [todo EXCEPT ![s] = q]
    BY <1>3, <1>5, <1>6
  <2> HIDE DEF q
  <2>2. /\ todo' \in [Coroutines -> Seq(AnyJob)]
        /\ \A t \in Coroutines : todo'[t] \in Seq(Jobs(t)) /\ Len(todo'[t]) <= 2
    BY <2>1 DEF BasketInv, JobsOK
  <2> QED BY <2>2 DEF NextDelta, BasketInv, JobsOK
<1>8. WorkOK'
  BY <1>3 DEF BasketInv, WorkOK
<1>9. ControlOK' /\ RoundOK' /\ HeldOK' /\ AskOK'
  BY DEF NextDelta, roundVars, history, BasketInv, ControlOK, RoundOK, HeldOK, AskOK
<1>10. AwaitOK'
  BY <1>2 DEF NextDelta, BasketInv, AwaitOK, JobsOK
<1> QED BY <1>1, <1>2, <1>7, <1>8, <1>9, <1>10 DEF BasketInv

LEMMA NextOpenStep ==
  ASSUME BasketInv, NEW s \in Coroutines, NextOpen(s)
  PROVE  BasketInv' /\ [MarginNext]_marginVars
<1>1. UNCHANGED marginVars
  BY DEF NextOpen
<1>2. MarginInv' /\ call' = call
  BY <1>1, ServiceStep DEF marginVars
<1>3. PICK i \in work[s] :
        /\ \E n \in 0..Lots(want[s][i]) :
             todo' = [todo EXCEPT ![s] =
               IF n = 0 THEN <<>> ELSE <<Job(i, Sign(want[s][i]) * n, FALSE)>>]
        /\ work' = [work EXCEPT ![s] = @ \ {i}]
  BY DEF NextOpen
<1>13. PICK n \in 0..Lots(want[s][i]) :
        todo' = [todo EXCEPT ![s] =
          IF n = 0 THEN <<>> ELSE <<Job(i, Sign(want[s][i]) * n, FALSE)>>]
  BY <1>3
<1>4. i \in Insts /\ i \in Universe[s]
  BY DEF BasketInv, WorkOK
<1> DEFINE j == Job(i, Sign(want[s][i]) * n, FALSE)
           q == IF n = 0 THEN <<>> ELSE <<j>>
<1>5. j \in Jobs(s) /\ j \in AnyJob
  <2>1. Sign(want[s][i]) * n \in Signed
    BY <1>4, ShrunkType DEF BasketInv, RoundOK
  <2> QED BY <2>1, <1>4, SignedType DEF Job, Jobs, AnyJob
<1>6. todo' = [todo EXCEPT ![s] = q]
  BY <1>13
<1> HIDE DEF j
<1>7. q \in Seq(Jobs(s)) /\ q \in Seq(AnyJob) /\ Len(q) <= 2
  BY <1>5, NoJobType, OneJobType
<1> HIDE DEF q
<1>8. JobsOK'
  <2>1. /\ todo' \in [Coroutines -> Seq(AnyJob)]
        /\ \A t \in Coroutines : todo'[t] \in Seq(Jobs(t)) /\ Len(todo'[t]) <= 2
    BY <1>6, <1>7 DEF BasketInv, JobsOK
  <2> QED BY <2>1 DEF NextOpen, BasketInv, JobsOK
<1>9. WorkOK'
  BY <1>3 DEF BasketInv, WorkOK
<1>10. ControlOK' /\ RoundOK' /\ HeldOK' /\ AskOK'
  BY DEF NextOpen, roundVars, history, BasketInv, ControlOK, RoundOK, HeldOK, AskOK
<1>11. AwaitOK'
  BY <1>2 DEF NextOpen, BasketInv, AwaitOK, JobsOK
<1> QED BY <1>1, <1>2, <1>8, <1>9, <1>10, <1>11 DEF BasketInv

\* The job at hand.
LEMMA HeadJob ==
  ASSUME BasketInv, NEW s \in Coroutines, todo[s] # <<>>
  PROVE  /\ Head(todo[s]) \in Jobs(s)
         /\ Head(todo[s]).inst \in Insts /\ Head(todo[s]).inst \in Universe[s]
         /\ Head(todo[s]).qty \in Int /\ Head(todo[s]).reduce \in BOOLEAN
         /\ Kind[s] # "xsm" => Head(todo[s]).qty \in Signed
<1>1. todo[s] \in Seq(Jobs(s)) /\ Len(todo[s]) <= 2
  BY DEF BasketInv, JobsOK
<1>2. Head(todo[s]) \in Jobs(s)
  BY <1>1, TailType
<1> QED BY <1>2 DEF Jobs, AnyJob

\* The rest of the jobs.
LEMMA TailJobs ==
  ASSUME BasketInv, NEW s \in Coroutines, todo[s] # <<>>,
         todo' = [todo EXCEPT ![s] = Tail(@)]
  PROVE  /\ todo' \in [Coroutines -> Seq(AnyJob)]
         /\ \A t \in Coroutines : todo'[t] \in Seq(Jobs(t)) /\ Len(todo'[t]) <= 2
         /\ \A t \in Coroutines : t # s => todo'[t] = todo[t]
<1>1. /\ todo[s] \in Seq(Jobs(s)) /\ todo[s] \in Seq(AnyJob) /\ Len(todo[s]) <= 2
      /\ todo' = [todo EXCEPT ![s] = Tail(todo[s])]
  BY DEF BasketInv, JobsOK
<1>2. Tail(todo[s]) \in Seq(Jobs(s)) /\ Tail(todo[s]) \in Seq(AnyJob) /\ Len(Tail(todo[s])) <= 2
  BY <1>1, TailType
<1> QED BY <1>1, <1>2 DEF BasketInv, JobsOK

LEMMA LaunchStep ==
  ASSUME BasketInv, NEW s \in Coroutines, todo[s] # <<>>, Launch(s)
  PROVE  JobsOK' /\ \A t \in Coroutines : t # s => todo'[t] = todo[t]
<1> DEFINE j == Head(todo[s])
<1>1. /\ inflight' = inflight \union {Order(s, j.inst, j.qty, j.reduce, "isolated")}
      /\ book' = IF Kind[s] = "xsm" THEN book ELSE [book EXCEPT ![s][j.inst] = j.qty]
      /\ todo' = [todo EXCEPT ![s] = Tail(@)]
  BY DEF Launch
<1>2. /\ j.inst \in Insts /\ j.qty \in Int /\ j.reduce \in BOOLEAN
      /\ Kind[s] # "xsm" => j.qty \in Signed
  BY HeadJob
<1> HIDE DEF j
<1>3. Order(s, j.inst, j.qty, j.reduce, "isolated") \in AnyOrder
  BY <1>2, OrderType
<1>4. inflight' \subseteq AnyOrder
  BY <1>1, <1>3 DEF BasketInv, JobsOK
<1>5. book' \in [Coroutines -> [Insts -> Signed]]
  BY <1>1, <1>2 DEF BasketInv, JobsOK
<1> QED BY <1>1, <1>4, <1>5, TailJobs DEF JobsOK

LEMMA SubmitOrderStep ==
  ASSUME BasketInv, NEW s \in Coroutines, SubmitOrder(s)
  PROVE  BasketInv' /\ [MarginNext]_marginVars
<1> DEFINE j == Head(todo[s])
           k == OrderKey(j.inst, j.qty)
           l == ask[s][j.inst]
<1>1. \/ Cached(k, l) /\ Launch(s) /\ UNCHANGED <<marginVars, turn>>
      \/ Ask(s, k, l) /\ turn' = Loop /\ UNCHANGED <<todo, book, inflight>>
  BY DEF SubmitOrder
<1>2. turn = s /\ pc[s] = "submit" /\ todo[s] # <<>>
  BY DEF SubmitOrder
<1>3. j.inst \in Insts /\ j.inst \in Universe[s]
  BY <1>2, HeadJob
<1>4. k \in Keys
  BY <1>3, KeyType DEF OrderKey
<1>5. l \in Levers[s]
  BY <1>2, <1>3 DEF BasketInv, AskOK
<1> HIDE DEF j, k, l
<1>6. [MarginNext]_marginVars
  BY <1>1, <1>4, <1>5 DEF MarginNext
<1>7. JobsOK' /\ \A t \in Coroutines : t # s => todo'[t] = todo[t]
  <2>1. CASE Launch(s)
    BY <2>1, <1>2, LaunchStep
  <2>2. CASE UNCHANGED <<todo, book, inflight>>
    BY <2>2 DEF BasketInv, JobsOK
  <2> QED BY <1>1, <2>1, <2>2
<1>8. ControlOK'
  BY <1>1, <1>2 DEF SubmitOrder, roundVars, history, BasketInv, ControlOK
<1>9. RoundOK' /\ WorkOK' /\ HeldOK' /\ AskOK'
  BY DEF SubmitOrder, roundVars, BasketInv, RoundOK, WorkOK, HeldOK, AskOK
<1>10. AwaitOK'
  <2>1. pc' = pc
    BY DEF SubmitOrder
  <2>2. CASE UNCHANGED <<marginVars, turn>>
    BY <2>1, <2>2, <1>2, <1>7 DEF marginVars, BasketInv, AwaitOK
  <2>3. CASE Ask(s, k, l) /\ turn' = Loop /\ UNCHANGED <<todo, book, inflight>>
    <3>1. \A t \in Coroutines : t # s => call'[t] = call[t]
      BY <2>3 DEF Ask, BasketInv, MarginInv, MarginTypeOK
    <3> QED BY <2>1, <2>3, <3>1, <1>2, LoopIsNone DEF BasketInv, AwaitOK
  <2> QED BY <1>1, <2>2, <2>3
<1> QED BY <1>6, <1>7, <1>8, <1>9, <1>10, ServiceStep DEF BasketInv

LEMMA OrderAnsweredStep ==
  ASSUME BasketInv, NEW s \in Coroutines, OrderAnswered(s)
  PROVE  BasketInv' /\ [MarginNext]_marginVars
<1>1. [MarginNext]_marginVars
  BY DEF OrderAnswered, MarginNext
<1>2. call[s] # Idle /\ call' = [call EXCEPT ![s] = Idle]
  BY DEF OrderAnswered, Ensured, Denied, Idle
<1>3. todo[s] # <<>>
  BY <1>2 DEF OrderAnswered, BasketInv, AwaitOK
<1>4. JobsOK' /\ \A t \in Coroutines : t # s => todo'[t] = todo[t]
  <2>1. CASE Launch(s)
    BY <2>1, <1>3, LaunchStep
  <2>2. CASE todo' = [todo EXCEPT ![s] = Tail(@)] /\ UNCHANGED <<book, inflight>>
    BY <2>2, <1>3, TailJobs DEF BasketInv, JobsOK
  <2> QED BY <2>1, <2>2 DEF OrderAnswered
<1>5. ControlOK'
  BY DEF OrderAnswered, roundVars, BasketInv, ControlOK
<1>6. RoundOK' /\ WorkOK' /\ HeldOK' /\ AskOK'
  BY DEF OrderAnswered, roundVars, BasketInv, RoundOK, WorkOK, HeldOK, AskOK
<1>7. AwaitOK'
  BY <1>2, <1>4 DEF OrderAnswered, BasketInv, AwaitOK, MarginInv, MarginTypeOK
<1> QED BY <1>1, <1>4, <1>5, <1>6, <1>7, ServiceStep DEF BasketInv

-----------------------------------------------------------------------------
(* OKX *)

LEMMA FillStep ==
  ASSUME BasketInv, NEW o \in inflight, Fill(o)
  PROVE  BasketInv' /\ [MarginNext]_marginVars
<1>1. UNCHANGED marginVars
  BY DEF Fill
<1>2. MarginInv' /\ call' = call
  BY <1>1, ServiceStep DEF marginVars
<1>3. /\ o.mode \in {"isolated", "cross"} /\ o.inst \in Insts
      /\ o.side \in {"long", "short"} /\ o.lots \in Nat
  BY DEF BasketInv, JobsOK, AnyOrder
<1>4. HeldOK'
  <2> DEFINE h == held[o.mode][o.inst][o.side]
  <2>1. PICK n \in Nat : held' = [held EXCEPT ![o.mode][o.inst][o.side] = n]
    <3>1. h \in Nat
      BY <1>3 DEF BasketInv, HeldOK
    <3>2. CASE ~o.reduce
      <4>1. held' = [held EXCEPT ![o.mode][o.inst][o.side] = h + o.lots]
        BY <3>2 DEF Fill
      <4>2. h + o.lots \in Nat
        BY <3>1, <1>3
      <4> QED BY <4>1, <4>2
    <3>3. CASE o.reduce
      <4>1. held' = [held EXCEPT ![o.mode][o.inst][o.side] = h - o.lots] /\ h >= o.lots
        BY <3>3 DEF Fill
      <4>2. h - o.lots \in Nat
        BY <3>1, <4>1, <1>3
      <4> QED BY <4>1, <4>2
    <3> QED BY <3>2, <3>3
  <2> QED BY <2>1, <1>3 DEF BasketInv, HeldOK
<1>5. ControlOK' /\ RoundOK' /\ WorkOK' /\ AskOK' /\ JobsOK'
  BY DEF Fill, roundVars, history, BasketInv, ControlOK, RoundOK, WorkOK, AskOK, JobsOK
<1>6. AwaitOK'
  BY <1>2 DEF Fill, BasketInv, AwaitOK
<1> QED BY <1>1, <1>2, <1>4, <1>5, <1>6 DEF BasketInv

LEMMA RejectStep ==
  ASSUME BasketInv, NEW o \in inflight, Reject(o)
  PROVE  BasketInv' /\ [MarginNext]_marginVars
<1>1. UNCHANGED marginVars
  BY DEF Reject
<1>2. MarginInv' /\ call' = call
  BY <1>1, ServiceStep DEF marginVars
<1>3. ControlOK' /\ RoundOK' /\ WorkOK' /\ AskOK' /\ JobsOK' /\ HeldOK'
  BY DEF Reject, roundVars, BasketInv, ControlOK, RoundOK, WorkOK, AskOK, JobsOK, HeldOK
<1>4. AwaitOK'
  BY <1>2 DEF Reject, BasketInv, AwaitOK
<1> QED BY <1>1, <1>2, <1>3, <1>4 DEF BasketInv

LEMMA OkxLeverageStep ==
  ASSUME BasketInv, NEW s \in Coroutines, OkxLeverage(s)
  PROVE  BasketInv' /\ [MarginNext]_marginVars
<1>1. [MarginNext]_marginVars
  BY DEF OkxLeverage, MarginNext
<1>2. call[s] # Idle /\ \A t \in Coroutines : t # s => call'[t] = call[t]
  BY DEF OkxLeverage, OkxSets, BasketInv, MarginInv, MarginTypeOK
<1>3. ControlOK' /\ RoundOK' /\ WorkOK' /\ AskOK' /\ JobsOK' /\ HeldOK'
  BY DEF OkxLeverage, roundVars, history, BasketInv, ControlOK, RoundOK, WorkOK, AskOK, JobsOK, HeldOK
<1>4. AwaitOK'
  BY <1>2 DEF OkxLeverage, BasketInv, AwaitOK
<1> QED BY <1>1, <1>3, <1>4, ServiceStep DEF BasketInv

-----------------------------------------------------------------------------
LEMMA BasketStep ==
  BasketInv /\ [Next]_vars => BasketInv' /\ [MarginNext]_marginVars
<1> SUFFICES ASSUME BasketInv, [Next]_vars PROVE BasketInv' /\ [MarginNext]_marginVars
  OBVIOUS
<1>1. CASE UNCHANGED vars
  <2>1. UNCHANGED marginVars
    BY <1>1 DEF vars, marginVars
  <2>2. MarginInv'
    BY <2>1, ServiceStep
  <2>3. ControlOK' /\ RoundOK' /\ AskOK' /\ WorkOK' /\ JobsOK' /\ HeldOK' /\ AwaitOK'
    BY <1>1 DEF vars, BasketInv, ControlOK, RoundOK, AskOK, WorkOK, JobsOK, HeldOK, AwaitOK
  <2> QED BY <2>1, <2>2, <2>3 DEF BasketInv
<1>2. ASSUME NEW s \in Coroutines, BeginMomentum(s)
      PROVE  BasketInv' /\ [MarginNext]_marginVars
  BY <1>2, BeginMomentumStep DEF BeginMomentum, Begin
<1>3. ASSUME NEW s \in Coroutines, BeginDiff(s)
      PROVE  BasketInv' /\ [MarginNext]_marginVars
  BY <1>3, BeginDiffStep DEF BeginDiff, Begin
<1>4. ASSUME NEW s \in Coroutines, Resume(s)
      PROVE  BasketInv' /\ [MarginNext]_marginVars
  BY <1>4, ModeKnownStep, ValidateLegStep, LegValidatedStep, AbortStep, ValidatedStep,
     NextDeltaStep, NextOpenStep, SubmitOrderStep, OrderAnsweredStep, FinishStep DEF Resume
<1>5. ASSUME NEW s \in Coroutines, OkxLeverage(s)
      PROVE  BasketInv' /\ [MarginNext]_marginVars
  BY <1>5, OkxLeverageStep
<1>6. ASSUME NEW o \in inflight, Fill(o) \/ Reject(o)
      PROVE  BasketInv' /\ [MarginNext]_marginVars
  BY <1>6, FillStep, RejectStep
<1> QED BY <1>1, <1>2, <1>3, <1>4, <1>5, <1>6 DEF Next

THEOREM BasketInvariant == Spec => []BasketInv
<1>1. Init => BasketInv
  BY InitBasket
<1>2. BasketInv /\ [Next]_vars => BasketInv'
  BY BasketStep
<1> QED BY <1>1, <1>2, PTL DEF Spec

\* Every variable of the rebalance keeps its type: quantities stay within the
\* bound of the targets, an instrument has at most two orders to come, and
\* what OKX holds is never negative.
THEOREM TypeCorrect == Spec => []TypeOK
BY BasketInvariant, BasketInvTypes, PTL

\* The coroutines of the strategies implement the service's specification: all
\* they do to its state they do by its operations, on keys and with leverages
\* of their own.
THEOREM UsesService == Spec => MarginSpec
<1>1. Init => MarginInit
  BY DEF Init
<1>2. BasketInv /\ [Next]_vars => [MarginNext]_marginVars
  BY BasketStep
<1> QED BY <1>1, <1>2, BasketInvariant, PTL DEF Spec, MarginSpec

\* Under the strategies, too, the cache is what OKX holds (CacheCoherent is
\* about the service alone).
THEOREM CacheCoherentInUse == Spec => []CacheMatchesOkx
BY UsesService, CacheCoherent, PTL


-----------------------------------------------------------------------------
(* Validated legs open *)

Side(q) == IF q > 0 THEN "long" ELSE "short"

\* OKX keeps no leverage for a key it does not accept, so neither does the
\* cache, whatever posMode says.
Refused ==
  /\ \A k \in Keys : ~Accepts(k) => cache[k] = NoLever
  /\ \A s \in Coroutines : call[s] # Idle /\ call[s].at = "applied" => Accepts(call[s].key)

\* A strategy asks for the leverages of its round, and while it validates for
\* the side its target opens, or for the net position.
CallOwn(s) ==
  call[s] # Idle =>
    LET i == call[s].key[1] IN
    /\ i \in Universe[s] /\ call[s].value = ask[s][i]
    /\ pc[s] = "validate" => call[s].key[2] \in {Side(want[s][i]), "net"}

\* The target has a leg in i that the round may open.
Due(s, i) == want[s][i] # 0 /\ (Kind[s] = "xsm" \/ book[s][i] = 0)

\* Such a leg is validated before the first order, and stays so where nobody
\* else asks for another leverage.
LegVetted(s, i) ==
  /\ pc[s] = "mode" => i \in work[s]
  /\ (pc[s] = "validate" /\ ~failed[s] /\ i \notin work[s]) \/ pc[s] = "submit"
       => cache[<<i, Side(want[s][i])>>] = ask[s][i]

Vetted(s) ==
  Kind[s] # "fp" => \A i \in Insts : Private(s, i) /\ Due(s, i) => LegVetted(s, i)

\* A job that opens or enlarges a position does so for a leg of the target.
JobFits(s, j) ==
  /\ j.inst \notin work[s]
  /\ Kind[s] # "xsm" => ~j.reduce
  /\ Kind[s] # "fp" /\ ~j.reduce /\ Private(s, j.inst) =>
       Due(s, j.inst) /\ Side(j.qty) = Side(want[s][j.inst])

\* What is to be submitted, one instrument after the other: one order, or
\* the close and the open of a flip.
JobsFit(s) ==
  \/ todo[s] = <<>>
  \/ /\ pc[s] = "submit"
     /\ \E j \in Jobs(s) : todo[s] = <<j>> /\ JobFits(s, j)
  \/ /\ pc[s] = "submit" /\ Kind[s] = "xsm"
     /\ \E j, k \in Jobs(s) :
          /\ todo[s] = <<j, k>> /\ j.inst = k.inst /\ j.reduce /\ ~k.reduce
          /\ JobFits(s, j) /\ JobFits(s, k)

\* fxs: the legs that are left to open have been found due.
Pending(s) ==
  Kind[s] = "fxs" /\ pc[s] = "submit" => \A i \in work[s] : Due(s, i)

\* An order waits for its leverage only where the leg need not be validated.
OrderWaits(s) ==
  Kind[s] # "fp" /\ pc[s] = "submit" /\ call[s] # Idle =>
    LET j == Head(todo[s]) IN
    j.reduce \/ ~Private(s, j.inst) \/ ~Accepts(call[s].key)

\* Books and orders stay within the universe of their strategy.
Within ==
  /\ \A s \in Coroutines, i \in Insts : book[s][i] # 0 => i \in Universe[s]
  /\ \A o \in inflight : o.inst \in Universe[o.by]

\* xsm computes its deltas before the first await and submits them after the
\* last.  In between nothing moves where no other strategy trades.
Before(s, i) == pc[s] \in {"mode", "validate"} \/ (pc[s] = "submit" /\ i \in work[s])

Untouched(s) ==
  Kind[s] = "xsm" =>
    \A i \in Universe[s] : Private(s, i) /\ Before(s, i) =>
      /\ delta[s][i] + Net(i) = want[s][i]
      /\ \A o \in inflight : o.inst # i

\* ValidatedLegsOpen, of one strategy.
LegsOpen(s) ==
  Kind[s] # "fp" =>
    \A d \in dropped[s] : d.job.reduce \/ ~Private(s, d.job.inst) \/ ~Accepts(d.key)

\* While a round of xsm runs alone, and after it has stamped the day, the other
\* coroutines of its strategy are at rest.
Sole ==
  \A t \in Coroutines : \A u \in Family(t) \ {t} :
    ~overlapped[t] /\ (~Settled(t) \/ complete[t]) => Settled(u)

\* What was given up or rejected.
HistoryOK ==
  /\ dropped \in [Coroutines -> SUBSET [job : AnyJob, key : Keys]]
  /\ rejected \in [Coroutines -> SUBSET Insts]

LegsOf(s) ==
  /\ CallOwn(s) /\ Vetted(s) /\ JobsFit(s) /\ Pending(s) /\ OrderWaits(s)
  /\ Untouched(s) /\ LegsOpen(s)

LegsInv ==
  BasketInv /\ HistoryOK /\ Refused /\ Within /\ Sole /\ \A s \in Coroutines : LegsOf(s)

-----------------------------------------------------------------------------
\* What a step of strategy s leaves alone: the others, and the instruments
\* that s does not trade.
Elsewhere(s) ==
  /\ \A t \in Coroutines \ {s} :
       /\ pc'[t] = pc[t] /\ work'[t] = work[t] /\ failed'[t] = failed[t]
       /\ want'[t] = want[t] /\ ask'[t] = ask[t] /\ delta'[t] = delta[t]
       /\ todo'[t] = todo[t] /\ book'[t] = book[t] /\ call'[t] = call[t]
       /\ dropped'[t] = dropped[t] /\ rejected'[t] = rejected[t]
       /\ complete'[t] => complete[t]
       /\ overlapped[t] => overlapped'[t]
       /\ {o \in inflight' : o.by = t} = {o \in inflight : o.by = t}
  /\ \A k \in Keys : k[1] \notin Universe[s] => cache'[k] = cache[k]
  /\ \A i \in Insts \ Universe[s] :
       {o \in inflight' : o.inst = i} = {o \in inflight : o.inst = i}
  /\ held' = held

Step(s) == BeginMomentum(s) \/ BeginDiff(s) \/ Resume(s) \/ OkxLeverage(s)

LEMMA HistoryStep ==
  ASSUME BasketInv, HistoryOK, [Next]_vars
  PROVE  HistoryOK'
<1>1. CASE UNCHANGED <<dropped, rejected>>
  BY <1>1 DEF HistoryOK
<1>2. ASSUME NEW s \in Coroutines, Begin(s)
      PROVE  HistoryOK'
  BY <1>2 DEF Begin, HistoryOK
<1>3. ASSUME NEW s \in Coroutines, OrderAnswered(s)
      PROVE  HistoryOK'
  <2>1. call[s] # Idle
    BY <1>3 DEF OrderAnswered, Ensured, Denied, Idle
  <2>2. call[s].key \in Keys
    BY <2>1, CallType DEF BasketInv, MarginInv
  <2>3. Head(todo[s]) \in AnyJob
    <3>1. todo[s] # <<>>
      BY <2>1, <1>3 DEF OrderAnswered, BasketInv, AwaitOK
    <3>2. Head(todo[s]) \in Jobs(s)
      BY <3>1, HeadJob
    <3> QED BY <3>2 DEF Jobs
  <2> DEFINE d == [job |-> Head(todo[s]), key |-> call[s].key]
  <2>4. d \in [job : AnyJob, key : Keys]
    BY <2>2, <2>3
  <2>5. dropped' = dropped \/ dropped' = [dropped EXCEPT ![s] = @ \union {d}]
    BY <1>3 DEF OrderAnswered
  <2>6. rejected' = rejected
    BY <1>3 DEF OrderAnswered
  <2> HIDE DEF d
  <2> QED BY <2>4, <2>5, <2>6 DEF HistoryOK
<1>4. ASSUME NEW o \in inflight, Reject(o)
      PROVE  HistoryOK'
  <2>1. o.by \in Coroutines /\ o.inst \in Insts
    BY DEF BasketInv, JobsOK, AnyOrder
  <2>2. dropped' = dropped
    BY <1>4 DEF Reject
  <2>3. rejected' = rejected \/ rejected' = [rejected EXCEPT ![o.by] = @ \union {o.inst}]
    BY <1>4 DEF Reject
  <2> QED BY <2>1, <2>2, <2>3 DEF HistoryOK
<1>5. ASSUME NEW o \in inflight, Fill(o)
      PROVE  HistoryOK'
  BY <1>5, <1>1 DEF Fill, history
<1>6. ASSUME NEW s \in Coroutines, OkxLeverage(s)
      PROVE  HistoryOK'
  BY <1>6, <1>1 DEF OkxLeverage, history
<1>7. ASSUME NEW s \in Coroutines, Resume(s)
      PROVE  HistoryOK'
  <2>1. OrderAnswered(s) \/ UNCHANGED history
    BY <1>7 DEF Resume, ModeKnown, ValidateLeg, LegValidated, Abort, Validated, NextDelta,
       NextOpen, SubmitOrder, Finish, Return
  <2> QED BY <2>1, <1>1, <1>3 DEF history
<1>8. CASE UNCHANGED vars
  BY <1>8, <1>1 DEF vars
<1> QED BY <1>2, <1>4, <1>5, <1>6, <1>7, <1>8 DEF Next, BeginMomentum, BeginDiff

\* Only what OKX accepts is carried out, and only that is kept.
LEMMA RefusedStep ==
  ASSUME BasketInv, Refused, [MarginNext]_marginVars
  PROVE  Refused'
<1>0. /\ cache \in [Keys -> Levels \union {NoLever}]
      /\ call \in [Coroutines -> Calls \union {Idle}]
  BY DEF BasketInv, MarginInv, MarginTypeOK
<1>1. CASE UNCHANGED <<cache, call>>
  BY <1>1 DEF Refused, Accepts
<1>2. ASSUME NEW s \in Coroutines, NEW k \in Keys, NEW l \in Levers[s], Ask(s, k, l)
      PROVE  Refused'
  <2>1. cache' = cache /\ call' = [call EXCEPT ![s] = [at |-> "sent", key |-> k, value |-> l]]
    BY <1>2 DEF Ask
  <2> QED BY <1>0, <2>1 DEF Refused, Accepts
<1>3. ASSUME NEW s \in Coroutines, OkxSets(s)
      PROVE  Refused'
  <2>1. cache' = cache /\ call' = [call EXCEPT ![s].at = "applied"]
        /\ call[s] # Idle /\ Accepts(call[s].key)
    BY <1>3 DEF OkxSets
  <2>2. call[s] \in Calls
    BY <1>0, <2>1
  <2>3. call'[s].key = call[s].key /\ \A t \in Coroutines : t # s => call'[t] = call[t]
    BY <1>0, <2>1, <2>2 DEF Calls
  <2> QED BY <2>1, <2>3 DEF Refused, Accepts
<1>4. ASSUME NEW s \in Coroutines, Ensured(s)
      PROVE  Refused'
  <2>1. /\ cache' = [cache EXCEPT ![call[s].key] = call[s].value]
        /\ call' = [call EXCEPT ![s] = Idle] /\ call[s].at = "applied"
    BY <1>4 DEF Ensured
  <2>2. Accepts(call[s].key)
    BY <2>1 DEF Refused, Idle
  <2> QED BY <1>0, <2>1, <2>2 DEF Refused, Accepts
<1>5. ASSUME NEW s \in Coroutines, Denied(s)
      PROVE  Refused'
  <2>1. cache' = cache /\ call' = [call EXCEPT ![s] = Idle]
    BY <1>5 DEF Denied
  <2> QED BY <1>0, <2>1 DEF Refused, Accepts
<1>6. CASE UNCHANGED marginVars
  BY <1>1, <1>6 DEF marginVars
<1> QED BY <1>1, <1>2, <1>3, <1>4, <1>5, <1>6 DEF MarginNext, LearnPosMode

\* What the service answers to s is about an instrument of s.
LEMMA AnswerElsewhere ==
  ASSUME BasketInv, NEW s \in Coroutines, CallOwn(s), Ensured(s) \/ Denied(s)
  PROVE  /\ \A t \in Coroutines \ {s} : call'[t] = call[t]
         /\ \A k \in Keys : k[1] \notin Universe[s] => cache'[k] = cache[k]
<1>1. /\ cache \in [Keys -> Levels \union {NoLever}]
      /\ call \in [Coroutines -> Calls \union {Idle}]
  BY DEF BasketInv, MarginInv, MarginTypeOK
<1>2. call' = [call EXCEPT ![s] = Idle] /\ call[s] # Idle
  BY DEF Ensured, Denied, Idle
<1>3. cache' = cache \/ cache' = [cache EXCEPT ![call[s].key] = call[s].value]
  BY DEF Ensured, Denied
<1>4. call[s].key[1] \in Universe[s]
  BY <1>2 DEF CallOwn
<1> QED BY <1>1, <1>2, <1>3, <1>4

LEMMA BeginElsewhere ==
  ASSUME BasketInv, HistoryOK, Within, NEW s \in Coroutines,
         BeginMomentum(s) \/ BeginDiff(s)
  PROVE  Elsewhere(s)
<1>1. cache' = cache /\ call' = call /\ failed' = failed /\ todo' = todo /\ held' = held
  BY DEF BeginMomentum, BeginDiff, Begin, marginVars
<1>2. \A t \in Coroutines \ {s} :
        /\ pc'[t] = pc[t] /\ work'[t] = work[t] /\ want'[t] = want[t] /\ delta'[t] = delta[t]
        /\ book'[t] = book[t]
  <2>1. CASE BeginMomentum(s)
    BY <2>1 DEF BeginMomentum, BasketInv, ControlOK, WorkOK, RoundOK, JobsOK
  <2>2. CASE BeginDiff(s)
    BY <2>2 DEF BeginDiff, BasketInv, ControlOK, WorkOK, RoundOK, JobsOK
  <2> QED BY <2>1, <2>2
<1>3. \A t \in Coroutines \ {s} :
        ask'[t] = ask[t] /\ dropped'[t] = dropped[t] /\ rejected'[t] = rejected[t]
  BY DEF BeginMomentum, BeginDiff, Begin, BasketInv, RoundOK, HistoryOK
<1>4. /\ \A i \in Insts \ Universe[s] :
           {o \in inflight' : o.inst = i} = {o \in inflight : o.inst = i}
      /\ \A t \in Coroutines \ {s} :
           {o \in inflight' : o.by = t} = {o \in inflight : o.by = t}
  <2>1. CASE BeginMomentum(s)
    BY <2>1 DEF BeginMomentum
  <2>2. CASE BeginDiff(s)
    <3>1. PICK w \in Targets(s) :
            inflight' = inflight \union
              {CloseOrder(s, i) : i \in Closes(s, w)}
      BY <2>2 DEF BeginDiff
    <3>2. \A i \in Closes(s, w) : i \in Universe[s]
      BY DEF Closes, Within
    <3>3. \A i \in Closes(s, w) :
            CloseOrder(s, i).inst \in Universe[s] /\ CloseOrder(s, i).by = s
      BY <3>2 DEF CloseOrder, Order
    <3> QED BY <3>1, <3>3
  <2> QED BY <2>1, <2>2
<1>5. \A t \in Coroutines : complete'[t] => complete[t]
  BY DEF BeginMomentum, BeginDiff, Begin
<1>6. \A t \in Coroutines \ {s} : overlapped[t] => overlapped'[t]
  BY DEF BeginMomentum, BeginDiff, Begin
<1> QED BY <1>1, <1>2, <1>3, <1>4, <1>5, <1>6 DEF Elsewhere

LEMMA LaunchElsewhere ==
  ASSUME BasketInv, NEW s \in Coroutines, todo[s] # <<>>, Launch(s)
  PROVE  /\ \A t \in Coroutines \ {s} : todo'[t] = todo[t] /\ book'[t] = book[t]
         /\ \A t \in Coroutines \ {s} :
              {o \in inflight' : o.by = t} = {o \in inflight : o.by = t}
         /\ \A i \in Insts \ Universe[s] :
              {o \in inflight' : o.inst = i} = {o \in inflight : o.inst = i}
<1> DEFINE j == Head(todo[s])
           o == Order(s, j.inst, j.qty, j.reduce, "isolated")
<1>1. j.inst \in Universe[s] /\ j.inst \in Insts
  BY HeadJob
<1>2. o.inst = j.inst /\ o.by = s
  BY DEF Order
<1>3. inflight' = inflight \union {o}
  BY DEF Launch
<1>4. \A t \in Coroutines \ {s} : todo'[t] = todo[t]
  BY DEF Launch, BasketInv, JobsOK
<1>5. \A t \in Coroutines \ {s} : book'[t] = book[t]
  BY DEF Launch, BasketInv, JobsOK
<1> HIDE DEF j, o
<1> QED BY <1>1, <1>2, <1>3, <1>4, <1>5

LEMMA ResumeElsewhere ==
  ASSUME BasketInv, HistoryOK, NEW s \in Coroutines, CallOwn(s), Resume(s)
  PROVE  Elsewhere(s)
<1> USE DEF roundVars, history, marginVars
<1>1. CASE ModeKnown(s)
  BY <1>1 DEF ModeKnown, LearnPosMode, Elsewhere, BasketInv, ControlOK
<1>2. CASE ValidateLeg(s)
  <2>1. \A t \in Coroutines \ {s} : work'[t] = work[t]
    BY <1>2 DEF ValidateLeg, BasketInv, WorkOK
  <2>2. cache' = cache /\ \A t \in Coroutines \ {s} : call'[t] = call[t]
    BY <1>2 DEF ValidateLeg, Ask, BasketInv, MarginInv, MarginTypeOK
  <2> QED BY <1>2, <2>1, <2>2 DEF ValidateLeg, Elsewhere
<1>3. CASE LegValidated(s)
  <2>1. \A t \in Coroutines \ {s} : work'[t] = work[t]
    BY <1>3 DEF LegValidated, BasketInv, WorkOK
  <2>2. \A t \in Coroutines \ {s} : failed'[t] = failed[t]
    BY <1>3 DEF LegValidated, BasketInv, ControlOK
  <2>3. Ensured(s) \/ Denied(s)
    BY <1>3 DEF LegValidated
  <2> QED BY <1>3, <2>1, <2>2, <2>3, AnswerElsewhere DEF LegValidated, Elsewhere
<1>4. ASSUME NEW done \in BOOLEAN, Return(s, done), UNCHANGED work
      PROVE  Elsewhere(s)
  <2>1. \A t \in Coroutines \ {s} :
          /\ pc'[t] = pc[t] /\ failed'[t] = failed[t] /\ complete'[t] = complete[t]
    BY <1>4, Zenon DEF Return, BasketInv, ControlOK
  <2>2. \A t \in Coroutines \ {s} : want'[t] = want[t] /\ delta'[t] = delta[t]
    BY <1>4 DEF Return, BasketInv, RoundOK
  <2> QED BY <1>4, <2>1, <2>2 DEF Return, Elsewhere
<1>5. CASE Abort(s)
  BY <1>4, <1>5 DEF Abort
<1>6. CASE Validated(s)
  <2>1. \A t \in Coroutines \ {s} : work'[t] = work[t] /\ pc'[t] = pc[t]
    BY <1>6 DEF Validated, BasketInv, WorkOK, ControlOK
  <2> QED BY <1>6, <2>1 DEF Validated, Elsewhere
<1>7. CASE NextDelta(s) \/ NextOpen(s)
  <2>1. \A t \in Coroutines \ {s} : work'[t] = work[t] /\ todo'[t] = todo[t]
    BY <1>7 DEF NextDelta, NextOpen, BasketInv, WorkOK, JobsOK
  <2> QED BY <1>7, <2>1 DEF NextDelta, NextOpen, Elsewhere
<1>8. CASE SubmitOrder(s)
  <2>1. todo[s] # <<>> /\ (Launch(s) \/ UNCHANGED <<todo, book, inflight>>)
    BY <1>8 DEF SubmitOrder
  <2>2. cache' = cache /\ \A t \in Coroutines \ {s} : call'[t] = call[t]
    BY <1>8 DEF SubmitOrder, Ask, BasketInv, MarginInv, MarginTypeOK
  <2>3. /\ \A t \in Coroutines \ {s} : todo'[t] = todo[t] /\ book'[t] = book[t]
        /\ \A t \in Coroutines \ {s} :
             {o \in inflight' : o.by = t} = {o \in inflight : o.by = t}
        /\ \A i \in Insts \ Universe[s] :
             {o \in inflight' : o.inst = i} = {o \in inflight : o.inst = i}
    BY <2>1, LaunchElsewhere
  <2> QED BY <1>8, <2>2, <2>3 DEF SubmitOrder, Elsewhere
<1>9. CASE OrderAnswered(s)
  <2>1. Ensured(s) \/ Denied(s)
    BY <1>9 DEF OrderAnswered
  <2>2. todo[s] # <<>>
    BY <2>1, <1>9 DEF OrderAnswered, Ensured, Denied, Idle, BasketInv, AwaitOK
  <2>3. Launch(s) \/ (todo' = [todo EXCEPT ![s] = Tail(@)] /\ UNCHANGED <<book, inflight>>)
    BY <1>9 DEF OrderAnswered
  <2>4. /\ \A t \in Coroutines \ {s} : todo'[t] = todo[t] /\ book'[t] = book[t]
        /\ \A t \in Coroutines \ {s} :
             {o \in inflight' : o.by = t} = {o \in inflight : o.by = t}
        /\ \A i \in Insts \ Universe[s] :
             {o \in inflight' : o.inst = i} = {o \in inflight : o.inst = i}
    BY <2>2, <2>3, LaunchElsewhere DEF BasketInv, JobsOK
  <2>5. \A t \in Coroutines \ {s} : dropped'[t] = dropped[t]
    BY <1>9 DEF OrderAnswered, HistoryOK
  <2> QED BY <1>9, <2>1, <2>4, <2>5, AnswerElsewhere DEF OrderAnswered, Elsewhere
<1>10. CASE Finish(s)
  BY <1>4, <1>10 DEF Finish
<1> QED BY <1>1, <1>2, <1>3, <1>5, <1>6, <1>7, <1>8, <1>9, <1>10 DEF Resume

LEMMA StepElsewhere ==
  ASSUME BasketInv, HistoryOK, Within, NEW s \in Coroutines, CallOwn(s), Step(s)
  PROVE  Elsewhere(s)
<1>1. CASE OkxLeverage(s)
  <2>1. cache' = cache /\ \A t \in Coroutines \ {s} : call'[t] = call[t]
    BY <1>1 DEF OkxLeverage, OkxSets, BasketInv, MarginInv, MarginTypeOK
  <2> QED BY <1>1, <2>1 DEF OkxLeverage, roundVars, history, Elsewhere
<1> QED BY <1>1, BeginElsewhere, ResumeElsewhere DEF Step

\* A coroutine that runs has not settled.
LEMMA RunsUnsettled ==
  ASSUME BasketInv, NEW s \in Coroutines, Resume(s) \/ OkxLeverage(s)
  PROVE  ~Settled(s) /\ overlapped' = overlapped
<1>1. CASE Resume(s)
  <2>1. pc[s] # "idle"
    BY <1>1 DEF Resume, ModeKnown, ValidateLeg, LegValidated, Abort, Validated, NextDelta,
       NextOpen, SubmitOrder, OrderAnswered, Finish
  <2>2. overlapped' = overlapped
    BY <1>1 DEF Resume, ModeKnown, ValidateLeg, LegValidated, Abort, Validated, NextDelta,
       NextOpen, SubmitOrder, OrderAnswered, Finish, Return, history
  <2> QED BY <2>1, <2>2 DEF Settled
<1>2. CASE OkxLeverage(s)
  <2>1. call[s] # Idle /\ overlapped' = overlapped
    BY <1>2 DEF OkxLeverage, OkxSets, history
  <2> QED BY <2>1 DEF BasketInv, AwaitOK, Settled
<1> QED BY <1>1, <1>2

\* The others do not settle, and are not unsettled, by a step of s.
LEMMA OthersSettle ==
  ASSUME NEW s \in Coroutines, Elsewhere(s), NEW t \in Coroutines \ {s}
  PROVE  Settled(t)' <=> Settled(t)
<1>1. pc'[t] = pc[t] /\ {o \in inflight' : o.by = t} = {o \in inflight : o.by = t}
  BY DEF Elsewhere
<1> QED BY <1>1 DEF Settled

LEMMA SoleStep ==
  ASSUME BasketInv, Sole, NEW s \in Coroutines, Step(s), Elsewhere(s)
  PROVE  Sole'
<1> SUFFICES ASSUME NEW t \in Coroutines, NEW u \in Family(t) \ {t},
                    ~overlapped'[t], ~Settled(t)' \/ complete'[t]
             PROVE  Settled(u)'
  BY DEF Sole
<1>1. u \in Coroutines /\ t \in Family(u) /\ u \in Family(t) /\ t \in Family(t)
  BY DEF Family
<1>2. t # s => ~overlapped[t] /\ (~Settled(t) \/ complete[t])
  BY OthersSettle DEF Elsewhere
<1>3. CASE Begin(s)
  <2>1. CASE s = t
    <3>1. \A v \in Family(s) : Settled(v)
      BY <1>3, <2>1 DEF Begin
    <3> QED BY <2>1, <3>1, <1>1, OthersSettle
  <2>2. CASE s = u
    <3>1. Settled(t)
      BY <1>1, <1>3, <2>2 DEF Begin
    <3>2. ~complete'[t]
      BY <1>1, <1>3, <2>2 DEF Begin
    <3> QED BY <3>1, <3>2, <2>2, OthersSettle
  <2>3. CASE s # t /\ s # u
    BY <2>3, <1>1, <1>2, OthersSettle DEF Sole
  <2> QED BY <2>1, <2>2, <2>3
<1>4. CASE Resume(s) \/ OkxLeverage(s)
  <2>1. ~Settled(s) /\ overlapped' = overlapped
    BY <1>4, RunsUnsettled
  <2>2. CASE s = t
    BY <2>1, <2>2, <1>1, OthersSettle DEF Sole
  <2>3. CASE s = u
    BY <2>1, <2>3, <1>2 DEF Sole
  <2>4. CASE s # t /\ s # u
    BY <2>4, <1>1, <1>2, OthersSettle DEF Sole
  <2> QED BY <2>2, <2>3, <2>4
<1> QED BY <1>3, <1>4 DEF Step, BeginMomentum, BeginDiff

LEMMA SoleSettles ==
  ASSUME Sole, NEW o \in inflight, Fill(o) \/ Reject(o)
  PROVE  Sole'
<1>1. pc' = pc /\ complete' = complete /\ overlapped' = overlapped /\ inflight' \subseteq inflight
  BY DEF Fill, Reject, history
<1>2. \A t \in Coroutines : Settled(t) => Settled(t)'
  BY <1>1 DEF Settled
<1>3. \A t \in Coroutines : Family(t) \subseteq Coroutines
  BY DEF Family
<1> QED BY <1>1, <1>2, <1>3 DEF Sole

\* A step of s on what t trades alone: s is another coroutine of the strategy,
\* and t is at rest.
LEMMA AloneApart ==
  ASSUME BasketInv, Sole, NEW s \in Coroutines, Step(s), Elsewhere(s),
         NEW t \in Coroutines \ {s}, NEW i, Private(t, i)'
  PROVE  Private(t, i) /\ (i \notin Universe[s] \/ (pc[t] = "idle" /\ ~complete'[t]))
<1>1. ~overlapped'[t] /\ \A v \in Coroutines \ Family(t) : i \notin Universe[v]
  BY DEF Private
<1>2. Private(t, i)
  BY <1>1 DEF Private, Elsewhere
<1>3. CASE s \notin Family(t)
  BY <1>1, <1>2, <1>3
<1>4. CASE s \in Family(t)
  <2>1. t \in Family(s)
    BY <1>4 DEF Family
  <2>2. CASE Begin(s)
    <3>1. Settled(t) /\ ~complete'[t]
      BY <1>1, <2>1, <2>2 DEF Begin
    <3> QED BY <1>2, <3>1 DEF Settled
  <2>3. CASE Resume(s) \/ OkxLeverage(s)
    <3>1. ~Settled(s) /\ overlapped' = overlapped
      BY <2>3, RunsUnsettled
    <3>2. Settled(t) /\ ~complete[t]
      BY <1>1, <1>4, <3>1 DEF Sole
    <3> QED BY <1>2, <3>2 DEF Settled, Elsewhere
  <2> QED BY <2>2, <2>3 DEF Step, BeginMomentum, BeginDiff
<1> QED BY <1>3, <1>4

\* A strategy is served as before while another coroutine steps.
LEMMA OthersKeep ==
  ASSUME BasketInv, BasketInv', Sole, NEW s \in Coroutines, Step(s), Elsewhere(s),
         NEW t \in Coroutines \ {s}, LegsOf(t)
  PROVE  LegsOf(t)'
<1>1. /\ pc'[t] = pc[t] /\ work'[t] = work[t] /\ failed'[t] = failed[t]
      /\ want'[t] = want[t] /\ ask'[t] = ask[t] /\ delta'[t] = delta[t]
      /\ todo'[t] = todo[t] /\ book'[t] = book[t] /\ call'[t] = call[t]
      /\ dropped'[t] = dropped[t]
  BY DEF Elsewhere
<1>2. \A i : Private(t, i)' => Private(t, i) /\ (i \notin Universe[s] \/ pc[t] = "idle")
  BY AloneApart
<1>3. \A i \in Insts : Due(t, i)' <=> Due(t, i)
  BY <1>1 DEF Due
<1>4. CallOwn(t)'
  BY <1>1 DEF LegsOf, CallOwn
<1>5. Vetted(t)'
  <2> SUFFICES ASSUME Kind[t] # "fp", NEW i \in Insts, Private(t, i)', Due(t, i),
                      pc[t] # "idle"
               PROVE  LegVetted(t, i)'
    BY <1>1, <1>3 DEF Vetted, LegVetted
  <2>1. LegVetted(t, i)
    BY <1>2 DEF LegsOf, Vetted
  <2>2. <<i, Side(want[t][i])>> \in Keys
    BY DEF Keys, Side
  <2>3. cache'[<<i, Side(want[t][i])>>] = cache[<<i, Side(want[t][i])>>]
    BY <2>2, <1>2 DEF Elsewhere
  <2> QED BY <1>1, <2>1, <2>3 DEF LegVetted
<1>6. \A j \in Jobs(t) : JobFits(t, j) => JobFits(t, j)'
  <2> SUFFICES ASSUME NEW j \in Jobs(t) PROVE JobFits(t, j) => JobFits(t, j)'
    OBVIOUS
  <2>1. j.inst \in Insts
    BY DEF Jobs, AnyJob
  <2> QED BY <1>1, <1>2, <1>3, <2>1 DEF JobFits
<1>7. JobsFit(t)'
  BY <1>1, <1>6 DEF LegsOf, JobsFit, Jobs
<1>8. Pending(t)'
  <2>1. \A i \in work[t] : i \in Insts
    BY DEF BasketInv, WorkOK
  <2> QED BY <1>1, <1>3, <2>1 DEF LegsOf, Pending
<1>9. OrderWaits(t)'
  BY <1>1, <1>2 DEF LegsOf, OrderWaits, Accepts
<1>10. Untouched(t)'
  <2> SUFFICES ASSUME Kind[t] = "xsm", NEW i \in Universe[t], Private(t, i)', Before(t, i)'
               PROVE  delta'[t][i] + Net(i)' = want'[t][i] /\ \A o \in inflight' : o.inst # i
    BY DEF Untouched
  <2>1. i \in Insts
    BY BasketAssumption
  <2>2. Before(t, i) /\ pc[t] # "idle"
    BY <1>1 DEF Before
  <2>3. delta[t][i] + Net(i) = want[t][i] /\ \A o \in inflight : o.inst # i
    BY <1>2, <2>2 DEF LegsOf, Untouched
  <2>4. Net(i)' = Net(i)
    BY DEF Elsewhere, Net
  <2>5. {o \in inflight' : o.inst = i} = {o \in inflight : o.inst = i}
    BY <2>1, <2>2, <1>2 DEF Elsewhere
  <2> QED BY <1>1, <2>3, <2>4, <2>5
<1>11. LegsOpen(t)'
  BY <1>1, <1>2 DEF LegsOf, LegsOpen, Accepts
<1> QED BY <1>4, <1>5, <1>7, <1>8, <1>9, <1>10, <1>11 DEF LegsOf

LEMMA WithinStep ==
  ASSUME BasketInv, Within, [Next]_vars
  PROVE  Within'
<1>1. CASE UNCHANGED <<book, inflight>>
  BY <1>1 DEF Within
<1>2. ASSUME NEW o \in inflight, Fill(o) \/ Reject(o)
      PROVE  Within'
  BY <1>2 DEF Fill, Reject, Within
<1>3. ASSUME NEW s \in Coroutines, BeginMomentum(s) \/ OkxLeverage(s)
      PROVE  Within'
  BY <1>3, <1>1 DEF BeginMomentum, OkxLeverage
<1>4. ASSUME NEW s \in Coroutines, BeginDiff(s)
      PROVE  Within'
  <2>1. PICK w \in Targets(s) :
          /\ inflight' = inflight \union
               {CloseOrder(s, i) : i \in Closes(s, w)}
          /\ book' = [book EXCEPT ![s] = [i \in Insts |-> IF i \in Closes(s, w) THEN 0 ELSE @[i]]]
    BY <1>4 DEF BeginDiff
  <2>2. \A i \in Closes(s, w) : i \in Universe[s]
    BY DEF Closes, Within
  <2>3. \A i \in Closes(s, w) : CloseOrder(s, i).inst \in Universe[s]
                                /\ CloseOrder(s, i).by = s
    BY <2>2 DEF CloseOrder, Order
  <2>4. \A o \in inflight' : o.inst \in Universe[o.by]
    BY <2>1, <2>3 DEF Within
  <2>5. \A t \in Coroutines, i \in Insts : book'[t][i] # 0 => book[t][i] # 0
    BY <2>1 DEF BasketInv, JobsOK
  <2> QED BY <2>4, <2>5 DEF Within
<1>5. ASSUME NEW s \in Coroutines, todo[s] # <<>>, Launch(s)
      PROVE  Within'
  <2> DEFINE j == Head(todo[s])
             o == Order(s, j.inst, j.qty, j.reduce, "isolated")
  <2>1. j.inst \in Insts /\ j.inst \in Universe[s]
    BY <1>5, HeadJob
  <2>2. o.inst = j.inst /\ o.by = s
    BY DEF Order
  <2>3. inflight' = inflight \union {o} /\ (book' = book \/ book' = [book EXCEPT ![s][j.inst] = j.qty])
    BY <1>5 DEF Launch
  <2> HIDE DEF j, o
  <2>4. \A p \in inflight' : p.inst \in Universe[p.by]
    BY <2>1, <2>2, <2>3 DEF Within
  <2>5. \A t \in Coroutines, i \in Insts : book'[t][i] # 0 => i \in Universe[t]
    <3>1. CASE book' = book
      BY <3>1 DEF Within
    <3>2. CASE book' = [book EXCEPT ![s][j.inst] = j.qty]
      <4>1. \A t \in Coroutines, i \in Insts :
              (t = s /\ i = j.inst) \/ book'[t][i] = book[t][i]
        BY <3>2, <2>1 DEF BasketInv, JobsOK
      <4> QED BY <4>1, <2>1 DEF Within
    <3> QED BY <2>3, <3>1, <3>2
  <2> QED BY <2>4, <2>5 DEF Within
<1>6. ASSUME NEW s \in Coroutines, Resume(s)
      PROVE  Within'
  <2>1. CASE SubmitOrder(s)
    BY <2>1, <1>1, <1>5 DEF SubmitOrder
  <2>2. CASE OrderAnswered(s)
    <3>1. todo[s] # <<>>
      BY <2>2 DEF OrderAnswered, Ensured, Denied, Idle, BasketInv, AwaitOK
    <3> QED BY <2>2, <3>1, <1>1, <1>5 DEF OrderAnswered
  <2>3. CASE ~SubmitOrder(s) /\ ~OrderAnswered(s)
    BY <1>6, <2>3, <1>1 DEF Resume, ModeKnown, ValidateLeg, LegValidated, Abort, Validated,
       NextDelta, NextOpen, Finish, Return
  <2> QED BY <2>1, <2>2, <2>3
<1>7. CASE UNCHANGED vars
  BY <1>1, <1>7 DEF vars
<1> QED BY <1>2, <1>3, <1>4, <1>6, <1>7 DEF Next

-----------------------------------------------------------------------------
\* The steps of a strategy itself.

LEMMA NothingPlanned ==
  ASSUME NEW s \in Coroutines, JobsFit(s), pc[s] # "submit"
  PROVE  todo[s] = <<>>
BY DEF JobsFit

LEMMA BeginMomentumLegs ==
  ASSUME LegsInv, NEW s \in Coroutines, BeginMomentum(s)
  PROVE  LegsOf(s)'
<1>1. pc[s] = "idle" /\ call[s] = Idle /\ todo[s] = <<>>
  <2>1. pc[s] = "idle"
    BY DEF BeginMomentum, Begin, Settled
  <2> QED BY <2>1, NothingPlanned DEF LegsInv, LegsOf, BasketInv, AwaitOK
<1>2. PICK w \in Targets(s) :
        /\ want' = [want EXCEPT ![s] = w]
        /\ delta' = [delta EXCEPT ![s] =
                       [i \in Insts |-> IF i \in Universe[s] THEN w[i] - Net(i) ELSE 0]]
        /\ work' = [work EXCEPT ![s] = {i \in Insts : w[i] # 0}]
  BY DEF BeginMomentum
<1>3. /\ want'[s] = w /\ work'[s] = {i \in Insts : w[i] # 0}
      /\ \A i \in Universe[s] : delta'[s][i] = w[i] - Net(i)
  BY <1>2, BasketAssumption DEF LegsInv, BasketInv, RoundOK, WorkOK
<1>4. pc'[s] = "mode" /\ call'[s] = Idle /\ todo'[s] = <<>> /\ dropped'[s] = {}
  BY <1>1 DEF BeginMomentum, Begin, marginVars, LegsInv, BasketInv, ControlOK, HistoryOK
<1>5. Untouched(s)'
  <2> SUFFICES ASSUME NEW i \in Universe[s], Private(s, i)'
               PROVE  /\ delta'[s][i] + Net(i)' = want'[s][i]
                      /\ \A o \in inflight' : o.inst # i
    BY DEF Untouched
  <2>1. i \in Insts
    BY BasketAssumption
  <2>2. Net(i)' = Net(i) /\ Net(i) \in Int
    BY <2>1, NetType DEF BeginMomentum, Begin, Net, LegsInv, BasketInv
  <2>3. w[i] \in Int
    BY <2>1, SignedType DEF Targets
  <2>4. delta'[s][i] + Net(i)' = want'[s][i]
    BY <1>3, <2>2, <2>3
  <2>5. ASSUME NEW o \in inflight PROVE o.inst # i
    <3>1. \A u \in Family(s) : Settled(u)
      BY DEF BeginMomentum, Begin, Private
    <3>2. o.by \notin Family(s)
      BY <3>1 DEF Settled
    <3>3. o.inst \in Universe[o.by] /\ o.by \in Coroutines
      BY DEF LegsInv, Within, BasketInv, JobsOK, AnyOrder
    <3> QED BY <3>2, <3>3 DEF Private
  <2> QED BY <2>4, <2>5 DEF BeginMomentum
<1>6. Vetted(s)'
  BY <1>3, <1>4 DEF Vetted, LegVetted, Due
<1> QED BY <1>4, <1>5, <1>6 DEF LegsOf, CallOwn, JobsFit, Pending, OrderWaits, LegsOpen

LEMMA BeginDiffLegs ==
  ASSUME LegsInv, NEW s \in Coroutines, BeginDiff(s)
  PROVE  LegsOf(s)'
<1>1. pc[s] = "idle" /\ call[s] = Idle /\ todo[s] = <<>>
  <2>1. pc[s] = "idle"
    BY DEF BeginDiff, Begin, Settled
  <2> QED BY <2>1, NothingPlanned DEF LegsInv, LegsOf, BasketInv, AwaitOK
<1>2. PICK w \in Targets(s) :
       LET closes == Closes(s, w)
           open == {i \in Insts : w[i] # 0 /\ (book[s][i] = 0 \/ i \in closes)} IN
       /\ want' = [want EXCEPT ![s] = IF open = {} THEN NoTarget ELSE w]
       /\ book' = [book EXCEPT ![s] = [i \in Insts |-> IF i \in closes THEN 0 ELSE @[i]]]
       /\ work' = [work EXCEPT ![s] = open]
       /\ pc' = [pc EXCEPT ![s] = IF open = {} THEN "idle" ELSE "mode"]
  BY DEF BeginDiff
<1> DEFINE closes == Closes(s, w)
           open == {i \in Insts : w[i] # 0 /\ (book[s][i] = 0 \/ i \in closes)}
<1>3. /\ work'[s] = open
      /\ pc'[s] = IF open = {} THEN "idle" ELSE "mode"
      /\ want'[s] = IF open = {} THEN NoTarget ELSE w
      /\ \A i \in Insts : book'[s][i] = IF i \in closes THEN 0 ELSE book[s][i]
  BY <1>2 DEF LegsInv, BasketInv, ControlOK, RoundOK, WorkOK, JobsOK
<1>4. call'[s] = Idle /\ todo'[s] = <<>> /\ dropped'[s] = {}
  BY <1>1 DEF BeginDiff, Begin, marginVars, LegsInv, HistoryOK
<1>5. Kind[s] # "xsm"
  BY DEF BeginDiff
<1>6. Vetted(s)'
  <2> SUFFICES ASSUME NEW i \in Insts, Due(s, i)', pc'[s] # "idle"
               PROVE  pc'[s] = "mode" /\ i \in work'[s]
    BY <1>3 DEF Vetted, LegVetted
  <2> QED BY <1>3, <1>5 DEF Due
<1> HIDE DEF open, closes
<1> QED BY <1>3, <1>4, <1>5, <1>6
        DEF LegsOf, CallOwn, JobsFit, Pending, OrderWaits, LegsOpen, Untouched

LEMMA ModeKnownLegs ==
  ASSUME LegsInv, NEW s \in Coroutines, ModeKnown(s)
  PROVE  LegsOf(s)'
<1>1. pc[s] = "mode" /\ call[s] = Idle /\ todo[s] = <<>>
  <2>1. pc[s] = "mode"
    BY DEF ModeKnown
  <2> QED BY <2>1, NothingPlanned DEF LegsInv, LegsOf, BasketInv, AwaitOK
<1>2. /\ call' = call /\ todo' = todo /\ dropped' = dropped /\ work' = work /\ book' = book
      /\ want' = want /\ delta' = delta /\ held' = held /\ inflight' = inflight
      /\ overlapped' = overlapped
  BY DEF ModeKnown, LearnPosMode, marginVars, roundVars, history
<1>3. pc'[s] = IF Kind[s] = "fp" THEN "submit" ELSE "validate"
  BY DEF ModeKnown, LegsInv, BasketInv, ControlOK
<1>4. Vetted(s)'
  BY <1>1, <1>2, <1>3 DEF LegsInv, LegsOf, Vetted, LegVetted, Due, Private
<1>5. Untouched(s)'
  BY <1>1, <1>2, <1>3 DEF LegsInv, LegsOf, Untouched, Before, Net, Private
<1>6. LegsOpen(s)'
  BY <1>2 DEF LegsInv, LegsOf, LegsOpen, Private, Accepts
<1> QED BY <1>1, <1>2, <1>3, <1>4, <1>5, <1>6 DEF LegsOf, CallOwn, JobsFit, Pending, OrderWaits

\* A leg is validated under the key of its own side, or else its key is one
\* that OKX does not accept and that the cache does not hold.
LEMMA LegKeyIs ==
  ASSUME BasketAssumption, NEW i \in Insts, NEW q \in Int
  PROVE  LET k == KeyOf(i, Side(q)) IN
         /\ k \in Keys /\ k[1] = i /\ k[2] \in {Side(q), "net"}
         /\ Accepts(k) => k = <<i, Side(q)>>
BY DEF KeyOf, Keys, Side, Accepts

LEMMA AskedIsLever ==
  ASSUME BasketInv, NEW s \in Coroutines, pc[s] # "idle", NEW i \in Universe[s]
  PROVE  ask[s][i] # NoLever
<1>1. i \in Insts /\ ask[s][i] \in Levers[s]
  BY BasketAssumption DEF BasketInv, AskOK
<1> QED BY <1>1, MarginAssumption DEF NoLever

LEMMA ValidateLegLegs ==
  ASSUME LegsInv, NEW s \in Coroutines, ValidateLeg(s)
  PROVE  LegsOf(s)'
<1>1. PICK i \in work[s] :
       \/ /\ Cached(LegKey(s, i), ask[s][i])
          /\ work' = [work EXCEPT ![s] = @ \ {i}]
          /\ UNCHANGED <<marginVars, turn>>
       \/ /\ Ask(s, LegKey(s, i), ask[s][i])
          /\ turn' = Loop
          /\ UNCHANGED work
  BY DEF ValidateLeg
<1>2. /\ turn = s /\ pc[s] = "validate" /\ pc' = pc /\ todo' = todo /\ dropped' = dropped
      /\ book' = book /\ want' = want /\ ask' = ask /\ delta' = delta /\ failed' = failed
      /\ held' = held /\ inflight' = inflight /\ overlapped' = overlapped
  BY DEF ValidateLeg, roundVars, history
<1>3. call[s] = Idle /\ todo[s] = <<>>
  BY <1>2, NothingPlanned DEF LegsInv, LegsOf, BasketInv, AwaitOK
<1>4. i \in Insts /\ i \in Universe[s] /\ want[s][i] \in Int
  BY SignedType DEF LegsInv, BasketInv, WorkOK, RoundOK
<1>5. LegKey(s, i) = KeyOf(i, Side(want[s][i]))
  BY DEF LegKey, Side
<1>6. cache' = cache /\ work'[s] \subseteq work[s]
  BY <1>1 DEF marginVars, Ask, LegsInv, BasketInv, WorkOK
<1>7. CallOwn(s)'
  <2>1. CASE call' = call
    BY <2>1, <1>3 DEF CallOwn
  <2>2. CASE Ask(s, LegKey(s, i), ask[s][i])
    <3>1. call'[s] = [at |-> "sent", key |-> LegKey(s, i), value |-> ask[s][i]]
      BY <2>2 DEF Ask, LegsInv, BasketInv, MarginInv, MarginTypeOK
    <3>2. call'[s].key = LegKey(s, i) /\ call'[s].value = ask[s][i]
      BY <3>1
    <3>3. LegKey(s, i)[1] = i /\ LegKey(s, i)[2] \in {Side(want[s][i]), "net"}
      BY <1>4, <1>5, BasketAssumption, LegKeyIs
    <3> QED BY <1>2, <1>4, <3>2, <3>3 DEF CallOwn, Side
  <2> QED BY <1>1, <2>1, <2>2 DEF marginVars
<1>8. Vetted(s)'
  <2> SUFFICES ASSUME Kind[s] # "fp", NEW h \in Insts, Private(s, h), Due(s, h),
                      ~failed[s], h \notin work'[s]
               PROVE  cache[<<h, Side(want[s][h])>>] = ask[s][h]
    BY <1>2, <1>6 DEF Vetted, LegVetted, Due, Private, Side
  <2>1. CASE h \notin work[s]
    BY <2>1, <1>2 DEF LegsInv, LegsOf, Vetted, LegVetted
  <2>2. CASE h \in work[s]
    <3>1. h = i /\ cache[LegKey(s, i)] = ask[s][i]
      BY <2>2, <1>1 DEF LegsInv, BasketInv, WorkOK, Cached
    <3>2. ask[s][i] # NoLever
      BY <1>2, <1>4, AskedIsLever DEF LegsInv
    <3>3. LegKey(s, i) \in Keys
      BY <1>4, <1>5, BasketAssumption, LegKeyIs
    <3>4. Accepts(LegKey(s, i))
      BY <3>1, <3>2, <3>3 DEF LegsInv, Refused
    <3>5. LegKey(s, i) = <<i, Side(want[s][i])>>
      BY <3>4, <1>4, <1>5, BasketAssumption, LegKeyIs
    <3> QED BY <3>1, <3>5
  <2> QED BY <2>1, <2>2
<1>9. Untouched(s)'
  BY <1>2 DEF LegsInv, LegsOf, Untouched, Before, Net, Private
<1>10. LegsOpen(s)'
  BY <1>2 DEF LegsInv, LegsOf, LegsOpen, Private, Accepts
<1> QED BY <1>2, <1>3, <1>7, <1>8, <1>9, <1>10 DEF LegsOf, JobsFit, Pending, OrderWaits

\* An answer to s: what s asked for, under the key it asked for, or nothing.
LEMMA Answered ==
  ASSUME LegsInv, NEW s \in Coroutines, Ensured(s) \/ Denied(s)
  PROVE  /\ call[s] # Idle /\ call'[s] = Idle
         /\ call[s].key \in Keys /\ call[s].key[1] \in Universe[s] /\ call[s].key[1] \in Insts
         /\ \A k \in Keys : cache'[k] # cache[k] => k = call[s].key
         /\ Denied(s) => cache' = cache
         /\ Ensured(s) => /\ cache'[call[s].key] = ask[s][call[s].key[1]]
                          /\ Accepts(call[s].key)
<1>1. /\ cache \in [Keys -> Levels \union {NoLever}]
      /\ call \in [Coroutines -> Calls \union {Idle}]
  BY DEF LegsInv, BasketInv, MarginInv, MarginTypeOK
<1>2. call[s] # Idle /\ call' = [call EXCEPT ![s] = Idle]
  BY DEF Ensured, Denied, Idle
<1>3. call[s].key \in Keys
  BY <1>2, CallType DEF LegsInv, BasketInv, MarginInv
<1>4. call[s].key[1] \in Insts
  BY <1>3 DEF Keys
<1>5. call[s].key[1] \in Universe[s] /\ call[s].value = ask[s][call[s].key[1]]
  BY <1>2 DEF LegsInv, LegsOf, CallOwn
<1>6. CASE Ensured(s)
  <2>1. cache' = [cache EXCEPT ![call[s].key] = call[s].value] /\ call[s].at = "applied"
    BY <1>6 DEF Ensured
  <2>2. Accepts(call[s].key)
    BY <2>1, <1>2 DEF LegsInv, Refused
  <2>3. ~Denied(s) \/ cache' = cache
    BY DEF Denied
  <2> QED BY <1>1, <1>2, <1>3, <1>4, <1>5, <2>1, <2>2, <2>3
<1>7. CASE Denied(s) /\ ~Ensured(s)
  BY <1>1, <1>2, <1>3, <1>4, <1>5, <1>7 DEF Denied
<1> QED BY <1>6, <1>7

LEMMA LegValidatedLegs ==
  ASSUME LegsInv, NEW s \in Coroutines, LegValidated(s)
  PROVE  LegsOf(s)'
<1> DEFINE c == call[s].key
<1>1. /\ turn = Loop /\ pc[s] = "validate" /\ pc' = pc /\ todo' = todo /\ dropped' = dropped
      /\ book' = book /\ want' = want /\ ask' = ask /\ delta' = delta
      /\ held' = held /\ inflight' = inflight /\ overlapped' = overlapped
      /\ work' = [work EXCEPT ![s] = @ \ {c[1]}]
  BY DEF LegValidated, roundVars, history
<1>2. /\ call[s] # Idle /\ call'[s] = Idle
      /\ c \in Keys /\ c[1] \in Universe[s] /\ c[1] \in Insts
      /\ \A k \in Keys : cache'[k] # cache[k] => k = c
      /\ Ensured(s) => cache'[c] = ask[s][c[1]] /\ Accepts(c)
  BY Answered DEF LegValidated
<1>3. todo[s] = <<>>
  BY <1>1, NothingPlanned DEF LegsInv, LegsOf
<1>4. work'[s] = work[s] \ {c[1]}
  BY <1>1 DEF LegsInv, BasketInv, WorkOK
<1>5. ~failed'[s] => ~failed[s] /\ Ensured(s)
  BY DEF LegValidated, LegsInv, BasketInv, ControlOK
<1>6. c[2] \in {Side(want[s][c[1]]), "net"}
  BY <1>1, <1>2 DEF LegsInv, LegsOf, CallOwn
<1>7. c = <<c[1], c[2]>>
  BY <1>2 DEF Keys
<1>8. Accepts(c) => c[2] # "net"
  BY BasketAssumption DEF Accepts
<1> HIDE DEF c
<1>9. Vetted(s)'
  <2> SUFFICES ASSUME Kind[s] # "fp", NEW h \in Insts, Private(s, h), Due(s, h),
                      ~failed'[s], h \notin work'[s]
               PROVE  cache'[<<h, Side(want[s][h])>>] = ask[s][h]
    BY <1>1 DEF Vetted, LegVetted, Due, Private, Side
  <2>1. <<h, Side(want[s][h])>> \in Keys
    BY DEF Keys, Side
  <2>2. CASE h \notin work[s]
    <3>1. cache[<<h, Side(want[s][h])>>] = ask[s][h]
      BY <2>2, <1>1, <1>5 DEF LegsInv, LegsOf, Vetted, LegVetted
    <3>2. CASE c = <<h, Side(want[s][h])>>
      BY <3>2, <1>2, <1>5
    <3> QED BY <3>1, <3>2, <2>1, <1>2
  <2>3. CASE h \in work[s]
    BY <2>3, <1>2, <1>4, <1>5, <1>6, <1>7, <1>8
  <2> QED BY <2>2, <2>3
<1>10. Untouched(s)'
  BY <1>1 DEF LegsInv, LegsOf, Untouched, Before, Net, Private
<1>11. LegsOpen(s)'
  BY <1>1 DEF LegsInv, LegsOf, LegsOpen, Private, Accepts
<1> QED BY <1>1, <1>2, <1>3, <1>9, <1>10, <1>11
        DEF LegsOf, JobsFit, CallOwn, Pending, OrderWaits

LEMMA ReturnLegs ==
  ASSUME LegsInv, NEW s \in Coroutines, NEW done \in BOOLEAN, turn = s,
         Return(s, done), todo[s] = <<>>
  PROVE  LegsOf(s)'
<1>1. call[s] = Idle
  BY DEF LegsInv, BasketInv, AwaitOK
<1>2. pc'[s] = "idle" /\ call' = call /\ todo' = todo /\ dropped' = dropped
      /\ overlapped' = overlapped
  BY DEF Return, marginVars, history, LegsInv, BasketInv, ControlOK
<1>3. LegsOpen(s)'
  BY <1>2 DEF LegsInv, LegsOf, LegsOpen, Private, Accepts
<1> QED BY <1>1, <1>2, <1>3 DEF LegsOf, CallOwn, Vetted, LegVetted, JobsFit, Pending,
        OrderWaits, Untouched, Before

LEMMA ValidatedLegs ==
  ASSUME LegsInv, NEW s \in Coroutines, Validated(s)
  PROVE  LegsOf(s)'
<1>1. /\ turn = s /\ pc[s] = "validate" /\ work[s] = {} /\ ~failed[s]
      /\ call' = call /\ cache' = cache /\ todo' = todo /\ dropped' = dropped
      /\ book' = book /\ want' = want /\ ask' = ask /\ delta' = delta /\ failed' = failed
      /\ held' = held /\ inflight' = inflight /\ overlapped' = overlapped
  BY DEF Validated, marginVars, roundVars, history
<1>2. call[s] = Idle /\ todo[s] = <<>>
  BY <1>1, NothingPlanned DEF LegsInv, LegsOf, BasketInv, AwaitOK
<1>3. /\ pc'[s] = "submit"
      /\ work'[s] = {i \in Insts : IF Kind[s] = "xsm" THEN delta[s][i] # 0
                                   ELSE want[s][i] # 0 /\ book[s][i] = 0}
  BY DEF Validated, LegsInv, BasketInv, ControlOK, WorkOK
<1>4. Vetted(s)'
  BY <1>1, <1>3 DEF LegsInv, LegsOf, Vetted, LegVetted, Due, Private
<1>5. Pending(s)'
  BY <1>1, <1>3 DEF Pending, Due
<1>6. Untouched(s)'
  BY <1>1, <1>3 DEF LegsInv, LegsOf, Untouched, Before, Net, Private
<1>7. LegsOpen(s)'
  BY <1>1 DEF LegsInv, LegsOf, LegsOpen, Private, Accepts
<1> QED BY <1>1, <1>2, <1>4, <1>5, <1>6, <1>7 DEF LegsOf, CallOwn, JobsFit, OrderWaits

\* The four plans, and what an opening order of a plan is for.
LEMMA PlanFits ==
  ASSUME NEW i, NEW c \in Int, NEW d \in Int
  PROVE  LET p == PlanDeltaOrders(i, c, d) IN
         \/ d = 0 /\ p = <<>>
         \/ \E r \in BOOLEAN : /\ p = <<Job(i, d, r)>>
                               /\ ~r => c + d # 0 /\ Side(d) = Side(c + d)
         \/ /\ p = <<Job(i, -c, TRUE), Job(i, d + c, FALSE)>>
            /\ c + d # 0 /\ c + d = d + c
<1>1. CASE d = 0
  BY <1>1 DEF PlanDeltaOrders
<1>2. CASE d # 0 /\ (c = 0 \/ Sign(c) = Sign(d))
  <2>1. PlanDeltaOrders(i, c, d) = <<Job(i, d, FALSE)>>
    BY <1>2 DEF PlanDeltaOrders
  <2>2. c + d # 0 /\ Side(d) = Side(c + d)
    BY <1>2 DEF Sign, Side
  <2> QED BY <2>1, <2>2
<1>3. CASE d # 0 /\ ~(c = 0 \/ Sign(c) = Sign(d)) /\ Lots(d) <= Lots(c)
  <2>1. PlanDeltaOrders(i, c, d) = <<Job(i, d, TRUE)>>
    BY <1>3 DEF PlanDeltaOrders
  <2> QED BY <2>1
<1>4. CASE d # 0 /\ ~(c = 0 \/ Sign(c) = Sign(d)) /\ ~(Lots(d) <= Lots(c))
  <2>1. PlanDeltaOrders(i, c, d) = <<Job(i, -c, TRUE), Job(i, d + c, FALSE)>>
    BY <1>4 DEF PlanDeltaOrders
  <2>2. c + d # 0 /\ c + d = d + c
    BY <1>4 DEF Lots
  <2> QED BY <2>1, <2>2
<1> QED BY <1>1, <1>2, <1>3, <1>4

LEMMA NextDeltaLegs ==
  ASSUME LegsInv, NEW s \in Coroutines, NextDelta(s)
  PROVE  LegsOf(s)'
<1>1. PICK i \in work[s] :
       /\ todo' = [todo EXCEPT ![s] = PlanDeltaOrders(i, Net(i), delta[s][i])]
       /\ work' = [work EXCEPT ![s] = @ \ {i}]
  BY DEF NextDelta
<1>2. /\ turn = s /\ pc[s] = "submit" /\ pc' = pc /\ todo[s] = <<>> /\ Kind[s] = "xsm"
      /\ call' = call /\ cache' = cache /\ dropped' = dropped
      /\ book' = book /\ want' = want /\ ask' = ask /\ delta' = delta /\ failed' = failed
      /\ held' = held /\ inflight' = inflight /\ overlapped' = overlapped
  BY DEF NextDelta, marginVars, roundVars, history
<1>3. call[s] = Idle
  BY <1>2 DEF LegsInv, BasketInv, AwaitOK
<1>4. /\ i \in Insts /\ i \in Universe[s] /\ Net(i) \in Int /\ delta[s][i] \in Int
  <2>1. i \in Insts /\ i \in Universe[s]
    BY DEF LegsInv, BasketInv, WorkOK
  <2> QED BY <2>1, NetType DEF LegsInv, BasketInv, RoundOK
<1>5. /\ work'[s] = work[s] \ {i}
      /\ todo'[s] = PlanDeltaOrders(i, Net(i), delta[s][i])
  BY <1>1 DEF LegsInv, BasketInv, WorkOK, JobsOK
<1>6. Private(s, i) => Net(i) + delta[s][i] = want[s][i]
  <2>1. Private(s, i) => delta[s][i] + Net(i) = want[s][i]
    BY <1>2, <1>4 DEF LegsInv, LegsOf, Untouched, Before
  <2> QED BY <2>1, <1>4
<1>7. ASSUME NEW j \in Jobs(s), j.inst = i,
             ~j.reduce => /\ Net(i) + delta[s][i] # 0
                          /\ Side(j.qty) = Side(Net(i) + delta[s][i])
      PROVE  JobFits(s, j)'
  <2>1. ~j.reduce /\ Private(s, i)' => want[s][i] # 0 /\ Side(j.qty) = Side(want[s][i])
    BY <1>2, <1>6, <1>7 DEF Private
  <2> QED BY <1>7, <2>1, <1>2, <1>5 DEF JobFits, Due, Side
<1>8. JobsFit(s)'
  <2>8. PICK c \in Int, d \in Int : c = Net(i) /\ d = delta[s][i]
    BY <1>4
  <2> DEFINE p == PlanDeltaOrders(i, c, d)
  <2>1. c \in Int /\ d \in Int /\ todo'[s] = p /\ pc'[s] = "submit"
    BY <1>2, <1>5, <2>8
  <2>2. \/ d = 0 /\ p = <<>>
        \/ \E r \in BOOLEAN : /\ p = <<Job(i, d, r)>>
                              /\ ~r => c + d # 0 /\ Side(d) = Side(c + d)
        \/ /\ p = <<Job(i, -c, TRUE), Job(i, d + c, FALSE)>>
           /\ c + d # 0 /\ c + d = d + c
    BY <2>1, PlanFits
  <2>3. \A j \in Jobs(s) :
          j.inst = i /\ (~j.reduce => c + d # 0 /\ Side(j.qty) = Side(c + d))
            => JobFits(s, j)'
    BY <1>7, <2>8
  <2>7. \A q \in Int, r \in BOOLEAN :
          /\ Job(i, q, r) \in Jobs(s) /\ Job(i, q, r).inst = i
          /\ Job(i, q, r).qty = q /\ Job(i, q, r).reduce = r
    BY <1>2, <1>4 DEF Job, Jobs, AnyJob
  <2> HIDE DEF p
  <2>4. CASE p = <<>>
    BY <2>1, <2>4 DEF JobsFit
  <2>5. ASSUME NEW r \in BOOLEAN, p = <<Job(i, d, r)>>,
               ~r => c + d # 0 /\ Side(d) = Side(c + d)
        PROVE  JobsFit(s)'
    <3> DEFINE j == Job(i, d, r)
    <3>1. j \in Jobs(s) /\ j.inst = i /\ j.qty = d /\ j.reduce = r
      BY <2>1, <2>7
    <3>2. todo'[s] = <<j>>
      BY <2>1, <2>5
    <3> HIDE DEF j
    <3>3. JobFits(s, j)'
      BY <3>1, <2>3, <2>5
    <3> QED BY <3>1, <3>2, <3>3, <2>1 DEF JobsFit, Jobs
  <2>6. CASE p = <<Job(i, -c, TRUE), Job(i, d + c, FALSE)>> /\ c + d # 0 /\ c + d = d + c
    <3> DEFINE j == Job(i, -c, TRUE)
               k == Job(i, d + c, FALSE)
    <3>1. -c \in Int /\ d + c \in Int
      BY <2>1
    <3>2. j \in Jobs(s) /\ j.inst = i /\ j.reduce
      BY <3>1, <2>7
    <3>3. k \in Jobs(s) /\ k.inst = i /\ k.qty = d + c /\ ~k.reduce
      BY <3>1, <2>7
    <3>4. todo'[s] = <<j, k>>
      BY <2>1, <2>6
    <3> HIDE DEF j, k
    <3>5. JobFits(s, j)' /\ JobFits(s, k)'
      BY <3>2, <3>3, <2>3, <2>6
    <3> QED BY <3>2, <3>3, <3>4, <3>5, <2>1, <1>2 DEF JobsFit, Jobs
  <2> QED BY <2>2, <2>4, <2>5, <2>6
<1>9. Vetted(s)'
  BY <1>2 DEF LegsInv, LegsOf, Vetted, LegVetted, Due, Private
<1>10. Untouched(s)'
  BY <1>2, <1>5 DEF LegsInv, LegsOf, Untouched, Before, Net, Private
<1>11. LegsOpen(s)'
  BY <1>2 DEF LegsInv, LegsOf, LegsOpen, Private, Accepts
<1> QED BY <1>2, <1>3, <1>8, <1>9, <1>10, <1>11 DEF LegsOf, CallOwn, Pending, OrderWaits

LEMMA NextOpenLegs ==
  ASSUME LegsInv, NEW s \in Coroutines, NextOpen(s)
  PROVE  LegsOf(s)'
<1>1. PICK i \in work[s] :
       /\ \E n \in 0..Lots(want[s][i]) :
            todo' = [todo EXCEPT ![s] =
              IF n = 0 THEN <<>> ELSE <<Job(i, Sign(want[s][i]) * n, FALSE)>>]
       /\ work' = [work EXCEPT ![s] = @ \ {i}]
  BY DEF NextOpen
<1>2. PICK n \in 0..Lots(want[s][i]) :
       todo' = [todo EXCEPT ![s] =
         IF n = 0 THEN <<>> ELSE <<Job(i, Sign(want[s][i]) * n, FALSE)>>]
  BY <1>1
<1>3. /\ turn = s /\ pc[s] = "submit" /\ pc' = pc /\ todo[s] = <<>> /\ Kind[s] # "xsm"
      /\ call' = call /\ cache' = cache /\ dropped' = dropped
      /\ book' = book /\ want' = want /\ ask' = ask /\ delta' = delta /\ failed' = failed
      /\ overlapped' = overlapped
  BY DEF NextOpen, marginVars, roundVars, history
<1>4. call[s] = Idle
  BY <1>3 DEF LegsInv, BasketInv, AwaitOK
<1>5. i \in Insts /\ i \in Universe[s] /\ want[s][i] \in Signed /\ want[s][i] \in Int
  BY SignedType DEF LegsInv, BasketInv, WorkOK, RoundOK
<1>6. work'[s] = work[s] \ {i}
  BY <1>1 DEF LegsInv, BasketInv, WorkOK
<1>7. JobsFit(s)'
  <2>0. Lots(want[s][i]) \in Nat
    BY <1>5, LotsType
  <2>1. PICK q \in Int : q = Sign(want[s][i]) * n
    BY <1>5, <2>0 DEF Sign
  <2>2. q \in Signed
    BY <1>5, <2>1, ShrunkType
  <2> DEFINE j == Job(i, q, FALSE)
  <2>3. j \in Jobs(s) /\ j.inst = i /\ j.qty = q /\ ~j.reduce
    BY <1>5, <2>1, <2>2 DEF Job, Jobs, AnyJob
  <2>4. todo'[s] = IF n = 0 THEN <<>> ELSE <<j>>
    BY <1>2, <2>1 DEF LegsInv, BasketInv, JobsOK
  <2> HIDE DEF j
  <2>5. n # 0 => want[s][i] # 0 /\ Side(q) = Side(want[s][i])
    BY <1>5, <2>0, <2>1 DEF Sign, Side, Lots
  <2>6. Kind[s] # "fp" => Due(s, i)
    BY <1>3, BasketAssumption DEF LegsInv, LegsOf, Pending
  <2>7. n # 0 => JobFits(s, j)'
    BY <1>3, <1>6, <2>3, <2>5, <2>6 DEF JobFits, Due, Private, Side
  <2> QED BY <1>3, <2>3, <2>4, <2>7 DEF JobsFit, Jobs
<1>8. Vetted(s)'
  BY <1>3 DEF LegsInv, LegsOf, Vetted, LegVetted, Due, Private
<1>9. Pending(s)'
  BY <1>3, <1>6 DEF LegsInv, LegsOf, Pending, Due
<1>10. LegsOpen(s)'
  BY <1>3 DEF LegsInv, LegsOf, LegsOpen, Private, Accepts
<1> QED BY <1>3, <1>4, <1>7, <1>8, <1>9, <1>10
        DEF LegsOf, CallOwn, OrderWaits, Untouched

\* An order has left the list.
LEMMA TailFits ==
  ASSUME NEW s \in Coroutines, JobsFit(s), todo[s] # <<>>,
         todo'[s] = Tail(todo[s]), pc'[s] = pc[s], work'[s] = work[s], want'[s] = want[s],
         overlapped' = overlapped
  PROVE  /\ JobFits(s, Head(todo[s])) /\ JobsFit(s)'
         /\ \/ todo'[s] = <<>>
            \/ Kind[s] = "xsm" /\ Head(todo'[s]).inst = Head(todo[s]).inst
<1>1. ASSUME NEW j \in Jobs(s), todo[s] = <<j>>, JobFits(s, j)
      PROVE  /\ JobFits(s, Head(todo[s])) /\ JobsFit(s)'
             /\ todo'[s] = <<>>
  <2>1. Head(todo[s]) = j /\ todo'[s] = <<>>
    BY <1>1
  <2> QED BY <1>1, <2>1 DEF JobsFit
<1>2. ASSUME NEW j \in Jobs(s), NEW k \in Jobs(s), pc[s] = "submit", Kind[s] = "xsm",
             todo[s] = <<j, k>>, j.inst = k.inst, JobFits(s, j), JobFits(s, k)
      PROVE  /\ JobFits(s, Head(todo[s])) /\ JobsFit(s)'
             /\ Head(todo'[s]).inst = Head(todo[s]).inst
  <2>1. Head(todo[s]) = j /\ todo'[s] = <<k>>
    BY <1>2
  <2>2. JobFits(s, k)'
    BY <1>2 DEF JobFits, Due, Private, Side
  <2> QED BY <1>2, <2>1, <2>2 DEF JobsFit, Jobs
<1> QED BY <1>1, <1>2 DEF JobsFit

LEMMA LaunchLegs ==
  ASSUME LegsInv, NEW s \in Coroutines, pc[s] = "submit", todo[s] # <<>>, Launch(s),
         pc' = pc, work' = work, want' = want, delta' = delta, held' = held,
         overlapped' = overlapped
  PROVE  /\ JobsFit(s)' /\ Pending(s)' /\ Untouched(s)'
         /\ \A i \in Insts : Kind[s] # "fp" /\ Private(s, i) /\ Due(s, i)' => Due(s, i)
<1>1. PICK j \in Jobs(s) : j = Head(todo[s])
  BY HeadJob DEF LegsInv
<1>2. j.inst \in Insts /\ j.inst \in Universe[s]
  BY DEF Jobs, AnyJob
<1>3. todo'[s] = Tail(todo[s])
  BY DEF Launch, LegsInv, BasketInv, JobsOK
<1>4. JobFits(s, j) /\ JobsFit(s)'
  BY <1>1, <1>3, TailFits DEF LegsInv, LegsOf
<1>5. Kind[s] # "xsm" => \A i \in Insts : book'[s][i] = IF i = j.inst THEN j.qty ELSE book[s][i]
  BY <1>1 DEF Launch, LegsInv, BasketInv, JobsOK
<1>6. \A i \in Insts : Kind[s] # "fp" /\ Private(s, i) /\ Due(s, i)' => Due(s, i)
  BY <1>4, <1>5 DEF JobFits, Due
<1>7. Pending(s)'
  <2> SUFFICES ASSUME Kind[s] = "fxs", NEW i \in work[s] PROVE Due(s, i)'
    BY DEF Pending
  <2>1. i \in Insts /\ i # j.inst
    BY <1>4 DEF JobFits, LegsInv, BasketInv, WorkOK
  <2>2. Due(s, i)
    BY DEF LegsInv, LegsOf, Pending
  <2> QED BY <1>5, <2>1, <2>2 DEF Due
<1>8. Untouched(s)'
  <2> SUFFICES ASSUME Kind[s] = "xsm", NEW i \in Universe[s], Private(s, i), Before(s, i)
               PROVE  delta[s][i] + Net(i)' = want[s][i] /\ \A o \in inflight' : o.inst # i
    BY DEF Untouched, Private, Before
  <2>1. i # j.inst
    BY <1>4 DEF Before, JobFits
  <2>2. delta[s][i] + Net(i) = want[s][i] /\ \A o \in inflight : o.inst # i
    BY DEF LegsInv, LegsOf, Untouched
  <2>3. Net(i)' = Net(i)
    BY DEF Net
  <2>4. \A o \in inflight' : o \in inflight \/ o.inst = j.inst
    BY <1>1 DEF Launch, Order
  <2> QED BY <2>1, <2>2, <2>3, <2>4
<1> QED BY <1>4, <1>6, <1>7, <1>8

LEMMA SubmitOrderLegs ==
  ASSUME LegsInv, NEW s \in Coroutines, SubmitOrder(s)
  PROVE  LegsOf(s)'
<1>1. PICK j \in Jobs(s) : j = Head(todo[s])
  BY HeadJob DEF LegsInv, SubmitOrder
<1>2. j.inst \in Insts /\ j.inst \in Universe[s] /\ j.qty \in Int /\ j.reduce \in BOOLEAN
  BY DEF Jobs, AnyJob
<1> DEFINE l == ask[s][j.inst]
<1>3. PICK k \in Keys : k = OrderKey(j.inst, j.qty)
  BY <1>2, KeyType DEF OrderKey
<1>4. \/ Cached(k, l) /\ Launch(s) /\ UNCHANGED <<marginVars, turn>>
      \/ Ask(s, k, l) /\ turn' = Loop /\ UNCHANGED <<todo, book, inflight>>
  BY <1>1, <1>3 DEF SubmitOrder
<1>5. /\ turn = s /\ pc[s] = "submit" /\ todo[s] # <<>>
      /\ pc' = pc /\ work' = work /\ failed' = failed /\ held' = held /\ dropped' = dropped
      /\ want' = want /\ ask' = ask /\ delta' = delta /\ overlapped' = overlapped
  BY DEF SubmitOrder, roundVars, history
<1>6. call[s] = Idle
  BY <1>5 DEF LegsInv, BasketInv, AwaitOK
<1>7. cache' = cache
  BY <1>4 DEF marginVars, Ask
<1>8. /\ JobsFit(s)' /\ Pending(s)' /\ Untouched(s)'
      /\ \A i \in Insts : Kind[s] # "fp" /\ Private(s, i) /\ Due(s, i)' => Due(s, i)
  <2>1. CASE Launch(s)
    BY <2>1, <1>5, LaunchLegs
  <2>2. CASE UNCHANGED <<todo, book, inflight>>
    <3>1. JobsFit(s)'
      BY <2>2, <1>5 DEF LegsInv, LegsOf, JobsFit, Jobs, JobFits, Due, Private, Side
    <3>2. Pending(s)'
      BY <2>2, <1>5 DEF LegsInv, LegsOf, Pending, Due
    <3>3. Untouched(s)'
      BY <2>2, <1>5 DEF LegsInv, LegsOf, Untouched, Before, Net, Private
    <3> QED BY <2>2, <1>5, <3>1, <3>2, <3>3 DEF Due
  <2> QED BY <1>4, <2>1, <2>2
<1>9. Vetted(s)'
  BY <1>5, <1>7, <1>8 DEF LegsInv, LegsOf, Vetted, LegVetted, Private, Side
<1>10. LegsOpen(s)'
  BY <1>5 DEF LegsInv, LegsOf, LegsOpen, Private, Accepts
<1>11. CallOwn(s)' /\ OrderWaits(s)'
  <2>1. CASE UNCHANGED marginVars
    BY <2>1, <1>6 DEF marginVars, CallOwn, OrderWaits
  <2>2. CASE Ask(s, k, l) /\ UNCHANGED <<todo, book, inflight>>
    <3>1. call'[s] = [at |-> "sent", key |-> k, value |-> l] /\ cache[k] # l
      BY <2>2 DEF Ask, Cached, LegsInv, BasketInv, MarginInv, MarginTypeOK
    <3>2. call'[s].key = k /\ call'[s].value = l
      BY <3>1
    <3>3. k[1] = j.inst /\ (Accepts(k) => k = <<j.inst, Side(j.qty)>>)
      <4>1. k = KeyOf(j.inst, Side(j.qty))
        BY <1>3 DEF OrderKey, Side
      <4> QED BY <4>1, <1>2, BasketAssumption, LegKeyIs
    <3>4. CallOwn(s)'
      BY <1>2, <1>5, <3>2, <3>3 DEF CallOwn
    <3>5. ASSUME Kind[s] # "fp", ~j.reduce, Private(s, j.inst)
          PROVE  ~Accepts(k)
      <4>1. todo'[s] = Tail(todo[s]) \/ todo' = todo
        BY <2>2
      <4>2. JobFits(s, j)
        BY <1>1, <1>5 DEF LegsInv, LegsOf, JobsFit
      <4>3. Due(s, j.inst) /\ Side(j.qty) = Side(want[s][j.inst])
        BY <3>5, <4>2 DEF JobFits
      <4>4. cache[<<j.inst, Side(j.qty)>>] = l
        BY <3>5, <4>3, <1>2, <1>5 DEF LegsInv, LegsOf, Vetted, LegVetted
      <4> QED BY <4>4, <3>1, <3>3
    <3>6. todo'[s] = todo[s]
      BY <2>2
    <3>7. OrderWaits(s)'
      BY <1>1, <1>5, <3>2, <3>5, <3>6 DEF OrderWaits, Private, Accepts
    <3> QED BY <3>4, <3>7
  <2> QED BY <1>4, <2>1, <2>2
<1> QED BY <1>8, <1>9, <1>10, <1>11 DEF LegsOf

LEMMA OrderAnsweredLegs ==
  ASSUME LegsInv, NEW s \in Coroutines, OrderAnswered(s)
  PROVE  LegsOf(s)'
<1>1. /\ turn = Loop /\ pc[s] = "submit" /\ pc' = pc /\ work' = work /\ failed' = failed
      /\ want' = want /\ ask' = ask /\ delta' = delta /\ held' = held
      /\ overlapped' = overlapped
  BY DEF OrderAnswered, roundVars
<1>2. \/ Ensured(s) /\ Launch(s) /\ dropped' = dropped
      \/ /\ Denied(s) /\ todo' = [todo EXCEPT ![s] = Tail(@)]
         /\ dropped' = IF Kind[s] = "fp" THEN dropped ELSE
              [dropped EXCEPT ![s] = @ \union {[job |-> Head(todo[s]), key |-> call[s].key]}]
         /\ UNCHANGED <<book, inflight>>
  BY DEF OrderAnswered
<1> DEFINE c == call[s].key
<1>3. /\ call[s] # Idle /\ call'[s] = Idle
      /\ c \in Keys /\ c[1] \in Universe[s] /\ c[1] \in Insts
      /\ \A k \in Keys : cache'[k] # cache[k] => k = c
      /\ Denied(s) => cache' = cache
      /\ Ensured(s) => cache'[c] = ask[s][c[1]] /\ Accepts(c)
  BY <1>2, Answered
<1>4. todo[s] # <<>>
  BY <1>1, <1>3 DEF LegsInv, BasketInv, AwaitOK
<1>5. PICK j \in Jobs(s) : j = Head(todo[s])
  BY <1>4, HeadJob DEF LegsInv
<1>6. /\ JobsFit(s)' /\ Pending(s)' /\ Untouched(s)'
      /\ \A i \in Insts : Kind[s] # "fp" /\ Private(s, i) /\ Due(s, i)' => Due(s, i)
  <2>1. CASE Launch(s)
    BY <2>1, <1>1, <1>4, LaunchLegs
  <2>2. CASE todo' = [todo EXCEPT ![s] = Tail(@)] /\ UNCHANGED <<book, inflight>>
    <3>1. todo'[s] = Tail(todo[s])
      BY <2>2 DEF LegsInv, BasketInv, JobsOK
    <3>2. JobsFit(s)'
      BY <3>1, <1>1, <1>4, TailFits DEF LegsInv, LegsOf
    <3>3. Pending(s)'
      BY <2>2, <1>1 DEF LegsInv, LegsOf, Pending, Due
    <3>4. Untouched(s)'
      BY <2>2, <1>1 DEF LegsInv, LegsOf, Untouched, Before, Net, Private
    <3> QED BY <2>2, <1>1, <3>2, <3>3, <3>4 DEF Due
  <2> QED BY <1>2, <2>1, <2>2
<1>7. Vetted(s)'
  <2> SUFFICES ASSUME Kind[s] # "fp", NEW h \in Insts, Private(s, h), Due(s, h)
               PROVE  cache'[<<h, Side(want[s][h])>>] = ask[s][h]
    BY <1>1, <1>6 DEF Vetted, LegVetted, Private, Side
  <2>1. <<h, Side(want[s][h])>> \in Keys
    BY DEF Keys, Side
  <2>2. cache[<<h, Side(want[s][h])>>] = ask[s][h]
    BY <1>1 DEF LegsInv, LegsOf, Vetted, LegVetted
  <2>3. CASE c = <<h, Side(want[s][h])>> /\ Ensured(s)
    <3>1. c[1] = h
      BY <2>3
    <3> QED BY <2>3, <3>1, <1>3
  <2>4. CASE c # <<h, Side(want[s][h])>> \/ Denied(s)
    BY <2>1, <2>2, <2>4, <1>3
  <2> QED BY <2>3, <2>4, <1>2
<1>8. LegsOpen(s)'
  <2>1. CASE dropped' = dropped
    BY <2>1, <1>1 DEF LegsInv, LegsOf, LegsOpen, Private, Accepts
  <2>2. CASE dropped' = [dropped EXCEPT ![s] = @ \union {[job |-> Head(todo[s]), key |-> c]}]
    <3>1. Kind[s] # "fp" => j.reduce \/ ~Private(s, j.inst) \/ ~Accepts(c)
      BY <1>1, <1>3, <1>5 DEF LegsInv, LegsOf, OrderWaits
    <3>2. dropped'[s] = dropped[s] \union {[job |-> j, key |-> c]}
      BY <2>2, <1>5 DEF LegsInv, HistoryOK
    <3>3. PICK k \in Keys : k = c
      BY <1>3
    <3>4. \A d \in dropped'[s] : d \in dropped[s] \/ (d.job = j /\ d.key = k)
      BY <3>2, <3>3
    <3>5. Kind[s] # "fp" =>
            \A d \in dropped[s] : d.job.reduce \/ ~Private(s, d.job.inst) \/ ~Accepts(d.key)
      BY DEF LegsInv, LegsOf, LegsOpen
    <3> QED BY <1>1, <3>1, <3>3, <3>4, <3>5 DEF LegsOpen, Private, Accepts
  <2> QED BY <1>2, <2>1, <2>2
<1> QED BY <1>3, <1>6, <1>7, <1>8 DEF LegsOf, CallOwn, OrderWaits

LEMMA OkxLeverageLegs ==
  ASSUME LegsInv, NEW s \in Coroutines, OkxLeverage(s)
  PROVE  LegsOf(s)'
<1>1. /\ cache' = cache /\ pc' = pc /\ todo' = todo /\ dropped' = dropped /\ work' = work
      /\ book' = book /\ want' = want /\ ask' = ask /\ delta' = delta /\ failed' = failed
      /\ held' = held /\ inflight' = inflight /\ overlapped' = overlapped
  BY DEF OkxLeverage, OkxSets, roundVars, history
<1>2. call[s] # Idle /\ call'[s].key = call[s].key /\ call'[s].value = call[s].value
  <2>1. call[s] # Idle /\ call' = [call EXCEPT ![s].at = "applied"]
    BY DEF OkxLeverage, OkxSets
  <2>2. call[s] \in Calls /\ call \in [Coroutines -> Calls \union {Idle}]
    BY <2>1 DEF LegsInv, BasketInv, MarginInv, MarginTypeOK
  <2> QED BY <2>1, <2>2 DEF Calls
<1>3. CallOwn(s)'
  BY <1>1, <1>2 DEF LegsInv, LegsOf, CallOwn, Side
<1>4. Vetted(s)'
  BY <1>1 DEF LegsInv, LegsOf, Vetted, LegVetted, Due, Private, Side
<1>5. JobsFit(s)'
  BY <1>1 DEF LegsInv, LegsOf, JobsFit, Jobs, JobFits, Due, Private, Side
<1>6. Pending(s)'
  BY <1>1 DEF LegsInv, LegsOf, Pending, Due
<1>7. OrderWaits(s)'
  BY <1>1, <1>2 DEF LegsInv, LegsOf, OrderWaits, Private, Accepts
<1>8. Untouched(s)'
  BY <1>1 DEF LegsInv, LegsOf, Untouched, Before, Net, Private
<1>9. LegsOpen(s)'
  BY <1>1 DEF LegsInv, LegsOf, LegsOpen, Private, Accepts
<1> QED BY <1>3, <1>4, <1>5, <1>6, <1>7, <1>8, <1>9 DEF LegsOf

\* An order of OKX moves its own instrument only.
LEMMA SettleElsewhere ==
  ASSUME BasketInv, NEW o \in inflight, Fill(o) \/ Reject(o), NEW i \in Insts, i # o.inst
  PROVE  /\ Net(i)' = Net(i)
         /\ {p \in inflight' : p.inst = i} = {p \in inflight : p.inst = i}
<1>1. inflight' = inflight \ {o}
  BY DEF Fill, Reject
<1>2. /\ o.mode \in {"isolated", "cross"} /\ o.inst \in Insts /\ o.side \in {"long", "short"}
  BY DEF BasketInv, JobsOK, AnyOrder
<1>3. \A m \in {"isolated", "cross"} : held'[m][i] = held[m][i]
  BY <1>2 DEF Fill, Reject, BasketInv, HeldOK
<1>4. Net(i)' = Net(i)
  BY <1>3 DEF Net
<1> QED BY <1>1, <1>4

LEMMA SettleLegs ==
  ASSUME LegsInv, NEW o \in inflight, Fill(o) \/ Reject(o), NEW s \in Coroutines
  PROVE  LegsOf(s)'
<1>1. /\ cache' = cache /\ call' = call /\ pc' = pc /\ todo' = todo /\ dropped' = dropped
      /\ work' = work /\ book' = book /\ want' = want /\ ask' = ask /\ delta' = delta
      /\ failed' = failed /\ inflight' \subseteq inflight
      /\ overlapped' = overlapped
  BY DEF Fill, Reject, marginVars, roundVars, history
<1>3. CallOwn(s)'
  BY <1>1 DEF LegsInv, LegsOf, CallOwn, Side
<1>4. Vetted(s)'
  BY <1>1 DEF LegsInv, LegsOf, Vetted, LegVetted, Due, Private, Side
<1>5. JobsFit(s)'
  BY <1>1 DEF LegsInv, LegsOf, JobsFit, Jobs, JobFits, Due, Private, Side
<1>6. Pending(s)'
  BY <1>1 DEF LegsInv, LegsOf, Pending, Due
<1>7. OrderWaits(s)'
  BY <1>1 DEF LegsInv, LegsOf, OrderWaits, Private, Accepts
<1>8. Untouched(s)'
  <2> SUFFICES ASSUME Kind[s] = "xsm", NEW i \in Universe[s], Private(s, i), Before(s, i)
               PROVE  delta[s][i] + Net(i)' = want[s][i] /\ \A p \in inflight' : p.inst # i
    BY <1>1 DEF Untouched, Private, Before
  <2>1. delta[s][i] + Net(i) = want[s][i] /\ \A p \in inflight : p.inst # i
    BY DEF LegsInv, LegsOf, Untouched
  <2>2. i \in Insts /\ i # o.inst
    BY <2>1, BasketAssumption
  <2>3. Net(i)' = Net(i)
    BY <2>2, SettleElsewhere DEF LegsInv
  <2> QED BY <2>1, <2>3, <1>1
<1>9. LegsOpen(s)'
  BY <1>1 DEF LegsInv, LegsOf, LegsOpen, Private, Accepts
<1> QED BY <1>3, <1>4, <1>5, <1>6, <1>7, <1>8, <1>9 DEF LegsOf

LEMMA OwnLegs ==
  ASSUME LegsInv, NEW s \in Coroutines, Step(s)
  PROVE  LegsOf(s)'
<1>1. CASE Abort(s) \/ Finish(s)
  <2>1. turn = s /\ todo[s] = <<>> /\ (Return(s, TRUE) \/ Return(s, FALSE))
    BY <1>1, NothingPlanned DEF Abort, Finish, LegsInv, LegsOf
  <2> QED BY <2>1, ReturnLegs
<1> QED BY <1>1, BeginMomentumLegs, BeginDiffLegs, ModeKnownLegs, ValidateLegLegs,
        LegValidatedLegs, ValidatedLegs, NextDeltaLegs, NextOpenLegs, SubmitOrderLegs,
        OrderAnsweredLegs, OkxLeverageLegs DEF Step, Resume

LEMMA InitLegs == Init => LegsInv
<1> SUFFICES ASSUME Init PROVE LegsInv
  OBVIOUS
<1>1. BasketInv
  BY InitBasket
<1>2. HistoryOK
  BY DEF Init, HistoryOK
<1>3. Refused
  BY DEF Init, MarginInit, Refused
<1>4. Within
  BY DEF Init, NoTarget, Within
<1>6. Sole
  BY DEF Init, Sole, Settled, Family
<1>5. ASSUME NEW s \in Coroutines PROVE LegsOf(s)
  <2>1. pc[s] = "idle" /\ todo[s] = <<>> /\ call[s] = Idle /\ dropped[s] = {}
    BY DEF Init, MarginInit
  <2> QED BY <2>1 DEF LegsOf, CallOwn, Vetted, LegVetted, JobsFit, Pending, OrderWaits,
          Untouched, Before, LegsOpen
<1> QED BY <1>1, <1>2, <1>3, <1>4, <1>5, <1>6 DEF LegsInv

LEMMA LegsStep == LegsInv /\ [Next]_vars => LegsInv'
<1> SUFFICES ASSUME LegsInv, [Next]_vars PROVE LegsInv'
  OBVIOUS
<1>1. BasketInv' /\ [MarginNext]_marginVars
  BY BasketStep DEF LegsInv
<1>2. HistoryOK' /\ Refused' /\ Within'
  BY <1>1, HistoryStep, RefusedStep, WithinStep DEF LegsInv
<1>3. ASSUME NEW s \in Coroutines, Step(s), NEW t \in Coroutines
      PROVE  LegsOf(t)'
  <2>1. CASE t = s
    BY <1>3, <2>1, OwnLegs
  <2>2. CASE t # s
    <3>1. Elsewhere(s)
      BY <1>3, StepElsewhere DEF LegsInv, LegsOf
    <3> QED BY <1>1, <1>3, <2>2, <3>1, OthersKeep DEF LegsInv
  <2> QED BY <2>1, <2>2
<1>4. ASSUME NEW o \in inflight, Fill(o) \/ Reject(o), NEW t \in Coroutines
      PROVE  LegsOf(t)'
  BY <1>4, SettleLegs
<1>5. ASSUME UNCHANGED vars, NEW t \in Coroutines
      PROVE  LegsOf(t)'
  BY <1>5 DEF vars, LegsInv, LegsOf, CallOwn, Vetted, LegVetted, JobsFit, Jobs, JobFits,
     Pending, OrderWaits, Untouched, Before, LegsOpen, Due, Private, Side, Accepts, Net
<1>6. \A t \in Coroutines : LegsOf(t)'
  BY <1>3, <1>4, <1>5 DEF Next, Step
<1>7. ASSUME NEW s \in Coroutines, Step(s) PROVE Sole'
  <2>1. Elsewhere(s)
    BY <1>7, StepElsewhere DEF LegsInv, LegsOf
  <2> QED BY <1>7, <2>1, SoleStep DEF LegsInv
<1>8. ASSUME UNCHANGED vars PROVE Sole'
  <2>1. pc' = pc /\ complete' = complete /\ overlapped' = overlapped /\ inflight' = inflight
    BY <1>8 DEF vars
  <2>2. \A t : Settled(t)' <=> Settled(t)
    BY <2>1 DEF Settled
  <2> QED BY <2>1, <2>2 DEF LegsInv, Sole
<1>9. Sole'
  BY <1>7, <1>8, SoleSettles DEF Next, Step, LegsInv
<1> QED BY <1>1, <1>2, <1>6, <1>9 DEF LegsInv

THEOREM LegsInvariant == Spec => []LegsInv
<1>1. Init => LegsInv
  BY InitLegs
<1>2. LegsInv /\ [Next]_vars => LegsInv'
  BY LegsStep
<1> QED BY <1>1, <1>2, PTL DEF Spec

\* Once all legs of a round were validated, an opening order is given up for
\* its leverage only where another strategy or an overlapping round of its own
\* trades the instrument, or after a failed lookup has replaced the posMode,
\* with any number of coroutines, instruments and leverages: a validated leg's
\* leverage stays in the cache.
THEOREM LegsStayOpen == Spec => []ValidatedLegsOpen
<1>1. LegsInv => ValidatedLegsOpen
  BY DEF LegsInv, LegsOf, LegsOpen, ValidatedLegsOpen
<1> QED BY <1>1, LegsInvariant, PTL

\* Only closes go to the cross position, and they reduce.
NothingCross ==
  /\ ClosesOpenNothing
  /\ \A o \in inflight : o.mode = "cross" => o.reduce

\* The orders that a coroutine or the loop sends, and their settlement.
LEMMA NothingCrossStep ==
  ASSUME BasketInv, NothingCross, [Next]_vars
  PROVE  NothingCross'
<1> USE DEF NothingCross, ClosesOpenNothing
<1>1. ASSUME NEW s \in Coroutines, BeginDiff(s) PROVE NothingCross'
  <2>1. PICK w \in Targets(s) :
          inflight' = inflight \union {CloseOrder(s, i) : i \in Closes(s, w)}
    BY <1>1 DEF BeginDiff
  <2>2. \A i \in Closes(s, w) : CloseOrder(s, i).reduce
    BY DEF CloseOrder, Order
  <2>3. held' = held
    BY <1>1 DEF BeginDiff, Begin
  <2> QED BY <2>1, <2>2, <2>3
<1>2. ASSUME NEW s \in Coroutines, Launch(s), held' = held PROVE NothingCross'
  <2> DEFINE j == Head(todo[s])
             o == Order(s, j.inst, j.qty, j.reduce, "isolated")
  <2>1. inflight' = inflight \union {o}
    BY <1>2 DEF Launch
  <2>2. o.mode = "isolated"
    BY DEF Order
  <2> HIDE DEF o
  <2> QED BY <1>2, <2>1, <2>2
<1>3. ASSUME NEW s \in Coroutines, Resume(s) PROVE NothingCross'
  <2>1. held' = held
    BY <1>3 DEF Resume, ModeKnown, ValidateLeg, LegValidated, Abort, Validated, NextDelta,
       NextOpen, SubmitOrder, OrderAnswered, Finish, Return
  <2>2. inflight' = inflight \/ Launch(s)
    BY <1>3 DEF Resume, ModeKnown, ValidateLeg, LegValidated, Abort, Validated, NextDelta,
       NextOpen, SubmitOrder, OrderAnswered, Finish, Return
  <2> QED BY <2>1, <2>2, <1>2
<1>4. ASSUME NEW o \in inflight, Fill(o) PROVE NothingCross'
  <2>1. inflight' \subseteq inflight /\ o \in AnyOrder
    BY <1>4 DEF Fill, BasketInv, JobsOK
  <2>2. CASE o.mode = "isolated"
    <3>1. held'["cross"] = held["cross"]
      BY <1>4, <2>1, <2>2 DEF Fill, AnyOrder, BasketInv, HeldOK
    <3> QED BY <2>1, <3>1
  <2>3. CASE o.mode = "cross"
    <3>1. /\ held["cross"][o.inst][o.side] = 0 /\ o.lots \in Nat
          /\ held["cross"][o.inst][o.side] >= o.lots
          /\ held' = [held EXCEPT !["cross"][o.inst][o.side] = @ - o.lots]
      BY <1>4, <2>1, <2>3 DEF Fill, AnyOrder
    <3>2. o.lots = 0
      BY <3>1
    <3>3. \A i \in Insts, d \in {"long", "short"} : held'["cross"][i][d] = 0
      BY <2>1, <3>1, <3>2 DEF AnyOrder, BasketInv, HeldOK
    <3> QED BY <2>1, <3>3
  <2> QED BY <2>1, <2>2, <2>3 DEF AnyOrder
<1>5. CASE UNCHANGED <<held, inflight>>
  BY <1>5
<1>6. ASSUME NEW o \in inflight, Reject(o) PROVE NothingCross'
  BY <1>6 DEF Reject
<1>7. ASSUME NEW s \in Coroutines, BeginMomentum(s) \/ OkxLeverage(s)
      PROVE  UNCHANGED <<held, inflight>>
  BY <1>7 DEF BeginMomentum, Begin, OkxLeverage
<1> QED BY <1>1, <1>3, <1>4, <1>5, <1>6, <1>7 DEF Next, vars

\* No round leaves a stray leg, with any number of strategies, instruments and
\* leverages: the legs stay open, and the close of a leg in the margin mode
\* that holds none of it is refused and opens nothing.
THEOREM NoLegIsStray == Spec => []NoStrayLegs
<1>1. Init => NothingCross
  BY DEF Init, NothingCross, ClosesOpenNothing
<1>2. BasketInv /\ NothingCross /\ [Next]_vars => NothingCross'
  BY NothingCrossStep
<1>3. NothingCross => ClosesOpenNothing
  BY DEF NothingCross
<1> QED BY <1>1, <1>2, <1>3, BasketInvariant, LegsStayOpen, PTL DEF Spec, NoStrayLegs

-----------------------------------------------------------------------------
(* A complete round of xsm reaches its target *)

\* The orders of an instrument that close, or that open, a position.
Under(i, r) == {o \in inflight : o.inst = i /\ o.reduce = r}

\* The lots by which an order moves the net position once it is filled.
Effect(o) == IF (o.side = "long") # o.reduce THEN o.lots ELSE 0 - o.lots

\* What the only order of S moves.
Moves(S) == IF S = {} THEN 0 ELSE Effect(CHOOSE o \in S : TRUE)

\* What a list of jobs holds for i.
Planned(q, i) ==
  IF q = <<>> \/ Head(q).inst # i THEN 0
  ELSE IF Len(q) = 1 THEN q[1].qty
  ELSE q[1].qty + q[2].qty

Plans(q, i, r) == \E n \in 1..Len(q) : q[n].inst = i /\ q[n].reduce = r

\* On an instrument of its own xsm has at most one order of each kind under
\* way or yet to come.
OneOfEach(s, i) ==
  \A r \in BOOLEAN :
    /\ \A o, p \in Under(i, r) : o = p
    /\ Plans(todo[s], i, r) => Under(i, r) = {}

\* RoundReachesTarget does not speak of it.
Excused(s, i) == i \in rejected[s] \/ \E d \in dropped[s] : d.job.inst = i

\* The round has come to i.
After(s, i) == (pc[s] = "submit" /\ i \notin work[s]) \/ (pc[s] = "idle" /\ complete[s])

\* What the account holds, what is under way and what is yet to be submitted
\* make up the target.
OnTheWay(s, i) ==
  After(s, i) /\ ~Excused(s, i) =>
    Net(i) + Moves(Under(i, TRUE)) + Moves(Under(i, FALSE)) + Planned(todo[s], i) = want[s][i]

\* The round is under way or has stamped the day.
Engaged(s) == pc[s] # "idle" \/ complete[s]

TargetOf(s) ==
  Kind[s] = "xsm" /\ Engaged(s) =>
    \A i \in Universe[s] : Private(s, i) => OneOfEach(s, i) /\ OnTheWay(s, i)

TargetInv == LegsInv /\ \A s \in Coroutines : TargetOf(s)

-----------------------------------------------------------------------------
LEMMA MovesOne ==
  ASSUME NEW S, NEW o \in S, \A p \in S : p = o
  PROVE  Moves(S) = Effect(o)
BY DEF Moves

LEMMA MovesNone == Moves({}) = 0
BY DEF Moves

LEMMA EffectType == \A o \in AnyOrder : Effect(o) \in Int
BY DEF AnyOrder, Effect

LEMMA MovesType ==
  ASSUME NEW S \in SUBSET AnyOrder
  PROVE  Moves(S) \in Int
<1>1. CASE S = {}
  BY <1>1, MovesNone
<1>2. CASE S # {}
  <2>1. PICK o \in AnyOrder : o = CHOOSE p \in S : TRUE
    BY <1>2
  <2> QED BY <1>2, <2>1, EffectType DEF Moves
<1> QED BY <1>1, <1>2

\* An order of q lots moves the position by q, whichever side it names.
LEMMA OrderEffect ==
  ASSUME NEW s, NEW i, NEW q \in Int, NEW r \in BOOLEAN, NEW m
  PROVE  Effect(Order(s, i, q, r, m)) = q
<1> DEFINE o == Order(s, i, q, r, m)
<1>1. o.side = PositionSide(q, r) /\ o.reduce = r /\ o.lots = Lots(q)
  BY DEF Order
<1> HIDE DEF o
<1>2. (PositionSide(q, r) = "long") <=> ((q > 0) # r)
  BY DEF PositionSide
<1>3. ((PositionSide(q, r) = "long") # r) <=> q > 0
  BY <1>2
<1>4. Effect(o) = IF q > 0 THEN Lots(q) ELSE 0 - Lots(q)
  BY <1>1, <1>3 DEF Effect
<1> QED BY <1>4 DEF Lots, o

\* A fill moves the position of its instrument by the effect of the order.
LEMMA FillMoves ==
  ASSUME BasketInv, NEW o \in inflight, Fill(o)
  PROVE  Net(o.inst)' = Net(o.inst) + Effect(o)
<1>1. /\ o.mode \in {"isolated", "cross"} /\ o.inst \in Insts /\ o.side \in {"long", "short"}
      /\ o.lots \in Nat /\ o.reduce \in BOOLEAN
  BY DEF BasketInv, JobsOK, AnyOrder
<1>2. PICK i \in Insts, m \in {"isolated", "cross"}, d \in {"long", "short"}, n \in Nat :
        i = o.inst /\ m = o.mode /\ d = o.side /\ n = o.lots
  BY <1>1
<1>3. \A c \in {"isolated", "cross"}, e \in {"long", "short"} : held[c][i][e] \in Nat
  BY DEF BasketInv, HeldOK
<1>4. PICK x \in Int : x = IF o.reduce THEN 0 - n ELSE n
  OBVIOUS
<1>5. held'[m][i][d] = held[m][i][d] + x
  <2>1. CASE o.reduce
    <3>1. held' = [held EXCEPT ![m][i][d] = held[m][i][d] - n]
      BY <2>1, <1>2 DEF Fill
    <3>2. held'[m][i][d] = held[m][i][d] - n
      BY <3>1 DEF BasketInv, HeldOK
    <3> QED BY <3>2, <2>1, <1>3, <1>4
  <2>2. CASE ~o.reduce
    <3>1. held' = [held EXCEPT ![m][i][d] = held[m][i][d] + n]
      BY <2>2, <1>2 DEF Fill
    <3>2. held'[m][i][d] = held[m][i][d] + n
      BY <3>1 DEF BasketInv, HeldOK
    <3> QED BY <3>2, <2>2, <1>3, <1>4
  <2> QED BY <2>1, <2>2
<1>6. \A c \in {"isolated", "cross"}, e \in {"long", "short"} :
        ~(c = m /\ e = d) => held'[c][i][e] = held[c][i][e]
  BY <1>2 DEF Fill, BasketInv, HeldOK
<1>7. Net(i)' = Net(i) + (IF d = "long" THEN x ELSE 0 - x)
  BY <1>3, <1>5, <1>6 DEF Net
<1>8. Effect(o) = IF d = "long" THEN x ELSE 0 - x
  BY <1>1, <1>2, <1>4 DEF Effect
<1> QED BY <1>2, <1>7, <1>8

\* A plan adds up to the delta it was made for, in at most one closing and one
\* opening order.
LEMMA PlanSums ==
  ASSUME NEW i, NEW c \in Int, NEW d \in Int
  PROVE  LET p == PlanDeltaOrders(i, c, d) IN
         \/ p = <<>> /\ d = 0
         \/ \E r \in BOOLEAN : p = <<Job(i, d, r)>>
         \/ \E x, y \in Int : p = <<Job(i, x, TRUE), Job(i, y, FALSE)>> /\ x + y = d
<1>1. \/ d = 0 /\ PlanDeltaOrders(i, c, d) = <<>>
      \/ \E r \in BOOLEAN : PlanDeltaOrders(i, c, d) = <<Job(i, d, r)>>
      \/ PlanDeltaOrders(i, c, d) = <<Job(i, -c, TRUE), Job(i, d + c, FALSE)>>
  BY PlanFits
<1>2. -c \in Int /\ d + c \in Int /\ -c + (d + c) = d
  OBVIOUS
<1> QED BY <1>1, <1>2

LEMMA PlannedNone ==
  ASSUME NEW i
  PROVE  Planned(<<>>, i) = 0 /\ \A r \in BOOLEAN : ~Plans(<<>>, i, r)
BY DEF Planned, Plans

LEMMA PlannedOne ==
  ASSUME NEW i, NEW j \in AnyJob
  PROVE  /\ Planned(<<j>>, i) = IF j.inst = i THEN j.qty ELSE 0
         /\ \A r \in BOOLEAN : Plans(<<j>>, i, r) <=> j.inst = i /\ j.reduce = r
<1>1. Len(<<j>>) = 1 /\ <<j>>[1] = j /\ Head(<<j>>) = j /\ <<j>> # <<>>
  OBVIOUS
<1>2. \A n \in 1..Len(<<j>>) : n = 1
  OBVIOUS
<1>3. 1 \in 1..Len(<<j>>)
  OBVIOUS
<1> DEFINE q == <<j>>
<1>4. Len(q) = 1 /\ q[1] = j /\ Head(q) = j /\ q # <<>> /\ 1 \in 1..Len(q)
      /\ \A n \in 1..Len(q) : n = 1
  BY <1>1, <1>2, <1>3
<1> HIDE DEF q
<1>5. Planned(q, i) = IF j.inst = i THEN j.qty ELSE 0
  BY <1>4 DEF Planned
<1>6. \A r \in BOOLEAN : Plans(q, i, r) <=> j.inst = i /\ j.reduce = r
  BY <1>4 DEF Plans
<1> QED BY <1>5, <1>6 DEF q

LEMMA PlannedTwo ==
  ASSUME NEW i, NEW j \in AnyJob, NEW k \in AnyJob, j.inst = k.inst
  PROVE  /\ Planned(<<j, k>>, i) = IF j.inst = i THEN j.qty + k.qty ELSE 0
         /\ \A r \in BOOLEAN :
              Plans(<<j, k>>, i, r) <=> j.inst = i /\ (j.reduce = r \/ k.reduce = r)
<1> DEFINE q == <<j, k>>
<1>1. Len(q) = 2 /\ q[1] = j /\ q[2] = k /\ Head(q) = j /\ q # <<>>
  OBVIOUS
<1>2. 1 \in 1..Len(q) /\ 2 \in 1..Len(q) /\ \A n \in 1..Len(q) : n = 1 \/ n = 2
  BY <1>1
<1> HIDE DEF q
<1>3. Planned(q, i) = IF j.inst = i THEN j.qty + k.qty ELSE 0
  BY <1>1 DEF Planned
<1>4. \A r \in BOOLEAN : Plans(q, i, r) <=> j.inst = i /\ (j.reduce = r \/ k.reduce = r)
  BY <1>1, <1>2 DEF Plans
<1> QED BY <1>3, <1>4 DEF q

LEMMA UnderSame ==
  ASSUME NEW i, {o \in inflight' : o.inst = i} = {o \in inflight : o.inst = i}, NEW r
  PROVE  Under(i, r)' = Under(i, r)
BY DEF Under

LEMMA UnderType ==
  ASSUME BasketInv, NEW i, NEW r
  PROVE  Under(i, r) \in SUBSET AnyOrder
BY DEF BasketInv, JobsOK, Under

LEMMA TargetOthers ==
  ASSUME TargetInv, NEW s \in Coroutines, Step(s), Elsewhere(s), NEW t \in Coroutines \ {s}
  PROVE  TargetOf(t)'
<1>1. /\ pc'[t] = pc[t] /\ work'[t] = work[t] /\ want'[t] = want[t] /\ todo'[t] = todo[t]
      /\ dropped'[t] = dropped[t] /\ rejected'[t] = rejected[t] /\ (complete'[t] => complete[t])
      /\ held' = held
  BY DEF Elsewhere
<1> SUFFICES ASSUME Kind[t] = "xsm", Engaged(t)', NEW i \in Universe[t], Private(t, i)'
             PROVE  OneOfEach(t, i)' /\ OnTheWay(t, i)'
  BY DEF TargetOf
<1>10. Private(t, i) /\ (i \notin Universe[s] \/ (pc[t] = "idle" /\ ~complete'[t]))
  BY AloneApart DEF TargetInv, LegsInv
<1>2. OneOfEach(t, i) /\ OnTheWay(t, i)
  BY <1>1, <1>10 DEF TargetInv, TargetOf, Engaged
<1>3. i \in Insts /\ i \notin Universe[s]
  BY <1>1, <1>10, BasketAssumption DEF Engaged
<1>4. \A r : Under(i, r)' = Under(i, r)
  BY <1>3, UnderSame DEF Elsewhere
<1>5. Under(i, TRUE)' = Under(i, TRUE) /\ Under(i, FALSE)' = Under(i, FALSE)
  BY <1>4
<1>6. OneOfEach(t, i)'
  BY <1>1, <1>2, <1>4 DEF OneOfEach
<1>7. Net(i)' = Net(i)
  BY <1>1 DEF Net
<1>8. (After(t, i)' => After(t, i)) /\ (Excused(t, i)' <=> Excused(t, i))
  BY <1>1 DEF After, Excused
<1>9. OnTheWay(t, i)'
  BY <1>1, <1>2, <1>5, <1>7, <1>8 DEF OnTheWay
<1> QED BY <1>6, <1>9

\* A step of s that neither submits nor plans.
LEMMA TargetFrame ==
  ASSUME TargetInv, NEW s \in Coroutines, todo' = todo, inflight' = inflight, held' = held,
         overlapped' = overlapped, Engaged(s),
         Kind[s] = "xsm" =>
           \A i \in Universe[s] : After(s, i)' =>
             After(s, i) /\ want'[s] = want[s] /\ (Excused(s, i) => Excused(s, i)')
  PROVE  TargetOf(s)'
<1> SUFFICES ASSUME Kind[s] = "xsm", NEW i \in Universe[s], Private(s, i)
             PROVE  OneOfEach(s, i)' /\ OnTheWay(s, i)'
  BY DEF TargetOf, Private
<1>1. OneOfEach(s, i) /\ OnTheWay(s, i)
  BY DEF TargetInv, TargetOf
<1>2. \A r : Under(i, r)' = Under(i, r)
  BY DEF Under
<1>3. Under(i, TRUE)' = Under(i, TRUE) /\ Under(i, FALSE)' = Under(i, FALSE)
  BY <1>2
<1>4. OneOfEach(s, i)'
  BY <1>1, <1>2 DEF OneOfEach
<1>5. Net(i)' = Net(i)
  BY DEF Net
<1>6. OnTheWay(s, i)'
  BY <1>1, <1>3, <1>5 DEF OnTheWay
<1> QED BY <1>4, <1>6

\* Nothing is under way on an instrument that the round has not come to.
LEMMA NothingUnder ==
  ASSUME LegsInv, NEW s \in Coroutines, Kind[s] = "xsm", NEW i \in Universe[s],
         Private(s, i), Before(s, i)
  PROVE  /\ \A r : Under(i, r) = {}
         /\ i \in Insts /\ Net(i) \in Int /\ delta[s][i] \in Int
         /\ Net(i) + delta[s][i] = want[s][i]
<1>1. i \in Insts
  BY BasketAssumption
<1>2. Net(i) \in Int /\ delta[s][i] \in Int
  BY <1>1, NetType DEF LegsInv, BasketInv, RoundOK
<1>3. delta[s][i] + Net(i) = want[s][i] /\ \A o \in inflight : o.inst # i
  BY DEF LegsInv, LegsOf, Untouched
<1>4. \A r : Under(i, r) = {}
  BY <1>3 DEF Under
<1> QED BY <1>1, <1>2, <1>3, <1>4

LEMMA ValidatedTarget ==
  ASSUME TargetInv, NEW s \in Coroutines, Validated(s)
  PROVE  TargetOf(s)'
<1>1. /\ pc[s] = "validate" /\ todo' = todo /\ inflight' = inflight /\ held' = held
      /\ want' = want /\ overlapped' = overlapped
  BY DEF Validated, roundVars, history
<1>2. /\ pc'[s] = "submit"
      /\ Kind[s] = "xsm" => work'[s] = {i \in Insts : delta[s][i] # 0}
  BY DEF Validated, TargetInv, LegsInv, BasketInv, ControlOK, WorkOK
<1> SUFFICES ASSUME Kind[s] = "xsm", NEW i \in Universe[s], Private(s, i)
             PROVE  OneOfEach(s, i)' /\ OnTheWay(s, i)'
  BY <1>1 DEF TargetOf, Private
<1>3. /\ \A r : Under(i, r) = {}
      /\ i \in Insts /\ Net(i) \in Int /\ delta[s][i] \in Int
      /\ Net(i) + delta[s][i] = want[s][i]
  BY <1>1, NothingUnder DEF TargetInv, Before
<1>4. \A r : Under(i, r)' = {}
  BY <1>1, <1>3 DEF Under
<1>5. todo'[s] = <<>>
  BY <1>1, NothingPlanned DEF TargetInv, LegsInv, LegsOf
<1>6. OneOfEach(s, i)'
  BY <1>4 DEF OneOfEach
<1>7. Net(i)' = Net(i)
  BY <1>1 DEF Net
<1>8. Under(i, TRUE)' = {} /\ Under(i, FALSE)' = {}
  BY <1>4
<1>9. OnTheWay(s, i)'
  <2> SUFFICES ASSUME After(s, i)'
               PROVE  (Net(i) + Moves({}) + Moves({}) + Planned(<<>>, i) = want[s][i])
    BY <1>1, <1>5, <1>7, <1>8 DEF OnTheWay
  <2>1. delta[s][i] = 0
    BY <1>2, <1>3 DEF After
  <2> QED BY <2>1, <1>3, MovesNone, PlannedNone
<1> QED BY <1>6, <1>9

LEMMA NextDeltaTarget ==
  ASSUME TargetInv, NEW s \in Coroutines, NextDelta(s)
  PROVE  TargetOf(s)'
<1>1. PICK h \in work[s] :
       /\ todo' = [todo EXCEPT ![s] = PlanDeltaOrders(h, Net(h), delta[s][h])]
       /\ work' = [work EXCEPT ![s] = @ \ {h}]
  BY DEF NextDelta
<1>2. /\ pc[s] = "submit" /\ pc' = pc /\ todo[s] = <<>> /\ Kind[s] = "xsm"
      /\ want' = want /\ held' = held /\ inflight' = inflight
      /\ dropped' = dropped /\ rejected' = rejected /\ overlapped' = overlapped
  BY DEF NextDelta, roundVars, history
<1>3. h \in Insts /\ h \in Universe[s]
  BY DEF TargetInv, LegsInv, BasketInv, WorkOK
<1>4. PICK c \in Int, d \in Int : c = Net(h) /\ d = delta[s][h]
  BY <1>3, NetType DEF TargetInv, LegsInv, BasketInv, RoundOK
<1>5. work'[s] = work[s] \ {h} /\ todo'[s] = PlanDeltaOrders(h, c, d)
  BY <1>1, <1>4 DEF TargetInv, LegsInv, BasketInv, WorkOK, JobsOK
<1>6. \A i : Planned(todo'[s], i) = (IF i = h THEN d ELSE 0)
             /\ (i # h => \A r \in BOOLEAN : ~Plans(todo'[s], i, r))
  <2>0. \A x \in Int, r \in BOOLEAN :
          /\ Job(h, x, r) \in AnyJob /\ Job(h, x, r).inst = h
          /\ Job(h, x, r).qty = x /\ Job(h, x, r).reduce = r
    BY <1>3 DEF Job, AnyJob
  <2>1. CASE todo'[s] = <<>> /\ d = 0
    BY <2>1, PlannedNone
  <2>2. ASSUME NEW r \in BOOLEAN, todo'[s] = <<Job(h, d, r)>>
        PROVE  \A i : Planned(todo'[s], i) = (IF i = h THEN d ELSE 0)
                      /\ (i # h => \A b \in BOOLEAN : ~Plans(todo'[s], i, b))
    BY <2>0, <2>2, PlannedOne
  <2>3. ASSUME NEW x \in Int, NEW y \in Int, x + y = d,
               todo'[s] = <<Job(h, x, TRUE), Job(h, y, FALSE)>>
        PROVE  \A i : Planned(todo'[s], i) = (IF i = h THEN d ELSE 0)
                      /\ (i # h => \A b \in BOOLEAN : ~Plans(todo'[s], i, b))
    <3> DEFINE j == Job(h, x, TRUE)
               k == Job(h, y, FALSE)
    <3>1. /\ j \in AnyJob /\ j.inst = h /\ j.qty = x
          /\ k \in AnyJob /\ k.inst = h /\ k.qty = y
      BY <2>0
    <3>2. todo'[s] = <<j, k>>
      BY <2>3
    <3> HIDE DEF j, k
    <3>3. \A i : /\ Planned(<<j, k>>, i) = IF j.inst = i THEN j.qty + k.qty ELSE 0
                 /\ \A r \in BOOLEAN :
                      Plans(<<j, k>>, i, r) <=> j.inst = i /\ (j.reduce = r \/ k.reduce = r)
      BY <3>1, PlannedTwo
    <3> QED BY <2>3, <3>1, <3>2, <3>3
  <2>4. \/ todo'[s] = <<>> /\ d = 0
        \/ \E r \in BOOLEAN : todo'[s] = <<Job(h, d, r)>>
        \/ \E x, y \in Int : todo'[s] = <<Job(h, x, TRUE), Job(h, y, FALSE)>> /\ x + y = d
    <3>1. LET p == PlanDeltaOrders(h, c, d) IN
          \/ p = <<>> /\ d = 0
          \/ \E r \in BOOLEAN : p = <<Job(h, d, r)>>
          \/ \E x, y \in Int : p = <<Job(h, x, TRUE), Job(h, y, FALSE)>> /\ x + y = d
      BY PlanSums
    <3> DEFINE p == PlanDeltaOrders(h, c, d)
    <3>2. todo'[s] = p
      BY <1>5
    <3>3. \/ p = <<>> /\ d = 0
          \/ \E r \in BOOLEAN : p = <<Job(h, d, r)>>
          \/ \E x, y \in Int : p = <<Job(h, x, TRUE), Job(h, y, FALSE)>> /\ x + y = d
      BY <3>1
    <3> HIDE DEF p
    <3> QED BY <3>2, <3>3, Zenon
  <2>5. CASE \E r \in BOOLEAN : todo'[s] = <<Job(h, d, r)>>
    BY <2>5, <2>2
  <2>6. CASE \E x, y \in Int : todo'[s] = <<Job(h, x, TRUE), Job(h, y, FALSE)>> /\ x + y = d
    BY <2>6, <2>3
  <2> QED BY <2>1, <2>4, <2>5, <2>6
<1> SUFFICES ASSUME NEW i \in Universe[s], Private(s, i)
             PROVE  OneOfEach(s, i)' /\ OnTheWay(s, i)'
  BY <1>2 DEF TargetOf, Private
<1>7. OneOfEach(s, i) /\ OnTheWay(s, i)
  BY <1>2 DEF TargetInv, TargetOf, Engaged
<1>8. \A r : Under(i, r)' = Under(i, r)
  BY <1>2 DEF Under
<1>9. Under(i, TRUE)' = Under(i, TRUE) /\ Under(i, FALSE)' = Under(i, FALSE)
  BY <1>8
<1>10. Net(i)' = Net(i)
  BY <1>2 DEF Net
<1>11. CASE i = h
  <2>1. /\ \A r : Under(i, r) = {}
        /\ Net(i) \in Int /\ Net(i) + d = want[s][i]
    BY <1>2, <1>4, <1>11, NothingUnder DEF TargetInv, Before
  <2>2. OneOfEach(s, i)'
    BY <2>1, <1>8 DEF OneOfEach
  <2>3. Under(i, TRUE) = {} /\ Under(i, FALSE) = {}
    BY <2>1
  <2>4. Planned(todo'[s], i) = d
    BY <1>6, <1>11
  <2>5. Net(i)' + Moves(Under(i, TRUE))' + Moves(Under(i, FALSE))' + Planned(todo'[s], i) = want[s][i]
    <3>1. Moves(Under(i, TRUE))' = 0 /\ Moves(Under(i, FALSE))' = 0
      BY <2>3, <1>9, MovesNone
    <3>2. PICK n \in Int : n = Net(i)
      BY <2>1
    <3>3. Net(i)' = n /\ n + d = want[s][i]
      BY <3>2, <2>1, <1>10
    <3>4. n + 0 + 0 + d = want[s][i]
      BY <3>3
    <3> QED BY <3>1, <3>3, <3>4, <2>4
  <2> QED BY <2>2, <2>5, <1>2 DEF OnTheWay
<1>12. CASE i # h
  <2>1. Planned(todo'[s], i) = 0 /\ \A r \in BOOLEAN : ~Plans(todo'[s], i, r)
    BY <1>6, <1>12
  <2>2. OneOfEach(s, i)'
    BY <2>1, <1>7, <1>8 DEF OneOfEach
  <2>3. Planned(todo[s], i) = 0
    BY <1>2, PlannedNone
  <2>4. After(s, i)' => After(s, i)
    BY <1>2, <1>5, <1>12 DEF After
  <2>5. Excused(s, i)' <=> Excused(s, i)
    BY <1>2 DEF Excused
  <2>6. OnTheWay(s, i)'
    BY <1>2, <1>7, <1>9, <1>10, <2>1, <2>3, <2>4, <2>5 DEF OnTheWay
  <2> QED BY <2>2, <2>6
<1> QED BY <1>11, <1>12

\* The list of xsm without its first order.
LEMMA TailPlanned ==
  ASSUME LegsInv, NEW s \in Coroutines, todo[s] # <<>>, todo' = [todo EXCEPT ![s] = Tail(@)]
  PROVE  \E j \in AnyJob :
           /\ j = Head(todo[s])
           /\ Plans(todo[s], j.inst, j.reduce)
           /\ \A i : /\ Planned(todo[s], i) \in Int
                     /\ Planned(todo'[s], i) = Planned(todo[s], i) - (IF j.inst = i THEN j.qty ELSE 0)
                     /\ \A r \in BOOLEAN : Plans(todo'[s], i, r) =>
                          Plans(todo[s], i, r) /\ j.inst = i /\ r # j.reduce
<1>1. todo'[s] = Tail(todo[s])
  BY DEF LegsInv, BasketInv, JobsOK
<1>2. ASSUME NEW j \in Jobs(s), todo[s] = <<j>>
      PROVE  /\ j \in AnyJob /\ j = Head(todo[s])
             /\ Plans(todo[s], j.inst, j.reduce)
             /\ \A i : /\ Planned(todo[s], i) \in Int
                       /\ Planned(todo'[s], i) = Planned(todo[s], i) - (IF j.inst = i THEN j.qty ELSE 0)
                       /\ \A r \in BOOLEAN : ~Plans(todo'[s], i, r)
  <2>1. j \in AnyJob /\ j.qty \in Int /\ j.reduce \in BOOLEAN
    BY DEF Jobs, AnyJob
  <2>2. j = Head(todo[s]) /\ todo'[s] = <<>>
    BY <1>1, <1>2
  <2>3. \A i : /\ Planned(todo[s], i) = IF j.inst = i THEN j.qty ELSE 0
               /\ \A r \in BOOLEAN : Plans(todo[s], i, r) <=> j.inst = i /\ j.reduce = r
    <3>1. \A i : /\ Planned(<<j>>, i) = IF j.inst = i THEN j.qty ELSE 0
                 /\ \A r \in BOOLEAN : Plans(<<j>>, i, r) <=> j.inst = i /\ j.reduce = r
      BY <2>1, PlannedOne
    <3> QED BY <3>1, <1>2
  <2>4. \A i : Planned(todo'[s], i) = 0 /\ \A r \in BOOLEAN : ~Plans(todo'[s], i, r)
    BY <2>2, PlannedNone
  <2> QED BY <2>1, <2>2, <2>3, <2>4
<1>3. ASSUME NEW j \in Jobs(s), NEW k \in Jobs(s), todo[s] = <<j, k>>, j.inst = k.inst,
             j.reduce, ~k.reduce
      PROVE  /\ j \in AnyJob /\ j = Head(todo[s])
             /\ Plans(todo[s], j.inst, j.reduce)
             /\ \A i : /\ Planned(todo[s], i) \in Int
                       /\ Planned(todo'[s], i) = Planned(todo[s], i) - (IF j.inst = i THEN j.qty ELSE 0)
                       /\ \A r \in BOOLEAN : Plans(todo'[s], i, r) =>
                            Plans(todo[s], i, r) /\ j.inst = i /\ r # j.reduce
  <2>1. /\ j \in AnyJob /\ j.qty \in Int /\ j.reduce = TRUE
        /\ k \in AnyJob /\ k.qty \in Int /\ k.reduce = FALSE
    BY <1>3 DEF Jobs, AnyJob
  <2>2. j = Head(todo[s]) /\ todo'[s] = <<k>>
    BY <1>1, <1>3
  <2>3. \A i : /\ Planned(todo[s], i) = IF j.inst = i THEN j.qty + k.qty ELSE 0
               /\ \A r \in BOOLEAN :
                    Plans(todo[s], i, r) <=> j.inst = i /\ (j.reduce = r \/ k.reduce = r)
    <3>1. \A i : /\ Planned(<<j, k>>, i) = IF j.inst = i THEN j.qty + k.qty ELSE 0
                 /\ \A r \in BOOLEAN :
                      Plans(<<j, k>>, i, r) <=> j.inst = i /\ (j.reduce = r \/ k.reduce = r)
      <4>1. j.inst = k.inst
        BY <1>3
      <4> QED BY <4>1, <2>1, PlannedTwo
    <3> QED BY <3>1, <1>3
  <2>4. \A i : /\ Planned(todo'[s], i) = IF k.inst = i THEN k.qty ELSE 0
               /\ \A r \in BOOLEAN : Plans(todo'[s], i, r) <=> k.inst = i /\ k.reduce = r
    <3>1. \A i : /\ Planned(<<k>>, i) = IF k.inst = i THEN k.qty ELSE 0
                 /\ \A r \in BOOLEAN : Plans(<<k>>, i, r) <=> k.inst = i /\ k.reduce = r
      BY <2>1, PlannedOne
    <3> QED BY <3>1, <2>2
  <2>5. \A i : /\ Planned(todo[s], i) \in Int
               /\ Planned(todo'[s], i) = Planned(todo[s], i) - (IF j.inst = i THEN j.qty ELSE 0)
    BY <1>3, <2>1, <2>3, <2>4
  <2>6. \A i : \A r \in BOOLEAN : Plans(todo'[s], i, r) =>
          Plans(todo[s], i, r) /\ j.inst = i /\ r # j.reduce
    BY <1>3, <2>1, <2>3, <2>4
  <2> QED BY <2>1, <2>2, <2>3, <2>5, <2>6
<1> QED BY <1>2, <1>3 DEF LegsInv, LegsOf, JobsFit

\* The order at hand leaves: what was planned is under way.
LEMMA LaunchTarget ==
  ASSUME TargetInv, NEW s \in Coroutines, todo[s] # <<>>, Launch(s),
         pc' = pc, work' = work, want' = want, held' = held,
         complete' = complete, dropped' = dropped, rejected' = rejected,
         overlapped' = overlapped, pc[s] # "idle"
  PROVE  TargetOf(s)'
<1> SUFFICES ASSUME Kind[s] = "xsm", NEW i \in Universe[s], Private(s, i)
             PROVE  OneOfEach(s, i)' /\ OnTheWay(s, i)'
  BY DEF TargetOf, Private
<1>1. PICK j \in AnyJob :
       /\ j = Head(todo[s])
       /\ Plans(todo[s], j.inst, j.reduce)
       /\ \A h : /\ Planned(todo[s], h) \in Int
                 /\ Planned(todo'[s], h) = Planned(todo[s], h) - (IF j.inst = h THEN j.qty ELSE 0)
                 /\ \A r \in BOOLEAN : Plans(todo'[s], h, r) =>
                      Plans(todo[s], h, r) /\ j.inst = h /\ r # j.reduce
  BY TailPlanned DEF Launch, TargetInv
<1>2. j.qty \in Int /\ j.reduce \in BOOLEAN /\ i \in Insts
  BY BasketAssumption DEF AnyJob
<1>3. PICK o : o = Order(s, j.inst, j.qty, j.reduce, "isolated")
  OBVIOUS
<1>4. Effect(o) = j.qty /\ o.inst = j.inst /\ o.reduce = j.reduce
  <2>1. Effect(Order(s, j.inst, j.qty, j.reduce, "isolated")) = j.qty
    BY <1>2, OrderEffect
  <2>2. /\ Order(s, j.inst, j.qty, j.reduce, "isolated").inst = j.inst
        /\ Order(s, j.inst, j.qty, j.reduce, "isolated").reduce = j.reduce
    BY DEF Order
  <2> QED BY <1>3, <2>1, <2>2
<1>5. inflight' = inflight \union {o}
  BY <1>1, <1>3 DEF Launch
<1>6. OneOfEach(s, i) /\ OnTheWay(s, i)
  BY DEF TargetInv, TargetOf, Engaged
<1>7. Net(i)' = Net(i) /\ Net(i) \in Int
  BY <1>2, NetType DEF Net, TargetInv, LegsInv, BasketInv
<1>8. (After(s, i)' <=> After(s, i)) /\ (Excused(s, i)' <=> Excused(s, i))
  BY DEF After, Excused
<1>9. CASE i # j.inst
  <2>1. \A r : Under(i, r)' = Under(i, r)
    BY <1>4, <1>5, <1>9 DEF Under
  <2>2. Under(i, TRUE)' = Under(i, TRUE) /\ Under(i, FALSE)' = Under(i, FALSE)
    BY <2>1
  <2>6. \A r \in BOOLEAN : ~Plans(todo'[s], i, r)
    BY <1>1, <1>9
  <2>7. /\ Planned(todo[s], i) \in Int
        /\ Planned(todo'[s], i) = Planned(todo[s], i) - 0
    BY <1>1, <1>9
  <2>3. Planned(todo'[s], i) = Planned(todo[s], i) /\ \A r \in BOOLEAN : ~Plans(todo'[s], i, r)
    BY <2>6, <2>7
  <2>4. OneOfEach(s, i)'
    BY <1>6, <2>1, <2>3 DEF OneOfEach
  <2>5. OnTheWay(s, i)'
    BY <1>6, <1>7, <1>8, <2>2, <2>3 DEF OnTheWay
  <2> QED BY <2>4, <2>5
<1>10. CASE i = j.inst
  <2>1. Under(i, j.reduce) = {}
    BY <1>1, <1>2, <1>6, <1>10 DEF OneOfEach
  <2>2. Under(i, j.reduce)' = {o}
    BY <1>4, <1>5, <1>10, <2>1 DEF Under
  <2>3. \A r \in BOOLEAN : r # j.reduce => Under(i, r)' = Under(i, r)
    BY <1>4, <1>5 DEF Under
  <2>4. OneOfEach(s, i)'
    <3> SUFFICES ASSUME NEW r \in BOOLEAN
                 PROVE  /\ \A p, q \in Under(i, r)' : p = q
                        /\ Plans(todo'[s], i, r) => Under(i, r)' = {}
      BY DEF OneOfEach
    <3>1. CASE r = j.reduce
      BY <3>1, <2>2, <1>1
    <3>2. CASE r # j.reduce
      BY <3>2, <2>3, <1>1, <1>6 DEF OneOfEach
    <3> QED BY <3>1, <3>2
  <2>5. PICK n \in Int, a \in Int, b \in Int, p \in Int :
          /\ n = Net(i) /\ p = Planned(todo[s], i)
          /\ a = Moves(Under(i, TRUE)) /\ b = Moves(Under(i, FALSE))
    BY <1>1, <1>7, MovesType, UnderType DEF TargetInv, LegsInv
  <2>6. Moves({o}) = j.qty
    <3>1. PICK S : S = {o}
      OBVIOUS
    <3>2. o \in S /\ \A x \in S : x = o
      BY <3>1
    <3>3. Moves(S) = Effect(o)
      BY <3>2, MovesOne
    <3> QED BY <3>1, <3>3, <1>4
  <2>7. /\ j.reduce = TRUE =>
             Moves(Under(i, TRUE)') = a + j.qty /\ Moves(Under(i, FALSE)') = b
        /\ j.reduce = FALSE =>
             Moves(Under(i, TRUE)') = a /\ Moves(Under(i, FALSE)') = b + j.qty
    <3>1. ASSUME j.reduce = TRUE
          PROVE  Moves(Under(i, TRUE)') = a + j.qty /\ Moves(Under(i, FALSE)') = b
      <4>1. a = 0 /\ Under(i, TRUE)' = {o} /\ Under(i, FALSE)' = Under(i, FALSE)
        BY <3>1, <2>1, <2>2, <2>3, <2>5, MovesNone
      <4>2. Moves(Under(i, TRUE)') = j.qty /\ Moves(Under(i, FALSE)') = b
        BY <4>1, <2>5, <2>6
      <4>3. a + j.qty = j.qty
        BY <4>1, <1>2
      <4> QED BY <4>2, <4>3
    <3>2. ASSUME j.reduce = FALSE
          PROVE  Moves(Under(i, TRUE)') = a /\ Moves(Under(i, FALSE)') = b + j.qty
      <4>1. b = 0 /\ Under(i, FALSE)' = {o} /\ Under(i, TRUE)' = Under(i, TRUE)
        BY <3>2, <2>1, <2>2, <2>3, <2>5, MovesNone
      <4>2. Moves(Under(i, FALSE)') = j.qty /\ Moves(Under(i, TRUE)') = a
        BY <4>1, <2>5, <2>6
      <4>3. b + j.qty = j.qty
        BY <4>1, <1>2
      <4> QED BY <4>2, <4>3
    <3> QED BY <3>1, <3>2
  <2>8. Planned(todo'[s], i) = p - j.qty
    BY <1>1, <1>10, <2>5
  <2>9. OnTheWay(s, i)'
    <3> SUFFICES ASSUME After(s, i), ~Excused(s, i)
                 PROVE  n + Moves(Under(i, TRUE)') + Moves(Under(i, FALSE)')
                          + Planned(todo'[s], i) = want[s][i]
      BY <1>7, <1>8, <2>5 DEF OnTheWay
    <3>1. n + a + b + p = want[s][i]
      BY <1>6, <2>5 DEF OnTheWay
    <3>2. n + (a + j.qty) + b + (p - j.qty) = n + a + b + p
          /\ n + a + (b + j.qty) + (p - j.qty) = n + a + b + p
      BY <1>2
    <3>3. CASE j.reduce = TRUE
      BY <3>1, <3>2, <3>3, <2>7, <2>8
    <3>4. CASE j.reduce = FALSE
      BY <3>1, <3>2, <3>4, <2>7, <2>8
    <3> QED BY <3>3, <3>4, <1>2
  <2> QED BY <2>4, <2>9
<1> QED BY <1>9, <1>10

LEMMA OrderAnsweredTarget ==
  ASSUME TargetInv, NEW s \in Coroutines, OrderAnswered(s)
  PROVE  TargetOf(s)'
<1>1. /\ pc[s] = "submit" /\ pc' = pc /\ work' = work /\ want' = want /\ held' = held
      /\ rejected' = rejected /\ complete' = complete /\ overlapped' = overlapped
  BY DEF OrderAnswered, roundVars
<1>2. todo[s] # <<>>
  BY <1>1 DEF OrderAnswered, Ensured, Denied, Idle, TargetInv, LegsInv, BasketInv, AwaitOK
<1>3. CASE Launch(s) /\ dropped' = dropped
  BY <1>1, <1>2, <1>3, LaunchTarget
<1>4. CASE /\ todo' = [todo EXCEPT ![s] = Tail(@)] /\ UNCHANGED <<book, inflight>>
           /\ dropped' = IF Kind[s] = "fp" THEN dropped ELSE
                [dropped EXCEPT ![s] = @ \union {[job |-> Head(todo[s]), key |-> call[s].key]}]
  <2> SUFFICES ASSUME Kind[s] = "xsm", NEW i \in Universe[s], Private(s, i)
               PROVE  OneOfEach(s, i)' /\ OnTheWay(s, i)'
    BY <1>1 DEF TargetOf, Private
  <2>1. PICK j \in AnyJob :
         /\ j = Head(todo[s])
         /\ Plans(todo[s], j.inst, j.reduce)
         /\ \A h : /\ Planned(todo[s], h) \in Int
                   /\ Planned(todo'[s], h) = Planned(todo[s], h) - (IF j.inst = h THEN j.qty ELSE 0)
                   /\ \A r \in BOOLEAN : Plans(todo'[s], h, r) =>
                        Plans(todo[s], h, r) /\ j.inst = h /\ r # j.reduce
    BY <1>2, <1>4, TailPlanned DEF TargetInv
  <2>2. OneOfEach(s, i) /\ OnTheWay(s, i)
    BY <1>1 DEF TargetInv, TargetOf, Engaged
  <2>3. \A r : Under(i, r)' = Under(i, r)
    BY <1>4 DEF Under
  <2>4. Under(i, TRUE)' = Under(i, TRUE) /\ Under(i, FALSE)' = Under(i, FALSE)
    BY <2>3
  <2>5. OneOfEach(s, i)'
    BY <2>1, <2>2, <2>3 DEF OneOfEach
  <2>6. PICK d : d.job = j /\ dropped'[s] = dropped[s] \union {d}
    <3>1. dropped'[s] = dropped[s] \union {[job |-> j, key |-> call[s].key]}
      BY <1>4, <2>1 DEF TargetInv, LegsInv, HistoryOK
    <3> QED BY <3>1
  <2>7. Excused(s, i) => Excused(s, i)'
    BY <1>1, <2>6 DEF Excused
  <2>8. i = j.inst => Excused(s, i)'
    BY <2>6 DEF Excused
  <2>9. i # j.inst => Planned(todo'[s], i) = Planned(todo[s], i)
    BY <2>1
  <2>10. Net(i)' = Net(i)
    BY <1>1 DEF Net
  <2>11. After(s, i)' <=> After(s, i)
    BY <1>1 DEF After
  <2>12. OnTheWay(s, i)'
    BY <1>1, <2>2, <2>4, <2>7, <2>8, <2>9, <2>10, <2>11 DEF OnTheWay
  <2> QED BY <2>5, <2>12
<1> QED BY <1>3, <1>4 DEF OrderAnswered

LEMMA SettleTarget ==
  ASSUME TargetInv, NEW o \in inflight, Fill(o) \/ Reject(o), NEW s \in Coroutines
  PROVE  TargetOf(s)'
<1>1. /\ pc' = pc /\ work' = work /\ want' = want /\ todo' = todo /\ dropped' = dropped
      /\ complete' = complete /\ overlapped' = overlapped /\ inflight' = inflight \ {o}
  BY DEF Fill, Reject, roundVars, history
<1> SUFFICES ASSUME Kind[s] = "xsm", Engaged(s), NEW i \in Universe[s], Private(s, i)
             PROVE  OneOfEach(s, i)' /\ OnTheWay(s, i)'
  BY <1>1 DEF TargetOf, Private, Engaged
<1>2. OneOfEach(s, i) /\ OnTheWay(s, i)
  BY DEF TargetInv, TargetOf
<1>3. o.by \in Coroutines /\ o.inst \in Insts /\ o.reduce \in BOOLEAN /\ i \in Insts
      /\ o \in AnyOrder
  BY BasketAssumption DEF TargetInv, LegsInv, BasketInv, JobsOK, AnyOrder
<1>4. \A r : Under(i, r)' \subseteq Under(i, r)
  BY <1>1 DEF Under
<1>5. OneOfEach(s, i)'
  BY <1>1, <1>2, <1>4 DEF OneOfEach
<1>6. After(s, i)' <=> After(s, i)
  BY <1>1 DEF After
<1>7. Excused(s, i) => Excused(s, i)'
  <2>1. rejected[s] \subseteq rejected'[s]
    BY <1>3 DEF Fill, Reject, history, TargetInv, LegsInv, HistoryOK
  <2> QED BY <1>1, <2>1 DEF Excused
<1>8. CASE i # o.inst
  <2>1. Net(i)' = Net(i)
        /\ {p \in inflight' : p.inst = i} = {p \in inflight : p.inst = i}
    BY <1>3, <1>8, SettleElsewhere DEF TargetInv, LegsInv
  <2>2. \A r : Under(i, r)' = Under(i, r)
    BY <2>1, UnderSame
  <2>3. Under(i, TRUE)' = Under(i, TRUE) /\ Under(i, FALSE)' = Under(i, FALSE)
    BY <2>2
  <2>4. OnTheWay(s, i)'
    BY <1>1, <1>2, <1>6, <1>7, <2>1, <2>3 DEF OnTheWay
  <2> QED BY <1>5, <2>4
<1>9. CASE i = o.inst /\ Reject(o)
  <2>1. o.by = s
    <3>1. i \in Universe[o.by]
      BY <1>9 DEF TargetInv, LegsInv, Within
    <3>2. o.by \in Family(s) /\ ~overlapped[s]
      BY <3>1, <1>3 DEF Private
    <3>3. o.by # s => Settled(o.by)
      BY <3>2 DEF TargetInv, LegsInv, Sole, Engaged, Settled
    <3> QED BY <3>3 DEF Settled
  <2>2. i \in rejected'[s]
    BY <1>9, <2>1 DEF Reject, TargetInv, LegsInv, HistoryOK
  <2> QED BY <1>5, <2>2 DEF OnTheWay, Excused
<1>10. CASE i = o.inst /\ Fill(o)
  <2>1. PICK r \in BOOLEAN : r = o.reduce
    BY <1>3
  <2>2. o \in Under(i, r) /\ \A p \in Under(i, r) : p = o
    BY <1>2, <1>10, <2>1 DEF Under, OneOfEach
  <2>3. Under(i, r)' = {}
    BY <1>1, <2>2 DEF Under
  <2>4. \A b \in BOOLEAN : b # r => Under(i, b)' = Under(i, b)
    BY <1>1, <2>1 DEF Under
  <2>5. Net(i)' = Net(i) + Effect(o)
    BY <1>10, FillMoves DEF TargetInv, LegsInv
  <2>6. PICK e \in Int, n \in Int, x \in Int, y \in Int :
          /\ e = Effect(o) /\ n = Net(i)
          /\ x = Moves(Under(i, TRUE)) /\ y = Moves(Under(i, FALSE))
    BY <1>3, EffectType, NetType, MovesType, UnderType DEF TargetInv, LegsInv, BasketInv
  <2>7. Moves(Under(i, r)) = e
    BY <2>2, <2>6, MovesOne
  <2>8. Net(i)' + Moves(Under(i, TRUE)') + Moves(Under(i, FALSE)') = n + x + y
    <3>1. CASE r = TRUE
      <4>1. x = e /\ Under(i, TRUE)' = {} /\ Under(i, FALSE)' = Under(i, FALSE)
        BY <3>1, <2>3, <2>4, <2>6, <2>7
      <4>2. Moves(Under(i, TRUE)') = 0 /\ Moves(Under(i, FALSE)') = y /\ Net(i)' = n + e
        BY <4>1, <2>5, <2>6, MovesNone
      <4>3. (n + e) + 0 + y = n + x + y
        BY <4>1
      <4> QED BY <4>2, <4>3
    <3>2. CASE r = FALSE
      <4>1. y = e /\ Under(i, FALSE)' = {} /\ Under(i, TRUE)' = Under(i, TRUE)
        BY <3>2, <2>3, <2>4, <2>6, <2>7
      <4>2. Moves(Under(i, FALSE)') = 0 /\ Moves(Under(i, TRUE)') = x /\ Net(i)' = n + e
        BY <4>1, <2>5, <2>6, MovesNone
      <4>3. (n + e) + x + 0 = n + x + y
        BY <4>1
      <4> QED BY <4>2, <4>3
    <3> QED BY <3>1, <3>2
  <2>9. OnTheWay(s, i)'
    <3> SUFFICES ASSUME After(s, i), ~Excused(s, i)
                 PROVE  Net(i)' + Moves(Under(i, TRUE)') + Moves(Under(i, FALSE)')
                          + Planned(todo[s], i) = want[s][i]
      BY <1>1, <1>6, <1>7 DEF OnTheWay
    <3>1. n + x + y + Planned(todo[s], i) = want[s][i]
      BY <1>2, <2>6 DEF OnTheWay
    <3> QED BY <3>1, <2>8
  <2> QED BY <1>5, <2>9
<1> QED BY <1>8, <1>9, <1>10

LEMMA StepTarget ==
  ASSUME TargetInv, NEW s \in Coroutines, Step(s)
  PROVE  TargetOf(s)'
<1> USE DEF roundVars, history
<1>13. Resume(s) \/ OkxLeverage(s) => Engaged(s) /\ overlapped' = overlapped
  <2>1. Resume(s) => pc[s] # "idle"
    BY DEF Resume, ModeKnown, ValidateLeg, LegValidated, Abort, Validated, NextDelta,
       NextOpen, SubmitOrder, OrderAnswered, Finish
  <2>2. OkxLeverage(s) => pc[s] # "idle"
    BY DEF OkxLeverage, OkxSets, TargetInv, LegsInv, BasketInv, AwaitOK
  <2> QED BY <2>1, <2>2, RunsUnsettled DEF Engaged, TargetInv, LegsInv
<1>1. CASE BeginMomentum(s)
  <2>1. pc'[s] = "mode"
    BY <1>1 DEF BeginMomentum, TargetInv, LegsInv, BasketInv, ControlOK
  <2>2. todo' = todo /\ inflight' = inflight /\ held' = held
    BY <1>1 DEF BeginMomentum, Begin
  <2>3. \A i : ~After(s, i)'
    BY <2>1 DEF After
  <2>4. LegsOf(s)'
    BY <1>1, BeginMomentumLegs DEF TargetInv
  <2> SUFFICES ASSUME Kind[s] = "xsm", NEW i \in Universe[s], Private(s, i)'
               PROVE  OneOfEach(s, i)' /\ OnTheWay(s, i)'
    BY DEF TargetOf
  <2>5. \A o \in inflight' : o.inst # i
    BY <2>1, <2>4 DEF LegsOf, Untouched, Before
  <2>6. \A r : Under(i, r)' = {}
    BY <2>5 DEF Under
  <2>7. OneOfEach(s, i)'
    BY <2>6 DEF OneOfEach
  <2> QED BY <2>3, <2>7 DEF OnTheWay
<1>2. CASE BeginDiff(s)
  BY <1>2 DEF BeginDiff, TargetOf
<1>3. CASE ModeKnown(s)
  <2>1. Kind[s] = "xsm" => pc'[s] = "validate"
    BY <1>3 DEF ModeKnown, TargetInv, LegsInv, BasketInv, ControlOK
  <2>2. Kind[s] = "xsm" => \A i : ~After(s, i)'
    BY <2>1 DEF After
  <2>3. todo' = todo /\ inflight' = inflight /\ held' = held
    BY <1>3 DEF ModeKnown
  <2> QED BY <2>2, <2>3, <1>3, <1>13, TargetFrame DEF Resume
<1>4. CASE ValidateLeg(s) \/ LegValidated(s)
  <2>1. pc'[s] = "validate" /\ todo' = todo /\ inflight' = inflight /\ held' = held
    BY <1>4 DEF ValidateLeg, LegValidated
  <2>2. \A i : ~After(s, i)'
    BY <2>1 DEF After
  <2> QED BY <2>1, <2>2, <1>4, <1>13, TargetFrame DEF Resume
<1>5. CASE Abort(s)
  <2>1. pc'[s] = "idle" /\ complete'[s] = FALSE
    BY <1>5 DEF Abort, Return, TargetInv, LegsInv, BasketInv, ControlOK
  <2>2. todo' = todo /\ inflight' = inflight /\ held' = held
    BY <1>5 DEF Abort, Return
  <2>3. \A i : ~After(s, i)'
    BY <2>1 DEF After
  <2> QED BY <2>2, <2>3, <1>5, <1>13, TargetFrame DEF Resume
<1>6. CASE Validated(s)
  BY <1>6, ValidatedTarget
<1>7. CASE NextDelta(s)
  BY <1>7, NextDeltaTarget
<1>8. CASE NextOpen(s)
  BY <1>8 DEF NextOpen, TargetOf
<1>9. CASE SubmitOrder(s)
  <2>1. /\ todo[s] # <<>> /\ pc[s] # "idle" /\ overlapped' = overlapped
        /\ pc' = pc /\ work' = work /\ want' = want /\ held' = held
        /\ complete' = complete /\ dropped' = dropped /\ rejected' = rejected
        /\ Launch(s) \/ UNCHANGED <<todo, book, inflight>>
    BY <1>9 DEF SubmitOrder
  <2>2. CASE Launch(s)
    BY <2>1, <2>2, LaunchTarget
  <2>3. CASE UNCHANGED <<todo, book, inflight>>
    <3>1. \A i : After(s, i)' => After(s, i) /\ want'[s] = want[s]
                                 /\ (Excused(s, i) => Excused(s, i)')
      BY <2>1 DEF After, Excused
    <3> QED BY <2>1, <2>3, <3>1, <1>9, <1>13, TargetFrame DEF Resume
  <2> QED BY <2>1, <2>2, <2>3
<1>10. CASE OrderAnswered(s)
  BY <1>10, OrderAnsweredTarget
<1>11. CASE Finish(s)
  <2>1. /\ pc[s] = "submit" /\ work[s] = {} /\ todo' = todo /\ inflight' = inflight
        /\ held' = held /\ dropped' = dropped /\ rejected' = rejected
        /\ Kind[s] = "xsm" => want' = want
    BY <1>11 DEF Finish, Return
  <2>2. Kind[s] = "xsm" =>
          \A i : After(s, i) /\ want'[s] = want[s] /\ (Excused(s, i) => Excused(s, i)')
    BY <2>1 DEF After, Excused
  <2> QED BY <2>1, <2>2, <1>11, <1>13, TargetFrame DEF Resume
<1>12. CASE OkxLeverage(s)
  <2>1. /\ pc' = pc /\ work' = work /\ complete' = complete /\ want' = want
        /\ todo' = todo /\ inflight' = inflight /\ held' = held
        /\ dropped' = dropped /\ rejected' = rejected
    BY <1>12 DEF OkxLeverage
  <2>2. \A i : After(s, i)' => After(s, i) /\ want'[s] = want[s]
                               /\ (Excused(s, i) => Excused(s, i)')
    BY <2>1 DEF After, Excused
  <2> QED BY <2>1, <2>2, <1>12, <1>13, TargetFrame DEF Resume
<1> QED BY <1>1, <1>2, <1>3, <1>4, <1>5, <1>6, <1>7, <1>8, <1>9, <1>10, <1>11, <1>12
        DEF Step, Resume

LEMMA InitTarget == Init => TargetInv
<1> SUFFICES ASSUME Init PROVE TargetInv
  OBVIOUS
<1>1. ASSUME NEW s \in Coroutines, NEW i PROVE OneOfEach(s, i) /\ OnTheWay(s, i)
  <2>1. pc[s] = "idle" /\ ~complete[s] /\ inflight = {}
    BY DEF Init
  <2> QED BY <2>1 DEF OneOfEach, OnTheWay, After, Under
<1> QED BY <1>1, InitLegs DEF TargetInv, TargetOf

LEMMA TargetStep == TargetInv /\ [Next]_vars => TargetInv'
<1> SUFFICES ASSUME TargetInv, [Next]_vars PROVE TargetInv'
  OBVIOUS
<1>1. LegsInv'
  BY LegsStep DEF TargetInv
<1>2. ASSUME NEW s \in Coroutines, Step(s), NEW t \in Coroutines
      PROVE  TargetOf(t)'
  <2>1. CASE t = s
    BY <1>2, <2>1, StepTarget
  <2>2. CASE t # s
    <3>1. Elsewhere(s)
      BY <1>2, StepElsewhere DEF TargetInv, LegsInv, LegsOf
    <3> QED BY <1>2, <2>2, <3>1, TargetOthers
  <2> QED BY <2>1, <2>2
<1>3. ASSUME NEW o \in inflight, Fill(o) \/ Reject(o), NEW t \in Coroutines
      PROVE  TargetOf(t)'
  BY <1>3, SettleTarget
<1>4. ASSUME UNCHANGED vars, NEW t \in Coroutines
      PROVE  TargetOf(t)'
  <2>1. /\ pc' = pc /\ work' = work /\ complete' = complete /\ want' = want
        /\ todo' = todo /\ inflight' = inflight /\ held' = held
        /\ dropped' = dropped /\ rejected' = rejected /\ overlapped' = overlapped
    BY <1>4 DEF vars
  <2>2. \A i : After(t, i)' => After(t, i) /\ want'[t] = want[t]
                               /\ (Excused(t, i) => Excused(t, i)')
    BY <2>1 DEF After, Excused
  <2>3. Engaged(t)' <=> Engaged(t)
    BY <2>1 DEF Engaged
  <2>4. CASE Engaged(t)
    BY <2>1, <2>2, <2>4, TargetFrame
  <2>5. CASE ~Engaged(t)
    BY <2>3, <2>5 DEF TargetOf
  <2> QED BY <2>4, <2>5
<1>5. \A t \in Coroutines : TargetOf(t)'
  BY <1>2, <1>3, <1>4 DEF Next, Step
<1> QED BY <1>1, <1>5 DEF TargetInv

\* A complete round of xsm brings the account to its target wherever no other
\* strategy trades, no round of its own overlapped it and no order of the round
\* was given up or rejected, for any number of coroutines, targets of any size
\* and from any position: the deltas computed before the
\* first await, the plan made after the last one and the sides of the orders
\* fit together.
THEOREM TargetIsReached == Spec => []RoundReachesTarget
<1>1. TargetInv => RoundReachesTarget
  <2> SUFFICES ASSUME TargetInv, NEW s \in Coroutines, Kind[s] = "xsm", complete[s], Settled(s),
                      NEW i \in Universe[s], Private(s, i), ~Excused(s, i)
               PROVE  Net(i) = want[s][i]
    BY DEF RoundReachesTarget, Excused
  <2>1. i \in Insts /\ Net(i) \in Int
    BY BasketAssumption, NetType DEF TargetInv, LegsInv, BasketInv
  <2>2. pc[s] = "idle" /\ todo[s] = <<>>
    BY NothingPlanned DEF Settled, TargetInv, LegsInv, LegsOf
  <2>3. \A o \in inflight : o.inst # i
    <3> SUFFICES ASSUME NEW o \in inflight, o.inst = i PROVE FALSE
      OBVIOUS
    <3>1. o.by \in Coroutines /\ i \in Universe[o.by] /\ o.by # s
      BY DEF Settled, TargetInv, LegsInv, Within, BasketInv, JobsOK, AnyOrder
    <3>2. o.by \in Family(s) /\ ~overlapped[s]
      BY <3>1 DEF Private
    <3>3. Settled(o.by)
      BY <3>1, <3>2 DEF TargetInv, LegsInv, Sole
    <3> QED BY <3>3 DEF Settled
  <2>4. Under(i, TRUE) = {} /\ Under(i, FALSE) = {}
    BY <2>3 DEF Under
  <2>5. Net(i) + Moves({}) + Moves({}) + Planned(<<>>, i) = want[s][i]
    BY <2>2, <2>4 DEF TargetInv, TargetOf, Engaged, OnTheWay, After
  <2> QED BY <2>1, <2>5, MovesNone, PlannedNone
<1>2. Init => TargetInv
  BY InitTarget
<1>3. TargetInv /\ [Next]_vars => TargetInv'
  BY TargetStep
<1> QED BY <1>1, <1>2, <1>3, PTL DEF Spec

=============================================================================
