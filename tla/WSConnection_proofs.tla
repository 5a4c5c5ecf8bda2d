------------------------- MODULE WSConnection_proofs -------------------------
(***************************************************************************)
(* One endpoint for every set of keys and callers: the registry counts the *)
(* callers that hold a key, and what the server pushes once the frames are *)
(* processed is what the registry holds.                                   *)
(***************************************************************************)
EXTENDS WSConnection, TLAPS, SequenceTheorems, FiniteSetTheorems

\* The types, without the bound on the references, which is a count.
Types ==
  /\ run \in RunStates
  /\ connected \in BOOLEAN
  /\ loginDone \in BOOLEAN
  /\ sock \in {"none", "open", "closed"}
  /\ attempt \in 0..MaxAttempt
  /\ stopping \in BOOLEAN
  /\ refs \in [Keys -> Nat]
  /\ pc \in [Callers -> {"idle", "subscribing", "holding", "leaving", "failed"}]
  /\ key \in [Callers -> Keys]
  /\ sendq \in Seq(FrameType)
  /\ wire \in Seq(FrameType)
  /\ authed \in BOOLEAN
  /\ server \in SUBSET Keys
  /\ faults \in 0..MaxFaults
  /\ bugs \in 0..MaxBugs

\* The callers a key's references stand for: those whose subscribe call
\* raised are never taken back.
Counted(k) ==
  {c \in Callers : pc[c] \in {"subscribing", "holding", "failed"} /\ key[c] = k}

RefsAreCounts == \A k \in Keys : refs[k] = Cardinality(Counted(k))

\* A frame in line is the one its sender waits for, and nobody waits twice.
Waits(f) ==
  IF f.by = RunTask
  THEN f.op = "subscribe" /\ run = "resubscribing"
  ELSE /\ f.keys = {key[f.by]}
       /\ \/ f.op = "subscribe" /\ pc[f.by] = "subscribing"
          \/ f.op = "unsubscribe" /\ pc[f.by] = "leaving"

InLine ==
  /\ \A i \in 1..Len(sendq) : Waits(sendq[i])
  /\ \A i, j \in 1..Len(sendq) : sendq[i].by = sendq[j].by => i = j

\* What a sequence of frames leaves a key at: its last mention decides.
Silent(s, k) == \A i \in 1..Len(s) : k \notin s[i].keys
On(s, k) == \E i \in 1..Len(s) : /\ k \in s[i].keys /\ s[i].op = "subscribe"
                                /\ \A j \in 1..Len(s) : j > i => k \notin s[j].keys

\* Everything that is still to reach the server, in order.
Line == wire \o sendq

WillPush(k) == On(Line, k) \/ (Silent(Line, k) /\ k \in server)

\* While the socket is open, what the server will come to push is registered,
\* and from the resubscription on all that is registered will be pushed; what
\* was sent before the login is processed after it.
Session ==
  sock = "open" =>
    /\ connected /\ run \in {"login", "resubscribing", "reading"}
    /\ ~authed => wire # <<>> /\ Head(wire).op = "login"
    /\ \A i \in 1..Len(wire) : wire[i].op = "login" => wire[i].keys = {}
    /\ \A k \in Keys : WillPush(k) => refs[k] > 0
    /\ run # "login" => \A k \in Keys : refs[k] > 0 => WillPush(k)

WSInv == Types /\ RefsAreCounts /\ InLine /\ Session
-----------------------------------------------------------------------------
(* Sequences of frames *)

\* One more frame: it decides for its keys.
LEMMA LastFrame ==
  ASSUME NEW s \in Seq(FrameType), NEW f \in FrameType, NEW k
  PROVE  /\ On(Append(s, f), k) <=> IF k \in f.keys THEN f.op = "subscribe" ELSE On(s, k)
         /\ Silent(Append(s, f), k) <=> Silent(s, k) /\ k \notin f.keys
<1> DEFINE t == Append(s, f)
<1>1. /\ Len(s) \in Nat /\ Len(t) = Len(s) + 1
      /\ \A i \in 1..Len(s) : t[i] = s[i]
      /\ t[Len(s) + 1] = f
  BY AppendProperties, LenProperties
<1> HIDE DEF t
<1>2. \A i \in 1..Len(t) : i \in 1..Len(s) \/ i = Len(s) + 1
  BY <1>1
<1>3. 1..Len(s) \subseteq 1..Len(t) /\ Len(s) + 1 \in 1..Len(t)
  BY <1>1
<1>4. Silent(t, k) <=> Silent(s, k) /\ k \notin f.keys
  BY <1>1, <1>2, <1>3 DEF Silent
<1>5. CASE k \in f.keys
  <2>1. ASSUME On(t, k) PROVE f.op = "subscribe"
    <3>1. PICK i \in 1..Len(t) : /\ t[i].op = "subscribe"
                                 /\ \A j \in 1..Len(t) : j > i => k \notin t[j].keys
      BY <2>1 DEF On
    <3>2. ~(Len(s) + 1 > i)
      BY <1>1, <1>3, <1>5, <3>1
    <3>3. i = Len(s) + 1
      BY <1>1, <1>2, <3>2
    <3> QED BY <1>1, <3>1, <3>3
  <2>2. ASSUME f.op = "subscribe" PROVE On(t, k)
    <3>1. \A j \in 1..Len(t) : ~(j > Len(s) + 1)
      BY <1>1
    <3> QED BY <1>1, <1>3, <1>5, <2>2, <3>1 DEF On
  <2> QED BY <1>4, <1>5, <2>1, <2>2 DEF t
<1>6. CASE k \notin f.keys
  <2>1. ASSUME On(t, k) PROVE On(s, k)
    <3>1. PICK i \in 1..Len(t) : /\ k \in t[i].keys /\ t[i].op = "subscribe"
                                 /\ \A j \in 1..Len(t) : j > i => k \notin t[j].keys
      BY <2>1 DEF On
    <3>2. i \in 1..Len(s)
      BY <1>1, <1>2, <1>6, <3>1
    <3> QED BY <1>1, <1>3, <3>1, <3>2 DEF On
  <2>2. ASSUME On(s, k) PROVE On(t, k)
    <3>1. PICK i \in 1..Len(s) : /\ k \in s[i].keys /\ s[i].op = "subscribe"
                                 /\ \A j \in 1..Len(s) : j > i => k \notin s[j].keys
      BY <2>2 DEF On
    <3>2. \A j \in 1..Len(t) : j > i => k \notin t[j].keys
      BY <1>1, <1>2, <1>6, <3>1
    <3> QED BY <1>1, <1>3, <3>1, <3>2 DEF On
  <2> QED BY <1>4, <1>6, <2>1, <2>2 DEF t
<1> QED BY <1>5, <1>6

\* The first frame decides for a key that no later one mentions.
LEMMA FirstFrame ==
  ASSUME NEW s \in Seq(FrameType), s # <<>>, NEW k
  PROVE  /\ On(s, k) <=> \/ On(Tail(s), k)
                         \/ Silent(Tail(s), k) /\ k \in Head(s).keys /\ Head(s).op = "subscribe"
         /\ Silent(s, k) <=> Silent(Tail(s), k) /\ k \notin Head(s).keys
         /\ ~(On(Tail(s), k) /\ Silent(Tail(s), k))
<1> DEFINE t == Tail(s)
<1>1. /\ Len(s) \in Nat \ {0} /\ Len(t) = Len(s) - 1
      /\ \A i \in 1..Len(t) : t[i] = s[i + 1]
      /\ Head(s) = s[1]
  BY HeadTailProperties, EmptySeq, LenProperties
<1> HIDE DEF t
<1>2. \A i \in 1..Len(t) : i + 1 \in 1..Len(s)
  BY <1>1
<1>3. \A i \in 1..Len(s) : i = 1 \/ (i - 1 \in 1..Len(t) /\ s[i] = t[i - 1])
  BY <1>1
<1>4. 1 \in 1..Len(s) /\ Len(t) \in Nat
  BY <1>1
<1>5. Silent(s, k) <=> Silent(t, k) /\ k \notin s[1].keys
  BY <1>1, <1>2, <1>3, <1>4 DEF Silent
<1>6. ASSUME On(s, k)
      PROVE  On(t, k) \/ (Silent(t, k) /\ k \in s[1].keys /\ s[1].op = "subscribe")
  <2>1. PICK i \in 1..Len(s) : /\ k \in s[i].keys /\ s[i].op = "subscribe"
                               /\ \A j \in 1..Len(s) : j > i => k \notin s[j].keys
    BY <1>6 DEF On
  <2>2. CASE i = 1
    <3>1. \A j \in 1..Len(t) : j + 1 > i
      BY <2>2
    <3>2. Silent(t, k)
      BY <1>1, <1>2, <2>1, <3>1 DEF Silent
    <3> QED BY <2>1, <2>2, <3>2
  <2>3. CASE i # 1
    <3>1. i - 1 \in 1..Len(t) /\ s[i] = t[i - 1]
      BY <1>3, <2>3
    <3>2. \A j \in 1..Len(t) : j > i - 1 => j + 1 > i
      BY <1>4
    <3>3. \A j \in 1..Len(t) : j > i - 1 => k \notin t[j].keys
      BY <1>1, <1>2, <2>1, <3>2
    <3>4. k \in t[i - 1].keys /\ t[i - 1].op = "subscribe"
      BY <2>1, <3>1
    <3>5. On(t, k)
      BY <3>1, <3>3, <3>4 DEF On
    <3> QED BY <3>5
  <2> QED BY <2>2, <2>3
<1>7. ASSUME On(t, k) PROVE On(s, k)
  <2>1. PICK i \in 1..Len(t) : /\ k \in t[i].keys /\ t[i].op = "subscribe"
                               /\ \A j \in 1..Len(t) : j > i => k \notin t[j].keys
    BY <1>7 DEF On
  <2>2. i + 1 \in 1..Len(s) /\ s[i + 1] = t[i]
    BY <1>1, <1>2
  <2>3. ASSUME NEW j \in 1..Len(s), j > i + 1 PROVE k \notin s[j].keys
    <3>1. j # 1
      BY <2>3, <1>4
    <3>2. j - 1 \in 1..Len(t) /\ s[j] = t[j - 1] /\ j - 1 > i
      BY <1>3, <2>3, <3>1, <1>4
    <3> QED BY <2>1, <3>2
  <2> QED BY <2>1, <2>2, <2>3 DEF On
<1>8. ASSUME Silent(t, k), k \in s[1].keys, s[1].op = "subscribe" PROVE On(s, k)
  <2>1. ASSUME NEW j \in 1..Len(s), j > 1 PROVE k \notin s[j].keys
    <3>1. j - 1 \in 1..Len(t) /\ s[j] = t[j - 1]
      BY <1>3, <2>1, <1>4
    <3> QED BY <1>8, <3>1 DEF Silent
  <2> QED BY <1>4, <1>8, <2>1 DEF On
<1>9. ~(On(t, k) /\ Silent(t, k))
  BY DEF On, Silent
<1> QED BY <1>1, <1>5, <1>6, <1>7, <1>8, <1>9 DEF t

\* A frame that goes from the line for the lock to the wire stays in place.
LEMMA LineMoves ==
  ASSUME NEW w \in Seq(FrameType), NEW q \in Seq(FrameType), q # <<>>
  PROVE  Append(w, Head(q)) \o Tail(q) = w \o q
<1>1. Head(q) \in FrameType /\ Tail(q) \in Seq(FrameType)
      /\ Len(Tail(q)) = Len(q) - 1 /\ Len(q) \in Nat \ {0} /\ Len(w) \in Nat
      /\ (\A i \in 1..Len(Tail(q)) : Tail(q)[i] = q[i + 1]) /\ Head(q) = q[1]
  BY HeadTailProperties, EmptySeq, LenProperties
<1> DEFINE v == Append(w, Head(q))
<1>2. v \in Seq(FrameType) /\ Len(v) = Len(w) + 1 /\ v[Len(w) + 1] = q[1]
      /\ \A i \in 1..Len(w) : v[i] = w[i]
  BY <1>1, AppendProperties
<1> HIDE DEF v
<1>3. /\ v \o Tail(q) \in Seq(FrameType) /\ w \o q \in Seq(FrameType)
      /\ Len(v \o Tail(q)) = Len(v) + Len(Tail(q)) /\ Len(w \o q) = Len(w) + Len(q)
      /\ \A i \in 1..Len(v) + Len(Tail(q)) :
           (v \o Tail(q))[i] = IF i <= Len(v) THEN v[i] ELSE Tail(q)[i - Len(v)]
      /\ \A i \in 1..Len(w) + Len(q) :
           (w \o q)[i] = IF i <= Len(w) THEN w[i] ELSE q[i - Len(w)]
  <2>1. Tail(q) \in Seq(FrameType)
    BY <1>1
  <2> QED BY <1>2, <2>1, ConcatProperties
<1>4. Len(v \o Tail(q)) = Len(w \o q)
  BY <1>1, <1>2, <1>3
<1>5. ASSUME NEW i \in 1..Len(w \o q) PROVE (v \o Tail(q))[i] = (w \o q)[i]
  <2>1. i \in 1..Len(w) + Len(q) /\ i \in 1..Len(v) + Len(Tail(q))
    BY <1>3, <1>4
  <2>2. CASE i <= Len(w)
    BY <1>1, <1>2, <1>3, <2>1, <2>2
  <2>3. CASE i = Len(w) + 1
    BY <1>1, <1>2, <1>3, <2>1, <2>3
  <2>4. CASE i > Len(w) + 1
    <3>1. i - Len(v) \in 1..Len(Tail(q)) /\ ~(i <= Len(v)) /\ ~(i <= Len(w))
          /\ i - Len(v) + 1 = i - Len(w)
      BY <1>1, <1>2, <2>1, <2>4
    <3>2. Tail(q)[i - Len(v)] = q[i - Len(v) + 1]
      BY <1>1, <3>1
    <3> QED BY <1>3, <2>1, <3>1, <3>2
  <2> QED BY <1>1, <2>1, <2>2, <2>3, <2>4
<1> QED BY <1>3, <1>4, <1>5, SeqEqual DEF v

\* A frame that joins the line comes last, and the one the server takes first.
LEMMA LineEnds ==
  ASSUME NEW w \in Seq(FrameType), NEW q \in Seq(FrameType)
  PROVE  /\ w \o q \in Seq(FrameType)
         /\ \A f \in FrameType : w \o Append(q, f) = Append(w \o q, f)
         /\ w # <<>> => /\ w \o q # <<>> /\ Head(w \o q) = Head(w)
                        /\ Tail(w \o q) = Tail(w) \o q
<1>1. w \o q \in Seq(FrameType)
  BY ConcatProperties
<1>2. ASSUME NEW f \in FrameType PROVE w \o Append(q, f) = Append(w \o q, f)
  <2>1. <<f>> \in Seq(FrameType)
    OBVIOUS
  <2>2. Append(q, f) = q \o <<f>> /\ Append(w \o q, f) = (w \o q) \o <<f>>
    BY <1>1, AppendIsConcat
  <2>3. (w \o q) \o <<f>> = w \o (q \o <<f>>)
    BY <2>1, ConcatAssociative
  <2> QED BY <2>2, <2>3
<1>3. ASSUME w # <<>>
      PROVE  w \o q # <<>> /\ Head(w \o q) = Head(w) /\ Tail(w \o q) = Tail(w) \o q
  <2>1. /\ Len(w) \in Nat \ {0} /\ Len(q) \in Nat /\ Tail(w) \in Seq(FrameType)
        /\ Len(Tail(w)) = Len(w) - 1 /\ \A i \in 1..Len(Tail(w)) : Tail(w)[i] = w[i + 1]
        /\ Head(w) = w[1]
    BY <1>3, HeadTailProperties, EmptySeq, LenProperties
  <2>2. /\ Len(w \o q) = Len(w) + Len(q)
        /\ \A i \in 1..Len(w) + Len(q) : (w \o q)[i] = IF i <= Len(w) THEN w[i] ELSE q[i - Len(w)]
    BY ConcatProperties
  <2>3. w \o q # <<>> /\ Head(w \o q) = Head(w)
    <3>1. w \o q # <<>>
      BY <2>1, <2>2, <1>1, EmptySeq
    <3>2. Head(w \o q) = (w \o q)[1]
      BY <1>1, <3>1
    <3> QED BY <2>1, <2>2, <3>1, <3>2
  <2> DEFINE u == w \o q
  <2>4. /\ Tail(u) \in Seq(FrameType) /\ Len(Tail(u)) = Len(u) - 1
        /\ \A i \in 1..Len(Tail(u)) : Tail(u)[i] = u[i + 1]
    BY <1>1, <2>3, HeadTailProperties
  <2>5. /\ Tail(w) \o q \in Seq(FrameType) /\ Len(Tail(w) \o q) = Len(Tail(w)) + Len(q)
        /\ \A i \in 1..Len(Tail(w)) + Len(q) :
             (Tail(w) \o q)[i] = IF i <= Len(Tail(w)) THEN Tail(w)[i] ELSE q[i - Len(Tail(w))]
    BY <2>1, ConcatProperties
  <2>6. Len(Tail(u)) = Len(Tail(w) \o q)
    BY <2>1, <2>2, <2>4, <2>5
  <2>7. ASSUME NEW i \in 1..Len(Tail(u)) PROVE Tail(u)[i] = (Tail(w) \o q)[i]
    <3>1. i + 1 \in 1..Len(w) + Len(q) /\ i \in 1..Len(Tail(w)) + Len(q)
      BY <2>1, <2>2, <2>4, <2>5, <2>6
    <3>2. Tail(u)[i] = u[i + 1]
      BY <2>4
    <3>3. CASE i <= Len(Tail(w))
      BY <2>1, <2>2, <2>5, <3>1, <3>2, <3>3
    <3>4. CASE i > Len(Tail(w))
      <4>1. ~(i + 1 <= Len(w)) /\ i + 1 - Len(w) = i - Len(Tail(w)) /\ ~(i <= Len(Tail(w)))
        BY <2>1, <3>4
      <4> QED BY <2>2, <2>5, <3>1, <3>2, <4>1
    <3> QED BY <2>1, <3>3, <3>4
  <2>8. Tail(u) = Tail(w) \o q
    BY <2>4, <2>5, <2>6, <2>7, SeqEqual
  <2> QED BY <2>3, <2>8
<1> QED BY <1>1, <1>2, <1>3

-----------------------------------------------------------------------------
(* Types *)

\* The frames that are made have their type.
LEMMA FramesAreFrames ==
  ASSUME NEW k \in Keys, NEW c \in Callers
  PROVE  /\ Frame("subscribe", {k}, c) \in FrameType
         /\ Frame("unsubscribe", {k}, c) \in FrameType
         /\ Frame("subscribe", Active, RunTask) \in FrameType
         /\ Frame("login", {}, RunTask) \in FrameType
BY DEF Frame, FrameType, Active

\* So do the ones of the run task.
LEMMA RunFrames ==
  ASSUME Types
  PROVE  /\ Append(sendq, Frame("subscribe", Active, RunTask)) \in Seq(FrameType)
         /\ <<Frame("login", {}, RunTask)>> \in Seq(FrameType)
<1>1. Frame("subscribe", Active, RunTask) \in FrameType /\ Frame("login", {}, RunTask) \in FrameType
  BY DEF Frame, FrameType, Active
<1>2. sendq \in Seq(FrameType)
  BY DEF Types
<1>3. Append(sendq, Frame("subscribe", Active, RunTask)) \in Seq(FrameType)
  BY <1>1, <1>2, AppendProperties
<1>4. <<Frame("login", {}, RunTask)>> \in Seq(FrameType)
  BY <1>1
<1> QED BY <1>3, <1>4

\* And the line they join.
LEMMA CallerFrames ==
  ASSUME Types, NEW k \in Keys, NEW c \in Callers
  PROVE  /\ Append(sendq, Frame("subscribe", {k}, c)) \in Seq(FrameType)
         /\ Append(sendq, Frame("unsubscribe", {k}, c)) \in Seq(FrameType)
<1>1. sendq \in Seq(FrameType)
  BY DEF Types
<1>2. Append(sendq, Frame("subscribe", {k}, c)) \in Seq(FrameType)
  BY <1>1, FramesAreFrames, AppendProperties
<1>3. Append(sendq, Frame("unsubscribe", {k}, c)) \in Seq(FrameType)
  BY <1>1, FramesAreFrames, AppendProperties
<1> QED BY <1>2, <1>3

LEMMA AttemptType == ASSUME Types PROVE NextAttempt \in 0..MaxAttempt
BY ConstantsAssumption DEF Types, NextAttempt, MaxAttempt

\* Every step keeps the types.
LEMMA TypesStep == ASSUME Types, [Next]_vars PROVE Types'
<1> USE DEF Types, connVars, callerVars, serverVars, RunStates
<1>1. CASE Start \/ WaitEnd
  BY <1>1 DEF Start, WaitEnd, LoopTop
<1>2. CASE ConnectOk
  <2>1. sendq' \in Seq(FrameType) /\ run' \in RunStates
    BY <1>2, RunFrames DEF ConnectOk, Resubscribe
  <2>2. wire' \in Seq(FrameType) /\ authed' \in BOOLEAN
    BY <1>2, RunFrames, EmptySeq DEF ConnectOk
  <2> QED BY <1>2, <2>1, <2>2 DEF ConnectOk
<1>3. CASE LoginOk
  <2>1. sendq' \in Seq(FrameType) /\ run' \in RunStates
    BY <1>3, RunFrames DEF LoginOk, Resubscribe
  <2> QED BY <1>3, <2>1 DEF LoginOk
<1>4. CASE LoginFail
  <2>1. attempt' \in 0..MaxAttempt /\ faults' \in 0..MaxFaults
    BY <1>4, AttemptType, ConstantsAssumption DEF LoginFail, BackOff
  <2> QED BY <1>4, <2>1, EmptySeq DEF LoginFail, CloseSocket, BackOff
<1>5. CASE ReadEndClean
  <2>1. 0 \in 0..MaxAttempt
    BY ConstantsAssumption DEF MaxAttempt
  <2> QED BY <1>5, <2>1 DEF ReadEndClean, ReadFinally
<1>6. CASE ReadEndError
  BY <1>6, AttemptType DEF ReadEndError, ReadFinally, BackOff
<1>7. CASE StopCancel
  <2>1. sendq' \in Seq(FrameType)
    <3>1. CASE UNCHANGED sendq
      BY <3>1
    <3>2. ASSUME NEW i \in 1..Len(sendq),
                 sendq' = SubSeq(sendq, 1, i - 1) \o SubSeq(sendq, i + 1, Len(sendq))
          PROVE  sendq' \in Seq(FrameType)
      <4>1. Len(sendq) \in Nat /\ \A j \in 1..Len(sendq) : sendq[j] \in FrameType
        BY LenProperties, ElementOfSeq
      <4>2. \A j \in 1..(i - 1) : sendq[j] \in FrameType
        BY <4>1
      <4>3. \A j \in (i + 1)..Len(sendq) : sendq[j] \in FrameType
        BY <4>1
      <4>4. SubSeq(sendq, 1, i - 1) \in Seq(FrameType)
        BY <4>1, <4>2, SubSeqProperties
      <4>5. SubSeq(sendq, i + 1, Len(sendq)) \in Seq(FrameType)
        BY <4>1, <4>3, SubSeqProperties
      <4> QED BY <3>2, <4>4, <4>5, ConcatProperties
    <3> QED BY <1>7, <3>1, <3>2 DEF StopCancel, Withdraw
  <2>2. wire' \in Seq(FrameType)
    BY <1>7, EmptySeq DEF StopCancel
  <2> QED BY <1>7, <2>1, <2>2 DEF StopCancel, ReadFinally
<1>8. CASE ConnectFail
  <2>1. attempt' \in 0..MaxAttempt /\ faults' \in 0..MaxFaults
    BY <1>8, AttemptType, ConstantsAssumption DEF ConnectFail, BackOff
  <2> QED BY <1>8, <2>1 DEF ConnectFail, BackOff
<1>9. CASE LinkDrop
  <2>1. faults' \in 0..MaxFaults
    BY <1>9, ConstantsAssumption DEF LinkDrop
  <2> QED BY <1>9, <2>1, EmptySeq DEF LinkDrop, CloseSocket
<1>10. CASE ReadUnexpected
  <2>1. attempt' \in 0..MaxAttempt /\ bugs' \in 0..MaxBugs
    BY <1>10, AttemptType, ConstantsAssumption DEF ReadUnexpected
  <2> QED BY <1>10, <2>1, EmptySeq DEF ReadUnexpected, ReadFinally
<1>11. CASE Stop
  BY <1>11, EmptySeq DEF Stop, CloseSocket
<1>12. ASSUME NEW c \in Callers, NEW k \in Keys, Subscribe(c, k) PROVE Types'
  <2>1. sendq' \in Seq(FrameType)
    BY <1>12, CallerFrames DEF Subscribe
  <2>2. refs' \in [Keys -> Nat]
    BY <1>12 DEF Subscribe, AddRef
  <2>3. pc' \in [Callers -> {"idle", "subscribing", "holding", "leaving", "failed"}]
        /\ key' \in [Callers -> Keys]
    BY <1>12 DEF Subscribe
  <2> QED BY <1>12, <2>1, <2>2, <2>3 DEF Subscribe
<1>13. ASSUME NEW c \in Callers, Unsubscribe(c) PROVE Types'
  <2>1. sendq' \in Seq(FrameType)
    <3>1. key[c] \in Keys
      OBVIOUS
    <3> QED BY <1>13, <3>1, CallerFrames DEF Unsubscribe
  <2>2. refs' \in [Keys -> Nat]
    BY <1>13 DEF Unsubscribe, DropRef
  <2>3. pc' \in [Callers -> {"idle", "subscribing", "holding", "leaving", "failed"}]
    BY <1>13 DEF Unsubscribe
  <2> QED BY <1>13, <2>1, <2>2, <2>3 DEF Unsubscribe
<1>14. CASE SendNext
  <2>1. Head(sendq) \in FrameType /\ sendq' \in Seq(FrameType)
    BY <1>14, HeadTailProperties DEF SendNext
  <2>2. CASE Sent(Head(sendq))
    <3>1. wire' \in Seq(FrameType)
      BY <2>1, <2>2, AppendProperties DEF Sent
    <3>2. pc' \in [Callers -> {"idle", "subscribing", "holding", "leaving", "failed"}]
          /\ run' \in RunStates
      BY <2>2 DEF Sent
    <3> QED BY <1>14, <2>1, <2>2, <3>1, <3>2 DEF SendNext, Sent
  <2>3. CASE SendFailed(Head(sendq))
    <3>1. pc' \in [Callers -> {"idle", "subscribing", "holding", "leaving", "failed"}]
          /\ run' \in RunStates /\ attempt' \in 0..MaxAttempt
      BY <2>3, AttemptType DEF SendFailed, BackOff
    <3> QED BY <1>14, <2>1, <2>3, <3>1 DEF SendNext, SendFailed
  <2> QED BY <1>14, <2>2, <2>3 DEF SendNext
<1>15. CASE ServerStep
  <2>1. Head(wire) \in FrameType /\ wire' \in Seq(FrameType)
    BY <1>15, HeadTailProperties DEF ServerStep
  <2>2. server' \in SUBSET Keys /\ authed' \in BOOLEAN
    BY <1>15, <2>1 DEF ServerStep, FrameType
  <2> QED BY <1>15, <2>1, <2>2 DEF ServerStep
<1>16. CASE UNCHANGED vars
  BY <1>16 DEF vars
<1> QED BY <1>1, <1>2, <1>3, <1>4, <1>5, <1>6, <1>7, <1>8, <1>9, <1>10, <1>11,
           <1>12, <1>13, <1>14, <1>15, <1>16 DEF Next, RunStep

-----------------------------------------------------------------------------
(* The registry counts *)

LEMMA CountedFinite ==
  ASSUME NEW k
  PROVE  /\ IsFiniteSet(Counted(k)) /\ Cardinality(Counted(k)) \in 0..Cardinality(Callers)
         /\ Cardinality(Counted(k)) = 0 <=> Counted(k) = {}
<1>1. Counted(k) \subseteq Callers /\ IsFiniteSet(Callers)
  BY ConstantsAssumption DEF Counted
<1>2. IsFiniteSet(Counted(k)) /\ Cardinality(Counted(k)) <= Cardinality(Callers)
  BY <1>1, FS_Subset
<1>3. Cardinality(Counted(k)) \in Nat /\ Cardinality(Callers) \in Nat
  BY <1>1, <1>2, FS_CardinalityType
<1> QED BY <1>2, <1>3, FS_EmptySet

LEMMA RefsStep ==
  ASSUME Types, RefsAreCounts, InLine, [Next]_vars
  PROVE  RefsAreCounts'
<1> USE DEF Types, connVars, callerVars, serverVars
<1>1. ASSUME NEW c \in Callers, NEW k \in Keys, Subscribe(c, k) PROVE RefsAreCounts'
  <2>1. pc[c] = "idle" /\ refs' = [refs EXCEPT ![k] = @ + 1] /\ key' = [key EXCEPT ![c] = k]
        /\ pc' \in {[pc EXCEPT ![c] = "subscribing"], [pc EXCEPT ![c] = "holding"]}
    BY <1>1 DEF Subscribe, AddRef
  <2>2. c \notin Counted(k) /\ Counted(k)' = Counted(k) \cup {c}
    BY <2>1 DEF Counted
  <2>3. Cardinality(Counted(k)') = Cardinality(Counted(k)) + 1
    BY <2>2, CountedFinite, FS_AddElement
  <2>4. \A j \in Keys \ {k} : Counted(j)' = Counted(j)
    BY <2>1 DEF Counted
  <2> QED BY <2>1, <2>3, <2>4 DEF RefsAreCounts
<1>2. ASSUME NEW c \in Callers, Unsubscribe(c) PROVE RefsAreCounts'
  <2> DEFINE k == key[c]
  <2>1. pc[c] = "holding" /\ key' = key /\ k \in Keys
        /\ refs' = [refs EXCEPT ![k] = IF @ <= 1 THEN 0 ELSE @ - 1]
        /\ pc' \in {[pc EXCEPT ![c] = "leaving"], [pc EXCEPT ![c] = "idle"]}
    BY <1>2 DEF Unsubscribe, DropRef
  <2>2. c \in Counted(k) /\ Counted(k)' = Counted(k) \ {c}
    BY <2>1 DEF Counted
  <2>3. Cardinality(Counted(k)') = Cardinality(Counted(k)) - 1 /\ Cardinality(Counted(k)) \in Nat \ {0}
    <3>1. PICK S : S = Counted(k)
      OBVIOUS
    <3>2. IsFiniteSet(S) /\ c \in S
      BY <2>1, <2>2, <3>1, CountedFinite
    <3>3. IsFiniteSet(S \ {c}) /\ Cardinality(S \ {c}) = Cardinality(S) - 1
      BY <3>2, FS_RemoveElement
    <3>4. Cardinality(S) \in Nat /\ Cardinality(S \ {c}) \in Nat
      BY <3>2, <3>3, FS_CardinalityType
    <3> QED BY <2>2, <3>1, <3>3, <3>4
  <2>4. \A j \in Keys \ {k} : Counted(j)' = Counted(j)
    BY <2>1 DEF Counted
  <2> QED BY <2>1, <2>3, <2>4 DEF RefsAreCounts
<1>3. CASE SendNext
  <2> DEFINE f == Head(sendq)
  <2>1. f \in FrameType /\ Waits(f) /\ refs' = refs /\ key' = key
    <3>1. 1 \in 1..Len(sendq) /\ f = sendq[1]
      BY <1>3, EmptySeq, LenProperties DEF SendNext
    <3> QED BY <1>3, <3>1, ElementOfSeq DEF InLine, SendNext
  <2> HIDE DEF f
  <2>2. \/ pc' = pc
        \/ /\ f.by \in Callers
           /\ \/ /\ f.op = "subscribe"
                 /\ pc' \in {[pc EXCEPT ![f.by] = "holding"], [pc EXCEPT ![f.by] = "failed"]}
              \/ f.op # "subscribe" /\ pc' = [pc EXCEPT ![f.by] = "idle"]
    BY <1>3, <2>1 DEF SendNext, Sent, SendFailed, FrameType, f
  <2>3. f.by \in Callers => \/ f.op = "subscribe" /\ pc[f.by] = "subscribing"
                            \/ f.op # "subscribe" /\ pc[f.by] = "leaving"
    BY <2>1, ConstantsAssumption DEF Waits
  <2>4. \A k \in Keys : Counted(k)' = Counted(k)
    BY <2>1, <2>2, <2>3 DEF Counted
  <2> QED BY <2>1, <2>4 DEF RefsAreCounts
<1>4. CASE UNCHANGED <<refs, pc, key>>
  BY <1>4 DEF RefsAreCounts, Counted
<1>5. \/ \E c \in Callers, k \in Keys : Subscribe(c, k)
      \/ \E c \in Callers : Unsubscribe(c)
      \/ SendNext
      \/ UNCHANGED <<refs, pc, key>>
  BY DEF Next, RunStep, vars, Start, ConnectOk, LoginOk, LoginFail, ReadEndClean, ReadEndError,
         WaitEnd, StopCancel, ConnectFail, LinkDrop, ReadUnexpected, Stop, ServerStep
<1> QED BY <1>1, <1>2, <1>3, <1>4, <1>5

-----------------------------------------------------------------------------
(* The line for the lock *)

\* A sender that is not in line joins it, and nothing else changes for the
\* others.
LEMMA JoinInLine ==
  ASSUME Types, InLine, NEW f \in FrameType, sendq' = Append(sendq, f),
         \A i \in 1..Len(sendq) : sendq[i].by # f.by,
         \A g \in FrameType : Waits(g) /\ g.by # f.by => Waits(g)',
         Waits(f)'
  PROVE  InLine'
<1> DEFINE q == sendq'
<1>1. /\ Len(sendq) \in Nat /\ Len(q) = Len(sendq) + 1 /\ q[Len(sendq) + 1] = f
      /\ \A i \in 1..Len(sendq) : q[i] = sendq[i] /\ sendq[i] \in FrameType
  BY AppendProperties, LenProperties, ElementOfSeq DEF Types
<1>2. \A i \in 1..Len(q) : i \in 1..Len(sendq) \/ i = Len(sendq) + 1
  BY <1>1
<1> HIDE DEF q
<1>3. \A i \in 1..Len(q) : \A g \in FrameType : g = q[i] => Waits(g)'
  BY <1>1, <1>2 DEF InLine
<1>4. \A i \in 1..Len(q) : q[i] \in FrameType
  BY <1>1, <1>2
<1>5. ASSUME NEW i \in 1..Len(q), NEW j \in 1..Len(q), q[i].by = q[j].by PROVE i = j
  BY <1>1, <1>2, <1>5 DEF InLine
<1>6. \A i \in 1..Len(sendq') : Waits(sendq[i])'
  BY <1>3, <1>4 DEF q, Waits
<1> QED BY <1>5, <1>6 DEF InLine, q

LEMMA InLineStep ==
  ASSUME Types, InLine, [Next]_vars
  PROVE  InLine'
<1> USE DEF Types, connVars, callerVars, serverVars
<1>1. CASE UNCHANGED <<sendq, pc, key>> /\ (run = "resubscribing" => run' = "resubscribing")
  BY <1>1 DEF InLine, Waits
<1>2. CASE UNCHANGED <<pc, key>> /\ run # "resubscribing" /\ Resubscribe
  <2>1. CASE UNCHANGED sendq
    BY <1>2, <2>1 DEF InLine, Waits
  <2>2. CASE run' = "resubscribing" /\ sendq' = Append(sendq, Frame("subscribe", Active, RunTask))
    <3>1. PICK f \in FrameType : /\ f.by = RunTask /\ f.op = "subscribe"
                                 /\ f = Frame("subscribe", Active, RunTask)
      BY DEF Frame, FrameType, Active
    <3>2. \A i \in 1..Len(sendq) : sendq[i].by # f.by
      BY <1>2, <3>1 DEF InLine, Waits
    <3>3. \A g \in FrameType : Waits(g) /\ g.by # f.by => Waits(g)'
      BY <1>2, <3>1 DEF Waits
    <3>4. Waits(f)'
      BY <2>2, <3>1 DEF Waits
    <3>5. sendq' = Append(sendq, f)
      BY <2>2, <3>1
    <3> QED BY <3>1, <3>2, <3>3, <3>4, <3>5, JoinInLine
  <2> QED BY <1>2, <2>1, <2>2 DEF Resubscribe
<1>3. ASSUME NEW c \in Callers, NEW k \in Keys, Subscribe(c, k) PROVE InLine'
  <2>1. pc[c] = "idle" /\ run' = run /\ key' = [key EXCEPT ![c] = k]
    BY <1>3 DEF Subscribe
  <2>2. \A g \in FrameType : Waits(g) => g.by # c
    BY <2>1, ConstantsAssumption DEF Waits
  <2>3. \A g \in FrameType : Waits(g) => Waits(g)'
    <3>1. \A d \in Callers \ {c} : pc'[d] = pc[d] /\ key'[d] = key[d]
      BY <1>3 DEF Subscribe
    <3> QED BY <2>1, <2>2, <3>1 DEF Waits, FrameType
  <2>4. \A i \in 1..Len(sendq) : Waits(sendq[i]) /\ sendq[i] \in FrameType
    BY ElementOfSeq DEF InLine
  <2>5. CASE UNCHANGED sendq
    <3>1. \A i \in 1..Len(sendq) : Waits(sendq[i])'
      BY <2>3, <2>4, <2>5 DEF Waits
    <3> QED BY <2>5, <3>1 DEF InLine
  <2>6. CASE pc' = [pc EXCEPT ![c] = "subscribing"] /\ sendq' = Append(sendq, Frame("subscribe", {k}, c))
    <3> DEFINE f == Frame("subscribe", {k}, c)
    <3>1. f \in FrameType /\ f.by = c /\ f.op = "subscribe" /\ f.keys = {k}
      BY DEF Frame, FrameType
    <3>2. sendq' = Append(sendq, f)
      BY <2>6
    <3> HIDE DEF f
    <3>3. Waits(f)'
      BY <2>1, <2>6, <3>1, ConstantsAssumption DEF Waits
    <3>4. \A i \in 1..Len(sendq) : sendq[i].by # f.by
      BY <2>2, <2>4, <3>1
    <3> QED BY <2>3, <3>1, <3>2, <3>3, <3>4, JoinInLine
  <2> QED BY <1>3, <2>5, <2>6 DEF Subscribe
<1>4. ASSUME NEW c \in Callers, Unsubscribe(c) PROVE InLine'
  <2>1. pc[c] = "holding" /\ run' = run /\ key' = key
    BY <1>4 DEF Unsubscribe
  <2>2. \A g \in FrameType : Waits(g) => g.by # c
    BY <2>1, ConstantsAssumption DEF Waits
  <2>3. \A g \in FrameType : Waits(g) => Waits(g)'
    <3>1. \A d \in Callers \ {c} : pc'[d] = pc[d]
      BY <1>4 DEF Unsubscribe
    <3> QED BY <2>1, <2>2, <3>1 DEF Waits, FrameType
  <2>4. \A i \in 1..Len(sendq) : Waits(sendq[i]) /\ sendq[i] \in FrameType
    BY ElementOfSeq DEF InLine
  <2>5. CASE UNCHANGED sendq
    <3>1. \A i \in 1..Len(sendq) : Waits(sendq[i])'
      BY <2>3, <2>4, <2>5 DEF Waits
    <3> QED BY <2>5, <3>1 DEF InLine
  <2>6. CASE pc' = [pc EXCEPT ![c] = "leaving"]
             /\ sendq' = Append(sendq, Frame("unsubscribe", {key[c]}, c))
    <3>1. PICK f \in FrameType : /\ f.by = c /\ f.op = "unsubscribe" /\ f.keys = {key[c]}
                                 /\ f = Frame("unsubscribe", {key[c]}, c)
      BY DEF Frame, FrameType
    <3>2. sendq' = Append(sendq, f)
      BY <2>6, <3>1
    <3>3. Waits(f)'
      BY <2>1, <2>6, <3>1, ConstantsAssumption DEF Waits
    <3>4. \A i \in 1..Len(sendq) : sendq[i].by # f.by
      BY <2>2, <2>4, <3>1
    <3> QED BY <2>3, <3>1, <3>2, <3>3, <3>4, JoinInLine
  <2> QED BY <1>4, <2>5, <2>6 DEF Unsubscribe
<1>5. CASE SendNext
  <2>0. PICK f : f = Head(sendq)
    OBVIOUS
  <2>1. /\ Len(sendq) \in Nat \ {0} /\ f = sendq[1] /\ 1 \in 1..Len(sendq)
        /\ Len(sendq') = Len(sendq) - 1 /\ key' = key
        /\ \A i \in 1..Len(sendq') : sendq'[i] = sendq[i + 1] /\ i + 1 \in 1..Len(sendq)
    BY <1>5, <2>0, HeadTailProperties, EmptySeq, LenProperties DEF SendNext
  <2>2. \A i \in 1..Len(sendq) : Waits(sendq[i]) /\ sendq[i] \in FrameType
    BY ElementOfSeq DEF InLine
  <2>3. ASSUME NEW i \in 1..Len(sendq') PROVE sendq'[i].by # f.by
    <3>1. i + 1 # 1
      BY <2>1
    <3>2. sendq[i + 1].by # sendq[1].by
      BY <2>1, <3>1 DEF InLine
    <3> QED BY <2>1, <3>2
  <2>4. (f.by # RunTask => run' = run) /\ \A d \in Callers \ {f.by} : pc'[d] = pc[d]
    BY <1>5, <2>0, <2>1, <2>2 DEF SendNext, Sent, SendFailed, FrameType
  <2>5. ASSUME NEW g \in FrameType, Waits(g), g.by # f.by PROVE Waits(g)'
    <3>1. CASE g.by = RunTask
      <4>1. run' = run
        BY <2>4, <2>5, <3>1
      <4> QED BY <2>5, <3>1, <4>1 DEF Waits
    <3>2. CASE g.by # RunTask
      <4>1. g.by \in Callers \ {f.by}
        BY <2>5, <3>2 DEF FrameType
      <4>2. pc'[g.by] = pc[g.by] /\ key'[g.by] = key[g.by]
        BY <2>1, <2>4, <4>1
      <4> QED BY <2>5, <3>2, <4>2 DEF Waits
    <3> QED BY <3>1, <3>2
  <2>6. ASSUME NEW i \in 1..Len(sendq') PROVE Waits(sendq[i])'
    <3>1. PICK g \in FrameType : g = sendq'[i] /\ Waits(g) /\ g.by # f.by
      BY <2>1, <2>2, <2>3
    <3>2. Waits(g)'
      BY <2>5, <3>1
    <3> QED BY <3>1, <3>2 DEF Waits
  <2>7. ASSUME NEW i \in 1..Len(sendq'), NEW j \in 1..Len(sendq'), sendq'[i].by = sendq'[j].by
        PROVE  i = j
    <3>1. sendq[i + 1].by = sendq[j + 1].by
      BY <2>1, <2>7
    <3>2. i + 1 = j + 1
      BY <2>1, <3>1 DEF InLine
    <3> QED BY <3>2
  <2> QED BY <2>6, <2>7 DEF InLine
<1>6. CASE StopCancel
  <2>1. UNCHANGED <<pc, key>> /\ run' = "off"
    BY <1>6 DEF StopCancel
  <2>2. \A g \in FrameType : Waits(g) /\ g.by # RunTask => Waits(g)'
    BY <2>1 DEF Waits
  <2>3. Len(sendq) \in Nat /\ \A i \in 1..Len(sendq) : Waits(sendq[i]) /\ sendq[i] \in FrameType
    BY ElementOfSeq, LenProperties DEF InLine
  <2>4. CASE UNCHANGED sendq /\ \A i \in 1..Len(sendq) : sendq[i].by # RunTask
    <3>1. \A i \in 1..Len(sendq) : Waits(sendq[i])'
      BY <2>2, <2>3, <2>4 DEF Waits
    <3> QED BY <2>4, <3>1 DEF InLine
  <2>5. ASSUME NEW n \in 1..Len(sendq), sendq[n].by = RunTask,
               sendq' = SubSeq(sendq, 1, n - 1) \o SubSeq(sendq, n + 1, Len(sendq))
        PROVE  InLine'
    <3> DEFINE At(i) == IF i < n THEN i ELSE i + 1
    <3>1. SubSeq(sendq, 1, n - 1) \in Seq(FrameType) /\ Len(SubSeq(sendq, 1, n - 1)) = n - 1
          /\ \A i \in 1..(n - 1) : SubSeq(sendq, 1, n - 1)[i] = sendq[i]
      <4>1. \A i \in 1..(n - 1) : sendq[i] \in FrameType
        BY <2>3
      <4>2. Len(sendq) \in Nat /\ n \in Nat \ {0}
        BY <2>3
      <4> QED BY <4>1, <4>2, SubSeqProperties
    <3>2. /\ SubSeq(sendq, n + 1, Len(sendq)) \in Seq(FrameType)
          /\ Len(SubSeq(sendq, n + 1, Len(sendq))) = Len(sendq) - n
          /\ \A i \in 1..(Len(sendq) - n) :
               SubSeq(sendq, n + 1, Len(sendq))[i] = sendq[n + i]
      <4>1. \A i \in (n + 1)..Len(sendq) : sendq[i] \in FrameType
        BY <2>3
      <4>2. Len(sendq) \in Nat /\ n \in Nat \ {0} /\ n <= Len(sendq)
        BY <2>3
      <4>3. /\ SubSeq(sendq, n + 1, Len(sendq)) \in Seq(FrameType)
            /\ Len(SubSeq(sendq, n + 1, Len(sendq))) =
                 IF n + 1 <= Len(sendq) THEN Len(sendq) - (n + 1) + 1 ELSE 0
            /\ \A i \in 1..(Len(sendq) - (n + 1) + 1) :
                 SubSeq(sendq, n + 1, Len(sendq))[i] = sendq[n + 1 + i - 1]
        BY <4>1, <4>2, SubSeqProperties
      <4>4. Len(sendq) - (n + 1) + 1 = Len(sendq) - n
            /\ \A i \in 1..(Len(sendq) - n) : n + 1 + i - 1 = n + i
        BY <4>2
      <4> QED BY <4>2, <4>3, <4>4
    <3>3. Len(sendq') = Len(sendq) - 1
          /\ \A i \in 1..Len(sendq') : sendq'[i] = sendq[At(i)]
      <4> DEFINE a == SubSeq(sendq, 1, n - 1)
                 b == SubSeq(sendq, n + 1, Len(sendq))
      <4>1. a \in Seq(FrameType) /\ b \in Seq(FrameType) /\ sendq' = a \o b
            /\ Len(a) = n - 1 /\ Len(b) = Len(sendq) - n
            /\ (\A i \in 1..(n - 1) : a[i] = sendq[i])
            /\ (\A i \in 1..(Len(sendq) - n) : b[i] = sendq[n + i])
        BY <2>5, <3>1, <3>2
      <4> HIDE DEF a, b
      <4>2. Len(sendq') = Len(a) + Len(b)
            /\ \A i \in 1..Len(a) + Len(b) : sendq'[i] = IF i <= Len(a) THEN a[i] ELSE b[i - Len(a)]
        BY <4>1, ConcatProperties
      <4>3. Len(sendq') = Len(sendq) - 1
        BY <2>3, <4>1, <4>2
      <4>4. ASSUME NEW i \in 1..Len(sendq'), i < n PROVE sendq'[i] = sendq[i]
        BY <2>3, <4>1, <4>2, <4>3, <4>4
      <4>5. ASSUME NEW i \in 1..Len(sendq'), ~(i < n) PROVE sendq'[i] = sendq[i + 1]
        <5>1. i - Len(a) \in 1..(Len(sendq) - n) /\ ~(i <= Len(a)) /\ n + (i - Len(a)) = i + 1
          BY <2>3, <4>1, <4>3, <4>5
        <5> QED BY <4>1, <4>2, <5>1
      <4> QED BY <4>3, <4>4, <4>5
    <3>4. \A i \in 1..Len(sendq') : At(i) \in 1..Len(sendq) /\ At(i) # n
      BY <2>3, <3>3
    <3>5. \A i, j \in 1..Len(sendq') : At(i) = At(j) => i = j
      OBVIOUS
    <3> HIDE DEF At
    <3>6. ASSUME NEW i \in 1..Len(sendq') PROVE Waits(sendq[i])'
      <4>1. PICK g \in FrameType : g = sendq'[i] /\ g = sendq[At(i)] /\ Waits(g)
        BY <2>3, <3>3, <3>4
      <4>2. g.by # RunTask
        <5>1. sendq[At(i)].by # sendq[n].by
          BY <3>4 DEF InLine
        <5> QED BY <2>5, <4>1, <5>1
      <4>3. Waits(g)'
        BY <2>2, <4>1, <4>2
      <4> QED BY <4>1, <4>3 DEF Waits
    <3>7. ASSUME NEW i \in 1..Len(sendq'), NEW j \in 1..Len(sendq'), sendq'[i].by = sendq'[j].by
          PROVE  i = j
      <4>1. At(i) = At(j)
        BY <3>3, <3>4, <3>7 DEF InLine
      <4> QED BY <3>5, <4>1
    <3> QED BY <3>6, <3>7 DEF InLine
  <2> QED BY <1>6, <2>4, <2>5 DEF StopCancel, Withdraw
<1>7. \/ UNCHANGED <<sendq, pc, key>> /\ (run = "resubscribing" => run' = "resubscribing")
      \/ UNCHANGED <<pc, key>> /\ run # "resubscribing" /\ Resubscribe
      \/ \E c \in Callers, k \in Keys : Subscribe(c, k)
      \/ \E c \in Callers : Unsubscribe(c)
      \/ SendNext
      \/ StopCancel
  BY DEF Next, RunStep, vars, Start, ConnectOk, LoginOk, LoginFail, ReadEndClean, ReadEndError,
         WaitEnd, ConnectFail, LinkDrop, ReadUnexpected, Stop, ServerStep, LoopTop
<1> QED BY <1>1, <1>2, <1>3, <1>4, <1>5, <1>6, <1>7

-----------------------------------------------------------------------------
(* What the server will come to push *)

\* A frame that joins the line decides for its keys.
LEMMA JoinLine ==
  ASSUME Types, NEW f \in FrameType, sendq' = Append(sendq, f), UNCHANGED <<wire, server>>, NEW k
  PROVE  WillPush(k)' <=> IF k \in f.keys THEN f.op = "subscribe" ELSE WillPush(k)
<1>1. wire \in Seq(FrameType) /\ sendq \in Seq(FrameType)
  BY DEF Types
<1>2. Line \in Seq(FrameType) /\ Line' = Append(Line, f)
  BY <1>1, LineEnds DEF Line
<1>3. /\ On(Append(Line, f), k) <=> IF k \in f.keys THEN f.op = "subscribe" ELSE On(Line, k)
      /\ Silent(Append(Line, f), k) <=> Silent(Line, k) /\ k \notin f.keys
  BY <1>2, LastFrame
<1>4. WillPush(k)' <=> On(Line', k) \/ (Silent(Line', k) /\ k \in server)
  BY DEF WillPush, On, Silent
<1> QED BY <1>2, <1>3, <1>4 DEF WillPush

\* The last mention of a key in line is the subscribe of a task that waits for
\* it: the registry counts that task.
LEMMA QueueHolds ==
  ASSUME Types, RefsAreCounts, InLine, run # "resubscribing", NEW k \in Keys, On(sendq, k)
  PROVE  refs[k] > 0
<1>1. PICK i \in 1..Len(sendq) : k \in sendq[i].keys /\ sendq[i].op = "subscribe"
  BY DEF On
<1>2. sendq[i] \in FrameType /\ Waits(sendq[i])
  BY ElementOfSeq DEF Types, InLine
<1>3. sendq[i].by \in Callers /\ pc[sendq[i].by] = "subscribing" /\ key[sendq[i].by] = k
  BY <1>1, <1>2 DEF Waits, FrameType
<1>4. Counted(k) # {}
  BY <1>3 DEF Counted
<1> QED BY <1>4, CountedFinite DEF RefsAreCounts, Types

\* What is said of a step that leaves the server's view as it was.
LEMMA SameLine ==
  ASSUME Session, Line' = Line, UNCHANGED <<sock, connected, authed, server, refs>>,
         run' \in {run, "reading"}, run = "login" => run' = "login",
         sock = "open" /\ ~authed => wire' # <<>> /\ Head(wire').op = "login",
         sock = "open" => \A i \in 1..Len(wire') : wire'[i].op = "login" => wire'[i].keys = {}
  PROVE  Session'
<1>1. \A k : WillPush(k)' <=> WillPush(k)
  BY DEF WillPush, On, Silent
<1> SUFFICES ASSUME sock = "open" PROVE Session'
  BY DEF Session
<1>2. connected' /\ run' \in {"login", "resubscribing", "reading"}
  BY DEF Session
<1>3. ~authed' => wire' # <<>> /\ Head(wire').op = "login"
  OBVIOUS
<1>4. \A k \in Keys : WillPush(k)' => refs'[k] > 0
  BY <1>1 DEF Session
<1>5. run' # "login" => \A k \in Keys : refs'[k] > 0 => WillPush(k)'
  BY <1>1 DEF Session
<1> QED BY <1>2, <1>3, <1>4, <1>5 DEF Session

\* The socket is new: the server pushes nothing, and what is in line is from
\* tasks the registry counts.
LEMMA SessionOpens ==
  ASSUME Types, RefsAreCounts, InLine, ConnectOk
  PROVE  Session'
<1>1. /\ run = "connecting" /\ connected' = TRUE /\ server' = {} /\ refs' = refs
      /\ sendq \in Seq(FrameType)
  BY DEF ConnectOk, Types, callerVars
<1>2. \A k \in Keys : On(sendq, k) => refs[k] > 0
  BY <1>1, QueueHolds
<1>3. \A k : WillPush(k)' <=> On(Line', k)
  BY <1>1 DEF WillPush, On, Silent
<1>4. CASE NeedsLogin
  <2>0. PICK f : f = Frame("login", {}, RunTask)
    OBVIOUS
  <2>1. f \in FrameType /\ f.op = "login" /\ f.keys = {}
    BY <2>0 DEF Frame, FrameType
  <2>2. wire' = <<f>> /\ sendq' = sendq /\ run' = "login" /\ <<f>> \in Seq(FrameType) /\ <<f>> # <<>>
        /\ Head(<<f>>) = f /\ Tail(<<f>>) = <<>> /\ Len(<<f>>) = 1
    BY <1>4, <2>0, <2>1 DEF ConnectOk
  <2>3. /\ <<f>> \o sendq \in Seq(FrameType) /\ <<f>> \o sendq # <<>>
        /\ Head(<<f>> \o sendq) = f /\ Tail(<<f>> \o sendq) = sendq
    BY <1>1, <2>2, LineEnds, ConcatEmptySeq
  <2>4. Line' = <<f>> \o sendq
    BY <2>2 DEF Line
  <2>5. ASSUME NEW k PROVE On(<<f>> \o sendq, k) <=> On(sendq, k)
    <3>1. PICK t : t = <<f>> \o sendq
      OBVIOUS
    <3>2. t \in Seq(FrameType) /\ t # <<>> /\ Head(t) = f /\ Tail(t) = sendq
      BY <2>3, <3>1
    <3>3. On(t, k) <=> \/ On(Tail(t), k)
                       \/ Silent(Tail(t), k) /\ k \in Head(t).keys /\ Head(t).op = "subscribe"
      BY <3>2, FirstFrame
    <3> QED BY <2>1, <3>1, <3>2, <3>3
  <2>6. \A k \in Keys : WillPush(k)' => refs'[k] > 0
    BY <1>1, <1>2, <1>3, <2>4, <2>5
  <2>7. \A i \in 1..Len(wire') : wire'[i].op = "login" => wire'[i].keys = {}
    <3>1. \A i \in 1..Len(wire') : i = 1
      BY <2>2
    <3> QED BY <2>1, <2>2, <3>1
  <2>8. wire' # <<>> /\ Head(wire').op = "login"
    BY <2>1, <2>2
  <2> QED BY <1>1, <2>2, <2>6, <2>7, <2>8 DEF Session
<1>5. CASE ~NeedsLogin
  <2>1. Resubscribe /\ wire' = <<>> /\ authed' = TRUE
    BY <1>5 DEF ConnectOk
  <2>2. sendq' \in Seq(FrameType) /\ run' \in {"resubscribing", "reading"}
    BY <1>1, <2>1, RunFrames DEF Resubscribe
  <2>3. Line' = sendq'
    BY <2>1, <2>2, ConcatEmptySeq DEF Line
  <2>4. \A k \in Keys : On(sendq', k) <=> refs[k] > 0
    <3>1. CASE Active = {} /\ UNCHANGED sendq
      BY <1>2, <3>1 DEF Active
    <3>2. CASE sendq' = Append(sendq, Frame("subscribe", Active, RunTask))
      <4>0. PICK f : f = Frame("subscribe", Active, RunTask)
        OBVIOUS
      <4>1. f \in FrameType /\ f.op = "subscribe" /\ f.keys = Active
        BY <4>0 DEF Frame, FrameType, Active
      <4>2. \A k : On(sendq', k) <=> IF k \in f.keys THEN f.op = "subscribe" ELSE On(sendq, k)
        BY <1>1, <3>2, <4>0, <4>1, LastFrame
      <4> QED BY <1>2, <4>1, <4>2 DEF Active
    <3> QED BY <2>1, <3>1, <3>2 DEF Resubscribe
  <2>5. \A k \in Keys : WillPush(k)' <=> refs'[k] > 0
    BY <1>1, <1>3, <2>3, <2>4
  <2>6. \A i \in 1..Len(wire') : wire'[i].op = "login" => wire'[i].keys = {}
    <3>1. Len(wire') = 0
      BY <2>1
    <3> QED BY <3>1
  <2> QED BY <1>1, <2>1, <2>2, <2>5, <2>6 DEF Session
<1> QED BY <1>4, <1>5

\* The server takes the first frame: what the line leaves it at stays the same.
LEMMA SessionServes ==
  ASSUME Types, Session, ServerStep
  PROVE  Session'
<1> SUFFICES ASSUME sock = "open" PROVE Session'
  BY DEF Session, ServerStep, connVars
<1>1. PICK f : f = Head(wire)
  OBVIOUS
<1>2. wire \in Seq(FrameType) /\ sendq \in Seq(FrameType) /\ wire # <<>> /\ f \in FrameType
  BY <1>1, HeadTailProperties DEF Types, ServerStep
<1>3. /\ wire' = Tail(wire) /\ UNCHANGED <<sock, connected, run, sendq, refs>>
      /\ authed' = (authed \/ f.op = "login")
  BY <1>1 DEF ServerStep, connVars, callerVars
<1>4. /\ Len(wire) \in Nat \ {0} /\ f = wire[1] /\ 1 \in 1..Len(wire)
      /\ Len(wire') = Len(wire) - 1 /\ \A i \in 1..Len(wire') : wire'[i] = wire[i + 1]
  BY <1>1, <1>2, <1>3, HeadTailProperties, EmptySeq, LenProperties
<1>5. f.op = "login" => f.keys = {}
  BY <1>4 DEF Session
<1>6. authed' = TRUE /\ (authed \/ f.op = "login")
  BY <1>1, <1>3 DEF Session, Types
<1>7. \A i \in 1..Len(wire') : wire'[i].op = "login" => wire'[i].keys = {}
  <2>1. \A i \in 1..Len(wire') : i + 1 \in 1..Len(wire)
    BY <1>4
  <2> QED BY <1>4, <2>1 DEF Session
<1>8. PICK t : t = Line
  OBVIOUS
<1>9. t \in Seq(FrameType) /\ t # <<>> /\ Head(t) = f /\ Line' = Tail(t)
  BY <1>1, <1>2, <1>3, <1>8, LineEnds DEF Line
<1>10. ASSUME NEW k \in Keys PROVE WillPush(k)' <=> WillPush(k)
  <2>1. WillPush(k) <=> On(t, k) \/ (Silent(t, k) /\ k \in server)
    BY <1>8 DEF WillPush
  <2>2. WillPush(k)' <=> On(Tail(t), k) \/ (Silent(Tail(t), k) /\ k \in server')
    BY <1>9 DEF WillPush, On, Silent
  <2>3. k \in server' <=> \/ k \in f.keys /\ f.op = "subscribe"
                          \/ k \notin f.keys /\ k \in server
    <3>1. server' = CASE f.op = "subscribe" /\ authed -> server \union f.keys
                      [] f.op = "unsubscribe" /\ authed -> server \ f.keys
                      [] OTHER -> server
      BY <1>1 DEF ServerStep
    <3>2. CASE f.op = "subscribe"
      <4>1. server' = server \union f.keys
        BY <1>6, <3>1, <3>2
      <4> QED BY <3>2, <4>1
    <3>3. CASE f.op = "unsubscribe"
      <4>1. server' = server \ f.keys
        BY <1>6, <3>1, <3>3
      <4> QED BY <3>3, <4>1
    <3>4. CASE f.op = "login"
      <4>1. server' = server
        BY <3>1, <3>4
      <4> QED BY <1>5, <3>4, <4>1
    <3> QED BY <1>2, <3>2, <3>3, <3>4 DEF FrameType
  <2>4. /\ On(t, k) <=> \/ On(Tail(t), k)
                        \/ Silent(Tail(t), k) /\ k \in f.keys /\ f.op = "subscribe"
        /\ Silent(t, k) <=> Silent(Tail(t), k) /\ k \notin f.keys
    BY <1>9, FirstFrame
  <2> QED BY <2>1, <2>2, <2>3, <2>4
<1>11. connected' /\ run' \in {"login", "resubscribing", "reading"}
  BY <1>3 DEF Session
<1>12. \A k \in Keys : WillPush(k)' => refs'[k] > 0
  BY <1>3, <1>10 DEF Session
<1>13. run' # "login" => \A k \in Keys : refs'[k] > 0 => WillPush(k)'
  BY <1>3, <1>10 DEF Session
<1> QED BY <1>6, <1>7, <1>11, <1>12, <1>13 DEF Session

\* The first in line writes its frame, or finds no socket.
LEMMA SessionSends ==
  ASSUME Types, InLine, Session, SendNext
  PROVE  Session'
<1> SUFFICES ASSUME sock = "open" PROVE Session'
  BY DEF Session, SendNext
<1>1. PICK f : f = Head(sendq)
  OBVIOUS
<1>2. /\ wire \in Seq(FrameType) /\ sendq \in Seq(FrameType) /\ sendq # <<>>
      /\ f \in FrameType /\ Waits(f)
  <2>1. 1 \in 1..Len(sendq) /\ f = sendq[1]
    BY <1>1, EmptySeq, LenProperties DEF Types, SendNext
  <2> QED BY <2>1, ElementOfSeq DEF Types, InLine, SendNext
<1>3. /\ wire' = Append(wire, f) /\ sendq' = Tail(sendq) /\ f.op # "login"
      /\ UNCHANGED <<sock, connected, authed, server, refs>>
      /\ run' \in {run, "reading"} /\ (run = "login" => run' = "login")
  <2>1. Sent(f) /\ UNCHANGED <<sock, connected, refs>> /\ sendq' = Tail(sendq)
    BY <1>1 DEF SendNext, SendFailed
  <2>2. f.by = RunTask => run = "resubscribing"
    BY <1>2 DEF Waits
  <2>3. f.op # "login"
    BY <1>2 DEF Waits
  <2> QED BY <2>1, <2>2, <2>3 DEF Sent
<1>4. Line' = Line
  BY <1>1, <1>2, <1>3, LineMoves DEF Line
<1>5. /\ Len(wire) \in Nat /\ Len(wire') = Len(wire) + 1 /\ wire'[Len(wire) + 1] = f
      /\ \A i \in 1..Len(wire) : wire'[i] = wire[i]
      /\ wire' \in Seq(FrameType)
  BY <1>2, <1>3, AppendProperties, LenProperties
<1>6. ~authed => wire' # <<>> /\ Head(wire').op = "login"
  <2> SUFFICES ASSUME ~authed PROVE wire' # <<>> /\ Head(wire').op = "login"
    OBVIOUS
  <2>1. wire # <<>> /\ Head(wire).op = "login"
    BY DEF Session
  <2>2. Len(wire) # 0 /\ Head(wire) = wire[1]
    BY <1>2, <2>1, EmptySeq
  <2>3. wire' # <<>> /\ Head(wire') = wire'[1]
    BY <1>5, EmptySeq
  <2> QED BY <1>5, <2>1, <2>2, <2>3
<1>7. \A i \in 1..Len(wire') : wire'[i].op = "login" => wire'[i].keys = {}
  <2>1. \A i \in 1..Len(wire') : i \in 1..Len(wire) \/ i = Len(wire) + 1
    BY <1>5
  <2> QED BY <1>3, <1>5, <2>1 DEF Session
<1> QED BY <1>3, <1>4, <1>6, <1>7, SameLine

\* The session is resumed: all that is registered is asked for at once.
LEMMA SessionResumes ==
  ASSUME Types, Session, LoginOk
  PROVE  Session'
<1>1. /\ run = "login" /\ sock = "open" /\ authed
      /\ UNCHANGED <<connected, sock, refs, wire, authed, server>> /\ Resubscribe
  BY DEF LoginOk, callerVars, serverVars
<1>2. CASE UNCHANGED sendq /\ Active = {}
  <2>1. \A k : WillPush(k)' <=> WillPush(k)
    BY <1>1, <1>2 DEF WillPush, On, Silent, Line
  <2>2. \A k \in Keys : ~(refs[k] > 0)
    BY <1>2 DEF Active
  <2>3. run' = "reading"
    BY <1>1, <1>2 DEF Resubscribe
  <2> QED BY <1>1, <2>1, <2>2, <2>3 DEF Session
<1>3. CASE sendq' = Append(sendq, Frame("subscribe", Active, RunTask)) /\ run' = "resubscribing"
  <2>1. PICK f : f = Frame("subscribe", Active, RunTask)
    OBVIOUS
  <2>2. f \in FrameType /\ f.op = "subscribe" /\ f.keys = Active
    BY <2>1 DEF Frame, FrameType, Active
  <2>3. \A k : WillPush(k)' <=> IF k \in f.keys THEN f.op = "subscribe" ELSE WillPush(k)
    BY <1>1, <1>3, <2>1, <2>2, JoinLine
  <2>4. \A k \in Keys : WillPush(k)' <=> refs[k] > 0
    BY <1>1, <2>2, <2>3 DEF Session, Active
  <2> QED BY <1>1, <1>3, <2>4 DEF Session
<1> QED BY <1>1, <1>2, <1>3 DEF Resubscribe

\* A new key is asked for at once when the endpoint is up; a held one is
\* already on its way.
LEMMA SessionSubscribes ==
  ASSUME Types, Session, NEW c \in Callers, NEW k \in Keys, Subscribe(c, k)
  PROVE  Session'
<1> SUFFICES ASSUME sock = "open" PROVE Session'
  BY DEF Session, Subscribe, connVars
<1>1. /\ UNCHANGED <<run, connected, sock, wire, authed, server>> /\ connected
      /\ refs' = [refs EXCEPT ![k] = @ + 1] /\ refs \in [Keys -> Nat]
  BY DEF Subscribe, AddRef, Session, connVars, serverVars, Types
<1>2. \A j \in Keys : refs'[j] > 0 <=> j = k \/ refs[j] > 0
  BY <1>1
<1>3. CASE refs[k] = 0 /\ sendq' = Append(sendq, Frame("subscribe", {k}, c))
  <2>1. PICK f : f = Frame("subscribe", {k}, c)
    OBVIOUS
  <2>2. f \in FrameType /\ f.op = "subscribe" /\ f.keys = {k}
    BY <2>1 DEF Frame, FrameType
  <2>3. \A j : WillPush(j)' <=> IF j \in f.keys THEN f.op = "subscribe" ELSE WillPush(j)
    BY <1>1, <1>3, <2>1, <2>2, JoinLine
  <2>4. \A j \in Keys : WillPush(j)' <=> j = k \/ WillPush(j)
    BY <2>2, <2>3
  <2> QED BY <1>1, <1>2, <2>4 DEF Session
<1>4. CASE refs[k] # 0 /\ UNCHANGED sendq
  <2>1. \A j : WillPush(j)' <=> WillPush(j)
    BY <1>1, <1>4 DEF WillPush, On, Silent, Line
  <2>2. refs[k] > 0
    BY <1>1, <1>4
  <2> QED BY <1>1, <1>2, <2>1, <2>2 DEF Session
<1> QED BY <1>1, <1>3, <1>4 DEF Subscribe, FirstRef, IsConnected

\* The last holder takes the key back; another one leaves it where it is.
LEMMA SessionUnsubscribes ==
  ASSUME Types, RefsAreCounts, Session, NEW c \in Callers, Unsubscribe(c)
  PROVE  Session'
<1> SUFFICES ASSUME sock = "open" PROVE Session'
  BY DEF Session, Unsubscribe, connVars
<1>0. PICK k \in Keys : k = key[c]
  BY DEF Types
<1>1. /\ UNCHANGED <<run, connected, sock, wire, authed, server>> /\ connected
      /\ refs' = [refs EXCEPT ![k] = IF @ <= 1 THEN 0 ELSE @ - 1] /\ refs \in [Keys -> Nat]
  BY <1>0 DEF Unsubscribe, DropRef, Session, connVars, serverVars, Types
<1>2. refs[k] > 0
  <2>1. Counted(k) # {}
    BY <1>0 DEF Counted, Unsubscribe
  <2> QED BY <2>1, CountedFinite DEF RefsAreCounts, Types
<1>3. CASE refs[k] = 1 /\ sendq' = Append(sendq, Frame("unsubscribe", {k}, c))
  <2>1. PICK f : f = Frame("unsubscribe", {k}, c)
    OBVIOUS
  <2>2. f \in FrameType /\ f.op = "unsubscribe" /\ f.keys = {k}
    BY <2>1 DEF Frame, FrameType
  <2>3. \A j : WillPush(j)' <=> IF j \in f.keys THEN f.op = "subscribe" ELSE WillPush(j)
    BY <1>1, <1>3, <2>1, <2>2, JoinLine
  <2>4. \A j \in Keys : WillPush(j)' <=> j # k /\ WillPush(j)
    BY <2>2, <2>3
  <2>5. \A j \in Keys : refs'[j] > 0 <=> j # k /\ refs[j] > 0
    BY <1>1, <1>3
  <2> QED BY <1>1, <2>4, <2>5 DEF Session
<1>4. CASE refs[k] # 1 /\ UNCHANGED sendq
  <2>1. \A j : WillPush(j)' <=> WillPush(j)
    BY <1>1, <1>4 DEF WillPush, On, Silent, Line
  <2>2. \A j \in Keys : refs'[j] > 0 <=> refs[j] > 0
    BY <1>1, <1>2, <1>4
  <2> QED BY <1>1, <2>1, <2>2 DEF Session
<1> QED BY <1>0, <1>1, <1>3, <1>4 DEF Unsubscribe, LastRef, IsConnected

LEMMA SessionStep ==
  ASSUME WSInv, [Next]_vars
  PROVE  Session'
<1> USE DEF WSInv
<1>1. CASE sock' # "open"
  BY <1>1 DEF Session
<1>2. CASE LoginFail \/ LinkDrop \/ ReadEndClean \/ ReadEndError \/ ReadUnexpected \/ StopCancel \/ Stop
  <2>1. sock' # "open"
    BY <1>2 DEF LoginFail, LinkDrop, ReadEndClean, ReadEndError, ReadUnexpected, StopCancel, Stop,
                CloseSocket, ReadFinally
  <2> QED BY <1>1, <2>1
<1>3. CASE ConnectFail \/ Start \/ WaitEnd
  <2>1. sock # "open" /\ sock' = sock
    BY <1>3 DEF ConnectFail, Start, WaitEnd, Session
  <2> QED BY <1>1, <2>1
<1>4. CASE UNCHANGED vars
  BY <1>4 DEF vars, Session, WillPush, On, Silent, Line
<1> QED BY <1>2, <1>3, <1>4, SessionOpens, SessionResumes, SessionSubscribes, SessionUnsubscribes,
           SessionSends, SessionServes DEF Next, RunStep

-----------------------------------------------------------------------------
(* The endpoint *)

\* Nothing is registered and nothing is open when the client starts.
LEMMA WSInit == Init => WSInv
<1> SUFFICES ASSUME Init PROVE WSInv
  OBVIOUS
<1>1. Types
  <2>1. attempt \in 0..MaxAttempt /\ faults \in 0..MaxFaults /\ bugs \in 0..MaxBugs
    BY ConstantsAssumption DEF Init, MaxAttempt
  <2>2. sendq \in Seq(FrameType) /\ wire \in Seq(FrameType)
    BY EmptySeq DEF Init
  <2>3. refs \in [Keys -> Nat] /\ key \in [Callers -> Keys]
        /\ pc \in [Callers -> {"idle", "subscribing", "holding", "leaving", "failed"}]
    BY DEF Init
  <2> QED BY <2>1, <2>2, <2>3 DEF Init, Types, RunStates
<1>2. RefsAreCounts
  <2>1. \A k \in Keys : Counted(k) = {}
    BY DEF Init, Counted
  <2> QED BY <2>1, FS_EmptySet DEF Init, RefsAreCounts
<1>3. InLine
  BY DEF Init, InLine
<1>4. Session
  BY DEF Init, Session
<1> QED BY <1>1, <1>2, <1>3, <1>4 DEF WSInv

\* The counts, the line and the session hold together: each needs the others.
THEOREM WSInvariant == Spec => []WSInv
<1>1. WSInv /\ [Next]_vars => WSInv'
  BY TypesStep, RefsStep, InLineStep, SessionStep DEF WSInv
<1> QED BY <1>1, WSInit, PTL DEF Spec

\* Every variable of the endpoint keeps its type, and a key never counts more
\* references than there are callers (SubscriptionRegistry.add / remove).
THEOREM TypeCorrect == Spec => []TypeOK
<1>1. WSInv => TypeOK
  <2> SUFFICES ASSUME WSInv PROVE TypeOK
    OBVIOUS
  <2>1. \A k \in Keys : refs[k] \in 0..Cardinality(Callers)
    BY CountedFinite DEF WSInv, RefsAreCounts
  <2>2. refs \in [Keys -> 0..Cardinality(Callers)]
    BY <2>1 DEF WSInv, Types
  <2> QED BY <2>2 DEF WSInv, Types, TypeOK
<1> QED BY <1>1, WSInvariant, PTL

\* A key that a task holds is in the registry, so that the next connection
\* subscribes to it again; a key counts more than its holders only when a
\* subscribe call raised after the registry had counted it.
THEOREM RegistryCounts == Spec => []RegistryCoversHolders
<1>1. ASSUME WSInv, NEW k \in Keys
      PROVE  /\ Holders(k) # {} => refs[k] > 0
             /\ refs[k] > Cardinality(Holders(k)) =>
                  \E c \in Callers : pc[c] = "failed" /\ key[c] = k
  <2>1. Holders(k) \subseteq Counted(k) /\ refs[k] = Cardinality(Counted(k)) /\ refs[k] \in Nat
    BY <1>1 DEF Holders, Counted, WSInv, RefsAreCounts, Types
  <2>2. Holders(k) # {} => refs[k] > 0
    BY <2>1, CountedFinite
  <2>3. ASSUME ~ \E c \in Callers : pc[c] = "failed" /\ key[c] = k
        PROVE  ~(refs[k] > Cardinality(Holders(k)))
    <3>1. Holders(k) = Counted(k)
      BY <2>3 DEF Holders, Counted
    <3> QED BY <2>1, <3>1
  <2> QED BY <2>2, <2>3
<1>2. WSInv => RegistryCoversHolders
  BY <1>1 DEF RegistryCoversHolders
<1> QED BY <1>2, WSInvariant, PTL

\* While the endpoint reads and no frame is under way, the server pushes
\* exactly the keys of the registry, whatever the order in which connects,
\* logins, resubscriptions, faults and the callers' own frames came.
THEOREM ServerFollows == Spec => []ServerFollowsRegistry
<1>1. WSInv => ServerFollowsRegistry
  <2> SUFFICES ASSUME WSInv, run = "reading", sock = "open", sendq = <<>>, wire = <<>>
               PROVE  server = Active
    BY DEF ServerFollowsRegistry
  <2>1. Line = <<>>
    BY EmptySeq, ConcatEmptySeq DEF Line
  <2>2. \A k : Silent(Line, k) /\ ~On(Line, k)
    BY <2>1 DEF Silent, On
  <2>3. \A k \in Keys : k \in server <=> refs[k] > 0
    BY <2>2 DEF WSInv, Session, WillPush
  <2>4. server \subseteq Keys
    BY DEF WSInv, Types
  <2> QED BY <2>3, <2>4 DEF Active
<1> QED BY <1>1, WSInvariant, PTL
=============================================================================
