------------------------- MODULE OrderLifecycle_proofs -------------------------
(***************************************************************************)
(* The order path for every set of orders, quantity and retry budget.      *)
(***************************************************************************)
EXTENDS OrderLifecycle, SequenceTheorems, TLAPS

-----------------------------------------------------------------------------
(* Types *)

\* The NT status functions stay within Status.
LEMMA StatusType ==
  ASSUME NEW s \in Status, NEW n \in Nat
  PROVE  /\ OnAccepted(s) \in Status
         /\ OnRejected(s) \in Status
         /\ OnCanceled(s) \in Status
         /\ OnCancelRejected(s, n) \in Status
         /\ OnFilled(s, n) \in Status
BY DEF Status, OnAccepted, OnRejected, OnCanceled, OnCancelRejected, OnFilled

\* A retry within the budgets has an index of its own.
LEMMA NextAttempt ==
  ASSUME NEW o \in Orders,
         net \in [Orders -> 0..MaxRetries],
         trans \in [Orders -> 0..MaxTransient],
         net[o] < MaxRetries \/ trans[o] < MaxTransient
  PROVE  Attempt(o) + 1 \in Attempts
BY ConstantsAssumption DEF Attempt, Attempts

\* TypeOK by owner: NT, the submit coroutine, OKX and its channel, the rest.
NtType ==
  /\ nt       \in [Orders -> Status]
  /\ ntFilled \in [Orders -> Nat]

TaskType ==
  /\ task  \in [Orders -> {"idle", "waiting", "done", "silent"}]
  /\ net   \in [Orders -> 0..MaxRetries]
  /\ trans \in [Orders -> 0..MaxTransient]
  /\ wire  \in [Orders -> SUBSET Attempts]
  /\ reply \in [Orders -> Answers \union {"none"}]

VenueType ==
  /\ book    \in [Orders -> SUBSET {ClOrdId(o, a) : o \in Orders, a \in Attempts}]
  /\ venue   \in [Orders -> {"absent", "live", "filled", "canceled"}]
  /\ vFilled \in [Orders -> 0..Qty]
  /\ push    \in [Orders -> Seq(Frames)]

OtherType ==
  /\ lost    \in [Orders -> BOOLEAN]
  /\ unclear \in [Orders -> BOOLEAN]
  /\ expired \in [Orders -> BOOLEAN]
  /\ cancel  \in [Orders -> {"none", "wire", "ok", "failed"}]

Types == NtType /\ TaskType /\ VenueType /\ OtherType

\* The four groups are TypeOK.
LEMMA TypeGroups == Types <=> TypeOK
BY DEF Types, TypeOK, NtType, TaskType, VenueType, OtherType

\* The exception handler keeps the types of what it changes.
LEMMA RejectType ==
  ASSUME NEW o \in Orders, NtType, TaskType, RejectOnException(o)
  PROVE  /\ nt' \in [Orders -> Status]
         /\ task' \in [Orders -> {"idle", "waiting", "done", "silent"}]
BY DEF NtType, TaskType, RejectOnException, OnRejected, Status

\* So do the two retry branches, which stay within their budgets.
LEMMA RetryType ==
  ASSUME NEW o \in Orders, NtType, TaskType,
         RetryNetwork(o) \/ RetryTransient(o),
         reply' = [reply EXCEPT ![o] = "none"],
         UNCHANGED ntFilled
  PROVE  NtType' /\ TaskType'
<1> USE ConstantsAssumption
<1>0. reply' \in [Orders -> Answers \union {"none"}]
  BY DEF TaskType
<1>1. CASE RetryNetwork(o) /\ net[o] < MaxRetries
  <2>1. UNCHANGED <<nt, task, trans>>
    BY <1>1 DEF RetryNetwork
  <2>2. net' \in [Orders -> 0..MaxRetries]
    BY <1>1 DEF RetryNetwork, TaskType
  <2>3. wire' \in [Orders -> SUBSET Attempts]
    BY <1>1, NextAttempt DEF RetryNetwork, TaskType
  <2> QED BY <1>0, <2>1, <2>2, <2>3 DEF NtType, TaskType
<1>2. CASE RetryTransient(o) /\ trans[o] < MaxTransient
  <2>1. UNCHANGED <<nt, task, net>>
    BY <1>2 DEF RetryTransient
  <2>2. trans' \in [Orders -> 0..MaxTransient]
    BY <1>2 DEF RetryTransient, TaskType
  <2>3. wire' \in [Orders -> SUBSET Attempts]
    BY <1>2, NextAttempt DEF RetryTransient, TaskType
  <2> QED BY <1>0, <2>1, <2>2, <2>3 DEF NtType, TaskType
<1>3. CASE RejectOnException(o) /\ UNCHANGED <<net, trans, wire>>
  BY <1>0, <1>3, RejectType DEF NtType, TaskType
<1> QED BY <1>1, <1>2, <1>3 DEF RetryNetwork, RetryTransient

\* A routed frame keeps the types of NT's side of the order.
LEMMA HandleType ==
  ASSUME NEW o \in Orders, NEW frame \in Frames,
         NtType, HandleRouted(o, frame)
  PROVE  NtType'
<1> USE DEF NtType
<1>1. frame.fillSz \in Nat
  BY ConstantsAssumption DEF Frames
<1>2. CASE EmitFill(o, frame)
  <2>1. CASE Fillable(nt[o])
    <3>1. ntFilled' \in [Orders -> Nat]
      BY <1>1, <1>2, <2>1 DEF EmitFill
    <3>2. nt' \in [Orders -> Status]
      BY <1>1, <1>2, <2>1 DEF EmitFill, OnFilled, Status
    <3> QED BY <1>2, <3>1, <3>2
  <2>2. CASE ~Fillable(nt[o])
    BY <1>2, <2>2 DEF EmitFill
  <2> QED BY <2>1, <2>2
<1>3. CASE /\ nt' = [nt EXCEPT ![o] = OnAccepted(@)]
           /\ UNCHANGED ntFilled
  BY <1>3, StatusType
<1>4. CASE UNCHANGED ntVars
  BY <1>4 DEF ntVars
<1>5. CASE /\ nt' = [nt EXCEPT ![o] = OnCanceled(@)]
           /\ UNCHANGED ntFilled
  BY <1>5, StatusType
<1> QED BY <1>2, <1>3, <1>4, <1>5 DEF HandleRouted

\* Every variable keeps its type.  In particular the retry loop never goes
\* past its two budgets, and no order is filled beyond its quantity.
THEOREM TypeCorrect == Spec => []TypeOK
<1> USE ConstantsAssumption
<1>1. Init => TypeOK
  <2> SUFFICES ASSUME Init PROVE TypeOK
    OBVIOUS
  <2>1. push \in [Orders -> Seq(Frames)]
    BY EmptySeq DEF Init
  <2>2. lost \in [Orders -> BOOLEAN] /\ unclear \in [Orders -> BOOLEAN]
          /\ expired \in [Orders -> BOOLEAN]
    BY DEF Init
  <2> QED BY <2>1, <2>2 DEF Init, TypeOK, Status, Answers
<1>2. Types /\ [Next]_vars => Types'
  <2> SUFFICES ASSUME NtType, TaskType, VenueType, OtherType, [Next]_vars
               PROVE  Types'
    BY DEF Types
  <2> USE DEF ntVars, taskVars, venueVars
  <2>1. ASSUME NEW o \in Orders, Submit(o) PROVE Types'
    <3>1. NtType'
      BY <2>1 DEF Submit, NtType, Status
    <3>2. TaskType'
      BY <2>1 DEF Submit, TaskType, Attempts
    <3>3. VenueType'
      BY <2>1 DEF Submit, VenueType
    <3>4. OtherType'
      BY <2>1 DEF Submit, OtherType
    <3> QED BY <3>1, <3>2, <3>3, <3>4 DEF Types
  <2>2. ASSUME NEW o \in Orders, SubmitInvalid(o) PROVE Types'
    <3>1. NtType'
      BY <2>2 DEF SubmitInvalid, NtType, OnRejected, Status
    <3>2. TaskType'
      BY <2>2 DEF SubmitInvalid, TaskType
    <3>3. VenueType'
      BY <2>2 DEF SubmitInvalid, VenueType
    <3>4. OtherType'
      BY <2>2 DEF SubmitInvalid, OtherType
    <3> QED BY <3>1, <3>2, <3>3, <3>4 DEF Types
  <2>3. ASSUME NEW o \in Orders, RestOk(o) PROVE Types'
    <3>1. NtType'
      BY <2>3, StatusType DEF RestOk, NtType
    <3>2. TaskType'
      BY <2>3 DEF RestOk, TaskType, Answers
    <3>3. VenueType'
      BY <2>3 DEF RestOk, VenueType
    <3>4. OtherType'
      BY <2>3 DEF RestOk, OtherType
    <3> QED BY <3>1, <3>2, <3>3, <3>4 DEF Types
  <2>4. ASSUME NEW o \in Orders, RestBusinessError(o) PROVE Types'
    <3>1. NtType'
      BY <2>4, RejectType DEF RestBusinessError, NtType
    <3>2. TaskType'
      BY <2>4, RejectType DEF RestBusinessError, TaskType, Answers
    <3>3. VenueType'
      BY <2>4 DEF RestBusinessError, VenueType
    <3>4. OtherType'
      BY <2>4 DEF RestBusinessError, OtherType
    <3> QED BY <3>1, <3>2, <3>3, <3>4 DEF Types
  <2>4a. ASSUME NEW o \in Orders, RestUnreadable(o) PROVE Types'
    <3>1. NtType'
      BY <2>4a, RejectType DEF RestUnreadable, NtType
    <3>2. TaskType'
      BY <2>4a, RejectType DEF RestUnreadable, TaskType, Answers
    <3>3. VenueType'
      BY <2>4a DEF RestUnreadable, VenueType
    <3>4. OtherType'
      BY <2>4a DEF RestUnreadable, OtherType
    <3> QED BY <3>1, <3>2, <3>3, <3>4 DEF Types
  <2>5. ASSUME NEW o \in Orders, RestRateLimited(o) PROVE Types'
    <3>1. NtType'
      BY <2>5, RetryType DEF RestRateLimited
    <3>2. TaskType'
      BY <2>5, RetryType DEF RestRateLimited
    <3>3. VenueType'
      BY <2>5 DEF RestRateLimited, VenueType
    <3>4. OtherType'
      BY <2>5 DEF RestRateLimited, OtherType
    <3> QED BY <3>1, <3>2, <3>3, <3>4 DEF Types
  <2>6. ASSUME NEW o \in Orders, RestTransient(o) PROVE Types'
    <3>1. NtType'
      BY <2>6, RetryType DEF RestTransient
    <3>2. TaskType'
      BY <2>6, RetryType DEF RestTransient
    <3>3. VenueType'
      BY <2>6 DEF RestTransient, VenueType
    <3>4. OtherType'
      BY <2>6 DEF RestTransient, OtherType
    <3> QED BY <3>1, <3>2, <3>3, <3>4 DEF Types
  <2>7. ASSUME NEW o \in Orders, RestNoAnswer(o) PROVE Types'
    <3>1. NtType'
      BY <2>7, RetryType DEF RestNoAnswer
    <3>2. TaskType'
      BY <2>7, RetryType DEF RestNoAnswer
    <3>3. VenueType'
      BY <2>7 DEF RestNoAnswer, VenueType
    <3>4. OtherType'
      BY <2>7 DEF RestNoAnswer, OtherType
    <3> QED BY <3>1, <3>2, <3>3, <3>4 DEF Types
  <2>8. ASSUME NEW o \in Orders, NEW a \in Attempts, VenueTake(o, a) PROVE Types'
    <3>1. NtType'
      BY <2>8 DEF VenueTake, NtType
    <3>2. TaskType'
      BY <2>8 DEF VenueTake, TaskType, Answer, Answers
    <3>5. [state |-> "live", fillSz |-> 0, accFillSz |-> 0] \in Frames
      BY DEF Frames
    <3>6. ClOrdId(o, a) \in {ClOrdId(p, b) : p \in Orders, b \in Attempts}
      OBVIOUS
    <3>7. push' \in [Orders -> Seq(Frames)]
      BY <2>8, <3>5, AppendProperties DEF VenueTake, VenueType
    <3>8. book' \in [Orders -> SUBSET {ClOrdId(p, b) : p \in Orders, b \in Attempts}]
      BY <2>8, <3>6 DEF VenueTake, VenueType
    <3>3. VenueType'
      BY <2>8, <3>7, <3>8 DEF VenueTake, VenueType
    <3>4. OtherType'
      BY <2>8 DEF VenueTake, OtherType
    <3> QED BY <3>1, <3>2, <3>3, <3>4 DEF Types
  <2>9. ASSUME NEW o \in Orders, NEW a \in Attempts, VenueRefuse(o, a) PROVE Types'
    <3>1. NtType'
      BY <2>9 DEF VenueRefuse, NtType
    <3>2. TaskType'
      BY <2>9 DEF VenueRefuse, TaskType, Answer, Answers
    <3>3. VenueType'
      BY <2>9 DEF VenueRefuse, VenueType
    <3>4. OtherType'
      BY <2>9 DEF VenueRefuse, OtherType
    <3> QED BY <3>1, <3>2, <3>3, <3>4 DEF Types
  <2>10. ASSUME NEW o \in Orders, VenueFill(o) PROVE Types'
    <3>1. NtType'
      BY <2>10 DEF VenueFill, NtType
    <3>2. TaskType'
      BY <2>10 DEF VenueFill, TaskType
    <3>5. PICK sz \in 1..(Qty - vFilled[o]) :
            LET total == vFilled[o] + sz
                state == IF total = Qty THEN "filled" ELSE "partially_filled"
            IN  /\ vFilled' = [vFilled EXCEPT ![o] = total]
                /\ venue'   = [venue EXCEPT ![o] = IF total = Qty THEN "filled" ELSE @]
                /\ push'    = [push EXCEPT ![o] =
                     Append(@, [state |-> state, fillSz |-> sz, accFillSz |-> total])]
      BY <2>10 DEF VenueFill
    <3>6. vFilled[o] + sz \in 0..Qty /\ sz \in 0..Qty
      BY <2>10 DEF VenueFill, VenueType
    <3>7. [state |-> IF vFilled[o] + sz = Qty THEN "filled" ELSE "partially_filled",
           fillSz |-> sz, accFillSz |-> vFilled[o] + sz] \in Frames
      BY <3>6 DEF Frames
    <3>8. push' \in [Orders -> Seq(Frames)]
      BY <3>5, <3>7, AppendProperties DEF VenueType
    <3>9. vFilled' \in [Orders -> 0..Qty]
      BY <3>5, <3>6 DEF VenueType
    <3>10. venue' \in [Orders -> {"absent", "live", "filled", "canceled"}]
      BY <3>5 DEF VenueType
    <3>3. VenueType'
      BY <2>10, <3>8, <3>9, <3>10 DEF VenueFill, VenueType
    <3>4. OtherType'
      BY <2>10 DEF VenueFill, OtherType
    <3> QED BY <3>1, <3>2, <3>3, <3>4 DEF Types
  <2>11. ASSUME NEW o \in Orders, VenueCancel(o) PROVE Types'
    <3>1. NtType'
      BY <2>11 DEF VenueCancel, NtType
    <3>2. TaskType'
      BY <2>11 DEF VenueCancel, TaskType
    <3>5. [state |-> "canceled", fillSz |-> 0, accFillSz |-> vFilled[o]] \in Frames
      BY DEF Frames, VenueType
    <3>6. push' \in [Orders -> Seq(Frames)]
      BY <2>11, <3>5, AppendProperties DEF VenueCancel, CancelAtVenue, VenueType
    <3>3. VenueType'
      BY <2>11, <3>6 DEF VenueCancel, CancelAtVenue, VenueType
    <3>4. OtherType'
      BY <2>11 DEF VenueCancel, OtherType
    <3> QED BY <3>1, <3>2, <3>3, <3>4 DEF Types
  <2>12. ASSUME NEW o \in Orders, RequestCancel(o) PROVE Types'
    <3>1. NtType'
      BY <2>12 DEF RequestCancel, NtType, Status
    <3>2. TaskType'
      BY <2>12 DEF RequestCancel, TaskType
    <3>3. VenueType'
      BY <2>12 DEF RequestCancel, VenueType
    <3>4. OtherType'
      BY <2>12 DEF RequestCancel, OtherType
    <3> QED BY <3>1, <3>2, <3>3, <3>4 DEF Types
  <2>13. ASSUME NEW o \in Orders, CancelTaken(o) PROVE Types'
    <3>1. NtType'
      BY <2>13 DEF CancelTaken, NtType
    <3>2. TaskType'
      BY <2>13 DEF CancelTaken, TaskType
    <3>5. [state |-> "canceled", fillSz |-> 0, accFillSz |-> vFilled[o]] \in Frames
      BY DEF Frames, VenueType
    <3>6. push' \in [Orders -> Seq(Frames)]
      BY <2>13, <3>5, AppendProperties DEF CancelTaken, CancelAtVenue, VenueType
    <3>3. VenueType'
      BY <2>13, <3>6 DEF CancelTaken, CancelAtVenue, VenueType
    <3>4. OtherType'
      BY <2>13 DEF CancelTaken, OtherType
    <3> QED BY <3>1, <3>2, <3>3, <3>4 DEF Types
  <2>14. ASSUME NEW o \in Orders, CancelRefused(o) PROVE Types'
    <3>1. NtType'
      BY <2>14 DEF CancelRefused, NtType
    <3>2. TaskType'
      BY <2>14 DEF CancelRefused, TaskType
    <3>3. VenueType'
      BY <2>14 DEF CancelRefused, VenueType
    <3>4. OtherType'
      BY <2>14 DEF CancelRefused, OtherType
    <3> QED BY <3>1, <3>2, <3>3, <3>4 DEF Types
  <2>15. ASSUME NEW o \in Orders, CancelException(o) PROVE Types'
    <3>1. NtType'
      BY <2>15, StatusType DEF CancelException, NtType
    <3>2. TaskType'
      BY <2>15 DEF CancelException, TaskType
    <3>3. VenueType'
      BY <2>15 DEF CancelException, VenueType
    <3>4. OtherType'
      BY <2>15 DEF CancelException, OtherType
    <3> QED BY <3>1, <3>2, <3>3, <3>4 DEF Types
  <2>16. ASSUME NEW o \in Orders, HandleOrderUpdate(o) PROVE Types'
    <3>6. Head(push[o]) \in Frames
      BY <2>16, HeadTailProperties DEF HandleOrderUpdate, VenueType
    <3>7. ASSUME ~Routed(o) PROVE NtType'
      BY <2>16, <3>7 DEF HandleOrderUpdate, NtType
    <3>8. ASSUME HandleRouted(o, Head(push[o])) PROVE NtType'
      BY <3>6, <3>8, HandleType
    <3>1. NtType'
      BY <2>16, <3>7, <3>8 DEF HandleOrderUpdate
    <3>2. TaskType'
      BY <2>16 DEF HandleOrderUpdate, TaskType
    <3>5. push' \in [Orders -> Seq(Frames)]
      BY <2>16, HeadTailProperties DEF HandleOrderUpdate, VenueType
    <3>3. VenueType'
      BY <2>16, <3>5 DEF HandleOrderUpdate, VenueType
    <3>4. OtherType'
      BY <2>16 DEF HandleOrderUpdate, OtherType
    <3> QED BY <3>1, <3>2, <3>3, <3>4 DEF Types
  <2>17. ASSUME NEW o \in Orders, InFlightExpire(o) PROVE Types'
    <3>1. NtType'
      BY <2>17, StatusType DEF InFlightExpire, NtType
    <3>2. TaskType'
      BY <2>17 DEF InFlightExpire, TaskType
    <3>3. VenueType'
      BY <2>17 DEF InFlightExpire, VenueType
    <3>4. OtherType'
      BY <2>17 DEF InFlightExpire, OtherType
    <3> QED BY <3>1, <3>2, <3>3, <3>4 DEF Types
  <2>18. CASE WSDrop
    <3>1. push' \in [Orders -> Seq(Frames)]
      BY <2>18, EmptySeq DEF WSDrop
    <3>2. lost' \in [Orders -> BOOLEAN]
      BY <2>18, Zenon DEF WSDrop
    <3>3. NtType' /\ TaskType'
      BY <2>18 DEF WSDrop, NtType, TaskType
    <3>4. VenueType' /\ OtherType'
      BY <2>18, <3>1, <3>2 DEF WSDrop, VenueType, OtherType
    <3> QED BY <3>3, <3>4 DEF Types
  <2>19. CASE UNCHANGED vars
    <3>1. NtType' /\ TaskType'
      BY <2>19 DEF vars, NtType, TaskType
    <3>2. VenueType' /\ OtherType'
      BY <2>19 DEF vars, VenueType, OtherType
    <3> QED BY <3>1, <3>2 DEF Types
  <2> HIDE DEF ntVars, taskVars, venueVars
  <2> QED BY <2>1, <2>2, <2>3, <2>4, <2>4a, <2>5, <2>6, <2>7, <2>8, <2>9, <2>10,
             <2>11, <2>12, <2>13, <2>14, <2>15, <2>16, <2>17, <2>18, <2>19
          DEF Next, SubmitTask, CancelTask, Exchange
<1> QED BY <1>1, <1>2, TypeGroups, PTL DEF Spec

-----------------------------------------------------------------------------
(* One NT order is at most one order at OKX *)

\* The only identifier OKX can know an order by.
OneName == \A o \in Orders : book[o] \subseteq {ClOrdId(o, 0)}

\* OneName is inductive.
LEMMA OneNameInvariant == Spec => []OneName
<1>1. Init => OneName
  BY DEF Init, OneName
<1>2. Types /\ OneName /\ [Next]_vars => OneName'
  <2> SUFFICES ASSUME VenueType, OneName, [Next]_vars PROVE OneName'
    BY DEF Types
  <2>1. ASSUME NEW o \in Orders, NEW a \in Attempts, VenueTake(o, a) PROVE OneName'
    <3>1. ClOrdId(o, a) = ClOrdId(o, 0)
      BY DEF ClOrdId
    <3> QED BY <2>1, <3>1 DEF VenueTake, OneName, VenueType
  <2>2. CASE UNCHANGED book
    BY <2>2 DEF OneName
  <2>3. UNCHANGED book \/ \E o \in Orders, a \in Attempts : VenueTake(o, a)
    BY DEF Next, vars, venueVars, Submit, SubmitInvalid, SubmitTask, RestOk,
           RestBusinessError, RestUnreadable, RestRateLimited, RestTransient, RestNoAnswer,
           Exchange, VenueRefuse, VenueFill, VenueCancel, RequestCancel,
           CancelTask, CancelTaken, CancelRefused, CancelException,
           HandleOrderUpdate, WSDrop, InFlightExpire
  <2> QED BY <2>1, <2>2, <2>3
<1> QED BY <1>1, <1>2, TypeCorrect, TypeGroups, PTL DEF Spec

\* Every attempt carries one clOrdId, so the book has at most one entry.
LEMMA IdempotentSubmit == Spec => []OneVenueOrder
<1>1. OneName => OneVenueOrder
  BY DEF OneName, OneVenueOrder
<1> QED BY <1>1, OneNameInvariant, PTL

-----------------------------------------------------------------------------
(* NT trails the exchange *)

Known == {"ACCEPTED", "PARTIALLY_FILLED", "PENDING_CANCEL", "FILLED", "CANCELED"}

\* What NT has booked, the frames under way and OKX's own total form a chain:
\* every frame begins where the ones before it ended, at the latest.
Trails(o) ==
  /\ book[o] = {} => /\ venue[o] = "absent" /\ vFilled[o] = 0
                     /\ push[o] = <<>> /\ reply[o] \notin {"ok", "noid"}
                     /\ nt[o] \notin Known
  /\ book[o] # {} => venue[o] # "absent"
  /\ vFilled[o] = Qty => venue[o] = "filled"
  /\ nt[o] = "FILLED" => ntFilled[o] >= Qty
  /\ ntFilled[o] <= vFilled[o]
  /\ \A i \in 1..Len(push[o]) :
       /\ ntFilled[o] <= push[o][i].accFillSz - push[o][i].fillSz
       /\ push[o][i].accFillSz <= vFilled[o]
  /\ \A i, j \in 1..Len(push[o]) :
       i < j => push[o][i].accFillSz <= push[o][j].accFillSz - push[o][j].fillSz

Trailing == \A p \in Orders : Trails(p)

\* Trails depends on one order's variables only, and on NT's status only for
\* whether OKX knows the order and whether NT has it filled.
LEMMA TrailsFrame ==
  ASSUME NEW p \in Orders, Trails(p),
         book'[p] = book[p], venue'[p] = venue[p], vFilled'[p] = vFilled[p],
         push'[p] = push[p], ntFilled'[p] = ntFilled[p],
         reply'[p] \in {"ok", "noid"} => book[p] # {},
         nt'[p] \in Known => book[p] # {},
         nt'[p] = "FILLED" => nt[p] = "FILLED"
  PROVE  Trails(p)'
BY DEF Trails

\* The quantities of a frame in the channel are numbers.
LEMMA FrameAt ==
  ASSUME NEW s \in Seq(Frames), NEW i \in 1..Len(s)
  PROVE  s[i].accFillSz \in Nat /\ s[i].fillSz \in Nat
<1>1. s[i] \in Frames
  BY ElementOfSeq
<1> QED BY <1>1, ConstantsAssumption DEF Frames

\* A frame that begins at OKX's old total and ends at the new one.
LEMMA AppendTrails ==
  ASSUME NEW p \in Orders, Types, Trails(p), NEW frame \in Frames,
         book'[p] # {}, venue'[p] # "absent",
         vFilled'[p] = Qty => venue'[p] = "filled",
         vFilled'[p] = frame.accFillSz,
         vFilled[p] = frame.accFillSz - frame.fillSz,
         push'[p] = Append(push[p], frame),
         nt'[p] = nt[p], ntFilled'[p] = ntFilled[p]
  PROVE  Trails(p)'
<1> USE ConstantsAssumption
<1>1. /\ frame.accFillSz \in Nat /\ frame.fillSz \in Nat
      /\ vFilled[p] \in Nat /\ ntFilled[p] \in Nat
  BY DEF Frames, Types, NtType, VenueType
<1>2. /\ push[p] \in Seq(Frames)
      /\ Len(push[p]) \in Nat
      /\ Len(push'[p]) = Len(push[p]) + 1
      /\ \A i \in 1..Len(push[p]) : push'[p][i] = push[p][i]
      /\ push'[p][Len(push[p]) + 1] = frame
  BY AppendProperties, LenProperties DEF Types, VenueType
<1>3. \A i \in 1..Len(push[p]) :
        push[p][i].accFillSz \in Nat /\ push[p][i].fillSz \in Nat
  BY <1>2, FrameAt
<1>4. \A i \in 1..Len(push'[p]) :
        i \in 1..Len(push[p]) \/ i = Len(push[p]) + 1
  BY <1>2
<1>5. \A i \in 1..Len(push'[p]) :
        /\ ntFilled[p] <= push'[p][i].accFillSz - push'[p][i].fillSz
        /\ push'[p][i].accFillSz <= vFilled'[p]
  BY <1>1, <1>2, <1>3, <1>4 DEF Trails
<1>6. \A i, j \in 1..Len(push'[p]) :
        i < j => push'[p][i].accFillSz <= push'[p][j].accFillSz - push'[p][j].fillSz
  <2> SUFFICES ASSUME NEW i \in 1..Len(push'[p]), NEW j \in 1..Len(push'[p]), i < j
               PROVE  push'[p][i].accFillSz <= push'[p][j].accFillSz - push'[p][j].fillSz
    OBVIOUS
  <2>1. i \in 1..Len(push[p])
    BY <1>2
  <2>2. CASE j \in 1..Len(push[p])
    BY <1>2, <2>1, <2>2 DEF Trails
  <2>3. CASE j = Len(push[p]) + 1
    BY <1>2, <2>1, <2>3 DEF Trails
  <2> QED BY <1>4, <2>2, <2>3
<1>7. ntFilled[p] <= vFilled'[p]
  BY <1>1 DEF Trails
<1> QED BY <1>5, <1>6, <1>7 DEF Trails

\* A frame is handled: NT books it, or does not.
LEMMA TailTrails ==
  ASSUME NEW p \in Orders, Types, Trails(p), push[p] # <<>>,
         book'[p] = book[p], venue'[p] = venue[p], vFilled'[p] = vFilled[p],
         push'[p] = Tail(push[p]),
         ntFilled'[p] \in {ntFilled[p], ntFilled[p] + Head(push[p]).fillSz},
         nt'[p] = "FILLED" => ntFilled'[p] >= Qty
  PROVE  Trails(p)'
<1> USE ConstantsAssumption
<1> DEFINE s == push[p]
<1>1. /\ s \in Seq(Frames)
      /\ Len(s) \in Nat \ {0}
      /\ Head(s) = s[1]
      /\ Len(Tail(s)) = Len(s) - 1
      /\ \A i \in 1..Len(Tail(s)) : Tail(s)[i] = s[i + 1]
  BY HeadTailProperties, EmptySeq DEF Types, VenueType
<1>2. \A i \in 1..Len(s) : s[i].accFillSz \in Nat /\ s[i].fillSz \in Nat
  BY <1>1, FrameAt
<1>3. vFilled[p] \in Nat /\ ntFilled[p] \in Nat
  BY DEF Types, NtType, VenueType
<1>4. ntFilled'[p] <= s[1].accFillSz
  <2>1. 1 \in 1..Len(s)
    BY <1>1
  <2>2. ntFilled[p] <= s[1].accFillSz - s[1].fillSz
    BY <2>1 DEF Trails
  <2>3. ntFilled'[p] \in {ntFilled[p], ntFilled[p] + s[1].fillSz}
    BY <1>1
  <2>4. s[1].accFillSz \in Nat /\ s[1].fillSz \in Nat
    BY <1>2, <2>1
  <2> QED BY <1>3, <2>2, <2>3, <2>4
<1>5. ntFilled'[p] <= vFilled[p]
  <2>1. 1 \in 1..Len(s)
    BY <1>1
  <2>2. s[1].accFillSz <= vFilled[p]
    BY <2>1 DEF Trails
  <2>3. ntFilled'[p] \in Nat
    BY <1>1, <1>2, <1>3, <2>1
  <2> QED BY <1>2, <1>3, <1>4, <2>1, <2>2, <2>3
<1>6. \A i \in 1..Len(Tail(s)) :
        /\ ntFilled'[p] <= Tail(s)[i].accFillSz - Tail(s)[i].fillSz
        /\ Tail(s)[i].accFillSz <= vFilled[p]
  <2> SUFFICES ASSUME NEW i \in 1..Len(Tail(s))
               PROVE  /\ ntFilled'[p] <= s[i + 1].accFillSz - s[i + 1].fillSz
                      /\ s[i + 1].accFillSz <= vFilled[p]
    BY <1>1
  <2>1. i + 1 \in 1..Len(s) /\ 1 \in 1..Len(s) /\ 1 < i + 1
    BY <1>1
  <2>2. s[1].accFillSz <= s[i + 1].accFillSz - s[i + 1].fillSz
    BY <2>1 DEF Trails
  <2>3. s[i + 1].accFillSz <= vFilled[p]
    BY <2>1 DEF Trails
  <2>4. ntFilled'[p] \in Nat
    BY <1>1, <1>2, <1>3, <2>1
  <2>5. /\ s[1].accFillSz \in Nat
        /\ s[i + 1].accFillSz \in Nat /\ s[i + 1].fillSz \in Nat
    BY <1>2, <2>1
  <2> QED BY <1>4, <2>2, <2>3, <2>4, <2>5
<1>7. \A i, j \in 1..Len(Tail(s)) :
        i < j => Tail(s)[i].accFillSz <= Tail(s)[j].accFillSz - Tail(s)[j].fillSz
  <2> SUFFICES ASSUME NEW i \in 1..Len(Tail(s)), NEW j \in 1..Len(Tail(s)), i < j
               PROVE  s[i + 1].accFillSz <= s[j + 1].accFillSz - s[j + 1].fillSz
    BY <1>1
  <2>1. i + 1 \in 1..Len(s) /\ j + 1 \in 1..Len(s) /\ i + 1 < j + 1
    BY <1>1
  <2> QED BY <2>1 DEF Trails
<1>8. book[p] # {}
  BY DEF Trails
<1> QED BY <1>5, <1>6, <1>7, <1>8 DEF Trails

\* The chain of what NT, the channel and OKX have booked is kept by every step.
LEMMA TrailsInvariant == Spec => []Trailing
<1> USE ConstantsAssumption
<1> DEFINE Inv == \A p \in Orders : Trails(p)
<1>1. Init => Inv
  <2> SUFFICES ASSUME Init, NEW p \in Orders PROVE Trails(p)
    OBVIOUS
  <2>1. Len(<<>>) = 0
    BY EmptySeq
  <2> QED BY <2>1 DEF Init, Trails, Known
<1>2. Types /\ Types' /\ OneName /\ Inv /\ [Next]_vars => Inv'
  <2> SUFFICES ASSUME Types, Types', OneName, Inv, [Next]_vars, NEW p \in Orders
               PROVE  Trails(p)'
    OBVIOUS
  <2>0. Trails(p) /\ (nt[p] \in Known \/ reply[p] \in {"ok", "noid"} \/ push[p] # <<>> => book[p] # {})
    BY DEF Trails
  <2>t. /\ nt \in [Orders -> Status] /\ ntFilled \in [Orders -> Nat]
        /\ reply \in [Orders -> Answers \union {"none"}]
        /\ book \in [Orders -> SUBSET {ClOrdId(o, a) : o \in Orders, a \in Attempts}]
        /\ venue \in [Orders -> {"absent", "live", "filled", "canceled"}]
        /\ vFilled \in [Orders -> 0..Qty]
        /\ push \in [Orders -> Seq(Frames)]
    <3>1. NtType /\ TaskType /\ VenueType
      BY DEF Types
    <3>2. nt \in [Orders -> Status] /\ ntFilled \in [Orders -> Nat]
      BY <3>1 DEF NtType
    <3>3. reply \in [Orders -> Answers \union {"none"}]
      BY <3>1 DEF TaskType
    <3> QED BY <3>1, <3>2, <3>3 DEF VenueType
  <2>1. ASSUME NEW o \in Orders, Submit(o) PROVE Trails(p)'
    <3>1. UNCHANGED <<book, venue, vFilled, push, ntFilled>>
      BY <2>1 DEF Submit, venueVars, ntVars
    <3>2. reply'[p] \in {"ok", "noid"} => book[p] # {}
      BY <2>1, <2>0, <2>t DEF Submit, Answer, Answers
    <3>3. /\ nt'[p] \in Known => book[p] # {}
          /\ nt'[p] = "FILLED" => nt[p] = "FILLED"
      BY <2>1, <2>0, <2>t DEF Submit, Known, ntVars
    <3> QED BY <2>0, <3>1, <3>2, <3>3, TrailsFrame
  <2>2. ASSUME NEW o \in Orders, SubmitInvalid(o) PROVE Trails(p)'
    <3>1. UNCHANGED <<book, venue, vFilled, push, ntFilled>>
      BY <2>2 DEF SubmitInvalid, venueVars, ntVars
    <3>2. reply'[p] \in {"ok", "noid"} => book[p] # {}
      BY <2>2, <2>0, <2>t DEF SubmitInvalid, Answer, Answers
    <3>3. /\ nt'[p] \in Known => book[p] # {}
          /\ nt'[p] = "FILLED" => nt[p] = "FILLED"
      BY <2>2, <2>0, <2>t DEF SubmitInvalid, Known, ntVars, OnRejected
    <3> QED BY <2>0, <3>1, <3>2, <3>3, TrailsFrame
  <2>3. ASSUME NEW o \in Orders, RestOk(o) PROVE Trails(p)'
    <3>1. UNCHANGED <<book, venue, vFilled, push, ntFilled>>
      BY <2>3 DEF RestOk, venueVars, ntVars
    <3>2. reply'[p] \in {"ok", "noid"} => book[p] # {}
      BY <2>3, <2>0, <2>t DEF RestOk, Answer, Answers
    <3>3. /\ nt'[p] \in Known => book[p] # {}
          /\ nt'[p] = "FILLED" => nt[p] = "FILLED"
      BY <2>3, <2>0, <2>t DEF RestOk, Known, ntVars, OnAccepted
    <3> QED BY <2>0, <3>1, <3>2, <3>3, TrailsFrame
  <2>4. ASSUME NEW o \in Orders, RestBusinessError(o) PROVE Trails(p)'
    <3>1. UNCHANGED <<book, venue, vFilled, push, ntFilled>>
      BY <2>4 DEF RestBusinessError, venueVars, ntVars
    <3>2. reply'[p] \in {"ok", "noid"} => book[p] # {}
      BY <2>4, <2>0, <2>t DEF RestBusinessError, Answer, Answers
    <3>3. /\ nt'[p] \in Known => book[p] # {}
          /\ nt'[p] = "FILLED" => nt[p] = "FILLED"
      BY <2>4, <2>0, <2>t DEF RestBusinessError, Known, ntVars, RejectOnException, OnRejected
    <3> QED BY <2>0, <3>1, <3>2, <3>3, TrailsFrame
  <2>4a. ASSUME NEW o \in Orders, RestUnreadable(o) PROVE Trails(p)'
    <3>1. UNCHANGED <<book, venue, vFilled, push, ntFilled>>
      BY <2>4a DEF RestUnreadable, venueVars, ntVars
    <3>2. reply'[p] \in {"ok", "noid"} => book[p] # {}
      BY <2>4a, <2>0, <2>t DEF RestUnreadable, Answer, Answers
    <3>3. /\ nt'[p] \in Known => book[p] # {}
          /\ nt'[p] = "FILLED" => nt[p] = "FILLED"
      BY <2>4a, <2>0, <2>t DEF RestUnreadable, Known, ntVars, RejectOnException, OnRejected
    <3> QED BY <2>0, <3>1, <3>2, <3>3, TrailsFrame
  <2>5. ASSUME NEW o \in Orders, RestRateLimited(o) PROVE Trails(p)'
    <3>1. UNCHANGED <<book, venue, vFilled, push, ntFilled>>
      BY <2>5 DEF RestRateLimited, venueVars, ntVars
    <3>2. reply'[p] \in {"ok", "noid"} => book[p] # {}
      BY <2>5, <2>0, <2>t DEF RestRateLimited, Answer, Answers
    <3>3. /\ nt'[p] \in Known => book[p] # {}
          /\ nt'[p] = "FILLED" => nt[p] = "FILLED"
      BY <2>5, <2>0, <2>t DEF RestRateLimited, Known, ntVars, RetryNetwork, RejectOnException, OnRejected
    <3> QED BY <2>0, <3>1, <3>2, <3>3, TrailsFrame
  <2>6. ASSUME NEW o \in Orders, RestTransient(o) PROVE Trails(p)'
    <3>1. UNCHANGED <<book, venue, vFilled, push, ntFilled>>
      BY <2>6 DEF RestTransient, venueVars, ntVars
    <3>2. reply'[p] \in {"ok", "noid"} => book[p] # {}
      BY <2>6, <2>0, <2>t DEF RestTransient, Answer, Answers
    <3>3. /\ nt'[p] \in Known => book[p] # {}
          /\ nt'[p] = "FILLED" => nt[p] = "FILLED"
      BY <2>6, <2>0, <2>t DEF RestTransient, Known, ntVars, RetryTransient, RejectOnException, OnRejected
    <3> QED BY <2>0, <3>1, <3>2, <3>3, TrailsFrame
  <2>7. ASSUME NEW o \in Orders, RestNoAnswer(o) PROVE Trails(p)'
    <3>1. UNCHANGED <<book, venue, vFilled, push, ntFilled>>
      BY <2>7 DEF RestNoAnswer, venueVars, ntVars
    <3>2. reply'[p] \in {"ok", "noid"} => book[p] # {}
      BY <2>7, <2>0, <2>t DEF RestNoAnswer, Answer, Answers
    <3>3. /\ nt'[p] \in Known => book[p] # {}
          /\ nt'[p] = "FILLED" => nt[p] = "FILLED"
      BY <2>7, <2>0, <2>t DEF RestNoAnswer, Known, ntVars, RetryNetwork, RejectOnException, OnRejected
    <3> QED BY <2>0, <3>1, <3>2, <3>3, TrailsFrame
  <2>8. ASSUME NEW o \in Orders, NEW a \in Attempts, VenueRefuse(o, a) PROVE Trails(p)'
    <3>1. UNCHANGED <<book, venue, vFilled, push, ntFilled>>
      BY <2>8 DEF VenueRefuse, venueVars, ntVars
    <3>2. reply'[p] \in {"ok", "noid"} => book[p] # {}
      BY <2>8, <2>0, <2>t DEF VenueRefuse, Answer, Answers
    <3>3. /\ nt'[p] \in Known => book[p] # {}
          /\ nt'[p] = "FILLED" => nt[p] = "FILLED"
      BY <2>8, <2>0, <2>t DEF VenueRefuse, Known, ntVars
    <3> QED BY <2>0, <3>1, <3>2, <3>3, TrailsFrame
  <2>9. ASSUME NEW o \in Orders, RequestCancel(o) PROVE Trails(p)'
    <3>1. UNCHANGED <<book, venue, vFilled, push, ntFilled>>
      BY <2>9 DEF RequestCancel, venueVars, ntVars
    <3>2. reply'[p] \in {"ok", "noid"} => book[p] # {}
      BY <2>9, <2>0, <2>t DEF RequestCancel, Answer, Answers
    <3>3. /\ nt'[p] \in Known => book[p] # {}
          /\ nt'[p] = "FILLED" => nt[p] = "FILLED"
      BY <2>9, <2>0, <2>t DEF RequestCancel, Known, ntVars
    <3> QED BY <2>0, <3>1, <3>2, <3>3, TrailsFrame
  <2>10. ASSUME NEW o \in Orders, CancelRefused(o) PROVE Trails(p)'
    <3>1. UNCHANGED <<book, venue, vFilled, push, ntFilled>>
      BY <2>10 DEF CancelRefused, venueVars, ntVars
    <3>2. reply'[p] \in {"ok", "noid"} => book[p] # {}
      BY <2>10, <2>0, <2>t DEF CancelRefused, Answer, Answers
    <3>3. /\ nt'[p] \in Known => book[p] # {}
          /\ nt'[p] = "FILLED" => nt[p] = "FILLED"
      BY <2>10, <2>0, <2>t DEF CancelRefused, Known, ntVars
    <3> QED BY <2>0, <3>1, <3>2, <3>3, TrailsFrame
  <2>11. ASSUME NEW o \in Orders, CancelException(o) PROVE Trails(p)'
    <3>1. UNCHANGED <<book, venue, vFilled, push, ntFilled>>
      BY <2>11 DEF CancelException, venueVars, ntVars
    <3>2. reply'[p] \in {"ok", "noid"} => book[p] # {}
      BY <2>11, <2>0, <2>t DEF CancelException, Answer, Answers
    <3>3. /\ nt'[p] \in Known => book[p] # {}
          /\ nt'[p] = "FILLED" => nt[p] = "FILLED"
      BY <2>11, <2>0, <2>t DEF CancelException, Known, ntVars, OnCancelRejected
    <3> QED BY <2>0, <3>1, <3>2, <3>3, TrailsFrame
  <2>12. ASSUME NEW o \in Orders, InFlightExpire(o) PROVE Trails(p)'
    <3>1. UNCHANGED <<book, venue, vFilled, push, ntFilled>>
      BY <2>12 DEF InFlightExpire, venueVars, ntVars
    <3>2. reply'[p] \in {"ok", "noid"} => book[p] # {}
      BY <2>12, <2>0, <2>t DEF InFlightExpire, Answer, Answers
    <3>3. /\ nt'[p] \in Known => book[p] # {}
          /\ nt'[p] = "FILLED" => nt[p] = "FILLED"
      BY <2>12, <2>0, <2>t DEF InFlightExpire, Known, ntVars, OnRejected
    <3> QED BY <2>0, <3>1, <3>2, <3>3, TrailsFrame
  <2>13. ASSUME NEW o \in Orders, NEW a \in Attempts, VenueTake(o, a) PROVE Trails(p)'
    <3>1. CASE p # o
      <4>1. /\ book'[p] = book[p] /\ venue'[p] = venue[p] /\ vFilled'[p] = vFilled[p]
            /\ push'[p] = push[p] /\ reply'[p] = reply[p]
            /\ UNCHANGED <<nt, ntFilled>>
        BY <2>13, <2>t, <3>1 DEF VenueTake, Answer, ntVars
      <4> QED BY <2>0, <4>1, TrailsFrame
    <3>2. CASE p = o
      <4> DEFINE frame == [state |-> "live", fillSz |-> 0, accFillSz |-> 0]
      <4>1. frame \in Frames /\ frame.accFillSz = 0 /\ frame.fillSz = 0
        BY DEF Frames
      <4>2. /\ book'[p] # {} /\ venue'[p] # "absent"
            /\ push'[p] = Append(push[p], frame)
            /\ UNCHANGED <<nt, ntFilled, vFilled>>
        BY <2>13, <2>t, <3>2 DEF VenueTake, ntVars
      <4>3. book[p] = {}
        BY <2>13, <3>2 DEF VenueTake, OneName, ClOrdId
      <4>4. vFilled[p] = 0
        BY <2>0, <4>3 DEF Trails
      <4> HIDE DEF frame
      <4> QED BY <2>0, <4>1, <4>2, <4>4, AppendTrails
    <3> QED BY <3>1, <3>2
  <2>14. ASSUME NEW o \in Orders, VenueFill(o) PROVE Trails(p)'
    <3>1. CASE p # o
      <4>1. /\ book'[p] = book[p] /\ venue'[p] = venue[p] /\ vFilled'[p] = vFilled[p]
            /\ push'[p] = push[p] /\ UNCHANGED <<nt, ntFilled, reply>>
        BY <2>14, <2>t, <3>1 DEF VenueFill, ntVars
      <4> QED BY <2>0, <4>1, TrailsFrame
    <3>2. CASE p = o
      <4>1. PICK sz \in 1..(Qty - vFilled[o]) :
              LET total == vFilled[o] + sz
                  state == IF total = Qty THEN "filled" ELSE "partially_filled"
              IN  /\ vFilled' = [vFilled EXCEPT ![o] = total]
                  /\ venue'   = [venue EXCEPT ![o] = IF total = Qty THEN "filled" ELSE @]
                  /\ push'    = [push EXCEPT ![o] =
                       Append(@, [state |-> state, fillSz |-> sz, accFillSz |-> total])]
        BY <2>14 DEF VenueFill
      <4> DEFINE frame == [state |-> IF vFilled[o] + sz = Qty THEN "filled"
                                     ELSE "partially_filled",
                           fillSz |-> sz, accFillSz |-> vFilled[o] + sz]
      <4>2. vFilled[o] \in Nat /\ vFilled[o] + sz \in 0..Qty /\ sz \in 0..Qty
        BY <2>t
      <4>3. /\ frame \in Frames
            /\ frame.accFillSz = vFilled[o] + sz /\ frame.fillSz = sz
        BY <4>2 DEF Frames
      <4>4. push'[p] = Append(push[p], frame)
        BY <2>t, <3>2, <4>1
      <4>5. vFilled'[p] = vFilled[p] + sz
        BY <2>t, <3>2, <4>1
      <4>6. venue'[p] = IF vFilled[p] + sz = Qty THEN "filled" ELSE venue[p]
        BY <2>t, <3>2, <4>1
      <4>7. venue[p] = "live" /\ UNCHANGED <<book, nt, ntFilled>>
        BY <2>14, <3>2 DEF VenueFill, ntVars
      <4>8. book'[p] # {}
        BY <2>0, <4>7 DEF Trails
      <4> HIDE DEF frame
      <4>9. vFilled[p] = frame.accFillSz - frame.fillSz
        BY <3>2, <4>2, <4>3
      <4> QED BY <2>0, <3>2, <4>3, <4>4, <4>5, <4>6, <4>7, <4>8, <4>9, AppendTrails
    <3> QED BY <3>1, <3>2
  <2>15. ASSUME NEW o \in Orders, CancelAtVenue(o),
                UNCHANGED <<book, vFilled, nt, ntFilled, reply>>
         PROVE  Trails(p)'
    <3>1. CASE p # o
      <4>1. venue'[p] = venue[p] /\ push'[p] = push[p]
        BY <2>15, <2>t, <3>1 DEF CancelAtVenue
      <4> QED BY <2>0, <2>15, <4>1, TrailsFrame
    <3>2. CASE p = o
      <4> DEFINE frame == [state |-> "canceled", fillSz |-> 0, accFillSz |-> vFilled[o]]
      <4>1. frame \in Frames /\ frame.accFillSz = vFilled[o] /\ frame.fillSz = 0
        BY <2>t DEF Frames
      <4>2. /\ push'[p] = Append(push[p], frame)
            /\ venue[p] = "live" /\ venue'[p] = "canceled"
        BY <2>15, <2>t, <3>2 DEF CancelAtVenue
      <4>3. book'[p] # {} /\ vFilled'[p] # Qty
        BY <2>0, <2>15, <4>2 DEF Trails
      <4>4. vFilled[o] \in Nat
        BY <2>t
      <4> HIDE DEF frame
      <4> QED BY <2>0, <2>15, <3>2, <4>1, <4>2, <4>3, <4>4, AppendTrails
    <3> QED BY <3>1, <3>2
  <2>16. ASSUME NEW o \in Orders, VenueCancel(o) \/ CancelTaken(o) PROVE Trails(p)'
    BY <2>15, <2>16 DEF VenueCancel, CancelTaken, ntVars
  <2>17. ASSUME NEW o \in Orders, HandleOrderUpdate(o) PROVE Trails(p)'
    <3>1. CASE p # o
      <4>1. /\ push'[p] = push[p] /\ UNCHANGED <<book, venue, vFilled, reply>>
        BY <2>17, <2>t, <3>1 DEF HandleOrderUpdate, venueVars
      <4>2. nt'[p] = nt[p] /\ ntFilled'[p] = ntFilled[p]
        BY <2>17, <2>t, <3>1
           DEF HandleOrderUpdate, HandleRouted, EmitFill, ntVars
      <4> QED BY <2>0, <4>1, <4>2, TrailsFrame
    <3>2. CASE p = o
      <4>1. /\ push[p] # <<>> /\ push'[p] = Tail(push[p])
            /\ UNCHANGED <<book, venue, vFilled>>
        BY <2>17, <2>t, <3>2 DEF HandleOrderUpdate, venueVars
      <4>6. Head(push[p]) \in Frames
        BY <2>t, <4>1, HeadTailProperties
      <4>7. Head(push[p]).fillSz \in Nat
        BY <4>6 DEF Frames
      <4>2. CASE UNCHANGED <<nt, ntFilled>>
        BY <2>0, <4>1, <4>2, TailTrails DEF Trails
      <4>3. CASE EmitFill(o, Head(push[p])) /\ Fillable(nt[p])
        <5>1. ntFilled'[p] = ntFilled[p] + Head(push[p]).fillSz
          BY <2>t, <3>2, <4>3 DEF EmitFill
        <5>2. nt'[p] = OnFilled(nt[p], ntFilled'[p])
          BY <2>t, <3>2, <4>3, <5>1 DEF EmitFill
        <5>3. ntFilled[p] + Head(push[p]).fillSz \in Nat
          BY <2>t, <4>7
        <5>4. nt'[p] = "FILLED" => ntFilled'[p] >= Qty
          BY <5>1, <5>2, <5>3 DEF OnFilled
        <5> QED BY <2>0, <4>1, <5>1, <5>4, TailTrails
      <4>4. CASE /\ UNCHANGED ntFilled
                 /\ nt' = [nt EXCEPT ![o] = OnAccepted(@)] \/ nt' = [nt EXCEPT ![o] = OnCanceled(@)]
        <5>1. nt'[p] = "FILLED" => nt[p] = "FILLED"
          BY <2>t, <3>2, <4>4 DEF OnAccepted, OnCanceled
        <5>2. nt[p] = "FILLED" => ntFilled[p] >= Qty
          BY <2>0 DEF Trails
        <5> QED BY <2>0, <4>1, <4>4, <5>1, <5>2, TailTrails
      <4>5. \/ UNCHANGED <<nt, ntFilled>>
            \/ EmitFill(o, Head(push[p])) /\ Fillable(nt[p])
            \/ /\ UNCHANGED ntFilled
               /\ nt' = [nt EXCEPT ![o] = OnAccepted(@)] \/ nt' = [nt EXCEPT ![o] = OnCanceled(@)]
        BY <2>17, <3>2 DEF HandleOrderUpdate, HandleRouted, EmitFill, ntVars
      <4> QED BY <4>2, <4>3, <4>4, <4>5
    <3> QED BY <3>1, <3>2
  <2>18. CASE WSDrop
    <3>1. /\ push'[p] = <<>>
          /\ UNCHANGED <<book, venue, vFilled, nt, ntFilled, reply>>
      BY <2>18 DEF WSDrop, ntVars, venueVars
    <3>2. Len(<<>>) = 0
      BY EmptySeq
    <3> QED BY <2>0, <3>1, <3>2 DEF Trails
  <2>19. CASE UNCHANGED vars
    BY <2>0, <2>19, TrailsFrame DEF vars, Trails
  <2> QED BY <2>1, <2>2, <2>3, <2>4, <2>5, <2>6, <2>7, <2>8, <2>9, <2>10, <2>11,
             <2>12, <2>13, <2>14, <2>16, <2>17, <2>18, <2>19, <2>4a
          DEF Next, SubmitTask, CancelTask, Exchange
<1>3. Inv <=> Trailing
  BY DEF Trailing
<1> HIDE DEF Inv
<1> QED BY <1>1, <1>2, <1>3, TypeCorrect, TypeGroups, OneNameInvariant, PTL DEF Spec

\* NT never has an order, or a quantity, that OKX does not have.
THEOREM NtNeverLeads == Spec => []NtTrailsVenue
<1> USE ConstantsAssumption
<1>1. Types /\ Trailing => NtTrailsVenue
  <2> SUFFICES ASSUME Types, Trailing, NEW o \in Orders
               PROVE  /\ nt[o] \in Known => venue[o] # "absent"
                      /\ ntFilled[o] <= vFilled[o]
                      /\ nt[o] = "FILLED" => venue[o] = "filled"
    BY DEF NtTrailsVenue, Known
  <2>1. Trails(o)
    BY DEF Trailing
  <2>2. ntFilled[o] \in Nat /\ vFilled[o] \in 0..Qty
    BY DEF Types, NtType, VenueType
  <2> QED BY <2>1, <2>2 DEF Trails
<1> QED BY <1>1, TypeCorrect, TypeGroups, TrailsInvariant, PTL

-----------------------------------------------------------------------------
(* A certain rejection *)

\* An order that NT has not submitted has left no trace anywhere.
Fresh(o) ==
  nt[o] = "INITIALIZED" =>
    /\ task[o] = "idle" /\ reply[o] = "none" /\ net[o] = 0 /\ trans[o] = 0
    /\ wire[o] = {} /\ book[o] = {}

\* While every attempt has been answered, the one the coroutine waits on is
\* the only one under way, and what is rejected has none.
Certain(o) ==
  ~unclear[o] =>
    /\ task[o] = "waiting" =>
         /\ wire[o] \subseteq {Attempt(o)}
         /\ reply[o] # "none" => wire[o] = {}
         /\ reply[o] \in {"none", "business", "ratelimit"} => book[o] = {}
    /\ nt[o] = "REJECTED" /\ ~expired[o] =>
         task[o] = "done" /\ wire[o] = {} /\ book[o] = {}

Traced == \A o \in Orders : Fresh(o) /\ Certain(o)

\* What a step does to one order keeps the others as they are.
LEMMA TraceFrame ==
  ASSUME NEW p \in Orders, Fresh(p), Certain(p),
         nt'[p] = "INITIALIZED" => nt[p] = "INITIALIZED",
         nt'[p] = "REJECTED" => nt[p] = "REJECTED" \/ expired'[p],
         expired[p] => expired'[p],
         \/ task'[p] = task[p]
         \/ task'[p] = "done" /\ nt[p] # "INITIALIZED"
         \/ task'[p] = "silent" /\ task[p] = "waiting" /\ nt[p] # "INITIALIZED",
         task'[p] = task[p] => reply'[p] = reply[p],
         net'[p] = net[p], trans'[p] = trans[p], wire'[p] = wire[p],
         book'[p] = book[p], unclear'[p] = unclear[p]
  PROVE  Fresh(p)' /\ Certain(p)'
BY DEF Fresh, Certain, Attempt

\* Once submitted, an order stays so, and a rejection is final.
LEMMA NtMoves ==
  ASSUME Types, [Next]_vars, NEW p \in Orders
  PROVE  /\ nt'[p] = "INITIALIZED" => nt[p] = "INITIALIZED"
         /\ nt'[p] # "REJECTED" => nt[p] # "REJECTED"
<1> USE DEF ntVars, taskVars, venueVars
<1>0. nt \in [Orders -> Status]
  BY DEF Types, NtType
<1>1. ASSUME NEW o \in Orders, Submit(o) \/ SubmitInvalid(o)
      PROVE  /\ nt'[p] = "INITIALIZED" => nt[p] = "INITIALIZED"
             /\ nt'[p] # "REJECTED" => nt[p] # "REJECTED"
  BY <1>0, <1>1 DEF Submit, SubmitInvalid, OnRejected
<1>2. ASSUME NEW o \in Orders, SubmitTask(o)
      PROVE  /\ nt'[p] = "INITIALIZED" => nt[p] = "INITIALIZED"
             /\ nt'[p] # "REJECTED" => nt[p] # "REJECTED"
  <2>1. nt' \in {nt, [nt EXCEPT ![o] = OnAccepted(@)], [nt EXCEPT ![o] = OnRejected(@)]}
    BY <1>2 DEF SubmitTask, RestOk, RestBusinessError, RestUnreadable, RestRateLimited, RestTransient, RestNoAnswer,
                RetryNetwork, RetryTransient, RejectOnException
  <2> QED BY <1>0, <2>1 DEF OnAccepted, OnRejected
<1>3. ASSUME NEW o \in Orders, Exchange(o)
      PROVE  /\ nt'[p] = "INITIALIZED" => nt[p] = "INITIALIZED"
             /\ nt'[p] # "REJECTED" => nt[p] # "REJECTED"
  BY <1>3 DEF Exchange, VenueTake, VenueRefuse, VenueFill, VenueCancel
<1>4. ASSUME NEW o \in Orders, RequestCancel(o) \/ CancelTask(o) \/ InFlightExpire(o)
      PROVE  /\ nt'[p] = "INITIALIZED" => nt[p] = "INITIALIZED"
             /\ nt'[p] # "REJECTED" => nt[p] # "REJECTED"
  <2>1. \/ nt' = nt
        \/ nt[o] # "REJECTED" /\ nt' = [nt EXCEPT ![o] = "PENDING_CANCEL"]
        \/ nt' = [nt EXCEPT ![o] = OnCancelRejected(@, ntFilled[o])]
        \/ nt' = [nt EXCEPT ![o] = OnRejected(@)]
    BY <1>4 DEF RequestCancel, CancelTask, CancelTaken, CancelRefused, CancelException, InFlightExpire
  <2> QED BY <1>0, <2>1 DEF OnCancelRejected, OnRejected
<1>5. ASSUME NEW o \in Orders, HandleOrderUpdate(o)
      PROVE  /\ nt'[p] = "INITIALIZED" => nt[p] = "INITIALIZED"
             /\ nt'[p] # "REJECTED" => nt[p] # "REJECTED"
  <2>1. \/ nt' = nt
        \/ nt' = [nt EXCEPT ![o] = OnAccepted(@)]
        \/ nt' = [nt EXCEPT ![o] = OnCanceled(@)]
        \/ /\ Fillable(nt[o])
           /\ nt' \in {[nt EXCEPT ![o] = "FILLED"], [nt EXCEPT ![o] = "PARTIALLY_FILLED"]}
    BY <1>5 DEF HandleOrderUpdate, HandleRouted, EmitFill, OnFilled
  <2> QED BY <1>0, <2>1 DEF OnAccepted, OnCanceled, Fillable
<1>6. CASE WSDrop \/ UNCHANGED vars
  BY <1>6 DEF WSDrop, vars
<1> QED BY <1>1, <1>2, <1>3, <1>4, <1>5, <1>6 DEF Next

\* The types the argument uses.
LEMMA TraceTypes ==
  ASSUME Types
  PROVE  /\ nt \in [Orders -> Status] /\ task \in [Orders -> {"idle", "waiting", "done", "silent"}]
         /\ net \in [Orders -> Nat] /\ trans \in [Orders -> Nat]
         /\ wire \in [Orders -> SUBSET Attempts]
         /\ reply \in [Orders -> Answers \union {"none"}]
         /\ book \in [Orders -> SUBSET {ClOrdId(o, a) : o \in Orders, a \in Attempts}]
         /\ unclear \in [Orders -> BOOLEAN] /\ expired \in [Orders -> BOOLEAN]
<1>1. NtType /\ TaskType /\ VenueType /\ OtherType
  BY DEF Types
<1>2. nt \in [Orders -> Status]
  BY <1>1 DEF NtType
<1>3. /\ task \in [Orders -> {"idle", "waiting", "done", "silent"}] /\ wire \in [Orders -> SUBSET Attempts]
      /\ net \in [Orders -> Nat] /\ trans \in [Orders -> Nat]
      /\ reply \in [Orders -> Answers \union {"none"}]
  BY <1>1, ConstantsAssumption DEF TaskType
<1>4. book \in [Orders -> SUBSET {ClOrdId(o, a) : o \in Orders, a \in Attempts}]
  BY <1>1 DEF VenueType
<1>5. unclear \in [Orders -> BOOLEAN] /\ expired \in [Orders -> BOOLEAN]
  BY <1>1 DEF OtherType
<1> QED BY <1>2, <1>3, <1>4, <1>5

\* Every step keeps the trace of an order.
LEMMA TracedStep ==
  ASSUME Types, Traced, [Next]_vars
  PROVE  Traced'
<1> SUFFICES ASSUME NEW p \in Orders PROVE Fresh(p)' /\ Certain(p)'
  BY DEF Traced
<1> USE DEF ntVars, taskVars, venueVars
<1>0. Fresh(p) /\ Certain(p)
  BY DEF Traced
<1>t. /\ nt \in [Orders -> Status] /\ task \in [Orders -> {"idle", "waiting", "done", "silent"}]
      /\ net \in [Orders -> Nat] /\ trans \in [Orders -> Nat]
      /\ wire \in [Orders -> SUBSET Attempts]
      /\ reply \in [Orders -> Answers \union {"none"}]
      /\ book \in [Orders -> SUBSET {ClOrdId(o, a) : o \in Orders, a \in Attempts}]
      /\ unclear \in [Orders -> BOOLEAN] /\ expired \in [Orders -> BOOLEAN]
  BY TraceTypes
<1>n. nt'[p] = "INITIALIZED" => nt[p] = "INITIALIZED"
  BY NtMoves
<1>1. ASSUME NEW o \in Orders, Submit(o) PROVE Fresh(p)' /\ Certain(p)'
  <2>1. CASE p = o
    BY <1>0, <1>t, <1>1, <2>1 DEF Submit, Fresh, Certain, Attempt
  <2>2. CASE p # o
    BY <1>0, <1>t, <1>1, <2>2, TraceFrame DEF Submit
  <2> QED BY <2>1, <2>2
<1>2. ASSUME NEW o \in Orders, SubmitInvalid(o) PROVE Fresh(p)' /\ Certain(p)'
  <2>1. CASE p = o
    BY <1>0, <1>t, <1>2, <2>1 DEF SubmitInvalid, OnRejected, Fresh, Certain
  <2>2. CASE p # o
    BY <1>0, <1>t, <1>2, <2>2, TraceFrame DEF SubmitInvalid
  <2> QED BY <2>1, <2>2
<1>3. ASSUME NEW o \in Orders, RestOk(o) PROVE Fresh(p)' /\ Certain(p)'
  <2>1. nt'[p] = "REJECTED" => nt[p] = "REJECTED"
    BY <1>t, <1>3 DEF RestOk, OnAccepted
  <2>2. \/ task'[p] = task[p]
        \/ task'[p] = "done" /\ nt[p] # "INITIALIZED"
        \/ task'[p] = "silent" /\ task[p] = "waiting" /\ nt[p] # "INITIALIZED"
    BY <1>0, <1>t, <1>3 DEF RestOk, Fresh
  <2>3. task'[p] = task[p] => reply'[p] = reply[p]
    BY <1>t, <1>3 DEF RestOk
  <2> QED BY <1>0, <1>3, <1>n, <2>1, <2>2, <2>3, TraceFrame DEF RestOk
<1>4. ASSUME NEW o \in Orders, RestBusinessError(o) PROVE Fresh(p)' /\ Certain(p)'
  <2>1. CASE p = o
    <3>1. ~unclear[p] => wire[p] = {} /\ book[p] = {}
      BY <1>0, <1>4, <2>1 DEF RestBusinessError, Certain
    <3>2. /\ task'[p] = "done" /\ nt'[p] # "INITIALIZED"
          /\ UNCHANGED <<wire, book, unclear>>
      BY <1>0, <1>t, <1>n, <1>4, <2>1 DEF RestBusinessError, RejectOnException, Fresh
    <3> QED BY <3>1, <3>2 DEF Fresh, Certain
  <2>2. CASE p # o
    BY <1>0, <1>t, <1>4, <2>2, TraceFrame DEF RestBusinessError, RejectOnException
  <2> QED BY <2>1, <2>2
<1>5. ASSUME NEW o \in Orders, RestRateLimited(o) PROVE Fresh(p)' /\ Certain(p)'
  <2>1. CASE p # o
    BY <1>0, <1>t, <1>5, <2>1, TraceFrame DEF RestRateLimited, RetryNetwork, RejectOnException
  <2>2. CASE p = o
    <3>1. ~unclear[p] => wire[p] = {} /\ book[p] = {}
      BY <1>0, <1>5, <2>2 DEF RestRateLimited, Certain
    <3>2. nt'[p] # "INITIALIZED"
      BY <1>0, <1>5, <1>n, <2>2 DEF RestRateLimited, Fresh
    <3>3. CASE net[o] < MaxRetries
      <4>1. /\ wire'[p] = wire[p] \union {Attempt(p) + 1} /\ net'[p] = net[p] + 1
            /\ trans'[p] = trans[p] /\ task'[p] = "waiting" /\ reply'[p] = "none"
            /\ nt'[p] = nt[p] /\ UNCHANGED <<book, unclear, expired>>
        BY <1>t, <1>5, <2>2, <3>3 DEF RestRateLimited, RetryNetwork
      <4>2. Attempt(p)' = Attempt(p) + 1
        BY <1>t, <4>1 DEF Attempt
      <4>3. ~unclear'[p] => wire'[p] \subseteq {Attempt(p)'} /\ book'[p] = {}
        BY <3>1, <4>1, <4>2
      <4>4. nt'[p] = "REJECTED" /\ ~expired'[p] /\ ~unclear'[p] => FALSE
        <5>1. CASE nt[p] = "REJECTED" /\ ~expired[p] /\ ~unclear[p]
          BY <1>0, <1>5, <2>2, <5>1 DEF RestRateLimited, Certain
        <5> QED BY <4>1, <5>1
      <4> QED BY <3>2, <4>1, <4>3, <4>4 DEF Fresh, Certain
    <3>4. CASE ~(net[o] < MaxRetries)
      <4>1. /\ task'[p] = "done" /\ UNCHANGED <<wire, book, unclear>>
        BY <1>t, <1>5, <2>2, <3>4 DEF RestRateLimited, RetryNetwork, RejectOnException
      <4> QED BY <3>1, <3>2, <4>1 DEF Fresh, Certain
    <3> QED BY <3>3, <3>4
  <2> QED BY <2>1, <2>2
<1>6. ASSUME NEW o \in Orders, RestTransient(o) \/ RestNoAnswer(o) PROVE Fresh(p)' /\ Certain(p)'
  <2>1. CASE p # o
    BY <1>0, <1>t, <1>6, <2>1, TraceFrame
       DEF RestTransient, RestNoAnswer, RetryNetwork, RetryTransient, RejectOnException
  <2>2. CASE p = o
    <3>1. unclear'[p] /\ task[p] = "waiting"
      BY <1>t, <1>6, <2>2 DEF RestTransient, RestNoAnswer
    <3>2. nt'[p] # "INITIALIZED"
      BY <1>0, <1>n, <3>1 DEF Fresh
    <3> QED BY <3>1, <3>2 DEF Fresh, Certain
  <2> QED BY <2>1, <2>2
<1>13. ASSUME NEW o \in Orders, RestUnreadable(o) PROVE Fresh(p)' /\ Certain(p)'
  <2>1. CASE p # o
    <3>1. /\ nt'[p] = nt[p] /\ task'[p] = task[p] /\ reply'[p] = reply[p]
          /\ unclear'[p] = unclear[p]
      BY <1>t, <1>13, <2>1 DEF RestUnreadable, RejectOnException
    <3>2. UNCHANGED <<net, trans, wire, book, expired>>
      BY <1>13 DEF RestUnreadable
    <3> QED BY <1>0, <3>1, <3>2, TraceFrame
  <2>2. CASE p = o
    <3>1. unclear'[p] /\ task[p] = "waiting"
      BY <1>t, <1>13, <2>2 DEF RestUnreadable
    <3>2. nt'[p] # "INITIALIZED"
      BY <1>0, <1>n, <3>1 DEF Fresh
    <3> QED BY <3>1, <3>2 DEF Fresh, Certain
  <2> QED BY <2>1, <2>2
<1>7. ASSUME NEW o \in Orders, NEW a \in Attempts, VenueTake(o, a) \/ VenueRefuse(o, a)
      PROVE  Fresh(p)' /\ Certain(p)'
  <2>1. CASE p # o
    <3>1. /\ wire'[p] = wire[p] /\ book'[p] = book[p] /\ reply'[p] = reply[p]
          /\ UNCHANGED <<nt, task, net, trans, unclear, expired>>
      BY <1>t, <1>7, <2>1 DEF VenueTake, VenueRefuse, Answer
    <3> QED BY <1>0, <3>1, TraceFrame
  <2>2. CASE p = o
    <3>1. /\ a \in wire[p] /\ wire'[p] = wire[p] \ {a}
          /\ UNCHANGED <<nt, task, net, trans, unclear, expired>>
      BY <1>t, <1>7, <2>2 DEF VenueTake, VenueRefuse
    <3>2. nt[p] # "INITIALIZED"
      BY <1>0, <3>1 DEF Fresh
    <3>3. ASSUME ~unclear[p] PROVE nt[p] = "REJECTED" => expired[p]
      BY <1>0, <3>1, <3>3 DEF Certain
    <3>4. ASSUME ~unclear[p], task[p] = "waiting"
          PROVE  /\ wire'[p] = {} /\ reply'[p] \in Answers
                 /\ reply'[p] \in {"business", "ratelimit"} => book'[p] = {}
      <4>1. wire[p] = {a} /\ a = Attempt(p) /\ book[p] = {} /\ reply[p] = "none"
        BY <1>0, <1>t, <3>1, <3>4 DEF Certain, Answers
      <4>2. PICK ans \in Answers :
              /\ reply' = [reply EXCEPT ![o] = ans]
              /\ \/ ans \in {"ok", "noid", "unreadable", "transient"}
                 \/ book' = book
        BY <1>7, <2>2, <3>4, <4>1 DEF VenueTake, VenueRefuse, Answer, Answers
      <4> QED BY <1>t, <2>2, <3>1, <4>1, <4>2 DEF Answers
    <3>5. Attempt(p)' = Attempt(p)
      BY <3>1 DEF Attempt
    <3>6. Fresh(p)'
      BY <3>1, <3>2 DEF Fresh
    <3>7. reply'[p] = "none" => ~("none" \in Answers)
      BY DEF Answers
    <3>8. Certain(p)'
      BY <3>1, <3>3, <3>4, <3>5, <3>7 DEF Certain
    <3> QED BY <3>6, <3>8
  <2> QED BY <2>1, <2>2
<1>8. ASSUME NEW o \in Orders, VenueFill(o) \/ VenueCancel(o) \/ CancelTaken(o) \/ CancelRefused(o)
      PROVE  Fresh(p)' /\ Certain(p)'
  BY <1>0, <1>8, TraceFrame DEF VenueFill, VenueCancel, CancelTaken, CancelRefused, CancelAtVenue
<1>9. ASSUME NEW o \in Orders, RequestCancel(o) \/ CancelException(o) PROVE Fresh(p)' /\ Certain(p)'
  <2>1. nt'[p] = "REJECTED" => nt[p] = "REJECTED"
    BY <1>t, <1>9 DEF RequestCancel, CancelException, OnCancelRejected
  <2> QED BY <1>0, <1>9, <1>n, <2>1, TraceFrame DEF RequestCancel, CancelException
<1>10. ASSUME NEW o \in Orders, HandleOrderUpdate(o) PROVE Fresh(p)' /\ Certain(p)'
  <2>1. nt'[p] = "REJECTED" => nt[p] = "REJECTED"
    BY <1>t, <1>10 DEF HandleOrderUpdate, HandleRouted, EmitFill, OnFilled, OnAccepted, OnCanceled
  <2> QED BY <1>0, <1>10, <1>n, <2>1, TraceFrame DEF HandleOrderUpdate
<1>11. ASSUME NEW o \in Orders, InFlightExpire(o) PROVE Fresh(p)' /\ Certain(p)'
  <2>1. nt'[p] = "REJECTED" => nt[p] = "REJECTED" \/ expired'[p]
    BY <1>t, <1>11 DEF InFlightExpire
  <2>2. expired[p] => expired'[p]
    BY <1>t, <1>11 DEF InFlightExpire
  <2> QED BY <1>0, <1>11, <1>n, <2>1, <2>2, TraceFrame DEF InFlightExpire
<1>12. CASE WSDrop \/ UNCHANGED vars
  BY <1>0, <1>12, TraceFrame DEF WSDrop, vars
<1> QED BY <1>1, <1>2, <1>3, <1>4, <1>5, <1>6, <1>7, <1>8, <1>9, <1>10, <1>11, <1>12, <1>13
        DEF Next, SubmitTask, CancelTask, Exchange

LEMMA TracedInvariant == Spec => []Traced
<1>1. Init => Traced
  <2> SUFFICES ASSUME Init, NEW o \in Orders PROVE Fresh(o) /\ Certain(o)
    BY DEF Traced
  <2>1. /\ nt[o] = "INITIALIZED" /\ task[o] = "idle" /\ reply[o] = "none" /\ net[o] = 0
        /\ trans[o] = 0 /\ wire[o] = {} /\ book[o] = {}
    BY DEF Init
  <2> QED BY <2>1 DEF Fresh, Certain
<1>2. Types /\ Traced /\ [Next]_vars => Traced'
  BY TracedStep
<1> QED BY <1>1, <1>2, TypeCorrect, TypeGroups, PTL DEF Spec

\* A rejection is the truth at OKX unless some attempt ended without telling
\* whether OKX took the order (no answer, 50004 / 51290, an unreadable or empty
\* one) or NT's own timer decided it.
THEOREM RejectionIsCertain == Spec => []CertainRejectIsAbsent
<1>1. Traced /\ Trailing => CertainRejectIsAbsent
  BY DEF Traced, Certain, Trailing, Trails, CertainRejectIsAbsent
<1> QED BY <1>1, TracedInvariant, TrailsInvariant, PTL

\* One NT order is at most one order at OKX, and none when the rejection that
\* NT was given is certain.
THEOREM OneOrNone == Spec => []OneOrderOrNone
BY IdempotentSubmit, RejectionIsCertain, PTL DEF OneOrderOrNone

-----------------------------------------------------------------------------
(* The life of an order implements the plain order *)

\* A step of the order is one at OKX, a frame that NT books, or unseen.
LEMMA MirrorStep ==
  ASSUME Types, OneName, Trailing, NtTrailsVenue', [Next]_vars
  PROVE  [Mirror!Next]_<<venue, vFilled, ntFilled>>
<1> USE ConstantsAssumption DEF ntVars, taskVars, venueVars
<1> DEFINE Unseen == UNCHANGED <<venue, vFilled, ntFilled>>
<1>0. /\ ntFilled \in [Orders -> Nat] /\ vFilled \in [Orders -> 0..Qty]
      /\ push \in [Orders -> Seq(Frames)]
  BY DEF Types, NtType, VenueType, OtherType
<1>1. ASSUME NEW o \in Orders, NEW a, VenueTake(o, a) PROVE Mirror!Enter(o)
  <2>1. ClOrdId(o, a) = ClOrdId(o, 0)
    BY DEF ClOrdId
  <2>2. book[o] = {}
    BY <1>1, <2>1 DEF VenueTake, OneName
  <2>3. venue[o] = "absent"
    BY <2>2 DEF Trailing, Trails
  <2> QED BY <1>1, <2>3 DEF VenueTake, Mirror!Enter
<1>2. ASSUME NEW o \in Orders, VenueFill(o)
      PROVE  \E n \in 1..(Qty - vFilled[o]) : Mirror!Fill(o, n)
  BY <1>2 DEF VenueFill, Mirror!Fill
<1>3. ASSUME NEW o \in Orders, VenueCancel(o) \/ CancelTaken(o) PROVE Mirror!Cancel(o)
  BY <1>3 DEF VenueCancel, CancelTaken, CancelAtVenue, Mirror!Cancel
<1>4. ASSUME NEW o \in Orders, HandleOrderUpdate(o)
      PROVE  Unseen \/ \E n \in 1..(vFilled[o] - ntFilled[o]) : Mirror!Book(o, n)
  <2> DEFINE n == Head(push[o]).fillSz
  <2>1. n \in Nat
    <3>1. Head(push[o]) \in Frames
      BY <1>0, <1>4 DEF HandleOrderUpdate
    <3> QED BY <3>1 DEF Frames
  <2>2. UNCHANGED <<venue, vFilled>>
    BY <1>4 DEF HandleOrderUpdate
  <2>3. ntFilled' = ntFilled \/ ntFilled' = [ntFilled EXCEPT ![o] = @ + n]
    BY <1>4 DEF HandleOrderUpdate, HandleRouted, EmitFill
  <2> HIDE DEF n
  <2>4. ntFilled'[o] <= vFilled[o]
    BY <2>2 DEF NtTrailsVenue
  <2>5. CASE ntFilled' = [ntFilled EXCEPT ![o] = @ + n] /\ n # 0
    <3>1. n \in 1..(vFilled[o] - ntFilled[o])
      BY <1>0, <2>1, <2>4, <2>5
    <3> QED BY <2>2, <2>5, <3>1 DEF Mirror!Book
  <2>6. CASE n = 0
    BY <1>0, <2>2, <2>3, <2>6
  <2> QED BY <2>2, <2>3, <2>5, <2>6
<1>5. ASSUME NEW o \in Orders,
             \/ Submit(o) \/ SubmitInvalid(o) \/ SubmitTask(o)
             \/ \E a \in Attempts : VenueRefuse(o, a)
             \/ RequestCancel(o) \/ CancelRefused(o) \/ CancelException(o)
             \/ InFlightExpire(o)
      PROVE  Unseen
  BY <1>5 DEF Submit, SubmitInvalid, SubmitTask, RestOk, RestBusinessError, RestUnreadable, RestRateLimited,
     RestTransient, RestNoAnswer, VenueRefuse, RequestCancel, CancelRefused, CancelException,
     InFlightExpire
<1>6. CASE WSDrop \/ UNCHANGED vars
  BY <1>6 DEF WSDrop, vars
<1> QED BY <1>1, <1>2, <1>3, <1>4, <1>5, <1>6 DEF Next, Exchange, CancelTask, Mirror!Next

\* Refinement: whatever is re-sent, lost, late or dropped, OKX and NT go through
\* the steps of one plain order.
THEOREM ImplementsMirror == Spec => MirrorSpec
<1>1. Init => Mirror!Init
  BY DEF Init, Mirror!Init
<1>2. Types /\ OneName /\ Trailing /\ NtTrailsVenue' /\ [Next]_vars
        => [Mirror!Next]_<<venue, vFilled, ntFilled>>
  BY MirrorStep
<1> QED BY <1>1, <1>2, TypeCorrect, TypeGroups, OneNameInvariant, TrailsInvariant,
           NtNeverLeads, PTL DEF Spec, MirrorSpec, Mirror!Spec

-----------------------------------------------------------------------------
(* No fill is lost on the way *)

\* A frame that is not about a fill carries none.
Quiet(frame) == frame.state \in {"live", "canceled"} => frame.fillSz = 0

\* The frames in the channel begin where NT's own total ends, each where the
\* one before it ended, and end at OKX's total.
Chain(s, from, to) ==
  IF s = <<>> THEN from = to
  ELSE /\ from = s[1].accFillSz - s[1].fillSz
       /\ \A i \in 1..(Len(s) - 1) : s[i].accFillSz = s[i + 1].accFillSz - s[i + 1].fillSz
       /\ s[Len(s)].accFillSz = to

Whole(o) ==
  /\ \A i \in 1..Len(push[o]) : Quiet(push[o][i])
  /\ Routed(o) /\ ~lost[o] /\ nt[o] # "REJECTED" => Chain(push[o], ntFilled[o], vFilled[o])

AllWhole == \A o \in Orders : Whole(o)

\* One more frame prolongs the chain.
LEMMA ChainAppend ==
  ASSUME NEW s \in Seq(Frames), NEW frame \in Frames, NEW from \in Nat, NEW to \in Nat,
         Chain(s, from, to), to = frame.accFillSz - frame.fillSz
  PROVE  Chain(Append(s, frame), from, frame.accFillSz)
<1> DEFINE t == Append(s, frame)
<1>1. /\ Len(s) \in Nat /\ Len(t) = Len(s) + 1 /\ t[Len(s) + 1] = frame /\ t \in Seq(Frames)
      /\ \A i \in 1..Len(s) : t[i] = s[i]
  BY AppendProperties, LenProperties
<1>2. t # <<>>
  BY <1>1, EmptySeq
<1> HIDE DEF t
<1>3. CASE s = <<>>
  <2>1. Len(s) = 0
    BY <1>3
  <2>2. t[1] = frame /\ from = to /\ Len(t) = 1
    BY <1>1, <1>3, <2>1 DEF Chain
  <2> QED BY <1>2, <2>2 DEF Chain, t
<1>4. CASE s # <<>>
  <2>1. Len(s) \in Nat \ {0}
    BY <1>1, <1>4, EmptySeq
  <2>2. from = t[1].accFillSz - t[1].fillSz
    BY <1>1, <1>4, <2>1 DEF Chain
  <2>3. ASSUME NEW i \in 1..(Len(t) - 1)
        PROVE  t[i].accFillSz = t[i + 1].accFillSz - t[i + 1].fillSz
    <3>1. CASE i = Len(s)
      BY <1>1, <1>4, <2>1, <3>1 DEF Chain
    <3>2. CASE i # Len(s)
      <4>1. i \in 1..(Len(s) - 1) /\ i \in 1..Len(s) /\ i + 1 \in 1..Len(s)
        BY <1>1, <2>1, <3>2
      <4> QED BY <1>1, <1>4, <4>1 DEF Chain
    <3> QED BY <3>1, <3>2
  <2>4. t[Len(t)].accFillSz = frame.accFillSz
    BY <1>1
  <2> QED BY <1>2, <2>2, <2>3, <2>4 DEF Chain, t
<1> QED BY <1>3, <1>4

\* The first frame is the next part of it.
LEMMA ChainTail ==
  ASSUME NEW s \in Seq(Frames), s # <<>>, NEW from \in Nat, NEW to \in Nat, Chain(s, from, to)
  PROVE  Chain(Tail(s), from + Head(s).fillSz, to)
<1> DEFINE t == Tail(s)
<1>1. /\ Len(s) \in Nat \ {0} /\ Len(t) = Len(s) - 1 /\ t \in Seq(Frames)
      /\ \A i \in 1..Len(t) : t[i] = s[i + 1]
      /\ Head(s) = s[1]
  BY HeadTailProperties, EmptySeq, LenProperties
<1>2. t = <<>> <=> Len(t) = 0
  BY <1>1, EmptySeq
<1> HIDE DEF t
<1>3. 1 \in 1..Len(s)
  BY <1>1
<1>4. s[1].accFillSz \in Nat /\ s[1].fillSz \in Nat
  BY <1>3, FrameAt
<1>5. from + Head(s).fillSz = s[1].accFillSz
  BY <1>1, <1>4 DEF Chain
<1>6. CASE t = <<>>
  <2>1. Len(s) = 1
    BY <1>1, <1>2, <1>6
  <2> QED BY <1>5, <1>6, <2>1 DEF Chain, t
<1>7. CASE t # <<>>
  <2>1. 1 \in 1..(Len(s) - 1) /\ 1 \in 1..Len(t) /\ Len(t) + 1 = Len(s) /\ Len(t) \in 1..Len(t)
    BY <1>1, <1>2, <1>7
  <2>2. s[1].accFillSz = s[1 + 1].accFillSz - s[1 + 1].fillSz
    BY <2>1 DEF Chain
  <2>3. t[1] = s[1 + 1] /\ t[Len(t)] = s[Len(s)]
    BY <1>1, <2>1
  <2>4. ASSUME NEW i \in 1..(Len(t) - 1)
        PROVE  t[i].accFillSz = t[i + 1].accFillSz - t[i + 1].fillSz
    <3>1. i + 1 \in 1..(Len(s) - 1) /\ i \in 1..Len(t) /\ i + 1 \in 1..Len(t)
      BY <1>1
    <3>2. s[i + 1].accFillSz = s[i + 1 + 1].accFillSz - s[i + 1 + 1].fillSz
      BY <3>1 DEF Chain
    <3> QED BY <1>1, <3>1, <3>2
  <2>5. s[Len(s)].accFillSz = to
    BY DEF Chain
  <2> QED BY <1>5, <1>7, <2>2, <2>3, <2>4, <2>5 DEF Chain, t
<1> QED BY <1>6, <1>7

\* A step that leaves the totals and the channel of an order alone.
LEMMA WholeFrame ==
  ASSUME NEW p \in Orders, Whole(p), push'[p] = push[p], ntFilled'[p] = ntFilled[p],
         vFilled'[p] = vFilled[p], lost'[p] = lost[p], nt'[p] # "REJECTED" => nt[p] # "REJECTED"
  PROVE  Whole(p)'
BY DEF Whole, Routed, ClOrdId, NtId

\* OKX acts on the order and tells so.
LEMMA WholeAppend ==
  ASSUME NEW p \in Orders, Types, Whole(p), NEW frame \in Frames, Quiet(frame),
         push'[p] = Append(push[p], frame), vFilled'[p] = frame.accFillSz,
         vFilled[p] = frame.accFillSz - frame.fillSz,
         nt'[p] = nt[p], ntFilled'[p] = ntFilled[p], lost'[p] = lost[p]
  PROVE  Whole(p)'
<1>1. /\ push[p] \in Seq(Frames) /\ ntFilled[p] \in Nat /\ vFilled[p] \in Nat
      /\ Len(push[p]) \in Nat /\ Len(push'[p]) = Len(push[p]) + 1
      /\ \A i \in 1..Len(push[p]) : push'[p][i] = push[p][i]
      /\ push'[p][Len(push[p]) + 1] = frame
  BY ConstantsAssumption, AppendProperties, LenProperties DEF Types, NtType, VenueType
<1>2. \A i \in 1..Len(push'[p]) : Quiet(push'[p][i])
  <2>1. \A i \in 1..Len(push'[p]) : i \in 1..Len(push[p]) \/ i = Len(push[p]) + 1
    BY <1>1
  <2> QED BY <1>1, <2>1 DEF Whole
<1>3. Chain(push[p], ntFilled[p], vFilled[p]) => Chain(push'[p], ntFilled'[p], vFilled'[p])
  BY <1>1, ChainAppend
<1> QED BY <1>2, <1>3 DEF Whole, Routed, ClOrdId, NtId

\* NT books the first frame in the channel.
LEMMA WholeTail ==
  ASSUME NEW p \in Orders, Types, Whole(p), push[p] # <<>>, push'[p] = Tail(push[p]),
         vFilled'[p] = vFilled[p], lost'[p] = lost[p], nt'[p] # "REJECTED" => nt[p] # "REJECTED",
         Routed(p) /\ ~lost[p] /\ nt[p] # "REJECTED"
           => ntFilled'[p] = ntFilled[p] + Head(push[p]).fillSz
  PROVE  Whole(p)'
<1>1. push[p] \in Seq(Frames) /\ ntFilled[p] \in Nat /\ vFilled[p] \in Nat
  BY ConstantsAssumption DEF Types, NtType, VenueType
<1>2. \A i \in 1..Len(push'[p]) : Quiet(push'[p][i])
  <2>1. /\ Len(push[p]) \in Nat \ {0} /\ Len(push'[p]) = Len(push[p]) - 1
        /\ \A i \in 1..Len(push'[p]) : push'[p][i] = push[p][i + 1] /\ i + 1 \in 1..Len(push[p])
    BY <1>1, HeadTailProperties, EmptySeq, LenProperties
  <2> QED BY <2>1 DEF Whole
<1>3. Chain(push[p], ntFilled[p], vFilled[p])
        => Chain(push'[p], ntFilled[p] + Head(push[p]).fillSz, vFilled'[p])
  BY <1>1, ChainTail
<1> QED BY <1>2, <1>3 DEF Whole, Routed, ClOrdId, NtId

\* NT takes every fill of an order it has not rejected: an order it has
\* filled has none to come.
LEMMA FillTaken ==
  ASSUME NEW p \in Orders, Types, Fresh(p), Trails(p), Whole(p), push[p] # <<>>,
         Routed(p), ~lost[p], nt[p] # "REJECTED"
  PROVE  Fillable(nt[p]) \/ Head(push[p]).fillSz = 0
<1>1. nt[p] # "INITIALIZED"
  BY DEF Fresh, Trails
<1>2. CASE nt[p] = "FILLED"
  <2>1. /\ push[p] \in Seq(Frames) /\ Head(push[p]) = push[p][1] /\ 1 \in 1..Len(push[p])
        /\ ntFilled[p] \in Nat /\ vFilled[p] \in 0..Qty
    BY HeadTailProperties, EmptySeq, LenProperties DEF Types, NtType, VenueType
  <2>2. push[p][1].accFillSz \in Nat /\ push[p][1].fillSz \in Nat
    BY <2>1, FrameAt
  <2>3. /\ ntFilled[p] >= Qty /\ push[p][1].accFillSz <= vFilled[p]
        /\ ntFilled[p] <= push[p][1].accFillSz - push[p][1].fillSz
    BY <1>2, <2>1 DEF Trails
  <2> QED BY <2>1, <2>2, <2>3, ConstantsAssumption
<1>3. nt[p] \in Status
  BY DEF Types, NtType
<1> QED BY <1>1, <1>2, <1>3 DEF Fillable, Status

LEMMA WholeStep ==
  ASSUME Types, OneName, Trailing, Traced, AllWhole, [Next]_vars
  PROVE  AllWhole'
<1> SUFFICES ASSUME NEW p \in Orders PROVE Whole(p)'
  BY DEF AllWhole
<1> USE DEF ntVars, taskVars, venueVars
<1>0. Whole(p) /\ Trails(p) /\ Fresh(p) /\ (nt'[p] # "REJECTED" => nt[p] # "REJECTED")
  BY NtMoves DEF AllWhole, Trailing, Traced
<1>t. /\ nt \in [Orders -> Status] /\ ntFilled \in [Orders -> Nat]
      /\ book \in [Orders -> SUBSET {ClOrdId(o, a) : o \in Orders, a \in Attempts}]
      /\ venue \in [Orders -> {"absent", "live", "filled", "canceled"}]
      /\ vFilled \in [Orders -> 0..Qty] /\ push \in [Orders -> Seq(Frames)]
  BY DEF Types, NtType, VenueType
<1>1. ASSUME UNCHANGED <<push, ntFilled, vFilled, lost>> PROVE Whole(p)'
  BY <1>0, <1>1, WholeFrame
<1>2. ASSUME NEW o \in Orders, NEW a \in Attempts, VenueTake(o, a) PROVE Whole(p)'
  <2>1. CASE p # o
    <3>1. push'[p] = push[p] /\ UNCHANGED <<ntFilled, vFilled, lost>>
      BY <1>2, <1>t, <2>1 DEF VenueTake
    <3> QED BY <1>0, <3>1, WholeFrame
  <2>2. CASE p = o
    <3>1. PICK frame : frame = [state |-> "live", fillSz |-> 0, accFillSz |-> 0]
      OBVIOUS
    <3>2. frame \in Frames /\ frame.fillSz = 0 /\ frame.accFillSz = 0 /\ Quiet(frame)
      BY <3>1, ConstantsAssumption DEF Frames, Quiet
    <3>3. book[p] = {}
      BY <1>2, <2>2 DEF VenueTake, OneName, ClOrdId
    <3>4. vFilled[p] = 0
      BY <1>0, <3>3 DEF Trails
    <3>5. push'[p] = Append(push[p], frame) /\ UNCHANGED <<ntFilled, vFilled, lost, nt>>
      BY <1>2, <1>t, <2>2, <3>1 DEF VenueTake
    <3> QED BY <1>0, <3>2, <3>4, <3>5, WholeAppend
  <2> QED BY <2>1, <2>2
<1>3. ASSUME NEW o \in Orders, VenueFill(o) PROVE Whole(p)'
  <2>1. CASE p # o
    <3>1. push'[p] = push[p] /\ vFilled'[p] = vFilled[p] /\ UNCHANGED <<ntFilled, lost>>
      BY <1>3, <1>t, <2>1 DEF VenueFill
    <3> QED BY <1>0, <3>1, WholeFrame
  <2>2. CASE p = o
    <3>1. PICK sz \in 1..(Qty - vFilled[o]), state \in {"filled", "partially_filled"} :
            /\ vFilled' = [vFilled EXCEPT ![o] = vFilled[o] + sz]
            /\ push'    = [push EXCEPT ![o] =
                 Append(@, [state |-> state, fillSz |-> sz, accFillSz |-> vFilled[o] + sz])]
      BY <1>3 DEF VenueFill
    <3>2. PICK frame : frame = [state |-> state, fillSz |-> sz, accFillSz |-> vFilled[o] + sz]
      OBVIOUS
    <3>3. vFilled[o] \in Nat /\ vFilled[o] + sz \in 0..Qty /\ sz \in 0..Qty
      BY <1>t, ConstantsAssumption
    <3>4. frame \in Frames /\ frame.fillSz = sz /\ frame.accFillSz = vFilled[o] + sz /\ Quiet(frame)
      BY <3>2, <3>3 DEF Frames, Quiet
    <3>5. push'[p] = Append(push[p], frame) /\ vFilled'[p] = vFilled[p] + sz
      BY <1>t, <2>2, <3>1, <3>2
    <3>6. UNCHANGED <<nt, ntFilled, lost>>
      BY <1>3 DEF VenueFill
    <3>7. vFilled'[p] = frame.accFillSz /\ vFilled[p] = frame.accFillSz - frame.fillSz
      BY <2>2, <3>3, <3>4, <3>5
    <3> QED BY <1>0, <3>4, <3>5, <3>6, <3>7, WholeAppend
  <2> QED BY <2>1, <2>2
<1>4. ASSUME NEW o \in Orders, VenueCancel(o) \/ CancelTaken(o) PROVE Whole(p)'
  <2>0. CancelAtVenue(o) /\ UNCHANGED <<vFilled, nt, ntFilled, lost>>
    BY <1>4 DEF VenueCancel, CancelTaken
  <2>1. CASE p # o
    <3>1. push'[p] = push[p]
      BY <1>t, <2>0, <2>1 DEF CancelAtVenue
    <3> QED BY <1>0, <2>0, <3>1, WholeFrame
  <2>2. CASE p = o
    <3>1. PICK frame : frame = [state |-> "canceled", fillSz |-> 0, accFillSz |-> vFilled[o]]
      OBVIOUS
    <3>2. vFilled[o] \in Nat
      BY <1>t, ConstantsAssumption
    <3>3. frame \in Frames /\ frame.fillSz = 0 /\ frame.accFillSz = vFilled[o] /\ Quiet(frame)
      BY <1>t, <3>1, ConstantsAssumption DEF Frames, Quiet
    <3>4. push'[p] = Append(push[p], frame)
      BY <1>t, <2>0, <2>2, <3>1 DEF CancelAtVenue
    <3> QED BY <1>0, <2>0, <2>2, <3>2, <3>3, <3>4, WholeAppend
  <2> QED BY <2>1, <2>2
<1>5. ASSUME NEW o \in Orders, HandleOrderUpdate(o) PROVE Whole(p)'
  <2>1. CASE p # o
    <3>1. push'[p] = push[p] /\ UNCHANGED <<vFilled, lost>>
      BY <1>5, <1>t, <2>1 DEF HandleOrderUpdate
    <3>2. ntFilled'[p] = ntFilled[p]
      BY <1>5, <1>t, <2>1 DEF HandleOrderUpdate, HandleRouted, EmitFill
    <3> QED BY <1>0, <3>1, <3>2, WholeFrame
  <2>2. CASE p = o
    <3>1. push[p] # <<>> /\ push'[p] = Tail(push[p]) /\ UNCHANGED <<vFilled, lost>>
      BY <1>5, <1>t, <2>2 DEF HandleOrderUpdate
    <3>2. PICK frame \in Frames : frame = Head(push[p]) /\ Quiet(frame)
      <4>1. push[p] \in Seq(Frames) /\ Head(push[p]) = push[p][1] /\ 1 \in 1..Len(push[p])
        BY <1>t, <3>1, HeadTailProperties, EmptySeq, LenProperties
      <4>2. push[p][1] \in Frames
        BY <4>1, ElementOfSeq
      <4> QED BY <1>0, <4>1, <4>2 DEF Whole
    <3>3. ASSUME Routed(p), ~lost[p], nt[p] # "REJECTED"
          PROVE  ntFilled'[p] = ntFilled[p] + Head(push[p]).fillSz
      <4>1. Fillable(nt[p]) \/ frame.fillSz = 0
        BY <1>0, <3>1, <3>2, <3>3, FillTaken
      <4>2. ntFilled[p] \in Nat
        BY <1>t
      <4>3. CASE frame.state \in {"live", "canceled"}
        <5>1. ntFilled' = ntFilled
          BY <1>5, <2>2, <3>2, <3>3, <4>3 DEF HandleOrderUpdate, HandleRouted
        <5> QED BY <3>2, <4>2, <4>3, <5>1 DEF Quiet
      <4>4. CASE frame.state \in {"partially_filled", "filled"}
        <5>1. EmitFill(p, frame)
          BY <1>5, <2>2, <3>2, <3>3, <4>4 DEF HandleOrderUpdate, HandleRouted
        <5> QED BY <1>t, <3>2, <4>1, <4>2, <5>1 DEF EmitFill
      <4> QED BY <4>3, <4>4 DEF Frames
    <3> QED BY <1>0, <3>1, <3>3, WholeTail
  <2> QED BY <2>1, <2>2
<1>6. CASE WSDrop
  <2>1. CASE push[p] = <<>>
    <3>1. push'[p] = push[p] /\ lost'[p] = lost[p] /\ UNCHANGED <<ntFilled, vFilled>>
      <4>1. lost[p] \in BOOLEAN
        BY DEF Types, OtherType
      <4> QED BY <1>6, <2>1, <4>1 DEF WSDrop
    <3> QED BY <1>0, <3>1, WholeFrame
  <2>2. CASE push[p] # <<>>
    <3>1. push'[p] = <<>> /\ lost'[p]
      BY <1>6, <2>2 DEF WSDrop
    <3> QED BY <3>1 DEF Whole
  <2> QED BY <2>1, <2>2
<1>7. \/ UNCHANGED <<push, ntFilled, vFilled, lost>>
      \/ \E o \in Orders : \/ \E a \in Attempts : VenueTake(o, a)
                           \/ VenueFill(o) \/ VenueCancel(o) \/ CancelTaken(o) \/ HandleOrderUpdate(o)
      \/ WSDrop
  BY DEF Next, vars, SubmitTask, CancelTask, Exchange, Submit, SubmitInvalid, RestOk,
         RestBusinessError, RestUnreadable, RestRateLimited, RestTransient, RestNoAnswer, VenueRefuse,
         RequestCancel, CancelRefused, CancelException, InFlightExpire
<1> QED BY <1>1, <1>2, <1>3, <1>4, <1>5, <1>6, <1>7

\* While the connection holds, NT books all that OKX fills of an order it has
\* not rejected, in whatever order the REST answer and the frames are handled.
THEOREM FillsAreBooked == Spec => []NoFillLost
<1>1. Init => AllWhole
  <2> SUFFICES ASSUME Init, NEW o \in Orders PROVE Whole(o)
    BY DEF AllWhole
  <2>1. push[o] = <<>> /\ ntFilled[o] = 0 /\ vFilled[o] = 0
    BY DEF Init
  <2> QED BY <2>1 DEF Whole, Chain
<1>2. Types /\ OneName /\ Trailing /\ Traced /\ AllWhole /\ [Next]_vars => AllWhole'
  BY WholeStep
<1>3. AllWhole => NoFillLost
  BY DEF AllWhole, Whole, Chain, NoFillLost
<1> QED BY <1>1, <1>2, <1>3, TypeCorrect, TypeGroups, OneNameInvariant, TrailsInvariant,
           TracedInvariant, PTL DEF Spec
=============================================================================
