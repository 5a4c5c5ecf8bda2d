-------------------------- MODULE StatArbPairs_proofs --------------------------
(***************************************************************************)
(* Proofs about StatArbPairs, for every number of coroutines, every        *)
(* z-score and every combination of margin isolation, account mode,        *)
(* faults, rejections and sharing.                                         *)
(***************************************************************************)
EXTENDS MCStatArb, FiniteSetTheorems, TLAPS

-----------------------------------------------------------------------------
(* Types *)

Records == [pc : Pcs, dir : Directions, ok : BOOLEAN,
            mode : {"unknown", "net_mode", PosMode}, old : BOOLEAN]

OrderKinds == [leg : Legs, side : {"buy", "sell"}, reduce : BOOLEAN, by : Tasks]

(* TypeOK, and that a posMode the strategy has been told is that of the    *)
(* account or net_mode, which stands for a failed lookup.                  *)
Typed ==
  /\ cooling \in BOOLEAN
  /\ before \subseteq orders
  /\ position \in Directions \union {"none"}
  /\ loop \in Tasks \union {Nobody}
  /\ loop # Nobody => task[loop].pc \in Lookups \union {"mode"}
  /\ task \in [Tasks -> Records]
  /\ posMode \in {"unknown", "net_mode", PosMode}
  /\ levers \subseteq Keys
  /\ orders \subseteq OrderKinds
  /\ held \in [Legs -> [long : Nat, short : Nat]]
  /\ rejected \in BOOLEAN /\ shared \in BOOLEAN /\ exitFailed \in BOOLEAN
  /\ crossed \in BOOLEAN /\ flapped \in BOOLEAN

LEMMA Sides ==
  /\ \A d \in Directions, l \in Legs : EntrySide(d, l) \in {"buy", "sell"}
  /\ \A s \in {"buy", "sell"} : Opposite(s) \in {"buy", "sell"}
BY DEF EntrySide, Opposite, Directions, Legs

LEMMA OrdersTyped ==
  ASSUME NEW pc \in Lookups, NEW d \in Directions, NEW t \in Tasks
  PROVE  Order(pc, d, t) \in OrderKinds
BY Sides DEF Order, LegOf, SideOf, IsExit, Legs, Lookups, OrderKinds

LEMMA KeysTyped ==
  ASSUME NEW k \in Records, k.pc \in Lookups
  PROVE  Key(k) \in Keys
BY DEF Records, Key, Keys, PosSide, LegOf, Legs

LEMMA IdleTyped == Idle \in Records
BY DEF Idle, Records, Pcs, Directions

LEMMA Awake ==
  ASSUME Typed, NEW t \in Tasks
  PROVE  t # Nobody /\ task[t] \in Records
BY ConstantsAssumption DEF Typed

LEMMA ProceedTyped ==
  ASSUME Typed, NEW t \in Tasks, NEW ok \in BOOLEAN, task[t].pc \in Lookups,
         Proceed(t, ok)
  PROVE  /\ orders' \subseteq OrderKinds
         /\ exitFailed' \in BOOLEAN
         /\ task' \in [Tasks -> Records]
         /\ loop' \in Tasks \union {Nobody}
         /\ loop' # Nobody => task'[loop'].pc \in Lookups
         /\ position' \in Directions \union {"none"}
         /\ cooling' \in BOOLEAN /\ before' \subseteq orders'
<1>0. /\ task \in [Tasks -> Records] /\ task[t] \in Records /\ t # Nobody
  BY Awake DEF Typed
<1>1. task[t].dir \in Directions
  BY <1>0 DEF Records
<1>2. orders' \subseteq OrderKinds /\ orders \subseteq orders'
  BY <1>1, OrdersTyped DEF Proceed, Typed
<1>3. exitFailed' \in BOOLEAN
  BY DEF Proceed, Typed
<1>4. CASE task[t].pc \in {"ensureLeft", "enterLeft", "exitLeft"}
  <2> DEFINE pc == CASE task[t].pc = "ensureLeft" -> "ensureRight"
                     [] task[t].pc = "enterLeft"  -> "enterRight"
                     [] task[t].pc = "exitLeft"   -> "exitRight"
  <2>1. pc \in Lookups
    BY <1>4 DEF Lookups
  <2>2. /\ task' = [task EXCEPT ![t] = [@ EXCEPT !.ok = ok, !.pc = pc]]
        /\ loop' = t /\ UNCHANGED <<position, clock>>
    BY <1>4 DEF Proceed
  <2>3. [task[t] EXCEPT !.ok = ok, !.pc = pc] \in Records
    BY <1>0, <2>1 DEF Records, Pcs
  <2>4. /\ task' \in [Tasks -> Records] /\ task'[t].pc = pc
    BY <1>0, <2>2, <2>3 DEF Records
  <2> QED
    BY <1>2, <1>3, <2>1, <2>2, <2>4 DEF Typed, clock
<1>5. CASE task[t].pc = "ensureRight"
  <2>1. /\ AfterEnsure(t, ok) /\ UNCHANGED <<position, clock>>
        /\ loop' = IF task'[t].pc = "idle" THEN Nobody ELSE t
    BY <1>5 DEF Proceed
  <2>2. [task[t] EXCEPT !.pc = "enterLeft"] \in Records
    BY <1>0 DEF Records, Pcs, Lookups
  <2>3. /\ task' \in [Tasks -> Records]
        /\ task'[t].pc \in {"enterLeft", "idle"}
    BY <1>0, <2>1, <2>2, IdleTyped DEF AfterEnsure, Records, Idle
  <2> QED
    BY <1>2, <1>3, <2>1, <2>3 DEF Typed, Lookups, clock
<1>6. CASE task[t].pc = "enterRight"
  <2>1. Done(t) /\ UNCHANGED clock
    BY <1>6 DEF Proceed
  <2>2. task' \in [Tasks -> Records] /\ loop' = Nobody
    BY <1>0, <2>1, IdleTyped DEF Done
  <2>3. position' \in Directions \union {"none"}
    BY <1>1, <1>6 DEF Proceed, Typed
  <2> QED
    BY <1>2, <1>3, <2>1, <2>2, <2>3 DEF Typed, clock
<1>7. CASE task[t].pc = "exitRight"
  <2>1. /\ task' = [u \in Tasks |->
              IF u = t THEN Idle
              ELSE IF IsEntry(task[u].pc) THEN [task[u] EXCEPT !.old = TRUE]
              ELSE task[u]]
        /\ loop' = Nobody /\ position' = "none" /\ cooling' = TRUE /\ before' = orders'
    BY <1>7 DEF Proceed
  <2>2. \A u \in Tasks : task[u] \in Records /\ [task[u] EXCEPT !.old = TRUE] \in Records
    BY <1>0 DEF Records
  <2>3. task' \in [Tasks -> Records]
    BY <2>1, <2>2, IdleTyped
  <2> QED
    BY <1>2, <1>3, <2>1, <2>3
<1> QED
  BY <1>4, <1>5, <1>6, <1>7 DEF Lookups

LEMMA TypeStep ==
  ASSUME Typed, [Next]_vars
  PROVE  Typed'
<1>0. /\ task \in [Tasks -> Records]
      /\ \A t \in Tasks : task[t] \in Records /\ t # Nobody
  BY Awake DEF Typed
<1> DEFINE rest == <<clock, position, serviceVars, orders, held, rejected, shared,
                     exitFailed, flapped>>
<1>1. CASE CooldownEnds
  BY <1>1 DEF CooldownEnds, Typed, serviceVars
<1>2. ASSUME NEW t \in Tasks, OnBar(t)
      PROVE  Typed'
  <2>1. PICK pc \in {"signal", "broken"} : task' = [task EXCEPT ![t] = [Idle EXCEPT !.pc = pc]]
    BY <1>2 DEF OnBar
  <2>2. [Idle EXCEPT !.pc = pc] \in Records
    BY DEF Idle, Records, Pcs, Directions
  <2>3. task' \in [Tasks -> Records]
    BY <1>0, <2>1, <2>2
  <2> QED BY <1>2, <2>3 DEF OnBar, Typed, serviceVars, clock
<1>4. ASSUME NEW t \in Tasks, NEW pc \in Lookups \union {"mode"}, NEW d \in Directions,
             Goto(t, pc, d), UNCHANGED rest, crossed' \in BOOLEAN
      PROVE  Typed'
  <2>1. [task[t] EXCEPT !.pc = pc, !.dir = d] \in Records
    BY <1>0 DEF Records, Pcs
  <2>2. task' \in [Tasks -> Records] /\ task'[t].pc = pc
    BY <1>0, <1>4, <2>1 DEF Goto, Records
  <2> QED BY <1>4, <2>2 DEF Goto, Typed, serviceVars, clock
<1>5. ASSUME NEW t \in Tasks, Done(t), UNCHANGED rest, UNCHANGED crossed
      PROVE  Typed'
  <2>1. task' \in [Tasks -> Records]
    BY <1>0, <1>5, IdleTyped DEF Done
  <2> QED BY <1>5, <2>1 DEF Done, Typed, serviceVars, clock
<1>6. ASSUME NEW t \in Tasks, Evaluate(t)
      PROVE  Typed'
  <2>1. UNCHANGED rest
    BY <1>6 DEF Evaluate
  <2>2. PICK z \in Zs : \/ WantsExit(z) /\ StartExit(t)
                        \/ StartEntry(t, z)
                        \/ Done(t) /\ UNCHANGED crossed
    BY <1>6 DEF Evaluate
  <2>3. CASE WantsExit(z) /\ StartExit(t)
    <3>1. position \in Directions /\ crossed' \in BOOLEAN
      BY <2>3 DEF WantsExit, Directions, StartExit, EntryUnderWay, Typed
    <3> QED BY <1>4, <2>1, <2>3, <3>1 DEF StartExit, Lookups
  <2>4. CASE StartEntry(t, z)
    <3>1. crossed' \in BOOLEAN
      BY <2>4 DEF StartEntry, ExitUnderWay, Typed
    <3> QED BY <1>4, <2>1, <2>4, <3>1 DEF StartEntry, Lookups, Directions
  <2> QED BY <1>5, <2>1, <2>2, <2>3, <2>4
<1>7. ASSUME NEW t \in Tasks, ExitBroken(t)
      PROVE  Typed'
  <2>1. UNCHANGED rest
    BY <1>7 DEF ExitBroken
  <2>2. CASE position = "none"
    BY <1>5, <1>7, <2>1, <2>2 DEF ExitBroken
  <2>3. CASE position # "none"
    <3>1. position \in Directions /\ StartExit(t)
      BY <1>7, <2>3 DEF Typed, ExitBroken
    <3>2. crossed' \in BOOLEAN
      BY <3>1 DEF StartExit, EntryUnderWay, Typed
    <3> QED BY <1>4, <2>1, <3>1, <3>2 DEF StartExit, Lookups
  <2> QED BY <2>2, <2>3
<1>8. ASSUME NEW t \in Tasks, NEW ok \in BOOLEAN, task[t].pc \in Lookups, Proceed(t, ok),
             UNCHANGED <<posMode, held, rejected, shared, crossed, flapped>>,
             levers' \subseteq Keys
      PROVE  Typed'
  <2>1. /\ orders' \subseteq OrderKinds /\ exitFailed' \in BOOLEAN
        /\ task' \in [Tasks -> Records]
        /\ loop' \in Tasks \union {Nobody}
        /\ loop' # Nobody => task'[loop'].pc \in Lookups
        /\ position' \in Directions \union {"none"}
        /\ cooling' \in BOOLEAN /\ before' \subseteq orders'
    BY <1>8, ProceedTyped
  <2> QED BY <1>8, <2>1 DEF Typed
<1>9. ASSUME NEW t \in Tasks, Lookup(t)
      PROVE  Typed'
  <2>1. CASE Hit(t)
    BY <1>8, <1>9, <2>1 DEF Lookup, serviceVars, Typed
  <2>2. CASE ~Hit(t)
    <3>1. AsksMode(task[t]) \in Records
      BY <1>0 DEF AsksMode, Records, Typed
    <3>2. task' \in [Tasks -> Records] /\ loop' = Nobody
      BY <1>0, <1>9, <2>2, <3>1 DEF Lookup
    <3> QED BY <1>9, <2>2, <3>2 DEF Lookup, serviceVars, Typed, clock
  <2> QED BY <2>1, <2>2
<1>10. ASSUME NEW t \in Tasks, SetLeverageReturns(t)
       PROVE  Typed'
  <2>1. Key(task[t]) \in Keys
    BY <1>0, <1>10, KeysTyped DEF SetLeverageReturns
  <2>2. PICK ok \in BOOLEAN :
          /\ Proceed(t, ok)
          /\ levers' = IF ok THEN levers \union {Key(task[t])} ELSE levers
    BY <1>10 DEF SetLeverageReturns
  <2>3. levers' \subseteq Keys
    BY <2>1, <2>2 DEF Typed
  <2> QED BY <1>8, <1>10, <2>2, <2>3 DEF SetLeverageReturns
<1>11. ASSUME NEW t \in Tasks, NEW m \in {"net_mode", PosMode, "unknown"}, EnsureUnder(t, m),
              posMode' = m, flapped' \in BOOLEAN,
              UNCHANGED <<clock, position, levers, orders, held, rejected, shared,
                          exitFailed, crossed>>
       PROVE  Typed'
  <2>1. [task[t] EXCEPT !.pc = "ensureLeft", !.mode = m] \in Records
    BY <1>0 DEF Records, Pcs, Lookups
  <2>2. task' \in [Tasks -> Records] /\ task'[t].pc = "ensureLeft"
    BY <1>0, <1>11, <2>1 DEF EnsureUnder, Records
  <2> QED BY <1>11, <2>2 DEF EnsureUnder, Typed, Lookups, clock
<1>12. ASSUME NEW t \in Tasks, LookupMode(t)
       PROVE  Typed'
  <2>1. CASE posMode # "unknown"
    <3>1. posMode \in {"net_mode", PosMode, "unknown"} /\ flapped' \in BOOLEAN
      BY <1>12 DEF Typed, LookupMode
    <3> QED BY <1>11, <1>12, <2>1, <3>1 DEF LookupMode, serviceVars
  <2>2. CASE posMode = "unknown"
    BY <1>12, <2>2 DEF LookupMode, Typed, serviceVars, clock
  <2> QED BY <2>1, <2>2
<1>13. ASSUME NEW t \in Tasks, PosModeReturns(t)
       PROVE  Typed'
  <2>1. posMode' \in {"net_mode", PosMode, "unknown"}
    BY <1>13 DEF PosModeReturns
  <2>2. PICK m \in {"net_mode", PosMode, "unknown"} : m = posMode'
    BY <2>1
  <2>3. EnsureUnder(t, m) /\ flapped' \in BOOLEAN
    BY <1>13, <2>2 DEF PosModeReturns, Typed
  <2> QED BY <1>11, <1>13, <2>2, <2>3 DEF PosModeReturns
<1>14. CASE OtherStrategy
  BY <1>14 DEF OtherStrategy, Typed, clock
<1>15. ASSUME NEW o \in orders, Fill(o)
       PROVE  Typed'
  <2>1. o \in OrderKinds /\ o.leg \in Legs /\ held[o.leg] \in [long : Nat, short : Nat]
        /\ o.side \in {"buy", "sell"}
    BY DEF Typed, OrderKinds
  <2> DEFINE p == held[o.leg]
  <2>2. ASSUME o.reduce PROVE Closed(p, o.side) \in [long : Nat, short : Nat]
    <3>1. IF o.side = "buy" THEN p.short > 0 ELSE p.long > 0
      BY <1>15, <2>2 DEF Fill, Closable
    <3> QED BY <2>1, <3>1 DEF Closed
  <2>3. Opened(p, o.side) \in [long : Nat, short : Nat]
    <3>1. CASE o.side = "buy"
      BY <2>1, <3>1 DEF Opened
    <3>2. CASE o.side = "sell"
      BY <2>1, <3>2 DEF Opened
    <3> QED BY <2>1, <3>1, <3>2
  <2>4. held' \in [Legs -> [long : Nat, short : Nat]]
    BY <1>15, <2>1, <2>2, <2>3 DEF Fill, Typed
  <2>5. orders' = orders \ {o} /\ before' = before \ {o}
    BY <1>15 DEF Fill
  <2> QED BY <1>15, <2>4, <2>5 DEF Fill, Typed, serviceVars
<1>16. ASSUME NEW o \in orders, RejectReduce(o) \/ Reject(o)
       PROVE  Typed'
  <2>1. rejected' \in BOOLEAN
    BY <1>16 DEF RejectReduce, Reject, Typed
  <2>2. OnOrderRejected(o)
    BY <1>16 DEF RejectReduce, Reject
  <2>3. orders' = orders \ {o} /\ before' = before \ {o}
    BY <2>2 DEF OnOrderRejected
  <2> QED BY <2>1, <2>2, <2>3 DEF OnOrderRejected, Typed, serviceVars
<1>17. CASE UNCHANGED vars
  BY <1>17 DEF vars, Typed
<1> QED
  BY <1>1, <1>2, <1>6, <1>7, <1>9, <1>10, <1>12, <1>13, <1>14, <1>15, <1>16,
     <1>17 DEF Next

LEMMA InitTypeOK == Init => Typed
<1> SUFFICES ASSUME Init PROVE Typed
  OBVIOUS
<1>1. task \in [Tasks -> Records]
  BY IdleTyped DEF Init
<1>2. held \in [Legs -> [long : Nat, short : Nat]]
  BY DEF Init
<1>3. /\ position \in Directions \union {"none"}
      /\ loop \in Tasks \union {Nobody} /\ ~(loop # Nobody)
  BY DEF Init
<1>4. levers \subseteq Keys /\ before \subseteq orders /\ orders = {}
  BY DEF Init
<1> QED BY <1>1, <1>2, <1>3, <1>4 DEF Init, Typed

LEMMA TypesInvariant == Spec => []Typed
BY InitTypeOK, TypeStep, PTL DEF Spec

\* TypeOK: beyond the types, the coroutine that holds the loop was started, and
\* no fill or close, in whatever order OKX executes them, leaves a negative
\* position.
THEOREM TypeCorrect == Spec => []TypeOK
<1>1. ASSUME Typed PROVE TypeOK
  <2>1. {"unknown", "net_mode", PosMode} \subseteq Modes
    BY ConstantsAssumption DEF Modes
  <2>2. Records \subseteq [pc : Pcs, dir : Directions, ok : BOOLEAN, mode : Modes,
                           old : BOOLEAN]
    BY <2>1 DEF Records
  <2> QED BY <1>1, <2>1, <2>2 DEF Typed, TypeOK, OrderKinds
<1> QED BY <1>1, TypesInvariant, PTL

-----------------------------------------------------------------------------
(* The steps, one coroutine at a time *)

Past == <<rejected, shared, exitFailed, flapped>>

Becomes(t, pc, dir, ok, mode) ==
  /\ task'[t].pc = pc /\ task'[t].dir = dir
  /\ task'[t].ok = ok /\ task'[t].mode = mode
  /\ \A u \in Tasks \ {t} : task'[u] = task[u]

Entry(d, l, t) == [leg |-> l, side |-> EntrySide(d, l), reduce |-> FALSE, by |-> t]
Exit(d, l, t) ==
  [leg |-> l, side |-> Opposite(EntrySide(d, l)), reduce |-> TRUE, by |-> t]

\* A bar spawns a coroutine.
Arrives(t) ==
  /\ loop = Nobody
  /\ task[t].pc = "idle" /\ \A o \in orders : o.by # t
  /\ \E pc \in {"signal", "broken"} : Becomes(t, pc, "long_spread", TRUE, "unknown")
  /\ UNCHANGED <<clock, position, loop, posMode, levers, orders, held, Past, crossed>>

Begins(t, pc, d) ==
  /\ loop = Nobody /\ loop' = t
  /\ Becomes(t, pc, d, task[t].ok, task[t].mode) /\ task'[t].old = task[t].old
  /\ UNCHANGED <<clock, position, posMode, levers, orders, held, Past>>

BeginsExit(t) ==
  /\ task[t].pc \in {"signal", "broken"}
  /\ position \in Directions
  /\ Begins(t, "exitLeft", position)
  /\ crossed' = (crossed \/ EntryUnderWay)

BeginsEntry(t, d) ==
  /\ task[t].pc = "signal"
  /\ position = "none" /\ ~cooling
  /\ Begins(t, IF Isolated THEN "mode" ELSE "enterLeft", d)
  /\ crossed' = (crossed \/ ExitUnderWay)

Ends(t) == Becomes(t, "idle", "long_spread", TRUE, "unknown") /\ loop' = Nobody

Drops(t) ==
  /\ task[t].pc \in {"signal", "broken"}
  /\ loop = Nobody
  /\ Ends(t)
  /\ UNCHANGED <<clock, position, posMode, levers, orders, held, Past, crossed>>

Awaits(t) ==
  /\ loop = t /\ loop' = Nobody
  /\ task[t].pc \in Lookups
  /\ ~Hit(t)
  /\ Becomes(t, task[t].pc, task[t].dir, task[t].ok, AsksMode(task[t]).mode)
  /\ task'[t].old = task[t].old
  /\ UNCHANGED <<clock, position, posMode, levers, orders, held, Past, crossed>>

AwaitsMode(t) ==
  /\ loop = t /\ loop' = Nobody
  /\ task[t].pc = "mode" /\ posMode = "unknown"
  /\ UNCHANGED <<clock, position, task, posMode, levers, orders, held, Past, crossed>>

Learns(t, m) ==
  /\ task[t].pc = "mode"
  /\ \/ loop = t /\ posMode = m /\ flapped' = flapped
     \/ loop = Nobody /\ flapped' = (flapped \/ posMode \notin {"unknown", m})
  /\ loop' = t /\ posMode' = m
  /\ Becomes(t, "ensureLeft", task[t].dir, task[t].ok, m) /\ task'[t].old = task[t].old
  /\ UNCHANGED <<clock, position, levers, orders, held, rejected, shared, exitFailed, crossed>>

\* A lookup returns ok: from the cache, or from OKX.
Returns(t, ok) ==
  /\ \/ /\ loop = t /\ Hit(t) /\ ok
        /\ UNCHANGED levers
     \/ /\ loop = Nobody
        /\ ok => task[t].mode = PosMode
        /\ levers' = IF ok THEN levers \union {Key(task[t])} ELSE levers
  /\ UNCHANGED <<posMode, held, rejected, shared, crossed, flapped>>

\* What the coroutine does with the answer, by the leg it was for.
Turns(t, pc, ok) ==
  /\ Becomes(t, pc, task[t].dir, ok, task[t].mode) /\ task'[t].old = task[t].old
  /\ loop' = t
  /\ UNCHANGED <<position, clock>>

Validates(t, ok) ==
  /\ task[t].pc = "ensureLeft"
  /\ Turns(t, "ensureRight", ok)
  /\ UNCHANGED <<orders, exitFailed>>

Approves(t, ok) ==
  /\ task[t].pc = "ensureRight" /\ task[t].ok /\ ok
  /\ Turns(t, "enterLeft", TRUE)
  /\ UNCHANGED <<orders, exitFailed>>

Aborts(t, ok) ==
  /\ task[t].pc = "ensureRight" /\ ~(task[t].ok /\ ok)
  /\ Ends(t)
  /\ UNCHANGED <<position, clock, orders, exitFailed>>

OpensLeft(t, ok) ==
  /\ task[t].pc = "enterLeft"
  /\ Turns(t, "enterRight", ok)
  /\ orders' = IF ok THEN orders \union {Entry(task[t].dir, "left", t)} ELSE orders
  /\ UNCHANGED exitFailed

OpensRight(t, ok) ==
  /\ task[t].pc = "enterRight"
  /\ Ends(t)
  /\ orders' = IF ok THEN orders \union {Entry(task[t].dir, "right", t)} ELSE orders
  /\ position' = IF task[t].ok /\ ok THEN task[t].dir ELSE position
  /\ UNCHANGED <<clock, exitFailed>>

ClosesLeft(t, ok) ==
  /\ task[t].pc = "exitLeft"
  /\ Turns(t, "exitRight", ok)
  /\ orders' = IF ok THEN orders \union {Exit(task[t].dir, "left", t)} ELSE orders
  /\ exitFailed' = (exitFailed \/ ~ok)

\* The end of an exit: whoever is on the way in is late from now on.
ClosesRight(t, ok) ==
  /\ task[t].pc = "exitRight"
  /\ task'[t].pc = "idle" /\ loop' = Nobody
  /\ \A u \in Tasks \ {t} :
       /\ task'[u].pc = task[u].pc /\ task'[u].dir = task[u].dir
       /\ task'[u].ok = task[u].ok /\ task'[u].mode = task[u].mode
       /\ task'[u].old = (task[u].old \/ IsEntry(task[u].pc))
  /\ orders' = IF ok THEN orders \union {Exit(task[t].dir, "right", t)} ELSE orders
  /\ position' = "none" /\ cooling' = TRUE /\ before' = orders'
  /\ exitFailed' = (exitFailed \/ ~ok)

Advances(t, ok) ==
  \/ Validates(t, ok) \/ Approves(t, ok) \/ Aborts(t, ok)
  \/ OpensLeft(t, ok) \/ OpensRight(t, ok)
  \/ ClosesLeft(t, ok) \/ ClosesRight(t, ok)

LEMMA AdvanceCases ==
  ASSUME Typed, NEW t \in Tasks, NEW ok \in BOOLEAN, task[t].pc \in Lookups,
         Proceed(t, ok)
  PROVE  Advances(t, ok)
<1>0. /\ task \in [Tasks -> Records] /\ task[t] \in Records /\ t # Nobody
  BY Awake DEF Typed
<1> DEFINE pc == task[t].pc
           dir == task[t].dir
<1>1. ASSUME NEW q \in Pcs, NEW b \in BOOLEAN,
             task' = [task EXCEPT ![t] = [@ EXCEPT !.ok = b, !.pc = q]]
      PROVE  Becomes(t, q, dir, b, task[t].mode) /\ task'[t].old = task[t].old
  BY <1>0, <1>1 DEF Becomes, Records
<1>2. ASSUME task' = [task EXCEPT ![t] = Idle]
      PROVE  Becomes(t, "idle", "long_spread", TRUE, "unknown")
  BY <1>0, <1>2 DEF Becomes, Idle
<1>3. ASSUME Done(t) PROVE Ends(t)
  BY <1>2, <1>3 DEF Done, Ends
<1>4. CASE pc = "ensureLeft"
  <2>1. /\ orders' = orders /\ exitFailed' = exitFailed
        /\ loop' = t /\ UNCHANGED <<position, clock>>
        /\ task' = [task EXCEPT ![t] = [@ EXCEPT !.ok = ok, !.pc = "ensureRight"]]
    BY <1>4 DEF Proceed, IsExit, Typed
  <2>2. Becomes(t, "ensureRight", dir, ok, task[t].mode) /\ task'[t].old = task[t].old
    BY <1>1, <2>1 DEF Pcs, Lookups
  <2> QED BY <1>4, <2>1, <2>2 DEF Advances, Validates, Turns
<1>5. CASE pc = "ensureRight"
  <2>1. /\ orders' = orders /\ exitFailed' = exitFailed
        /\ loop' = IF task'[t].pc = "idle" THEN Nobody ELSE t
        /\ UNCHANGED <<position, clock>> /\ AfterEnsure(t, ok)
    BY <1>5 DEF Proceed, IsExit, Typed
  <2>2. CASE task[t].ok /\ ok
    <3>1. task' = [task EXCEPT ![t] = [@ EXCEPT !.pc = "enterLeft"]]
      BY <2>1, <2>2 DEF AfterEnsure
    <3>2. Becomes(t, "enterLeft", dir, TRUE, task[t].mode) /\ task'[t].old = task[t].old
      BY <1>0, <2>2, <3>1 DEF Becomes, Records
    <3>3. task'[t].pc = "enterLeft"
      BY <3>2 DEF Becomes
    <3> QED BY <1>5, <2>1, <2>2, <3>2, <3>3 DEF Advances, Approves, Turns
  <2>3. CASE ~(task[t].ok /\ ok)
    <3>1. task' = [task EXCEPT ![t] = Idle]
      BY <2>1, <2>3 DEF AfterEnsure
    <3>2. Becomes(t, "idle", "long_spread", TRUE, "unknown")
      BY <1>2, <3>1
    <3>3. loop' = Nobody
      BY <2>1, <3>2 DEF Becomes
    <3> QED BY <1>5, <2>1, <2>3, <3>2, <3>3 DEF Advances, Aborts, Ends
  <2> QED BY <2>2, <2>3
<1>6. CASE pc = "enterLeft"
  <2>1. /\ orders' = IF ok THEN orders \union {Order(pc, dir, t)} ELSE orders
        /\ exitFailed' = exitFailed
        /\ loop' = t /\ UNCHANGED <<position, clock>>
        /\ task' = [task EXCEPT ![t] = [@ EXCEPT !.ok = ok, !.pc = "enterRight"]]
    BY <1>6 DEF Proceed, IsExit, Typed
  <2>2. Becomes(t, "enterRight", dir, ok, task[t].mode) /\ task'[t].old = task[t].old
    BY <1>1, <2>1 DEF Pcs, Lookups
  <2>3. Order(pc, dir, t) = Entry(dir, "left", t)
    <3>1. LegOf(pc) = "left" /\ IsExit(pc) = FALSE
      BY <1>6 DEF LegOf, IsExit
    <3> QED BY <3>1 DEF Order, Entry, SideOf
  <2> QED BY <1>6, <2>1, <2>2, <2>3 DEF Advances, OpensLeft, Turns
<1>7. CASE pc = "enterRight"
  <2>1. /\ orders' = IF ok THEN orders \union {Order(pc, dir, t)} ELSE orders
        /\ exitFailed' = exitFailed
        /\ position' = IF task[t].ok /\ ok THEN dir ELSE position
        /\ UNCHANGED clock /\ Done(t)
    BY <1>7 DEF Proceed, IsExit, Typed
  <2>2. Order(pc, dir, t) = Entry(dir, "right", t)
    <3>1. LegOf(pc) = "right" /\ IsExit(pc) = FALSE
      BY <1>7 DEF LegOf, IsExit
    <3> QED BY <3>1 DEF Order, Entry, SideOf
  <2> QED BY <1>3, <1>7, <2>1, <2>2 DEF Advances, OpensRight
<1>8. CASE pc = "exitLeft"
  <2>1. /\ orders' = IF ok THEN orders \union {Order(pc, dir, t)} ELSE orders
        /\ exitFailed' = (exitFailed \/ ~ok)
        /\ loop' = t /\ UNCHANGED <<position, clock>>
        /\ task' = [task EXCEPT ![t] = [@ EXCEPT !.ok = ok, !.pc = "exitRight"]]
    BY <1>8 DEF Proceed, IsExit, Typed
  <2>2. Becomes(t, "exitRight", dir, ok, task[t].mode) /\ task'[t].old = task[t].old
    BY <1>1, <2>1 DEF Pcs, Lookups
  <2>3. Order(pc, dir, t) = Exit(dir, "left", t)
    BY <1>8 DEF Order, Exit, LegOf, SideOf, IsExit
  <2> QED BY <1>8, <2>1, <2>2, <2>3 DEF Advances, ClosesLeft, Turns
<1>9. CASE pc = "exitRight"
  <2>1. /\ orders' = IF ok THEN orders \union {Order(pc, dir, t)} ELSE orders
        /\ exitFailed' = (exitFailed \/ ~ok)
        /\ position' = "none" /\ cooling' = TRUE /\ before' = orders' /\ loop' = Nobody
        /\ task' = [u \in Tasks |->
              IF u = t THEN Idle
              ELSE IF IsEntry(task[u].pc) THEN [task[u] EXCEPT !.old = TRUE]
              ELSE task[u]]
    BY <1>9 DEF Proceed, IsExit, Typed
  <2>2. Order(pc, dir, t) = Exit(dir, "right", t)
    BY <1>9 DEF Order, Exit, LegOf, SideOf, IsExit
  <2>3. task'[t].pc = "idle"
    BY <2>1 DEF Idle
  <2>4. ASSUME NEW u \in Tasks \ {t}
        PROVE  /\ task'[u].pc = task[u].pc /\ task'[u].dir = task[u].dir
               /\ task'[u].ok = task[u].ok /\ task'[u].mode = task[u].mode
               /\ task'[u].old = (task[u].old \/ IsEntry(task[u].pc))
    <3>1. task[u] \in Records
      BY <1>0
    <3>2. task'[u] = IF IsEntry(task[u].pc) THEN [task[u] EXCEPT !.old = TRUE] ELSE task[u]
      BY <2>1
    <3>3. CASE IsEntry(task[u].pc)
      BY <3>1, <3>2, <3>3 DEF Records
    <3>4. CASE ~IsEntry(task[u].pc)
      BY <3>1, <3>2, <3>4 DEF Records
    <3> QED BY <3>3, <3>4
  <2> QED BY <1>9, <2>1, <2>2, <2>3, <2>4 DEF Advances, ClosesRight
<1> QED BY <1>4, <1>5, <1>6, <1>7, <1>8, <1>9 DEF Lookups

Settles(o) == Fill(o) \/ RejectReduce(o) \/ Reject(o)

LEMMA StepCases ==
  ASSUME Typed, [Next]_vars
  PROVE  \/ CooldownEnds \/ OtherStrategy \/ UNCHANGED vars
         \/ \E t \in Tasks :
              \/ Arrives(t)
              \/ BeginsExit(t) \/ (\E d \in Directions : BeginsEntry(t, d)) \/ Drops(t)
              \/ Awaits(t) \/ AwaitsMode(t)
              \/ (\E m \in {"net_mode", PosMode} : Learns(t, m))
              \/ (\E ok \in BOOLEAN : Returns(t, ok) /\ Advances(t, ok))
         \/ \E o \in orders : Settles(o)
<1>0. /\ task \in [Tasks -> Records]
      /\ \A t \in Tasks : task[t] \in Records /\ t # Nobody
  BY Awake DEF Typed
<1> DEFINE rest == <<clock, position, serviceVars, orders, held, rejected, shared,
                     exitFailed, flapped>>
<1>1. ASSUME NEW t \in Tasks, OnBar(t)
      PROVE  Arrives(t)
  <2>1. PICK pc \in {"signal", "broken"} : task' = [task EXCEPT ![t] = [Idle EXCEPT !.pc = pc]]
    BY <1>1 DEF OnBar
  <2>2. Becomes(t, pc, "long_spread", TRUE, "unknown") /\ task[t].pc = "idle"
    BY <1>0, <1>1, <2>1 DEF Becomes, Idle, OnBar
  <2> QED BY <1>1, <2>2 DEF OnBar, Arrives, serviceVars, Past
<1>2. ASSUME NEW t \in Tasks, NEW pc \in Pcs, NEW d \in Directions, Goto(t, pc, d),
             loop = Nobody, UNCHANGED rest
      PROVE  Begins(t, pc, d)
  <2>1. Becomes(t, pc, d, task[t].ok, task[t].mode) /\ task'[t].old = task[t].old
    BY <1>0, <1>2 DEF Goto, Becomes, Records
  <2> QED BY <1>2, <2>1 DEF Goto, Begins, serviceVars, Past
<1>3. ASSUME NEW t \in Tasks, task[t].pc \in {"signal", "broken"}, loop = Nobody, Done(t),
             UNCHANGED rest, UNCHANGED crossed
      PROVE  Drops(t)
  <2>1. Becomes(t, "idle", "long_spread", TRUE, "unknown")
    BY <1>0, <1>3 DEF Done, Becomes, Idle
  <2> QED BY <1>3, <2>1 DEF Done, Drops, Ends, serviceVars, Past
<1>4. ASSUME NEW t \in Tasks, task[t].pc \in {"signal", "broken"}, loop = Nobody,
             position \in Directions, StartExit(t), UNCHANGED rest
      PROVE  BeginsExit(t)
  <2>1. Begins(t, "exitLeft", position)
    BY <1>2, <1>4 DEF StartExit, Pcs, Lookups
  <2> QED BY <1>4, <2>1 DEF BeginsExit, StartExit
<1>5. ASSUME NEW t \in Tasks, Evaluate(t)
      PROVE  BeginsExit(t) \/ (\E d \in Directions : BeginsEntry(t, d)) \/ Drops(t)
  <2>1. UNCHANGED rest /\ task[t].pc = "signal" /\ loop = Nobody
    BY <1>5 DEF Evaluate
  <2>2. PICK z \in Zs : \/ WantsExit(z) /\ StartExit(t)
                        \/ WantsEntry(z) /\ CooldownOver /\ StartEntry(t, z)
                        \/ Done(t) /\ UNCHANGED crossed
    BY <1>5 DEF Evaluate
  <2>3. CASE WantsExit(z) /\ StartExit(t)
    <3>1. position \in Directions
      BY <2>3 DEF WantsExit, Directions
    <3> QED BY <1>4, <2>1, <2>3, <3>1
  <2>4. CASE WantsEntry(z) /\ CooldownOver /\ StartEntry(t, z)
    <3> DEFINE pc == IF Isolated THEN "mode" ELSE "enterLeft"
    <3>1. PICK d \in Directions : Goto(t, pc, d)
      BY <2>4 DEF StartEntry, Directions
    <3>2. pc \in Pcs
      BY DEF Pcs, Lookups
    <3>3. Begins(t, pc, d)
      BY <1>2, <2>1, <3>1, <3>2
    <3> QED BY <2>1, <2>4, <3>3 DEF BeginsEntry, WantsEntry, CooldownOver, StartEntry
  <2> QED BY <1>3, <2>1, <2>2, <2>3, <2>4
<1>6. ASSUME NEW t \in Tasks, ExitBroken(t)
      PROVE  BeginsExit(t) \/ Drops(t)
  <2>1. /\ UNCHANGED rest
        /\ task[t].pc = "broken" /\ loop = Nobody
        /\ IF position = "none" THEN Done(t) /\ UNCHANGED crossed ELSE StartExit(t)
    BY <1>6 DEF ExitBroken
  <2> QED BY <1>3, <1>4, <2>1 DEF Typed
<1>7. ASSUME NEW t \in Tasks, NEW ok \in BOOLEAN, task[t].pc \in Lookups, Proceed(t, ok),
             Returns(t, ok)
      PROVE  Returns(t, ok) /\ Advances(t, ok)
  BY <1>7, AdvanceCases
<1>8. ASSUME NEW t \in Tasks, Lookup(t)
      PROVE  Awaits(t) \/ \E ok \in BOOLEAN : Returns(t, ok) /\ Advances(t, ok)
  <2>1. CASE Hit(t)
    <3>1. Proceed(t, TRUE) /\ Returns(t, TRUE)
      BY <1>8, <2>1 DEF Lookup, Returns, serviceVars
    <3>2. task[t].pc \in Lookups
      BY <1>8 DEF Lookup
    <3>3. Returns(t, TRUE) /\ Advances(t, TRUE)
      BY <1>7, <3>1, <3>2
    <3> QED BY <3>3
  <2>2. CASE ~Hit(t)
    <3>1. task' = [task EXCEPT ![t] = AsksMode(@)]
      BY <1>8, <2>2 DEF Lookup
    <3>2. /\ Becomes(t, task[t].pc, task[t].dir, task[t].ok, AsksMode(task[t]).mode)
          /\ task'[t].old = task[t].old
      BY <1>0, <3>1 DEF Becomes, AsksMode, Records
    <3> QED BY <1>8, <2>2, <3>2 DEF Lookup, Awaits, serviceVars, Past
  <2> QED BY <2>1, <2>2
<1>9. ASSUME NEW t \in Tasks, SetLeverageReturns(t)
      PROVE  \E ok \in BOOLEAN : Returns(t, ok) /\ Advances(t, ok)
  <2>1. PICK ok \in BOOLEAN :
          /\ Proceed(t, ok) /\ (ok => task[t].mode = PosMode)
          /\ levers' = IF ok THEN levers \union {Key(task[t])} ELSE levers
    BY <1>9 DEF SetLeverageReturns
  <2>2. Returns(t, ok)
    BY <1>9, <2>1 DEF SetLeverageReturns, Returns
  <2> QED BY <1>7, <1>9, <2>1, <2>2 DEF SetLeverageReturns
<1>10. ASSUME NEW t \in Tasks, NEW m, EnsureUnder(t, m)
       PROVE  /\ Becomes(t, "ensureLeft", task[t].dir, task[t].ok, m) /\ loop' = t
              /\ task'[t].old = task[t].old
  BY <1>0, <1>10 DEF EnsureUnder, Becomes, Records
<1>11. ASSUME NEW t \in Tasks, LookupMode(t)
       PROVE  AwaitsMode(t) \/ \E m \in {"net_mode", PosMode} : Learns(t, m)
  <2>1. CASE posMode # "unknown"
    <3>1. posMode \in {"net_mode", PosMode}
      BY <2>1 DEF Typed
    <3>2. Learns(t, posMode)
      BY <1>10, <1>11, <2>1 DEF LookupMode, Learns, serviceVars
    <3> QED BY <3>1, <3>2
  <2>2. CASE posMode = "unknown"
    BY <1>11, <2>2 DEF LookupMode, AwaitsMode, serviceVars, Past
  <2> QED BY <2>1, <2>2
<1>12. ASSUME NEW t \in Tasks, PosModeReturns(t)
       PROVE  \E m \in {"net_mode", PosMode} : Learns(t, m)
  <2>1. posMode' \in {"net_mode", PosMode}
    BY <1>12 DEF PosModeReturns
  <2>2. PICK m \in {"net_mode", PosMode} : m = posMode'
    BY <2>1
  <2>3. Learns(t, m)
    BY <1>10, <1>12, <2>2 DEF PosModeReturns, Learns
  <2> QED BY <2>3
<1>13. CASE UNCHANGED vars
  BY <1>13
<1>14. CASE Next
  BY <1>1, <1>5, <1>6, <1>8, <1>9, <1>11, <1>12, <1>14 DEF Next, Settles
<1> QED BY <1>13, <1>14

-----------------------------------------------------------------------------
(* The cooldown *)

OnItsWay(t) == task[t].pc \in Lookups \union {"mode"}

LEMMA PcFacts ==
  /\ \A pc \in {"mode", "ensureLeft", "ensureRight", "enterLeft", "enterRight"} :
       IsEntry(pc) /\ ~IsExit(pc)
  /\ \A pc \in {"exitLeft", "exitRight"} : IsExit(pc) /\ ~IsEntry(pc)
  /\ \A pc \in {"idle", "signal", "broken"} : ~IsEntry(pc) /\ ~IsExit(pc)
  /\ Lookups = {"ensureLeft", "ensureRight", "enterLeft", "enterRight", "exitLeft", "exitRight"}
BY DEF IsEntry, IsExit, Lookups

\* Within the cooldown only a coroutine that an exit overtook is on its way in.
Late == cooling => \A t \in Tasks : IsEntry(task[t].pc) => task[t].old

LEMMA LateStep ==
  ASSUME Typed, Late, [Next]_vars
  PROVE  Late'
<1> USE DEF Late
<1>1. CASE CooldownEnds
  BY <1>1 DEF CooldownEnds
<1>2. CASE OtherStrategy \/ UNCHANGED vars
  BY <1>2 DEF OtherStrategy, vars, clock
<1>3. ASSUME NEW t \in Tasks, UNCHANGED clock, \A u \in Tasks \ {t} : task'[u] = task[u],
             cooling /\ IsEntry(task'[t].pc) => IsEntry(task[t].pc) /\ task'[t].old = task[t].old
      PROVE  Late'
  BY <1>3 DEF clock
<1>4. ASSUME NEW t \in Tasks, Arrives(t) PROVE Late'
  BY <1>3, <1>4, PcFacts DEF Arrives, Becomes
<1>5. ASSUME NEW t \in Tasks, BeginsExit(t) PROVE Late'
  BY <1>3, <1>5, PcFacts DEF BeginsExit, Begins, Becomes
<1>6. ASSUME NEW t \in Tasks, NEW d \in Directions, BeginsEntry(t, d) PROVE Late'
  BY <1>3, <1>6 DEF BeginsEntry, Begins, Becomes
<1>7. ASSUME NEW t \in Tasks, Drops(t) PROVE Late'
  BY <1>3, <1>7, PcFacts DEF Drops, Ends, Becomes
<1>8. ASSUME NEW t \in Tasks, Awaits(t) PROVE Late'
  BY <1>3, <1>8 DEF Awaits, Becomes
<1>9. ASSUME NEW t \in Tasks, AwaitsMode(t) PROVE Late'
  BY <1>9 DEF AwaitsMode, clock
<1>10. ASSUME NEW t \in Tasks, NEW m, Learns(t, m) PROVE Late'
  BY <1>3, <1>10, PcFacts DEF Learns, Becomes
<1>11. ASSUME NEW t \in Tasks, NEW ok \in BOOLEAN, Advances(t, ok) PROVE Late'
  <2>1. CASE Validates(t, ok) \/ Approves(t, ok) \/ OpensLeft(t, ok)
    BY <1>3, <2>1, PcFacts DEF Validates, Approves, OpensLeft, Turns, Becomes
  <2>2. CASE Aborts(t, ok) \/ OpensRight(t, ok) \/ ClosesLeft(t, ok)
    BY <1>3, <2>2, PcFacts DEF Aborts, OpensRight, ClosesLeft, Turns, Ends, Becomes
  <2>3. CASE ClosesRight(t, ok)
    BY <2>3, PcFacts DEF ClosesRight
  <2> QED BY <1>11, <2>1, <2>2, <2>3 DEF Advances
<1>12. ASSUME NEW o \in orders, Settles(o) PROVE Late'
  BY <1>12 DEF Settles, Fill, RejectReduce, Reject, OnOrderRejected
<1> QED BY <1>1, <1>2, <1>4, <1>5, <1>6, <1>7, <1>8, <1>9, <1>10, <1>11, <1>12, StepCases

\* A new opening order is that of a coroutine on its way in.
LEMMA WhoOpens ==
  ASSUME Typed, [Next]_vars, NEW o \in orders' \ orders, ~o.reduce
  PROVE  o.by \in Tasks /\ IsEntry(task[o.by].pc)
<1>1. ASSUME orders' \subseteq orders PROVE FALSE
  BY <1>1
<1>2. PICK t \in Tasks, ok \in BOOLEAN : Advances(t, ok)
  BY <1>1, StepCases DEF CooldownEnds, OtherStrategy, vars, Arrives, BeginsExit, BeginsEntry,
     Begins, Drops, Awaits, AwaitsMode, Learns, Settles, Fill, RejectReduce, Reject,
     OnOrderRejected
<1>3. CASE OpensLeft(t, ok) \/ OpensRight(t, ok)
  <2>1. o.by = t
    BY <1>3 DEF OpensLeft, OpensRight, Entry
  <2> QED BY <1>3, <2>1, PcFacts DEF OpensLeft, OpensRight
<1>4. CASE ClosesLeft(t, ok) \/ ClosesRight(t, ok)
  BY <1>4 DEF ClosesLeft, ClosesRight, Exit
<1>5. CASE Validates(t, ok) \/ Approves(t, ok) \/ Aborts(t, ok)
  BY <1>1, <1>5 DEF Validates, Approves, Aborts
<1> QED BY <1>2, <1>3, <1>4, <1>5 DEF Advances

\* cooldown_sec_after_exit: after an exit an entry order leaves within the
\* cooldown only from a coroutine that had passed the gate before that exit
\* ended and awaited OKX across it, however many coroutines are under way.
THEOREM CooldownIsKept == Spec => NoEntryInCooldown
<1>1. Init => Typed /\ Late
  BY InitTypeOK DEF Init, Late
<1>2. Typed /\ Late /\ [Next]_vars => (Typed /\ Late)'
  BY TypeStep, LateStep
<1>3. Typed /\ Late /\ [Next]_vars
        => [cooling => \A o \in orders' \ orders : o.reduce \/ task[o.by].old]_vars
  BY WhoOpens DEF Late
<1> QED BY <1>1, <1>2, <1>3, PTL DEF Spec, NoEntryInCooldown

\* Without margin isolation nothing that a coroutine awaits suspends it: it
\* holds the loop until it is done, and never looks up a posMode.
Unsuspended ==
  ~Isolated => \A t \in Tasks : /\ OnItsWay(t) => loop = t
                                /\ task[t].pc # "mode"
                                /\ task[t].pc = "enterRight" => task[t].ok

LEMMA UnsuspendedStep ==
  ASSUME Typed, Unsuspended, [Next]_vars
  PROVE  Unsuspended'
<1> SUFFICES ASSUME ~Isolated PROVE Unsuspended'
  BY DEF Unsuspended
<1> USE DEF Unsuspended, OnItsWay
<1>0. /\ \A t \in Tasks : t # Nobody
      /\ \A t \in Tasks : Hit(t)
  BY Awake DEF Hit
<1>1. CASE CooldownEnds \/ OtherStrategy \/ UNCHANGED vars
  BY <1>1 DEF CooldownEnds, OtherStrategy, vars
<1>4. ASSUME NEW t \in Tasks, Arrives(t) PROVE Unsuspended'
  BY <1>0, <1>4, PcFacts DEF Arrives, Becomes
<1>5. ASSUME NEW t \in Tasks, BeginsExit(t) PROVE Unsuspended'
  BY <1>0, <1>5, PcFacts DEF BeginsExit, Begins, Becomes
<1>6. ASSUME NEW t \in Tasks, NEW d \in Directions, BeginsEntry(t, d) PROVE Unsuspended'
  BY <1>0, <1>6, PcFacts DEF BeginsEntry, Begins, Becomes
<1>7. ASSUME NEW t \in Tasks, Drops(t) PROVE Unsuspended'
  BY <1>0, <1>7, PcFacts DEF Drops, Ends, Becomes
<1>8. ASSUME NEW t \in Tasks, Awaits(t) PROVE Unsuspended'
  BY <1>0, <1>8 DEF Awaits
<1>9. ASSUME NEW t \in Tasks, AwaitsMode(t) PROVE Unsuspended'
  BY <1>9 DEF AwaitsMode
<1>10. ASSUME NEW t \in Tasks, NEW m, Learns(t, m) PROVE Unsuspended'
  BY <1>10 DEF Learns
<1>11. ASSUME NEW t \in Tasks, NEW ok \in BOOLEAN, Returns(t, ok), Advances(t, ok)
       PROVE  Unsuspended'
  <2>0. loop = t /\ ok = TRUE
    BY <1>0, <1>11, PcFacts DEF Returns, Advances, Validates, Approves, Aborts, OpensLeft,
       OpensRight, ClosesLeft, ClosesRight
  <2>1. \A u \in Tasks \ {t} : ~OnItsWay(u)
    BY <2>0
  <2>2. CASE Validates(t, ok) \/ Approves(t, ok) \/ OpensLeft(t, ok) \/ ClosesLeft(t, ok)
    BY <2>0, <2>1, <2>2, PcFacts DEF Validates, Approves, OpensLeft, ClosesLeft, Turns, Becomes
  <2>3. CASE Aborts(t, ok) \/ OpensRight(t, ok)
    BY <2>0, <2>1, <2>3, PcFacts DEF Aborts, OpensRight, Ends, Becomes
  <2>4. CASE ClosesRight(t, ok)
    BY <2>0, <2>1, <2>4, PcFacts DEF ClosesRight
  <2> QED BY <1>11, <2>2, <2>3, <2>4 DEF Advances
<1>12. ASSUME NEW o \in orders, Settles(o) PROVE Unsuspended'
  BY <1>12 DEF Settles, Fill, RejectReduce, Reject, OnOrderRejected
<1> QED BY <1>1, <1>4, <1>5, <1>6, <1>7, <1>8, <1>9, <1>10, <1>11, <1>12, StepCases

\* So no exit overtakes an entry.
Undisturbed == ~Isolated /\ cooling => \A t \in Tasks : ~IsEntry(task[t].pc)

LEMMA UndisturbedStep ==
  ASSUME Typed, Unsuspended, Undisturbed, [Next]_vars
  PROVE  Undisturbed'
<1> SUFFICES ASSUME ~Isolated PROVE Undisturbed'
  BY DEF Undisturbed
<1> USE DEF Undisturbed
<1>1. CASE CooldownEnds
  BY <1>1 DEF CooldownEnds
<1>2. CASE OtherStrategy \/ UNCHANGED vars
  BY <1>2 DEF OtherStrategy, vars, clock
<1>3. ASSUME NEW t \in Tasks, UNCHANGED clock, \A u \in Tasks \ {t} : task'[u] = task[u],
             cooling /\ IsEntry(task'[t].pc) => IsEntry(task[t].pc)
      PROVE  Undisturbed'
  BY <1>3 DEF clock
<1>4. ASSUME NEW t \in Tasks, Arrives(t) PROVE Undisturbed'
  BY <1>3, <1>4, PcFacts DEF Arrives, Becomes
<1>5. ASSUME NEW t \in Tasks, BeginsExit(t) PROVE Undisturbed'
  BY <1>3, <1>5, PcFacts DEF BeginsExit, Begins, Becomes
<1>6. ASSUME NEW t \in Tasks, NEW d \in Directions, BeginsEntry(t, d) PROVE Undisturbed'
  BY <1>3, <1>6 DEF BeginsEntry, Begins, Becomes
<1>7. ASSUME NEW t \in Tasks, Drops(t) PROVE Undisturbed'
  BY <1>3, <1>7, PcFacts DEF Drops, Ends, Becomes
<1>8. ASSUME NEW t \in Tasks, Awaits(t) PROVE Undisturbed'
  BY <1>3, <1>8 DEF Awaits, Becomes
<1>9. ASSUME NEW t \in Tasks, AwaitsMode(t) PROVE Undisturbed'
  BY <1>9 DEF AwaitsMode, clock
<1>10. ASSUME NEW t \in Tasks, NEW m, Learns(t, m) PROVE Undisturbed'
  BY <1>3, <1>10, PcFacts DEF Learns, Becomes
<1>11. ASSUME NEW t \in Tasks, NEW ok \in BOOLEAN, Advances(t, ok) PROVE Undisturbed'
  <2>1. CASE Validates(t, ok) \/ Approves(t, ok) \/ OpensLeft(t, ok)
    BY <1>3, <2>1, PcFacts DEF Validates, Approves, OpensLeft, Turns, Becomes
  <2>2. CASE Aborts(t, ok) \/ OpensRight(t, ok) \/ ClosesLeft(t, ok)
    BY <1>3, <2>2, PcFacts DEF Aborts, OpensRight, ClosesLeft, Turns, Ends, Becomes
  <2>3. CASE ClosesRight(t, ok)
    <3>1. loop = t
      BY <2>3, PcFacts DEF ClosesRight, Unsuspended, OnItsWay
    <3>2. \A u \in Tasks \ {t} : ~IsEntry(task[u].pc)
      BY <3>1, PcFacts DEF Unsuspended, OnItsWay, IsEntry
    <3> QED BY <2>3, <3>2, PcFacts DEF ClosesRight
  <2> QED BY <1>11, <2>1, <2>2, <2>3 DEF Advances
<1>12. ASSUME NEW o \in orders, Settles(o) PROVE Undisturbed'
  BY <1>12 DEF Settles, Fill, RejectReduce, Reject, OnOrderRejected
<1> QED BY <1>1, <1>2, <1>4, <1>5, <1>6, <1>7, <1>8, <1>9, <1>10, <1>11, <1>12, StepCases

\* Without margin isolation no entry order at all leaves within the cooldown.
THEOREM CrossCooldownIsKept ==
  ASSUME ~Isolated
  PROVE  Spec => [][cooling => \A o \in orders' \ orders : o.reduce]_vars
<1> DEFINE Inv == Typed /\ Unsuspended /\ Undisturbed
<1>1. Init => Inv
  BY InitTypeOK, PcFacts DEF Init, Unsuspended, Undisturbed, OnItsWay, Idle
<1>2. Inv /\ [Next]_vars => Inv'
  BY TypeStep, UnsuspendedStep, UndisturbedStep
<1>3. Inv /\ [Next]_vars => [cooling => \A o \in orders' \ orders : o.reduce]_vars
  BY WhoOpens DEF Undisturbed
<1> QED BY <1>1, <1>2, <1>3, PTL DEF Spec

-----------------------------------------------------------------------------
(* An entry comes whole: both orders leave, and nothing between them *)

EntryKey(d, l) == <<l, PosSide(PosMode, EntrySide(d, l))>>

\* The keys OKX accepts in this account.
FitKeys == {<<l, PosSide(PosMode, s)>> : l \in Legs, s \in {"buy", "sell"}}

\* Once a coroutine has been told the posMode, it is the one the service keeps.
\* The check of both legs passes only under the posMode of the account, and
\* what it found in the cache stays there, so that the two orders find both
\* leverages set and leave in one go.
LegsVetted(t) ==
  LET k == task[t] IN
  /\ k.pc \in {"ensureLeft", "ensureRight"} => posMode # "unknown" /\ k.mode = posMode
  /\ k.pc = "ensureRight" /\ k.ok => posMode = PosMode /\ EntryKey(k.dir, "left") \in levers
  /\ k.pc \in {"enterLeft", "enterRight"} =>
       /\ posMode = PosMode /\ loop = t
       /\ \A l \in Legs : EntryKey(k.dir, l) \in levers
  /\ k.pc = "enterRight" => k.ok

Vetted == levers \subseteq FitKeys /\ \A t \in Tasks : LegsVetted(t)

\* Only the account's own posMode yields a key that OKX accepts.
LEMMA KeyFits ==
  ASSUME NEW k \in Records, k.pc \in Lookups
  PROVE  /\ k.mode = PosMode => Key(k) \in FitKeys
         /\ Key(k) \in FitKeys /\ k.mode # "unknown" => k.mode = PosMode
         /\ k.mode = PosMode /\ k.pc \in {"ensureLeft", "enterLeft"}
              => Key(k) = EntryKey(k.dir, "left")
         /\ k.mode = PosMode /\ k.pc \in {"ensureRight", "enterRight"}
              => Key(k) = EntryKey(k.dir, "right")
<1>0. /\ k.dir \in Directions /\ k.mode \in {"unknown", "net_mode", PosMode}
      /\ PosMode \in {"net_mode", "long_short_mode"}
  BY ConstantsAssumption DEF Records
<1>1. LegOf(k.pc) \in Legs /\ SideOf(k.pc, k.dir) \in {"buy", "sell"}
  BY <1>0, Sides DEF LegOf, SideOf, Legs
<1>2. k.mode = PosMode => Key(k) \in FitKeys
  BY <1>1 DEF Key, FitKeys
<1>3. Key(k) \in FitKeys /\ k.mode # "unknown" => k.mode = PosMode
  BY <1>0, <1>1 DEF Key, FitKeys, PosSide
<1>4. ASSUME k.pc \in {"ensureLeft", "enterLeft"}
      PROVE  SideOf(k.pc, k.dir) = EntrySide(k.dir, "left") /\ LegOf(k.pc) = "left"
  BY <1>4 DEF SideOf, LegOf, IsExit
<1>5. ASSUME k.pc \in {"ensureRight", "enterRight"}
      PROVE  SideOf(k.pc, k.dir) = EntrySide(k.dir, "right") /\ LegOf(k.pc) = "right"
  BY <1>5 DEF SideOf, LegOf, IsExit
<1> QED BY <1>2, <1>3, <1>4, <1>5 DEF Key, EntryKey

LEMMA AsksTyped ==
  ASSUME Typed, NEW t \in Tasks
  PROVE  /\ AsksMode(task[t]) \in Records
         /\ AsksMode(task[t]).pc = task[t].pc /\ AsksMode(task[t]).dir = task[t].dir
         /\ task[t].pc \in {"ensureLeft", "ensureRight"} => AsksMode(task[t]) = task[t]
         /\ task[t].pc \notin {"ensureLeft", "ensureRight"}
              => AsksMode(task[t]).mode = posMode
<1>1. task[t] \in Records
  BY DEF Typed
<1> QED BY <1>1 DEF AsksMode, Records, Typed

\* The orders of an entry find their leverages in the cache.
LEMMA EntryHits ==
  ASSUME Typed, NEW t \in Tasks, LegsVetted(t), task[t].pc \in {"enterLeft", "enterRight"}
  PROVE  Hit(t) /\ loop = t
<1> DEFINE a == AsksMode(task[t])
<1>1. /\ a \in Records /\ a.pc = task[t].pc /\ a.dir = task[t].dir /\ a.mode = PosMode
      /\ loop = t /\ \A l \in Legs : EntryKey(task[t].dir, l) \in levers
  BY AsksTyped DEF LegsVetted
<1>2. Key(a) \in {EntryKey(task[t].dir, "left"), EntryKey(task[t].dir, "right")}
  BY <1>1, KeyFits DEF Lookups
<1> QED BY <1>1, <1>2 DEF Hit, Legs

\* The coroutine t moved, and no posMode or leverage was lost.
LEMMA OthersVetted ==
  ASSUME Typed, Vetted, NEW t \in Tasks, NEW u \in Tasks \ {t}, loop \in {t, Nobody},
         task'[u].pc = task[u].pc, task'[u].dir = task[u].dir, task'[u].ok = task[u].ok,
         task'[u].mode = task[u].mode,
         posMode' = posMode \/ posMode = "unknown", levers \subseteq levers'
  PROVE  LegsVetted(u)'
<1>1. LegsVetted(u) /\ loop # u
  BY Awake DEF Vetted
<1>2. task[u].pc \notin {"enterLeft", "enterRight"}
  BY <1>1 DEF LegsVetted
<1>3. PosMode # "unknown"
  BY ConstantsAssumption
<1> QED BY <1>1, <1>2, <1>3 DEF LegsVetted

LEMMA VettedStep ==
  ASSUME Typed, Typed', Isolated, ~shared', ~flapped', Vetted, [Next]_vars
  PROVE  Vetted'
<1>0. /\ \A t \in Tasks : t # Nobody /\ task[t] \in Records
      /\ PosMode # "unknown"
  BY ConstantsAssumption, Awake
<1>1. CASE CooldownEnds \/ UNCHANGED vars
  BY <1>1 DEF CooldownEnds, vars, serviceVars, Vetted, LegsVetted
<1>2. CASE OtherStrategy
  BY <1>2 DEF OtherStrategy
\* A coroutine moved to a place that Vetted says nothing of.
<1>3. ASSUME NEW t \in Tasks, loop \in {t, Nobody},
             \A u \in Tasks \ {t} :
               /\ task'[u].pc = task[u].pc /\ task'[u].dir = task[u].dir
               /\ task'[u].ok = task[u].ok /\ task'[u].mode = task[u].mode,
             task'[t].pc \notin {"ensureLeft", "ensureRight", "enterLeft", "enterRight"},
             posMode' = posMode, levers \subseteq levers', levers' \subseteq FitKeys
      PROVE  Vetted'
  <2>1. \A u \in Tasks \ {t} : LegsVetted(u)'
    BY <1>3, OthersVetted
  <2>2. LegsVetted(t)'
    BY <1>3 DEF LegsVetted
  <2> QED BY <1>3, <2>1, <2>2 DEF Vetted
<1>4. ASSUME NEW t \in Tasks, Arrives(t) PROVE Vetted'
  BY <1>3, <1>4 DEF Arrives, Becomes, Vetted
<1>5. ASSUME NEW t \in Tasks, BeginsExit(t) PROVE Vetted'
  BY <1>3, <1>5 DEF BeginsExit, Begins, Becomes, Vetted
<1>6. ASSUME NEW t \in Tasks, NEW d \in Directions, BeginsEntry(t, d) PROVE Vetted'
  BY <1>3, <1>6 DEF BeginsEntry, Begins, Becomes, Vetted
<1>7. ASSUME NEW t \in Tasks, Drops(t) PROVE Vetted'
  BY <1>3, <1>7 DEF Drops, Ends, Becomes, Vetted
<1>8. ASSUME NEW t \in Tasks, AwaitsMode(t) PROVE Vetted'
  BY <1>3, <1>8 DEF AwaitsMode, Vetted
<1>9. ASSUME NEW t \in Tasks, Awaits(t) PROVE Vetted'
  <2>1. /\ \A u \in Tasks \ {t} : task'[u] = task[u]
        /\ task'[t].pc = task[t].pc /\ task'[t].dir = task[t].dir
        /\ task'[t].ok = task[t].ok /\ task'[t].mode = AsksMode(task[t]).mode
        /\ UNCHANGED <<posMode, levers>> /\ loop = t /\ loop' = Nobody
        /\ task[t].pc \in Lookups /\ LegsVetted(t)
    BY <1>9 DEF Awaits, Becomes, Vetted
  <2>2. task[t].pc \notin {"enterLeft", "enterRight"}
    BY <1>9, <2>1, EntryHits DEF Awaits
  <2>3. CASE task[t].pc \in {"ensureLeft", "ensureRight"}
    <3>1. task'[t].mode = task[t].mode
      BY <2>1, <2>3, AsksTyped
    <3>2. LegsVetted(t)'
      BY <2>1, <2>3, <3>1 DEF LegsVetted
    <3>3. \A u \in Tasks \ {t} : LegsVetted(u)'
      BY <2>1, OthersVetted
    <3> QED BY <2>1, <3>2, <3>3 DEF Vetted
  <2>4. CASE task[t].pc \in {"exitLeft", "exitRight"}
    BY <1>3, <2>1, <2>4 DEF Vetted
  <2> QED BY <2>1, <2>2, <2>3, <2>4, PcFacts
<1>10. ASSUME NEW t \in Tasks, NEW m \in {"net_mode", PosMode}, Learns(t, m) PROVE Vetted'
  <2>1. /\ \A u \in Tasks \ {t} : task'[u] = task[u]
        /\ task'[t].pc = "ensureLeft" /\ task'[t].mode = m
        /\ posMode' = m /\ UNCHANGED levers /\ m # "unknown" /\ loop \in {t, Nobody}
        /\ posMode \in {"unknown", m}
    BY <1>0, <1>10 DEF Learns, Becomes
  <2>2. LegsVetted(t)'
    BY <2>1 DEF LegsVetted
  <2>3. \A u \in Tasks \ {t} : LegsVetted(u)'
    BY <2>1, OthersVetted
  <2> QED BY <2>1, <2>2, <2>3 DEF Vetted
<1>11. ASSUME NEW t \in Tasks, NEW ok \in BOOLEAN, Returns(t, ok), Advances(t, ok)
       PROVE  Vetted'
  <2>0. /\ task[t].pc \in Lookups /\ UNCHANGED posMode /\ loop \in {t, Nobody}
        /\ \A u \in Tasks \ {t} :
             /\ task'[u].pc = task[u].pc /\ task'[u].dir = task[u].dir
             /\ task'[u].ok = task[u].ok /\ task'[u].mode = task[u].mode
    BY <1>11 DEF Advances, Validates, Approves, Aborts, OpensLeft, OpensRight,
       ClosesLeft, ClosesRight, Lookups, Returns, Turns, Ends, Becomes
  <2>1. LegsVetted(t) /\ levers \subseteq FitKeys
    BY DEF Vetted
  <2>2. levers \subseteq levers' /\ levers' \subseteq FitKeys
    <3>1. ASSUME ok, task[t].mode = PosMode PROVE Key(task[t]) \in FitKeys
      BY <1>0, <2>0, <3>1, KeyFits
    <3> QED BY <1>11, <2>1, <3>1 DEF Returns
  <2>3. \A u \in Tasks \ {t} : LegsVetted(u)'
    BY <2>0, <2>2, OthersVetted
  \* A lookup that succeeds was made under the account's posMode, and its key is
  \* in the cache from then on.
  <2>4. ASSUME ok, task[t].pc \in {"ensureLeft", "ensureRight"}
        PROVE  task[t].mode = PosMode /\ Key(task[t]) \in levers'
    <3>1. CASE loop = t /\ Hit(t) /\ levers' = levers
      <4>1. Key(task[t]) \in levers
        BY <1>11, <2>4, <3>1, AsksTyped DEF Hit
      <4>2. task[t].mode # "unknown"
        BY <2>1, <2>4 DEF LegsVetted
      <4> QED BY <1>0, <2>0, <2>1, <3>1, <4>1, <4>2, KeyFits
    <3>2. CASE task[t].mode = PosMode /\ levers' = levers \union {Key(task[t])}
      BY <3>2
    <3> QED BY <1>11, <2>4, <3>1, <3>2 DEF Returns
  <2>5. CASE Validates(t, ok)
    <3>1. /\ task[t].pc = "ensureLeft" /\ task'[t].pc = "ensureRight" /\ task'[t].ok = ok
          /\ task'[t].dir = task[t].dir /\ task'[t].mode = task[t].mode
      BY <2>5 DEF Validates, Turns, Becomes
    <3>2. ok => task[t].mode = PosMode /\ EntryKey(task[t].dir, "left") \in levers'
      BY <1>0, <2>0, <2>4, <3>1, KeyFits
    <3>3. LegsVetted(t)'
      BY <2>0, <2>1, <3>1, <3>2 DEF LegsVetted
    <3> QED BY <2>2, <2>3, <3>3 DEF Vetted
  <2>6. CASE Approves(t, ok)
    <3>1. /\ task[t].pc = "ensureRight" /\ task[t].ok /\ ok
          /\ task'[t].pc = "enterLeft" /\ task'[t].dir = task[t].dir /\ loop' = t
      BY <2>6 DEF Approves, Turns, Becomes
    <3>2. posMode = PosMode /\ EntryKey(task[t].dir, "left") \in levers'
      BY <2>1, <2>2, <3>1 DEF LegsVetted
    <3>3. EntryKey(task[t].dir, "right") \in levers'
      BY <1>0, <2>0, <2>4, <3>1, KeyFits
    <3>4. LegsVetted(t)'
      BY <2>0, <3>1, <3>2, <3>3 DEF LegsVetted, Legs
    <3> QED BY <2>2, <2>3, <3>4 DEF Vetted
  <2>7. CASE OpensLeft(t, ok)
    <3>1. /\ task[t].pc = "enterLeft" /\ task'[t].pc = "enterRight" /\ task'[t].ok = ok
          /\ task'[t].dir = task[t].dir /\ loop' = t
      BY <2>7 DEF OpensLeft, Turns, Becomes
    <3>2. /\ posMode = PosMode /\ loop = t /\ t # Nobody
          /\ \A l \in Legs : EntryKey(task[t].dir, l) \in levers
      BY <1>0, <2>1, <3>1 DEF LegsVetted
    <3>3. ok
      BY <1>11, <3>2 DEF Returns
    <3>4. LegsVetted(t)'
      BY <2>0, <2>2, <3>1, <3>2, <3>3 DEF LegsVetted
    <3> QED BY <2>2, <2>3, <3>4 DEF Vetted
  <2>8. CASE Aborts(t, ok) \/ OpensRight(t, ok) \/ ClosesLeft(t, ok) \/ ClosesRight(t, ok)
    <3>1. task'[t].pc \in {"idle", "exitRight"}
      BY <2>8 DEF Aborts, OpensRight, ClosesLeft, ClosesRight, Turns, Ends, Becomes
    <3> QED BY <1>3, <2>0, <2>2, <3>1
  <2> QED BY <1>11, <2>5, <2>6, <2>7, <2>8 DEF Advances
<1>12. ASSUME NEW o \in orders, Settles(o) PROVE Vetted'
  BY <1>12 DEF Settles, Fill, RejectReduce, Reject, OnOrderRejected, serviceVars,
     Vetted, LegsVetted
<1> QED BY <1>1, <1>2, <1>4, <1>5, <1>6, <1>7, <1>8, <1>9, <1>10, <1>11, <1>12, StepCases

Grows ==
  /\ (rejected => rejected') /\ (shared => shared') /\ (exitFailed => exitFailed')
  /\ (crossed => crossed') /\ (flapped => flapped')

LEMMA HistoryGrows ==
  ASSUME Typed, [Next]_vars
  PROVE  Grows
<1>0. /\ rejected \in BOOLEAN /\ shared \in BOOLEAN /\ exitFailed \in BOOLEAN
      /\ crossed \in BOOLEAN /\ flapped \in BOOLEAN
  BY DEF Typed
<1>1. ASSUME UNCHANGED <<Past, crossed>> PROVE Grows
  BY <1>1 DEF Grows, Past
<1>2. CASE CooldownEnds \/ UNCHANGED vars
  BY <1>1, <1>2 DEF CooldownEnds, vars, Past
<1>3. CASE OtherStrategy
  <2>1. UNCHANGED <<rejected, exitFailed, crossed, flapped>> /\ shared' = TRUE
    BY <1>3 DEF OtherStrategy
  <2> QED BY <2>1 DEF Grows
<1>4. ASSUME NEW t \in Tasks, Arrives(t) \/ Drops(t) \/ Awaits(t) \/ AwaitsMode(t)
      PROVE  Grows
  BY <1>1, <1>4 DEF Arrives, Drops, Awaits, AwaitsMode
<1>5. ASSUME NEW t \in Tasks, BeginsExit(t) \/ \E d \in Directions : BeginsEntry(t, d)
      PROVE  Grows
  <2>1. UNCHANGED Past
    BY <1>5 DEF BeginsExit, BeginsEntry, Begins
  <2>2. crossed' = (crossed \/ EntryUnderWay) \/ crossed' = (crossed \/ ExitUnderWay)
    BY <1>5 DEF BeginsExit, BeginsEntry
  <2>3. crossed => crossed'
    BY <1>0, <2>2
  <2> QED BY <2>1, <2>3 DEF Grows, Past
<1>6. ASSUME NEW t \in Tasks, NEW m, Learns(t, m) PROVE Grows
  <2>1. UNCHANGED <<rejected, shared, exitFailed, crossed>>
    BY <1>6 DEF Learns
  <2>2. flapped' = flapped \/ flapped' = (flapped \/ posMode \notin {"unknown", m})
    BY <1>6 DEF Learns
  <2>3. flapped => flapped'
    BY <1>0, <2>2
  <2> QED BY <2>1, <2>3 DEF Grows
<1>7. ASSUME NEW t \in Tasks, NEW ok \in BOOLEAN, Returns(t, ok), Advances(t, ok)
      PROVE  Grows
  <2>1. UNCHANGED <<rejected, shared, crossed, flapped>>
    BY <1>7 DEF Returns
  <2>2. exitFailed' = exitFailed \/ exitFailed' = (exitFailed \/ ~ok)
    BY <1>7 DEF Advances, Validates, Approves, Aborts, OpensLeft, OpensRight,
       ClosesLeft, ClosesRight
  <2>3. exitFailed => exitFailed'
    BY <1>0, <2>2
  <2> QED BY <2>1, <2>3 DEF Grows
<1>8. ASSUME NEW o \in orders, Settles(o) PROVE Grows
  <2>1. UNCHANGED <<shared, exitFailed, crossed, flapped>>
    BY <1>8 DEF Settles, Fill, RejectReduce, Reject, OnOrderRejected
  <2>2. \/ rejected' = rejected \/ rejected' = TRUE
        \/ rejected' = (rejected \/ \E e \in orders : e.leg = o.leg /\ ~e.reduce)
    BY <1>8 DEF Settles, Fill, RejectReduce, Reject
  <2>3. rejected => rejected'
    BY <1>0, <2>2
  <2> QED BY <2>1, <2>3 DEF Grows
<1> QED BY <1>2, <1>3, <1>4, <1>5, <1>6, <1>7, <1>8, StepCases

\* What no account's entry can suffer from, as long as nobody else sets a
\* leverage and no two lookups disagreed on the posMode.
EntryInv ==
  /\ Typed /\ Unsuspended
  /\ Isolated /\ ~shared /\ ~flapped => Vetted

LEMMA EntryInvariant == Spec => []EntryInv
<1>1. Init => EntryInv
  BY InitTypeOK, PcFacts DEF Init, EntryInv, Unsuspended, Vetted, LegsVetted, OnItsWay, Idle
<1>2. EntryInv /\ [Next]_vars => EntryInv'
  <2> SUFFICES ASSUME EntryInv, [Next]_vars PROVE EntryInv'
    OBVIOUS
  <2>1. Typed /\ Typed' /\ Unsuspended' /\ Grows
    BY TypeStep, UnsuspendedStep, HistoryGrows DEF EntryInv
  <2> QED BY <2>1, VettedStep DEF EntryInv, Grows
<1> QED BY <1>1, <1>2, PTL DEF Spec

\* The two orders of an entry leave together: from the first of them on the
\* coroutine holds the loop, both are served from the cache, and neither is
\* skipped, in every account and however many coroutines are under way, unless
\* another strategy changes a leverage or two lookups disagree on the posMode.
EntryIsWhole ==
  ~shared /\ ~flapped =>
    \A t \in Tasks : task[t].pc \in {"enterLeft", "enterRight"} =>
      loop = t /\ Hit(t) /\ (task[t].pc = "enterRight" => task[t].ok)

THEOREM EntriesAreWhole == Spec => []EntryIsWhole
<1>1. ASSUME EntryInv PROVE EntryIsWhole
  <2> SUFFICES ASSUME ~shared, ~flapped, NEW t \in Tasks,
                      task[t].pc \in {"enterLeft", "enterRight"}
               PROVE  loop = t /\ Hit(t) /\ (task[t].pc = "enterRight" => task[t].ok)
    BY DEF EntryIsWhole
  <2>1. CASE Isolated
    <3>1. Typed /\ LegsVetted(t)
      BY <1>1, <2>1 DEF EntryInv, Vetted
    <3> QED BY <3>1, EntryHits DEF LegsVetted
  <2>2. CASE ~Isolated
    BY <1>1, <2>2, PcFacts DEF EntryInv, Unsuspended, OnItsWay, Hit
  <2> QED BY <2>1, <2>2
<1> QED BY <1>1, EntryInvariant, PTL

-----------------------------------------------------------------------------
(* Orders and what their fills do *)

LEMMA TwoLegs ==
  /\ "left" \in Legs /\ "right" \in Legs /\ "left" # "right"
  /\ \A l \in Legs : l = "left" \/ l = "right"
  /\ Directions = {"long_spread", "short_spread"}
  /\ \A l \in Legs : {EntrySide("long_spread", l), EntrySide("short_spread", l)} = {"buy", "sell"}
BY DEF Legs, Directions, EntrySide

\* Every order is of one direction: it opens or it closes its leg of a pair.
LEMMA OrderIs ==
  ASSUME NEW o \in OrderKinds
  PROVE  \E d \in Directions :
           o = IF o.reduce THEN Exit(d, o.leg, o.by) ELSE Entry(d, o.leg, o.by)
<1>1. o = [leg |-> o.leg, side |-> o.side, reduce |-> o.reduce, by |-> o.by]
  BY DEF OrderKinds
<1>2. /\ {EntrySide("long_spread", o.leg), EntrySide("short_spread", o.leg)} = {"buy", "sell"}
      /\ o.side \in {"buy", "sell"} /\ o.reduce \in BOOLEAN
  BY TwoLegs DEF OrderKinds
<1>3. CASE o.reduce
  <2>1. PICK d \in Directions : o.side = Opposite(EntrySide(d, o.leg))
    BY <1>2 DEF Directions, Opposite
  <2> QED BY <1>1, <1>2, <1>3, <2>1 DEF Exit
<1>4. CASE ~o.reduce
  <2>1. PICK d \in Directions : o.side = EntrySide(d, o.leg)
    BY <1>2 DEF Directions
  <2> QED BY <1>1, <1>2, <1>4, <2>1 DEF Entry
<1> QED BY <1>3, <1>4

LEMMA OrdersDiffer ==
  ASSUME NEW d \in Directions, NEW l \in Legs, NEW t \in Tasks,
         NEW e \in Directions, NEW m \in Legs, NEW u \in Tasks
  PROVE  /\ Entry(d, l, t) # Exit(e, m, u)
         /\ Entry(d, l, t) = Entry(e, m, u) => d = e /\ l = m /\ t = u
         /\ Exit(d, l, t) = Exit(e, m, u) => d = e /\ l = m /\ t = u
<1>1. Entry(d, l, t).reduce = FALSE /\ Exit(e, m, u).reduce = TRUE
  BY DEF Entry, Exit
<1>2. ASSUME Entry(d, l, t) = Entry(e, m, u)
      PROVE  l = m /\ t = u /\ EntrySide(d, l) = EntrySide(e, m)
  BY <1>2 DEF Entry
<1>3. ASSUME Exit(d, l, t) = Exit(e, m, u)
      PROVE  l = m /\ t = u /\ Opposite(EntrySide(d, l)) = Opposite(EntrySide(e, m))
  BY <1>3 DEF Exit
<1>4. EntrySide(d, l) = EntrySide(e, l) => d = e
  BY DEF EntrySide, Directions, Legs
<1>5. Opposite(EntrySide(d, l)) = Opposite(EntrySide(e, l)) => EntrySide(d, l) = EntrySide(e, l)
  BY Sides DEF Opposite
<1> QED BY <1>1, <1>2, <1>3, <1>4, <1>5

\* Contracts of direction d that leg l holds.
Units(d, l) == IF EntrySide(d, l) = "buy" THEN held[l].long ELSE held[l].short

LEMMA UnitsTyped ==
  ASSUME Typed, NEW d \in Directions, NEW l \in Legs
  PROVE  Units(d, l) \in Nat
BY DEF Units, Typed

LEMMA NetOf ==
  ASSUME Typed
  PROVE  /\ Net("left") = Units("long_spread", "left") - Units("short_spread", "left")
         /\ Net("right") = Units("short_spread", "right") - Units("long_spread", "right")
BY DEF Net, Units, EntrySide

\* A closing order can be executed as long as its leg holds a contract.
LEMMA ClosableUnits ==
  ASSUME Typed, NEW d \in Directions, NEW l \in Legs, NEW t \in Tasks,
         NEW o, o = Exit(d, l, t)
  PROVE  Closable(o) <=> Units(d, l) > 0
<1>1. EntrySide(d, l) \in {"buy", "sell"}
  BY Sides
<1>2. o.leg = l /\ o.side = Opposite(EntrySide(d, l))
  BY DEF Exit
<1> QED BY <1>1, <1>2 DEF Closable, Units, Opposite

-----------------------------------------------------------------------------
(* Without margin isolation: the round of one pair *)

Other(d) == IF d = "long_spread" THEN "short_spread" ELSE "long_spread"
Of(l) == {o \in orders : o.leg = l}

\* What a leg holds and has in flight before the pair is entered, once its
\* opening order has left, and once its closing order has left as well.
Flat(l) == Of(l) = {} /\ held[l].long = 0 /\ held[l].short = 0

Bought(d, l, t) ==
  /\ Units(Other(d), l) = 0
  /\ \/ Of(l) = {} /\ Units(d, l) = 1
     \/ Of(l) = {Entry(d, l, t)} /\ Units(d, l) = 0

Sold(d, l, t, u) ==
  /\ Units(Other(d), l) = 0
  /\ \/ Of(l) = {} /\ Units(d, l) = 0
     \/ Of(l) = {Exit(d, l, u)} /\ Units(d, l) = 1
     \/ Of(l) = {Entry(d, l, t), Exit(d, l, u)} /\ Units(d, l) = 0

Resting ==
  /\ ~cooling /\ position = "none"
  /\ \A v \in Tasks : OnItsWay(v) => task[v].pc = "enterLeft"
  /\ Flat("left") /\ Flat("right")

Opening(d, t) ==
  /\ ~cooling /\ position = "none"
  /\ task[t].pc = "enterRight" /\ task[t].dir = d
  /\ Bought(d, "left", t) /\ Flat("right")

Holding(d, t) ==
  /\ ~cooling /\ position = d
  /\ \A v \in Tasks : OnItsWay(v) => task[v].pc = "exitLeft" /\ task[v].dir = d
  /\ Bought(d, "left", t) /\ Bought(d, "right", t)

Closing(d, t, u) ==
  /\ ~cooling /\ position = d
  /\ task[u].pc = "exitRight" /\ task[u].dir = d
  /\ Sold(d, "left", t, u) /\ Bought(d, "right", t)

Settling(d, t, u) ==
  /\ cooling /\ position = "none" /\ before = orders
  /\ \A v \in Tasks : ~OnItsWay(v)
  /\ Sold(d, "left", t, u) /\ Sold(d, "right", t, u)

Round ==
  \/ Resting
  \/ \E d \in Directions, t \in Tasks : Opening(d, t) \/ Holding(d, t)
  \/ \E d \in Directions, t \in Tasks, u \in Tasks : Closing(d, t, u) \/ Settling(d, t, u)

LEMMA OfOthers ==
  ASSUME NEW o, NEW l \in Legs, o.leg # l, orders' \in {orders \union {o}, orders \ {o}}
  PROVE  Of(l)' = Of(l)
BY DEF Of

LEMMA Others ==
  ASSUME NEW d \in Directions, NEW l \in Legs
  PROVE  /\ Other(d) \in Directions /\ Other(d) # d
         /\ EntrySide(d, l) = "buy" => Units(d, l) = held[l].long /\ Units(Other(d), l) = held[l].short
         /\ EntrySide(d, l) # "buy" => Units(d, l) = held[l].short /\ Units(Other(d), l) = held[l].long
BY DEF Other, Directions, Units, EntrySide, Legs

\* A fill moves the one leg it is for, by the one contract of its direction.
LEMMA LegFills ==
  ASSUME Typed, NEW o \in orders, Fill(o), NEW d \in Directions, NEW l \in Legs,
         NEW t \in Tasks, Units(Other(d), l) = 0
  PROVE  /\ o.leg # l => UNCHANGED <<Of(l), Units(d, l), Units(Other(d), l), held[l]>>
         /\ o = Entry(d, l, t) => Units(d, l)' = Units(d, l) + 1 /\ Units(Other(d), l)' = 0
         /\ o = Exit(d, l, t) => /\ Units(d, l)' = Units(d, l) - 1 /\ Units(Other(d), l)' = 0
                                 /\ Units(d, l) > 0
<1>0. /\ held \in [Legs -> [long : Nat, short : Nat]] /\ o.leg \in Legs
      /\ held[l] \in [long : Nat, short : Nat] /\ EntrySide(d, l) \in {"buy", "sell"}
  BY Sides DEF Typed, OrderKinds
<1>1. /\ held' = [held EXCEPT ![o.leg] = IF o.reduce THEN Closed(held[o.leg], o.side)
                                         ELSE Opened(held[o.leg], o.side)]
      /\ orders' = orders \ {o}
      /\ (o.reduce => Closable(o))
  BY DEF Fill
<1>2. ASSUME o.leg # l
      PROVE  UNCHANGED <<Of(l), Units(d, l), Units(Other(d), l), held[l]>>
  <2>1. held'[l] = held[l]
    BY <1>0, <1>1, <1>2
  <2> QED BY <1>1, <1>2, <2>1, OfOthers DEF Units
<1>3. ASSUME o = Entry(d, l, t)
      PROVE  Units(d, l)' = Units(d, l) + 1 /\ Units(Other(d), l)' = 0
  <2>1. held'[l] = Opened(held[l], EntrySide(d, l))
    BY <1>0, <1>1, <1>3 DEF Entry
  <2>2. CASE EntrySide(d, l) = "buy"
    <3>1. held[l].short = 0
      BY <2>2, Others
    <3>2. held'[l] = [held[l] EXCEPT !.long = @ + 1]
      BY <1>0, <2>1, <2>2, <3>1 DEF Opened
    <3>3. held'[l].long = held[l].long + 1 /\ held'[l].short = 0
      BY <1>0, <3>1, <3>2
    <3> QED BY <2>2, <3>3 DEF Units, Other, EntrySide, Directions, Legs
  <2>3. CASE EntrySide(d, l) = "sell"
    <3>1. held[l].long = 0
      BY <2>3, Others
    <3>2. held'[l] = [held[l] EXCEPT !.short = @ + 1]
      BY <1>0, <2>1, <2>3, <3>1 DEF Opened
    <3>3. held'[l].short = held[l].short + 1 /\ held'[l].long = 0
      BY <1>0, <3>1, <3>2
    <3> QED BY <2>3, <3>3 DEF Units, Other, EntrySide, Directions, Legs
  <2> QED BY <1>0, <2>2, <2>3
<1>4. ASSUME o = Exit(d, l, t)
      PROVE  /\ Units(d, l)' = Units(d, l) - 1 /\ Units(Other(d), l)' = 0
             /\ Units(d, l) > 0
  <2>1. o.reduce /\ held'[l] = Closed(held[l], Opposite(EntrySide(d, l)))
    BY <1>0, <1>1, <1>4 DEF Exit
  <2>2. Units(d, l) > 0
    BY <1>1, <1>4, <2>1, ClosableUnits
  <2>3. CASE EntrySide(d, l) = "buy"
    <3>1. held'[l] = [held[l] EXCEPT !.long = @ - 1] /\ held[l].short = 0
      BY <2>1, <2>3, Others DEF Closed, Opposite
    <3>2. held'[l].long = held[l].long - 1 /\ held'[l].short = 0
      BY <1>0, <3>1
    <3> QED BY <2>2, <2>3, <3>2 DEF Units, Other, EntrySide, Directions, Legs
  <2>4. CASE EntrySide(d, l) = "sell"
    <3>1. held'[l] = [held[l] EXCEPT !.short = @ - 1] /\ held[l].long = 0
      BY <2>1, <2>4, Others DEF Closed, Opposite
    <3>2. held'[l].short = held[l].short - 1 /\ held'[l].long = 0
      BY <1>0, <3>1
    <3> QED BY <2>2, <2>4, <3>2 DEF Units, Other, EntrySide, Directions, Legs
  <2> QED BY <1>0, <2>2, <2>3, <2>4
<1> QED BY <1>2, <1>3, <1>4

LEMMA BoughtFills ==
  ASSUME Typed, NEW o \in orders, Fill(o), NEW d \in Directions, NEW l \in Legs,
         NEW t \in Tasks, Bought(d, l, t)
  PROVE  Bought(d, l, t)'
<1>0. orders' = orders \ {o} /\ o.leg \in Legs
  BY DEF Fill, Typed, OrderKinds
<1>1. CASE o.leg # l
  BY <1>1, LegFills DEF Bought
<1>2. CASE o.leg = l
  <2>1. Of(l) = {Entry(d, l, t)} /\ Units(d, l) = 0 /\ o = Entry(d, l, t)
    BY <1>2 DEF Bought, Of
  <2>2. Of(l)' = {}
    BY <1>0, <2>1 DEF Of
  <2> QED BY <2>1, <2>2, LegFills DEF Bought
<1> QED BY <1>1, <1>2

LEMMA SoldFills ==
  ASSUME Typed, NEW o \in orders, Fill(o), NEW d \in Directions, NEW l \in Legs,
         NEW t \in Tasks, NEW u \in Tasks, Sold(d, l, t, u)
  PROVE  Sold(d, l, t, u)'
<1>0. orders' = orders \ {o} /\ o.leg \in Legs /\ Entry(d, l, t) # Exit(d, l, u)
      /\ Entry(d, l, t).leg = l /\ Exit(d, l, u).leg = l
  BY OrdersDiffer DEF Fill, Typed, OrderKinds, Entry, Exit
<1>1. CASE o.leg # l
  BY <1>1, LegFills DEF Sold
<1>2. CASE o.leg = l
  <2>0. Of(l)' = Of(l) \ {o} /\ o \in Of(l)
    BY <1>0, <1>2 DEF Of
  <2>1. CASE Of(l) = {Exit(d, l, u)} /\ Units(d, l) = 1
    <3>1. o = Exit(d, l, u) /\ Of(l)' = {}
      BY <2>0, <2>1
    <3> QED BY <2>1, <3>1, LegFills DEF Sold
  <2>2. CASE Of(l) = {Entry(d, l, t), Exit(d, l, u)} /\ Units(d, l) = 0
    <3>1. o = Entry(d, l, t)
      <4>1. o = Exit(d, l, u) => Units(d, l) > 0
        BY LegFills DEF Sold
      <4> QED BY <2>0, <2>2, <4>1
    <3>2. Of(l)' = {Exit(d, l, u)}
      BY <1>0, <2>0, <2>2, <3>1
    <3> QED BY <2>2, <3>1, <3>2, LegFills DEF Sold
  <2> QED BY <2>0, <2>1, <2>2 DEF Sold
<1> QED BY <1>1, <1>2

\* An exit that finds nothing to close overtook the entry.
LEMMA SoldRejects ==
  ASSUME Typed, NEW o \in orders, RejectReduce(o), NEW d \in Directions,
         NEW t \in Tasks, NEW u \in Tasks, Sold(d, o.leg, t, u)
  PROVE  rejected'
<1>0. o \in Of(o.leg) /\ o.leg \in Legs /\ o.reduce /\ ~Closable(o)
  BY DEF Of, Typed, OrderKinds, RejectReduce
<1>1. o # Entry(d, o.leg, t)
  BY <1>0 DEF Entry
<1>2. o = Exit(d, o.leg, u) /\ ~(Units(d, o.leg) = 1)
  BY <1>0, <1>1, ClosableUnits DEF Sold
<1>3. Entry(d, o.leg, t) \in orders
  BY <1>0, <1>2 DEF Sold, Of
<1>4. Entry(d, o.leg, t).leg = o.leg /\ ~Entry(d, o.leg, t).reduce
  BY DEF Entry
<1> QED BY <1>3, <1>4 DEF RejectReduce

LEMMA LegsStay ==
  ASSUME UNCHANGED <<orders, held>>, NEW l \in Legs, NEW d \in Directions
  PROVE  /\ Of(l)' = Of(l) /\ (Flat(l)' <=> Flat(l))
         /\ \A t \in Tasks : Bought(d, l, t)' <=> Bought(d, l, t)
         /\ \A t, u \in Tasks : Sold(d, l, t, u)' <=> Sold(d, l, t, u)
BY DEF Of, Flat, Bought, Sold, Units

\* Nobody on its way moved.
LEMMA RoundStays ==
  ASSUME Round, UNCHANGED <<clock, position, orders, held>>,
         \A v \in Tasks : OnItsWay(v) \/ OnItsWay(v)' =>
           task'[v].pc = task[v].pc /\ task'[v].dir = task[v].dir
  PROVE  Round'
<1>0. \A v \in Tasks : OnItsWay(v)' => OnItsWay(v)
  BY DEF OnItsWay
<1>1. CASE Resting
  <2>1. Flat("left")' /\ Flat("right")'
    BY <1>1, LegsStay, TwoLegs DEF Resting
  <2> QED BY <1>0, <1>1, <2>1 DEF Resting, Round, clock
<1>2. ASSUME NEW d \in Directions, NEW t \in Tasks, Opening(d, t) \/ Holding(d, t)
      PROVE  Round'
  <2>1. CASE Opening(d, t)
    <3>1. Bought(d, "left", t)' /\ Flat("right")'
      BY <2>1, LegsStay, TwoLegs DEF Opening
    <3>2. OnItsWay(t)
      BY <2>1 DEF Opening, OnItsWay, Lookups
    <3>3. Opening(d, t)'
      BY <2>1, <3>1, <3>2 DEF Opening, clock
    <3> QED BY <3>3 DEF Round
  <2>2. CASE Holding(d, t)
    <3>1. Bought(d, "left", t)' /\ Bought(d, "right", t)'
      BY <2>2, LegsStay, TwoLegs DEF Holding
    <3>2. Holding(d, t)'
      BY <1>0, <2>2, <3>1 DEF Holding, clock
    <3> QED BY <3>2 DEF Round
  <2> QED BY <1>2, <2>1, <2>2
<1>3. ASSUME NEW d \in Directions, NEW t \in Tasks, NEW u \in Tasks,
             Closing(d, t, u) \/ Settling(d, t, u)
      PROVE  Round'
  <2>1. CASE Closing(d, t, u)
    <3>1. Sold(d, "left", t, u)' /\ Bought(d, "right", t)'
      BY <2>1, LegsStay, TwoLegs DEF Closing
    <3>2. OnItsWay(u)
      BY <2>1 DEF Closing, OnItsWay, Lookups
    <3>3. Closing(d, t, u)'
      BY <2>1, <3>1, <3>2 DEF Closing, clock
    <3> QED BY <3>3 DEF Round
  <2>2. CASE Settling(d, t, u)
    <3>1. Sold(d, "left", t, u)' /\ Sold(d, "right", t, u)'
      BY <2>2, LegsStay, TwoLegs DEF Settling
    <3>2. Settling(d, t, u)'
      BY <1>0, <2>2, <3>1 DEF Settling, clock
    <3> QED BY <3>2 DEF Round
  <2> QED BY <1>3, <2>1, <2>2
<1> QED BY <1>1, <1>2, <1>3 DEF Round

\* An order leaves for a leg.
LEMMA LegsOpen ==
  ASSUME NEW d \in Directions, NEW l \in Legs, NEW t \in Tasks, held' = held,
         orders' = orders \union {Entry(d, l, t)}, Flat(l)
  PROVE  Bought(d, l, t)'
<1>1. Entry(d, l, t).leg = l
  BY DEF Entry
<1>2. Of(l)' = {Entry(d, l, t)}
  BY <1>1 DEF Flat, Of
<1>3. Units(d, l)' = 0 /\ Units(Other(d), l)' = 0
  BY DEF Flat, Units
<1> QED BY <1>2, <1>3 DEF Bought

LEMMA LegsClose ==
  ASSUME NEW d \in Directions, NEW l \in Legs, NEW t \in Tasks, NEW u \in Tasks, held' = held,
         orders' = orders \union {Exit(d, l, u)}, Bought(d, l, t)
  PROVE  Sold(d, l, t, u)'
<1>1. Exit(d, l, u).leg = l
  BY DEF Exit
<1>2. Of(l)' = Of(l) \union {Exit(d, l, u)}
  BY <1>1 DEF Of
<1>3. Units(d, l)' = Units(d, l) /\ Units(Other(d), l)' = Units(Other(d), l)
  BY DEF Units
<1>4. CASE Of(l) = {} /\ Units(d, l) = 1
  BY <1>2, <1>3, <1>4 DEF Bought, Sold
<1>5. CASE Of(l) = {Entry(d, l, t)} /\ Units(d, l) = 0
  <2>1. Of(l)' = {Entry(d, l, t), Exit(d, l, u)}
    BY <1>2, <1>5
  <2> QED BY <1>3, <1>5, <2>1 DEF Bought, Sold
<1> QED BY <1>4, <1>5 DEF Bought

LEMMA LegElsewhere ==
  ASSUME NEW o, NEW l \in Legs, o.leg # l, orders' = orders \union {o}, held' = held,
         NEW d \in Directions
  PROVE  /\ Flat(l)' <=> Flat(l)
         /\ \A t \in Tasks : Bought(d, l, t)' <=> Bought(d, l, t)
         /\ \A t, u \in Tasks : Sold(d, l, t, u)' <=> Sold(d, l, t, u)
BY OfOthers DEF Flat, Bought, Sold, Units


\* The pair as a whole, until OKX rejects an order it could have filled.
CrossInv == Typed /\ Unsuspended /\ (~rejected => Round)

LEMMA RoundStep ==
  ASSUME ~Isolated, Typed, Unsuspended, Round, [Next]_vars, ~rejected'
  PROVE  Round'
<1>0. /\ \A t \in Tasks : t # Nobody /\ Hit(t) /\ task[t].dir \in Directions
      /\ \A t \in Tasks : OnItsWay(t) => loop = t
  BY Awake DEF Hit, Unsuspended, Records
<1>1. CASE CooldownEnds
  <2>1. /\ cooling /\ before = {} /\ cooling' = FALSE
        /\ UNCHANGED <<position, task, orders, held>>
    BY <1>1 DEF CooldownEnds
  <2>2. PICK d \in Directions, t \in Tasks, u \in Tasks : Settling(d, t, u)
    BY <2>1 DEF Round, Resting, Opening, Holding, Closing
  <2>3. ASSUME NEW l \in Legs, Sold(d, l, t, u)
        PROVE  Flat(l)'
    <3>1. Of(l) = {} /\ Units(d, l) = 0 /\ Units(Other(d), l) = 0
      BY <2>1, <2>2, <2>3 DEF Settling, Sold, Of
    <3>2. held[l].long = 0 /\ held[l].short = 0
      BY <3>1, Others
    <3> QED BY <2>1, <3>1, <3>2 DEF Flat, Of
  <2>4. Resting'
    BY <2>1, <2>2, <2>3, TwoLegs DEF Settling, Resting, OnItsWay
  <2> QED BY <2>4 DEF Round
<1>2. CASE OtherStrategy \/ UNCHANGED vars
  BY <1>2, RoundStays DEF OtherStrategy, vars, clock
<1>3. ASSUME NEW t \in Tasks, Arrives(t) PROVE Round'
  BY <1>3, RoundStays, PcFacts DEF Arrives, Becomes, OnItsWay
<1>4. ASSUME NEW t \in Tasks, BeginsExit(t) PROVE Round'
  <2>1. /\ position \in Directions /\ loop = Nobody
        /\ task'[t].pc = "exitLeft" /\ task'[t].dir = position
        /\ \A u \in Tasks \ {t} : task'[u] = task[u]
        /\ UNCHANGED <<clock, position, orders, held>>
    BY <1>4 DEF BeginsExit, Begins, Becomes
  <2>2. \A v \in Tasks : ~OnItsWay(v)
    BY <1>0, <2>1
  <2>3. PICK d \in Directions, u \in Tasks : Holding(d, u)
    BY <2>1, <2>2, PcFacts DEF Round, Resting, Opening, Closing, Settling, Directions, OnItsWay
  <2>4. Bought(d, "left", u)' /\ Bought(d, "right", u)'
    BY <2>1, <2>3, LegsStay, TwoLegs DEF Holding
  <2>5. Holding(d, u)'
    BY <2>1, <2>2, <2>3, <2>4 DEF Holding, OnItsWay, clock
  <2> QED BY <2>5 DEF Round
<1>5. ASSUME NEW t \in Tasks, NEW d \in Directions, BeginsEntry(t, d) PROVE Round'
  <2>1. /\ position = "none" /\ loop = Nobody /\ ~cooling
        /\ task'[t].pc = "enterLeft"
        /\ \A u \in Tasks \ {t} : task'[u] = task[u]
        /\ UNCHANGED <<clock, position, orders, held>>
    BY <1>5 DEF BeginsEntry, Begins, Becomes
  <2>2. \A v \in Tasks : ~OnItsWay(v)
    BY <1>0, <2>1
  <2>3. Resting
    BY <2>1, <2>2, PcFacts DEF Round, Opening, Holding, Closing, Settling, Directions, OnItsWay
  <2>4. Flat("left")' /\ Flat("right")'
    BY <2>1, <2>3, LegsStay, TwoLegs DEF Resting
  <2>5. Resting'
    BY <2>1, <2>2, <2>3, <2>4 DEF Resting, OnItsWay, clock
  <2> QED BY <2>5 DEF Round
<1>6. ASSUME NEW t \in Tasks, Drops(t) PROVE Round'
  BY <1>6, RoundStays, PcFacts DEF Drops, Ends, Becomes, OnItsWay
<1>7. ASSUME NEW t \in Tasks, Awaits(t) PROVE Round'
  BY <1>0, <1>7 DEF Awaits
<1>8. ASSUME NEW t \in Tasks, AwaitsMode(t) PROVE Round'
  BY <1>8 DEF AwaitsMode, Unsuspended
<1>9. ASSUME NEW t \in Tasks, NEW m, Learns(t, m) PROVE Round'
  BY <1>9 DEF Learns, Unsuspended
<1>10. ASSUME NEW t \in Tasks, NEW ok \in BOOLEAN, Returns(t, ok), Advances(t, ok)
       PROVE  Round'
  <2>0. /\ loop = t /\ ok = TRUE /\ held' = held
        /\ \A v \in Tasks \ {t} : ~OnItsWay(v)
        /\ task[t].pc = "enterRight" => task[t].ok
    BY <1>0, <1>10, PcFacts DEF Returns, Advances, Validates, Approves, Aborts, OpensLeft,
       OpensRight, ClosesLeft, ClosesRight, Unsuspended, OnItsWay
  <2>1. CASE Validates(t, ok) \/ Approves(t, ok) \/ Aborts(t, ok)
    BY <1>0, <2>0, <2>1, PcFacts DEF Validates, Approves, Aborts, Round, Resting, Opening, Holding, Closing,
       Settling, OnItsWay
  <2>2. CASE OpensLeft(t, ok)
    <3>0. PICK d \in Directions : d = task[t].dir
      BY <1>0
    <3>1. /\ task[t].pc = "enterLeft" /\ task'[t].pc = "enterRight" /\ task'[t].dir = d
          /\ orders' = orders \union {Entry(d, "left", t)}
          /\ UNCHANGED <<position, cooling>>
      BY <2>0, <3>0, <2>2 DEF OpensLeft, Turns, Becomes, clock
    <3>2. Resting
      BY <1>0, <2>0, <3>0, <3>1, PcFacts DEF Round, Opening, Holding, Closing, Settling, OnItsWay
    <3>3. Bought(d, "left", t)'
      BY <1>0, <2>0, <3>1, <3>2, LegsOpen, TwoLegs DEF Resting
    <3>4. Entry(d, "left", t).leg # "right"
      BY DEF Entry
    <3>5. Flat("right")'
      BY <1>0, <2>0, <3>1, <3>2, <3>4, LegElsewhere, TwoLegs DEF Resting
    <3>6. Opening(d, t)'
      BY <3>1, <3>2, <3>3, <3>5 DEF Opening, Resting
    <3> QED BY <1>0, <3>6 DEF Round
  <2>3. CASE OpensRight(t, ok)
    <3>0. PICK d \in Directions : d = task[t].dir
      BY <1>0
    <3>1. /\ task[t].pc = "enterRight" /\ task'[t].pc = "idle"
          /\ \A u \in Tasks \ {t} : task'[u] = task[u]
          /\ orders' = orders \union {Entry(d, "right", t)}
          /\ position' = d /\ UNCHANGED cooling
      BY <2>0, <3>0, <2>3 DEF OpensRight, Ends, Becomes, clock
    <3>2. Opening(d, t)
      BY <1>0, <2>0, <3>0, <3>1, PcFacts DEF Round, Resting, Opening, Holding, Closing, Settling, OnItsWay
    <3>3. Bought(d, "right", t)'
      BY <1>0, <2>0, <3>1, <3>2, LegsOpen, TwoLegs DEF Opening
    <3>4. Entry(d, "right", t).leg # "left"
      BY DEF Entry
    <3>5. Bought(d, "left", t)'
      BY <1>0, <2>0, <3>1, <3>2, <3>4, LegElsewhere, TwoLegs DEF Opening
    <3>6. \A v \in Tasks : ~OnItsWay(v)'
      BY <2>0, <3>1, PcFacts DEF OnItsWay
    <3>7. Holding(d, t)'
      BY <3>1, <3>2, <3>3, <3>5, <3>6 DEF Holding, Opening
    <3> QED BY <1>0, <3>7 DEF Round
  <2>4. CASE ClosesLeft(t, ok)
    <3>0. PICK d \in Directions : d = task[t].dir
      BY <1>0
    <3>1. /\ task[t].pc = "exitLeft" /\ task'[t].pc = "exitRight" /\ task'[t].dir = d
          /\ orders' = orders \union {Exit(d, "left", t)}
          /\ UNCHANGED <<position, cooling>>
      BY <2>0, <3>0, <2>4 DEF ClosesLeft, Turns, Becomes, clock
    <3>2. PICK u \in Tasks : Holding(d, u)
      BY <1>0, <2>0, <3>0, <3>1, PcFacts DEF Round, Resting, Opening, Holding, Closing, Settling, OnItsWay
    <3>3. Sold(d, "left", u, t)'
      BY <1>0, <2>0, <3>1, <3>2, LegsClose, TwoLegs DEF Holding
    <3>4. Exit(d, "left", t).leg # "right"
      BY DEF Exit
    <3>5. Bought(d, "right", u)'
      BY <1>0, <2>0, <3>1, <3>2, <3>4, LegElsewhere, TwoLegs DEF Holding
    <3>6. Closing(d, u, t)'
      BY <3>1, <3>2, <3>3, <3>5 DEF Closing, Holding
    <3> QED BY <1>0, <3>6 DEF Round
  <2>5. CASE ClosesRight(t, ok)
    <3>0. PICK d \in Directions : d = task[t].dir
      BY <1>0
    <3>1. /\ task[t].pc = "exitRight" /\ task'[t].pc = "idle"
          /\ \A u \in Tasks \ {t} : task'[u].pc = task[u].pc
          /\ orders' = orders \union {Exit(d, "right", t)}
          /\ position' = "none" /\ cooling' = TRUE /\ before' = orders'
      BY <2>0, <3>0, <2>5 DEF ClosesRight
    <3>2. PICK u \in Tasks : Closing(d, u, t)
      BY <1>0, <2>0, <3>0, <3>1, PcFacts DEF Round, Resting, Opening, Holding, Closing, Settling, OnItsWay
    <3>3. Sold(d, "right", u, t)'
      BY <1>0, <2>0, <3>1, <3>2, LegsClose, TwoLegs DEF Closing
    <3>4. Exit(d, "right", t).leg # "left"
      BY DEF Exit
    <3>5. Sold(d, "left", u, t)'
      BY <1>0, <2>0, <3>1, <3>2, <3>4, LegElsewhere, TwoLegs DEF Closing
    <3>6. \A v \in Tasks : ~OnItsWay(v)'
      BY <2>0, <3>1, PcFacts DEF OnItsWay
    <3>7. Settling(d, u, t)'
      BY <3>1, <3>3, <3>5, <3>6 DEF Settling
    <3> QED BY <1>0, <3>7 DEF Round
  <2> QED BY <1>10, <2>1, <2>2, <2>3, <2>4, <2>5 DEF Advances
<1>11. ASSUME NEW o \in orders, loop = Nobody
       PROVE  /\ Resting \/ (\E d \in Directions, t \in Tasks : Holding(d, t))
                 \/ (\E d \in Directions, t, u \in Tasks : Settling(d, t, u))
              /\ \A v \in Tasks : ~OnItsWay(v)
  BY <1>0, <1>11, PcFacts DEF Round, Opening, Closing, OnItsWay
<1>12. ASSUME NEW o \in orders, Fill(o) PROVE Round'
  <2>1. /\ loop = Nobody /\ orders' = orders \ {o} /\ before' = before \ {o}
        /\ UNCHANGED <<cooling, position, task>>
    BY <1>12 DEF Fill
  <2>2. \A v \in Tasks : ~OnItsWay(v) /\ ~OnItsWay(v)'
    BY <1>11, <2>1 DEF OnItsWay
  <2>3. CASE Resting
    <3>1. o.leg \in Legs /\ o \in Of(o.leg)
      BY DEF Typed, OrderKinds, Of
    <3> QED BY <2>3, <3>1, TwoLegs DEF Resting, Flat
  <2>4. ASSUME NEW d \in Directions, NEW t \in Tasks, Holding(d, t) PROVE Round'
    <3>1. Bought(d, "left", t)' /\ Bought(d, "right", t)'
      BY <1>12, <2>4, BoughtFills, TwoLegs DEF Holding
    <3>2. Holding(d, t)'
      BY <2>1, <2>2, <2>4, <3>1 DEF Holding
    <3> QED BY <3>2 DEF Round
  <2>5. ASSUME NEW d \in Directions, NEW t \in Tasks, NEW u \in Tasks, Settling(d, t, u)
        PROVE  Round'
    <3>1. Sold(d, "left", t, u)' /\ Sold(d, "right", t, u)'
      BY <1>12, <2>5, SoldFills, TwoLegs DEF Settling
    <3>2. Settling(d, t, u)'
      BY <2>1, <2>2, <2>5, <3>1 DEF Settling
    <3> QED BY <3>2 DEF Round
  <2> QED BY <1>11, <2>1, <2>3, <2>4, <2>5
<1>13. ASSUME NEW o \in orders, RejectReduce(o) PROVE FALSE
  <2>1. loop = Nobody /\ o.reduce /\ o.leg \in Legs /\ o \in Of(o.leg)
    BY <1>13 DEF RejectReduce, Typed, OrderKinds, Of
  <2>2. CASE Resting
    BY <2>1, <2>2, TwoLegs DEF Resting, Flat
  <2>3. ASSUME NEW d \in Directions, NEW t \in Tasks, Holding(d, t) PROVE FALSE
    <3>1. Bought(d, o.leg, t)
      BY <2>1, <2>3, TwoLegs DEF Holding
    <3>2. o = Entry(d, o.leg, t)
      BY <2>1, <3>1 DEF Bought
    <3> QED BY <2>1, <3>2 DEF Entry
  <2>4. ASSUME NEW d \in Directions, NEW t \in Tasks, NEW u \in Tasks, Settling(d, t, u)
        PROVE  FALSE
    <3>1. Sold(d, o.leg, t, u)
      BY <2>1, <2>4, TwoLegs DEF Settling
    <3> QED BY <1>13, <3>1, SoldRejects
  <2> QED BY <1>11, <2>1, <2>2, <2>3, <2>4
<1>14. ASSUME NEW o \in orders, Settles(o) PROVE Round'
  BY <1>12, <1>13, <1>14 DEF Settles, Reject
<1> QED
  BY <1>1, <1>2, <1>3, <1>4, <1>5, <1>6, <1>7, <1>8, <1>9, <1>10, <1>14, StepCases

LEMMA InitCrossInv == Init => CrossInv
<1> SUFFICES ASSUME Init PROVE CrossInv
  OBVIOUS
<1>1. \A t \in Tasks : ~OnItsWay(t) /\ task[t].pc = "idle"
  BY PcFacts DEF Init, OnItsWay, Idle
<1>2. Flat("left") /\ Flat("right")
  BY TwoLegs DEF Init, Flat, Of
<1>3. Resting
  BY <1>1, <1>2 DEF Init, Resting
<1> QED BY <1>1, <1>3, InitTypeOK DEF CrossInv, Unsuspended, Round

LEMMA CrossInvStep ==
  ASSUME ~Isolated, CrossInv, [Next]_vars
  PROVE  CrossInv'
<1>1. Typed' /\ Unsuspended'
  BY TypeStep, UnsuspendedStep DEF CrossInv
<1>2. ASSUME ~rejected' PROVE Round'
  <2>1. rejected => rejected'
    <3>1. rejected' = rejected \/ \E o \in orders : Settles(o)
      <4>1. CASE CooldownEnds \/ OtherStrategy \/ UNCHANGED vars
        BY <4>1 DEF CooldownEnds, OtherStrategy, vars
      <4>2. ASSUME NEW t \in Tasks,
                   \/ Arrives(t) \/ BeginsExit(t) \/ Drops(t) \/ Awaits(t) \/ AwaitsMode(t)
                   \/ \E d \in Directions : BeginsEntry(t, d)
                   \/ \E m \in {"net_mode", PosMode} : Learns(t, m)
                   \/ \E ok \in BOOLEAN : Returns(t, ok) /\ Advances(t, ok)
            PROVE  rejected' = rejected
        BY <4>2 DEF Arrives, BeginsExit, BeginsEntry, Begins, Drops, Awaits, AwaitsMode, Learns,
           Returns, Past
      <4> QED BY <4>1, <4>2, StepCases DEF CrossInv
    <3>2. ASSUME NEW o \in orders, Settles(o), rejected PROVE rejected'
      BY <3>2 DEF Settles, Fill, RejectReduce, Reject
    <3> QED BY <3>1, <3>2 DEF CrossInv, Typed
  <2> QED BY <1>2, <2>1, RoundStep DEF CrossInv
<1> QED BY <1>1, <1>2 DEF CrossInv

LEMMA CrossMatches ==
  ASSUME ~Isolated
  PROVE  CrossInv => PositionMatchesVenue
<1> SUFFICES ASSUME CrossInv, Quiet, ~rejected, NEW l \in Legs
             PROVE  Net(l) = Exposure(position, l)
  BY DEF PositionMatchesVenue
<1>0. Typed /\ Round /\ orders = {} /\ \A t \in Tasks : task[t].pc = "idle"
  BY DEF CrossInv, Quiet
<1>1. Resting \/ (\E d \in Directions, t \in Tasks : Holding(d, t))
      \/ (\E d \in Directions, t, u \in Tasks : Settling(d, t, u))
  BY <1>0 DEF Round, Opening, Closing
<1>2. \A k \in Legs : Of(k) = {}
  BY <1>0 DEF Of
<1>3. ASSUME position = "none", held[l].long = 0, held[l].short = 0
      PROVE  Net(l) = Exposure(position, l)
  BY <1>3 DEF Net, Exposure
<1>4. CASE Resting
  BY <1>3, <1>4, TwoLegs DEF Resting, Flat
<1>5. ASSUME NEW d \in Directions, NEW t \in Tasks, Holding(d, t)
      PROVE  Net(l) = Exposure(position, l)
  <2>1. Bought(d, l, t) /\ position = d
    BY <1>5, TwoLegs DEF Holding
  <2>2. Units(d, l) = 1 /\ Units(Other(d), l) = 0 /\ position # "none"
    BY <1>2, <2>1 DEF Bought, Directions
  <2>3. CASE EntrySide(d, l) = "buy"
    BY <2>1, <2>2, <2>3, Others DEF Net, Exposure
  <2>4. CASE EntrySide(d, l) # "buy"
    BY <2>1, <2>2, <2>4, Others DEF Net, Exposure
  <2> QED BY <2>3, <2>4
<1>6. ASSUME NEW d \in Directions, NEW t \in Tasks, NEW u \in Tasks, Settling(d, t, u)
      PROVE  Net(l) = Exposure(position, l)
  <2>1. Sold(d, l, t, u) /\ position = "none"
    BY <1>6, TwoLegs DEF Settling
  <2>2. Units(d, l) = 0 /\ Units(Other(d), l) = 0
    BY <1>2, <2>1 DEF Sold
  <2>3. held[l].long = 0 /\ held[l].short = 0
    BY <2>2, Others
  <2> QED BY <1>3, <2>1, <2>3
<1> QED BY <1>1, <1>4, <1>5, <1>6

\* What the strategy believes is what a cross-margin account holds, however
\* many coroutines are under way: once all is settled _position names the
\* direction of the one pair held, and None means flat, unless OKX rejected an
\* order that it could have filled.
THEOREM PositionIsTrue ==
  ASSUME ~Isolated
  PROVE  Spec => []PositionMatchesVenue
<1>1. Spec => []CrossInv
  BY InitCrossInv, CrossInvStep, PTL DEF Spec
<1> QED BY <1>1, CrossMatches, PTL

\* The same in the composition, whose steps are those of several accounts: a
\* step of another one does not occur in a behaviour of the cross account.
THEOREM CrossPositionIsTrue ==
  ASSUME ~Isolated
  PROVE  MCSpec => []CrossPositionMatchesVenue
<1> DEFINE Inv == setup = "cross" => CrossInv
<1>1. MCInit => Inv
  BY InitCrossInv DEF MCInit
<1>2. Inv /\ [MCNext]_<<vars, setup>> => Inv'
  <2> SUFFICES ASSUME setup = "cross", CrossInv, [MCNext]_<<vars, setup>>
               PROVE  CrossInv'
    BY DEF MCNext
  <2>1. [Next]_vars
    BY DEF MCNext
  <2> QED BY <2>1, CrossInvStep
<1>3. Inv => CrossPositionMatchesVenue
  BY CrossMatches DEF CrossPositionMatchesVenue
<1> QED BY <1>1, <1>2, <1>3, PTL DEF MCSpec
================
