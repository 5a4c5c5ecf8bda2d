--------------------------- MODULE KillSwitch_proofs ---------------------------
(***************************************************************************)
(* The kill switch for every threshold, calendar, refresh interval, set of *)
(* equities and number of failures and restarts.                           *)
(***************************************************************************)
EXTENDS KillSwitch, TLAPS

\* The longest the loop may take from one refresh to the next question.
Round == AllocInterval + MaxRegime

\* The inductive part of the timing argument.  lastAlloc moves by at most one
\* round per refresh, a refresh that feeds nothing is counted in skips, and
\* the loop never lets a round pass without asking.
Timely ==
  /\ monitor = "off" => acct = Fresh
  /\ booting => monitor \in Awaiting \union {"regime"}
  /\ booting /\ monitor \in Awaiting => acct = Fresh
  /\ acct # Fresh => lastAlloc <= acct.lastTs + skips * Round
  /\ monitor \in Awaiting => asked <= now /\ now <= asked + MaxAwait
  /\ monitor \in Awaiting /\ ~booting => asked <= lastAlloc + Round
  /\ monitor = "regime" => since < lastAlloc + AllocInterval
  /\ monitor = "regime" => now <= since + MaxRegime
  /\ monitor = "regime" /\ ~booting => asked <= since
  /\ monitor = "sleep" => now < lastAlloc + Round
  /\ monitor = "wake" => now <= lastAlloc + Round

-----------------------------------------------------------------------------
(* The tracker's operators *)

\* A snapshot turns a fresh or initialised tracker into an initialised one.
LEMMA RecordType ==
  ASSUME NEW t \in Trackers \union {Fresh},
         NEW ts \in 0..MaxTime, NEW eq \in Equities
  PROVE  Record(t, ts, eq) \in Trackers
<1>1. CASE t = Fresh
  <2>1. Record(t, ts, eq) = [t EXCEPT !.dayOpen = eq, !.weekOpen = eq,
                                      !.lastTs = ts, !.cur = eq]
    BY <1>1 DEF Record, Fresh
  <2>2. t.state \in Levels
    BY <1>1 DEF Fresh, Levels
  <2> QED BY <1>1, <2>1, <2>2 DEF Trackers, Fresh, Levels
<1>2. CASE t \in Trackers
  <2>1. t.dayOpen # 0
    BY <1>2, ConstantsAssumption DEF Trackers
  <2>2. Reopen(t.state) \in Levels /\ t.state \in Levels
    BY <1>2 DEF Trackers, Reopen, Levels
  <2>3. \A st \in Levels : \A d, w : Checked(st, d, w, eq) \in Levels
    BY DEF Checked, Levels
  <2> QED BY <1>2, <2>1, <2>2, <2>3 DEF Trackers, Record
<1> QED BY <1>1, <1>2

\* An acknowledgement keeps an initialised tracker initialised.
LEMMA AcknowledgedType ==
  ASSUME NEW t \in Trackers
  PROVE  Acknowledged(t) \in Trackers
BY DEF Trackers, Acknowledged, Levels

\* No equity is below its own open.
LEMMA NoBreachAtOpen ==
  ASSUME NEW pct \in Nat \ {0}, NEW eq \in Equities
  PROVE  ~Breached(pct, eq, eq)
<1>1. eq \in Nat /\ eq > 0 /\ pct > 0
  BY ConstantsAssumption
<1>2. pct * eq > 0
  BY <1>1
<1> QED BY <1>1, <1>2 DEF Breached

-----------------------------------------------------------------------------
(* Types *)

\* Every variable keeps its type; a tracker is fresh or fully initialised.
THEOREM TypeCorrect == Spec => []TypeOK
<1> USE ConstantsAssumption
<1> DEFINE Flags == booting \in BOOLEAN /\ late \in BOOLEAN
<1>1. Init => TypeOK
  <2>1. Init => Flags
    BY Zenon DEF Init
  <2>2. Init => approved \in [Strategies -> 0..MaxInFlight]
    BY DEF Init
  <2> QED BY <2>1, <2>2 DEF Init, TypeOK
<1>2. TypeOK /\ [Next]_vars => TypeOK'
  <2> SUFFICES ASSUME TypeOK, [Next]_vars PROVE TypeOK'
    OBVIOUS
  <2> USE DEF TypeOK, Awaiting, monitorVars, strategyVars, regimeVars
  <2>0. ProcessEnds /\ crashes' \in 0..MaxCrashes => TypeOK'
    <3> SUFFICES ASSUME ProcessEnds, crashes' \in 0..MaxCrashes PROVE TypeOK'
      OBVIOUS
    <3>1. Flags'
      BY Zenon DEF ProcessEnds
    <3>2. approved' \in [Strategies -> 0..MaxInFlight]
      BY DEF ProcessEnds
    <3> QED BY <3>1, <3>2 DEF ProcessEnds
  <2>1. CASE Tick
    BY <2>1 DEF Tick
  <2>2. CASE MarketMoves
    BY <2>2 DEF MarketMoves
  <2>3. CASE Start
    BY <2>3 DEF Start
  <2>4. CASE Poll
    BY <2>4 DEF Poll, RegimeOrSleep
  <2>5. CASE Answer
    BY <2>5 DEF Answer
  <2>6. CASE Skip
    <3>1. Flags'
      BY <2>6, Zenon DEF Skip, Refreshed
    <3>2. lastAlloc' \in 0..MaxTime /\ since' \in 0..MaxTime
      BY <2>6 DEF Skip, Refreshed, RegimeOrSleep
    <3>3. monitor' \in {"sleep", "regime"}
      BY <2>6 DEF Skip, Refreshed, RegimeOrSleep
    <3> QED BY <2>6, <3>1, <3>2, <3>3 DEF Skip, Refreshed
  <2>7. CASE Feed
    <3>1. acct' \in Trackers
      BY <2>7, RecordType DEF Feed
    <3>2. Flags'
      BY <2>7, Zenon DEF Feed, Refreshed
    <3>3. lastAlloc' \in 0..MaxTime /\ since' \in 0..MaxTime
      BY <2>7 DEF Feed, Refreshed, RegimeOrSleep
    <3>4. budget' \in Equities
      BY <2>7 DEF Feed
    <3>5. monitor' \in {"sleep", "regime"}
      BY <2>7 DEF Feed, Refreshed, RegimeOrSleep
    <3> QED BY <2>7, <3>1, <3>2, <3>3, <3>4, <3>5, ConstantsAssumption
            DEF Feed, Refreshed
  <2>8. CASE \E s \in Strategies : CheckEntry(s) \/ SubmitEntry(s) \/ AbandonEntry(s)
    <3>1. Flags'
      BY <2>8, Zenon DEF CheckEntry, SubmitEntry, AbandonEntry
    <3>2. approved' \in [Strategies -> 0..MaxInFlight]
      BY <2>8 DEF CheckEntry, SubmitEntry, AbandonEntry
    <3>3. UNCHANGED <<now, equity, acct, monitorVars, budget, crashes>>
      BY <2>8 DEF CheckEntry, SubmitEntry, AbandonEntry
    <3> QED BY <3>1, <3>2, <3>3
  <2>9. CASE Acknowledge
    <3>1. acct \in Trackers
      BY <2>9 DEF Acknowledge, Fresh
    <3> QED BY <2>9, <3>1, AcknowledgedType DEF Acknowledge
  <2>10. CASE Crash
    <3>1. ProcessEnds /\ crashes' \in 0..MaxCrashes
      BY <2>10 DEF Crash
    <3> QED BY <3>1, <2>0
  <2>11. CASE OperatorStop
    <3>1. ProcessEnds /\ crashes' \in 0..MaxCrashes
      BY <2>11 DEF OperatorStop
    <3> QED BY <3>1, <2>0
  <2>12. CASE UNCHANGED vars
    BY <2>12 DEF vars
  <2>13. CASE RegimeRefreshed
    BY <2>13 DEF RegimeRefreshed
  <2> QED BY <2>1, <2>2, <2>3, <2>4, <2>5, <2>6, <2>7, <2>8, <2>9, <2>10,
             <2>11, <2>12, <2>13 DEF Next
<1> QED BY <1>1, <1>2, PTL DEF Spec

-----------------------------------------------------------------------------
(* Who may change the tracker *)

\* Only three kinds of step touch the tracker.
LEMMA TrackerSteps ==
  ASSUME [Next]_vars
  PROVE  \/ Feed
         \/ Acknowledge
         \/ ProcessEnds
         \/ UNCHANGED acct
BY DEF Next, vars, monitorVars, Tick, MarketMoves, Start, Poll, Answer, Skip,
       RegimeRefreshed, CheckEntry, SubmitEntry, AbandonEntry, Crash, OperatorStop

\* A halt covers every breach in the last snapshot.
THEOREM HaltIsSound == Spec => []HaltCoversBreach
<1> USE ConstantsAssumption, TrackerAssumption
<1>1. Init => HaltCoversBreach
  BY DEF Init, HaltCoversBreach, Fresh
<1>2. TypeOK /\ HaltCoversBreach /\ [Next]_vars => HaltCoversBreach'
  <2> SUFFICES ASSUME TypeOK, HaltCoversBreach, [Next]_vars
               PROVE  HaltCoversBreach'
    OBVIOUS
  <2>1. CASE Feed
    <3> DEFINE r == Record(acct, now, answer)
    <3>0. acct' = r /\ answer \in Equities
      BY <2>1 DEF Feed, TypeOK, None
    <3>1. CASE acct.dayOpen = 0
      <4>1. r.weekOpen = answer /\ r.cur = answer
        BY <3>1, <3>0 DEF Record, TypeOK, Trackers, Fresh
      <4>2. ~Breached(WeeklyPct, answer, answer)
        BY <3>0, NoBreachAtOpen
      <4> QED BY <3>0, <4>1, <4>2 DEF HaltCoversBreach
    <3>2. CASE acct.dayOpen # 0
      <4>1. \E st : /\ r.state = Checked(st, r.dayOpen, r.weekOpen, r.cur)
        BY <3>2 DEF Record
      <4>2. /\ r.state = "normal" => ~Breached(DailyPct, r.dayOpen, r.cur)
            /\ r.state # "weekly" => ~Breached(WeeklyPct, r.weekOpen, r.cur)
        BY <4>1 DEF Checked
      <4> QED BY <3>0, <4>2 DEF HaltCoversBreach
    <3> QED BY <3>1, <3>2
  <2>2. CASE Acknowledge
    <3>1. acct \in Trackers
      BY <2>2 DEF Acknowledge, TypeOK, Fresh
    <3>2. acct'.weekOpen = acct.cur /\ acct'.cur = acct.cur /\ acct.cur \in Equities
      BY <2>2, <3>1 DEF Acknowledge, Acknowledged, Trackers
    <3> QED BY <3>2, NoBreachAtOpen DEF HaltCoversBreach
  <2>3. CASE ProcessEnds
    BY <2>3 DEF ProcessEnds, HaltCoversBreach, Fresh
  <2>4. CASE UNCHANGED acct
    BY <2>4 DEF HaltCoversBreach
  <2> QED BY <2>1, <2>2, <2>3, <2>4, TrackerSteps
<1> QED BY <1>1, <1>2, TypeCorrect, PTL DEF Spec

-----------------------------------------------------------------------------
(* The kill switch implements the circuit breaker *)

\* A snapshot of the tracker is a snapshot of the breaker.
LEMMA RecordIsSnapshot ==
  ASSUME NEW t \in Trackers \union {Fresh},
         NEW ts \in 0..MaxTime, NEW eq \in Equities
  PROVE  Record(t, ts, eq).state \in
           CASE t.state = "weekly" -> {"weekly"}
             [] t.state = "daily" /\ Day(ts) = Day(t.lastTs) -> {"daily", "weekly"}
             [] OTHER -> {"normal", "daily", "weekly"}
<1>0. Record(t, ts, eq).state \in Levels
  BY RecordType DEF Trackers
<1>1. CASE t = Fresh
  BY <1>0, <1>1 DEF Fresh, Levels
<1>2. CASE t \in Trackers
  <2>1. t.dayOpen # 0
    BY <1>2, ConstantsAssumption DEF Trackers
  <2>2. CASE t.state = "weekly"
    BY <2>1, <2>2 DEF Record, Checked, Reopen
  <2>3. CASE t.state = "daily" /\ Day(ts) = Day(t.lastTs)
    BY <2>1, <2>3 DEF Record, Checked, Reopen
  <2>4. CASE t.state # "weekly" /\ ~(t.state = "daily" /\ Day(ts) = Day(t.lastTs))
    BY <1>0, <2>4 DEF Levels
  <2> QED BY <2>2, <2>3, <2>4
<1> QED BY <1>1, <1>2

\* Steps that the breaker sees.
LEMMA BreakerSteps ==
  ASSUME [Next]_vars
  PROVE  \/ Feed
         \/ Acknowledge
         \/ ProcessEnds
         \/ \E s \in Strategies : CheckEntry(s) \/ SubmitEntry(s) \/ AbandonEntry(s)
         \/ UNCHANGED <<acct, approved>>
BY DEF Next, vars, monitorVars, strategyVars, Tick, MarketMoves, Start, Poll,
       Answer, Skip, RegimeRefreshed, Crash, OperatorStop

\* Refinement: halts end only as the circuit breaker says, and no entry is
\* approved while one lasts, whatever is under way when it begins.
THEOREM ImplementsBreaker == Spec => BreakerSpec
<1> USE ConstantsAssumption, TrackerAssumption
<1>1. Init => Breaker!Init
  BY DEF Init, Breaker!Init, Breaker!NoEntries, Fresh, Day
<1>2. TypeOK /\ [Next]_vars => [Breaker!Next]_<<acct.state, Day(acct.lastTs), approved>>
  <2> SUFFICES ASSUME TypeOK, [Next]_vars
               PROVE  [Breaker!Next]_<<acct.state, Day(acct.lastTs), approved>>
    OBVIOUS
  <2>1. CASE Feed
    <3>1. /\ now \in 0..MaxTime /\ answer \in Equities
          /\ acct' = Record(acct, now, answer)
          /\ acct \in Trackers \union {Fresh}
      BY <2>1 DEF Feed, TypeOK, None
    <3>2. acct'.lastTs = now
      BY <3>1 DEF Record, Trackers, Fresh
    <3>3. Day(now) \in Int
      BY <3>1 DEF Day
    <3>4. acct'.state \in
           CASE acct.state = "weekly" -> {"weekly"}
             [] acct.state = "daily" /\ Day(now) = Day(acct.lastTs) -> {"daily", "weekly"}
             [] OTHER -> {"normal", "daily", "weekly"}
      BY <3>1, RecordIsSnapshot
    <3>5. UNCHANGED approved
      BY <2>1 DEF Feed, strategyVars
    <3> QED BY <3>2, <3>3, <3>4, <3>5 DEF Breaker!Next, Breaker!Snapshot
  <2>2. CASE Acknowledge
    <3>1. acct \in Trackers
      BY <2>2 DEF Acknowledge, TypeOK, Fresh
    <3>2. acct'.state = "normal" /\ acct'.lastTs = acct.lastTs
      BY <2>2, <3>1 DEF Acknowledge, Acknowledged, Trackers
    <3>3. acct.state = "weekly" /\ UNCHANGED approved
      BY <2>2 DEF Acknowledge, strategyVars
    <3> QED BY <3>2, <3>3 DEF Breaker!Next, Breaker!Acknowledge
  <2>3. CASE ProcessEnds
    BY <2>3 DEF ProcessEnds, Fresh, Day, Breaker!Next, Breaker!ProcessEnds,
                Breaker!NoEntries
  <2>4. ASSUME NEW s \in Strategies, CheckEntry(s) PROVE Breaker!Admit(s)
    BY <2>4 DEF CheckEntry, Halted, Breaker!Admit
  <2>5. ASSUME NEW s \in Strategies, SubmitEntry(s) \/ AbandonEntry(s)
        PROVE  Breaker!Leave(s)
    BY <2>5 DEF SubmitEntry, AbandonEntry, Breaker!Leave
  <2>6. CASE UNCHANGED <<acct, approved>>
    BY <2>6
  <2> QED BY <2>1, <2>2, <2>3, <2>4, <2>5, <2>6, BreakerSteps DEF Breaker!Next
<1> QED BY <1>1, <1>2, TypeCorrect, PTL DEF Spec, BreakerSpec, Breaker!Spec

\* drawdown.py, "refuses all new orders", as far as it holds: while a halt
\* lasts, the entries that are on their way only become fewer.
THEOREM HaltAdmitsNothing ==
  Spec => [][Halted(acct) => \A s \in Strategies : approved'[s] <= approved[s]]_vars
<1> DEFINE Fewer == \A s \in Strategies : approved'[s] <= approved[s]
<1>1. TypeOK /\ [Next]_vars => [Halted(acct) => Fewer]_vars
  <2> SUFFICES ASSUME TypeOK, [Next]_vars, Halted(acct) PROVE Fewer
    OBVIOUS
  <2>0. approved \in [Strategies -> Nat]
    BY DEF TypeOK
  <2>1. CASE Feed \/ Acknowledge \/ UNCHANGED <<acct, approved>>
    <3>1. approved' = approved
      BY <2>1 DEF Feed, Acknowledge, strategyVars
    <3> QED BY <2>0, <3>1
  <2>2. CASE ProcessEnds
    BY <2>0, <2>2 DEF ProcessEnds
  <2>3. CASE \E s \in Strategies : CheckEntry(s) \/ SubmitEntry(s) \/ AbandonEntry(s)
    BY <2>0, <2>3 DEF CheckEntry, SubmitEntry, AbandonEntry
  <2> QED BY <2>1, <2>2, <2>3, BreakerSteps
<1> QED BY <1>1, TypeCorrect, PTL DEF Spec

-----------------------------------------------------------------------------
(* The tracker is fed on time *)

\* Timely is inductive.
LEMMA TimelyInvariant == Spec => []Timely
<1> USE ConstantsAssumption
<1>1. Init => Timely
  BY DEF Init, Timely, Awaiting
<1>2. TypeOK /\ Timely /\ [Next]_vars => Timely'
  <2> SUFFICES ASSUME TypeOK, Timely, [Next]_vars PROVE Timely'
    OBVIOUS
  <2>0. acct \in Trackers \union {Fresh} /\ acct.lastTs \in Nat
    BY DEF TypeOK, Trackers, Fresh
  <2> USE DEF Awaiting, monitorVars, strategyVars, regimeVars, Round
  <2>1. CASE Tick
    BY <2>1 DEF Tick, Timely, TypeOK
  <2>2. CASE MarketMoves
    BY <2>2 DEF MarketMoves, Timely
  <2>3. CASE Start
    BY <2>3 DEF Start, Timely, TypeOK
  <2>4. CASE Poll
    BY <2>4 DEF Poll, RegimeOrSleep, Timely, TypeOK, Due
  <2>5. CASE Answer
    BY <2>5 DEF Answer, Timely
  <2>6. CASE Skip
    <3>1. (skips + 1) * Round = skips * Round + Round
      BY DEF TypeOK
    <3>2. skips * Round \in Nat
      BY DEF TypeOK
    <3> QED BY <2>0, <2>6, <3>1, <3>2
            DEF Skip, Refreshed, RegimeOrSleep, Timely, TypeOK
  <2>7. CASE Feed
    <3>1. acct'.lastTs = now
      BY <2>0, <2>7 DEF Feed, Record, Trackers, Fresh
    <3>2. 0 * Round = 0
      OBVIOUS
    <3> QED BY <2>7, <3>1, <3>2 DEF Feed, Refreshed, RegimeOrSleep, Timely, TypeOK
  <2>8. CASE \E s \in Strategies : CheckEntry(s) \/ SubmitEntry(s) \/ AbandonEntry(s)
    BY <2>8 DEF CheckEntry, SubmitEntry, AbandonEntry, Timely
  <2>9. CASE Acknowledge
    <3>1. acct # Fresh
      BY <2>9 DEF Acknowledge, Fresh
    <3>2. acct'.lastTs = acct.lastTs
      BY <2>0, <2>9 DEF Acknowledge, Acknowledged, Trackers, Fresh
    <3> QED BY <2>9, <3>1, <3>2 DEF Acknowledge, Timely
  <2>10. CASE ProcessEnds
    BY <2>10 DEF ProcessEnds, Timely
  <2>11. CASE UNCHANGED vars
    BY <2>11 DEF vars, Timely
  <2>12. CASE RegimeRefreshed
    BY <2>12 DEF RegimeRefreshed, Timely, TypeOK
  <2> QED BY <2>1, <2>2, <2>3, <2>4, <2>5, <2>6, <2>7, <2>8, <2>9, <2>10,
             <2>11, <2>12 DEF Next, Crash, OperatorStop
<1> QED BY <1>1, <1>2, TypeCorrect, PTL DEF Spec

\* The tracker is never blind for longer than the failed refreshes explain.
THEOREM FedInTime == Spec => []FedOnTime
<1> USE ConstantsAssumption
<1>1. TypeOK /\ Timely => FedOnTime
  <2> SUFFICES ASSUME TypeOK, Timely, acct # Fresh PROVE FedOnTime
    BY DEF FedOnTime
  <2>1. (skips + 1) * Round = skips * Round + Round
    BY DEF TypeOK, Round
  <2>2. skips * Round \in Nat
    BY DEF TypeOK, Round
  <2>3. acct.lastTs \in Nat
    BY DEF TypeOK, Trackers, Fresh
  <2> QED BY <2>1, <2>2, <2>3 DEF TypeOK, Timely, FedOnTime, Awaiting, Round
<1> QED BY <1>1, TypeCorrect, TimelyInvariant, PTL

=============================================================================
