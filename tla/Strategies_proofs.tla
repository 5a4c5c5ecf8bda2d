--------------------------- MODULE Strategies_proofs ---------------------------
(***************************************************************************)
(* Proofs about the strategies with several legs, for every lot, size and  *)
(* number of rounds: while the posMode of the margin service stays, no     *)
(* entry of a carry is one-legged, and at rest the account holds what a    *)
(* carry or the straddle seller believes in.                               *)
(***************************************************************************)
EXTENDS MCStrategies, TLAPS

(* The types the induction needs.                                          *)
Types ==
  /\ kind \in {"carry", "basis"} /\ isolated \in BOOLEAN /\ hedged \in BOOLEAN
  /\ has \in BOOLEAN /\ spotQty \in 0..MaxRaw /\ perpQty \in 0..MaxRaw
  /\ plan \in 0..MaxRaw /\ spot \in Int /\ perp \in Int
  /\ mishap \in BOOLEAN /\ replaced \in BOOLEAN /\ oneLegged \in BOOLEAN
  /\ task \in Carry!Tasks

(* What is believed: legs of one size, worth a lot or nothing at all; an   *)
(* entry waits only where nothing is held, a close only where something is.*)
Believed ==
  /\ spotQty = perpQty
  /\ has => Carry!Floor(perpQty) > 0
  /\ ~has => perpQty = 0
  /\ task \in {"mode", "lever", "helper"} =>
       plan \in 1..MaxRaw /\ Carry!Floor(plan) > 0 /\ ~has
  /\ task = "unwind" => has

(* A check begins with nothing on its way.                                 *)
Orders ==
  /\ \A l \in legs : \E w \in {"spot", "perp"}, d \in {"buy", "sell"}, n \in 1..MaxRaw :
                        l = Carry!Leg(w, d, n)
  /\ task \in {"fetch", "mode", "lever"} => legs = {}
  /\ task \in {"helper", "unwind"} => \A l \in legs : l.what = "spot"

(* While the posMode is not replaced, the key an entry waits for is the    *)
(* one the helper will look up; so the helper never waits itself.          *)
Waits ==
  /\ task = "lever" => replaced \/ key = Carry!HelperKey(mode, "sell")
  /\ task = "helper" => replaced
  /\ ~oneLegged

(* One order of a leg at most is on its way, and with it the account holds *)
(* what is believed.  A close sells the spot leg before it is forgotten,   *)
(* an entry whose helper waits has bought it before it is written.         *)
SpotTarget == IF task = "unwind" THEN 0 ELSE IF task = "helper" THEN plan ELSE spotQty

Signed(l) == IF l.side = "buy" THEN l.qty ELSE 0 - l.qty

Coming(what, now, target) ==
  /\ \A l, m \in legs : l.what = what /\ m.what = what => l = m
  /\ \A l \in legs : l.what = what => now + Signed(l) = target
  /\ (\A l \in legs : l.what # what) => now = target

CarryInv ==
  /\ Types /\ Believed /\ Orders /\ Waits
  /\ ~mishap => /\ Coming("spot", spot, SpotTarget)
                /\ Coming("perp", perp, 0 - Carry!Floor(perpQty))

-----------------------------------------------------------------------------
LEMMA Sizes == Lot \in Nat \ {0} /\ MaxRaw \in Nat
BY CarryAssumption

(* Rounding down to the lot loses less than a lot.                         *)
LEMMA FloorBounds ==
  ASSUME NEW n \in Nat
  PROVE  Carry!Floor(n) \in 0..n /\ n - Carry!Floor(n) \in 0..(Lot - 1) /\ Carry!Floor(0) = 0
<1>1. n % Lot \in 0..(Lot - 1) /\ n % Lot <= n /\ 0 % Lot = 0
  BY SMT, Sizes
<1> QED BY <1>1, Sizes DEF Carry!Floor

(* Under one posMode the helper looks up the key the entry has checked.    *)
LEMMA SameKey ==
  ASSUME NEW m
  PROVE  Carry!EntryKey(m) = Carry!HelperKey(m, "sell")
BY DEF Carry!HelperKey, Carry!EntryKey

(* Where nothing is believed and nothing on its way, the account is empty. *)
LEMMA NothingHeld ==
  ASSUME CarryInv, ~has, legs = {}, ~mishap, task \notin {"helper", "unwind"}
  PROVE  spot = 0 /\ perp = 0
<1>1. perpQty = 0 /\ spotQty = 0
  BY DEF CarryInv, Believed
<1>2. Carry!Floor(perpQty) = 0
  BY <1>1, FloorBounds
<1>3. spot = SpotTarget /\ perp = 0 - Carry!Floor(perpQty)
  BY DEF CarryInv, Coming
<1>4. SpotTarget = 0
  BY <1>1 DEF SpotTarget
<1>5. spot = 0
  BY <1>3, <1>4
<1>6. perp = 0
  BY <1>2, <1>3
<1> QED BY <1>5, <1>6

(* Both legs leave, for a size that is worth a lot.                        *)
LEMMA PairLeaves ==
  ASSUME CarryInv, NEW n \in 1..MaxRaw, Carry!Floor(n) > 0, legs = {}, ~has,
         task \notin {"helper", "unwind"}, Carry!Opened(n),
         legs' = legs \cup {Carry!Leg("spot", "buy", n), Carry!Leg("perp", "sell", Carry!Floor(n))},
         task' = "idle", plan' = 0, replaced' = FALSE,
         UNCHANGED <<kind, isolated, hedged, spot, perp, mishap, oneLegged>>
  PROVE  CarryInv'
<1>1. legs' = {Carry!Leg("spot", "buy", n), Carry!Leg("perp", "sell", Carry!Floor(n))}
  OBVIOUS
<1>2. has' = TRUE /\ spotQty' = n /\ perpQty' = n
  BY DEF Carry!Opened
<1>3. Carry!Floor(n) \in 1..MaxRaw /\ Carry!Floor(n)' = Carry!Floor(n) /\ Carry!Floor(perpQty)' = Carry!Floor(n)
  <2>1. Carry!Floor(n) \in 0..n
    BY FloorBounds, Sizes
  <2> QED BY <1>2, <2>1, Sizes DEF Carry!Floor
<1>4. Types' /\ Believed'
  <2>1. /\ kind' \in {"carry", "basis"} /\ isolated' \in BOOLEAN /\ hedged' \in BOOLEAN
        /\ has' \in BOOLEAN /\ mishap' \in BOOLEAN /\ replaced' \in BOOLEAN
        /\ oneLegged' \in BOOLEAN /\ task' \in Carry!Tasks
    BY <1>2 DEF CarryInv, Types, Carry!Tasks
  <2>2. spotQty' \in 0..MaxRaw /\ perpQty' \in 0..MaxRaw /\ plan' \in 0..MaxRaw
    BY <1>2, Sizes
  <2>3. Types'
    BY <2>1, <2>2 DEF CarryInv, Types
  <2>4. Believed'
    BY <1>2, <1>3, Sizes DEF Believed
  <2> QED BY <2>3, <2>4
<1>5. Orders'
  BY <1>1, <1>3, Sizes DEF Orders, Carry!Leg
<1>6. Waits'
  BY DEF CarryInv, Waits
<1>7. ~mishap' => Coming("spot", spot, SpotTarget)' /\ Coming("perp", perp, 0 - Carry!Floor(perpQty))'
  <2> SUFFICES ASSUME ~mishap
               PROVE  Coming("spot", spot, SpotTarget)' /\ Coming("perp", perp, 0 - Carry!Floor(perpQty))'
    OBVIOUS
  <2>1. spot = 0 /\ perp = 0
    BY NothingHeld
  <2>2. SpotTarget' = n
    BY <1>2 DEF SpotTarget
  <2> QED BY <2>1, <2>2, <1>1, <1>3, Sizes DEF Coming, Signed, Carry!Leg
<1> QED BY <1>4, <1>5, <1>6, <1>7 DEF CarryInv

(* The spot leg of an entry leaves alone: its helper waits.                *)
LEMMA SpotEnters ==
  ASSUME CarryInv, NEW n \in 1..MaxRaw, Carry!Floor(n) > 0, legs = {}, ~has,
         task \notin {"helper", "unwind"}, replaced,
         legs' = legs \cup {Carry!Leg("spot", "buy", n)},
         task' = "helper", plan' = n,
         UNCHANGED <<kind, isolated, hedged, Carry!book, spot, perp, mishap, replaced, oneLegged>>
  PROVE  CarryInv'
<1>1. legs' = {Carry!Leg("spot", "buy", n)}
  OBVIOUS
<1>2. Carry!Floor(perpQty)' = Carry!Floor(perpQty) /\ Carry!Floor(plan)' = Carry!Floor(n)
      /\ perpQty = 0 /\ Carry!Floor(perpQty) = 0
  BY FloorBounds DEF CarryInv, Believed, Carry!book, Carry!Floor
<1>3. Types' /\ Believed'
  BY <1>1, <1>2, Sizes DEF CarryInv, Types, Believed, Carry!Tasks, Carry!book
<1>4. Orders' /\ Waits'
  BY <1>1, Sizes DEF CarryInv, Orders, Waits, Carry!Leg
<1>5. ~mishap' => Coming("spot", spot, SpotTarget)' /\ Coming("perp", perp, 0 - Carry!Floor(perpQty))'
  <2> SUFFICES ASSUME ~mishap
               PROVE  Coming("spot", spot, SpotTarget)' /\ Coming("perp", perp, 0 - Carry!Floor(perpQty))'
    OBVIOUS
  <2>1. spot = 0 /\ perp = 0
    BY NothingHeld
  <2>2. SpotTarget' = n
    BY DEF SpotTarget
  <2> QED BY <2>1, <2>2, <1>1, <1>2, Sizes DEF Coming, Signed, Carry!Leg
<1> QED BY <1>3, <1>4, <1>5 DEF CarryInv

(* The pair is sent, with the helper's key known or to be waited for.      *)
LEMMA SubmitPreserves ==
  ASSUME CarryInv, NEW n \in 1..MaxRaw, Carry!Floor(n) > 0, legs = {}, ~has,
         task \notin {"helper", "unwind"}, NEW m, NEW keys,
         Carry!SubmitPair(n, m, keys),
         isolated => replaced \/ Carry!HelperKey(m, "sell") \in keys,
         UNCHANGED <<kind, isolated, hedged, Carry!held, mishap, oneLegged>>
  PROVE  CarryInv'
<1>1. spot' = spot /\ perp' = perp
  BY DEF Carry!held
<1>2. CASE ~isolated \/ Carry!HelperKey(m, "sell") \in keys
  BY <1>1, <1>2, PairLeaves DEF Carry!SubmitPair
<1>3. CASE ~(~isolated \/ Carry!HelperKey(m, "sell") \in keys)
  BY <1>1, <1>3, SpotEnters DEF Carry!SubmitPair
<1> QED BY <1>2, <1>3

(* Nothing that is believed or ordered changes.                            *)
LEMMA Unmoved ==
  ASSUME CarryInv, UNCHANGED <<kind, isolated, hedged, Carry!book, legs, Carry!held, mishap, oneLegged>>,
         replaced' \in BOOLEAN, plan' \in 0..MaxRaw, task' \in Carry!Tasks, Waits',
         task' = "fetch" => legs = {},
         task' \in {"mode", "lever"} => legs = {} /\ plan' > 0 /\ Carry!Floor(plan') > 0 /\ ~has,
         task' = "unwind" <=> task = "unwind",
         task' = "helper" <=> task = "helper", task = "helper" => plan' = plan
  PROVE  CarryInv'
<1>1. Types' /\ Carry!Floor(perpQty)' = Carry!Floor(perpQty) /\ Carry!Floor(plan)' = Carry!Floor(plan')
  BY DEF CarryInv, Types, Carry!book, Carry!held, Carry!Floor
<1>2. Believed'
  BY <1>1 DEF CarryInv, Types, Believed, Carry!book, Carry!held
<1>3. Orders'
  BY DEF CarryInv, Types, Orders, Carry!Leg
<1>4. SpotTarget' = SpotTarget
  BY DEF SpotTarget, Carry!book
<1>5. ~mishap' => Coming("spot", spot, SpotTarget)' /\ Coming("perp", perp, 0 - Carry!Floor(perpQty))'
  BY <1>1, <1>4 DEF CarryInv, Coming, Carry!held, Signed
<1> QED BY <1>1, <1>2, <1>3, <1>5 DEF CarryInv

(* The check before an entry: the leverage is known, or waited for.        *)
LEMMA EnsurePreserves ==
  ASSUME CarryInv, NEW n \in 1..MaxRaw, Carry!Floor(n) > 0, legs = {}, ~has,
         task \in {"fetch", "mode"}, NEW m, mode' = m, Carry!EnsureFirst(n, m),
         UNCHANGED <<kind, isolated, hedged, Carry!held, mishap, oneLegged>>
  PROVE  CarryInv'
<1>1. CASE Carry!EntryKey(m) \in cached
  BY <1>1, SameKey, SubmitPreserves DEF Carry!EnsureFirst
<1>2. CASE Carry!EntryKey(m) \notin cached
  <2>1. /\ task' = "lever" /\ plan' = n /\ key' = Carry!EntryKey(m)
        /\ UNCHANGED <<Carry!book, legs, replaced>>
    BY <1>2 DEF Carry!EnsureFirst
  <2>2. key' = Carry!HelperKey(mode, "sell")'
    BY <2>1, SameKey DEF Carry!HelperKey
  <2>3. Waits' /\ replaced' \in BOOLEAN
    BY <2>1, <2>2 DEF CarryInv, Types, Waits
  <2>4. plan' \in 0..MaxRaw /\ plan' > 0 /\ Carry!Floor(plan') > 0 /\ task' \in Carry!Tasks
    BY <2>1, Sizes DEF Carry!Tasks
  <2> QED BY <2>1, <2>3, <2>4, Unmoved
<1> QED BY <1>1, <1>2

(* The helper's call of an entry is answered.                              *)
LEMMA HelperPreserves == ASSUME CarryInv, Carry!HelperAnswered PROVE CarryInv'
<1>1. /\ task = "helper" /\ task' = "idle" /\ plan' = 0 /\ replaced' = FALSE
      /\ has' = TRUE /\ spotQty' = plan /\ perpQty' = plan
      /\ UNCHANGED <<kind, isolated, hedged, spot, perp>>
  BY DEF Carry!HelperAnswered, Carry!Opened, Carry!fixed, Carry!held
<1>2. /\ plan \in 1..MaxRaw /\ Carry!Floor(plan) > 0 /\ ~has /\ replaced /\ ~oneLegged
      /\ \A l \in legs : l.what = "spot"
  BY <1>1 DEF CarryInv, Believed, Waits, Orders
<1>3. Carry!Floor(plan) \in 1..MaxRaw /\ Carry!Floor(perpQty)' = Carry!Floor(plan)
  <2>1. Carry!Floor(plan) \in 0..plan
    BY <1>2, FloorBounds, Sizes
  <2> QED BY <1>1, <1>2, <2>1, Sizes DEF Carry!Floor
<1>4. oneLegged' = FALSE /\ mishap' \in BOOLEAN
  <2>1. oneLegged = FALSE /\ mishap \in BOOLEAN
    BY <1>2 DEF CarryInv, Types
  <2>2. CASE UNCHANGED <<mishap, oneLegged>>
    BY <2>1, <2>2
  <2>3. CASE mishap' = TRUE /\ oneLegged' = (oneLegged \/ ~replaced)
    BY <1>2, <2>1, <2>3
  <2> QED BY <2>2, <2>3 DEF Carry!HelperAnswered
<1>5. Types' /\ Believed'
  <2>1. /\ kind' \in {"carry", "basis"} /\ isolated' \in BOOLEAN /\ hedged' \in BOOLEAN
        /\ has' \in BOOLEAN /\ replaced' \in BOOLEAN
        /\ oneLegged' \in BOOLEAN /\ task' \in Carry!Tasks
    BY <1>1, <1>4 DEF CarryInv, Types, Carry!Tasks
  <2>2. spotQty' \in 0..MaxRaw /\ perpQty' \in 0..MaxRaw /\ plan' \in 0..MaxRaw
    BY <1>1, <1>2, Sizes
  <2>3. spot' \in Int /\ perp' \in Int
    BY <1>1 DEF CarryInv, Types
  <2>4. Types'
    BY <1>4, <2>1, <2>2, <2>3 DEF Types
  <2>5. Believed'
    BY <1>1, <1>3, Sizes DEF Believed
  <2> QED BY <2>4, <2>5
<1>6. Orders'
  BY <1>1, <1>3 DEF CarryInv, Orders, Carry!Leg, Carry!HelperAnswered
<1>7. Waits'
  BY <1>1, <1>4 DEF Waits
<1>8. ~mishap' => Coming("spot", spot, SpotTarget)' /\ Coming("perp", perp, 0 - Carry!Floor(perpQty))'
  <2> SUFFICES ASSUME ~mishap'
               PROVE  Coming("spot", spot, SpotTarget)' /\ Coming("perp", perp, 0 - Carry!Floor(perpQty))'
    OBVIOUS
  <2>1. ~mishap /\ legs' = legs \cup {Carry!Leg("perp", "sell", Carry!Floor(plan))}
    BY DEF Carry!HelperAnswered
  <2>2. SpotTarget' = plan /\ SpotTarget = plan
    BY <1>1 DEF SpotTarget
  <2>3. Carry!Floor(perpQty) = 0
    BY <1>2, FloorBounds DEF CarryInv, Believed
  <2>4. perp' = 0
    <3>1. Coming("perp", perp, 0 - Carry!Floor(perpQty))
      BY <2>1 DEF CarryInv
    <3>2. perp = 0 - Carry!Floor(perpQty)
      BY <1>2, <3>1 DEF Coming
    <3> QED BY <1>1, <2>3, <3>2
  <2>5. Coming("spot", spot, plan) /\ spot' = spot
    BY <1>1, <2>1, <2>2 DEF CarryInv
  <2>6. Coming("spot", spot, SpotTarget)'
    BY <2>1, <2>2, <2>5 DEF Coming, Signed, Carry!Leg
  <2>7. Coming("perp", perp, 0 - Carry!Floor(perpQty))'
    <3>1. \A l \in legs' : l.what = "perp" => l = Carry!Leg("perp", "sell", Carry!Floor(plan))
      BY <1>2, <2>1
    <3>2. Carry!Leg("perp", "sell", Carry!Floor(plan)) \in legs'
      BY <2>1
    <3>3. perp' + (0 - Carry!Floor(plan)) = 0 - Carry!Floor(perpQty)'
      BY <1>3, <2>4
    <3> QED BY <3>1, <3>2, <3>3 DEF Coming, Signed, Carry!Leg
  <2> QED BY <2>6, <2>7
<1> QED BY <1>5, <1>6, <1>7, <1>8 DEF CarryInv

(* The spot leg is on its way out; the derivative waits for its leverage.  *)
LEMMA SpotLeaves ==
  ASSUME CarryInv, has, legs = {}, task = "fetch", task' = "unwind",
         legs' = legs \cup {Carry!Leg("spot", "sell", spotQty)},
         UNCHANGED <<kind, isolated, hedged, Carry!book, Carry!held, mishap, plan, replaced, oneLegged>>
  PROVE  CarryInv'
<1>1. Types' /\ Carry!Floor(perpQty)' = Carry!Floor(perpQty)
  BY DEF CarryInv, Types, Carry!Tasks, Carry!book, Carry!held, Carry!Floor
<1>2. Believed'
  BY <1>1 DEF CarryInv, Types, Believed, Carry!book, Carry!held
<1>3. spotQty \in 1..MaxRaw
  <2>1. perpQty \in Nat
    BY Sizes DEF CarryInv, Types
  <2>2. Carry!Floor(perpQty) \in 0..perpQty
    BY <2>1, FloorBounds
  <2> QED BY <2>1, <2>2, Sizes DEF CarryInv, Types, Believed
<1>4. Orders'
  BY <1>3 DEF Orders, Carry!Leg
<1>6. Waits'
  BY DEF CarryInv, Waits
<1>5. ~mishap' => Coming("spot", spot, SpotTarget)' /\ Coming("perp", perp, 0 - Carry!Floor(perpQty))'
  <2> SUFFICES ASSUME ~mishap
               PROVE  Coming("spot", spot, SpotTarget)' /\ Coming("perp", perp, 0 - Carry!Floor(perpQty))'
    BY DEF CarryInv
  <2>1. spot = spotQty /\ perp = 0 - Carry!Floor(perpQty)
    BY <1>1 DEF CarryInv, Coming, SpotTarget
  <2>2. SpotTarget' = 0
    BY DEF SpotTarget
  <2>3. spot' = spotQty /\ perp' = 0 - Carry!Floor(perpQty)
    BY <2>1 DEF Carry!held
  <2> QED BY <1>1, <1>3, <2>2, <2>3 DEF Coming, Signed, Carry!Leg
<1> QED BY <1>1, <1>2, <1>4, <1>5, <1>6 DEF CarryInv

(* Both legs of a close are on their way.                                  *)
LEMMA BothLeave ==
  ASSUME CarryInv, has, legs = {}, task = "fetch", task' = "idle", Carry!Forget,
         legs' = legs \cup {Carry!Leg("spot", "sell", spotQty), Carry!Leg("perp", "buy", Carry!Floor(perpQty))},
         UNCHANGED <<kind, isolated, hedged, Carry!held, mishap, plan, replaced, oneLegged>>
  PROVE  CarryInv'
<1>1. perpQty \in 1..MaxRaw /\ spotQty = perpQty /\ Carry!Floor(perpQty) \in 1..MaxRaw
      /\ Carry!Floor(perpQty)' = 0
  <2>1. perpQty \in Nat
    BY Sizes DEF CarryInv, Types
  <2>2. Carry!Floor(perpQty) \in 0..perpQty /\ Carry!Floor(0) = 0
    BY <2>1, FloorBounds
  <2>3. Carry!Floor(perpQty)' = Carry!Floor(0)
    BY DEF Carry!Forget, Carry!Floor
  <2> QED BY <2>1, <2>2, <2>3, Sizes DEF CarryInv, Types, Believed
<1>2. Types' /\ Believed'
  <2>1. 0 \in 0..MaxRaw
    BY Sizes
  <2>2. has' = FALSE /\ spotQty' = 0 /\ perpQty' = 0
    BY DEF Carry!Forget
  <2>3. Types'
    BY <2>1, <2>2 DEF CarryInv, Types, Carry!Tasks, Carry!held
  <2> QED BY <2>2, <2>3 DEF Believed
<1>3. Orders' /\ Waits'
  BY <1>1 DEF CarryInv, Orders, Waits, Carry!Leg
<1>4. ~mishap' => Coming("spot", spot, SpotTarget)' /\ Coming("perp", perp, 0 - Carry!Floor(perpQty))'
  <2> SUFFICES ASSUME ~mishap
               PROVE  Coming("spot", spot, SpotTarget)' /\ Coming("perp", perp, 0 - Carry!Floor(perpQty))'
    BY DEF CarryInv
  <2>1. spot' = spotQty /\ perp' = 0 - Carry!Floor(perpQty)
    BY DEF CarryInv, Coming, SpotTarget, Carry!held
  <2>2. SpotTarget' = 0
    BY DEF SpotTarget, Carry!Forget
  <2> QED BY <1>1, <2>1, <2>2 DEF Coming, Signed, Carry!Leg
<1> QED BY <1>2, <1>3, <1>4 DEF CarryInv

(* The leverage of a close is answered.                                    *)
LEMMA UnwindPreserves == ASSUME CarryInv, Carry!UnwindAnswered PROVE CarryInv'
<1>1. perpQty \in 1..MaxRaw /\ Carry!Floor(perpQty) \in 1..MaxRaw /\ Carry!Floor(perpQty)' = 0
  <2>1. perpQty \in Nat
    BY Sizes DEF CarryInv, Types
  <2>2. Carry!Floor(perpQty) \in 0..perpQty /\ Carry!Floor(0) = 0
    BY <2>1, FloorBounds
  <2>3. Carry!Floor(perpQty)' = Carry!Floor(0)
    BY DEF Carry!UnwindAnswered, Carry!Forget, Carry!Floor
  <2> QED BY <2>1, <2>2, <2>3, Sizes DEF CarryInv, Types, Believed, Carry!UnwindAnswered
<1>2. Types' /\ Believed'
  <2>1. 0 \in 0..MaxRaw
    BY Sizes
  <2>2. has' = FALSE /\ spotQty' = 0 /\ perpQty' = 0 /\ task' = "idle"
    BY DEF Carry!UnwindAnswered, Carry!Forget
  <2>3. mishap' \in BOOLEAN
    BY DEF CarryInv, Types, Carry!UnwindAnswered
  <2>4. Types'
    BY <2>1, <2>2, <2>3 DEF CarryInv, Types, Carry!Tasks, Carry!UnwindAnswered, Carry!fixed, Carry!held
  <2> QED BY <2>2, <2>4 DEF Believed
<1>3. Orders' /\ Waits'
  BY <1>1 DEF CarryInv, Orders, Waits, Carry!Leg, Carry!UnwindAnswered
<1>4. ~mishap' => Coming("spot", spot, SpotTarget)' /\ Coming("perp", perp, 0 - Carry!Floor(perpQty))'
  <2> SUFFICES ASSUME ~mishap'
               PROVE  Coming("spot", spot, SpotTarget)' /\ Coming("perp", perp, 0 - Carry!Floor(perpQty))'
    OBVIOUS
  <2>1. ~mishap /\ legs' = legs \cup {Carry!Leg("perp", "buy", Carry!Floor(perpQty))}
    BY DEF Carry!UnwindAnswered
  <2>2. \A l \in legs : l.what = "spot"
    BY DEF CarryInv, Orders, Carry!UnwindAnswered
  <2>3. SpotTarget' = 0 /\ SpotTarget = 0
    BY DEF SpotTarget, Carry!Forget, Carry!UnwindAnswered
  <2>4. spot' = spot /\ perp' = 0 - Carry!Floor(perpQty)
    <3>1. Coming("perp", perp, 0 - Carry!Floor(perpQty))
      BY <2>1 DEF CarryInv
    <3>2. perp = 0 - Carry!Floor(perpQty)
      BY <2>2, <3>1 DEF Coming
    <3> QED BY <3>2 DEF Carry!UnwindAnswered, Carry!held
  <2>5. Coming("spot", spot, 0)
    BY <2>1, <2>3 DEF CarryInv
  <2>6. Coming("spot", spot, SpotTarget)'
    BY <2>1, <2>3, <2>4, <2>5 DEF Coming, Signed, Carry!Leg
  <2>7. Coming("perp", perp, 0 - Carry!Floor(perpQty))'
    <3>1. \A l \in legs' : l.what = "perp" => l = Carry!Leg("perp", "buy", Carry!Floor(perpQty))
      BY <2>1, <2>2
    <3>2. Carry!Leg("perp", "buy", Carry!Floor(perpQty)) \in legs'
      BY <2>1
    <3>3. perp' + Carry!Floor(perpQty) = 0 - Carry!Floor(perpQty)'
      BY <1>1, <2>4
    <3> QED BY <3>1, <3>2, <3>3 DEF Coming, Signed, Carry!Leg
  <2> QED BY <2>6, <2>7
<1> QED BY <1>2, <1>3, <1>4 DEF CarryInv, Carry!UnwindAnswered

(* The venue fills or refuses an order.                                    *)
LEMMA VenuePreserves == ASSUME CarryInv, Carry!VenueStep PROVE CarryInv'
<1>1. PICK l \in legs, n \in 0..MaxRaw :
        /\ IF l.what = "perp" /\ l.side = "buy" /\ l.qty > -perp
           THEN n \in {0, -perp}
           ELSE n \in {0, l.qty}
        /\ legs' = legs \ {l}
        /\ spot' = IF l.what # "spot" THEN spot
                   ELSE IF l.side = "buy" THEN spot + n ELSE spot - n
        /\ perp' = IF l.what # "perp" THEN perp
                   ELSE IF l.side = "buy" THEN perp + n ELSE perp - n
        /\ mishap' = (mishap \/ n < l.qty)
  BY DEF Carry!VenueStep
<1>2. UNCHANGED <<kind, isolated, hedged, Carry!book, task, plan, key, mode, replaced, oneLegged>>
  BY DEF Carry!VenueStep, Carry!fixed, Carry!posMode
<1>3. PICK w \in {"spot", "perp"}, d \in {"buy", "sell"}, q \in 1..MaxRaw : l = Carry!Leg(w, d, q)
  BY DEF CarryInv, Orders
<1>4. l.what \in {"spot", "perp"} /\ l.side \in {"buy", "sell"} /\ l.qty \in 1..MaxRaw
  BY <1>3 DEF Carry!Leg
<1>5. spot' \in Int /\ perp' \in Int
  BY <1>1, Sizes DEF CarryInv, Types
<1>6. Types'
  <2>1. mishap' \in BOOLEAN
    BY <1>1
  <2> QED BY <1>2, <1>5, <2>1 DEF CarryInv, Types, Carry!book
<1>7. Carry!Floor(perpQty)' = Carry!Floor(perpQty) /\ Carry!Floor(plan)' = Carry!Floor(plan)
      /\ SpotTarget' = SpotTarget
  BY <1>2 DEF Carry!Floor, SpotTarget, Carry!book
<1>8. Believed'
  BY <1>2, <1>7 DEF CarryInv, Believed, Carry!book
<1>9. Orders'
  <2>1. legs' \subseteq legs
    BY <1>1
  <2>2. Orders /\ task' = task
    BY <1>2 DEF CarryInv
  <2>3. \A k \in legs' : \E leg \in {"spot", "perp"}, side \in {"buy", "sell"}, m \in 1..MaxRaw :
                            k = Carry!Leg(leg, side, m)
    BY <2>1, <2>2 DEF Orders
  <2>4. task' \in {"fetch", "mode", "lever"} => legs' = {}
    BY <2>1, <2>2 DEF Orders
  <2>5. task' \in {"helper", "unwind"} => \A k \in legs' : k.what = "spot"
    BY <2>1, <2>2 DEF Orders
  <2> QED BY <2>3, <2>4, <2>5 DEF Orders, Carry!Leg
<1>10. ~mishap' => Coming("spot", spot, SpotTarget)' /\ Coming("perp", perp, 0 - Carry!Floor(perpQty))'
  <2> SUFFICES ASSUME ~mishap'
               PROVE  Coming("spot", spot, SpotTarget)' /\ Coming("perp", perp, 0 - Carry!Floor(perpQty))'
    OBVIOUS
  <2>1. ~mishap /\ ~(n < l.qty)
    BY <1>1
  <2>2. n = l.qty
    BY <1>1, <1>4, <2>1
  <2>3. Coming("spot", spot, SpotTarget) /\ Coming("perp", perp, 0 - Carry!Floor(perpQty))
    BY <2>1 DEF CarryInv
  <2>4. spot \in Int /\ perp \in Int /\ l.qty \in Nat
    BY <1>4 DEF CarryInv, Types
  <2>5. /\ l.what = "spot" => spot' = spot + Signed(l)
        /\ l.what # "spot" => spot' = spot
    BY <1>1, <1>4, <2>2, <2>4 DEF Signed
  <2>6. /\ l.what = "perp" => perp' = perp + Signed(l)
        /\ l.what # "perp" => perp' = perp
    BY <1>1, <1>4, <2>2, <2>4 DEF Signed
  <2>7. Coming("spot", spot, SpotTarget)'
    <3>1. /\ \A k, m \in legs' : k.what = "spot" /\ m.what = "spot" => k = m
          /\ \A k \in legs' : k.what = "spot" => spot' + Signed(k) = SpotTarget
          /\ (\A k \in legs' : k.what # "spot") => spot' = SpotTarget
      <4>1. Coming("spot", spot, SpotTarget) /\ legs' = legs \ {l} /\ l \in legs
        BY <1>1, <2>3
      <4>2. CASE l.what = "spot"
        BY <4>1, <4>2, <2>5 DEF Coming
      <4>3. CASE l.what # "spot"
        <5>1. /\ \A k, m \in legs' : k.what = "spot" /\ m.what = "spot" => k = m
              /\ \A k \in legs' : k.what = "spot" => spot + Signed(k) = SpotTarget
              /\ (\A k \in legs' : k.what # "spot") => spot = SpotTarget
          BY <4>1, <4>3 DEF Coming
        <5>2. spot' = spot
          BY <4>3, <2>5
        <5> QED BY <5>1, <5>2
      <4> QED BY <4>2, <4>3
    <3> QED BY <1>7, <3>1 DEF Coming, Signed
  <2>8. Coming("perp", perp, 0 - Carry!Floor(perpQty))'
    <3>1. /\ \A k, m \in legs' : k.what = "perp" /\ m.what = "perp" => k = m
          /\ \A k \in legs' : k.what = "perp" => perp' + Signed(k) = 0 - Carry!Floor(perpQty)
          /\ (\A k \in legs' : k.what # "perp") => perp' = 0 - Carry!Floor(perpQty)
      <4>1. Coming("perp", perp, 0 - Carry!Floor(perpQty)) /\ legs' = legs \ {l} /\ l \in legs
        BY <1>1, <2>3
      <4>2. CASE l.what = "perp"
        BY <4>1, <4>2, <2>6 DEF Coming
      <4>3. CASE l.what # "perp"
        <5>1. /\ \A k, m \in legs' : k.what = "perp" /\ m.what = "perp" => k = m
              /\ \A k \in legs' : k.what = "perp" => perp + Signed(k) = 0 - Carry!Floor(perpQty)
              /\ (\A k \in legs' : k.what # "perp") => perp = 0 - Carry!Floor(perpQty)
          BY <4>1, <4>3 DEF Coming
        <5>2. perp' = perp
          BY <4>3, <2>6
        <5> QED BY <5>1, <5>2
      <4> QED BY <4>2, <4>3
    <3> QED BY <1>7, <3>1 DEF Coming, Signed
  <2> QED BY <2>7, <2>8
<1>11. Waits'
  BY <1>2 DEF CarryInv, Waits, Carry!HelperKey
<1> QED BY <1>2, <1>6, <1>8, <1>9, <1>10, <1>11 DEF CarryInv

(* An entry of a check, or the return before it.                           *)
LEMMA EnterPreserves ==
  ASSUME CarryInv, task = "fetch", ~has, Carry!Enter(Carry!CarrySizes) \/ Carry!SkipEntry,
         UNCHANGED <<Carry!fixed, Carry!posMode, Carry!held>>
  PROVE  CarryInv'
<1>1. legs = {} /\ UNCHANGED <<kind, isolated, hedged, mode>>
  BY DEF CarryInv, Orders, Carry!fixed, Carry!posMode
<1>2. CASE Carry!SkipEntry
  <2>1. Waits'
    BY <1>2 DEF CarryInv, Waits, Carry!SkipEntry
  <2> QED BY <1>1, <1>2, <2>1, Unmoved DEF Carry!SkipEntry, CarryInv, Types, Carry!Tasks
<1>3. CASE Carry!Enter(Carry!CarrySizes)
  <2>1. PICK n \in Carry!CarrySizes :
          /\ Carry!Floor(n) > 0
          /\ \/ ~isolated /\ Carry!SubmitPair(n, mode, cached)
             \/ isolated /\ mode # "unknown" /\ Carry!EnsureFirst(n, mode)
             \/ /\ isolated /\ mode = "unknown" /\ task' = "mode" /\ plan' = n
                /\ UNCHANGED <<Carry!book, key, legs, rounds, replaced>>
    BY <1>3 DEF Carry!Enter
  <2>2. n \in 1..MaxRaw
    BY <2>1, Sizes DEF Carry!CarrySizes
  <2>3. UNCHANGED <<mishap, oneLegged>>
    BY <1>3 DEF Carry!Enter
  <2>4. CASE ~isolated /\ Carry!SubmitPair(n, mode, cached)
    BY <1>1, <2>1, <2>2, <2>3, <2>4, SubmitPreserves
  <2>5. CASE isolated /\ mode # "unknown" /\ Carry!EnsureFirst(n, mode)
    BY <1>1, <2>1, <2>2, <2>3, <2>5, EnsurePreserves
  <2>6. CASE /\ isolated /\ mode = "unknown" /\ task' = "mode" /\ plan' = n
             /\ UNCHANGED <<Carry!book, key, legs, rounds, replaced>>
    <3>1. plan' \in 0..MaxRaw /\ plan' > 0 /\ Carry!Floor(plan') > 0 /\ replaced' \in BOOLEAN
      BY <2>1, <2>2, <2>6, Sizes DEF CarryInv, Types
    <3>2. Waits' /\ task' \in Carry!Tasks
      BY <2>3, <2>6 DEF CarryInv, Waits, Carry!Tasks
    <3> QED BY <1>1, <2>3, <2>6, <3>1, <3>2, Unmoved
  <2> QED BY <2>1, <2>4, <2>5, <2>6
<1> QED BY <1>2, <1>3

(* An exit, with its leverage known or still to be set.                    *)
LEMMA ExitPreserves ==
  ASSUME CarryInv, task = "fetch", has, Carry!Exit, UNCHANGED <<Carry!fixed, Carry!held>>
  PROVE  CarryInv'
<1>1. legs = {} /\ UNCHANGED <<kind, isolated, hedged>>
  BY DEF CarryInv, Orders, Carry!fixed
<1>2. UNCHANGED <<plan, mishap, replaced, oneLegged>>
  BY DEF Carry!Exit
<1>3. CASE ~isolated \/ Carry!HelperKey(mode, "buy") \in cached
  BY <1>1, <1>2, <1>3, BothLeave DEF Carry!Exit
<1>4. CASE ~(~isolated \/ Carry!HelperKey(mode, "buy") \in cached)
  BY <1>1, <1>2, <1>4, SpotLeaves DEF Carry!Exit
<1> QED BY <1>3, <1>4

(* What a check may end in, for either carry.                              *)
LEMMA CheckCases ==
  ASSUME Carry!Check
  PROVE  \/ ~has /\ (Carry!Enter(Carry!CarrySizes) \/ Carry!SkipEntry)
         \/ has /\ Carry!Exit
         \/ Carry!Hold
<1>1. PICK rate \in 0..MaxRate : Carry!CarryCheck(rate) \/ Carry!BasisCheck(rate)
  BY DEF Carry!Check
<1>2. CASE Carry!CarryCheck(rate)
  BY <1>2 DEF Carry!CarryCheck, Carry!FundingCarryDecision, Carry!CarryEnter, Carry!CarryExit
<1>3. CASE Carry!BasisCheck(rate)
  BY <1>3 DEF Carry!BasisCheck, Carry!BasisDecision, Carry!BasisEnter, Carry!BasisExit, Carry!BasisSizes
<1> QED BY <1>1, <1>2, <1>3

(* The whole check.                                                        *)
LEMMA CheckPreserves == ASSUME CarryInv, Carry!Check PROVE CarryInv'
<1>1. task = "fetch" /\ UNCHANGED <<Carry!fixed, Carry!posMode, Carry!held>>
  BY DEF Carry!Check
<1>2. CASE ~has /\ (Carry!Enter(Carry!CarrySizes) \/ Carry!SkipEntry)
  BY <1>1, <1>2, EnterPreserves
<1>3. CASE has /\ Carry!Exit
  BY <1>1, <1>3, ExitPreserves
<1>4. CASE Carry!Hold
  <2>1. Waits' /\ UNCHANGED <<kind, isolated, hedged>>
    BY <1>1, <1>4 DEF CarryInv, Waits, Carry!Hold, Carry!fixed
  <2> QED BY <1>1, <1>4, <2>1, Unmoved DEF Carry!Hold, CarryInv, Types, Carry!Tasks
<1> QED BY <1>2, <1>3, <1>4, CheckCases

(* The answers of the service to an entry that waits, and to others.       *)
LEMMA ModePreserves == ASSUME CarryInv, Carry!ModeAnswered PROVE CarryInv'
<1>1. /\ task = "mode" /\ Carry!EnsureFirst(plan, mode')
      /\ UNCHANGED <<kind, isolated, hedged, Carry!held, mishap, oneLegged>>
  BY DEF Carry!ModeAnswered, Carry!fixed
<1>2. legs = {} /\ plan \in 1..MaxRaw /\ Carry!Floor(plan) > 0 /\ ~has
  BY <1>1 DEF CarryInv, Orders, Believed
<1> QED BY <1>1, <1>2, EnsurePreserves

LEMMA LeverPreserves == ASSUME CarryInv, Carry!LeverAnswered PROVE CarryInv'
<1>1. /\ task = "lever"
      /\ UNCHANGED <<kind, isolated, hedged, mode, Carry!held, mishap, oneLegged>>
  BY DEF Carry!LeverAnswered, Carry!fixed, Carry!posMode
<1>2. legs = {} /\ plan \in 1..MaxRaw /\ Carry!Floor(plan) > 0 /\ ~has
      /\ (replaced \/ key = Carry!HelperKey(mode, "sell"))
  BY <1>1 DEF CarryInv, Orders, Believed, Waits
<1>3. CASE /\ task' = "idle" /\ plan' = 0 /\ replaced' = FALSE
           /\ UNCHANGED <<Carry!book, legs>>
  <2>1. Waits' /\ task' \in Carry!Tasks /\ plan' \in 0..MaxRaw
    BY <1>1, <1>3, Sizes DEF CarryInv, Waits, Carry!Tasks
  <2> QED BY <1>1, <1>3, <2>1, Unmoved
<1>4. CASE cached' = cached \cup {key} /\ Carry!SubmitPair(plan, mode, cached')
  <2>1. replaced \/ Carry!HelperKey(mode, "sell") \in cached'
    BY <1>2, <1>4
  <2> QED BY <1>1, <1>2, <1>4, <2>1, SubmitPreserves
<1> QED BY <1>3, <1>4 DEF Carry!LeverAnswered

LEMMA OtherPreserves ==
  ASSUME CarryInv, Carry!OtherAsks \/ Carry!OtherAnswered \/ Carry!OtherStrategy
  PROVE  CarryInv'
<1>1. UNCHANGED <<kind, isolated, hedged, Carry!book, task, plan, key, legs, Carry!held, mishap, oneLegged>>
  BY DEF Carry!OtherAsks, Carry!OtherAnswered, Carry!OtherStrategy, Carry!fixed
<1>2. /\ replaced' \in BOOLEAN /\ (replaced => replaced')
      /\ (task = "lever" /\ mode' # mode) => replaced'
  <2>1. replaced \in BOOLEAN
    BY DEF CarryInv, Types
  <2>2. CASE Carry!OtherAsks \/ Carry!OtherStrategy
    BY <2>1, <2>2 DEF Carry!OtherAsks, Carry!OtherStrategy, Carry!posMode
  <2>3. CASE Carry!OtherAnswered
    <3>1. replaced' = (replaced \/ (task = "lever" /\ mode' # mode))
      BY <2>3 DEF Carry!OtherAnswered
    <3> QED BY <2>1, <3>1
  <2> QED BY <2>2, <2>3
<1>3. Waits'
  BY <1>1, <1>2 DEF CarryInv, Waits, Carry!HelperKey
<1> QED BY <1>1, <1>2, <1>3, Unmoved DEF CarryInv, Types, Orders, Believed

-----------------------------------------------------------------------------
(* A start without position has the invariant.                             *)
LEMMA InitCarry == ASSUME Carry!Init PROVE CarryInv
<1>1. Carry!Quiet /\ kind \in {"carry", "basis"} /\ isolated \in BOOLEAN
      /\ hedged \in BOOLEAN /\ mishap = FALSE
  BY DEF Carry!Init, Carry!CarryInit, Carry!BasisInit
<1>2. Carry!Floor(0) = 0 /\ 0 \in 0..MaxRaw
  BY FloorBounds, Sizes
<1>3. Types
  <2>1. /\ has = FALSE /\ spotQty = 0 /\ perpQty = 0 /\ plan = 0 /\ spot = 0 /\ perp = 0
        /\ replaced = FALSE /\ oneLegged = FALSE /\ task = "idle"
    BY <1>1 DEF Carry!Quiet
  <2>2. kind \in {"carry", "basis"} /\ isolated \in BOOLEAN /\ hedged \in BOOLEAN
    BY <1>1
  <2>3. mishap \in BOOLEAN /\ replaced \in BOOLEAN /\ oneLegged \in BOOLEAN /\ has \in BOOLEAN
    BY <1>1, <2>1
  <2> QED BY <1>2, <2>1, <2>2, <2>3 DEF Types, Carry!Tasks
<1>4. Believed /\ Orders /\ Waits
  BY <1>1, <1>2 DEF Believed, Orders, Waits, Carry!Quiet
<1>5. Coming("spot", spot, SpotTarget) /\ Coming("perp", perp, 0 - Carry!Floor(perpQty))
  BY <1>1, <1>2 DEF Coming, SpotTarget, Carry!Quiet
<1> QED BY <1>3, <1>4, <1>5 DEF CarryInv

(* Every step keeps it.                                                    *)
LEMMA NextCarry == ASSUME CarryInv, Carry!Next PROVE CarryInv'
<1>1. CASE Carry!Bar
  <2>1. \/ UNCHANGED task
        \/ task = "idle" /\ legs = {} /\ task' = "fetch"
    BY <1>1 DEF Carry!Bar, Carry!CarryBar, Carry!BasisBar, Carry!StartCheck
  <2>2. UNCHANGED <<kind, isolated, hedged, Carry!book, plan, key, mode, legs, Carry!held,
                    mishap, replaced, oneLegged>>
    BY <1>1 DEF Carry!Bar, Carry!fixed, Carry!posMode
  <2>3. Waits'
    BY <2>1, <2>2 DEF CarryInv, Waits, Carry!HelperKey
  <2>4. CASE UNCHANGED task
    BY <2>2, <2>3, <2>4, Unmoved DEF CarryInv, Types, Orders, Believed
  <2>5. CASE task = "idle" /\ legs = {} /\ task' = "fetch"
    BY <2>2, <2>3, <2>5, Unmoved DEF CarryInv, Types, Carry!Tasks
  <2> QED BY <2>1, <2>4, <2>5
<1>2. CASE Carry!FetchFails
  <2>1. Waits' /\ UNCHANGED <<kind, isolated, hedged>>
    BY <1>2 DEF Carry!FetchFails, CarryInv, Waits, Carry!fixed
  <2> QED BY <1>2, <2>1, Unmoved DEF Carry!FetchFails, CarryInv, Types, Carry!Tasks
<1>3. CASE Carry!Check
  BY <1>3, CheckPreserves
<1>4. CASE Carry!ModeAnswered
  BY <1>4, ModePreserves
<1>5. CASE Carry!LeverAnswered
  BY <1>5, LeverPreserves
<1>6. CASE Carry!HelperAnswered
  BY <1>6, HelperPreserves
<1>7. CASE Carry!UnwindAnswered
  BY <1>7, UnwindPreserves
<1>8. CASE Carry!OtherAsks \/ Carry!OtherAnswered \/ Carry!OtherStrategy
  BY <1>8, OtherPreserves
<1>9. CASE Carry!VenueStep
  BY <1>9, VenuePreserves
<1> QED BY <1>1, <1>2, <1>3, <1>4, <1>5, <1>6, <1>7, <1>8, <1>9 DEF Carry!Next

-----------------------------------------------------------------------------
(* The straddle seller.  One order of each leg at most is on its way, and  *)
(* with it the account holds what is believed; a check begins with none.   *)
Belief(l) == IF l = "perp" THEN perpPos ELSE 0 - qty

Arrives(l) ==
  /\ \A o, p \in orders : o.leg = l /\ p.leg = l => o = p
  /\ \A o \in orders : o.leg = l => account[l] + o.size = Belief(l)
  /\ (\A o \in orders : o.leg # l) => account[l] = Belief(l)

OptionInv ==
  /\ Option!OptionTypeOK /\ account \in [Option!Legs -> Int]
  /\ checking => orders = {}
  /\ ~mishap => \A l \in Option!Legs : Arrives(l)

LEMMA Bounds ==
  /\ MaxQty \in Nat \ {0} /\ Threshold \in Nat /\ HedgeGap \in Nat
  /\ CloseDays \in Nat /\ MaxPerp \in Nat /\ MaxSold \in Nat /\ MaxDays \in Nat
BY OptionAssumption, CarryAssumption

(* With no order on its way, the account is what is believed.              *)
LEMMA AtRest ==
  ASSUME OptionInv, orders = {}, ~mishap, NEW l \in Option!Legs
  PROVE  account[l] = Belief(l)
BY DEF OptionInv, Arrives

(* Facts of arithmetic, in the form that primed variables need them.       *)
LEMMA Differences ==
  \A x, y \in Int : /\ x - 0 = x /\ y - x \in Int /\ x + (y - x) = y /\ (y - x = 0 <=> y = x)
                   /\ x + (0 - x) = 0 /\ 0 - x \in Int /\ (0 - x = 0 <=> x = 0)
                   /\ (x + y) - x = y /\ x + y \in Int /\ (x + y = x <=> y = 0)
OBVIOUS

(* The order, if any, that brings a hedge to the position that is written. *)
HedgeFrom(position) ==
  IF perpPos' = position THEN {}
  ELSE {Option!Order("perp", perpPos' - position, FALSE)}

(* A hedge that is sent brings the position that is written.               *)
LEMMA HedgeEffect ==
  ASSUME NEW position \in Int, NEW net \in Int, NEW sent, orders = {}, hedgeAge \in 0..HedgeGap,
         position \in -MaxPerp..MaxPerp, Option!HedgeToNeutral(position, net, sent)
  PROVE  /\ perpPos' \in -MaxPerp..MaxPerp /\ hedgeAge' \in 0..HedgeGap
         /\ orders' = sent \cup HedgeFrom(position)
<1> DEFINE diff == Option!HedgeTarget(net) - position
<1>1. diff \in Int
  BY DEF Option!HedgeTarget
<1>2. CASE hedgeAge < HedgeGap \/ diff = 0
  BY <1>2 DEF Option!HedgeToNeutral, HedgeFrom
<1>3. CASE ~(hedgeAge < HedgeGap \/ diff = 0)
  <2>1. /\ Option!Abs(position + diff) <= MaxPerp
        /\ perpPos' = position + diff /\ hedgeAge' = 0
        /\ orders' = sent \cup {Option!Order("perp", diff, FALSE)}
    BY <1>3 DEF Option!HedgeToNeutral
  <2> HIDE DEF diff
  <2>2. position + diff \in -MaxPerp..MaxPerp
    BY <1>1, <2>1, Bounds DEF Option!Abs
  <2>3. perpPos' # position /\ perpPos' - position = diff
    BY <1>1, <1>3, <2>1, Differences
  <2>4. HedgeFrom(position) = {Option!Order("perp", diff, FALSE)}
    BY <2>3 DEF HedgeFrom
  <2>5. 0 \in 0..HedgeGap
    BY Bounds
  <2>6. perpPos' \in -MaxPerp..MaxPerp
    BY <2>1, <2>2
  <2> QED BY <2>1, <2>4, <2>5, <2>6
<1> QED BY <1>2, <1>3

(* Both legs leave, with their first hedge or without one.                 *)
LEMMA OpenPreserves ==
  ASSUME OptionInv, checking, ~sold, NEW n \in 1..MaxQty, NEW d \in -1..1,
         rounds < MaxSold, Option!OpenStraddle(n, d), checking' = FALSE, delta' = d,
         UNCHANGED <<kind, account, mishap>>
  PROVE  OptionInv'
<1> DEFINE sent == {Option!Order("call", 0 - n, FALSE), Option!Order("put", 0 - n, FALSE)}
<1>1. orders = {} /\ qty = 0 /\ perpPos = 0 /\ hedgeAge \in 0..HedgeGap
  BY Bounds DEF OptionInv, Option!OptionTypeOK
<1>2. n \in Int /\ n > 0 /\ n <= MaxQty /\ -n = 0 - n
  BY Bounds
<1>3. -n * d \in Int
  BY <1>2
<1>4. /\ sold' = TRUE /\ qty' = n /\ days' = MaxDays /\ rounds' = rounds + 1
      /\ Option!HedgeToNeutral(perpPos, -n * d, sent)
  BY <1>2 DEF Option!OpenStraddle
<1>5. perpPos \in Int /\ perpPos \in -MaxPerp..MaxPerp
  BY <1>1, Bounds
<1>6. /\ perpPos' \in -MaxPerp..MaxPerp /\ hedgeAge' \in 0..HedgeGap
      /\ orders' = sent \cup HedgeFrom(perpPos)
  <2> HIDE DEF sent
  <2> DEFINE net == -n * d
  <2>1. net \in Int /\ Option!HedgeToNeutral(perpPos, net, sent)
    BY <1>3, <1>4
  <2> HIDE DEF net
  <2> QED BY <1>1, <1>5, <2>1, HedgeEffect
<1>7. \A o \in orders' :
        \/ o = Option!Order("call", 0 - n, FALSE)
        \/ o = Option!Order("put", 0 - n, FALSE)
        \/ o = Option!Order("perp", perpPos', FALSE) /\ perpPos' \in Int \ {0}
  <2>1. perpPos' \in Int
    BY <1>6, Bounds
  <2>2. perpPos' - 0 = perpPos'
    BY <2>1, Differences
  <2> QED BY <1>1, <1>6, <2>1, <2>2 DEF HedgeFrom
<1>8. Option!OptionTypeOK'
  <2>1. \A o \in orders' : o.leg \in Option!Legs /\ o.size \in Int \ {0}
    BY <1>2, <1>7 DEF Option!Order, Option!Legs
  <2>2. rounds' \in 0..MaxSold /\ days' \in 0..MaxDays /\ qty' \in 0..MaxQty
    BY <1>2, <1>4, Bounds DEF OptionInv, Option!OptionTypeOK
  <2> QED BY <1>2, <1>4, <1>6, <2>1, <2>2 DEF OptionInv, Option!OptionTypeOK
<1>9. ~mishap' => \A l \in Option!Legs : Arrives(l)'
  <2> SUFFICES ASSUME ~mishap, NEW l \in Option!Legs PROVE Arrives(l)'
    OBVIOUS
  <2>1. account[l] = 0
    <3>1. account[l] = Belief(l)
      BY <1>1, AtRest
    <3> QED BY <1>1, <3>1 DEF Belief
  <2>2. account'[l] = 0
    BY <2>1
  <2>3. Belief(l)' = IF l = "perp" THEN perpPos' ELSE 0 - n
    BY <1>4 DEF Belief
  <2>4. l = "call" => Option!Order("call", 0 - n, FALSE) \in orders'
    BY <1>6
  <2>5. l = "put" => Option!Order("put", 0 - n, FALSE) \in orders'
    BY <1>6
  <2>6. l = "perp" => perpPos' = 0 \/ Option!Order("perp", perpPos', FALSE) \in orders'
    <3>1. perpPos' \in Int
      BY <1>6, Bounds
    <3>2. perpPos' - 0 = perpPos'
      BY <3>1, Differences
    <3> QED BY <1>1, <1>6, <3>1, <3>2 DEF HedgeFrom
  <2>7. \A o \in orders' : o.leg = l => account'[l] + o.size = Belief(l)'
    BY <1>2, <1>7, <2>2, <2>3 DEF Option!Order
  <2>8. \A o, p \in orders' : o.leg = l /\ p.leg = l => o = p
    <3>1. \A o \in orders' :
            /\ o.leg = "call" => o = Option!Order("call", 0 - n, FALSE)
            /\ o.leg = "put" => o = Option!Order("put", 0 - n, FALSE)
            /\ o.leg = "perp" => o = Option!Order("perp", perpPos', FALSE)
      BY <1>7 DEF Option!Order
    <3> QED BY <3>1 DEF Option!Legs
  <2>9. (\A o \in orders' : o.leg # l) => account'[l] = Belief(l)'
    BY <2>2, <2>3, <2>4, <2>5, <2>6 DEF Option!Order, Option!Legs
  <2> QED BY <2>7, <2>8, <2>9 DEF Arrives
<1> QED BY <1>8, <1>9 DEF OptionInv

(* Everything is on its way back.                                          *)
LEMMA ClosePreserves ==
  ASSUME OptionInv, checking, sold, Option!CloseAll, checking' = FALSE, delta' \in -1..1,
         UNCHANGED <<kind, account, mishap>>
  PROVE  OptionInv'
<1>1. orders = {} /\ qty \in 1..MaxQty /\ perpPos \in Int /\ -perpPos = 0 - perpPos
  BY Bounds DEF OptionInv, Option!OptionTypeOK
<1>2. sold' = FALSE /\ qty' = 0 /\ perpPos' = 0 /\ days' = 0 /\ UNCHANGED <<hedgeAge, rounds>>
  BY DEF Option!CloseAll
<1>3. orders' = {Option!Order("call", qty, TRUE), Option!Order("put", qty, TRUE)}
                \cup (IF perpPos = 0 THEN {} ELSE {Option!Order("perp", 0 - perpPos, TRUE)})
  BY <1>1 DEF Option!CloseAll
<1>4. \A o \in orders' :
        \/ o = Option!Order("call", qty, TRUE)
        \/ o = Option!Order("put", qty, TRUE)
        \/ o = Option!Order("perp", 0 - perpPos, TRUE) /\ perpPos # 0
  BY <1>3
<1>5. Option!OptionTypeOK'
  <2>1. \A o \in orders' : o.leg \in Option!Legs /\ o.size \in Int \ {0}
    BY <1>1, <1>4 DEF Option!Order, Option!Legs
  <2>2. /\ 0 \in 0..MaxQty /\ 0 \in -MaxPerp..MaxPerp /\ 0 \in 0..MaxDays
        /\ (sold' <=> qty' > 0)
    BY <1>2, Bounds
  <2> QED BY <1>2, <2>1, <2>2 DEF OptionInv, Option!OptionTypeOK
<1>6. ~mishap' => \A l \in Option!Legs : Arrives(l)'
  <2> SUFFICES ASSUME ~mishap, NEW l \in Option!Legs PROVE Arrives(l)'
    OBVIOUS
  <2>1. account'[l] = IF l = "perp" THEN perpPos ELSE 0 - qty
    BY <1>1, AtRest DEF Belief
  <2>2. Belief(l)' = 0
    BY <1>2 DEF Belief
  <2>3. \A o \in orders' : o.leg = l => account'[l] + o.size = 0
    BY <1>1, <1>4, <2>1 DEF Option!Order
  <2>4. \A o, p \in orders' : o.leg = l /\ p.leg = l => o = p
    <3>1. \A o \in orders' :
            /\ o.leg = "call" => o = Option!Order("call", qty, TRUE)
            /\ o.leg = "put" => o = Option!Order("put", qty, TRUE)
            /\ o.leg = "perp" => o = Option!Order("perp", 0 - perpPos, TRUE)
      BY <1>4 DEF Option!Order
    <3> QED BY <3>1 DEF Option!Legs
  <2>5. (\A o \in orders' : o.leg # l) => account'[l] = 0
    <3>1. /\ Option!Order("call", qty, TRUE) \in orders'
          /\ Option!Order("put", qty, TRUE) \in orders'
          /\ perpPos # 0 => Option!Order("perp", 0 - perpPos, TRUE) \in orders'
      BY <1>3
    <3> QED BY <2>1, <3>1 DEF Option!Order, Option!Legs
  <2> QED BY <2>2, <2>3, <2>4, <2>5 DEF Arrives
<1> QED BY <1>5, <1>6 DEF OptionInv

(* The hedge is adjusted, or the straddle is left as it is.                *)
LEMMA HoldPreserves ==
  ASSUME OptionInv, checking, checking' = FALSE, delta' \in -1..1,
         \/ sold /\ \E net \in Int : Option!HedgeToNeutral(perpPos, net, {})
         \/ UNCHANGED <<perpPos, hedgeAge, orders>>,
         UNCHANGED <<kind, sold, qty, days, rounds, account, mishap>>
  PROVE  OptionInv'
<1>1. orders = {} /\ perpPos \in Int /\ perpPos \in -MaxPerp..MaxPerp /\ hedgeAge \in 0..HedgeGap
  BY Bounds DEF OptionInv, Option!OptionTypeOK
<1>2. CASE UNCHANGED <<perpPos, hedgeAge, orders>>
  BY <1>1, <1>2 DEF OptionInv, Option!OptionTypeOK, Arrives, Belief
<1>3. CASE sold /\ \E net \in Int : Option!HedgeToNeutral(perpPos, net, {})
  <2>1. /\ perpPos' \in -MaxPerp..MaxPerp /\ hedgeAge' \in 0..HedgeGap
        /\ orders' = HedgeFrom(perpPos)
    BY <1>1, <1>3, HedgeEffect
  <2>2. \A o \in orders' :
          o = Option!Order("perp", perpPos' - perpPos, FALSE) /\ perpPos' - perpPos \in Int \ {0}
    <3>1. perpPos' \in Int
      BY <2>1, Bounds
    <3>2. perpPos' # perpPos => perpPos' - perpPos \in Int \ {0}
      BY <1>1, <3>1, Differences
    <3> QED BY <2>1, <3>2 DEF HedgeFrom
  <2>3. orders' = {} => perpPos' = perpPos
    BY <2>1 DEF HedgeFrom
  <2>4. \A o, p \in orders' : o = p
    BY <2>1 DEF HedgeFrom
  <2>5. Option!OptionTypeOK'
    <3>1. \A o \in orders' : o.leg \in Option!Legs /\ o.size \in Int \ {0}
      BY <2>2 DEF Option!Order, Option!Legs
    <3> QED BY <1>3, <2>1, <3>1 DEF OptionInv, Option!OptionTypeOK
  <2>6. ~mishap' => \A l \in Option!Legs : Arrives(l)'
    <3> SUFFICES ASSUME ~mishap, NEW l \in Option!Legs PROVE Arrives(l)'
      OBVIOUS
    <3>1. account'[l] = IF l = "perp" THEN perpPos ELSE 0 - qty
      BY <1>1, AtRest DEF Belief
    <3>2. Belief(l)' = IF l = "perp" THEN perpPos' ELSE 0 - qty
      BY DEF Belief
    <3>3. \A o \in orders' : o.leg = l => account'[l] + o.size = Belief(l)'
      <4>1. perpPos' \in Int
        BY <2>1, Bounds
      <4>2. perpPos + (perpPos' - perpPos) = perpPos'
        BY <1>1, <4>1, Differences
      <4> QED BY <2>2, <3>1, <3>2, <4>2 DEF Option!Order
    <3>4. (\A o \in orders' : o.leg # l) => account'[l] = Belief(l)'
      BY <2>2, <2>3, <3>1, <3>2 DEF Option!Order
    <3> QED BY <2>4, <3>3, <3>4 DEF Arrives
  <2> QED BY <2>5, <2>6 DEF OptionInv
<1> QED BY <1>2, <1>3

(* The whole check.                                                        *)
LEMMA CheckOptionsPreserves == ASSUME OptionInv, Option!CheckOptions PROVE OptionInv'
<1>1. checking /\ checking' = FALSE /\ UNCHANGED <<kind, account, mishap>>
  BY DEF Option!CheckOptions
<1>2. PICK d \in -1..1, far \in BOOLEAN :
        /\ delta' = d
        /\ IF ~sold THEN Option!MaybeEnter(d) ELSE Option!ManagePosition(d, far)
  BY DEF Option!CheckOptions
<1>3. CASE ~sold
  <2>1. CASE Option!NoEntry
    BY <1>1, <1>2, <2>1, HoldPreserves DEF Option!NoEntry
  <2>2. CASE rounds < MaxSold /\ \E n \in 1..MaxQty : Option!OpenStraddle(n, d)
    BY <1>1, <1>2, <1>3, <2>2, OpenPreserves
  <2> QED BY <1>2, <1>3, <2>1, <2>2 DEF Option!MaybeEnter
<1>4. CASE sold
  <2>1. CASE Option!CloseAll
    BY <1>1, <1>2, <1>4, <2>1, ClosePreserves
  <2>2. CASE ~Option!CloseAll
    <3>1. -qty * d + perpPos \in Int
      <4>1. qty \in Int /\ d \in Int /\ perpPos \in Int
        BY <1>2, Bounds DEF OptionInv, Option!OptionTypeOK
      <4> QED BY <4>1
    <3>2. /\ \/ Option!HedgeToNeutral(perpPos, -qty * d + perpPos, {})
             \/ UNCHANGED <<perpPos, hedgeAge, orders>>
          /\ UNCHANGED <<sold, qty, days, rounds>>
      BY <1>2, <1>4, <2>2 DEF Option!ManagePosition
    <3> QED BY <1>1, <1>2, <1>4, <3>1, <3>2, HoldPreserves
  <2> QED BY <2>1, <2>2
<1> QED BY <1>3, <1>4, <1>2 DEF OptionInv, Option!OptionTypeOK

(* The venue fills an order, whole or not.                                 *)
LEMMA FillPreserves == ASSUME OptionInv, Option!OptionFill PROVE OptionInv'
<1>1. PICK o \in orders, n \in -MaxPerp*2..MaxPerp*2 :
        /\ orders' = orders \ {o}
        /\ account' = [account EXCEPT ![o.leg] = @ + n]
        /\ mishap' = (mishap \/ n # o.size)
  BY DEF Option!OptionFill
<1>2. UNCHANGED <<kind, sold, qty, perpPos, days, hedgeAge, checking, delta, rounds>>
  BY DEF Option!OptionFill
<1>3. o.leg \in Option!Legs /\ o.size \in Int /\ n \in Int
  BY Bounds DEF OptionInv, Option!OptionTypeOK
<1>4. /\ account' \in [Option!Legs -> Int]
      /\ account'[o.leg] = account[o.leg] + n
      /\ \A l \in Option!Legs : l # o.leg => account'[l] = account[l]
  BY <1>1, <1>3 DEF OptionInv
<1>5. Option!OptionTypeOK'
  <2>1. mishap' \in BOOLEAN /\ \A l \in Option!Legs : account'[l] \in Int
    BY <1>1, <1>4
  <2>2. \A p \in orders' : p.leg \in Option!Legs /\ p.size \in Int \ {0}
    BY <1>1 DEF OptionInv, Option!OptionTypeOK
  <2> QED BY <1>2, <2>1, <2>2 DEF OptionInv, Option!OptionTypeOK
<1>6. ~mishap' => \A l \in Option!Legs : Arrives(l)'
  <2> SUFFICES ASSUME ~mishap', NEW l \in Option!Legs PROVE Arrives(l)'
    OBVIOUS
  <2>1. ~mishap /\ n = o.size
    BY <1>1
  <2>2. Arrives(l) /\ Belief(l)' = Belief(l)
    BY <1>2, <2>1 DEF OptionInv, Belief
  <2>3. CASE l = o.leg
    BY <1>1, <1>4, <2>1, <2>2, <2>3 DEF Arrives
  <2>4. CASE l # o.leg
    BY <1>1, <1>4, <2>2, <2>4 DEF Arrives
  <2> QED BY <2>3, <2>4
<1>7. checking' => orders' = {}
  BY <1>1, <1>2 DEF OptionInv
<1> QED BY <1>4, <1>5, <1>6, <1>7 DEF OptionInv

LEMMA NextOption == ASSUME OptionInv, Option!Next PROVE OptionInv'
<1>1. CASE Option!OptionBar
  <2>1. UNCHANGED <<kind, sold, qty, perpPos, delta, orders, account, rounds, mishap>>
        /\ checking' = TRUE /\ orders = {}
    BY <1>1 DEF Option!OptionBar
  <2>2. hedgeAge' \in 0..HedgeGap /\ days' \in 0..MaxDays
    BY <1>1, Bounds DEF Option!OptionBar, OptionInv, Option!OptionTypeOK
  <2>3. Option!OptionTypeOK'
    BY <2>1, <2>2 DEF OptionInv, Option!OptionTypeOK
  <2> QED BY <2>1, <2>3 DEF OptionInv, Arrives, Belief
<1>2. CASE Option!ChainFails
  BY <1>2 DEF Option!ChainFails, OptionInv, Option!OptionTypeOK, Arrives, Belief
<1>3. CASE Option!CheckOptions
  BY <1>3, CheckOptionsPreserves
<1>4. CASE Option!OptionFill
  BY <1>4, FillPreserves
<1> QED BY <1>1, <1>2, <1>3, <1>4 DEF Option!Next
-----------------------------------------------------------------------------
(* One strategy runs; the variables of the other stay as they began.  What *)
(* waits for its leverage may still be counted as an entry.                *)
CarryRest ==
  /\ since \in 0..Every /\ days \in 0..MaxDays /\ rounds \in 0..MaxRounds
  /\ task \in {"mode", "lever", "helper"} => rounds < MaxRounds
  /\ key \in Carry!Keys /\ mode \in Carry!Modes /\ asking \in BOOLEAN
  /\ cached \subseteq Carry!Keys

StrategiesInv ==
  \/ /\ kind \in {"carry", "basis"}
     /\ CarryInv /\ CarryRest /\ Option!Quiet
  \/ /\ kind = "option"
     /\ OptionInv /\ Carry!Quiet /\ ~isolated

LEMMA KeysOfModes ==
  ASSUME NEW m, NEW side
  PROVE  Carry!HelperKey(m, side) \in Carry!Keys /\ Carry!EntryKey(m) \in Carry!Keys
BY DEF Carry!HelperKey, Carry!EntryKey, Carry!Keys

(* An entry that is sent, or that begins to wait.                          *)
LEMMA SubmitCounts ==
  ASSUME NEW n, NEW m, NEW keys, Carry!SubmitPair(n, m, keys) \/ Carry!EnsureFirst(n, m),
         rounds \in 0..MaxRounds, rounds < MaxRounds, key \in Carry!Keys
  PROVE  /\ rounds' \in 0..MaxRounds
         /\ task' \in {"mode", "lever", "helper"} => rounds' < MaxRounds
         /\ key' \in Carry!Keys
<1>1. \/ task' = "idle" /\ rounds' = rounds + 1
      \/ task' \in {"helper", "lever"} /\ rounds' = rounds
  BY DEF Carry!SubmitPair, Carry!EnsureFirst, Carry!Opened
<1>2. key' = "net" \/ key' = Carry!HelperKey(m, "sell") \/ key' = Carry!EntryKey(m)
  BY DEF Carry!SubmitPair, Carry!EnsureFirst
<1>3. key' \in Carry!Keys
  BY <1>2, KeysOfModes DEF Carry!Keys
<1> QED BY <1>1, <1>3, CarryAssumption

LEMMA RestPreserves ==
  ASSUME CarryInv, CarryRest, Carry!Next
  PROVE  CarryRest' /\ kind' = kind
<1>1. kind' = kind
  BY DEF Carry!Next, Carry!Bar, Carry!FetchFails, Carry!Check, Carry!ModeAnswered,
     Carry!LeverAnswered, Carry!HelperAnswered, Carry!UnwindAnswered, Carry!OtherAsks,
     Carry!OtherAnswered, Carry!OtherStrategy, Carry!VenueStep, Carry!fixed
<1>2. Carry!LookedUp \subseteq Carry!Modes
  BY DEF Carry!LookedUp, Carry!Modes
<1>3. CASE Carry!Bar
  <2>1. UNCHANGED <<rounds, key, mode, asking, cached>>
    BY <1>3 DEF Carry!Bar, Carry!posMode
  <2>2. /\ since' \in 0..Every
        /\ task' = task \/ task' = "fetch"
    BY <1>3, CarryAssumption
    DEF Carry!Bar, Carry!CarryBar, Carry!BasisBar, Carry!StartCheck, CarryRest
  <2>3. days' \in 0..MaxDays
    BY <1>3, CarryAssumption DEF Carry!Bar, Carry!CarryBar, Carry!BasisBar, CarryRest
  <2> QED BY <1>1, <2>1, <2>2, <2>3 DEF CarryRest
<1>4. CASE Carry!FetchFails
  BY <1>1, <1>4 DEF Carry!FetchFails, CarryRest, Carry!posMode
<1>5. CASE Carry!Check
  <2>1. UNCHANGED <<since, days, mode, asking>> /\ task = "fetch"
    BY <1>5 DEF Carry!Check, Carry!posMode
  <2>2. CASE Carry!SkipEntry \/ Carry!Hold
    <3>1. UNCHANGED <<rounds, cached, key>> /\ task' = "idle"
      BY <2>2 DEF Carry!SkipEntry, Carry!Hold
    <3> QED BY <1>1, <2>1, <3>1 DEF CarryRest
  <2>3. CASE Carry!Exit
    <3>1. UNCHANGED <<rounds, cached>> /\ task' \in {"idle", "unwind"}
          /\ (key' = key \/ key' = Carry!HelperKey(mode, "buy"))
      BY <2>3 DEF Carry!Exit
    <3> QED BY <1>1, <2>1, <3>1, KeysOfModes DEF CarryRest
  <2>4. CASE Carry!Enter(Carry!CarrySizes)
    <3>1. rounds < MaxRounds /\ cached' = cached
      BY <2>4 DEF Carry!Enter
    <3>2. PICK n \in Carry!CarrySizes :
            \/ Carry!SubmitPair(n, mode, cached) \/ Carry!EnsureFirst(n, mode)
            \/ rounds' = rounds /\ key' = key
      BY <2>4 DEF Carry!Enter
    <3>3. CASE Carry!SubmitPair(n, mode, cached) \/ Carry!EnsureFirst(n, mode)
      <4>1. /\ rounds' \in 0..MaxRounds
            /\ task' \in {"mode", "lever", "helper"} => rounds' < MaxRounds
            /\ key' \in Carry!Keys
        BY <3>1, <3>3, SubmitCounts DEF CarryRest
      <4> QED BY <1>1, <2>1, <3>1, <4>1 DEF CarryRest
    <3>4. CASE rounds' = rounds /\ key' = key
      BY <1>1, <2>1, <3>1, <3>4 DEF CarryRest
    <3> QED BY <3>2, <3>3, <3>4
  <2> QED BY <1>5, <2>2, <2>3, <2>4, CheckCases
<1>6. CASE Carry!ModeAnswered
  <2>1. UNCHANGED <<since, days, asking, cached>> /\ task = "mode" /\ mode' \in Carry!Modes
        /\ Carry!EnsureFirst(plan, mode')
    BY <1>2, <1>6 DEF Carry!ModeAnswered
  <2>2. /\ rounds' \in 0..MaxRounds
        /\ task' \in {"mode", "lever", "helper"} => rounds' < MaxRounds
        /\ key' \in Carry!Keys
    BY <2>1, SubmitCounts DEF CarryRest
  <2> QED BY <1>1, <2>1, <2>2 DEF CarryRest
<1>7. CASE Carry!LeverAnswered
  <2>1. UNCHANGED <<since, days, mode, asking>> /\ task = "lever"
    BY <1>7 DEF Carry!LeverAnswered, Carry!posMode
  <2>2. cached' \subseteq Carry!Keys
    BY <1>7 DEF Carry!LeverAnswered, CarryRest
  <2>3. CASE task' = "idle" /\ key' = "net" /\ rounds' = rounds
    BY <1>1, <2>1, <2>2, <2>3 DEF CarryRest, Carry!Keys
  <2>4. CASE Carry!SubmitPair(plan, mode, cached')
    <3>1. /\ rounds' \in 0..MaxRounds
          /\ task' \in {"mode", "lever", "helper"} => rounds' < MaxRounds
          /\ key' \in Carry!Keys
      BY <2>1, <2>4, SubmitCounts DEF CarryRest
    <3> QED BY <1>1, <2>1, <2>2, <3>1 DEF CarryRest
  <2> QED BY <1>7, <2>3, <2>4 DEF Carry!LeverAnswered
<1>8. CASE Carry!HelperAnswered
  <2>1. UNCHANGED <<since, days, mode, asking>> /\ task = "helper" /\ task' = "idle"
        /\ rounds' = rounds + 1 /\ key' = "net"
    BY <1>8 DEF Carry!HelperAnswered, Carry!Opened, Carry!posMode
  <2>2. cached' \subseteq Carry!Keys
    BY <1>8 DEF Carry!HelperAnswered, CarryRest
  <2>3. rounds' \in 0..MaxRounds
    BY <2>1, CarryAssumption DEF CarryRest
  <2> QED BY <1>1, <2>1, <2>2, <2>3 DEF CarryRest, Carry!Keys
<1>9. CASE Carry!UnwindAnswered
  <2>1. UNCHANGED <<since, days, mode, asking, rounds>> /\ task' = "idle" /\ key' = "net"
    BY <1>9 DEF Carry!UnwindAnswered, Carry!posMode
  <2>2. cached' \subseteq Carry!Keys
    BY <1>9 DEF Carry!UnwindAnswered, CarryRest
  <2> QED BY <1>1, <2>1, <2>2 DEF CarryRest, Carry!Keys
<1>10. CASE Carry!OtherAsks
  BY <1>1, <1>10 DEF Carry!OtherAsks, CarryRest
<1>11. CASE Carry!OtherAnswered
  BY <1>1, <1>2, <1>11 DEF Carry!OtherAnswered, CarryRest
<1>12. CASE Carry!OtherStrategy
  BY <1>1, <1>12 DEF Carry!OtherStrategy, CarryRest, Carry!posMode
<1>13. CASE Carry!VenueStep
  BY <1>1, <1>13 DEF Carry!VenueStep, CarryRest, Carry!posMode
<1> QED BY <1>1, <1>3, <1>4, <1>5, <1>6, <1>7, <1>8, <1>9, <1>10, <1>11, <1>12, <1>13
    DEF Carry!Next

LEMMA InitStrategies == Init => StrategiesInv
<1>1. ASSUME Carry!Init, Option!Quiet PROVE StrategiesInv
  <2>1. CarryInv
    BY <1>1, InitCarry
  <2>2. CarryRest /\ kind \in {"carry", "basis"}
    <3>1. /\ kind \in {"carry", "basis"} /\ task = "idle" /\ since = Every
          /\ days = MaxDays /\ rounds = 0
      BY <1>1 DEF Carry!Init, Carry!CarryInit, Carry!BasisInit, Carry!Quiet
    <3>2. /\ key \in Carry!Keys /\ mode \in Carry!Modes /\ asking \in BOOLEAN
          /\ cached \subseteq Carry!Keys
      BY <1>1 DEF Carry!Init, Carry!CarryInit, Carry!BasisInit, Carry!Quiet, Carry!Keys, Carry!Modes
    <3>3. since \in 0..Every /\ days \in 0..MaxDays /\ rounds \in 0..MaxRounds
      BY <3>1, CarryAssumption
    <3> QED BY <3>1, <3>2, <3>3 DEF CarryRest
  <2> QED BY <1>1, <2>1, <2>2 DEF StrategiesInv
<1>2. ASSUME Option!Init, Carry!Quiet, isolated = FALSE PROVE StrategiesInv
  <2>1. /\ kind = "option" /\ sold = FALSE /\ qty = 0 /\ perpPos = 0 /\ hedgeAge = HedgeGap
        /\ checking = FALSE /\ delta = 0 /\ orders = {} /\ days = 0 /\ rounds = 0
        /\ mishap = FALSE /\ account = [l \in Option!Legs |-> 0]
    BY <1>2 DEF Option!Init, Option!Quiet
  <2>2. Option!OptionTypeOK
    <3>1. /\ 0 \in 0..MaxQty /\ 0 \in -MaxPerp..MaxPerp /\ 0 \in 0..MaxDays
          /\ 0 \in 0..MaxSold /\ HedgeGap \in 0..HedgeGap /\ 0 \in -1..1
          /\ (sold <=> qty > 0) /\ (~sold => perpPos = 0)
      BY <2>1, Bounds
    <3>2. \A l \in Option!Legs : account[l] \in Int
      BY <2>1
    <3> QED BY <2>1, <3>1, <3>2 DEF Option!OptionTypeOK
  <2>3. \A l \in Option!Legs : Arrives(l)
    BY <2>1 DEF Arrives, Belief
  <2>4. OptionInv
    BY <2>1, <2>2, <2>3 DEF OptionInv
  <2> QED BY <1>2, <2>1, <2>4 DEF StrategiesInv
<1> QED BY <1>1, <1>2 DEF Init

LEMMA StrategiesStep == StrategiesInv /\ [Next]_vars => StrategiesInv'
<1> SUFFICES ASSUME StrategiesInv, [Next]_vars PROVE StrategiesInv'
  OBVIOUS
<1>1. CASE UNCHANGED vars
  <2>1. UNCHANGED <<carryOnly, optionOnly, kind, days, rounds, mishap>>
    BY <1>1 DEF vars
  <2>2. UNCHANGED <<Carry!book, Carry!held>>
    BY <2>1 DEF carryOnly, Carry!book, Carry!held
  <2>3. CarryInv => CarryInv'
    <3> SUFFICES ASSUME CarryInv PROVE CarryInv'
      OBVIOUS
    <3>1. UNCHANGED <<kind, isolated, hedged, legs, mishap, replaced, oneLegged, plan,
                      task, key, mode>>
      BY <2>1 DEF carryOnly
    <3>2. Waits'
      BY <3>1 DEF CarryInv, Waits, Carry!HelperKey
    <3> QED BY <2>2, <3>1, <3>2, Unmoved DEF CarryInv, Types, Orders, Believed
  <2>4. OptionInv => OptionInv'
    BY <2>1 DEF optionOnly, OptionInv, Option!OptionTypeOK, Arrives, Belief
  <2>5. /\ Carry!Quiet => Carry!Quiet'
        /\ Option!Quiet => Option!Quiet'
        /\ CarryRest => CarryRest'
    BY <2>1 DEF carryOnly, optionOnly, Carry!Quiet, Option!Quiet, CarryRest
  <2> QED BY <2>1, <2>3, <2>4, <2>5 DEF StrategiesInv, carryOnly
<1>2. CASE Carry!Next /\ UNCHANGED optionOnly
  <2>1. CASE kind = "option"
    <3>1. Carry!Quiet /\ ~isolated
      BY <2>1 DEF StrategiesInv
    <3> QED BY <1>2, <2>1, <3>1
        DEF Carry!Next, Carry!Bar, Carry!CarryBar, Carry!BasisBar, Carry!FetchFails, Carry!Check,
            Carry!ModeAnswered, Carry!LeverAnswered, Carry!HelperAnswered,
            Carry!UnwindAnswered, Carry!OtherAsks, Carry!OtherAnswered,
            Carry!OtherStrategy, Carry!VenueStep, Carry!Quiet
  <2>2. CASE kind # "option"
    <3>1. CarryInv /\ CarryRest /\ Option!Quiet /\ kind \in {"carry", "basis"}
      BY <2>2 DEF StrategiesInv
    <3>2. Option!Quiet'
      BY <1>2, <3>1 DEF Option!Quiet, optionOnly
    <3>3. CarryInv'
      BY <1>2, <3>1, NextCarry
    <3>4. CarryRest' /\ kind' = kind
      BY <1>2, <3>1, RestPreserves
    <3> QED BY <3>1, <3>2, <3>3, <3>4 DEF StrategiesInv
  <2> QED BY <2>1, <2>2
<1>3. CASE Option!Next /\ UNCHANGED carryOnly
  <2>1. CASE kind = "option"
    <3>1. OptionInv /\ Carry!Quiet /\ ~isolated
      BY <2>1 DEF StrategiesInv
    <3>2. OptionInv'
      BY <1>3, <3>1, NextOption
    <3>3. Carry!Quiet' /\ ~isolated'
      BY <1>3, <3>1 DEF Carry!Quiet, carryOnly
    <3>4. kind' = kind
      BY <1>3 DEF Option!Next, Option!OptionBar, Option!ChainFails, Option!CheckOptions,
         Option!OptionFill
    <3> QED BY <2>1, <3>2, <3>3, <3>4 DEF StrategiesInv
  <2>2. CASE kind # "option"
    <3>1. Option!Quiet
      BY <2>2 DEF StrategiesInv
    <3> QED BY <1>3, <2>2, <3>1
        DEF Option!Next, Option!OptionBar, Option!ChainFails, Option!CheckOptions,
            Option!OptionFill, Option!Quiet
  <2> QED BY <2>1, <2>2
<1> QED BY <1>1, <1>2, <1>3 DEF Next

LEMMA StrategiesInvariant == Spec => []StrategiesInv
BY InitStrategies, StrategiesStep, PTL DEF Spec

(* For every lot, size, threshold and bound the attributes keep their      *)
(* ranges: a carry is believed exactly when both of its sizes are          *)
(* positive, and there is a hedge only while a straddle is sold.           *)
THEOREM TypeCorrect == Spec => []StrategiesTypeOK
<1>1. ASSUME StrategiesInv, kind \in {"carry", "basis"} PROVE Carry!CarryTypeOK
  <2>1. CarryInv /\ CarryRest
    BY <1>1 DEF StrategiesInv
  <2>2. perpQty \in Nat
    BY <2>1, Sizes DEF CarryInv, Types
  <2>3. Carry!Floor(perpQty) \in 0..perpQty /\ Carry!Floor(0) = 0
    BY <2>2, FloorBounds
  <2>4. (has <=> Carry!Floor(perpQty) > 0) /\ (has <=> spotQty > 0)
    BY <2>1, <2>2, <2>3 DEF CarryInv, Believed
  <2>5. \A l \in legs : l.qty \in 1..MaxRaw
    BY <2>1 DEF CarryInv, Orders, Carry!Leg
  <2> QED BY <2>1, <2>4, <2>5 DEF CarryInv, Types, CarryRest, Carry!CarryTypeOK
<1>2. ASSUME StrategiesInv, kind = "option" PROVE Option!OptionTypeOK
  BY <1>2 DEF StrategiesInv, OptionInv
<1>3. StrategiesInv => StrategiesTypeOK
  BY <1>1, <1>2 DEF StrategiesTypeOK
<1> QED BY <1>3, StrategiesInvariant, PTL

(* Whatever the lot and the sizes, no entry of a carry sends its spot leg  *)
(* without its derivative leg (funding_carry and basis_arb, _enter_carry), *)
(* unless the posMode was replaced while it waited; and an account at rest *)
(* holds the position the strategy believes in, its legs less than a lot   *)
(* apart, unless a leg was refused, filled short or not sent.              *)
LEMMA CarryHeld == StrategiesInv => CarryStaysNeutral
<1>1. ASSUME StrategiesInv PROVE Carry!NeverOneLegged
  BY <1>1 DEF StrategiesInv, CarryInv, Waits, Carry!Quiet, Carry!NeverOneLegged
<1>2. ASSUME StrategiesInv PROVE Carry!LegsMatch
  <2> SUFFICES ASSUME legs = {}, task \notin {"helper", "unwind"}, ~mishap
               PROVE  /\ spot = spotQty /\ -perp = Carry!Floor(perpQty)
                      /\ spot + perp \in 0..(Lot - 1)
    BY DEF Carry!LegsMatch
  <2>1. spot = spotQty /\ perp = 0 - Carry!Floor(perpQty)
    <3>1. CASE kind = "option"
      BY <1>2, <3>1, FloorBounds DEF StrategiesInv, Carry!Quiet
    <3>2. CASE kind # "option"
      BY <1>2, <3>2 DEF StrategiesInv, CarryInv, Coming, SpotTarget
    <3> QED BY <3>1, <3>2
  <2>2. perpQty \in Nat /\ spotQty = perpQty /\ perp \in Int
    BY <1>2, Sizes DEF StrategiesInv, CarryInv, Types, Believed, Carry!Quiet
  <2>3. Carry!Floor(perpQty) \in 0..perpQty /\ perpQty - Carry!Floor(perpQty) \in 0..(Lot - 1)
    BY <2>2, FloorBounds
  <2>4. Carry!Floor(perpQty) \in Int
    BY <2>2, <2>3
  <2>5. -perp = Carry!Floor(perpQty)
    BY <2>1, <2>2, <2>4
  <2>6. spot + perp = perpQty - Carry!Floor(perpQty)
    BY <2>1, <2>2, <2>4
  <2> QED BY <2>1, <2>3, <2>5, <2>6
<1> QED BY <1>1, <1>2 DEF CarryStaysNeutral

(* Whatever is sold, hedged and bought back, at rest the account holds the *)
(* straddle and the hedge that option_vol_selling believes in, unless an   *)
(* order was refused or filled short.                                      *)
LEMMA StraddleHeld == StrategiesInv => StraddleMatchesAccount
<1> SUFFICES ASSUME StrategiesInv, kind = "option", orders = {}, ~mishap
             PROVE  account = [l \in Option!Legs |-> IF l = "perp" THEN perpPos ELSE -qty]
  BY DEF StraddleMatchesAccount, Option!StraddleMatches
<1>1. OptionInv
  BY DEF StrategiesInv
<1>2. -qty = 0 - qty
  BY <1>1, Bounds DEF OptionInv, Option!OptionTypeOK
<1>3. \A l \in Option!Legs : account[l] = IF l = "perp" THEN perpPos ELSE -qty
  BY <1>1, <1>2, AtRest DEF Belief
<1> QED BY <1>1, <1>3 DEF OptionInv

(* For every lot, size, threshold and number of rounds, an account at rest *)
(* holds what its strategy believes: the two legs of a carry less than a   *)
(* lot apart (funding_carry, basis_arb), or the straddle and its hedge     *)
(* (option_vol_selling), unless an order was not sent, refused or filled   *)
(* short; and no entry of a carry is one-legged while the margin service   *)
(* keeps its posMode.                                                      *)
THEOREM AccountHoldsBelief == Spec => []AccountsMatchBelief
<1>1. StrategiesInv => AccountsMatchBelief
  BY CarryHeld, StraddleHeld DEF AccountsMatchBelief
<1> QED BY <1>1, StrategiesInvariant, PTL
=============================================================================
