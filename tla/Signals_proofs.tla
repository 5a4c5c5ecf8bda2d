---------------------------- MODULE Signals_proofs ----------------------------
(***************************************************************************)
(* Proofs about MCSignals, for every value of its constants: the five      *)
(* directional strategies (what the account holds at rest is what the      *)
(* strategy tracks, and ob_imbalance does not churn), the choice of legs,  *)
(* the division of the equity and the price buffers.                       *)
(***************************************************************************)
EXTENDS MCSignals, TLAPS, FiniteSetTheorems, SequenceTheorems, WellFoundedInduction

(* The intervals below the members of S are ordered by inclusion, which    *)
(* has least elements.                                                     *)
LEMMA HasLeast ==
  ASSUME NEW S \in SUBSET Nat, S # {}
  PROVE  \E m \in S : \A n \in S : m <= n
<1> DEFINE T == {0..n : n \in S}
<1>1. T \subseteq FiniteSubsetsOf(Nat) /\ T # {}
  <2>1. \A n \in S : IsFiniteSet(0..n) /\ 0..n \subseteq Nat
    BY FS_Interval
  <2> QED BY <2>1 DEF FiniteSubsetsOf
<1> HIDE DEF T
<1>2. PICK t \in T : \A u \in T : <<u, t>> \notin StrictSubsetOrdering(Nat)
  BY <1>1, FS_StrictSubsetOrderingWellFounded, WFMin, Zenon
<1>3. PICK m \in S : t = 0..m
  BY DEF T
<1>4. \A n \in S : ~(n < m)
  <2> SUFFICES ASSUME NEW n \in S, n < m PROVE FALSE
    OBVIOUS
  <2>1. 0..n \in T /\ 0..n \in SUBSET Nat /\ 0..m \in SUBSET Nat
    BY DEF T
  <2>2. 0..n \subseteq 0..m /\ m \in 0..m /\ m \notin 0..n
    OBVIOUS
  <2>3. 0..n # 0..m
    BY <2>2
  <2> QED BY <1>2, <1>3, <2>1, <2>2, <2>3 DEF StrictSubsetOrdering
<1> QED BY <1>4

\* The margin mode of the entries; closes carry no tag.
EntryMode == IF isolated THEN "isolated" ELSE "cross"

\* The types of TypeOK, those of the book first.
BookTypes ==
  /\ isolated \in BOOLEAN /\ mishap \in BOOLEAN
  /\ active \in {0} \cup Dirs /\ contracts \in 0..MaxRaw /\ gen \in 0..MaxEntries
  /\ \A o \in orders \cup rejects :
       /\ o.role \in {"entry", "exit"} /\ o.dir \in Dirs
       /\ o.qty \in Lot..MaxRaw /\ o.qty % Lot = 0 /\ o.mode \in Modes /\ o.gen \in 1..MaxEntries
  /\ venue \in [Modes -> Int]

ControlTypes ==
  /\ kind \in Kinds /\ age \in 0..Hold /\ since \in 0..(Cool + Hold)
  /\ exitSign \in {0} \cup Dirs /\ flipped \in BOOLEAN
  /\ task \in {"idle", "fetch", "lever"} /\ wanted \in {0} \cup Dirs
  /\ feed \in BOOLEAN /\ lastDir \in {0} \cup Dirs /\ seenOpp \in BOOLEAN

\* A position is in one mode.
OneMode ==
  /\ \A o \in orders \cup rejects :
       o.mode = IF o.role = "entry" THEN EntryMode ELSE "cross"
  /\ \A m \in Modes : m # EntryMode => venue[m] = 0

\* An order bears the name of its position, and a position has one entry.
Named ==
  /\ \A o \in orders \cup rejects : o.gen <= gen
  /\ \A o, p \in orders \cup rejects :
       o.role = "entry" /\ p.role = "entry" /\ o.gen = p.gen => o = p
  /\ \A o \in orders : o.role = "entry" => o \notin rejects

\* A tracked position is worth a lot and has the size its entry asks for.
Tracked ==
  active # 0 =>
    /\ gen > 0 /\ SafeMakeQty(contracts) > 0
    /\ \A o \in orders \cup rejects :
         o.role = "entry" /\ o.gen = gen => o.dir = active /\ o.qty = SafeMakeQty(contracts)

\* Every unit of every position, to be counted.
Grid == (1..MaxEntries) \X (1..MaxRaw)

\* The units of direction d that a tracked position or a close under way will
\* take back, and those that an entry under way, or refused without the
\* strategy's knowing, has not brought.
Owed(d) ==
  {t \in Grid : \/ active = d /\ t[1] = gen /\ t[2] <= SafeMakeQty(contracts)
                \/ \E o \in orders : /\ o.role = "exit" /\ o.dir # d
                                     /\ t[1] = o.gen /\ t[2] <= o.qty}
Due(d) ==
  {t \in Grid : \E o \in orders \cup rejects :
                  /\ o.role = "entry" /\ o.dir = d
                  /\ t[1] = o.gen /\ t[2] <= o.qty}

\* Every entry under way will be taken back, and so will what is held.
Covered(e) ==
  \/ active # 0 /\ e.gen = gen
  \/ \E x \in orders : x.role = "exit" /\ x.gen = e.gen /\ x.qty = e.qty /\ x.dir # e.dir

Holds == venue["cross"] + venue["isolated"]

Balanced ==
  /\ \A e \in orders : e.role = "entry" => Covered(e)
  /\ \A d \in Dirs : d * Holds <= Cardinality(Owed(d) \ Due(d))

BookInv == BookTypes /\ OneMode /\ Named /\ Tracked /\ (~mishap => Balanced)

\* Only the two strategies with coroutines know margin isolation, their
\* coroutines enter from flat, and a leg of ml_fusion is as old as the
\* prediction it came from.
Conduct ==
  /\ isolated => kind \in {"skew", "ml"}
  /\ task # "idle" => kind \in {"skew", "ml"} /\ active = 0
  /\ task = "lever" => wanted \in Dirs
  /\ kind = "ml" => since <= Hold /\ (active # 0 => age = since)

\* ob_imbalance: after a close the gate remembers the side that was left, and
\* has opened only on a book of the other side.
Gate ==
  kind = "ob" =>
    /\ active # 0 => lastDir = active
    /\ active = 0 /\ lastDir # 0 => exitSign = lastDir /\ (flipped => seenOpp)

TradeInv == BookInv /\ ControlTypes /\ Conduct /\ Gate

-----------------------------------------------------------------------------
(* Lots and units *)

\* Rounding down to the lot keeps whole lots.
LEMMA WholeLots ==
  ASSUME NEW n \in Nat
  PROVE  /\ SafeMakeQty(n) \in 0..n /\ SafeMakeQty(n) % Lot = 0
         /\ SafeMakeQty(n) > 0 => SafeMakeQty(n) >= Lot
<1> DEFINE k == n \div Lot
<1>0. Lot \in Nat /\ Lot > 0
  BY SizesAreLots
<1>1. k \in Nat /\ n % Lot \in 0..(Lot - 1) /\ n = (Lot * k) + (n % Lot)
  BY <1>0
<1>2. SafeMakeQty(n) = Lot * k /\ Lot * k \in 0..n
  BY <1>0, <1>1 DEF SafeMakeQty
<1>3. ASSUME NEW m \in Nat PROVE (Lot * m) % Lot = 0
  <2> DEFINE x == Lot * m
             y == x \div Lot
             r == x % Lot
  <2>1. x \in Nat
    BY <1>0
  <2>2. y \in Int /\ r \in 0..(Lot - 1) /\ x = (Lot * y) + r
    BY <1>0, <2>1
  <2>3. Lot * (m - y) = r
    BY <1>0, <2>2
  <2>4. m - y >= 1 => Lot * (m - y) >= Lot
    BY <1>0, <2>2
  <2>5. m - y <= -1 => Lot * (m - y) < 0
    BY <1>0, <2>2
  <2>6. m - y = 0
    <3> HIDE DEF x, y, r
    <3> QED BY <1>0, <2>2, <2>3, <2>4, <2>5
  <2>7. Lot * 0 = 0
    BY <1>0
  <2> QED BY <2>3, <2>6, <2>7
<1>4. \A m \in Nat : m > 0 => Lot * m >= Lot
  BY <1>0
<1>5. Lot * 0 = 0
  BY <1>0
<1> HIDE DEF k
<1>6. SafeMakeQty(n) % Lot = 0
  <2>1. (Lot * k) % Lot = 0
    BY <1>1, <1>3
  <2> QED BY <1>2, <2>1
<1>7. SafeMakeQty(n) > 0 => SafeMakeQty(n) >= Lot
  <2>1. k = 0 \/ Lot * k >= Lot
    BY <1>1, <1>4
  <2>2. k = 0 => Lot * k = 0
    BY <1>5
  <2>3. SafeMakeQty(n) \in Nat
    BY <1>2
  <2> QED BY <1>2, <2>1, <2>2, <2>3
<1> QED BY <1>2, <1>6, <1>7

LEMMA DirsType == Dirs = {1, -1} /\ Dirs \subseteq Int /\ 0 \notin Dirs
BY DEF Dirs

LEMMA GridFinite ==
  ASSUME NEW S \in SUBSET Grid
  PROVE  IsFiniteSet(S) /\ Cardinality(S) \in Nat
<1>1. IsFiniteSet(1..MaxEntries) /\ IsFiniteSet(1..MaxRaw)
  BY FS_Interval, SizesAreLots, EntriesAreCounted
<1>2. IsFiniteSet(Grid)
  BY <1>1, FS_Product DEF Grid
<1> QED BY <1>2, FS_Subset, FS_CardinalityType

\* The units of one order.
Block(g, q) == {t \in Grid : t[1] = g /\ t[2] <= q}

LEMMA BlockSize ==
  ASSUME NEW g \in 1..MaxEntries, NEW q \in 0..MaxRaw
  PROVE  Block(g, q) \subseteq Grid /\ Cardinality(Block(g, q)) = q
<1>1. Block(g, q) = {g} \X (1..q)
  BY SizesAreLots, EntriesAreCounted DEF Block, Grid
<1>2. IsFiniteSet({g}) /\ Cardinality({g}) = 1
  BY FS_Singleton
<1>3. IsFiniteSet(1..q) /\ Cardinality(1..q) = q
  <2>1. q \in Int /\ 1 \in Int /\ (1 > q => q = 0)
    BY SizesAreLots
  <2> QED BY <2>1, FS_Interval
<1>4. Cardinality({g} \X (1..q)) = Cardinality({g}) * Cardinality(1..q)
  BY <1>2, <1>3, FS_Product
<1>5. q \in Int /\ 1 * q = q
  BY SizesAreLots
<1>6. Cardinality({g} \X (1..q)) = q
  BY <1>2, <1>3, <1>4, <1>5
<1> QED BY <1>1, <1>6 DEF Block

\* What is counted does not shrink, grows by a block, or loses at most one.
LEMMA Grows ==
  ASSUME NEW S \in SUBSET Grid, NEW T \in SUBSET Grid, S \subseteq T
  PROVE  Cardinality(S) <= Cardinality(T)
BY GridFinite, FS_Subset

LEMMA GrowsBy ==
  ASSUME NEW S \in SUBSET Grid, NEW B \in SUBSET Grid, NEW T \in SUBSET Grid,
         S \cap B = {}, S \subseteq T, B \subseteq T
  PROVE  Cardinality(S) + Cardinality(B) <= Cardinality(T)
<1>1. /\ IsFiniteSet(S) /\ Cardinality(S) \in Nat
      /\ IsFiniteSet(B) /\ Cardinality(B) \in Nat
      /\ IsFiniteSet(T) /\ Cardinality(T) \in Nat
  BY GridFinite
<1>2. Cardinality(S \cup B) = Cardinality(S) + Cardinality(B) - Cardinality(S \cap B)
  BY <1>1, FS_Union
<1>3. Cardinality(S \cap B) = 0
  BY FS_EmptySet
<1>4. S \cup B \in SUBSET Grid /\ S \cup B \subseteq T
  OBVIOUS
<1>5. Cardinality(S \cup B) <= Cardinality(T)
  BY <1>4, Grows
<1> QED BY <1>1, <1>2, <1>3, <1>5

LEMMA LosesBy ==
  ASSUME NEW S \in SUBSET Grid, NEW B \in SUBSET Grid, NEW T \in SUBSET Grid,
         S \ B \subseteq T
  PROVE  Cardinality(S) - Cardinality(B) <= Cardinality(T)
<1>1. /\ IsFiniteSet(S) /\ Cardinality(S) \in Nat
      /\ IsFiniteSet(B) /\ Cardinality(B) \in Nat
      /\ IsFiniteSet(T) /\ Cardinality(T) \in Nat
  BY GridFinite
<1>2. Cardinality(S \ B) = Cardinality(S) - Cardinality(S \cap B)
  BY <1>1, FS_Difference
<1>3. S \cap B \in SUBSET Grid /\ S \cap B \subseteq B
  OBVIOUS
<1>4. Cardinality(S \cap B) <= Cardinality(B) /\ Cardinality(S \cap B) \in Nat
  BY <1>3, Grows, GridFinite
<1>5. S \ B \in SUBSET Grid
  OBVIOUS
<1>6. Cardinality(S \ B) <= Cardinality(T)
  BY <1>5, Grows
<1> QED BY <1>1, <1>2, <1>4, <1>6

LEMMA OpenUnits ==
  /\ \A d : Owed(d) \subseteq Grid /\ Due(d) \subseteq Grid
  /\ \A d : Owed(d)' \subseteq Grid /\ Due(d)' \subseteq Grid
  /\ \A d : Cardinality(Owed(d) \ Due(d)) \in Nat
  /\ \A d : Cardinality((Owed(d) \ Due(d))') \in Nat
<1>1. /\ \A d : Owed(d) \subseteq Grid /\ Due(d) \subseteq Grid
      /\ \A d : Owed(d)' \subseteq Grid /\ Due(d)' \subseteq Grid
  BY DEF Owed, Due, Grid
<1>2. ASSUME NEW d PROVE Owed(d) \ Due(d) \in SUBSET Grid
  BY <1>1
<1>3. ASSUME NEW d PROVE (Owed(d) \ Due(d))' \in SUBSET Grid
  BY <1>1
<1> QED BY <1>1, <1>2, <1>3, GridFinite

-----------------------------------------------------------------------------
(* What the strategy does to the book *)

LEMMA InitBook == Init => BookInv
<1> SUFFICES ASSUME Init PROVE BookInv
  OBVIOUS
<1>1. /\ active = 0 /\ contracts = 0 /\ gen = 0 /\ orders = {} /\ rejects = {}
      /\ venue = [m \in Modes |-> 0] /\ mishap = FALSE /\ isolated \in BOOLEAN
  BY DEF Init, Flat, LiqInit, ObInit, RangeInit, SkewInit, MlInit
<1>2. BookTypes
  <2>1. 0 \in 0..MaxRaw /\ 0 \in 0..MaxEntries
    BY SizesAreLots, EntriesAreCounted
  <2>2. orders \cup rejects = {}
    BY <1>1
  <2>3. venue \in [Modes -> Int]
    BY <1>1
  <2> QED BY <1>1, <2>1, <2>2, <2>3 DEF BookTypes
<1>2a. OneMode
  BY <1>1 DEF OneMode
<1>2b. Named /\ Tracked
  BY <1>1 DEF Named, Tracked
<1>3. \A d \in Dirs : d * Holds <= Cardinality(Owed(d) \ Due(d))
  <2>1. Holds = 0
    BY <1>1 DEF Holds, Modes
  <2>2. \A d \in Dirs : d * 0 = 0
    BY DirsType
  <2> QED BY <2>1, <2>2, OpenUnits
<1> QED BY <1>1, <1>2, <1>2a, <1>2b, <1>3 DEF BookInv, Balanced

LEMMA RestBook ==
  ASSUME BookInv, UNCHANGED <<isolated, active, contracts, gen, orders, outside>>
  PROVE  BookInv'
<1>1. /\ isolated' = isolated /\ active' = active /\ contracts' = contracts /\ gen' = gen
      /\ orders' = orders /\ rejects' = rejects /\ venue' = venue /\ mishap' = mishap
  BY DEF outside
<1>2. BookTypes' /\ OneMode' /\ Named' /\ Tracked'
  BY <1>1 DEF BookInv, BookTypes, OneMode, Named, Tracked, EntryMode, SafeMakeQty
<1>3. \A d : Owed(d)' = Owed(d) /\ Due(d)' = Due(d)
  BY <1>1 DEF Owed, Due, SafeMakeQty
<1>4. Holds' = Holds /\ \A e : Covered(e) => Covered(e)'
  BY <1>1 DEF Holds, Covered
<1> QED BY <1>1, <1>2, <1>3, <1>4 DEF BookInv, Balanced

\* The entry asks for what will be tracked.
LEMMA OpenBook ==
  ASSUME BookInv, active = 0, NEW d \in Dirs, NEW a, Open(d, EntryMode, a),
         UNCHANGED <<isolated, outside>>
  PROVE  BookInv'
<1>0. /\ isolated' = isolated /\ rejects' = rejects /\ venue' = venue /\ mishap' = mishap
  BY DEF outside
<1>1. PICK adjusted \in 0..MaxRaw :
        /\ SafeMakeQty(adjusted) > 0
        /\ orders' = orders \cup {[role |-> "entry", dir |-> d, qty |-> SafeMakeQty(adjusted),
                                   mode |-> EntryMode, gen |-> gen + 1]}
        /\ contracts' = adjusted
  BY SizesAreLots DEF Open
<1>a. PICK q : q = SafeMakeQty(adjusted)
  OBVIOUS
<1>b. PICK e : e = [role |-> "entry", dir |-> d, qty |-> q, mode |-> EntryMode, gen |-> gen + 1]
  OBVIOUS
<1>2. /\ active' = d /\ gen' = gen + 1 /\ gen < MaxEntries /\ orders' = orders \cup {e}
      /\ adjusted \in 0..MaxRaw
  BY <1>1, <1>a, <1>b, SizesAreLots DEF Open
<1>3. q \in Lot..MaxRaw /\ q % Lot = 0 /\ q \in 1..MaxRaw /\ SafeMakeQty(contracts)' = q
  <2>1. adjusted \in Nat
    BY <1>2, SizesAreLots
  <2>2. SafeMakeQty(adjusted) \in 0..adjusted /\ SafeMakeQty(adjusted) % Lot = 0
        /\ (SafeMakeQty(adjusted) > 0 => SafeMakeQty(adjusted) >= Lot)
    BY <2>1, WholeLots
  <2>3. SafeMakeQty(contracts)' = SafeMakeQty(adjusted)
    BY <1>1 DEF SafeMakeQty
  <2> QED BY <1>1, <1>a, <1>2, <2>1, <2>2, <2>3, SizesAreLots
<1>4. gen \in 0..MaxEntries /\ gen + 1 \in 1..MaxEntries
  BY <1>2, EntriesAreCounted DEF BookInv, BookTypes
<1>5. EntryMode \in Modes /\ EntryMode' = EntryMode
  BY <1>0 DEF EntryMode, Modes
<1>6. \A o \in orders \cup rejects : o.gen <= gen /\ o.gen \in 1..MaxEntries
  BY DEF BookInv, Named, BookTypes
<1>7. /\ e.role = "entry" /\ e.dir = d /\ e.qty = q /\ e.mode = EntryMode /\ e.gen = gen + 1
      /\ \A o \in orders \cup rejects : o.gen # e.gen /\ o # e
  BY <1>4, <1>6, <1>b
<1>8. BookTypes'
  BY <1>0, <1>1, <1>2, <1>3, <1>4, <1>5, <1>7, DirsType DEF BookInv, BookTypes
<1>9. OneMode'
  BY <1>0, <1>2, <1>5, <1>7 DEF BookInv, OneMode
<1>10. Named'
  BY <1>0, <1>2, <1>4, <1>6, <1>7 DEF BookInv, Named, BookTypes
<1>11. Tracked'
  BY <1>0, <1>2, <1>3, <1>4, <1>6, <1>7 DEF Tracked
<1>12. ASSUME NEW c \in Dirs PROVE (Owed(c) \ Due(c))' = Owed(c) \ Due(c)
  <2>1. /\ Owed(c)' = Owed(c) \cup (IF c = d THEN Block(gen + 1, q) ELSE {})
    <3>1. 0 # c
      BY DirsType
    <3>2. \A t \in Grid : t \in Owed(c)' <=>
            \/ d = c /\ t[1] = gen + 1 /\ t[2] <= q
            \/ \E o \in orders : o.role = "exit" /\ o.dir # c /\ t[1] = o.gen /\ t[2] <= o.qty
      BY <1>2, <1>3, <1>7 DEF Owed
    <3>3. \A t \in Grid : t \in Owed(c) <=>
            \E o \in orders : o.role = "exit" /\ o.dir # c /\ t[1] = o.gen /\ t[2] <= o.qty
      BY <3>1 DEF Owed
    <3>4. Owed(c)' \subseteq Grid /\ Owed(c) \subseteq Grid
      BY OpenUnits
    <3> QED BY <3>2, <3>3, <3>4 DEF Block
  <2>2. Due(c)' = Due(c) \cup (IF c = d THEN Block(gen + 1, q) ELSE {})
    <3>1. \A t \in Grid : t \in Due(c)' <=>
            \/ d = c /\ t[1] = gen + 1 /\ t[2] <= q
            \/ \E o \in orders \cup rejects :
                  o.role = "entry" /\ o.dir = c /\ t[1] = o.gen /\ t[2] <= o.qty
      BY <1>0, <1>2, <1>7 DEF Due
    <3>2. \A t \in Grid : t \in Due(c) <=>
            \E o \in orders \cup rejects :
                  o.role = "entry" /\ o.dir = c /\ t[1] = o.gen /\ t[2] <= o.qty
      BY DEF Due
    <3>3. Due(c)' \subseteq Grid /\ Due(c) \subseteq Grid
      BY OpenUnits
    <3> QED BY <3>1, <3>2, <3>3 DEF Block
  <2>3. Owed(c) \cap Block(gen + 1, q) = {}
    <3>1. \A t \in Owed(c) : \E o \in orders : t[1] = o.gen
      BY DirsType DEF Owed
    <3> QED BY <3>1, <1>4, <1>6 DEF Block
  <2> QED BY <2>1, <2>2, <2>3
<1>13. Holds' = Holds
  BY <1>0 DEF Holds
<1>14. \A o \in orders \cup {e} : o.role = "entry" /\ (o \in orders => Covered(o)) => Covered(o)'
  <2>1. Covered(e)'
    BY <1>2, <1>7, DirsType DEF Covered
  <2>2. ASSUME NEW o \in orders, Covered(o) PROVE Covered(o)'
    <3>1. PICK x \in orders : x.role = "exit" /\ x.gen = o.gen /\ x.qty = o.qty /\ x.dir # o.dir
      BY <2>2 DEF Covered
    <3> QED BY <3>1, <1>2 DEF Covered
  <2> QED BY <2>1, <2>2
<1>15. ~mishap' => Balanced'
  <2> SUFFICES ASSUME ~mishap' PROVE Balanced'
    OBVIOUS
  <2>1. Balanced
    BY <1>0 DEF BookInv
  <2>2. \A c \in Dirs : (c * Holds <= Cardinality(Owed(c) \ Due(c)))'
    BY <1>12, <1>13, <2>1 DEF Balanced
  <2>3. \A o \in orders' : o.role = "entry" => Covered(o)'
    BY <1>2, <1>14, <2>1 DEF Balanced
  <2> QED BY <2>2, <2>3 DEF Balanced
<1> QED BY <1>8, <1>9, <1>10, <1>11, <1>15 DEF BookInv

\* A close asks for the size that was tracked: what is owed stays owed.
LEMMA CloseBook ==
  ASSUME BookInv, active # 0, Close, UNCHANGED <<isolated, outside>>
  PROVE  BookInv' /\ active' = 0
<1>0. /\ isolated' = isolated /\ rejects' = rejects /\ venue' = venue /\ mishap' = mishap
  BY DEF outside
<1>a. PICK q : q = SafeMakeQty(contracts)
  OBVIOUS
<1>b. PICK x : x = [role |-> "exit", dir |-> -active, qty |-> q, mode |-> "cross", gen |-> gen]
  OBVIOUS
<1>1. q > 0 /\ gen > 0
  BY <1>a DEF BookInv, Tracked
<1>2. /\ orders' = orders \cup {x} /\ active' = 0 /\ contracts' = 0 /\ gen' = gen
  <2>1. SafeMakeQty(contracts) # 0
    BY <1>a, <1>1
  <2> QED BY <2>1, <1>a, <1>b DEF Close
<1>3. q \in Lot..MaxRaw /\ q % Lot = 0
  <2>1. contracts \in Nat /\ contracts <= MaxRaw
    BY SizesAreLots DEF BookInv, BookTypes
  <2>2. q \in 0..contracts /\ q % Lot = 0 /\ (q > 0 => q >= Lot)
    BY <2>1, <1>a, WholeLots
  <2> QED BY <1>1, <2>1, <2>2, SizesAreLots
<1>4. active \in Dirs /\ -active \in Dirs /\ gen \in 1..MaxEntries
  <2>1. active \in Dirs /\ gen \in 0..MaxEntries
    BY DEF BookInv, BookTypes
  <2>2. -active \in Dirs
    BY <2>1, DirsType
  <2> QED BY <2>1, <2>2, <1>1, EntriesAreCounted
<1>5. /\ x.role = "exit" /\ x.dir = -active /\ x.qty = q /\ x.mode = "cross" /\ x.gen = gen
  BY <1>b
<1>6. BookTypes'
  <2>1. 0 \in 0..MaxRaw
    BY SizesAreLots
  <2>2. \A o \in {x} :
       /\ o.role \in {"entry", "exit"} /\ o.dir \in Dirs
       /\ o.qty \in Lot..MaxRaw /\ o.qty % Lot = 0 /\ o.mode \in Modes /\ o.gen \in 1..MaxEntries
    BY <1>3, <1>4, <1>5 DEF Modes
  <2> QED BY <1>0, <1>2, <2>1, <2>2 DEF BookInv, BookTypes
<1>7. OneMode'
  BY <1>0, <1>2, <1>5 DEF BookInv, OneMode, EntryMode
<1>8. Named'
  <2>1. gen <= gen
    BY <1>4
  <2> QED BY <2>1, <1>0, <1>2, <1>5 DEF BookInv, Named
<1>9. Tracked'
  BY <1>2 DEF Tracked
<1>10. ASSUME NEW c \in Dirs PROVE (Owed(c) \ Due(c))' = Owed(c) \ Due(c)
  <2>1. x.dir # c <=> active = c
    BY <1>4, <1>5, DirsType
  <2>2. 0 # c
    BY DirsType
  <2>3. Owed(c)' = Owed(c)
    <3>1. \A t \in Grid : t \in Owed(c)' <=>
            \/ x.dir # c /\ t[1] = gen /\ t[2] <= q
            \/ \E o \in orders : o.role = "exit" /\ o.dir # c /\ t[1] = o.gen /\ t[2] <= o.qty
      BY <1>2, <1>5, <2>2 DEF Owed
    <3>2. \A t \in Grid : t \in Owed(c) <=>
            \/ active = c /\ t[1] = gen /\ t[2] <= q
            \/ \E o \in orders : o.role = "exit" /\ o.dir # c /\ t[1] = o.gen /\ t[2] <= o.qty
      BY <1>a DEF Owed
    <3> QED BY <2>1, <3>1, <3>2, OpenUnits
  <2>4. Due(c)' = Due(c)
    <3>1. \A t \in Grid : t \in Due(c)' <=> t \in Due(c)
      BY <1>0, <1>2, <1>5 DEF Due
    <3> QED BY <3>1, OpenUnits
  <2> QED BY <2>3, <2>4
<1>11. Holds' = Holds
  BY <1>0 DEF Holds
<1>12. ASSUME ~mishap' PROVE Balanced'
  <2>1. Balanced
    BY <1>0, <1>12 DEF BookInv
  <2>2. \A c \in Dirs : (c * Holds <= Cardinality(Owed(c) \ Due(c)))'
    BY <1>10, <1>11, <2>1 DEF Balanced
  <2>3. ASSUME NEW o \in orders', o.role = "entry" PROVE Covered(o)'
    <3>1. o \in orders /\ Covered(o)
      BY <2>1, <2>3, <1>2, <1>5 DEF Balanced
    <3>2. CASE o.gen = gen
      <4>1. o.dir = active /\ o.qty = q
        BY <1>a, <2>3, <3>1, <3>2 DEF BookInv, Tracked
      <4>2. x.dir # o.dir
        BY <4>1, <1>4, <1>5, DirsType
      <4> QED BY <4>1, <4>2, <1>2, <1>5, <3>2 DEF Covered
    <3>3. CASE o.gen # gen
      <4>1. PICK y \in orders : y.role = "exit" /\ y.gen = o.gen /\ y.qty = o.qty /\ y.dir # o.dir
        BY <3>1, <3>3 DEF Covered
      <4> QED BY <4>1, <1>2 DEF Covered
    <3> QED BY <3>2, <3>3
  <2> QED BY <2>2, <2>3 DEF Balanced
<1> QED BY <1>2, <1>6, <1>7, <1>8, <1>9, <1>12 DEF BookInv

-----------------------------------------------------------------------------
(* What OKX does to the book *)

LEMMA ReducibleType ==
  ASSUME BookInv, NEW o \in orders
  PROVE  Reducible(o) \in 0..o.qty
<1>1. o.dir \in {1, -1} /\ o.qty \in Nat /\ venue[o.mode] \in Int
  BY SizesAreLots, DirsType DEF BookInv, BookTypes
<1>2. -o.dir * venue[o.mode] \in Int
  BY <1>1
<1> QED BY <1>1, <1>2 DEF Reducible, Least

\* Whatever is filled, types, names and the mode of the position stay.
LEMMA ExecuteFrame ==
  ASSUME BookInv, NEW o \in orders, NEW filled, Execute(o, filled), mishap' \in BOOLEAN,
         rejects' = rejects \/ rejects' = rejects \cup {o},
         UNCHANGED <<isolated, active, contracts, gen>>
  PROVE  /\ BookTypes' /\ OneMode' /\ Named' /\ Tracked'
         /\ filled \in 0..o.qty /\ orders' = orders \ {o}
         /\ o.role = "exit" => filled \in 0..Reducible(o)
         /\ Holds' = Holds + o.dir * filled
<1>1. /\ o.dir \in {1, -1} /\ o.qty \in Nat /\ o.mode \in Modes
      /\ venue \in [Modes -> Int] /\ o.role \in {"entry", "exit"}
  BY SizesAreLots, DirsType DEF BookInv, BookTypes
<1>2. /\ filled \in 0..o.qty /\ orders' = orders \ {o}
      /\ o.role = "exit" => filled \in 0..Reducible(o)
      /\ venue' = [venue EXCEPT ![o.mode] = @ + o.dir * filled]
  BY <1>1, ReducibleType DEF Execute
<1>3. o.dir * filled \in Int
  BY <1>1, <1>2
<1>4. orders' \cup rejects' \subseteq orders \cup rejects
  BY <1>2
<1>5. venue' \in [Modes -> Int]
  BY <1>1, <1>2, <1>3
<1>6. BookTypes'
  BY <1>4, <1>5 DEF BookInv, BookTypes
<1>7. OneMode'
  <2>1. EntryMode' = EntryMode
    BY DEF EntryMode
  <2>2. ASSUME NEW m \in Modes, m # EntryMode PROVE venue'[m] = 0
    <3>1. venue[m] = 0
      BY <2>2 DEF BookInv, OneMode
    <3>2. CASE o.mode = m
      <4>1. o.role = "exit"
        BY <1>1, <2>2, <3>2 DEF BookInv, OneMode
      <4>2. venue[o.mode] = 0
        BY <3>1, <3>2
      <4>3. Reducible(o) = 0
        BY <4>2, <1>1 DEF Reducible, Least
      <4>4. filled = 0
        BY <4>1, <4>3, <1>2
      <4>5. o.dir * filled = 0
        BY <4>4, <1>1
      <4> QED BY <1>1, <1>2, <3>1, <3>2, <4>5
    <3>3. CASE o.mode # m
      BY <1>1, <1>2, <3>1, <3>3
    <3> QED BY <3>2, <3>3
  <2> QED BY <1>4, <2>1, <2>2 DEF BookInv, OneMode
<1>8. Named'
  <2>1. \A p \in orders' : p.role = "entry" => p \notin rejects'
    BY <1>2 DEF BookInv, Named
  <2> QED BY <1>4, <2>1 DEF BookInv, Named
<1>9. Tracked'
  BY <1>4 DEF BookInv, Tracked, SafeMakeQty
<1>10. Holds' = Holds + o.dir * filled
  <2>1. venue["cross"] \in Int /\ venue["isolated"] \in Int
    BY <1>1 DEF Modes
  <2>2. CASE o.mode = "cross"
    BY <1>1, <1>2, <1>3, <2>1, <2>2 DEF Holds, Modes
  <2>3. CASE o.mode = "isolated"
    BY <1>1, <1>2, <1>3, <2>1, <2>3 DEF Holds, Modes
  <2> QED BY <1>1, <2>2, <2>3 DEF Modes
<1> QED BY <1>2, <1>6, <1>7, <1>8, <1>9, <1>10

\* An entry that is settled brings at most what it asked for, and it is owed.
LEMMA EntryBalance ==
  ASSUME BookInv, Balanced, NEW o \in orders, o.role = "entry",
         NEW filled, Execute(o, filled), mishap' \in BOOLEAN,
         \/ rejects' = rejects
         \/ rejects' = rejects \cup {o} /\ filled = 0,
         UNCHANGED <<isolated, active, contracts, gen>>
  PROVE  Balanced'
<1>1. /\ filled \in 0..o.qty /\ orders' = orders \ {o} /\ Holds' = Holds + o.dir * filled
  BY ExecuteFrame
<1>2. /\ o.dir \in {1, -1} /\ o.qty \in 0..MaxRaw /\ o.gen \in 1..MaxEntries
      /\ venue["cross"] \in Int /\ venue["isolated"] \in Int
  BY SizesAreLots, DirsType DEF BookInv, BookTypes, Modes
<1>3. Holds \in Int
  BY <1>2 DEF Holds
<1>4. ASSUME NEW c \in Dirs PROVE Owed(c)' = Owed(c)
  <2>1. \A t \in Grid : t \in Owed(c)' <=> t \in Owed(c)
    BY <1>1 DEF Owed, SafeMakeQty
  <2> QED BY <2>1, OpenUnits
<1>5. ASSUME NEW c \in Dirs, c # o.dir PROVE Due(c)' = Due(c)
  <2>1. \A t \in Grid : t \in Due(c)' <=> t \in Due(c)
    BY <1>1, <1>5 DEF Due
  <2> QED BY <2>1, OpenUnits
<1>6. ASSUME NEW c \in Dirs PROVE Due(c)' \subseteq Due(c)
  <2>1. \A t \in Grid : t \in Due(c)' => t \in Due(c)
    BY <1>1 DEF Due
  <2> QED BY <2>1, OpenUnits
<1>7. ASSUME NEW c \in Dirs PROVE c * Holds' <= Cardinality((Owed(c) \ Due(c))')
  <2>0. c * Holds <= Cardinality(Owed(c) \ Due(c))
    BY DEF Balanced
  <2>1. /\ Cardinality(Owed(c) \ Due(c)) \in Nat /\ Cardinality((Owed(c) \ Due(c))') \in Nat
        /\ c \in {1, -1} /\ c \in Int
    BY OpenUnits, DirsType
  <2>2. Owed(c) \ Due(c) \in SUBSET Grid /\ (Owed(c) \ Due(c))' \in SUBSET Grid
    BY OpenUnits
  <2>3. Cardinality(Owed(c) \ Due(c)) <= Cardinality((Owed(c) \ Due(c))')
    <3>1. Owed(c) \ Due(c) \subseteq (Owed(c) \ Due(c))'
      BY <1>4, <1>6
    <3> QED BY <3>1, <2>2, Grows
  <2>4. CASE c # o.dir
    <3>1. c * Holds' <= c * Holds
      BY <1>1, <1>2, <1>3, <2>1, <2>4
    <3> QED BY <3>1, <2>0, <2>1, <2>3, <1>1, <1>2, <1>3
  <2>5. CASE c = o.dir /\ filled = 0
    <3>1. c * Holds' = c * Holds
      BY <1>1, <1>2, <1>3, <2>1, <2>5
    <3> QED BY <3>1, <2>0, <2>1, <2>3, <1>3
  <2>6. CASE c = o.dir /\ rejects' = rejects
    <3> DEFINE B == Block(o.gen, o.qty)
    <3>1. B \subseteq Grid /\ Cardinality(B) = o.qty
      BY <1>2, BlockSize
    <3>2. B \subseteq Due(c)
      BY <2>6 DEF Due, Block
    <3>3. B \subseteq Owed(c)
      <4>1. Covered(o)
        BY DEF Balanced
      <4>2. CASE active # 0 /\ o.gen = gen
        <5>1. o.dir = active /\ o.qty = SafeMakeQty(contracts)
          BY <4>2 DEF BookInv, Tracked
        <5> QED BY <5>1, <4>2, <2>6 DEF Owed, Block
      <4>3. CASE \E x \in orders : x.role = "exit" /\ x.gen = o.gen /\ x.qty = o.qty /\ x.dir # o.dir
        BY <4>3, <2>6 DEF Owed, Block
      <4> QED BY <4>1, <4>2, <4>3 DEF Covered
    <3>4. B \cap Due(c)' = {}
      <4>1. ASSUME NEW t \in B, t \in Due(c)' PROVE FALSE
        <5>1. t[1] = o.gen
          BY DEF Block
        <5>2. PICK p \in (orders \ {o}) \cup rejects : p.role = "entry" /\ t[1] = p.gen
          BY <4>1, <1>1, <2>6 DEF Due
        <5>3. p = o
          BY <5>1, <5>2 DEF BookInv, Named
        <5> QED BY <5>2, <5>3 DEF BookInv, Named
      <4> QED BY <4>1
    <3>5. (Owed(c) \ Due(c)) \cap B = {} /\ B \subseteq (Owed(c) \ Due(c))'
          /\ Owed(c) \ Due(c) \subseteq (Owed(c) \ Due(c))'
      BY <1>4, <1>6, <3>2, <3>3, <3>4
    <3> HIDE DEF B
    <3>6. Cardinality(Owed(c) \ Due(c)) + Cardinality(B) <= Cardinality((Owed(c) \ Due(c))')
      BY <3>1, <3>5, <2>2, GrowsBy
    <3>7. c * Holds' = c * Holds + filled
      BY <1>1, <1>2, <1>3, <2>1, <2>6
    <3> QED BY <3>1, <3>6, <3>7, <2>0, <2>1, <1>1, <1>2, <1>3
  <2> QED BY <2>4, <2>5, <2>6
<1>8. ASSUME NEW e \in orders', e.role = "entry" PROVE Covered(e)'
  BY <1>1, <1>8 DEF Balanced, Covered
<1> QED BY <1>7, <1>8 DEF Balanced

\* A close that is settled in full after its entry takes what there is of its
\* position, but no more than it was tracked for.
LEMMA ExitBalance ==
  ASSUME BookInv, Balanced, NEW o \in orders, o.role = "exit",
         NEW filled, Execute(o, filled), ~ShortClose(o, filled), mishap' \in BOOLEAN,
         rejects' = rejects \/ rejects' = rejects \cup {o},
         UNCHANGED <<isolated, active, contracts, gen>>
  PROVE  Balanced'
<1>1. /\ filled \in 0..Reducible(o) /\ orders' = orders \ {o} /\ Holds' = Holds + o.dir * filled
  BY ExecuteFrame
<1>2. /\ o.dir \in {1, -1} /\ o.qty \in 0..MaxRaw /\ o.qty \in Nat /\ o.gen \in 1..MaxEntries
      /\ venue["cross"] \in Int /\ o.mode = "cross"
  BY SizesAreLots, DirsType DEF BookInv, BookTypes, OneMode, Modes
<1>3. /\ filled = Reducible(o) /\ venue["isolated"] = 0 /\ Holds = venue["cross"]
      /\ \A e \in orders : e.role = "entry" => e.gen # o.gen
  <2>1. Reducible(o) \in Nat
    BY ReducibleType, <1>2
  <2>2. ~(filled < Reducible(o)) /\ venue["isolated"] = 0 /\ ~Overtaken(o)
    BY DEF ShortClose
  <2> QED BY <1>1, <1>2, <2>1, <2>2 DEF Overtaken, Holds
<1>4. PICK h : h = 0 - o.dir * Holds /\ h \in Int
  BY <1>2, <1>3
<1>5. filled = IF h < 0 THEN 0 ELSE IF o.qty < h THEN o.qty ELSE h
  <2>1. -o.dir * venue[o.mode] = h
    BY <1>2, <1>3, <1>4
  <2> QED BY <1>2, <1>3, <1>4, <2>1 DEF Reducible, Least
<1>5a. filled \in Int /\ Holds \in Int
  BY <1>2, <1>3, <1>4, <1>5
<1>6. ASSUME NEW c \in Dirs PROVE Due(c)' = Due(c)
  <2>1. \A t \in Grid : t \in Due(c)' <=> t \in Due(c)
    BY <1>1 DEF Due
  <2> QED BY <2>1, OpenUnits
<1>7. ASSUME NEW c \in Dirs PROVE c * Holds' <= Cardinality((Owed(c) \ Due(c))')
  <2>0. c * Holds <= Cardinality(Owed(c) \ Due(c))
    BY DEF Balanced
  <2>1. /\ Cardinality(Owed(c) \ Due(c)) \in Nat /\ Cardinality((Owed(c) \ Due(c))') \in Nat
        /\ c \in {1, -1} /\ c \in Int /\ Holds \in Int
    BY <1>2, <1>3, OpenUnits, DirsType
  <2>2. CASE c = o.dir
    <3>1. Owed(c)' = Owed(c)
      <4>1. \A t \in Grid : t \in Owed(c)' <=> t \in Owed(c)
        BY <1>1, <2>2 DEF Owed, SafeMakeQty
      <4> QED BY <4>1, OpenUnits
    <3>2. (Owed(c) \ Due(c))' = Owed(c) \ Due(c)
      BY <3>1, <1>6
    <3>3. c * Holds = 0 - h /\ c * Holds' = filled - h
      <4>1. CASE o.dir = 1
        BY <1>5a, <1>1, <1>4, <2>1, <2>2, <4>1
      <4>2. CASE o.dir = -1
        BY <1>5a, <1>1, <1>4, <2>1, <2>2, <4>2
      <4> QED BY <4>1, <4>2, <1>2
    <3>4. CASE filled - h <= 0
      BY <3>3, <3>4, <2>1, <1>4, <1>5a
    <3>5. CASE filled = 0 /\ h < 0
      BY <3>2, <3>3, <3>5, <2>0, <2>1, <1>4
    <3> QED BY <3>4, <3>5, <1>2, <1>4, <1>5
  <2>3. CASE c # o.dir
    <3> DEFINE B == Block(o.gen, o.qty)
    <3>1. B \subseteq Grid /\ Cardinality(B) = o.qty
      BY <1>2, BlockSize
    <3>2. Owed(c) \ B \subseteq Owed(c)'
      <4>1. \A t \in Grid : t \in Owed(c) /\ t \notin B => t \in Owed(c)'
        BY <1>1 DEF Owed, Block, SafeMakeQty
      <4> QED BY <4>1, OpenUnits
    <3>3. (Owed(c) \ Due(c)) \ B \subseteq (Owed(c) \ Due(c))'
      BY <3>2, <1>6
    <3>4. Owed(c) \ Due(c) \in SUBSET Grid /\ (Owed(c) \ Due(c))' \in SUBSET Grid
      BY OpenUnits
    <3> HIDE DEF B
    <3>5. Cardinality(Owed(c) \ Due(c)) - Cardinality(B) <= Cardinality((Owed(c) \ Due(c))')
      BY <3>1, <3>3, <3>4, LosesBy
    <3>6. c * Holds = h /\ c * Holds' = h - filled
      <4>1. CASE o.dir = 1
        BY <1>5a, <1>1, <1>4, <2>1, <2>3, <4>1
      <4>2. CASE o.dir = -1
        BY <1>5a, <1>1, <1>4, <2>1, <2>3, <4>2
      <4> QED BY <4>1, <4>2, <1>2
    <3> QED BY <3>1, <3>5, <3>6, <2>0, <2>1, <1>2, <1>4, <1>5
  <2> QED BY <2>2, <2>3
<1>8. ASSUME NEW e \in orders', e.role = "entry" PROVE Covered(e)'
  <2>1. e \in orders /\ e.gen # o.gen /\ Covered(e)
    BY <1>1, <1>3, <1>8 DEF Balanced
  <2>2. CASE active # 0 /\ e.gen = gen
    BY <2>2 DEF Covered
  <2>3. ASSUME NEW x \in orders, x.role = "exit", x.gen = e.gen, x.qty = e.qty, x.dir # e.dir
        PROVE  Covered(e)'
    BY <1>1, <2>1, <2>3 DEF Covered
  <2> QED BY <2>1, <2>2, <2>3 DEF Covered
<1> QED BY <1>7, <1>8 DEF Balanced

LEMMA VenueBook ==
  ASSUME BookInv, NEW o \in orders, Fill(o) \/ Refuse(o) \/ ExecutedButRejected(o),
         UNCHANGED <<isolated, active, contracts, gen>>
  PROVE  BookInv'
<1>1. PICK filled :
        /\ Execute(o, filled)
        /\ mishap' \in BOOLEAN /\ (mishap => mishap')
        /\ rejects' = rejects \/ rejects' = rejects \cup {o}
        /\ ~mishap' /\ o.role = "entry" =>
             rejects' = rejects \/ (rejects' = rejects \cup {o} /\ filled = 0)
        /\ ~mishap' => ~ShortClose(o, filled)
  <2>0. mishap \in BOOLEAN
    BY DEF BookInv, BookTypes
  <2>1. CASE Fill(o)
    <3>1. PICK f : Execute(o, f) /\ mishap' = (mishap \/ ShortClose(o, f)) /\ rejects' = rejects
      BY <2>1 DEF Fill
    <3>2. mishap' \in BOOLEAN /\ (mishap => mishap') /\ (~mishap' => ~ShortClose(o, f))
      BY <3>1, <2>0 DEF ShortClose
    <3> QED BY <3>1, <3>2
  <2>2. CASE Refuse(o)
    <3>1. Execute(o, 0) /\ mishap' = (mishap \/ ShortClose(o, 0)) /\ rejects' = rejects \cup {o}
      BY <2>2 DEF Refuse
    <3>2. mishap' \in BOOLEAN /\ (mishap => mishap') /\ (~mishap' => ~ShortClose(o, 0))
      BY <3>1, <2>0 DEF ShortClose
    <3> QED BY <3>1, <3>2
  <2>3. CASE ExecutedButRejected(o)
    <3>1. PICK f : /\ Execute(o, f)
                   /\ mishap' = (mishap \/ o.role = "entry" \/ ShortClose(o, f))
                   /\ rejects' = rejects \cup {o}
      BY <2>3 DEF ExecutedButRejected
    <3>2. mishap' \in BOOLEAN /\ (mishap => mishap') /\ (~mishap' => ~ShortClose(o, f))
          /\ (~mishap' => o.role # "entry")
      BY <3>1, <2>0 DEF ShortClose
    <3> QED BY <3>1, <3>2
  <2> QED BY <2>1, <2>2, <2>3
<1>2. BookTypes' /\ OneMode' /\ Named' /\ Tracked'
  BY <1>1, ExecuteFrame
<1>3. ASSUME ~mishap' PROVE Balanced'
  <2>1. Balanced
    BY <1>1, <1>3 DEF BookInv, BookTypes
  <2>2. o.role \in {"entry", "exit"}
    BY DEF BookInv, BookTypes
  <2>3. CASE o.role = "entry"
    BY <1>1, <1>3, <2>1, <2>3, EntryBalance
  <2>4. CASE o.role = "exit"
    BY <1>1, <1>3, <2>1, <2>4, ExitBalance
  <2> QED BY <2>2, <2>3, <2>4
<1> QED BY <1>2, <1>3 DEF BookInv

\* A rejection that is delivered clears the position of the entry that was
\* refused, or one that somebody will miss.
LEMMA RejectBook ==
  ASSUME BookInv, NEW o \in rejects, rejects' = rejects \ {o},
         ClearOnReject(o) \/ UNCHANGED <<active, contracts, mishap>>,
         UNCHANGED <<isolated, gen, orders, venue>>
  PROVE  BookInv'
<1>1. \/ UNCHANGED <<active, contracts, mishap>>
      \/ /\ active # 0 /\ active' = 0 /\ contracts' = 0
         /\ mishap' = (mishap \/ o.role = "exit" \/ o.gen # gen)
  BY DEF ClearOnReject
<1>2. orders' \cup rejects' \subseteq orders \cup rejects
  OBVIOUS
<1>3. BookTypes'
  <2>1. active' \in {0} \cup Dirs /\ contracts' \in 0..MaxRaw
    BY <1>1, SizesAreLots DEF BookInv, BookTypes
  <2>2. mishap' \in BOOLEAN
    BY <1>1 DEF BookInv, BookTypes
  <2> QED BY <1>2, <2>1, <2>2 DEF BookInv, BookTypes
<1>4. OneMode'
  BY <1>2 DEF BookInv, OneMode, EntryMode
<1>5. Named'
  BY <1>2 DEF BookInv, Named
<1>6. Tracked'
  BY <1>1, <1>2 DEF BookInv, Tracked, SafeMakeQty
<1>7. ASSUME ~mishap' PROVE Balanced'
  <2>1. Balanced
    BY <1>1, <1>7 DEF BookInv, BookTypes
  <2>2. ASSUME NEW c \in Dirs PROVE Owed(c) \ Due(c) \subseteq (Owed(c) \ Due(c))'
    <3>1. Due(c)' \subseteq Due(c)
      <4>1. \A t \in Grid : t \in Due(c)' => t \in Due(c)
        BY DEF Due
      <4> QED BY <4>1, OpenUnits
    <3>2. CASE UNCHANGED <<active, contracts, mishap>>
      <4>1. \A t \in Grid : t \in Owed(c)' <=> t \in Owed(c)
        BY <3>2 DEF Owed, SafeMakeQty
      <4> QED BY <4>1, <3>1, OpenUnits
    <3>3. CASE active # 0 /\ o.role # "exit" /\ o.gen = gen
      <4>1. o.role = "entry" /\ o.dir = active /\ o.qty = SafeMakeQty(contracts)
        BY <3>3 DEF BookInv, BookTypes, Tracked
      <4>2. \A t \in Grid : t \in Owed(c) => t \in Due(c) \/ t \in Owed(c)'
        BY <3>3, <4>1 DEF Owed, Due
      <4> QED BY <4>2, <3>1, OpenUnits
    <3> QED BY <1>1, <1>7, <3>2, <3>3
  <2>3. ASSUME NEW c \in Dirs PROVE c * Holds' <= Cardinality((Owed(c) \ Due(c))')
    <3>1. c * Holds' <= Cardinality(Owed(c) \ Due(c))
      BY <2>1 DEF Balanced, Holds
    <3>2. Owed(c) \ Due(c) \in SUBSET Grid /\ (Owed(c) \ Due(c))' \in SUBSET Grid
      BY OpenUnits
    <3>3. Cardinality(Owed(c) \ Due(c)) <= Cardinality((Owed(c) \ Due(c))')
      BY <2>2, <3>2, Grows
    <3>4. c * Holds' \in Int
      BY <1>3, DirsType DEF Holds, BookTypes, Modes
    <3>5. Cardinality(Owed(c) \ Due(c)) \in Nat /\ Cardinality((Owed(c) \ Due(c))') \in Nat
      BY OpenUnits
    <3> QED BY <3>1, <3>3, <3>4, <3>5
  <2>4. ASSUME NEW e \in orders', e.role = "entry" PROVE Covered(e)'
    <3>1. e \in orders /\ Covered(e) /\ e # o
      BY <2>1, <2>4 DEF Balanced, BookInv, Named
    <3>2. CASE UNCHANGED <<active, contracts, mishap>>
      BY <3>1, <3>2 DEF Covered
    <3>3. CASE active # 0 /\ o.role # "exit" /\ o.gen = gen
      <4>1. o.role = "entry"
        BY <3>3 DEF BookInv, BookTypes
      <4>2. e.gen # gen
        BY <2>4, <3>1, <3>3, <4>1 DEF BookInv, Named
      <4> QED BY <3>1, <4>2 DEF Covered
    <3> QED BY <1>1, <1>7, <3>2, <3>3
  <2> QED BY <2>3, <2>4 DEF Balanced
<1> QED BY <1>3, <1>4, <1>5, <1>6, <1>7 DEF BookInv

-----------------------------------------------------------------------------
(* The steps of the strategies *)

\* A strategy closes what it tracks, keeps it, or enters from flat.
Trades ==
  \/ active # 0 /\ Close
  \/ active # 0 /\ KeepHolding
  \/ NoOpen
  \/ active = 0 /\ \E d \in Dirs, a \in 0..Hold : Open(d, EntryMode, a)

LEMMA UptoType ==
  ASSUME NEW b \in Nat, NEW n \in 0..b
  PROVE  Upto(n, b) \in 0..b
BY DEF Upto, Least

LEMMA TradeStep ==
  ASSUME TradeInv, Trades, UNCHANGED <<isolated, outside>>
  PROVE  /\ BookInv' /\ age' \in 0..Hold /\ lastDir' \in {0} \cup Dirs
         /\ active # 0 /\ Close => active' = 0
<1>0. Hold \in Nat /\ age \in 0..Hold /\ lastDir \in {0} \cup Dirs
  BY DelaysArePositive DEF TradeInv, ControlTypes
<1>1. CASE active # 0 /\ Close
  <2>1. BookInv' /\ active' = 0
    BY <1>1, CloseBook DEF TradeInv
  <2>2. age' \in {0, Upto(age, Hold)} /\ lastDir' = lastDir
    BY <1>1 DEF Close
  <2> QED BY <1>0, <2>1, <2>2, UptoType
<1>2. CASE active # 0 /\ KeepHolding
  <2>1. UNCHANGED <<isolated, active, contracts, gen, orders, outside>>
    BY <1>2 DEF KeepHolding
  <2>2. BookInv'
    BY <2>1, RestBook DEF TradeInv
  <2>3. age' = Upto(age, Hold) /\ lastDir' = lastDir
    BY <1>2 DEF KeepHolding
  <2>4. active # 0 /\ Close => active' = 0
    BY CloseBook DEF TradeInv
  <2> QED BY <1>0, <2>2, <2>3, <2>4, UptoType
<1>3. CASE NoOpen
  <2>1. UNCHANGED <<isolated, active, contracts, gen, orders, outside>>
    BY <1>3 DEF NoOpen, position
  <2>2. BookInv'
    BY <2>1, RestBook DEF TradeInv
  <2>3. age' = age /\ lastDir' = lastDir
    BY <1>3 DEF NoOpen, position
  <2>4. active # 0 /\ Close => active' = 0
    BY CloseBook DEF TradeInv
  <2> QED BY <1>0, <2>2, <2>3, <2>4
<1>4. CASE active = 0 /\ \E d \in Dirs, a \in 0..Hold : Open(d, EntryMode, a)
  <2>1. PICK d \in Dirs, a \in 0..Hold : Open(d, EntryMode, a)
    BY <1>4
  <2>2. BookInv'
    BY <1>4, <2>1, OpenBook DEF TradeInv
  <2>3. age' = a /\ lastDir' = d
    BY <2>1 DEF Open
  <2> QED BY <1>4, <2>1, <2>2, <2>3
<1> QED BY <1>1, <1>2, <1>3, <1>4 DEF Trades

\* The modes in which the strategies enter are the one of the account.
LEMMA EntersInMode ==
  ASSUME TradeInv
  PROVE  /\ kind \in {"liq", "ob", "range"} => EntryMode = "cross"
         /\ EntryMode = IF isolated THEN "isolated" ELSE "cross"
         /\ 0 \in 0..Hold
BY DelaysArePositive DEF TradeInv, Conduct, EntryMode

LEMMA InitTrade == Init => TradeInv
<1> SUFFICES ASSUME Init PROVE TradeInv
  OBVIOUS
<1>1. /\ active = 0 /\ age = 0 /\ lastDir = 0 /\ exitSign = 0 /\ flipped = FALSE
      /\ task = "idle" /\ wanted = 0 /\ feed = TRUE /\ seenOpp = FALSE
  BY DEF Init, Flat
<1>2. \/ kind \in {"liq", "ob", "range"} /\ isolated = FALSE /\ since = Cool
      \/ kind = "skew" /\ isolated \in BOOLEAN /\ since = Cool
      \/ kind = "ml" /\ isolated \in BOOLEAN /\ since = Hold
  BY DEF Init, LiqInit, ObInit, RangeInit, SkewInit, MlInit
<1>3. ControlTypes
  <2>1. 0 \in 0..Hold /\ since \in 0..(Cool + Hold)
    BY <1>2, DelaysArePositive
  <2> QED BY <1>1, <1>2, <2>1 DEF ControlTypes, Kinds
<1>4. Conduct
  <2>1. kind = "ml" => since <= Hold
    BY <1>2, DelaysArePositive
  <2> QED BY <1>1, <1>2, <2>1 DEF Conduct
<1>5. Gate
  BY <1>1 DEF Gate
<1> QED BY <1>3, <1>4, <1>5, InitBook DEF TradeInv

LEMMA SinceType ==
  ASSUME ControlTypes
  PROVE  /\ 0 \in 0..(Cool + Hold) /\ Cool \in Nat /\ Hold \in Nat
         /\ Upto(since, Cool) \in 0..(Cool + Hold)
         /\ Upto(since, Hold) \in 0..Hold
         /\ Upto(since, Hold) \in 0..(Cool + Hold)
<1>1. Cool \in Nat /\ Hold \in Nat /\ since \in Nat
  BY DelaysArePositive DEF ControlTypes
<1> QED BY <1>1 DEF Upto, Least

LEMMA LiqStep ==
  ASSUME TradeInv, LiqBar \/ LiqEvent
  PROVE  TradeInv'
<1>1. /\ kind = "liq" /\ UNCHANGED <<kind, isolated, exitSign, flipped, tasks, outside, seenOpp>>
  BY DEF LiqBar, LiqEvent
<1>2. ASSUME NEW at \in 0..(Cool + Hold), LiqMaybeTrigger(at)
      PROVE  Trades /\ since' \in 0..(Cool + Hold)
  BY <1>1, <1>2, EntersInMode, SinceType DEF LiqMaybeTrigger, LiqEnter, Trades, TradeInv
<1>3. Trades /\ since' \in 0..(Cool + Hold)
  <2>1. CASE LiqBar /\ active # 0
    BY <2>1, SinceType DEF LiqBar, LiqCheckExit, LiqExit, Trades, TradeInv
  <2>2. CASE LiqBar /\ active = 0
    BY <2>2, <1>2, SinceType DEF LiqBar, TradeInv
  <2>3. CASE LiqEvent
    BY <2>3, <1>2, SinceType DEF LiqEvent, TradeInv, ControlTypes
  <2> QED BY <2>1, <2>2, <2>3
<1>4. BookInv' /\ age' \in 0..Hold /\ lastDir' \in {0} \cup Dirs
  BY <1>1, <1>3, TradeStep
<1>5. ControlTypes' /\ Conduct' /\ Gate'
  BY <1>1, <1>3, <1>4 DEF TradeInv, ControlTypes, Conduct, Gate, tasks
<1> QED BY <1>4, <1>5 DEF TradeInv

LEMMA RangeStep ==
  ASSUME TradeInv, RangeBar
  PROVE  TradeInv'
<1>1. kind = "range" /\ UNCHANGED <<kind, isolated, schedule, tasks, outside, seenOpp>>
  BY DEF RangeBar
<1>2. Trades
  BY <1>1, EntersInMode DEF RangeBar, RangeCheckExit, RangeExit, RangeEnter, Trades
<1>3. BookInv' /\ age' \in 0..Hold /\ lastDir' \in {0} \cup Dirs
  BY <1>1, <1>2, TradeStep
<1>4. ControlTypes' /\ Conduct' /\ Gate'
  BY <1>1, <1>3 DEF TradeInv, ControlTypes, Conduct, Gate, tasks, schedule
<1> QED BY <1>3, <1>4 DEF TradeInv

\* The gate is armed by a close that leaves the position.
LEMMA ObBarStep ==
  ASSUME TradeInv, ObBar
  PROVE  TradeInv'
<1>1. kind = "ob" /\ UNCHANGED <<kind, isolated, tasks, outside, seenOpp>>
  BY DEF ObBar
<1>2. \/ active # 0 /\ ObExit
      \/ active # 0 /\ KeepHolding /\ UNCHANGED <<exitSign, flipped>>
      \/ active = 0 /\ NoOpen /\ UNCHANGED <<exitSign, flipped>>
  BY DEF ObBar, ObCheckExit
<1>3. since' \in {0, Upto(since, Cool)}
  BY DEF ObBar, ObCheckExit, ObExit
<1>4. Trades
  BY <1>2 DEF Trades, ObExit
<1>5. BookInv' /\ age' \in 0..Hold /\ lastDir' \in {0} \cup Dirs
      /\ (active # 0 /\ Close => active' = 0)
  BY <1>1, <1>4, TradeStep
<1>6. active \in {0} \cup Dirs
  BY DEF TradeInv, BookInv, BookTypes
<1>7. CASE active # 0 /\ ObExit
  <2>1. active' = 0 /\ exitSign' = active /\ flipped' = FALSE /\ lastDir' = lastDir
    BY <1>5, <1>7 DEF ObExit, Close
  <2>2. ControlTypes' /\ Conduct'
    BY <1>1, <1>3, <1>5, <1>6, <2>1, SinceType DEF TradeInv, ControlTypes, Conduct, tasks
  <2>3. Gate'
    BY <1>1, <1>7, <2>1 DEF TradeInv, Gate
  <2> QED BY <1>5, <2>2, <2>3 DEF TradeInv
<1>8. CASE UNCHANGED <<exitSign, flipped>> /\ (KeepHolding \/ NoOpen)
  <2>1. lastDir' = lastDir /\ active' = active
    BY <1>8 DEF KeepHolding, NoOpen, position
  <2>2. ControlTypes' /\ Conduct'
    BY <1>1, <1>3, <1>5, <1>8, SinceType DEF TradeInv, ControlTypes, Conduct, tasks
  <2>3. Gate'
    BY <1>1, <1>8, <2>1 DEF TradeInv, Gate
  <2> QED BY <1>5, <2>2, <2>3 DEF TradeInv
<1> QED BY <1>2, <1>7, <1>8

LEMMA ObBookStep ==
  ASSUME TradeInv, ObBook
  PROVE  /\ TradeInv'
         /\ gen' # gen /\ lastDir' = lastDir => seenOpp
<1>1. kind = "ob" /\ UNCHANGED <<kind, isolated, tasks, outside>>
  BY DEF ObBook
<1>2. PICK sign \in {0} \cup Dirs, at \in {since, Upto(since, Cool)} :
        /\ ObAggregate(sign, at)
        /\ seenOpp' = IF gen' # gen THEN FALSE ELSE seenOpp \/ (sign # 0 /\ sign = -lastDir)
  BY DEF ObBook
<1>3. since' \in {since, Upto(since, Cool)} /\ exitSign' = exitSign
  BY <1>2 DEF ObAggregate
<1>4. /\ active \in {0} \cup Dirs /\ exitSign \in {0} \cup Dirs /\ lastDir \in {0} \cup Dirs
      /\ flipped \in BOOLEAN /\ seenOpp \in BOOLEAN
      /\ gen \in Nat
  BY EntriesAreCounted DEF TradeInv, BookInv, BookTypes, ControlTypes
<1>5. CASE NoOpen
  <2>1. Trades
    BY <1>5 DEF Trades
  <2>2. BookInv' /\ age' \in 0..Hold /\ lastDir' \in {0} \cup Dirs
    BY <1>1, <2>1, TradeStep
  <2>3. active' = active /\ lastDir' = lastDir /\ gen' = gen
    BY <1>5 DEF NoOpen, position
  <2>4. seenOpp' = (seenOpp \/ (sign # 0 /\ sign = -lastDir))
    BY <1>2, <2>3
  <2>5. flipped' = flipped \/ flipped' = (flipped \/ (exitSign # 0 /\ sign = -exitSign))
    BY <1>2 DEF ObAggregate
  <2>6. ControlTypes' /\ Conduct'
    BY <1>1, <1>3, <1>4, <2>2, <2>3, <2>4, <2>5, SinceType
       DEF TradeInv, ControlTypes, Conduct, tasks
  <2>7. Gate'
    <3>1. ASSUME active' = 0, lastDir' # 0, flipped' PROVE seenOpp'
      <4>1. exitSign = lastDir /\ (flipped => seenOpp)
        BY <1>1, <2>3, <3>1 DEF TradeInv, Gate
      <4>2. CASE flipped
        BY <2>4, <4>1, <4>2
      <4>3. CASE exitSign # 0 /\ sign = -exitSign
        <5>1. sign = -lastDir /\ sign # 0
          BY <1>4, <4>1, <4>3, DirsType
        <5> QED BY <2>4, <5>1
      <4> QED BY <2>5, <3>1, <4>2, <4>3
    <3> QED BY <1>1, <1>3, <2>3, <3>1 DEF TradeInv, Gate
  <2> QED BY <2>2, <2>3, <2>6, <2>7 DEF TradeInv
<1>6. CASE ~NoOpen
  <2>1. /\ active = 0 /\ sign # 0 /\ Open(sign, "cross", 0)
        /\ flipped' = (flipped \/ (exitSign # 0 /\ sign = -exitSign))
        /\ exitSign = 0 \/ flipped'
    BY <1>2, <1>6 DEF ObAggregate, ObEnter
  <2>2. sign \in Dirs
    BY <2>1
  <2>3. Trades
    BY <1>1, <2>1, <2>2, EntersInMode DEF Trades
  <2>4. BookInv' /\ age' \in 0..Hold /\ lastDir' \in {0} \cup Dirs
    BY <1>1, <2>3, TradeStep
  <2>5. active' = sign /\ lastDir' = sign /\ gen' = gen + 1
    BY <2>1 DEF Open
  <2>6. seenOpp' = FALSE
    BY <1>2, <1>4, <2>5
  <2>7. flipped' \in BOOLEAN
    BY <1>4, <2>1
  <2>8. ControlTypes' /\ Conduct' /\ Gate'
    BY <1>1, <1>3, <2>1, <2>4, <2>5, <2>6, <2>7, SinceType
       DEF TradeInv, ControlTypes, Conduct, Gate, tasks
  <2>9. ASSUME lastDir' = lastDir PROVE seenOpp
    <3>1. lastDir = sign /\ lastDir # 0
      BY <2>1, <2>5, <2>9
    <3>2. exitSign = lastDir /\ (flipped => seenOpp)
      BY <1>1, <2>1, <3>1 DEF TradeInv, Gate
    <3>3. sign # -exitSign
      BY <2>2, <3>1, <3>2, DirsType
    <3> QED BY <2>1, <3>1, <3>2, <3>3
  <2> QED BY <2>4, <2>8, <2>9 DEF TradeInv
<1> QED BY <1>5, <1>6

LEMMA CrashStep ==
  ASSUME TradeInv, FeedCrash
  PROVE  TradeInv'
<1>1. /\ UNCHANGED <<kind, isolated, position, schedule, task, wanted, orders, outside, seenOpp>>
      /\ feed' = FALSE
  BY DEF FeedCrash, LiqLoopCrash, ObLoopCrash
<1>2. UNCHANGED <<isolated, active, contracts, gen, orders, outside>>
  BY <1>1 DEF position
<1>3. BookInv'
  BY <1>2, RestBook DEF TradeInv
<1>4. ControlTypes' /\ Conduct' /\ Gate'
  BY <1>1 DEF TradeInv, ControlTypes, Conduct, Gate, position, schedule
<1> QED BY <1>3, <1>4 DEF TradeInv

LEMMA SkewStep ==
  ASSUME TradeInv, SkewBar \/ SkewCheckFunding \/ SkewEnter
  PROVE  TradeInv'
<1>1. kind = "skew" /\ UNCHANGED <<kind, isolated, exitSign, flipped, feed, outside, seenOpp>>
  BY DEF SkewBar, SkewCheckFunding, SkewEnter, schedule
<1>2. CASE SkewBar
  <2>1. Trades /\ since' \in {0, Upto(since, Cool)} /\ wanted' = wanted
    BY <1>2 DEF SkewBar, SkewCheckExit, SkewExit, Trades
  <2>2. task' = task \/ (active = 0 /\ NoOpen /\ task' = "fetch")
    BY <1>2 DEF SkewBar
  <2>3. BookInv' /\ age' \in 0..Hold /\ lastDir' \in {0} \cup Dirs
    BY <1>1, <2>1, TradeStep
  <2>4. task # "idle" => active' = 0
    BY <1>2 DEF SkewBar, NoOpen, position, TradeInv, Conduct
  <2>5. ControlTypes'
    BY <1>1, <2>1, <2>2, <2>3, SinceType DEF TradeInv, ControlTypes
  <2>6. Conduct' /\ Gate'
    BY <1>1, <2>1, <2>2, <2>4 DEF TradeInv, Conduct, Gate, NoOpen, position
  <2> QED BY <2>3, <2>5, <2>6 DEF TradeInv
<1>3. CASE SkewCheckFunding
  <2>1. /\ UNCHANGED <<position, schedule, orders>> /\ task = "fetch"
        /\ \/ task' = "idle" /\ UNCHANGED wanted
           \/ active = 0 /\ task' = "lever" /\ wanted' \in Dirs
    BY <1>3 DEF SkewCheckFunding
  <2>2. Trades
    BY <2>1 DEF Trades, NoOpen
  <2>3. BookInv'
    BY <1>1, <2>2, TradeStep
  <2>4. ControlTypes' /\ Conduct' /\ Gate'
    BY <1>1, <2>1 DEF TradeInv, ControlTypes, Conduct, Gate, position, schedule
  <2> QED BY <2>3, <2>4 DEF TradeInv
<1>4. CASE SkewEnter
  <2>1. /\ Open(wanted, EntryMode, 0) \/ NoOpen
        /\ task = "lever" /\ task' = "idle" /\ wanted' = 0 /\ since' = since
    BY <1>4, EntersInMode DEF SkewEnter, schedule
  <2>2. active = 0 /\ wanted \in Dirs
    BY <2>1 DEF TradeInv, Conduct
  <2>3. Trades
    BY <2>1, <2>2, EntersInMode DEF Trades
  <2>4. BookInv' /\ age' \in 0..Hold /\ lastDir' \in {0} \cup Dirs
    BY <1>1, <2>3, TradeStep
  <2>5. ControlTypes' /\ Conduct' /\ Gate'
    BY <1>1, <2>1, <2>4 DEF TradeInv, ControlTypes, Conduct, Gate
  <2> QED BY <2>4, <2>5 DEF TradeInv
<1> QED BY <1>2, <1>3, <1>4

\* A leg of ml_fusion ages with the time since the prediction it came from, so
\* that the horizon closes it on the bar that starts the next.
LEMMA MlStep ==
  ASSUME TradeInv, MlBar \/ MlPredict \/ MlOpenLeg
  PROVE  TradeInv'
<1>1. kind = "ml" /\ UNCHANGED <<kind, isolated, exitSign, flipped, feed, outside, seenOpp>>
  BY DEF MlBar, MlPredict, MlOpenLeg, schedule
<1>2. since \in 0..Hold /\ (active # 0 => age = since) /\ Hold \in Nat /\ Hold > 0
  BY <1>1, DelaysArePositive DEF TradeInv, Conduct, ControlTypes
<1>3. CASE MlBar
  <2>1. \/ active # 0 /\ Upto(age, Hold) >= Hold /\ Close
        \/ active # 0 /\ ~(Upto(age, Hold) >= Hold) /\ KeepHolding
        \/ active = 0 /\ NoOpen
    BY <1>3 DEF MlBar, MlCloseLeg
  <2>2. /\ wanted' = wanted
        /\ \/ Upto(since, Hold) >= Hold /\ task = "idle" /\ since' = 0 /\ task' = "fetch"
           \/ ~(Upto(since, Hold) >= Hold /\ task = "idle")
              /\ since' = Upto(since, Hold) /\ task' = task
    BY <1>3 DEF MlBar
  <2>3. Trades
    BY <2>1 DEF Trades
  <2>4. BookInv' /\ age' \in 0..Hold /\ lastDir' \in {0} \cup Dirs
        /\ (active # 0 /\ Close => active' = 0)
    BY <1>1, <2>3, TradeStep
  <2>5. active' # 0 =>
          /\ active # 0 /\ ~(Upto(age, Hold) >= Hold)
          /\ active' = active /\ age' = Upto(age, Hold)
    BY <2>1, <2>4 DEF KeepHolding, NoOpen, position
  <2>6. active' # 0 => task' = task /\ since' = age'
    BY <1>2, <2>2, <2>5
  <2>7. since' \in 0..Hold
    BY <1>2, <2>2, UptoType
  <2>8. ControlTypes'
    <3>1. since' \in 0..(Cool + Hold)
      BY <2>7, DelaysArePositive
    <3> QED BY <1>1, <2>2, <2>4, <3>1 DEF TradeInv, ControlTypes
  <2>9. task' # "idle" => active' = 0
    BY <2>5, <2>6 DEF TradeInv, Conduct
  <2>10. Conduct' /\ Gate'
    BY <1>1, <1>2, <2>2, <2>6, <2>7, <2>9 DEF TradeInv, Conduct, Gate
  <2> QED BY <2>4, <2>8, <2>10 DEF TradeInv
<1>4. CASE MlPredict
  <2>1. task = "fetch" /\ active = 0 /\ since' = since
    BY <1>4 DEF MlPredict, TradeInv, Conduct, schedule
  <2>2. /\ NoOpen
        /\ \/ task' = "lever" /\ wanted' \in Dirs /\ active' = 0
           \/ task' = "idle" /\ wanted' = 0
    BY <1>4, <2>1 DEF MlPredict
  <2>3. Trades
    BY <2>2 DEF Trades
  <2>4. BookInv' /\ age' \in 0..Hold /\ lastDir' \in {0} \cup Dirs
    BY <1>1, <2>3, TradeStep
  <2>5. active' = 0
    BY <2>1, <2>2 DEF NoOpen, position
  <2>6. ControlTypes' /\ Conduct' /\ Gate'
    BY <1>1, <2>1, <2>2, <2>4, <2>5 DEF TradeInv, ControlTypes, Conduct, Gate
  <2> QED BY <2>4, <2>6 DEF TradeInv
<1>5. CASE MlOpenLeg
  <2>1. /\ Open(wanted, EntryMode, since) \/ NoOpen
        /\ task = "lever" /\ task' = "idle" /\ wanted' = 0 /\ since' = since
    BY <1>5, EntersInMode DEF MlOpenLeg, schedule
  <2>2. active = 0 /\ wanted \in Dirs
    BY <2>1 DEF TradeInv, Conduct
  <2>3. Trades
    BY <1>2, <2>1, <2>2 DEF Trades
  <2>4. BookInv' /\ age' \in 0..Hold /\ lastDir' \in {0} \cup Dirs
    BY <1>1, <2>3, TradeStep
  <2>5. active' # 0 => age' = since'
    BY <2>1, <2>2 DEF Open, NoOpen, position
  <2>6. ControlTypes' /\ Conduct' /\ Gate'
    BY <1>1, <2>1, <2>4, <2>5 DEF TradeInv, ControlTypes, Conduct, Gate
  <2> QED BY <2>4, <2>6 DEF TradeInv
<1> QED BY <1>3, <1>4, <1>5

LEMMA OutsideStep ==
  ASSUME TradeInv, VenueStep \/ OrderRejected
  PROVE  TradeInv'
<1>1. CASE VenueStep
  <2>1. PICK o \in orders : Fill(o) \/ Refuse(o) \/ ExecutedButRejected(o)
    BY <1>1 DEF VenueStep
  <2>2. UNCHANGED <<kind, isolated, position, schedule, tasks, seenOpp>>
    BY <1>1 DEF VenueStep
  <2>3. BookInv'
    BY <2>1, <2>2, VenueBook DEF TradeInv, position
  <2>4. ControlTypes' /\ Conduct' /\ Gate'
    BY <2>2 DEF TradeInv, ControlTypes, Conduct, Gate, position, schedule, tasks
  <2> QED BY <2>3, <2>4 DEF TradeInv
<1>2. CASE OrderRejected
  <2>1. PICK o \in rejects :
          /\ rejects' = rejects \ {o}
          /\ \/ kind # "ml" /\ ClearOnReject(o)
             \/ kind = "ml" /\ UNCHANGED <<active, contracts, age, lastDir, mishap>>
    BY <1>2 DEF OrderRejected, LiqRejected, ObRejected, RangeRejected, SkewRejected, MlRejected
  <2>2. UNCHANGED <<kind, isolated, gen, schedule, tasks, orders, venue, seenOpp>>
    BY <1>2 DEF OrderRejected
  <2>3. BookInv'
    BY <2>1, <2>2, RejectBook DEF TradeInv
  <2>4. \/ active' = active /\ age' = age /\ lastDir' = lastDir
        \/ kind # "ml" /\ active' = 0 /\ age' = 0 /\ lastDir' = 0
    BY <2>1 DEF ClearOnReject
  <2>5. 0 \in 0..Hold
    BY EntersInMode
  <2>6. ControlTypes' /\ Conduct' /\ Gate'
    BY <2>2, <2>4, <2>5 DEF TradeInv, ControlTypes, Conduct, Gate, schedule, tasks
  <2> QED BY <2>3, <2>6 DEF TradeInv
<1> QED BY <1>1, <1>2

LEMMA TradeInvStep == TradeInv /\ [Next]_vars => TradeInv'
<1> SUFFICES ASSUME TradeInv, [Next]_vars PROVE TradeInv'
  OBVIOUS
<1>1. CASE UNCHANGED vars
  <2>1. UNCHANGED <<isolated, active, contracts, gen, orders, outside>>
    BY <1>1 DEF vars, position
  <2>2. BookInv'
    BY <2>1, RestBook DEF TradeInv
  <2>3. ControlTypes' /\ Conduct' /\ Gate'
    BY <1>1 DEF vars, TradeInv, ControlTypes, Conduct, Gate, position, schedule, tasks
  <2> QED BY <2>2, <2>3 DEF TradeInv
<1>2. CASE Next
  BY <1>2, LiqStep, RangeStep, ObBarStep, ObBookStep, CrashStep, SkewStep, MlStep, OutsideStep
     DEF Next, Bar
<1> QED BY <1>1, <1>2

(* With nothing on its way every unit that is held is owed.                *)
LEMMA BookAtRest == TradeInv => BookMatchesVenue
<1>1. ASSUME TradeInv, orders = {}, ~mishap, NEW d \in Dirs, active # d
      PROVE  d * Holds <= 0
  <2>1. Owed(d) = {}
    BY <1>1 DEF Owed
  <2>2. Owed(d) \ Due(d) = {}
    BY <2>1
  <2>3. Cardinality(Owed(d) \ Due(d)) = 0
    BY <2>2, FS_EmptySet
  <2> QED BY <1>1, <2>3 DEF TradeInv, BookInv, Balanced
<1>2. TradeInv => FlatMeansFlat
  <2> SUFFICES ASSUME TradeInv, active = 0, orders = {}, ~mishap, NEW m \in Modes
               PROVE  venue[m] = 0
    BY DEF FlatMeansFlat
  <2>1. venue["cross"] \in Int /\ venue["isolated"] \in Int /\ Modes = {"cross", "isolated"}
    BY DEF TradeInv, BookInv, BookTypes, Modes
  <2>2. \A d \in {1, -1} : d * Holds <= 0
    BY <1>1, DirsType
  <2>3. venue["cross"] + venue["isolated"] = 0
    BY <2>1, <2>2 DEF Holds
  <2>4. venue["cross"] = 0 \/ venue["isolated"] = 0
    BY <2>1 DEF TradeInv, BookInv, OneMode, EntryMode
  <2> QED BY <2>1, <2>3, <2>4
<1>3. TradeInv => NoMoreThanTracked
  <2> SUFFICES ASSUME TradeInv, active # 0, orders = {}, ~mishap
               PROVE  active * Holds <= SafeMakeQty(contracts)
    BY DEF NoMoreThanTracked, Holds
  <2>1. active \in Dirs /\ gen \in 0..MaxEntries /\ gen > 0 /\ contracts \in 0..MaxRaw
    BY <1>1 DEF TradeInv, BookInv, BookTypes, Tracked
  <2>2. gen \in 1..MaxEntries /\ SafeMakeQty(contracts) \in 0..MaxRaw
    <3>1. contracts \in Nat /\ contracts <= MaxRaw
      BY <2>1, SizesAreLots
    <3>2. SafeMakeQty(contracts) \in 0..contracts
      BY <3>1, WholeLots
    <3> QED BY <2>1, <3>1, <3>2, SizesAreLots, EntriesAreCounted
  <2>3. Owed(active) = Block(gen, SafeMakeQty(contracts))
    BY DEF Owed, Block
  <2>4. Cardinality(Block(gen, SafeMakeQty(contracts))) = SafeMakeQty(contracts)
        /\ Block(gen, SafeMakeQty(contracts)) \subseteq Grid
    BY <2>2, BlockSize
  <2>5. Cardinality(Owed(active) \ Due(active)) <= Cardinality(Owed(active))
    BY OpenUnits, Grows
  <2>6. active * Holds <= Cardinality(Owed(active) \ Due(active))
    BY <2>1 DEF TradeInv, BookInv, Balanced
  <2>7. active * Holds \in Int
    BY <2>1, DirsType DEF Holds, TradeInv, BookInv, BookTypes, Modes
  <2> QED BY <2>2, <2>3, <2>4, <2>5, <2>6, <2>7, OpenUnits
<1>4. TradeInv => PredictionStartsFlat
  BY DEF TradeInv, Conduct, PredictionStartsFlat
<1> QED BY <1>2, <1>3, <1>4 DEF BookMatchesVenue

-----------------------------------------------------------------------------
(* Rankings: a strict order of a finite set, and its first members.        *)

Ahead(R, S, i) == {j \in S : <<j, i>> \in R}
First(R, S, n) == {i \in S : Cardinality(Ahead(R, S, i)) < n}

Orders(R, S) ==
  /\ \A i \in S : <<i, i>> \notin R
  /\ \A i, j \in S : i # j => <<i, j>> \in R \/ <<j, i>> \in R
  /\ \A i, j, k \in S : <<i, j>> \in R /\ <<j, k>> \in R => <<i, k>> \in R

LEMMA RankRange ==
  ASSUME NEW R, NEW S, IsFiniteSet(S), Orders(R, S), NEW i \in S
  PROVE  /\ IsFiniteSet(Ahead(R, S, i)) /\ Cardinality(S) \in Nat
         /\ Cardinality(Ahead(R, S, i)) \in 0..(Cardinality(S) - 1)
<1>1. Ahead(R, S, i) \in SUBSET (S \ {i})
  BY DEF Ahead, Orders
<1>2. /\ IsFiniteSet(S \ {i}) /\ Cardinality(S) \in Nat
      /\ Cardinality(S \ {i}) = Cardinality(S) - 1
  BY FS_RemoveElement, FS_CardinalityType
<1>3. IsFiniteSet(Ahead(R, S, i)) /\ Cardinality(Ahead(R, S, i)) <= Cardinality(S \ {i})
  BY <1>1, <1>2, FS_Subset
<1>4. Cardinality(Ahead(R, S, i)) \in Nat
  BY <1>3, FS_CardinalityType
<1> QED BY <1>2, <1>3, <1>4

LEMMA RankRises ==
  ASSUME NEW R, NEW S, IsFiniteSet(S), Orders(R, S), NEW i \in S, NEW j \in S, <<i, j>> \in R
  PROVE  Cardinality(Ahead(R, S, i)) < Cardinality(Ahead(R, S, j))
<1>1. Ahead(R, S, i) \in SUBSET Ahead(R, S, j) /\ Ahead(R, S, i) # Ahead(R, S, j)
  <2>1. i \in Ahead(R, S, j) /\ i \notin Ahead(R, S, i)
    BY DEF Ahead, Orders
  <2> QED BY <2>1 DEF Ahead, Orders
<1>2. IsFiniteSet(Ahead(R, S, j)) /\ Cardinality(Ahead(R, S, j)) \in Int
      /\ Cardinality(Ahead(R, S, i)) \in Int
  BY RankRange
<1>3. /\ Cardinality(Ahead(R, S, i)) <= Cardinality(Ahead(R, S, j))
      /\ Cardinality(Ahead(R, S, i)) # Cardinality(Ahead(R, S, j))
  BY <1>1, <1>2, FS_Subset
<1> QED BY <1>2, <1>3

(* Every rank is taken once, so n ranks are those of n members.            *)
LEMMA FirstCount ==
  ASSUME NEW R, NEW S, IsFiniteSet(S), Orders(R, S), NEW n \in Nat
  PROVE  /\ First(R, S, n) \subseteq S /\ IsFiniteSet(First(R, S, n))
         /\ Cardinality(First(R, S, n)) = IF n < Cardinality(S) THEN n ELSE Cardinality(S)
<1> DEFINE f == [i \in S |-> Cardinality(Ahead(R, S, i))]
           F == First(R, S, n)
           m == IF n < Cardinality(S) THEN n ELSE Cardinality(S)
           g == [i \in F |-> Cardinality(Ahead(R, S, i))]
<1>0. Cardinality(S) \in Nat /\ m \in Nat
  BY FS_CardinalityType
<1>1. f \in Injection(S, 0..(Cardinality(S) - 1))
  <2>1. f \in [S -> 0..(Cardinality(S) - 1)]
    BY RankRange
  <2>2. ASSUME NEW i \in S, NEW j \in S, f[i] = f[j] PROVE i = j
    <3>1. CASE <<i, j>> \in R
      BY <2>2, <3>1, RankRises, RankRange
    <3>2. CASE <<j, i>> \in R
      BY <2>2, <3>2, RankRises, RankRange
    <3> QED BY <3>1, <3>2 DEF Orders
  <2> QED BY <2>1, <2>2 DEF Injection, IsInjective
<1>2. f \in Surjection(S, 0..(Cardinality(S) - 1))
  <2>1. /\ IsFiniteSet(0..(Cardinality(S) - 1))
        /\ Cardinality(0..(Cardinality(S) - 1)) = Cardinality(S)
    BY <1>0, FS_Interval
  <2> QED BY <1>1, <2>1, FS_Injection
<1>3. F \in SUBSET S /\ IsFiniteSet(F)
  BY FS_Subset DEF First
<1>4. \A i \in F : g[i] = f[i] /\ f[i] \in 0..(m - 1)
  BY <1>0, RankRange DEF First
<1>5. g \in Injection(F, 0..(m - 1))
  <2> HIDE DEF g, f, F, m
  <2>1. g \in [F -> 0..(m - 1)]
    BY <1>4 DEF g
  <2>2. \A i, j \in F : g[i] = g[j] => i = j
    BY <1>1, <1>3, <1>4 DEF Injection, IsInjective
  <2> QED BY <2>1, <2>2 DEF Injection, IsInjective
<1>6. g \in Surjection(F, 0..(m - 1))
  <2>1. ASSUME NEW r \in 0..(m - 1) PROVE \E i \in F : g[i] = r
    <3>1. r \in 0..(Cardinality(S) - 1) /\ r < n
      BY <1>0
    <3>2. PICK i \in S : f[i] = r
      BY <1>2, <3>1 DEF Surjection
    <3>3. i \in F
      BY <3>1, <3>2 DEF First
    <3> QED BY <1>4, <3>2, <3>3
  <2>2. g \in [F -> 0..(m - 1)]
    BY <1>5 DEF Injection
  <2> HIDE DEF g, F, m
  <2> QED BY <2>1, <2>2 DEF Surjection
<1>7. IsFiniteSet(0..(m - 1)) /\ Cardinality(0..(m - 1)) = m
  <2> HIDE DEF m
  <2>1. m - 1 \in Int /\ 0 \in Int
    BY <1>0
  <2>2. /\ IsFiniteSet(0..(m - 1))
        /\ Cardinality(0..(m - 1)) = IF 0 > m - 1 THEN 0 ELSE (m - 1) - 0 + 1
    BY <2>1, FS_Interval, Zenon
  <2> QED BY <1>0, <2>2
<1>8. Cardinality(F) = m
  <2> HIDE DEF g, F, m
  <2> QED BY <1>5, <1>6, <1>7, FS_Injection
<1> QED BY <1>3, <1>8

(* Who is among the first is before who is not.                            *)
LEMMA FirstIsAhead ==
  ASSUME NEW R, NEW S, IsFiniteSet(S), Orders(R, S), NEW n \in Nat,
         NEW i \in First(R, S, n), NEW j \in S \ First(R, S, n)
  PROVE  <<i, j>> \in R
<1>1. i \in S /\ j \in S /\ i # j
  BY DEF First
<1>2. ~(Cardinality(Ahead(R, S, j)) < Cardinality(Ahead(R, S, i)))
  BY <1>1, RankRange DEF First
<1> QED BY <1>1, <1>2, RankRises DEF Orders

(* The first n and the last k of at least n + k are different ones.        *)
LEMMA FirstAndLastDiffer ==
  ASSUME NEW R, NEW Q, NEW S, IsFiniteSet(S), Orders(R, S), Orders(Q, S),
         \A i, j \in S : <<i, j>> \in R <=> <<j, i>> \in Q,
         NEW n \in Nat, NEW k \in Nat, n + k <= Cardinality(S)
  PROVE  First(R, S, n) \cap First(Q, S, k) = {}
<1> SUFFICES ASSUME NEW i \in S, i \in First(R, S, n), i \in First(Q, S, k) PROVE FALSE
  BY DEF First
<1>1. Ahead(R, S, i) \cup Ahead(Q, S, i) = S \ {i} /\ Ahead(R, S, i) \cap Ahead(Q, S, i) = {}
  <2>1. ASSUME NEW j \in S \ {i} PROVE j \in Ahead(R, S, i) \/ j \in Ahead(Q, S, i)
    BY DEF Orders, Ahead
  <2>2. i \notin Ahead(R, S, i) /\ i \notin Ahead(Q, S, i)
    BY DEF Orders, Ahead
  <2>3. ASSUME NEW j \in S, j \in Ahead(R, S, i), j \in Ahead(Q, S, i) PROVE FALSE
    BY <2>3 DEF Orders, Ahead
  <2> QED BY <2>1, <2>2, <2>3 DEF Ahead
<1>2. /\ IsFiniteSet(Ahead(R, S, i)) /\ IsFiniteSet(Ahead(Q, S, i))
      /\ Cardinality(Ahead(R, S, i)) \in Int /\ Cardinality(Ahead(Q, S, i)) \in Int
      /\ Cardinality(S) \in Nat
  BY RankRange
<1>3. Cardinality(S \ {i}) = Cardinality(S) - 1
  BY FS_RemoveElement
<1>4. Cardinality(S \ {i}) = Cardinality(Ahead(R, S, i)) + Cardinality(Ahead(Q, S, i))
  <2> DEFINE A == Ahead(R, S, i)
             B == Ahead(Q, S, i)
  <2> HIDE DEF A, B
  <2>1. /\ IsFiniteSet(A) /\ IsFiniteSet(B) /\ Cardinality(A) \in Int /\ Cardinality(B) \in Int
        /\ A \cup B = S \ {i} /\ A \cap B = {}
    BY <1>1, <1>2 DEF A, B
  <2>2. Cardinality(A \cup B) = Cardinality(A) + Cardinality(B) - Cardinality(A \cap B)
    BY <2>1, FS_Union
  <2>3. Cardinality(A \cap B) = 0
    BY <2>1, FS_EmptySet
  <2>4. Cardinality(A \cup B) = Cardinality(A) + Cardinality(B)
    BY <2>1, <2>2, <2>3
  <2> QED BY <2>1, <2>4 DEF A, B
<1>5. Cardinality(Ahead(R, S, i)) < n /\ Cardinality(Ahead(Q, S, i)) < k
  BY DEF First
<1> QED BY <1>2, <1>3, <1>4, <1>5

-----------------------------------------------------------------------------
(* The legs of a round                                                     *)

Instruments == Selection!All
Ranking == {p \in Instruments \X Instruments : Selection!Before(p[1], p[2])}
Backward == {p \in Instruments \X Instruments : Selection!Before(p[2], p[1])}

ChoiceTypes ==
  /\ kind \in Selection!SelectionKinds
  /\ score \in [Instruments -> Int] /\ top \in Nat /\ bot \in Nat
  /\ cap \in {Selection!None} \cup Nat /\ (cap # Selection!None => kind = "momentum")
  /\ picked \in BOOLEAN

LEMMA CountsAgree == \A S : Selection!Cardinality(S) = Cardinality(S)
BY DEF Cardinality, Selection!Cardinality

LEMMA KnownFinite ==
  ASSUME NEW S \in SUBSET Selection!Known
  PROVE  IsFiniteSet(S) /\ S \subseteq Instruments /\ Cardinality(S) \in Nat
<1>1. IsFiniteSet(Instruments)
  BY FS_Interval, SelectionAssumption DEF Instruments, Selection!All
<1>2. S \in SUBSET Instruments
  BY DEF Selection!Known, Instruments
<1> QED BY <1>1, <1>2, FS_Subset, FS_CardinalityType

LEMMA RankingOrders ==
  ASSUME ChoiceTypes, NEW S \in SUBSET Instruments
  PROVE  Orders(Ranking, S) /\ Orders(Backward, S)
<1>1. \A i \in S : score[i] \in Int /\ i \in Int
  BY DEF ChoiceTypes, Instruments, Selection!All
<1>2. \A i, j \in S : /\ <<i, j>> \in Ranking <=> Selection!Before(i, j)
                      /\ <<i, j>> \in Backward <=> Selection!Before(j, i)
  BY DEF Ranking, Backward
<1>3. \A i, j, k \in S : Selection!Before(i, j) /\ Selection!Before(j, k) => Selection!Before(i, k)
  BY <1>1 DEF Selection!Before
<1>4. \A i, j \in S : i # j => Selection!Before(i, j) \/ Selection!Before(j, i)
  BY <1>1 DEF Selection!Before
<1>5. \A i \in S : ~Selection!Before(i, i)
  BY <1>1 DEF Selection!Before
<1> QED BY <1>2, <1>3, <1>4, <1>5 DEF Orders

(* A slice of the ranking has as many legs as it asks for, and they are    *)
(* before, or behind, what it leaves.                                      *)
LEMMA FrontFacts ==
  ASSUME ChoiceTypes, NEW S \in SUBSET Selection!Known, NEW n \in Nat
  PROVE  /\ Selection!Front(S, n) \subseteq S
         /\ Cardinality(Selection!Front(S, n)) = IF n < Cardinality(S) THEN n ELSE Cardinality(S)
         /\ \A i \in Selection!Front(S, n), j \in S \ Selection!Front(S, n) : Selection!Before(i, j)
<1>1. IsFiniteSet(S) /\ S \subseteq Instruments /\ Orders(Ranking, S)
  BY KnownFinite, RankingOrders
<1>2. Selection!Front(S, n) = First(Ranking, S, n)
  <2>1. \A i \in S : {j \in S : Selection!Before(j, i)} = Ahead(Ranking, S, i)
    BY <1>1 DEF Ahead, Ranking
  <2> QED BY <2>1, CountsAgree DEF Selection!Front, First
<1>3. \A i, j : <<i, j>> \in Ranking => Selection!Before(i, j)
  BY DEF Ranking
<1>4. /\ First(Ranking, S, n) \subseteq S
      /\ Cardinality(First(Ranking, S, n)) = IF n < Cardinality(S) THEN n ELSE Cardinality(S)
  BY <1>1, FirstCount
<1>5. \A i \in First(Ranking, S, n), j \in S \ First(Ranking, S, n) : <<i, j>> \in Ranking
  BY <1>1, FirstIsAhead
<1> QED BY <1>2, <1>3, <1>4, <1>5

LEMMA BackFacts ==
  ASSUME ChoiceTypes, NEW S \in SUBSET Selection!Known, NEW n \in Nat
  PROVE  /\ Selection!Back(S, n) \subseteq S
         /\ Cardinality(Selection!Back(S, n)) = IF n < Cardinality(S) THEN n ELSE Cardinality(S)
         /\ \A i \in Selection!Back(S, n), j \in S \ Selection!Back(S, n) : Selection!Before(j, i)
<1>1. IsFiniteSet(S) /\ S \subseteq Instruments /\ Orders(Backward, S)
  BY KnownFinite, RankingOrders
<1>2. Selection!Back(S, n) = First(Backward, S, n)
  <2>1. \A i \in S : {j \in S : Selection!Before(i, j)} = Ahead(Backward, S, i)
    BY <1>1 DEF Ahead, Backward
  <2> QED BY <2>1, CountsAgree DEF Selection!Back, First
<1>3. \A i, j : <<i, j>> \in Backward => Selection!Before(j, i)
  BY DEF Backward
<1>4. /\ First(Backward, S, n) \subseteq S
      /\ Cardinality(First(Backward, S, n)) = IF n < Cardinality(S) THEN n ELSE Cardinality(S)
  BY <1>1, FirstCount
<1>5. \A i \in First(Backward, S, n), j \in S \ First(Backward, S, n) : <<i, j>> \in Backward
  BY <1>1, FirstIsAhead
<1> QED BY <1>2, <1>3, <1>4, <1>5

LEMMA FrontBackDiffer ==
  ASSUME ChoiceTypes, NEW n \in Nat, NEW k \in Nat, n + k <= Cardinality(Selection!Known)
  PROVE  Selection!Front(Selection!Known, n) \cap Selection!Back(Selection!Known, k) = {}
<1> DEFINE S == Selection!Known
<1>1. IsFiniteSet(S) /\ S \subseteq Instruments /\ Orders(Ranking, S) /\ Orders(Backward, S)
  BY KnownFinite, RankingOrders
<1>2. /\ \A i \in S : {j \in S : Selection!Before(j, i)} = Ahead(Ranking, S, i)
      /\ \A i \in S : {j \in S : Selection!Before(i, j)} = Ahead(Backward, S, i)
  BY <1>1 DEF Ahead, Ranking, Backward
<1>3. Selection!Front(S, n) = First(Ranking, S, n) /\ Selection!Back(S, k) = First(Backward, S, k)
  BY <1>2, CountsAgree DEF Selection!Front, Selection!Back, First
<1>4. \A i, j \in S : <<i, j>> \in Ranking <=> <<j, i>> \in Backward
  BY <1>1 DEF Ranking, Backward
<1> HIDE DEF S
<1>5. First(Ranking, S, n) \cap First(Backward, S, k) = {}
  BY <1>1, <1>4, FirstAndLastDiffer DEF S
<1> QED BY <1>3, <1>5 DEF S

(* What the invariant says of a pair of legs.                              *)
Best(legs) ==
  /\ \A l \in legs.long : \A i \in Selection!Known \ legs.long :
       Selection!Merit(l) >= Selection!Merit(i)
  /\ \A s \in legs.short : \A i \in Selection!Known \ legs.short :
       Selection!Merit(s) <= Selection!Merit(i)
Enough == Cardinality(Selection!Known) >= top + bot
Used(legs) ==
  (kind = "momentum" /\ Enough) =>
    Cardinality(legs.long) + Cardinality(legs.short) =
      IF cap = Selection!None THEN top + bot ELSE Selection!Least(cap, top + bot)
Filled(legs) ==
  (Enough /\ cap = Selection!None /\ (kind = "funding" => bot > 0)) =>
    Cardinality(legs.long) = top /\ Cardinality(legs.short) = bot

LEMMA MeritIs ==
  ASSUME ChoiceTypes, NEW i \in Selection!Known, NEW j \in Selection!Known, Selection!Before(i, j)
  PROVE  IF kind = "factors" THEN Selection!Merit(i) <= Selection!Merit(j)
                             ELSE Selection!Merit(i) >= Selection!Merit(j)
<1>1. score[i] \in Int /\ score[j] \in Int
  BY DEF Selection!Known, ChoiceTypes, Instruments
<1>2. CASE kind = "funding"
  <2>1. Selection!Merit(i) = 0 - score[i] /\ Selection!Merit(j) = 0 - score[j]
    BY <1>1, <1>2 DEF Selection!Merit
  <2>2. score[i] <= score[j]
    BY <1>1, <1>2 DEF Selection!Before
  <2> QED BY <1>1, <1>2, <2>1, <2>2
<1>3. CASE kind # "funding"
  BY <1>1, <1>3 DEF Selection!Merit, Selection!Before, ChoiceTypes, Selection!SelectionKinds
<1> QED BY <1>2, <1>3

LEMMA FundingIsBest ==
  ASSUME ChoiceTypes, kind = "funding"
  PROVE  Best(Selection!FundingLegs) /\ Used(Selection!FundingLegs) /\ Filled(Selection!FundingLegs)
<1> DEFINE S == Selection!Known
           f == Selection!Front(S, top)
           b == Selection!SliceFromEnd(S, bot)
<1>1. top \in Nat /\ bot \in Nat /\ Cardinality(S) \in Nat
  BY KnownFinite DEF ChoiceTypes
<1>2. Selection!FundingLegs.long = f \ b /\ Selection!FundingLegs.short = b
  BY DEF Selection!FundingLegs
<1>3. CASE bot = 0
  <2>1. b = S
    BY <1>3 DEF Selection!SliceFromEnd
  <2>2. f \subseteq S
    BY <1>1, FrontFacts
  <2> QED BY <1>2, <1>3, <2>1, <2>2 DEF Best, Used, Filled
<1>4. CASE bot # 0
  <2>1. b = Selection!Back(S, bot)
    BY <1>4 DEF Selection!SliceFromEnd
  <2>2. /\ f \subseteq S /\ Cardinality(f) = IF top < Cardinality(S) THEN top ELSE Cardinality(S)
        /\ \A i \in f, j \in S \ f : Selection!Before(i, j)
    BY <1>1, FrontFacts
  <2>3. /\ b \subseteq S /\ Cardinality(b) = IF bot < Cardinality(S) THEN bot ELSE Cardinality(S)
        /\ \A i \in b, j \in S \ b : Selection!Before(j, i)
    BY <1>1, <2>1, BackFacts
  <2>4. Enough => f \cap b = {}
    BY <1>1, <2>1, FrontBackDiffer DEF Enough
  <2> HIDE DEF f, b, S
  <2>5. Best(Selection!FundingLegs)
    <3>1. \A l \in f \ b, i \in S \ (f \ b) : Selection!Merit(l) >= Selection!Merit(i)
      BY <2>2, <2>3, MeritIs DEF S
    <3>2. \A s \in b, i \in S \ b : Selection!Merit(i) >= Selection!Merit(s)
      BY <2>3, MeritIs DEF S
    <3>3. \A i \in S : Selection!Merit(i) \in Int
      BY DEF S, Selection!Merit, Selection!Known, ChoiceTypes, Instruments
    <3> QED BY <1>2, <2>2, <2>3, <3>1, <3>2, <3>3 DEF Best, S
  <2>6. Used(Selection!FundingLegs)
    BY DEF Used
  <2>7. Filled(Selection!FundingLegs)
    <3> SUFFICES ASSUME Enough PROVE Cardinality(f \ b) = top /\ Cardinality(b) = bot
      BY <1>2 DEF Filled
    <3>1. f \ b = f
      BY <2>4
    <3> QED BY <1>1, <2>2, <2>3, <3>1 DEF Enough, S
  <2> QED BY <2>5, <2>6, <2>7
<1> QED BY <1>3, <1>4

LEMMA FactorsAreBest ==
  ASSUME ChoiceTypes, kind = "factors"
  PROVE  Best(Selection!FactorLegs) /\ Used(Selection!FactorLegs) /\ Filled(Selection!FactorLegs)
<1> DEFINE S == Selection!Known
           f == Selection!Front(S, bot)
           b == Selection!Back(S, top)
<1>1. top \in Nat /\ bot \in Nat /\ Cardinality(S) \in Nat
  BY KnownFinite DEF ChoiceTypes
<1>2. Selection!FactorLegs.long = b \ f /\ Selection!FactorLegs.short = f
  BY DEF Selection!FactorLegs
<1>3. /\ f \subseteq S /\ Cardinality(f) = IF bot < Cardinality(S) THEN bot ELSE Cardinality(S)
      /\ \A i \in f, j \in S \ f : Selection!Before(i, j)
  BY <1>1, FrontFacts
<1>4. /\ b \subseteq S /\ Cardinality(b) = IF top < Cardinality(S) THEN top ELSE Cardinality(S)
      /\ \A i \in b, j \in S \ b : Selection!Before(j, i)
  BY <1>1, BackFacts
<1>5. Enough => f \cap b = {}
  BY <1>1, FrontBackDiffer DEF Enough
<1> HIDE DEF f, b, S
<1>6. Best(Selection!FactorLegs)
  <2>1. \A l \in b \ f, i \in S \ (b \ f) : Selection!Merit(i) <= Selection!Merit(l)
    BY <1>3, <1>4, MeritIs DEF S
  <2>2. \A s \in f, i \in S \ f : Selection!Merit(s) <= Selection!Merit(i)
    BY <1>3, MeritIs DEF S
  <2>3. \A i \in S : Selection!Merit(i) \in Int
    BY DEF S, Selection!Merit, Selection!Known, ChoiceTypes, Instruments
  <2> QED BY <1>2, <1>3, <1>4, <2>1, <2>2, <2>3 DEF Best, S
<1>7. Used(Selection!FactorLegs)
  BY DEF Used
<1>8. Filled(Selection!FactorLegs)
  <2> SUFFICES ASSUME Enough PROVE Cardinality(b \ f) = top /\ Cardinality(f) = bot
    BY <1>2 DEF Filled
  <2>1. b \ f = b
    BY <1>5
  <2> QED BY <1>1, <1>3, <1>4, <2>1 DEF Enough, S
<1> QED BY <1>6, <1>7, <1>8

(* Half a unit never carries the ratio above a bound it respects.          *)
LEMMA RatioWithin ==
  ASSUME NEW a \in Nat, NEW b \in Nat \ {0}, NEW c \in Nat, a <= c * b
  PROVE  Selection!RoundRatio(a, b) \in 0..c
<1> DEFINE q == a \div b
           r == a % b
<1>1. q \in Nat /\ r \in 0..(b - 1) /\ a = b * q + r
  OBVIOUS
<1>2. Selection!RoundRatio(a, b) \in {q, q + 1} /\ (r = 0 => Selection!RoundRatio(a, b) = q)
  BY <1>1 DEF Selection!RoundRatio
<1> HIDE DEF q, r
<1>3. q <= c /\ (r > 0 => q < c)
  BY <1>1
<1> QED BY <1>1, <1>2, <1>3

(* The cap is divided without rest, whatever the rounding gives.           *)
LEMMA CapDivides ==
  ASSUME NEW t \in Nat, NEW b \in Nat, NEW c \in Nat, c < t + b, NEW share \in 0..c
  PROVE  LET long  == Selection!Least(share, t)
             short == Selection!Least(c - long, b)
             more  == Selection!Least(long + (c - long - short), t)
             rest  == Selection!Least(c - more, b)
         IN  more \in 0..t /\ rest \in 0..b /\ more + rest = c
BY DEF Selection!Least

LEMMA MomentumIsBest ==
  ASSUME ChoiceTypes, kind = "momentum"
  PROVE  /\ Best(Selection!MomentumLegs) /\ Used(Selection!MomentumLegs)
         /\ Filled(Selection!MomentumLegs)
<1> DEFINE S == Selection!Known
           f == Selection!Front(S, top)
           b == Selection!Back(S, bot)
<1>1. top \in Nat /\ bot \in Nat /\ Cardinality(S) \in Nat
  BY KnownFinite DEF ChoiceTypes
<1>2. CASE ~Enough
  <2>1. Selection!MomentumLegs = Selection!NoLegs
    BY <1>1, <1>2, CountsAgree DEF Enough, Selection!MomentumLegs
  <2> QED BY <1>2, <2>1 DEF Best, Used, Filled, Selection!NoLegs
<1>3. CASE Enough
  <2>1. /\ f \subseteq S /\ Cardinality(f) = top
        /\ \A i \in f, j \in S \ f : Selection!Before(i, j)
    <3>1. /\ f \subseteq S /\ Cardinality(f) = IF top < Cardinality(S) THEN top ELSE Cardinality(S)
          /\ \A i \in f, j \in S \ f : Selection!Before(i, j)
      BY <1>1, FrontFacts
    <3>2. top <= Cardinality(S)
      BY <1>1, <1>3 DEF Enough
    <3> HIDE DEF f, b, S
    <3> QED BY <1>1, <3>1, <3>2
  <2>2. /\ b \subseteq S /\ Cardinality(b) = bot
        /\ \A i \in b, j \in S \ b : Selection!Before(j, i)
    <3>1. /\ b \subseteq S /\ Cardinality(b) = IF bot < Cardinality(S) THEN bot ELSE Cardinality(S)
          /\ \A i \in b, j \in S \ b : Selection!Before(j, i)
      BY <1>1, BackFacts
    <3>2. bot <= Cardinality(S)
      BY <1>1, <1>3 DEF Enough
    <3> HIDE DEF f, b, S
    <3> QED BY <1>1, <3>1, <3>2
  <2>3. b \ f = b
    BY <1>1, <1>3, FrontBackDiffer DEF Enough
  <2>4. Selection!CrossSectionRank = [long |-> f, short |-> b]
    BY <2>3 DEF Selection!CrossSectionRank
  <2>5. Selection!MomentumLegs = IF cap = Selection!None THEN [long |-> f, short |-> b]
                                 ELSE Selection!ApplyInstCountCap(f, b)
    <3>1. Selection!MomentumLegs = IF cap = Selection!None THEN Selection!CrossSectionRank
            ELSE Selection!ApplyInstCountCap(Selection!CrossSectionRank.long, Selection!CrossSectionRank.short)
      BY <1>1, <1>3, CountsAgree DEF Enough, Selection!MomentumLegs
    <3> QED BY <2>4, <3>1
  <2> HIDE DEF f, b, S
  <2>6. \A i \in S : Selection!Merit(i) \in Int
    BY DEF S, Selection!Merit, Selection!Known, ChoiceTypes, Instruments
  <2>7. ASSUME NEW l \in SUBSET f, NEW s \in SUBSET b,
               \A i \in l, j \in f \ l : Selection!Before(i, j),
               \A i \in s, j \in b \ s : Selection!Before(j, i)
        PROVE  Best([long |-> l, short |-> s])
    <3>1. \A i \in l, j \in S \ l : Selection!Merit(i) >= Selection!Merit(j)
      BY <2>1, <2>7, MeritIs DEF S
    <3>2. \A i \in s, j \in S \ s : Selection!Merit(j) >= Selection!Merit(i)
      BY <2>2, <2>7, MeritIs DEF S
    <3> QED BY <2>1, <2>2, <2>6, <3>1, <3>2 DEF Best, S
  <2>8. Best([long |-> f, short |-> b])
    BY <2>7
  <2>9. CASE cap = Selection!None
    BY <1>1, <2>1, <2>2, <2>5, <2>8, <2>9 DEF Used, Filled
  <2>10. CASE cap # Selection!None
    <3>1. cap \in Nat /\ Selection!MomentumLegs = Selection!ApplyInstCountCap(f, b)
      BY <2>5, <2>10 DEF ChoiceTypes
    <3>2. CASE cap = 0 \/ top + bot = 0
      <4>1. Selection!MomentumLegs = Selection!NoLegs
        BY <1>1, <3>1, <3>2 DEF Selection!ApplyInstCountCap
      <4>2. Best(Selection!MomentumLegs)
        BY <4>1 DEF Best, Selection!NoLegs
      <4>3. Cardinality(Selection!MomentumLegs.long) + Cardinality(Selection!MomentumLegs.short) = 0
        BY <4>1, FS_EmptySet DEF Selection!NoLegs
      <4> QED BY <1>1, <2>10, <3>1, <3>2, <4>2, <4>3 DEF Used, Filled, Selection!Least
    <3>3. CASE cap # 0 /\ top + bot # 0 /\ cap >= top + bot
      <4>1. Selection!MomentumLegs = [long |-> f, short |-> b]
        BY <1>1, <2>1, <2>2, <3>1, <3>3, CountsAgree DEF Selection!ApplyInstCountCap
      <4> QED BY <1>1, <2>1, <2>2, <2>8, <2>10, <3>1, <3>3, <4>1
              DEF Used, Filled, Selection!Least
    <3>4. CASE cap # 0 /\ top + bot # 0 /\ cap < top + bot
      <4>1. Selection!MomentumLegs = Selection!DividedCap(f, b)
        BY <1>1, <2>1, <2>2, <3>1, <3>4, CountsAgree DEF Selection!ApplyInstCountCap
      <4> DEFINE share == IF top = 0 THEN 0 ELSE IF bot = 0 THEN cap
                          ELSE Selection!RoundRatio(cap * top, top + bot)
                 long  == Selection!Least(share, top)
                 short == Selection!Least(cap - long, bot)
                 more  == Selection!Least(long + (cap - long - short), top)
                 rest  == Selection!Least(cap - more, bot)
      <4>2. Selection!DividedCap(f, b) = [long |-> Selection!Front(f, more),
                                          short |-> Selection!Back(b, rest)]
        BY <2>1, <2>2, CountsAgree DEF Selection!DividedCap, Selection!CutShorts
      <4>3. share \in 0..cap
        <5>1. cap * top \in Nat /\ top + bot \in Nat \ {0} /\ cap * top <= cap * (top + bot)
          BY <1>1, <3>1, <3>4
        <5>2. Selection!RoundRatio(cap * top, top + bot) \in 0..cap
          BY <3>1, <5>1, RatioWithin
        <5> QED BY <3>1, <5>2
      <4> HIDE DEF share
      <4>4. more \in 0..top /\ rest \in 0..bot /\ more + rest = cap
        BY <1>1, <3>1, <3>4, <4>3, CapDivides
      <4> HIDE DEF long, short, more, rest
      <4>5. /\ Selection!Front(f, more) \subseteq f /\ Cardinality(Selection!Front(f, more)) = more
            /\ \A i \in Selection!Front(f, more), j \in f \ Selection!Front(f, more) :
                 Selection!Before(i, j)
        <5>1. f \in SUBSET Selection!Known /\ more \in Nat /\ more <= top
          BY <1>1, <2>1, <4>4 DEF S
        <5>2. /\ Selection!Front(f, more) \subseteq f
              /\ Cardinality(Selection!Front(f, more)) =
                   IF more < Cardinality(f) THEN more ELSE Cardinality(f)
              /\ \A i \in Selection!Front(f, more), j \in f \ Selection!Front(f, more) :
                   Selection!Before(i, j)
          BY <5>1, FrontFacts
        <5> QED BY <1>1, <2>1, <5>1, <5>2
      <4>6. /\ Selection!Back(b, rest) \subseteq b /\ Cardinality(Selection!Back(b, rest)) = rest
            /\ \A i \in Selection!Back(b, rest), j \in b \ Selection!Back(b, rest) :
                 Selection!Before(j, i)
        <5>1. b \in SUBSET Selection!Known /\ rest \in Nat /\ rest <= bot
          BY <1>1, <2>2, <4>4 DEF S
        <5>2. /\ Selection!Back(b, rest) \subseteq b
              /\ Cardinality(Selection!Back(b, rest)) =
                   IF rest < Cardinality(b) THEN rest ELSE Cardinality(b)
              /\ \A i \in Selection!Back(b, rest), j \in b \ Selection!Back(b, rest) :
                   Selection!Before(j, i)
          BY <5>1, BackFacts
        <5> QED BY <1>1, <2>2, <5>1, <5>2
      <4>7. Best(Selection!MomentumLegs)
        BY <2>7, <4>1, <4>2, <4>5, <4>6
      <4>8. Used(Selection!MomentumLegs)
        <5>1. Cardinality(Selection!MomentumLegs.long)
                + Cardinality(Selection!MomentumLegs.short) = cap
          BY <4>1, <4>2, <4>4, <4>5, <4>6
        <5> QED BY <1>1, <2>10, <3>1, <3>4, <5>1 DEF Used, Selection!Least
      <4>9. Filled(Selection!MomentumLegs)
        BY <2>10 DEF Filled
      <4> QED BY <4>7, <4>8, <4>9
    <3> QED BY <1>1, <3>1, <3>2, <3>3, <3>4
  <2> QED BY <2>9, <2>10
<1> QED BY <1>2, <1>3

ChoiceInv == ChoiceTypes /\ LegsAreBest

LEMMA ChoiceInit == Selection!Init => ChoiceInv
<1> SUFFICES ASSUME Selection!Init PROVE ChoiceInv
  OBVIOUS
<1>1. /\ kind \in Selection!SelectionKinds /\ picked = FALSE
      /\ cap \in {Selection!None} \cup Nat /\ (cap # Selection!None => kind = "momentum")
  <2>1. cap \in IF kind = "momentum" THEN {Selection!None} \cup (0..MaxCap) ELSE {Selection!None}
    BY DEF Selection!Init
  <2> QED BY <2>1, SelectionAssumption DEF Selection!Init
<1>2. score \in [Instruments -> Int] /\ top \in Nat /\ bot \in Nat
  <2>1. {Selection!Unknown} \cup (0..TopScore) \subseteq Int
    BY SelectionAssumption DEF Selection!Unknown
  <2>2. 0..MaxSide \subseteq Nat
    BY SelectionAssumption
  <2> QED BY <2>1, <2>2 DEF Selection!Init, Instruments
<1>3. LegsAreBest
  BY <1>1 DEF LegsAreBest, Selection!ExtremesAreChosen, Selection!CapIsUsed, Selection!BothSidesFull
<1> QED BY <1>1, <1>2, <1>3 DEF ChoiceInv, ChoiceTypes

LEMMA ChoiceStep ==
  ASSUME ChoiceInv, Selection!Next
  PROVE  ChoiceInv'
<1>1. UNCHANGED <<kind, score, top, bot, cap>> /\ picked' = TRUE
  BY DEF Selection!Next, Selection!Select
<1>2. PICK legs \in {Selection!MomentumLegs, Selection!FundingLegs, Selection!FactorLegs} :
        longs' = legs.long /\ shorts' = legs.short /\ Best(legs) /\ Used(legs) /\ Filled(legs)
  <2>1. CASE kind = "momentum" /\ Selection!Pick(Selection!MomentumLegs)
    BY <2>1, MomentumIsBest DEF ChoiceInv, Selection!Pick
  <2>2. CASE kind = "funding" /\ Selection!Pick(Selection!FundingLegs)
    BY <2>2, FundingIsBest DEF ChoiceInv, Selection!Pick
  <2>3. CASE kind = "factors" /\ Selection!Pick(Selection!FactorLegs)
    BY <2>3, FactorsAreBest DEF ChoiceInv, Selection!Pick
  <2> QED BY <2>1, <2>2, <2>3 DEF Selection!Next, Selection!Select
<1>3. Selection!Known' = Selection!Known /\ \A i : Selection!Merit(i)' = Selection!Merit(i)
  BY <1>1 DEF Selection!Known, Selection!Merit
<1>4. Selection!ExtremesAreChosen'
  BY <1>2, <1>3 DEF Selection!ExtremesAreChosen, Best
<1>5. Selection!CapIsUsed'
  BY <1>1, <1>2, <1>3, CountsAgree DEF Selection!CapIsUsed, Used, Enough
<1>6. Selection!BothSidesFull'
  BY <1>1, <1>2, <1>3, CountsAgree DEF Selection!BothSidesFull, Filled, Enough
<1>7. ChoiceTypes'
  BY <1>1 DEF ChoiceInv, ChoiceTypes
<1> QED BY <1>4, <1>5, <1>6, <1>7 DEF ChoiceInv, LegsAreBest

-----------------------------------------------------------------------------
(* The shares of the equity                                                *)

Numbered == [Budget!Names -> Int]

LEMMA SumsExist ==
  ASSUME NEW f, NEW n \in Nat
  PROVE  \E g : g = [k \in 0..n |-> IF k = 0 THEN 0 ELSE g[k - 1] + f[k]]
<1> DEFINE IsSum(g, m) == g = [k \in 0..m |-> IF k = 0 THEN 0 ELSE g[k - 1] + f[k]]
           Bad == {m \in Nat : ~(\E g : IsSum(g, m))}
<1>1. CASE Bad = {}
  BY <1>1
<1>2. CASE Bad # {}
  <2>1. PICK m \in Bad : \A k \in Bad : m <= k
    BY <1>2, HasLeast
  <2>2. m # 0
    <3>1. IsSum([k \in 0..0 |-> 0], 0)
      OBVIOUS
    <3> QED BY <2>1, <3>1
  <2>3. m \in Nat /\ m - 1 \in Nat /\ m - 1 \notin Bad
    <3>1. m \in Nat
      BY <2>1
    <3> HIDE DEF Bad
    <3> QED BY <2>1, <2>2, <3>1
  <2>4. PICK g : IsSum(g, m - 1)
    BY <2>3
  <2> DEFINE h == [k \in 0..m |-> IF k = m THEN g[m - 1] + f[m] ELSE g[k]]
  <2>5. IsSum(h, m)
    <3>1. ASSUME NEW k \in 0..m PROVE h[k] = IF k = 0 THEN 0 ELSE h[k - 1] + f[k]
      <4>1. CASE k = 0
        BY <2>2, <2>3, <2>4, <4>1
      <4>2. CASE k = m
        BY <2>2, <2>3, <4>2
      <4>3. CASE k # 0 /\ k # m
        <5>1. k \in 0..(m - 1) /\ k - 1 \in 0..m /\ k - 1 # m
          BY <2>3, <4>3
        <5> QED BY <2>4, <4>3, <5>1
      <4> QED BY <4>1, <4>2, <4>3
    <3> HIDE DEF h
    <3>2. h = [k \in 0..m |-> h[k]]
      BY DEF h
    <3> QED BY <3>1, <3>2
  <2> QED BY <2>1, <2>5
<1> QED BY <1>1, <1>2

LEMMA SumSteps ==
  ASSUME NEW f
  PROVE  /\ Budget!SumTo(f, 0) = 0
         /\ \A k \in 1..Parties : Budget!SumTo(f, k) = Budget!SumTo(f, k - 1) + f[k]
<1> DEFINE IsSum(g) == g = [n \in 0..Parties |-> IF n = 0 THEN 0 ELSE g[n - 1] + f[n]]
           s == CHOOSE g : IsSum(g)
<1>1. \E g : IsSum(g)
  BY SumsExist, SelectionAssumption
<1>2. IsSum(s)
  BY <1>1
<1>3. \A k : Budget!SumTo(f, k) = s[k]
  BY DEF Budget!SumTo
<1> HIDE DEF s
<1>4. s[0] = 0
  BY <1>2, SelectionAssumption
<1>5. \A k \in 1..Parties : s[k] = s[k - 1] + f[k]
  BY <1>2, SelectionAssumption
<1> QED BY <1>3, <1>4, <1>5

(* Whatever starts at nothing and grows by what f has is the sum of f.     *)
LEMMA SumIs ==
  ASSUME NEW f, NEW g, NEW n \in 0..Parties,
         g[0] = 0, \A k \in 1..n : g[k] = g[k - 1] + f[k]
  PROVE  Budget!SumTo(f, n) = g[n]
<1> DEFINE Bad == {k \in 0..n : Budget!SumTo(f, k) # g[k]}
<1>1. n \in Nat /\ n <= Parties /\ Parties \in Nat
  BY SelectionAssumption
<1>2. CASE Bad # {}
  <2>0. Bad \in SUBSET Nat
    BY <1>1
  <2>1. PICK m \in Bad : \A k \in Bad : m <= k
    BY <1>2, <2>0, HasLeast, Zenon
  <2>2. m \in 0..n /\ Budget!SumTo(f, m) # g[m]
    BY <2>1
  <2>3. m # 0
    BY <2>2, SumSteps
  <2>4. m \in 1..Parties /\ m \in 1..n /\ m - 1 \in 0..n /\ ~(m <= m - 1)
    BY <1>1, <2>2, <2>3
  <2>5. m - 1 \notin Bad
    <3> HIDE DEF Bad
    <3> QED BY <2>1, <2>4
  <2>6. Budget!SumTo(f, m - 1) = g[m - 1]
    BY <2>4, <2>5
  <2>7. Budget!SumTo(f, m) = Budget!SumTo(f, m - 1) + f[m] /\ g[m] = g[m - 1] + f[m]
    BY <2>4, SumSteps
  <2> QED BY <2>2, <2>6, <2>7
<1>3. CASE Bad = {}
  BY <1>1, <1>3
<1> QED BY <1>2, <1>3

LEMMA SumType ==
  ASSUME NEW f \in Numbered, NEW n \in 0..Parties
  PROVE  Budget!SumTo(f, n) \in Int
<1> DEFINE Bad == {k \in 0..Parties : Budget!SumTo(f, k) \notin Int}
<1>1. Parties \in Nat
  BY SelectionAssumption
<1>2. CASE Bad # {}
  <2>0. Bad \in SUBSET Nat
    BY <1>1
  <2>1. PICK m \in Bad : \A k \in Bad : m <= k
    BY <1>2, <2>0, HasLeast, Zenon
  <2>2. m \in 0..Parties /\ Budget!SumTo(f, m) \notin Int
    BY <2>1
  <2>3. m # 0
    BY <2>2, SumSteps
  <2>4. m \in 1..Parties /\ m - 1 \in 0..Parties /\ ~(m <= m - 1)
    BY <1>1, <2>2, <2>3
  <2>5. m - 1 \notin Bad
    <3> HIDE DEF Bad
    <3> QED BY <2>1, <2>4
  <2>6. Budget!SumTo(f, m - 1) \in Int /\ f[m] \in Int
    BY <2>4, <2>5 DEF Numbered, Budget!Names
  <2> QED BY <2>2, <2>4, <2>6, SumSteps
<1> QED BY <1>2

(* Rounding adds half a unit to every term at most.                        *)
LEMMA RoundedSum ==
  ASSUME NEW f \in Numbered, NEW w \in Numbered, NEW W \in Nat, NEW t \in Nat,
         \A s \in Budget!Names : 2 * (W * f[s]) <= 2 * (t * w[s]) + W,
         NEW n \in 0..Parties
  PROVE  2 * (W * Budget!SumTo(f, n)) <= 2 * (t * Budget!SumTo(w, n)) + n * W
<1> DEFINE Bounded(k) == 2 * (W * Budget!SumTo(f, k)) <= 2 * (t * Budget!SumTo(w, k)) + k * W
           Bad == {k \in 0..Parties : ~Bounded(k)}
<1>1. Parties \in Nat
  BY SelectionAssumption
<1>2. CASE Bad # {}
  <2>0. Bad \in SUBSET Nat
    BY <1>1
  <2>1. PICK m \in Bad : \A k \in Bad : m <= k
    BY <1>2, <2>0, HasLeast, Zenon
  <2>2. m \in 0..Parties /\ ~Bounded(m)
    BY <2>1
  <2>3. m # 0
    <3>1. Budget!SumTo(f, 0) = 0 /\ Budget!SumTo(w, 0) = 0
      BY SumSteps
    <3>2. Bounded(0)
      BY <3>1
    <3> QED BY <2>2, <3>2
  <2>4. m \in 1..Parties /\ m - 1 \in 0..Parties /\ ~(m <= m - 1)
    BY <1>1, <2>2, <2>3
  <2>5. m - 1 \notin Bad
    <3> HIDE DEF Bad
    <3> QED BY <2>1, <2>4
  <2>6. PICK a \in Int, b \in Int, x \in Int, y \in Int :
          /\ a = Budget!SumTo(f, m - 1) /\ b = Budget!SumTo(w, m - 1) /\ x = f[m] /\ y = w[m]
    BY <2>4, SumType DEF Numbered, Budget!Names
  <2>7. Budget!SumTo(f, m) = a + x /\ Budget!SumTo(w, m) = b + y
    BY <2>4, <2>6, SumSteps
  <2>8. 2 * (W * a) <= 2 * (t * b) + (m - 1) * W
    BY <2>4, <2>5, <2>6
  <2>9. 2 * (W * x) <= 2 * (t * y) + W
    BY <2>4, <2>6 DEF Budget!Names
  <2>10. m \in Int
    BY <1>1, <2>2
  <2>11. 2 * (W * (a + x)) <= 2 * (t * (b + y)) + m * W
    BY <2>8, <2>9, <2>10
  <2> QED BY <2>2, <2>7, <2>11
<1> QED BY <1>2

(* What the invariant says of the shares of a total.                       *)
Exact(g, t) ==
  /\ g \in Numbered /\ Budget!SumOver(g) = t
  /\ \A s \in Budget!Names : 2 * g[s] >= 1 - Parties

(* The last party takes what the others leave.                             *)
LEMMA LastTakesRest ==
  ASSUME NEW g, NEW t \in Int, NEW r, g[Parties] = t - r, r \in Int,
         Budget!SumTo(g, Parties - 1) = r
  PROVE  Budget!SumOver(g) = t
<1>1. Parties \in 1..Parties
  BY SelectionAssumption
<1>2. Budget!SumTo(g, Parties) = r + (t - r)
  BY <1>1, SumSteps
<1> QED BY <1>2 DEF Budget!SumOver

LEMMA EqualIsExact ==
  ASSUME NEW t \in Nat
  PROVE  Exact(Budget!EqualShares(t), t)
<1> DEFINE per == t \div Parties
           e == Budget!EqualShares(t)
           g == [k \in 0..(Parties - 1) |-> k * per]
<1>1. Parties \in Nat /\ Parties >= 1
  BY SelectionAssumption
<1>2. per \in Nat /\ Parties * per <= t
  BY <1>1
<1>3. e = [s \in Budget!Names |-> IF s = Parties THEN t - per * (Parties - 1) ELSE per]
  BY DEF Budget!EqualShares
<1> HIDE DEF per, e
<1>4. per * (Parties - 1) \in Int /\ per * (Parties - 1) = (Parties - 1) * per
  BY <1>1, <1>2
<1>5. Budget!SumTo(e, Parties - 1) = (Parties - 1) * per
  <2>1. Parties - 1 \in 0..Parties
    BY <1>1
  <2>2. g[0] = 0
    BY <1>1, <1>2
  <2>3. \A k \in 1..(Parties - 1) : g[k] = g[k - 1] + e[k]
    <3> SUFFICES ASSUME NEW k \in 1..(Parties - 1) PROVE g[k] = g[k - 1] + e[k]
      OBVIOUS
    <3>1. e[k] = per /\ k \in 0..(Parties - 1) /\ k - 1 \in 0..(Parties - 1) /\ k \in Int
      BY <1>1, <1>3 DEF Budget!Names
    <3> QED BY <1>2, <3>1
  <2>4. g[Parties - 1] = (Parties - 1) * per
    BY <1>1
  <2> HIDE DEF g
  <2> QED BY <2>1, <2>2, <2>3, <2>4, SumIs
<1>6. Budget!SumOver(e) = t
  <2>1. e[Parties] = t - per * (Parties - 1)
    BY <1>1, <1>3 DEF Budget!Names
  <2> QED BY <1>4, <1>5, <2>1, LastTakesRest
<1>7. e \in Numbered /\ \A s \in Budget!Names : e[s] >= 0
  <2>1. t - per * (Parties - 1) >= 0
    BY <1>1, <1>2
  <2> QED BY <1>2, <1>3, <1>4, <2>1 DEF Numbered
<1>8. \A s \in Budget!Names : 2 * e[s] >= 1 - Parties
  BY <1>1, <1>7 DEF Numbered
<1> QED BY <1>6, <1>7, <1>8 DEF Exact, e

LEMMA QuantizeRounds ==
  ASSUME NEW a \in Nat, NEW b \in Nat \ {0}
  PROVE  Budget!Quantize(a, b) \in Nat /\ 2 * (b * Budget!Quantize(a, b)) <= 2 * a + b
<1> DEFINE q == a \div b
           r == a % b
<1>1. q \in Nat /\ r \in 0..(b - 1) /\ a = b * q + r
  OBVIOUS
<1>2. \/ Budget!Quantize(a, b) = q
      \/ Budget!Quantize(a, b) = q + 1 /\ 2 * r >= b
  BY <1>1 DEF Budget!Quantize
<1> HIDE DEF q, r
<1>3. 2 * (b * q) <= 2 * a + b
  BY <1>1
<1>4. 2 * r >= b => 2 * (b * (q + 1)) <= 2 * a + b
  <2>1. b * (q + 1) = b * q + b
    BY <1>1
  <2> QED BY <1>1, <2>1
<1> QED BY <1>1, <1>2, <1>3, <1>4

LEMMA WeightedIsExact ==
  ASSUME NEW t \in Nat, NEW w \in Budget!Weights, Budget!SumOver(w) # 0
  PROVE  Exact(Budget!WeightedShares(t, w), t)
<1> DEFINE W == Budget!SumOver(w)
           share == [s \in Budget!Names |-> Budget!Quantize(t * w[s], W)]
           S == Budget!SumTo(share, Parties - 1)
           e == Budget!WeightedShares(t, w)
<1>1. Parties \in Nat /\ Parties >= 1 /\ Parties - 1 \in 0..Parties /\ Parties \in 0..Parties
      /\ Parties \in 1..Parties
  BY SelectionAssumption
<1>2. w \in Numbered /\ \A s \in Budget!Names : w[s] \in Nat
  BY SelectionAssumption DEF Budget!Weights, Numbered
<1>3. \A n \in 0..Parties : Budget!SumTo(w, n) \in Nat
  <2> SUFFICES ASSUME NEW n \in 0..Parties PROVE Budget!SumTo(w, n) \in Nat
    OBVIOUS
  <2>1. \A s \in Budget!Names : 2 * (0 * w[s]) <= 2 * (1 * w[s]) + 0
    BY <1>2
  <2>2. 2 * (0 * Budget!SumTo(w, n)) <= 2 * (1 * Budget!SumTo(w, n)) + n * 0
    BY <1>2, <2>1, RoundedSum
  <2>3. Budget!SumTo(w, n) \in Int /\ n \in Int
    BY <1>2, SumType
  <2> QED BY <2>2, <2>3
<1>4. W \in Nat \ {0}
  BY <1>1, <1>3 DEF Budget!SumOver
<1>5. \A s \in Budget!Names : t * w[s] \in Nat
  BY <1>2
<1> HIDE DEF W
<1>6. \A s \in Budget!Names : share[s] \in Nat /\ 2 * (W * share[s]) <= 2 * (t * w[s]) + W
  BY <1>4, <1>5, QuantizeRounds
<1>7. share \in Numbered /\ e = [share EXCEPT ![Parties] = t - S]
  BY <1>6 DEF Numbered, Budget!WeightedShares, W
<1>8. DOMAIN share = Budget!Names
  OBVIOUS
<1> HIDE DEF share, e
<1>9. S \in Int
  BY <1>1, <1>7, SumType
<1>10. 2 * S <= 2 * t + (Parties - 1)
  <2>1. 2 * (W * S) <= 2 * (t * Budget!SumTo(w, Parties - 1)) + (Parties - 1) * W
    BY <1>1, <1>2, <1>4, <1>6, <1>7, RoundedSum
  <2>2. Budget!SumTo(w, Parties - 1) \in Nat /\ Budget!SumTo(w, Parties - 1) <= W
    <3>1. W = Budget!SumTo(w, Parties - 1) + w[Parties]
      BY <1>1, SumSteps DEF W, Budget!SumOver
    <3>2. w[Parties] \in Nat
      BY <1>1, <1>2 DEF Budget!Names
    <3> QED BY <1>1, <1>3, <3>1, <3>2
  <2> HIDE DEF S
  <2>3. PICK v \in Nat : v = Budget!SumTo(w, Parties - 1) /\ v <= W
    BY <2>2
  <2>4. t * v <= t * W
    BY <1>4, <2>3
  <2>5. 2 * (W * S) <= 2 * (t * W) + (Parties - 1) * W
    <3>1. 2 * (W * S) <= 2 * (t * v) + (Parties - 1) * W
      BY <2>1, <2>3
    <3>2. W * S \in Int /\ t * v \in Int /\ t * W \in Int /\ (Parties - 1) * W \in Int
      BY <1>1, <1>4, <1>9
    <3> QED BY <2>4, <3>1, <3>2
  <2>6. ASSUME 2 * S >= 2 * t + (Parties - 1) + 1 PROVE FALSE
    <3>1. W * (2 * S) >= W * (2 * t + (Parties - 1) + 1)
      BY <1>1, <1>4, <1>9, <2>6
    <3>2. W * (2 * t + (Parties - 1) + 1) = 2 * (t * W) + (Parties - 1) * W + W
      BY <1>1, <1>4
    <3>3. W * (2 * S) = 2 * (W * S)
      BY <1>4, <1>9
    <3> QED BY <1>1, <1>4, <1>9, <2>5, <3>1, <3>2, <3>3
  <2> QED BY <1>1, <1>9, <2>6
<1>11. Budget!SumTo(e, Parties - 1) = S
  <2> DEFINE g == [k \in 0..Parties |-> Budget!SumTo(share, k)]
  <2>1. g[0] = 0
    BY <1>1, SumSteps
  <2>2. \A k \in 1..(Parties - 1) : g[k] = g[k - 1] + e[k]
    <3> SUFFICES ASSUME NEW k \in 1..(Parties - 1) PROVE g[k] = g[k - 1] + e[k]
      OBVIOUS
    <3>1. k \in 1..Parties /\ k # Parties /\ k \in 0..Parties /\ k - 1 \in 0..Parties
      BY <1>1
    <3>2. e[k] = share[k]
      BY <1>7, <3>1
    <3> QED BY <3>1, <3>2, SumSteps
  <2>3. g[Parties - 1] = S
    BY <1>1
  <2> HIDE DEF g, S
  <2> QED BY <1>1, <2>1, <2>2, <2>3, SumIs
<1>12. e[Parties] = t - S
  BY <1>1, <1>7, <1>8 DEF Budget!Names
<1>13. Budget!SumOver(e) = t
  BY <1>9, <1>11, <1>12, LastTakesRest
<1>14. e \in Numbered
  <2> HIDE DEF S
  <2>1. t - S \in Int
    BY <1>9
  <2> QED BY <1>7, <2>1 DEF Numbered
<1>15. \A s \in Budget!Names : 2 * e[s] >= 1 - Parties
  <2> SUFFICES ASSUME NEW s \in Budget!Names PROVE 2 * e[s] >= 1 - Parties
    OBVIOUS
  <2>1. CASE s = Parties
    BY <1>1, <1>9, <1>10, <1>12, <2>1
  <2>2. CASE s # Parties
    <3>1. e[s] = share[s] /\ share[s] \in Nat
      BY <1>6, <1>7, <2>2
    <3> QED BY <1>1, <3>1
  <2> QED BY <2>1, <2>2
<1> QED BY <1>13, <1>14, <1>15 DEF Exact, e

LEMMA SharesAreExact ==
  ASSUME NEW t \in Totals, NEW g \in Budget!Allocations(t)
  PROVE  Exact(g, t)
<1>1. t \in Nat
  BY SelectionAssumption
<1>2. CASE g = Budget!EqualShares(t)
  BY <1>1, <1>2, EqualIsExact
<1>3. CASE \E w \in Budget!Weights, warm \in BOOLEAN : g = Budget!RiskShares(t, w, warm)
  <2>1. PICK w \in Budget!Weights, warm \in BOOLEAN : g = Budget!RiskShares(t, w, warm)
    BY <1>3
  <2>2. CASE Parties = 1
    <3>1. g = [s \in Budget!Names |-> t] /\ Budget!Names = {1}
      BY <2>1, <2>2 DEF Budget!RiskShares, Budget!Names
    <3>2. Budget!SumTo(g, 1) = Budget!SumTo(g, 0) + g[1] /\ Budget!SumTo(g, 0) = 0
      BY <2>2, SumSteps
    <3>3. Budget!SumOver(g) = t
      BY <1>1, <2>2, <3>1, <3>2 DEF Budget!SumOver
    <3> QED BY <1>1, <2>2, <3>1, <3>3 DEF Exact, Numbered
  <2>3. CASE Parties # 1
    BY <1>1, <2>1, <2>3, EqualIsExact, WeightedIsExact DEF Budget!RiskShares
  <2> QED BY <2>2, <2>3
<1>4. Budget!Allocations(t) \subseteq
        {Budget!EqualShares(t)} \cup
        {Budget!RiskShares(t, i.w, i.warm) : i \in [w : Budget!Weights, warm : BOOLEAN]}
  BY DEF Budget!Allocations, Budget!RiskAllocations
<1> QED BY <1>2, <1>3, <1>4

BudgetInv ==
  /\ kind \in Budget!Modes /\ total \in Totals /\ Exact(granted, total)
  /\ Budget!BudgetsSumToTotal

LEMMA BudgetInit == Budget!Init => BudgetInv
BY SharesAreExact DEF Budget!Init, BudgetInv, Exact, Budget!BudgetsSumToTotal

LEMMA BudgetStep ==
  ASSUME BudgetInv, Budget!Next
  PROVE  BudgetInv'
<1>1. kind' = kind /\ total' \in Totals /\ granted' \in Budget!Allocations(total')
      /\ inUse' = Budget!Write(granted')
  BY DEF Budget!Next, Budget!Refresh
<1>2. PICK t \in Totals : t = total' /\ granted' \in Budget!Allocations(t)
  BY <1>1
<1>3. PICK g : g = granted'
  OBVIOUS
<1>4. Exact(g, t)
  BY <1>2, <1>3, SharesAreExact
<1>5. Exact(granted, total)'
  BY <1>2, <1>3, <1>4 DEF Exact
<1>6. (\A s \in Budget!Names : g[s] > 0) => inUse' = g
  BY <1>1, <1>3, <1>4 DEF Budget!Write, Exact, Numbered
<1>7. Budget!BudgetsSumToTotal'
  BY <1>2, <1>3, <1>4, <1>6 DEF Budget!BudgetsSumToTotal, Exact
<1> QED BY <1>1, <1>5, <1>7 DEF BudgetInv

LEMMA QuietBudgetSums ==
  Budget!BudgetQuiet => Budget!SharesSumToTotal /\ Budget!SharesBarelyNegative
<1> SUFFICES ASSUME Budget!BudgetQuiet
             PROVE  Budget!SharesSumToTotal /\ Budget!SharesBarelyNegative
  OBVIOUS
<1>1. total = 0 /\ granted = [s \in Budget!Names |-> 0] /\ Parties \in Nat /\ Parties >= 1
  BY SelectionAssumption DEF Budget!BudgetQuiet
<1> DEFINE g == [k \in 0..Parties |-> 0]
<1>2. g[0] = 0 /\ (\A k \in 1..Parties : g[k] = g[k - 1] + granted[k]) /\ g[Parties] = 0
  BY <1>1 DEF Budget!Names
<1> HIDE DEF g
<1>3. Budget!SumTo(granted, Parties) = 0
  BY <1>1, <1>2, SumIs
<1> QED BY <1>1, <1>3 DEF Budget!SharesSumToTotal, Budget!SumOver, Budget!SharesBarelyNegative

-----------------------------------------------------------------------------
(* The price buffers                                                       *)

Bars == Prices!Entries

(* n candles up to one, as an answer holds them.                           *)
Closed(n, end) == [k \in 1..n |-> Prices!Entry(end - n + k, FALSE)]

(* No entry is from a candle that has not begun, no bar from one that has  *)
(* not been pushed.                                                        *)
Dated(s, p, now0) ==
  \A k \in 1..Len(s) : s[k].candle <= IF s[k].live THEN p ELSE now0

InOrder(s) ==
  \A k \in 1..(Len(s) - 1) :
    \/ s[k].candle <= s[k + 1].candle
    \/ ~s[k].live /\ s[k + 1].live /\ s[k].candle = s[k + 1].candle + 1

(* Pushes leave no candle out: after a bar come bars of all candles up to  *)
(* the latest one pushed.                                                  *)
Follows(s, p) ==
  \A k \in 1..Len(s) : s[k].live =>
    \A c \in s[k].candle..p : \E j \in k..Len(s) : s[j].candle = c

Kept(s, p, m) ==
  \A c \in (Cap + 1)..p : \/ c \in m
                          \/ \E k \in 1..Len(s) : s[k].candle = c
                          \/ Len(s) = Cap /\ c < s[1].candle

KeptWhileShort(s, p) ==
  Len(s) = Cap \/ \A c \in (Cap + 1)..p : \E k \in 1..Len(s) : s[k].candle = c

(* An answer that waits to be applied reaches up to its own time, and what *)
(* was pushed since is known to be missed.                                 *)
Waiting(f, p, now0, m) ==
  \/ f = <<>>
  \/ \E e \in (Cap + 1)..now0 : f = Closed(Cap, e) /\ (e + 1)..p \subseteq m

(* A buffer of a strategy, with the latest candle pushed to it, the candle *)
(* that is forming, what was missed and the answer that waits.             *)
Good(strategy, s, p, now0, m, f) ==
  /\ s \in Seq(Bars) /\ Len(s) <= Cap /\ f \in Seq(Bars) /\ m \subseteq Prices!Candles
  /\ p \in Nat
  /\ (p = 0 /\ now0 = Cap + 1) \/ (p \in {now0 - 1, now0} /\ p >= Cap + 1)
  /\ strategy = "factor" => KeptWhileShort(s, p)
  /\ strategy # "factor" =>
       Dated(s, p, now0) /\ InOrder(s) /\ Follows(s, p) /\ Kept(s, p, m) /\ Waiting(f, p, now0, m)

LEMMA BarParts ==
  /\ \A e \in Bars : e.candle \in Nat /\ e.live \in BOOLEAN /\ e.candle >= 1 /\ e.candle <= MaxNow
  /\ \A c \in Prices!Candles, l \in BOOLEAN : Prices!Entry(c, l) \in Bars
  /\ \A c, l : Prices!Entry(c, l).candle = c /\ Prices!Entry(c, l).live = l
BY HistoryAssumption DEF Bars, Prices!Entries, Prices!Entry, Prices!Candles

LEMMA KeepFacts ==
  ASSUME NEW s \in Seq(Bars)
  PROVE  \E d \in 0..Len(s) :
           /\ d = IF Len(s) <= Cap THEN 0 ELSE Len(s) - Cap
           /\ Prices!Keep(s) \in Seq(Bars) /\ Len(Prices!Keep(s)) = Len(s) - d
           /\ \A k \in 1..(Len(s) - d) : Prices!Keep(s)[k] = s[d + k]
<1>1. Len(s) \in Nat /\ Cap \in Nat
  BY LenProperties, HistoryAssumption
<1> DEFINE d == IF Len(s) <= Cap THEN 0 ELSE Len(s) - Cap
<1>2. d \in 0..Len(s) /\ Len(s) - Prices!Least(Len(s), Cap) = d
  <2>1. CASE Len(s) < Cap
    BY <1>1, <2>1 DEF Prices!Least
  <2>2. CASE ~(Len(s) < Cap)
    <3>1. Prices!Least(Len(s), Cap) = Cap
      BY <2>2 DEF Prices!Least
    <3> QED BY <1>1, <2>2, <3>1
  <2> QED BY <2>1, <2>2
<1>3. Prices!Keep(s) = SubSeq(s, d + 1, Len(s))
  BY <1>2 DEF Prices!Keep
<1> HIDE DEF d
<1>4. /\ SubSeq(s, d + 1, Len(s)) \in Seq(Bars)
      /\ Len(SubSeq(s, d + 1, Len(s))) = Len(s) - d
      /\ \A k \in 1..(Len(s) - d) : SubSeq(s, d + 1, Len(s))[k] = s[d + k]
  <2>1. d + 1 \in 1..(Len(s) + 1) /\ Len(s) \in (d + 1 - 1)..Len(s)
    BY <1>1, <1>2
  <2>2. /\ SubSeq(s, d + 1, Len(s)) \in Seq(Bars)
        /\ Len(SubSeq(s, d + 1, Len(s))) =
             IF d + 1 <= Len(s) THEN Len(s) - (d + 1) + 1 ELSE 0
        /\ \A k \in 1..(Len(s) - (d + 1) + 1) : SubSeq(s, d + 1, Len(s))[k] = s[(d + 1) + k - 1]
    BY <2>1, SubSeqProperties
  <2>3. Len(s) - (d + 1) + 1 = Len(s) - d
    BY <1>1, <1>2
  <2>4. Len(SubSeq(s, d + 1, Len(s))) = Len(s) - d
    <3>1. (IF d + 1 <= Len(s) THEN Len(s) - (d + 1) + 1 ELSE 0) = Len(s) - d
      BY <1>1, <1>2
    <3> QED BY <2>2, <3>1
  <2>5. ASSUME NEW k \in 1..(Len(s) - d)
        PROVE  SubSeq(s, d + 1, Len(s))[k] = s[d + k]
    <3>1. k \in 1..(Len(s) - (d + 1) + 1)
      BY <2>3
    <3>2. SubSeq(s, d + 1, Len(s))[k] = s[(d + 1) + k - 1]
      BY <2>2, <3>1
    <3>3. (d + 1) + k - 1 = d + k
      BY <1>1, <1>2
    <3> QED BY <3>2, <3>3
  <2> QED BY <2>2, <2>4, <2>5
<1> QED BY <1>2, <1>3, <1>4 DEF d

LEMMA ClosedFacts ==
  ASSUME NEW n \in 1..Cap, NEW end \in Cap..MaxNow
  PROVE  /\ Closed(n, end) \in Seq(Bars) /\ Len(Closed(n, end)) = n
         /\ \A k \in 1..n : /\ Closed(n, end)[k].candle = end - n + k
                            /\ Closed(n, end)[k].live = FALSE
<1>1. n \in Nat /\ end \in Nat /\ Cap \in Nat /\ MaxNow \in Nat
  BY HistoryAssumption
<1>2. \A k \in 1..n : end - n + k \in Prices!Candles
  BY <1>1 DEF Prices!Candles
<1>3. \A k \in 1..n : Closed(n, end)[k] = Prices!Entry(end - n + k, FALSE)
  BY DEF Closed
<1>4. Closed(n, end) \in [1..n -> Bars]
  BY <1>2, BarParts DEF Closed
<1>5. Closed(n, end) \in Seq(Bars) /\ DOMAIN Closed(n, end) = 1..n
  BY <1>1, <1>4, SeqDef
<1>6. Len(Closed(n, end)) = n
  BY <1>1, <1>5, LenProperties
<1>7. \A k \in 1..n : Closed(n, end)[k].candle = end - n + k /\ Closed(n, end)[k].live = FALSE
  <2> SUFFICES ASSUME NEW k \in 1..n
               PROVE  Closed(n, end)[k].candle = end - n + k /\ Closed(n, end)[k].live = FALSE
    OBVIOUS
  <2> DEFINE c == end - n + k
  <2>1. Closed(n, end)[k] = Prices!Entry(c, FALSE)
    BY <1>3
  <2> HIDE DEF c
  <2>2. Closed(n, end)[k].candle = c /\ Closed(n, end)[k].live = FALSE
    BY <2>1, BarParts
  <2> QED BY <2>2 DEF c
<1> QED BY <1>5, <1>6, <1>7

LEMMA AppendFacts ==
  ASSUME NEW s \in Seq(Bars), NEW c \in Prices!Candles
  PROVE  LET t == Append(s, Prices!Entry(c, TRUE))
         IN  /\ t \in Seq(Bars) /\ Len(t) = Len(s) + 1 /\ Len(s) \in Nat
             /\ \A k \in 1..Len(s) : t[k] = s[k]
             /\ t[Len(s) + 1].candle = c /\ t[Len(s) + 1].live = TRUE
<1> DEFINE e == Prices!Entry(c, TRUE)
           t == Append(s, e)
<1>1. e \in Bars /\ e.candle = c /\ e.live = TRUE
  BY BarParts
<1>2. Len(s) \in Nat
  BY LenProperties
<1>3. /\ t \in Seq(Bars) /\ Len(t) = Len(s) + 1
      /\ \A k \in 1..Len(s) : t[k] = s[k]
      /\ t[Len(s) + 1] = e
  <2> HIDE DEF e
  <2> QED BY <1>1, AppendProperties
<1> HIDE DEF e, t
<1>4. t[Len(s) + 1].candle = c /\ t[Len(s) + 1].live = TRUE
  BY <1>1, <1>3
<1> QED BY <1>2, <1>3, <1>4 DEF t, e

(* A push of candle c: to the end of the buffer, before the buffer is cut. *)
LEMMA Appended ==
  ASSUME NEW s \in Seq(Bars), NEW p \in Nat, NEW now0 \in Nat, NEW c \in Prices!Candles,
         NEW m, NEW m1, m \subseteq m1,
         p <= c, c <= now0, now0 <= c + 1, p = 0 => c = Cap + 1, p # 0 => c <= p + 1,
         Dated(s, p, now0), InOrder(s), Follows(s, p), Kept(s, p, m), Len(s) <= Cap
  PROVE  LET t == Append(s, Prices!Entry(c, TRUE))
         IN  /\ Dated(t, c, now0) /\ InOrder(t) /\ Follows(t, c)
             /\ \A d \in (Cap + 1)..c : \/ d \in m1
                                        \/ \E k \in 1..Len(t) : t[k].candle = d
                                        \/ Len(s) = Cap /\ d < t[1].candle
<1> DEFINE t == Append(s, Prices!Entry(c, TRUE))
           l == Len(s)
<1>1. /\ t \in Seq(Bars) /\ Len(t) = l + 1 /\ l \in Nat
      /\ \A k \in 1..l : t[k] = s[k]
      /\ t[l + 1].candle = c /\ t[l + 1].live = TRUE
  BY AppendFacts
<1>2. \A k \in 1..(l + 1) : t[k] \in Bars
  BY <1>1, ElementOfSeq
<1>3. c \in Nat /\ c >= 1 /\ Cap \in Nat /\ MaxNow \in Nat
  BY HistoryAssumption DEF Prices!Candles
<1>4. \A k \in 1..l : /\ s[k].candle \in Nat /\ s[k].candle >= 1 /\ s[k].live \in BOOLEAN
                      /\ s[k].candle <= IF s[k].live THEN p ELSE now0
  BY <1>1, <1>2, BarParts DEF Dated
<1> HIDE DEF t, l
<1>5. Dated(t, c, now0)
  <2> SUFFICES ASSUME NEW k \in 1..(l + 1)
               PROVE  t[k].candle <= IF t[k].live THEN c ELSE now0
    BY <1>1 DEF Dated
  <2>1. CASE k = l + 1
    BY <1>1, <1>3, <2>1
  <2>2. CASE k \in 1..l
    BY <1>1, <1>3, <1>4, <2>2
  <2> QED BY <1>1, <2>1, <2>2
<1>6. InOrder(t)
  <2> SUFFICES ASSUME NEW k \in 1..l
               PROVE  \/ t[k].candle <= t[k + 1].candle
                      \/ ~t[k].live /\ t[k + 1].live /\ t[k].candle = t[k + 1].candle + 1
    <3>1. Len(t) - 1 = l
      BY <1>1
    <3> QED BY <3>1 DEF InOrder
  <2>1. CASE k = l
    <3>1. t[k].candle = s[l].candle /\ t[k].live = s[l].live /\ t[k + 1].candle = c /\ t[k + 1].live
      BY <1>1, <2>1
    <3>2. s[l].candle <= (IF s[l].live THEN p ELSE now0) /\ s[l].candle \in Nat
          /\ s[l].live \in BOOLEAN
      BY <1>4, <2>1
    <3> QED BY <1>3, <3>1, <3>2
  <2>2. CASE k # l
    <3>1. k \in 1..(l - 1) /\ k + 1 \in 1..l
      BY <1>1, <2>2
    <3>2. t[k] = s[k] /\ t[k + 1] = s[k + 1]
      BY <1>1, <3>1
    <3> QED BY <3>1, <3>2 DEF InOrder, l
  <2> QED BY <2>1, <2>2
<1>7. Follows(t, c)
  <2> SUFFICES ASSUME NEW k \in 1..(l + 1), t[k].live, NEW d \in t[k].candle..c
               PROVE  \E j \in k..(l + 1) : t[j].candle = d
    BY <1>1 DEF Follows
  <2>0. d \in Int /\ l + 1 \in k..(l + 1)
    BY <1>1
  <2>1. CASE d = c
    BY <1>1, <2>0, <2>1
  <2>2. CASE d # c
    <3>1. k \in 1..l
      BY <1>1, <1>3, <2>2
    <3>2. t[k] = s[k] /\ s[k].live /\ s[k].candle \in Nat /\ s[k].candle >= 1 /\ s[k].candle <= p
      BY <1>1, <1>4, <3>1
    <3>3. d \in s[k].candle..p
      BY <1>3, <2>2, <3>2
    <3>4. PICK j \in k..l : s[j].candle = d
      BY <3>1, <3>2, <3>3 DEF Follows, l
    <3>5. j \in 1..l /\ j \in k..(l + 1)
      BY <1>1, <3>1
    <3> QED BY <1>1, <3>4, <3>5
  <2> QED BY <2>1, <2>2
<1>8. ASSUME NEW d \in (Cap + 1)..c
      PROVE  \/ d \in m1
             \/ \E k \in 1..Len(t) : t[k].candle = d
             \/ Len(s) = Cap /\ d < t[1].candle
  <2>1. CASE d = c
    <3>1. l + 1 \in 1..Len(t)
      BY <1>1
    <3> QED BY <1>1, <2>1, <3>1
  <2>2. CASE d # c
    <3>1. d \in (Cap + 1)..p
      BY <1>3, <2>2
    <3>2. CASE d \in m
      BY <3>2
    <3>3. CASE \E k \in 1..l : s[k].candle = d
      <4>1. PICK k \in 1..l : s[k].candle = d
        BY <3>3
      <4>2. k \in 1..Len(t) /\ t[k] = s[k]
        BY <1>1
      <4> QED BY <4>1, <4>2
    <3>4. CASE Len(s) = Cap /\ d < s[1].candle
      <4>1. Cap >= 1
        BY HistoryAssumption
      <4>2. 1 \in 1..l
        BY <1>1, <1>3, <3>4, <4>1 DEF l
      <4> QED BY <1>1, <3>4, <4>2
    <3> QED BY <3>1, <3>2, <3>3, <3>4 DEF Kept, l
  <2> QED BY <2>1, <2>2
<1> QED BY <1>5, <1>6, <1>7, <1>8 DEF t

(* The oldest entry leaves a full buffer.                                  *)
LEMMA OldestLeaves ==
  ASSUME NEW t \in Seq(Bars), Len(t) = Cap + 1, NEW p \in Nat, NEW now0 \in Nat, NEW m,
         Dated(t, p, now0), InOrder(t), Follows(t, p),
         \A d \in (Cap + 1)..p : \/ d \in m
                                 \/ \E k \in 1..Len(t) : t[k].candle = d
                                 \/ d < t[1].candle,
         NEW u \in Seq(Bars), Len(u) = Cap, \A k \in 1..Cap : u[k] = t[k + 1]
  PROVE  Dated(u, p, now0) /\ InOrder(u) /\ Follows(u, p) /\ Kept(u, p, m)
<1>1. Cap \in Nat /\ Cap >= 1
  BY HistoryAssumption
<1>2. \A k \in 1..(Cap + 1) : t[k].candle \in Nat /\ t[k].live \in BOOLEAN
  <2>1. \A k \in 1..(Cap + 1) : t[k] \in Bars
    BY ElementOfSeq
  <2> QED BY <2>1, BarParts
<1>3. Dated(u, p, now0)
  <2> SUFFICES ASSUME NEW k \in 1..Cap
               PROVE  u[k].candle <= IF u[k].live THEN p ELSE now0
    BY DEF Dated
  <2>1. k + 1 \in 1..Len(t)
    BY <1>1
  <2>2. t[k + 1].candle <= IF t[k + 1].live THEN p ELSE now0
    BY <2>1 DEF Dated
  <2> QED BY <2>2
<1>4. InOrder(u)
  <2> SUFFICES ASSUME NEW k \in 1..(Cap - 1)
               PROVE  \/ u[k].candle <= u[k + 1].candle
                      \/ ~u[k].live /\ u[k + 1].live /\ u[k].candle = u[k + 1].candle + 1
    BY DEF InOrder
  <2>1. k \in 1..Cap /\ k + 1 \in 1..Cap /\ k + 1 \in 1..(Len(t) - 1)
    BY <1>1
  <2>2. u[k] = t[k + 1] /\ u[k + 1] = t[(k + 1) + 1]
    BY <2>1
  <2> DEFINE j == k + 1
  <2>3. j \in 1..(Len(t) - 1) /\ u[k] = t[j] /\ u[j] = t[j + 1]
    BY <2>1, <2>2
  <2> HIDE DEF j
  <2>4. \/ u[k].candle <= u[j].candle
        \/ ~u[k].live /\ u[j].live /\ u[k].candle = u[j].candle + 1
    BY <2>3 DEF InOrder
  <2> QED BY <2>4 DEF j
<1>5. Follows(u, p)
  <2> SUFFICES ASSUME NEW k \in 1..Cap, u[k].live, NEW d \in u[k].candle..p
               PROVE  \E j \in k..Cap : u[j].candle = d
    BY DEF Follows
  <2>1. u[k] = t[k + 1] /\ k + 1 \in 1..Len(t)
    BY <1>1
  <2>2. PICK j \in (k + 1)..Len(t) : t[j].candle = d
    BY <2>1 DEF Follows
  <2>3. j - 1 \in k..Cap /\ j - 1 \in 1..Cap /\ (j - 1) + 1 = j
    BY <1>1
  <2> QED BY <2>2, <2>3
<1>6. Kept(u, p, m)
  <2> SUFFICES ASSUME NEW d \in (Cap + 1)..p
               PROVE  d \in m \/ (\E k \in 1..Cap : u[k].candle = d) \/ d < u[1].candle
    BY DEF Kept
  <2>1. PICK a \in Nat, b \in Nat : a = t[1].candle /\ b = t[2].candle
    <3>1. 1 \in 1..(Cap + 1) /\ 2 \in 1..(Cap + 1)
      BY <1>1
    <3> QED BY <1>2, <3>1
  <2>2. u[1] = t[2] /\ 1 \in 1..Cap /\ d \in Int
    BY <1>1
  <2>3. a <= b \/ (t[2].live /\ a = b + 1)
    <3>1. 1 \in 1..(Len(t) - 1)
      BY <1>1
    <3>2. t[1].candle <= t[1 + 1].candle \/ (t[1 + 1].live /\ t[1].candle = t[1 + 1].candle + 1)
      BY <3>1 DEF InOrder
    <3> QED BY <2>1, <3>2
  <2>4. CASE d \in m
    BY <2>4
  <2>5. CASE d < a
    <3>1. d < b \/ d = b
      BY <2>2, <2>3, <2>5
    <3> QED BY <2>1, <2>2, <3>1
  <2>6. CASE \E k \in 2..(Cap + 1) : t[k].candle = d
    <3>1. PICK k \in 2..(Cap + 1) : t[k].candle = d
      BY <2>6
    <3>2. k - 1 \in 1..Cap /\ (k - 1) + 1 = k
      BY <1>1
    <3> QED BY <3>1, <3>2
  <2>7. CASE d = a /\ ~(d < b) /\ d # b
    <3>1. t[2].live /\ d \in t[2].candle..p
      BY <2>1, <2>2, <2>3, <2>7
    <3>2. 2 \in 1..Len(t)
      BY <1>1
    <3>3. \E k \in 2..Len(t) : t[k].candle = d
      BY <3>1, <3>2 DEF Follows
    <3> QED BY <2>6, <3>3
  <2>8. CASE d = a /\ (d < b \/ d = b)
    BY <2>1, <2>2, <2>8
  <2>9. ASSUME NEW k \in 1..(Cap + 1), t[k].candle = d PROVE d = a \/ k \in 2..(Cap + 1)
    BY <1>1, <2>1, <2>9
  <2> QED BY <2>1, <2>4, <2>5, <2>6, <2>7, <2>8, <2>9
<1> QED BY <1>3, <1>4, <1>5, <1>6

(* What a push leaves in the buffer, and what is missed then.              *)
Extended(s, c) == Prices!Keep(Append(s, Prices!Entry(c, TRUE)))
MissedThen(strategy, m, f, c) == IF f # <<>> /\ strategy # "factor" THEN m \cup {c} ELSE m

LEMMA PushGood ==
  ASSUME NEW strategy, NEW s, NEW p, NEW now0 \in (Cap + 1)..MaxNow, NEW m, NEW f,
         Good(strategy, s, p, now0, m, f),
         NEW c \in {p, p + 1, now0}, c \in (now0 - 1)..now0, c > 0, c >= p, p = 0 => c = now0
  PROVE  Good(strategy, Extended(s, c), c, now0, MissedThen(strategy, m, f, c), f)
<1> DEFINE t == Append(s, Prices!Entry(c, TRUE))
           u == Extended(s, c)
           m1 == MissedThen(strategy, m, f, c)
<1>0. u = Prices!Keep(t) /\ m1 = IF f # <<>> /\ strategy # "factor" THEN m \cup {c} ELSE m
  BY DEF Extended, MissedThen
<1> HIDE DEF u, m1
<1>1. /\ s \in Seq(Bars) /\ Len(s) <= Cap /\ f \in Seq(Bars) /\ m \subseteq Prices!Candles /\ p \in Nat
      /\ (p = 0 /\ now0 = Cap + 1) \/ (p \in {now0 - 1, now0} /\ p >= Cap + 1)
      /\ Cap \in Nat /\ MaxNow \in Nat /\ now0 \in Nat
  BY HistoryAssumption DEF Good
<1>2. /\ c \in Nat /\ c >= Cap + 1 /\ c \in {now0 - 1, now0} /\ c \in Prices!Candles
      /\ p <= c /\ c <= now0 /\ now0 <= c + 1 /\ (p = 0 => c = Cap + 1) /\ (p # 0 => c <= p + 1)
  BY <1>1 DEF Prices!Candles
<1>3. /\ t \in Seq(Bars) /\ Len(t) = Len(s) + 1 /\ Len(s) \in Nat
      /\ \A k \in 1..Len(s) : t[k] = s[k]
      /\ t[Len(s) + 1].candle = c
  BY <1>1, <1>2, AppendFacts
<1>4. m \subseteq m1 /\ m1 \subseteq Prices!Candles
  BY <1>0, <1>1, <1>2
<1> HIDE DEF t
<1>5. PICK d \in 0..Len(t) :
        /\ d = IF Len(t) <= Cap THEN 0 ELSE Len(t) - Cap
        /\ u \in Seq(Bars) /\ Len(u) = Len(t) - d
        /\ \A k \in 1..(Len(t) - d) : u[k] = t[d + k]
  BY <1>0, <1>3, KeepFacts
<1>6. /\ Len(u) <= Cap
      /\ Len(s) < Cap => d = 0 /\ Len(u) = Len(s) + 1
      /\ Len(s) = Cap => d = 1 /\ Len(u) = Cap
  <2>1. CASE Len(s) < Cap
    <3>1. Len(t) <= Cap
      BY <1>1, <1>3, <2>1
    <3>2. d = 0
      BY <1>5, <3>1
    <3> QED BY <1>1, <1>3, <1>5, <2>1, <3>1, <3>2
  <2>2. CASE Len(s) = Cap
    <3>1. Len(t) = Cap + 1 /\ ~(Len(t) <= Cap)
      BY <1>1, <1>3, <2>2
    <3>2. d = 1
      BY <1>1, <1>5, <3>1
    <3> QED BY <1>1, <1>5, <2>2, <3>1, <3>2
  <2> QED BY <1>1, <1>3, <2>1, <2>2
<1>7. Len(s) < Cap => u = t
  <2> SUFFICES ASSUME Len(s) < Cap PROVE u = t
    OBVIOUS
  <2>1. Len(u) = Len(t) /\ \A k \in 1..Len(t) : u[k] = t[k]
    <3>1. d = 0 /\ Len(t) \in Nat
      BY <1>3, <1>6
    <3>2. \A k \in 1..Len(t) : 0 + k = k
      BY <3>1
    <3> QED BY <1>5, <3>1, <3>2
  <2> QED BY <1>3, <1>5, <2>1, SeqEqual
<1>8. CASE strategy = "factor"
  <2>1. KeptWhileShort(s, p)
    BY <1>8 DEF Good
  <2>2. KeptWhileShort(u, c)
    <3>1. CASE Len(s) = Cap
      BY <1>6, <3>1 DEF KeptWhileShort
    <3>2. CASE Len(s) < Cap
      <4> SUFFICES ASSUME NEW b \in (Cap + 1)..c PROVE \E k \in 1..Len(t) : t[k].candle = b
        BY <1>7, <3>2 DEF KeptWhileShort
      <4>1. CASE b = c
        BY <1>3, <4>1
      <4>2. CASE b # c
        <5>1. b \in (Cap + 1)..p
          BY <1>1, <1>2, <4>2
        <5>2. PICK k \in 1..Len(s) : s[k].candle = b
          BY <2>1, <3>2, <5>1, <1>1, <1>3 DEF KeptWhileShort
        <5>3. k \in 1..Len(t) /\ t[k] = s[k]
          BY <1>3
        <5> QED BY <5>2, <5>3
      <4> QED BY <4>1, <4>2
    <3> QED BY <1>1, <1>3, <3>1, <3>2
  <2> QED BY <1>1, <1>2, <1>4, <1>5, <1>6, <1>8, <2>2 DEF Good, u, m1
<1>9. CASE strategy # "factor"
  <2>1. Dated(s, p, now0) /\ InOrder(s) /\ Follows(s, p) /\ Kept(s, p, m) /\ Waiting(f, p, now0, m)
    BY <1>9 DEF Good
  <2>2. /\ Dated(t, c, now0) /\ InOrder(t) /\ Follows(t, c)
        /\ \A b \in (Cap + 1)..c : \/ b \in m1
                                   \/ \E k \in 1..Len(t) : t[k].candle = b
                                   \/ Len(s) = Cap /\ b < t[1].candle
    BY <1>1, <1>2, <1>4, <2>1, Appended DEF t
  <2>3. Dated(u, c, now0) /\ InOrder(u) /\ Follows(u, c) /\ Kept(u, c, m1)
    <3>1. CASE Len(s) < Cap
      <4>1. u = t
        BY <1>7, <3>1
      <4> QED BY <1>1, <1>3, <2>2, <3>1, <4>1 DEF Kept
    <3>2. CASE Len(s) = Cap
      <4>1. Len(t) = Cap + 1 /\ Len(u) = Cap /\ d = 1
        BY <1>1, <1>3, <1>6, <3>2
      <4>2. \A k \in 1..Cap : u[k] = t[k + 1]
        BY <1>1, <1>5, <4>1
      <4> QED BY <1>1, <1>2, <1>3, <1>5, <2>2, <4>1, <4>2, OldestLeaves
    <3> QED BY <1>1, <1>3, <3>1, <3>2
  <2>4. Waiting(f, c, now0, m1)
    <3>1. CASE f = <<>>
      BY <3>1 DEF Waiting
    <3>2. CASE f # <<>>
      <4>1. PICK e \in (Cap + 1)..now0 : f = Closed(Cap, e) /\ (e + 1)..p \subseteq m
        BY <2>1, <3>2 DEF Waiting
      <4>2. m1 = m \cup {c}
        BY <1>0, <1>9, <3>2
      <4>3. (e + 1)..c \subseteq m1
        <5> SUFFICES ASSUME NEW b \in (e + 1)..c PROVE b \in m \/ b = c
          BY <4>2
        <5>1. CASE p = 0
          BY <1>1, <1>2, <5>1
        <5>2. CASE p # 0 /\ b # c
          <6>1. b \in (e + 1)..p
            BY <1>1, <1>2, <5>2
          <6> QED BY <4>1, <6>1
        <5> QED BY <5>1, <5>2
      <4> QED BY <4>1, <4>3 DEF Waiting
    <3> QED BY <3>1, <3>2
  <2> QED BY <1>1, <1>2, <1>4, <1>5, <1>6, <1>9, <2>3, <2>4 DEF Good, u, m1
<1> QED BY <1>8, <1>9

(* A candle opens when the one before has been pushed.                     *)
LEMMA TickGood ==
  ASSUME NEW strategy, NEW s, NEW now0 \in (Cap + 1)..MaxNow, NEW m, NEW f,
         Good(strategy, s, now0, now0, m, f)
  PROVE  Good(strategy, s, now0, now0 + 1, m, f)
<1>1. Cap \in Nat /\ MaxNow \in Nat /\ now0 \in Nat /\ now0 >= Cap + 1 /\ now0 = (now0 + 1) - 1
  BY HistoryAssumption
<1>2. CASE strategy = "factor"
  BY <1>1, <1>2 DEF Good
<1>3. CASE strategy # "factor"
  <2>1. /\ Dated(s, now0, now0) /\ InOrder(s) /\ Follows(s, now0) /\ Kept(s, now0, m)
        /\ Waiting(f, now0, now0, m) /\ s \in Seq(Bars)
    BY <1>3 DEF Good
  <2>2. Dated(s, now0, now0 + 1)
    <3> SUFFICES ASSUME NEW k \in 1..Len(s)
                 PROVE  s[k].candle <= IF s[k].live THEN now0 ELSE now0 + 1
      BY DEF Dated
    <3>1. s[k] \in Bars
      BY <2>1, ElementOfSeq
    <3>2. s[k].candle \in Nat
      BY <3>1, BarParts
    <3>3. s[k].candle <= now0
      BY <2>1 DEF Dated
    <3> QED BY <1>1, <3>2, <3>3
  <2>3. Waiting(f, now0, now0 + 1, m)
    <3>1. (Cap + 1)..now0 \subseteq (Cap + 1)..(now0 + 1)
      BY <1>1
    <3> QED BY <2>1, <3>1 DEF Waiting
  <2> QED BY <1>1, <1>3, <2>1, <2>2, <2>3 DEF Good
<1> QED BY <1>2, <1>3

(* An answer, or none, waits.                                              *)
LEMMA FetchGood ==
  ASSUME NEW strategy, NEW s, NEW p, NEW now0 \in (Cap + 1)..MaxNow, NEW m, NEW f,
         Good(strategy, s, p, now0, m, f),
         NEW f1 \in Seq(Bars), strategy # "factor" => f1 = <<>> \/ f1 = Closed(Cap, now0)
  PROVE  Good(strategy, s, p, now0, m, f1)
<1>1. Cap \in Nat /\ now0 \in Nat /\ p \in Nat /\ p <= now0
  BY HistoryAssumption DEF Good
<1>2. strategy # "factor" => Waiting(f1, p, now0, m)
  <2>1. now0 \in (Cap + 1)..now0 /\ (now0 + 1)..p = {}
    BY <1>1
  <2> QED BY <2>1 DEF Waiting
<1> QED BY <1>2 DEF Good

(* The buffer is cleared and refilled, if there is something to do so.     *)
LEMMA RefillGood ==
  ASSUME NEW strategy, strategy # "factor",
         NEW s, NEW p, NEW now0 \in (Cap + 1)..MaxNow, NEW m, NEW f,
         Good(strategy, s, p, now0, m, f)
  PROVE  Good(strategy, IF f = <<>> THEN s ELSE f, p, now0, m, <<>>)
<1>0. <<>> \in Seq(Bars)
  BY EmptySeq
<1>1. CASE f = <<>>
  BY <1>0, <1>1
<1>2. CASE f # <<>>
  <2>1. /\ Cap \in Nat /\ Cap >= 1 /\ MaxNow \in Nat /\ now0 \in Nat
        /\ p \in Nat /\ p <= now0 /\ Cap \in 1..Cap
    BY HistoryAssumption DEF Good
  <2>2. PICK e \in (Cap + 1)..now0 : f = Closed(Cap, e) /\ (e + 1)..p \subseteq m
    BY <1>2 DEF Good, Waiting
  <2>3. e \in Cap..MaxNow /\ e \in Nat /\ e <= now0 /\ e >= Cap + 1
    BY <2>1
  <2>4. /\ f \in Seq(Bars) /\ Len(f) = Cap
        /\ \A k \in 1..Cap : f[k].candle = e - Cap + k /\ f[k].live = FALSE
    BY <2>1, <2>2, <2>3, ClosedFacts
  <2>5. Dated(f, p, now0)
    <3> SUFFICES ASSUME NEW k \in 1..Cap PROVE f[k].candle <= now0
      BY <2>4 DEF Dated
    <3> QED BY <2>1, <2>3, <2>4
  <2>6. InOrder(f)
    <3> SUFFICES ASSUME NEW k \in 1..(Cap - 1) PROVE f[k].candle <= f[k + 1].candle
      BY <2>4 DEF InOrder
    <3>1. k \in 1..Cap /\ k + 1 \in 1..Cap
      BY <2>1
    <3>2. f[k].candle = e - Cap + k /\ f[k + 1].candle = e - Cap + (k + 1)
      BY <2>4, <3>1
    <3> QED BY <2>1, <2>3, <3>1, <3>2
  <2>7. Follows(f, p)
    BY <2>4 DEF Follows
  <2>8. Kept(f, p, m)
    <3> SUFFICES ASSUME NEW c \in (Cap + 1)..p
                 PROVE  c \in m \/ (\E k \in 1..Cap : f[k].candle = c) \/ c < f[1].candle
      BY <2>4 DEF Kept
    <3>1. CASE c > e
      <4>1. c \in (e + 1)..p
        BY <2>1, <2>3, <3>1
      <4> QED BY <2>2, <4>1
    <3>2. CASE c <= e - Cap
      <4>1. f[1].candle = e - Cap + 1
        BY <2>1, <2>4
      <4> QED BY <2>1, <2>3, <3>2, <4>1
    <3>3. CASE c <= e /\ c > e - Cap
      <4> DEFINE k == c - (e - Cap)
      <4>1. k \in 1..Cap /\ e - Cap + k = c
        BY <2>1, <2>3, <3>3
      <4> HIDE DEF k
      <4> QED BY <2>4, <4>1
    <3> QED BY <2>1, <2>3, <3>1, <3>2, <3>3
  <2>9. Waiting(<<>>, p, now0, m)
    BY DEF Waiting
  <2>10. Len(f) <= Cap
    BY <2>1, <2>4
  <2> QED BY <1>0, <1>2, <2>4, <2>5, <2>6, <2>7, <2>8, <2>9, <2>10 DEF Good
<1> QED BY <1>1, <1>2

(* factor_portfolio appends, and only a full buffer loses something.       *)
LEMMA ExtendGood ==
  ASSUME NEW s, NEW p, NEW now0 \in (Cap + 1)..MaxNow, NEW m, NEW f,
         Good("factor", s, p, now0, m, f)
  PROVE  Good("factor", Prices!Keep(s \o f), p, now0, m, <<>>)
<1> DEFINE t == s \o f
           u == Prices!Keep(t)
<1>1. s \in Seq(Bars) /\ f \in Seq(Bars) /\ Len(s) <= Cap /\ Cap \in Nat /\ KeptWhileShort(s, p)
  BY HistoryAssumption DEF Good
<1>2. Len(s) \in Nat /\ Len(f) \in Nat
  BY <1>1, LenProperties
<1>3. /\ t \in Seq(Bars) /\ Len(t) = Len(s) + Len(f)
      /\ \A k \in 1..(Len(s) + Len(f)) : t[k] = IF k <= Len(s) THEN s[k] ELSE f[k - Len(s)]
  BY <1>1, ConcatProperties
<1> HIDE DEF t
<1>4. PICK d \in 0..Len(t) :
        /\ d = IF Len(t) <= Cap THEN 0 ELSE Len(t) - Cap
        /\ u \in Seq(Bars) /\ Len(u) = Len(t) - d
        /\ \A k \in 1..(Len(t) - d) : u[k] = t[d + k]
  BY <1>3, KeepFacts
<1> HIDE DEF u
<1>5. Len(u) <= Cap /\ (Len(u) # Cap => d = 0 /\ Len(u) = Len(s) + Len(f) /\ Len(s) < Cap)
  <2>1. CASE Len(t) <= Cap
    <3>1. d = 0
      BY <1>4, <2>1
    <3> QED BY <1>1, <1>2, <1>3, <1>4, <2>1, <3>1
  <2>2. CASE ~(Len(t) <= Cap)
    <3>1. d = Len(t) - Cap
      BY <1>4, <2>2
    <3>2. Len(t) \in Nat
      BY <1>2, <1>3
    <3> QED BY <1>1, <1>4, <3>1, <3>2
  <2> QED BY <2>1, <2>2
<1>6. KeptWhileShort(u, p)
  <2> SUFFICES ASSUME Len(u) # Cap, NEW c \in (Cap + 1)..p
               PROVE  \E k \in 1..Len(u) : u[k].candle = c
    BY DEF KeptWhileShort
  <2>1. PICK k \in 1..Len(s) : s[k].candle = c
    BY <1>1, <1>2, <1>5 DEF KeptWhileShort
  <2>2. k \in 1..Len(u) /\ k \in 1..(Len(s) + Len(f)) /\ k <= Len(s) /\ 0 + k = k
    BY <1>2, <1>5
  <2>3. u[k] = t[k]
    BY <1>4, <1>5, <2>2
  <2>4. t[k] = s[k]
    BY <1>3, <2>2
  <2> QED BY <2>1, <2>2, <2>3, <2>4
<1>7. <<>> \in Seq(Bars)
  BY EmptySeq
<1> QED BY <1>4, <1>5, <1>6, <1>7 DEF Good, u, t

Insts == Prices!Insts

BufferInv ==
  /\ kind \in Prices!HistoryKinds /\ now \in (Cap + 1)..MaxNow
  /\ pushed \in [Insts -> Nat] /\ missed \in [Insts -> SUBSET Prices!Candles]
  /\ series \in [Insts -> Seq(Bars)] /\ fetched \in [Insts -> Seq(Bars)]
  /\ \A i \in Insts : Good(kind, series[i], pushed[i], now, missed[i], fetched[i])

\* A warm-up that fetches has an attempt left.
WarmupInv ==
  /\ phase \in {"fetch", "apply", "done"} /\ todo \subseteq Insts
  /\ attempt \in 0..Attempts /\ asked \in (Cap + 1)..now
  /\ phase = "apply" => todo = {}
  /\ phase = "fetch" => todo # {} /\ attempt < Attempts
  /\ lastRebalance \in 0..(MaxNow + 1) /\ rebalancing \in BOOLEAN

HistInv == BufferInv /\ WarmupInv

LEMMA HistNumbers ==
  /\ Cap \in Nat /\ Cap >= 1 /\ MaxNow \in Nat /\ MaxNow >= Cap + 1
  /\ Want \in 1..Cap /\ Cap \in 1..Cap /\ Attempts \in Nat /\ Attempts >= 1
  /\ Insts # {} /\ <<>> \in Seq(Bars)
<1>1. 1 \in Insts
  BY HistoryAssumption DEF Insts, Prices!Insts
<1> QED BY <1>1, HistoryAssumption, EmptySeq

LEMMA AnswerIs ==
  ASSUME NEW end \in Cap..MaxNow
  PROVE  /\ kind = "factor" => Prices!Answer(end) = Closed(Want, end)
         /\ kind # "factor" => Prices!Answer(end) = Closed(Cap, end)
         /\ Prices!Answer(end) \in Seq(Bars)
<1>1. /\ kind = "factor" => Prices!Answer(end) = Closed(Want, end)
      /\ kind # "factor" => Prices!Answer(end) = Closed(Cap, end)
  BY DEF Prices!Answer, Closed
<1> QED BY <1>1, HistNumbers, ClosedFacts

LEMMA HistInit == Prices!Init => HistInv
<1> SUFFICES ASSUME Prices!Init PROVE HistInv
  OBVIOUS
<1>1. /\ now = Cap + 1 /\ pushed = [i \in Insts |-> 0] /\ fetched = [i \in Insts |-> <<>>]
      /\ asked = now /\ attempt = 0 /\ lastRebalance = 0 /\ rebalancing = FALSE
      /\ missed = [i \in Insts |-> {}] /\ todo = (IF phase = "fetch" THEN Insts ELSE {})
      /\ kind \in Prices!HistoryKinds /\ phase \in {"fetch", "done"}
      /\ \/ series = [i \in Insts |-> <<>>]
         \/ kind = "factor" /\ series = [i \in Insts |-> Prices!Answer(now - 1)]
  BY DEF Prices!Init, Prices!Starting, Prices!PairStart, Prices!CrossStart, Prices!FactorStart,
     Prices!NotFetched, Prices!HistoryKinds, Insts
<1>2. WarmupInv
  <2>1. /\ now \in (Cap + 1)..now /\ 0 \in 0..Attempts /\ 0 < Attempts /\ 0 \in 0..(MaxNow + 1)
        /\ asked = now /\ attempt = 0 /\ lastRebalance = 0
    BY <1>1, HistNumbers
  <2>2. todo \subseteq Insts /\ (phase = "fetch" => todo # {}) /\ phase # "apply"
    BY <1>1, HistNumbers
  <2> QED BY <1>1, <2>1, <2>2 DEF WarmupInv
<1>3. now \in (Cap + 1)..MaxNow /\ now - 1 \in Cap..MaxNow /\ now - 1 = Cap
  BY <1>1, HistNumbers
<1>4. Prices!Answer(now - 1) \in Seq(Bars)
      /\ (kind = "factor" => Len(Prices!Answer(now - 1)) <= Cap)
  <2>1. Closed(Want, now - 1) \in Seq(Bars) /\ Len(Closed(Want, now - 1)) <= Cap
    <3>1. Want \in 1..Cap /\ Want \in Int /\ Cap \in Int /\ Want <= Cap
      BY HistNumbers
    <3>2. Closed(Want, now - 1) \in Seq(Bars) /\ Len(Closed(Want, now - 1)) = Want
      BY <1>3, <3>1, ClosedFacts
    <3> QED BY <3>1, <3>2
  <2> QED BY <1>3, <2>1, AnswerIs
<1>5. series \in [Insts -> Seq(Bars)] /\ \A i \in Insts : Len(series[i]) <= Cap
  <2>1. Len(<<>>) = 0
    BY EmptySeq
  <2>2. CASE series = [i \in Insts |-> <<>>]
    BY <2>1, <2>2, HistNumbers
  <2>3. CASE kind = "factor" /\ series = [i \in Insts |-> Prices!Answer(now - 1)]
    <3> DEFINE a == Prices!Answer(now - 1)
    <3>1. a \in Seq(Bars) /\ Len(a) <= Cap
      BY <1>4, <2>3
    <3> HIDE DEF a
    <3>2. series = [i \in Insts |-> a]
      BY <2>3 DEF a
    <3> QED BY <3>1, <3>2
  <2> QED BY <1>1, <2>2, <2>3
<1>6. ASSUME NEW i \in Insts
      PROVE  Good(kind, series[i], pushed[i], now, missed[i], fetched[i])
  <2>1. /\ pushed[i] = 0 /\ fetched[i] = <<>> /\ missed[i] = {} /\ (Cap + 1)..0 = {}
        /\ series[i] \in Seq(Bars) /\ Len(series[i]) <= Cap
    BY <1>1, <1>5, HistNumbers
  <2>2. KeptWhileShort(series[i], 0) /\ Kept(series[i], 0, {}) /\ Waiting(<<>>, 0, now, {})
    BY <2>1 DEF KeptWhileShort, Kept, Waiting
  <2>3. kind # "factor" => Dated(series[i], 0, now) /\ InOrder(series[i]) /\ Follows(series[i], 0)
    <3> SUFFICES ASSUME kind # "factor"
                 PROVE  Dated(series[i], 0, now) /\ InOrder(series[i]) /\ Follows(series[i], 0)
      OBVIOUS
    <3>1. series[i] = <<>> /\ Len(<<>>) = 0
      BY <1>1, EmptySeq
    <3> QED BY <3>1 DEF Dated, InOrder, Follows
  <2> QED BY <1>1, <2>1, <2>2, <2>3, HistNumbers DEF Good
<1>7. BufferInv
  BY <1>1, <1>3, <1>5, <1>6, HistNumbers DEF BufferInv
<1> QED BY <1>2, <1>7 DEF HistInv

LEMMA PushStep ==
  ASSUME HistInv, NEW i \in Insts, Prices!Push(i)
  PROVE  HistInv'
<1>1. PICK c \in {pushed[i], pushed[i] + 1, now} :
        /\ c \in (now - 1)..now /\ c > 0 /\ c >= pushed[i] /\ (pushed[i] = 0 => c = now)
        /\ pushed' = [pushed EXCEPT ![i] = c]
        /\ series' = [series EXCEPT ![i] = Prices!Keep(Append(@, Prices!Entry(c, TRUE)))]
        /\ Prices!FactorBar(Prices!Entry(c, TRUE)) /\ Prices!Missed(i, c)
  BY DEF Prices!Push
<1>2. UNCHANGED <<kind, now, phase, todo, asked, fetched, attempt>>
  BY DEF Prices!Push, Prices!warmup
<1>3. /\ kind \in Prices!HistoryKinds /\ now \in (Cap + 1)..MaxNow
      /\ pushed \in [Insts -> Nat] /\ missed \in [Insts -> SUBSET Prices!Candles]
      /\ series \in [Insts -> Seq(Bars)] /\ fetched \in [Insts -> Seq(Bars)]
      /\ \A j \in Insts : Good(kind, series[j], pushed[j], now, missed[j], fetched[j])
      /\ c \in Nat /\ c \in Prices!Candles
  <2>1. BufferInv
    BY DEF HistInv
  <2>2. c \in Prices!Candles
    BY <1>1, <2>1, HistNumbers DEF BufferInv, Prices!Candles
  <2> QED BY <2>1, <2>2 DEF BufferInv, Prices!Candles
<1> DEFINE u == Extended(series[i], c)
           m == MissedThen(kind, missed[i], fetched[i], c)
<1>4. Good(kind, u, c, now, m, fetched[i])
  BY <1>1, <1>3, PushGood
<1>5. missed' = [missed EXCEPT ![i] = m]
  BY <1>1, <1>3 DEF Prices!Missed, MissedThen
<1>6. u \in Seq(Bars) /\ m \subseteq Prices!Candles
  BY <1>4 DEF Good
<1> HIDE DEF u, m
<1>7. series' = [series EXCEPT ![i] = u]
  BY <1>1, <1>3 DEF u, Extended
<1>8. /\ pushed' \in [Insts -> Nat] /\ missed' \in [Insts -> SUBSET Prices!Candles]
      /\ series' \in [Insts -> Seq(Bars)]
  BY <1>1, <1>3, <1>5, <1>6, <1>7
<1>9. \A j \in Insts : Good(kind, series'[j], pushed'[j], now, missed'[j], fetched[j])
  <2> SUFFICES ASSUME NEW j \in Insts
               PROVE  Good(kind, series'[j], pushed'[j], now, missed'[j], fetched[j])
    OBVIOUS
  <2>1. CASE j = i
    <3>1. series'[j] = u /\ pushed'[j] = c /\ missed'[j] = m
      BY <1>1, <1>3, <1>5, <1>7, <2>1
    <3> QED BY <1>4, <2>1, <3>1
  <2>2. CASE j # i
    <3>1. series'[j] = series[j] /\ pushed'[j] = pushed[j] /\ missed'[j] = missed[j]
      BY <1>1, <1>3, <1>5, <1>7, <2>2
    <3> QED BY <1>3, <3>1
  <2> QED BY <2>1, <2>2
<1>10. BufferInv'
  BY <1>2, <1>3, <1>8, <1>9 DEF BufferInv, Good
<1>11. WarmupInv'
  <2>1. Prices!Stamp(Prices!Entry(c, TRUE)) = c + 1
    BY <1>3, BarParts DEF Prices!Stamp
  <2>2. c + 1 \in 0..(MaxNow + 1)
    BY <1>3, HistNumbers DEF Prices!Candles
  <2>3. lastRebalance' \in {lastRebalance, c + 1} /\ rebalancing' \in {rebalancing, TRUE}
    BY <1>1, <2>1 DEF Prices!FactorBar
  <2> QED BY <1>2, <2>2, <2>3 DEF HistInv, WarmupInv
<1> QED BY <1>10, <1>11 DEF HistInv

LEMMA TickStep ==
  ASSUME HistInv, Prices!Tick
  PROVE  HistInv'
<1>1. /\ now < MaxNow /\ \A i \in Insts : pushed[i] = now
      /\ now' = now + 1
      /\ UNCHANGED <<kind, pushed, series, phase, todo, asked, fetched, attempt, lastRebalance,
                     rebalancing, missed>>
  BY DEF Prices!Tick, Prices!warmup, Insts
<1>2. now \in (Cap + 1)..MaxNow /\ now + 1 \in (Cap + 1)..MaxNow
  BY <1>1, HistNumbers DEF HistInv, BufferInv
<1>3. \A i \in Insts : Good(kind, series[i], now, now + 1, missed[i], fetched[i])
  BY <1>1, <1>2, TickGood DEF HistInv, BufferInv
<1>4. \A i \in Insts : Good(kind, series[i], pushed[i], now + 1, missed[i], fetched[i])
  BY <1>1, <1>3
<1>5. BufferInv'
  BY <1>1, <1>2, <1>4 DEF HistInv, BufferInv, Good
<1>6. asked \in (Cap + 1)..(now + 1)
  BY <1>2, HistNumbers DEF HistInv, WarmupInv
<1>7. WarmupInv'
  BY <1>1, <1>6 DEF HistInv, WarmupInv
<1> QED BY <1>5, <1>7 DEF HistInv

(* The answers that wait are replaced, some of them or all.                *)
LEMMA AnswersStep ==
  ASSUME HistInv, UNCHANGED <<kind, now, pushed, series, missed>>,
         fetched' \in [Insts -> Seq(Bars)],
         \A i \in Insts : \/ fetched'[i] = fetched[i] \/ fetched'[i] = <<>>
                          \/ kind # "factor" /\ fetched'[i] = Closed(Cap, now)
                          \/ kind = "factor"
  PROVE  BufferInv'
<1>1. /\ \A i \in Insts : Good(kind, series[i], pushed[i], now, missed[i], fetched[i])
      /\ now \in (Cap + 1)..MaxNow
  BY DEF HistInv, BufferInv
<1>2. \A i \in Insts : Good(kind, series[i], pushed[i], now, missed[i], fetched'[i])
  <2> SUFFICES ASSUME NEW i \in Insts
               PROVE  Good(kind, series[i], pushed[i], now, missed[i], fetched'[i])
    OBVIOUS
  <2>1. fetched'[i] \in Seq(Bars)
    OBVIOUS
  <2>2. CASE fetched'[i] = fetched[i]
    BY <1>1, <2>2
  <2>3. CASE fetched'[i] # fetched[i]
    <3>1. kind # "factor" => fetched'[i] = <<>> \/ fetched'[i] = Closed(Cap, now)
      BY <2>3
    <3> QED BY <1>1, <2>1, <3>1, FetchGood
  <2> QED BY <2>2, <2>3
<1> QED BY <1>2 DEF HistInv, BufferInv, Good

LEMMA FetchStep ==
  ASSUME HistInv, Prices!Fetch
  PROVE  HistInv'
<1>1. /\ UNCHANGED <<kind, now, pushed, series, lastRebalance, rebalancing, missed>>
      /\ phase = "fetch"
  BY DEF Prices!Fetch
<1>2. PICK i \in todo : \/ Prices!PairFetch(i) \/ Prices!CrossFetch(i) \/ Prices!FactorFetch(i)
                        \/ Prices!PairFails \/ Prices!CrossFails(i) \/ Prices!FactorFails
  BY DEF Prices!Fetch
<1>3. /\ now \in Cap..MaxNow /\ asked \in Cap..MaxNow /\ now \in (Cap + 1)..now
      /\ attempt \in Nat /\ attempt < Attempts /\ fetched \in [Insts -> Seq(Bars)]
      /\ todo \subseteq Insts /\ todo # {}
  BY <1>1, HistNumbers DEF HistInv, BufferInv, WarmupInv
<1>4. ASSUME NEW a \in Seq(Bars), Prices!Fetched(i, a),
             a = <<>> \/ (kind # "factor" /\ a = Closed(Cap, now)) \/ kind = "factor"
      PROVE  HistInv'
  <2>1. fetched' = [fetched EXCEPT ![i] = a] /\ todo' = todo \ {i}
        /\ phase' = (IF todo = {i} THEN "apply" ELSE "fetch") /\ UNCHANGED <<asked, attempt>>
    BY <1>4 DEF Prices!Fetched
  <2>2. fetched' \in [Insts -> Seq(Bars)]
        /\ \A j \in Insts : fetched'[j] = IF j = i THEN a ELSE fetched[j]
    BY <1>3, <2>1
  <2>3. BufferInv'
    BY <1>1, <1>4, <2>2, AnswersStep
  <2>4. WarmupInv'
    BY <1>1, <1>3, <2>1 DEF HistInv, WarmupInv
  <2> QED BY <2>3, <2>4 DEF HistInv
<1>5. ASSUME Prices!GiveUp, attempt' \in {attempt, attempt + 1} PROVE HistInv'
  <2>1. /\ phase' = "done" /\ todo' = {} /\ fetched' = [j \in Insts |-> <<>>] /\ asked' = asked
    BY <1>5 DEF Prices!GiveUp, Prices!NotFetched, Insts
  <2>2. BufferInv'
    BY <1>1, <2>1, HistNumbers, AnswersStep
  <2>3. attempt' \in 0..Attempts
    <3>1. attempt + 1 \in 0..Attempts /\ attempt \in 0..Attempts
      BY <1>3, HistNumbers
    <3> QED BY <1>5, <3>1
  <2>4. WarmupInv'
    BY <1>1, <2>1, <2>3 DEF HistInv, WarmupInv
  <2> QED BY <2>2, <2>4 DEF HistInv
<1>6. CASE Prices!PairFetch(i) \/ Prices!CrossFetch(i)
  <2>1. kind # "factor" /\ \E a \in {Prices!Answer(now), <<>>} : Prices!Fetched(i, a)
    BY <1>6 DEF Prices!PairFetch, Prices!CrossFetch
  <2>2. Prices!Answer(now) = Closed(Cap, now) /\ Prices!Answer(now) \in Seq(Bars)
    BY <1>3, <2>1, AnswerIs
  <2> QED BY <1>4, <2>1, <2>2, HistNumbers
<1>7. CASE Prices!FactorFetch(i)
  <2>1. kind = "factor" /\ \E a \in {Prices!Answer(asked), <<>>} : Prices!Fetched(i, a)
    BY <1>7 DEF Prices!FactorFetch
  <2>2. Prices!Answer(asked) \in Seq(Bars)
    BY <1>3, AnswerIs
  <2> QED BY <1>4, <2>1, <2>2, HistNumbers
<1>8. CASE Prices!PairFails
  BY <1>5, <1>8 DEF Prices!PairFails
<1>9. CASE Prices!CrossFails(i)
  <2>1. Prices!Fetched(i, <<>>) \/ (Prices!GiveUp /\ attempt' = attempt)
    BY <1>9 DEF Prices!CrossFails
  <2> QED BY <1>4, <1>5, <2>1, HistNumbers
<1>10. CASE Prices!FactorFails
  <2>1. attempt' = attempt + 1 /\ kind = "factor"
    BY <1>10 DEF Prices!FactorFails, Prices!Retry
  <2>2. CASE attempt + 1 < Attempts
    <3>1. todo' = Insts /\ fetched' = [j \in Insts |-> <<>>] /\ asked' = now /\ phase' = phase
      BY <1>10, <2>2 DEF Prices!FactorFails, Prices!Retry, Prices!NotFetched, Insts
    <3>2. BufferInv'
      BY <1>1, <3>1, HistNumbers, AnswersStep
    <3>3. attempt' \in 0..Attempts /\ attempt' < Attempts /\ Insts # {}
      <4>1. attempt + 1 \in 0..Attempts
        BY <1>3, <2>2, HistNumbers
      <4> QED BY <2>1, <2>2, <4>1, HistNumbers
    <3>4. WarmupInv'
      BY <1>1, <1>3, <3>1, <3>3 DEF HistInv, WarmupInv
    <3> QED BY <3>2, <3>4 DEF HistInv
  <2>3. CASE ~(attempt + 1 < Attempts)
    BY <1>5, <1>10, <2>1, <2>3 DEF Prices!FactorFails, Prices!Retry
  <2> QED BY <2>2, <2>3
<1> QED BY <1>2, <1>6, <1>7, <1>8, <1>9, <1>10

LEMMA ApplyStep ==
  ASSUME HistInv, Prices!Apply
  PROVE  HistInv'
<1>1. /\ phase = "apply" /\ phase' = "done" /\ fetched' = [j \in Insts |-> <<>>]
      /\ UNCHANGED <<kind, now, pushed, todo, asked, attempt, lastRebalance, rebalancing, missed>>
  BY DEF Prices!Apply, Prices!NotFetched, Insts
<1>2. /\ \A i \in Insts : Good(kind, series[i], pushed[i], now, missed[i], fetched[i])
      /\ now \in (Cap + 1)..MaxNow
  BY DEF HistInv, BufferInv
<1>3. /\ DOMAIN series' = Insts
      /\ \A i \in Insts : Good(kind, series'[i], pushed[i], now, missed[i], <<>>)
      /\ series' = [i \in Insts |-> series'[i]]
  <2>1. CASE Prices!PairApply \/ Prices!CrossApply
    <3>1. kind # "factor" /\ series' = [i \in Insts |-> Prices!Refill(i)]
      BY <2>1 DEF Prices!PairApply, Prices!CrossApply, Insts
    <3>2. \A i \in Insts : Prices!Refill(i) = IF fetched[i] = <<>> THEN series[i] ELSE fetched[i]
      BY DEF Prices!Refill
    <3>3. \A i \in Insts : Good(kind, Prices!Refill(i), pushed[i], now, missed[i], <<>>)
      BY <1>2, <3>1, <3>2, RefillGood
    <3> QED BY <3>1, <3>3
  <2>2. CASE Prices!FactorApply
    <3>1. kind = "factor" /\ series' = [i \in Insts |-> Prices!Keep(series[i] \o fetched[i])]
      BY <2>2 DEF Prices!FactorApply, Insts
    <3>2. \A i \in Insts :
            Good(kind, Prices!Keep(series[i] \o fetched[i]), pushed[i], now, missed[i], <<>>)
      BY <1>2, <3>1, ExtendGood
    <3> QED BY <3>1, <3>2
  <2> QED BY <2>1, <2>2 DEF Prices!Apply
<1>4. series' \in [Insts -> Seq(Bars)] /\ fetched' \in [Insts -> Seq(Bars)]
  BY <1>1, <1>3, HistNumbers DEF Good
<1>5. \A i \in Insts : Good(kind, series'[i], pushed[i], now, missed[i], fetched'[i])
  BY <1>1, <1>3
<1>6. BufferInv'
  BY <1>1, <1>4, <1>5 DEF HistInv, BufferInv, Good
<1>7. WarmupInv'
  BY <1>1 DEF HistInv, WarmupInv
<1> QED BY <1>6, <1>7 DEF HistInv

LEMMA HistStep ==
  ASSUME HistInv, Prices!Next
  PROVE  HistInv'
<1>1. CASE Prices!Rebalance
  <2>1. UNCHANGED <<kind, now, pushed, series, phase, todo, asked, fetched, attempt, lastRebalance,
                    missed>> /\ rebalancing' = FALSE
    BY <1>1 DEF Prices!Rebalance, Prices!warmup
  <2> QED BY <2>1 DEF HistInv, BufferInv, WarmupInv
<1> QED BY <1>1, PushStep, TickStep, FetchStep, ApplyStep DEF Prices!Next, Prices!Bars, Insts

LEMMA HistHolds ==
  ASSUME HistInv
  PROVE  Prices!HistoryTypeOK /\ Prices!SeriesInOrder /\ Prices!BarsSurvive
<1>1. /\ kind \in Prices!HistoryKinds /\ now \in (Cap + 1)..MaxNow
      /\ \A i \in Insts : Good(kind, series[i], pushed[i], now, missed[i], fetched[i])
  BY DEF HistInv, BufferInv
<1>2. \A i \in Insts : Len(series[i]) \in Nat /\ DOMAIN series[i] = 1..Len(series[i])
                       /\ \A k \in 1..Len(series[i]) : series[i][k] \in Bars
  <2>1. \A i \in Insts : series[i] \in Seq(Bars)
    BY <1>1 DEF Good
  <2> QED BY <2>1, LenProperties, ElementOfSeq
<1>3. Prices!HistoryTypeOK
  <2>1. now \in Prices!Candles /\ (Cap + 1)..now \subseteq 0..now
    BY <1>1, HistNumbers DEF Prices!Candles
  <2>2. \A i \in Insts : /\ pushed[i] \in 0..now /\ Len(series[i]) <= Cap
                         /\ missed[i] \subseteq Prices!Candles
    BY <1>1, HistNumbers DEF Good
  <2>3. \A i \in Insts : \A k \in DOMAIN series[i] : series[i][k] \in Prices!Entries
    BY <1>2 DEF Bars
  <2> QED BY <1>1, <2>1, <2>2, <2>3 DEF HistInv, WarmupInv, Prices!HistoryTypeOK, Insts
<1>4. Prices!SeriesInOrder
  BY <1>1 DEF Good, InOrder, Prices!SeriesInOrder, Insts
<1>5. Prices!BarsSurvive
  <2> SUFFICES ASSUME NEW i \in Insts, NEW c \in (Cap + 1)..pushed[i]
               PROVE  \/ c \in Prices!Covered(i) \cup missed[i]
                      \/ Len(series[i]) = Cap /\ (kind = "factor" \/ c < series[i][1].candle)
    BY DEF Prices!BarsSurvive, Insts
  <2>1. (\E k \in 1..Len(series[i]) : series[i][k].candle = c) => c \in Prices!Covered(i)
    BY <1>2 DEF Prices!Covered
  <2>2. CASE kind = "factor"
    BY <1>1, <2>1, <2>2 DEF Good, KeptWhileShort
  <2>3. CASE kind # "factor"
    BY <1>1, <2>1, <2>3 DEF Good, Kept
  <2> QED BY <2>2, <2>3
<1> QED BY <1>3, <1>4, <1>5

-----------------------------------------------------------------------------
(* All strategies                                                          *)

(* The invariant of the composition: that of the component a behaviour is  *)
(* about, and the others at rest.                                          *)
SignalsInv ==
  /\ IF kind \in Kinds THEN TradeInv ELSE SingleQuiet
  /\ kind \in Prices!HistoryKinds => HistInv
  /\ IF kind \in Selection!SelectionKinds THEN ChoiceInv ELSE picked = FALSE
  /\ IF kind \in Budget!Modes THEN BudgetInv ELSE Budget!BudgetQuiet

LEMMA KindsDiffer ==
  /\ Kinds \cap Prices!HistoryKinds = {} /\ Kinds \cap Selection!SelectionKinds = {}
  /\ Kinds \cap Budget!Modes = {}
  /\ Prices!HistoryKinds \cap Selection!SelectionKinds = {}
  /\ Prices!HistoryKinds \cap Budget!Modes = {}
  /\ Selection!SelectionKinds \cap Budget!Modes = {}
BY DEF Kinds, Prices!HistoryKinds, Selection!SelectionKinds, Budget!Modes

LEMMA SignalsInit == MCInit => SignalsInv
<1> SUFFICES ASSUME MCInit PROVE SignalsInv
  OBVIOUS
<1>1. /\ Init => kind \in Kinds /\ TradeInv
      /\ Prices!Init => kind \in Prices!HistoryKinds /\ HistInv
      /\ Selection!Init => kind \in Selection!SelectionKinds /\ ChoiceInv
      /\ Budget!Init => kind \in Budget!Modes /\ BudgetInv
  BY InitTrade, HistInit, ChoiceInit, BudgetInit
     DEF TradeInv, ControlTypes, HistInv, BufferInv, ChoiceInv, ChoiceTypes, BudgetInv
<1>2. Selection!SelectionQuiet => picked = FALSE
  BY DEF Selection!SelectionQuiet
<1> QED BY <1>1, <1>2, KindsDiffer DEF MCInit, SignalsInv

LEMMA SignalsStep == SignalsInv /\ [MCNext]_allVars => SignalsInv'
<1> SUFFICES ASSUME SignalsInv, [MCNext]_allVars PROVE SignalsInv'
  OBVIOUS
<1>1. ASSUME UNCHANGED <<kind, single>> PROVE TradeInv => TradeInv'
  <2>1. UNCHANGED vars
    BY <1>1 DEF vars, single
  <2> QED BY <2>1, TradeInvStep
<1>2. ASSUME UNCHANGED single PROVE SingleQuiet => SingleQuiet'
  BY <1>2 DEF single, position, schedule, tasks, outside, SingleQuiet, Flat
<1>3. ASSUME UNCHANGED budgets PROVE Budget!BudgetQuiet => Budget!BudgetQuiet'
  BY <1>3 DEF budgets, Budget!BudgetQuiet
<1>4. CASE kind \in Kinds /\ Next /\ UNCHANGED <<buffers, choice, budgets>>
  <2>1. TradeInv'
    BY <1>4, TradeInvStep DEF SignalsInv
  <2>2. kind' \in Kinds
    BY <2>1 DEF TradeInv, ControlTypes
  <2>3. Budget!BudgetQuiet' /\ picked' = FALSE
    BY <1>3, <1>4, KindsDiffer DEF SignalsInv, choice
  <2> QED BY <2>1, <2>2, <2>3, KindsDiffer DEF SignalsInv
<1>5. CASE kind \in Prices!HistoryKinds /\ Prices!Next /\ UNCHANGED <<single, choice, budgets>>
  <2>1. HistInv'
    BY <1>5, HistStep DEF SignalsInv
  <2>2. kind' \in Prices!HistoryKinds
    BY <2>1 DEF HistInv, BufferInv
  <2>3. SingleQuiet' /\ Budget!BudgetQuiet' /\ picked' = FALSE
    BY <1>2, <1>3, <1>5, KindsDiffer DEF SignalsInv, choice
  <2> QED BY <2>1, <2>2, <2>3, KindsDiffer DEF SignalsInv
<1>6. CASE kind \in Selection!SelectionKinds /\ Selection!Next
           /\ UNCHANGED <<single, buffers, budgets>>
  <2>1. ChoiceInv'
    BY <1>6, ChoiceStep DEF SignalsInv
  <2>2. kind' \in Selection!SelectionKinds
    BY <2>1 DEF ChoiceInv, ChoiceTypes
  <2>3. SingleQuiet' /\ Budget!BudgetQuiet'
    BY <1>2, <1>3, <1>6, KindsDiffer DEF SignalsInv
  <2> QED BY <2>1, <2>2, <2>3, KindsDiffer DEF SignalsInv
<1>7. CASE kind \in Budget!Modes /\ Budget!Next /\ UNCHANGED <<single, buffers, choice>>
  <2>1. BudgetInv'
    BY <1>7, BudgetStep DEF SignalsInv
  <2>2. kind' \in Budget!Modes
    BY <2>1 DEF BudgetInv
  <2>3. SingleQuiet' /\ picked' = FALSE
    BY <1>2, <1>7, KindsDiffer DEF SignalsInv, choice
  <2> QED BY <2>1, <2>2, <2>3, KindsDiffer DEF SignalsInv
<1>8. CASE UNCHANGED allVars
  <2>1. UNCHANGED <<kind, single, buffers, choice, budgets>>
    BY <1>8 DEF allVars
  <2>2. HistInv => HistInv'
    BY <2>1 DEF buffers, HistInv, BufferInv, WarmupInv
  <2>3. ChoiceInv => ChoiceInv'
    <3>1. UNCHANGED <<kind, score, top, bot, cap, longs, shorts, picked>>
      BY <2>1 DEF choice
    <3>2. ChoiceTypes => ChoiceTypes'
      BY <3>1 DEF ChoiceTypes
    <3>3. LegsAreBest => LegsAreBest'
      BY <3>1 DEF LegsAreBest, Selection!ExtremesAreChosen, Selection!CapIsUsed,
         Selection!BothSidesFull, Selection!Known, Selection!Merit
    <3> QED BY <3>2, <3>3 DEF ChoiceInv
  <2>4. BudgetInv => BudgetInv'
    BY <2>1 DEF budgets, BudgetInv, Exact, Budget!BudgetsSumToTotal
  <2>5. picked' = picked
    BY <2>1 DEF choice
  <2> QED BY <1>1, <1>2, <1>3, <2>1, <2>2, <2>3, <2>4, <2>5 DEF SignalsInv
<1> QED BY <1>4, <1>5, <1>6, <1>7, <1>8 DEF MCNext

LEMMA SignalsInvariant == MCSpec => []SignalsInv
BY SignalsInit, SignalsStep, PTL DEF MCSpec

-----------------------------------------------------------------------------
(* Theorems                                                                *)

\* The attributes of a directional strategy keep their ranges and every order
\* that leaves is of whole lots, whatever the risk manager made of the size; no
\* price buffer outgrows its maximum length, and a warm-up stays within its
\* attempts.
THEOREM SignalsTypeCorrect == MCSpec => []SignalsTypeOK
<1>1. TradeInv => TypeOK
  BY DEF TradeInv, BookInv, BookTypes, ControlTypes, TypeOK, Modes
<1>2. SignalsInv => SignalsTypeOK
  BY <1>1, HistHolds, KindsDiffer DEF SignalsInv, SignalsTypeOK
<1> QED BY <1>2, SignalsInvariant, PTL

\* What is written at submission is true at rest: with nothing on its way and
\* none of the named mishaps, flat is flat at OKX and no more is held than the
\* strategy will close, however partial fills, refusals, closes and entries of
\* several positions interleave; and ml_fusion predicts from flat.
THEOREM BookIsTrue == MCSpec => []BookMatchesVenue
<1>1. SingleQuiet => BookMatchesVenue
  BY DEF SingleQuiet, Flat, BookMatchesVenue, FlatMeansFlat, NoMoreThanTracked,
     PredictionStartsFlat
<1>2. SignalsInv => BookMatchesVenue
  BY <1>1, BookAtRest DEF SignalsInv
<1> QED BY <1>2, SignalsInvariant, PTL

\* Whatever the scores, the sizes of the sides and the cap: no instrument that
\* was passed over would have been a better leg, the cap is met and used up,
\* and with enough scores both sides are filled.
THEOREM LegsChosenBest == MCSpec => []LegsAreBest
<1>1. picked = FALSE => LegsAreBest
  BY DEF LegsAreBest, Selection!ExtremesAreChosen, Selection!CapIsUsed, Selection!BothSidesFull
<1>2. SignalsInv => LegsAreBest
  BY <1>1 DEF SignalsInv, ChoiceInv
<1> QED BY <1>2, SignalsInvariant, PTL

\* The shares of any equity under any weights sum to it to the cent, the rest
\* that the last strategy takes is short of nothing by half a cent for each of
\* the others at most, and when every share is positive the budgets in use sum
\* to the equity.
THEOREM EquityIsDivided == MCSpec => []BudgetsAreExact
<1>1. BudgetInv => BudgetsAreExact
  BY DEF BudgetInv, Exact, BudgetsAreExact, Budget!SharesSumToTotal, Budget!SharesBarelyNegative
<1>2. Budget!BudgetQuiet /\ kind \notin Budget!Modes => BudgetsAreExact
  BY QuietBudgetSums DEF BudgetsAreExact
<1>3. SignalsInv => BudgetsAreExact
  BY <1>1, <1>2 DEF SignalsInv
<1> QED BY <1>3, SignalsInvariant, PTL

\* A warm-up that races live bars leaves the buffers of stat_arb_pairs and
\* funding_cross_section in order, and loses no bar that was delivered except
\* those that came between the fetch and the refill.
THEOREM WarmupLosesNoBar == MCSpec => []BuffersAreTrue
<1>1. SignalsInv => BuffersAreTrue
  <2>1. CASE kind \in Prices!HistoryKinds
    BY <2>1, HistHolds DEF SignalsInv, BuffersAreTrue
  <2>2. CASE kind \notin Prices!HistoryKinds
    BY <2>2 DEF BuffersAreTrue, Prices!SeriesInOrder, Prices!HistoryKinds
  <2> QED BY <2>1, <2>2
<1> QED BY <1>1, SignalsInvariant, PTL

\* ob_imbalance does not enter the side it has left before a book of the other
\* side was read, whatever bars, books, fills and refusals come in between.
THEOREM NoChurn == MCSpec => NoSameSideChurn
<1>1. ASSUME TradeInv, [Next]_vars
      PROVE  [kind = "ob" /\ gen' # gen /\ lastDir' = lastDir => seenOpp]_vars
  <2> SUFFICES ASSUME kind = "ob", gen' # gen, lastDir' = lastDir PROVE seenOpp
    OBVIOUS
  <2>1. CASE ObBook
    BY <1>1, <2>1, ObBookStep
  <2>2. ~ObBar
    BY DEF ObBar, ObCheckExit, ObExit, Close, KeepHolding, NoOpen, position
  <2>3. ~FeedCrash /\ ~VenueStep /\ ~OrderRejected /\ ~UNCHANGED vars
    BY DEF FeedCrash, VenueStep, OrderRejected, vars, position
  <2>4. /\ ~LiqBar /\ ~RangeBar /\ ~SkewBar /\ ~MlBar /\ ~LiqEvent
        /\ ~SkewCheckFunding /\ ~SkewEnter /\ ~MlPredict /\ ~MlOpenLeg
    BY DEF LiqBar, RangeBar, SkewBar, MlBar, LiqEvent, SkewCheckFunding, SkewEnter, MlPredict,
       MlOpenLeg
  <2> QED BY <1>1, <2>1, <2>2, <2>3, <2>4 DEF Next, Bar
<1>2. ASSUME SignalsInv, [MCNext]_allVars
      PROVE  [kind = "ob" /\ gen' # gen /\ lastDir' = lastDir => seenOpp]_vars
  <2> SUFFICES ASSUME kind = "ob", gen' # gen, lastDir' = lastDir PROVE seenOpp
    OBVIOUS
  <2>1. kind \in Kinds
    BY DEF Kinds
  <2>2. TradeInv /\ [Next]_vars
    BY <1>2, <2>1, KindsDiffer DEF SignalsInv, MCNext, allVars, single, vars
  <2> QED BY <1>1, <2>2 DEF vars, position
<1> QED BY <1>2, SignalsInvariant, PTL DEF MCSpec, NoSameSideChurn

=============================================================================
