---------------------------- MODULE LegSelection ----------------------------
(***************************************************************************)
(* How the three cross-sectional strategies pick their long and short legs *)
(* from the scores of a round: xs_momentum ("momentum", the momentum of    *)
(* each instrument), funding_cross_section ("funding", the funding rate)   *)
(* and factor_portfolio ("factors", the combined factor score).  An        *)
(* instrument whose score could not be had is left out of the ranking.     *)
(*                                                                         *)
(* The names of the instruments are numbers, in their order.  What becomes *)
(* of the legs is BasketRebalance's subject, also that a leg without a     *)
(* price, or whose volatility is abnormal, is dropped after its choice.    *)
(***************************************************************************)
EXTENDS Integers, FiniteSets

CONSTANTS Universe,  \* number of instruments
          TopScore,  \* scores are 0..TopScore
          MaxSide,   \* bound: legs wanted on a side
          MaxCap     \* bound: max_inst_count

VARIABLES
  kind,         \* which strategy; fixed in Init
  score,        \* of every instrument, or Unknown; an input of the round
  top, bot,     \* legs wanted long and short; configuration
  cap,          \* max_inst_count, or None; configuration
  longs, shorts,   \* the legs of the round
  picked        \* the round has selected its legs

svars == <<kind, score, top, bot, cap, longs, shorts, picked>>

SelectionKinds == {"momentum", "funding", "factors"}
Unknown == -1
None    == -1
All     == 1..Universe

Known == {i \in All : score[i] # Unknown}

SelectionQuiet ==
  /\ score = [i \in All |-> Unknown] /\ top = 0 /\ bot = 0 /\ cap = None
  /\ longs = {} /\ shorts = {} /\ picked = FALSE

(* A round begins with any scores.  factor_portfolio and funding_cross_-   *)
(* section have no cap.                                                    *)
Init ==
  /\ kind \in SelectionKinds
  /\ score \in [All -> {Unknown} \cup 0..TopScore]
  /\ top \in 0..MaxSide /\ bot \in 0..MaxSide
  /\ cap \in IF kind = "momentum" THEN {None} \cup 0..MaxCap ELSE {None}
  /\ longs = {} /\ shorts = {} /\ picked = FALSE

-----------------------------------------------------------------------------
Least(a, b) == IF a < b THEN a ELSE b

(* The ranking: xs_momentum sorts by falling scores, the others by rising  *)
(* ones; equal scores are in the order of the names.                       *)
Before(i, j) ==
  \/ IF kind = "momentum" THEN score[i] > score[j] ELSE score[i] < score[j]
  \/ score[i] = score[j] /\ i < j

(* s[:n] of a sorted list, and s[-n:]: few instruments are before, or      *)
(* behind, an instrument that is in it.                                    *)
Front(S, n) == {i \in S : Cardinality({j \in S : Before(j, i)}) < n}
Back(S, n)  == {i \in S : Cardinality({j \in S : Before(i, j)}) < n}

(* Python's s[-n:] is all of s when n is zero.                             *)
SliceFromEnd(S, n) == IF n = 0 THEN S ELSE Back(S, n)

NoLegs == [long |-> {}, short |-> {}]

-----------------------------------------------------------------------------
(* xs_momentum.                                                            *)

(* cross_section_rank: no instrument is on both sides.                     *)
CrossSectionRank ==
  LET ranked == Front(Known, top)
  IN  [long |-> ranked, short |-> Back(Known, bot) \ ranked]

(* round(a / b) of Python: to the nearest, halves to the even.             *)
RoundRatio(a, b) ==
  LET q == a \div b  twice == 2 * (a % b)
  IN  IF twice > b \/ (twice = b /\ q % 2 = 1) THEN q + 1 ELSE q

\* Mutant: the shorts are not turned to have the weakest first.
CutUnturned(s, n) == Front(s, n)

(* The shorts are turned, the weakest is first: s[:n] keeps the weakest.   *)
CutShorts(s, n) == Back(s, n)

(* The cap divided in the proportion of the sides; what one side cannot    *)
(* use goes to the other.                                                  *)
DividedCap(l, s) ==
  LET share == IF top = 0 THEN 0 ELSE IF bot = 0 THEN cap
               ELSE RoundRatio(cap * top, top + bot)
      long  == Least(share, Cardinality(l))
      short == Least(cap - long, Cardinality(s))
      more  == Least(long + (cap - long - short), Cardinality(l))
  IN  [long |-> Front(l, more),
       short |-> CutShorts(s, Least(cap - more, Cardinality(s)))]

ApplyInstCountCap(l, s) ==
  IF cap <= 0 \/ top + bot = 0 THEN NoLegs
  ELSE IF cap >= Cardinality(l) + Cardinality(s) THEN [long |-> l, short |-> s]
  ELSE DividedCap(l, s)

(* A round with too few scores is skipped.                                 *)
MomentumLegs ==
  IF Cardinality(Known) < top + bot THEN NoLegs
  ELSE LET r == CrossSectionRank
       IN  IF cap = None THEN r ELSE ApplyInstCountCap(r.long, r.short)

-----------------------------------------------------------------------------
(* funding_cross_section: long the lowest rates, short the highest; what   *)
(* is on both sides ends up short.                                         *)
FundingLegs ==
  LET short == SliceFromEnd(Known, bot)
  IN  [long |-> Front(Known, top) \ short, short |-> short]

(* factor_portfolio: select_top_bot, and the short legs written last.      *)
FactorLegs ==
  LET short == Front(Known, bot)
  IN  [long |-> Back(Known, top) \ short, short |-> short]

-----------------------------------------------------------------------------
Pick(legs) == longs' = legs.long /\ shorts' = legs.short

Select ==
  /\ ~picked /\ picked' = TRUE
  /\ \/ kind = "momentum" /\ Pick(MomentumLegs)
     \/ kind = "funding"  /\ Pick(FundingLegs)
     \/ kind = "factors" /\ Pick(FactorLegs)
  /\ UNCHANGED <<kind, score, top, bot, cap>>

Next == Select
Spec == Init /\ [][Next]_svars

-----------------------------------------------------------------------------
(* The score as the strategy likes it: a low funding rate is bought.       *)
Merit(i) == IF kind = "funding" THEN -score[i] ELSE score[i]

(* No instrument that was passed over would have been a better leg: longs  *)
(* are at least as good as everything that is not long, shorts at most,    *)
(* also after the cap has cut the lists.                                   *)
ExtremesAreChosen ==
  picked =>
    /\ \A l \in longs : \A i \in Known \ longs : Merit(l) >= Merit(i)
    /\ \A s \in shorts : \A i \in Known \ shorts : Merit(s) <= Merit(i)

(* The cap is met and used up: as many legs as the cap and the two sides   *)
(* allow (apply_inst_count_cap).                                           *)
CapIsUsed ==
  (picked /\ kind = "momentum" /\ Cardinality(Known) >= top + bot) =>
    Cardinality(longs) + Cardinality(shorts) = IF cap = None THEN top + bot ELSE Least(cap, top + bot)

(* With enough scores both sides are filled: the basket is as neutral as   *)
(* its configuration (funding_cross_section only with a short side).       *)
BothSidesFull ==
  (picked /\ Cardinality(Known) >= top + bot /\ cap = None
     /\ (kind = "funding" => bot > 0)) =>
    Cardinality(longs) = top /\ Cardinality(shorts) = bot
=============================================================================
