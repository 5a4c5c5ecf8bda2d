------------------------------ MODULE MCStatArb ------------------------------
(***************************************************************************)
(* StatArbPairs for TLC: z-scores (doubled) beyond the stop, beyond the    *)
(* entry and inside the exit, on both sides, against the defaults          *)
(* spread_z_entry = 2.0, spread_z_exit = 0.5 and spread_z_stop = 3.5.      *)
(*                                                                         *)
(* Three accounts, told apart by setup: "cross" has the constants of the   *)
(* configuration (a net account without margin isolation, where OKX may    *)
(* reject orders); "isolated" is a long/short account with margin          *)
(* isolation and failing calls; in "shared" other strategies trade the     *)
(* legs too, and at most two coroutines are under way.  In both an entry   *)
(* is begun only while OKX holds nothing (MaxHeld).                        *)
(***************************************************************************)
EXTENDS StatArbPairs, TLC

VARIABLE setup    \* fixed in Init

MCZs == {-8, -5, 0, 5, 8}

Permuted == Permutations(Tasks)

Margin == INSTANCE StatArbPairs WITH Isolated <- TRUE, PosMode <- "long_short_mode",
            Faults <- TRUE, Rejections <- FALSE, Sharing <- FALSE, MaxHeld <- 1

Shared == INSTANCE StatArbPairs WITH Isolated <- TRUE, PosMode <- "long_short_mode",
            Faults <- TRUE, Rejections <- FALSE, Sharing <- TRUE, MaxHeld <- 1

\* The coroutines that are under way or have orders in flight.
Busy == {t \in Tasks : task[t].pc # "idle" \/ \E o \in orders : o.by = t}

MCInit == Init /\ setup \in {"isolated", "shared", "cross"}

MCNext == /\ \/ setup = "isolated" /\ Margin!Next
             \/ setup = "shared" /\ Shared!Next /\ Cardinality(Busy') <= 2
             \/ setup = "cross" /\ Next
          /\ UNCHANGED setup

MCSpec == MCInit /\ [][MCNext]_<<vars, setup>>

(* What the strategy believes is what a cross account holds: at rest       *)
(* _position names the direction of the one pair held, None means flat.    *)
CrossPositionMatchesVenue == setup = "cross" => PositionMatchesVenue

(* cooldown_sec_after_exit: on cross margin no entry order leaves within   *)
(* the cooldown.  With isolated margin one does only from a coroutine that *)
(* had passed the gate before the exit ended and awaited OKX across it.    *)
CooldownHolds ==
  [][ cooling => \A o \in orders' \ orders :
        o.reduce \/ (setup # "cross" /\ task[o.by].old) ]_<<vars, setup>>
=============================================================================
