---------------------------- MODULE IsolatedMargin ----------------------------
(***************************************************************************)
(* IsolatedMarginService (risk/isolated_margin_service.py), one per        *)
(* process: strategies ask it for the posMode of the account and to        *)
(* ensure a leverage, and it keeps both answers.  OKX holds one leverage   *)
(* per instrument and position side, so strategies that use one instrument *)
(* with different leverages take it from one another.                      *)
(*                                                                         *)
(* A coroutine has at most one set-leverage call under way (call).  The    *)
(* transport may send it several times; when it gives up, no attempt is    *)
(* left on the wire.                                                       *)
(***************************************************************************)
EXTENDS Integers

CONSTANTS
  Coroutines,  \* the coroutines of the strategies that share the service
  Insts,       \* the instruments
  Levers,      \* the leverages a coroutine may ask for
  FirstLever,  \* what OKX holds before anybody asks
  AccountMode, \* posMode of the OKX account
  Faults       \* lookups and calls may fail

ASSUME MarginAssumption ==
  /\ Levers \in [Coroutines -> SUBSET (Nat \ {0})]
  /\ FirstLever \in Nat \ {0}
  /\ AccountMode \in {"net_mode", "long_short_mode"}
  /\ Faults \in BOOLEAN

VARIABLES
  posMode, \* _pos_mode
  cache,   \* _lever_cache
  lever,   \* the leverage OKX holds
  call,    \* per coroutine, its set-leverage call
  doubt    \* keys whose cache may differ from OKX: two calls were under way
           \* at once, or one failed after OKX had carried it out

marginVars == <<posMode, cache, lever, call, doubt>>

NoLever == 0       \* no entry in the cache
NoMode == "unknown"
Modes == {"net_mode", "long_short_mode"}
Keys  == Insts \X {"long", "short", "net"}
Levels == {FirstLever} \union UNION {Levers[s] : s \in Coroutines}
Calls == [at : {"sent", "applied"}, key : Keys, value : Levels]
Idle  == [at |-> "idle"]

\* Types of the two caches, of OKX's side and of the calls under way.
MarginTypeOK ==
  /\ posMode \in Modes \union {NoMode}
  /\ cache \in [Keys -> Levels \union {NoLever}]
  /\ lever \in [Keys -> Levels]
  /\ call \in [Coroutines -> Calls \union {Idle}]
  /\ doubt \subseteq Keys

MarginInit ==
  /\ posMode = NoMode
  /\ cache = [k \in Keys |-> NoLever]
  /\ lever = [k \in Keys |-> FirstLever]
  /\ call = [s \in Coroutines |-> Idle]
  /\ doubt = {}

-----------------------------------------------------------------------------
\* The cache key of a leg on side d: the side matters in long_short_mode only.
KeyOf(i, d) == <<i, IF posMode = "long_short_mode" THEN d ELSE "net">>

Busy(k) == \E s \in Coroutines : call[s] # Idle /\ call[s].key = k

\* Mutant: whatever OKX answers is kept.
LearnAnyMode ==
  /\ posMode' \in {AccountMode, "unexpected"}
  /\ UNCHANGED <<cache, lever, call, doubt>>

\* get_pos_mode is answered.  A lookup that fails is kept as net_mode.
LearnPosMode ==
  /\ posMode' \in {AccountMode} \union (IF Faults THEN {"net_mode"} ELSE {})
  /\ UNCHANGED <<cache, lever, call, doubt>>

\* ensure_leverage, cache hit: returns without suspending.
Cached(k, l) == cache[k] = l

\* ensure_leverage, cache miss: POST set-leverage and wait.
Ask(s, k, l) ==
  /\ call[s] = Idle
  /\ ~Cached(k, l)
  /\ call' = [call EXCEPT ![s] = [at |-> "sent", key |-> k, value |-> l]]
  /\ doubt' = IF Busy(k) THEN doubt \union {k} ELSE doubt
  /\ UNCHANGED <<posMode, cache, lever>>

\* OKX accepts posSide net in a net_mode account, long and short in the other.
Accepts(k) == (k[2] = "net") = (AccountMode = "net_mode")

\* OKX carries out an attempt of the call; a retry does so again.
OkxSets(s) ==
  /\ call[s] # Idle
  /\ Accepts(call[s].key)
  /\ lever' = [lever EXCEPT ![call[s].key] = call[s].value]
  /\ call' = [call EXCEPT ![s].at = "applied"]
  /\ UNCHANGED <<posMode, cache, doubt>>

\* ensure_leverage returns (True, None) and keeps the leverage.
Ensured(s) ==
  /\ call[s].at = "applied"
  /\ cache' = [cache EXCEPT ![call[s].key] = call[s].value]
  /\ call' = [call EXCEPT ![s] = Idle]
  /\ UNCHANGED <<posMode, lever, doubt>>

\* Mutant: the leverage is kept whatever became of the call.
DeniedKept(s) ==
  /\ call[s] # Idle
  /\ Faults \/ ~Accepts(call[s].key)
  /\ doubt' = IF call[s].at = "applied" THEN doubt \union {call[s].key} ELSE doubt
  /\ cache' = [cache EXCEPT ![call[s].key] = call[s].value]
  /\ call' = [call EXCEPT ![s] = Idle]
  /\ UNCHANGED <<posMode, lever>>

\* ensure_leverage returns (False, err): OKX refused, or no answer came.
Denied(s) ==
  /\ call[s] # Idle
  /\ Faults \/ ~Accepts(call[s].key)
  /\ doubt' = IF call[s].at = "applied" THEN doubt \union {call[s].key} ELSE doubt
  /\ call' = [call EXCEPT ![s] = Idle]
  /\ UNCHANGED <<posMode, cache, lever>>

MarginNext ==
  \/ LearnPosMode
  \/ \E s \in Coroutines :
       \/ \E k \in Keys, l \in Levers[s] : Ask(s, k, l)
       \/ OkxSets(s) \/ Ensured(s) \/ Denied(s)

\* The service under coroutines that may ask for anything at any time.
MarginSpec == MarginInit /\ [][MarginNext]_marginVars

-----------------------------------------------------------------------------
\* The cache agrees with OKX.  ensure_leverage skips the call on a hit, so a
\* stale entry means orders at a leverage nobody asked for.  Excepted are a
\* call that OKX has carried out and whose answer is awaited, and the two ways
\* the code has to go wrong, gathered in `doubt`.
CacheMatchesOkx ==
  \A k \in Keys \ doubt :
    \/ cache[k] \in {NoLever, lever[k]}
    \/ \E s \in Coroutines : call[s] # Idle /\ call[s].key = k /\ call[s].at = "applied"

=============================================================================
