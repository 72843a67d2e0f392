----------------------------- MODULE PowTokens ------------------------------
(***************************************************************************)
(* Proof-of-work tokens (challenge/pow.py, pow_endpoint in                 *)
(* core/proxy_handler.py, the prune loop of rate_limit.py): issued with    *)
(* the whole second of the time, bound to a method and path, accepted      *)
(* once, for as long as they are valid.                                    *)
(*                                                                         *)
(* A tick is half a second: a token's age is counted in whole seconds, its *)
(* entry in the replay table expires in fractional ones.                   *)
(***************************************************************************)
EXTENDS Integers, FiniteSets

CONSTANTS
  Tokens,              \* bound: challenges made
  Binds,               \* methods and paths
  Addresses,           \* the socket addresses that ask for challenges
  POW_VALID_SECS,
  SOLVE_FLOOR,         \* POW_MIN_SOLVE_MS less its slack, in ticks
  SEEN_MAX,            \* _POW_SEEN_MAX
  POW_RL_LIMIT,
  POW_RL_WINDOW,       \* in ticks
  LastTick             \* bound on the clock

ASSUME PowAssumption ==
  {POW_VALID_SECS, SOLVE_FLOOR, SEEN_MAX, POW_RL_LIMIT, POW_RL_WINDOW, LastTick}
    \subseteq Nat

VARIABLES
  tick,       \* time.time()
  made,       \* made[t]: the second token t was issued, and what it is bound to
  seen,       \* _pow_seen: seen[t], when the entry expires
  asked,      \* _POW_RL: asked[a], the window's start and the requests in it
  cachedPow,  \* _POW_CHAL_CACHE: cachedPow[a], a token and when it was cached
  usedAt      \* history: usedAt[t], when this process accepted t last

powVars == <<tick, made, seen, asked, cachedPow, usedAt>>

Second(ticks) == ticks \div 2
Ticks(seconds) == 2 * seconds

Put(f, x, value) == [y \in DOMAIN f \cup {x} |-> IF y = x THEN value ELSE f[y]]
Keep(f, S) == [y \in DOMAIN f \cap S |-> f[y]]
Nobody == [x \in {} |-> 0]

-----------------------------------------------------------------------------

\* make_pow_challenge
Make(t, bind) ==
  /\ t \in Tokens \ DOMAIN made
  /\ made' = Put(made, t, [issued |-> Second(tick), bind |-> bind])

\* A request without a valid token is answered with a new challenge.
Demand(bind) ==
  /\ \E t \in Tokens : Make(t, bind)
  /\ UNCHANGED <<tick, seen, asked, cachedPow, usedAt>>

NewWindow(a) == a \notin DOMAIN asked \/ tick - asked[a].start > POW_RL_WINDOW

CacheServes(a) == a \in DOMAIN cachedPow /\ tick - cachedPow[a].at < POW_RL_WINDOW

\* pow_endpoint: within the window an address gets the challenge it was given
\* first, for whatever method and path it asks.
Ask(a, bind) ==
  /\ ~NewWindow(a) => asked[a].count < POW_RL_LIMIT
  /\ asked' = Put(asked, a, IF NewWindow(a) THEN [start |-> tick, count |-> 1]
                            ELSE [asked[a] EXCEPT !.count = @ + 1])
  /\ \/ CacheServes(a) /\ UNCHANGED <<made, cachedPow>>
     \/ /\ ~CacheServes(a)
        /\ \E t \in Tokens :
             /\ Make(t, bind)
             /\ cachedPow' = Put(cachedPow, a, [token |-> t, at |-> tick])
  /\ UNCHANGED <<tick, seen, usedAt>>

-----------------------------------------------------------------------------

\* Fault: the entry expires when the token's validity does, as if that were
\* counted in fractional seconds.
ExpiryOfToken(t) == Ticks(made[t].issued + POW_VALID_SECS)

\* _pow_seen[token]
Expiry(t) == tick + Ticks(POW_VALID_SECS)

\* The table is pruned on the way when it is over its limit.
Remembered == IF Cardinality(DOMAIN seen) > SEEN_MAX
              THEN {t \in DOMAIN seen : seen[t] > tick} ELSE DOMAIN seen

InTime(t) ==
  /\ Second(tick) - made[t].issued <= POW_VALID_SECS
  /\ tick - Ticks(made[t].issued) >= SOLVE_FLOOR

\* verify_pow, for a request with a token, its solution and the method and
\* path the token is bound to.
Verify(t) ==
  /\ t \in DOMAIN made /\ InTime(t)
  /\ IF t \in Remembered
     THEN seen' = Keep(seen, Remembered) /\ UNCHANGED usedAt
     ELSE /\ seen' = Put(Keep(seen, Remembered), t, Expiry(t))
          /\ usedAt' = Put(usedAt, t, tick)
  /\ UNCHANGED <<tick, made, asked, cachedPow>>

-----------------------------------------------------------------------------

\* The prune loop.  The windows are readings of the monotonic clock, and are
\* compared with the time of day: every pass drops all of them.
PrunePow ==
  /\ seen' = Keep(seen, {t \in DOMAIN seen : seen[t] >= tick})
  /\ asked' = Nobody /\ cachedPow' = Nobody
  /\ UNCHANGED <<tick, made, usedAt>>

HalfSecond ==
  /\ tick < LastTick
  /\ tick' = tick + 1
  /\ UNCHANGED <<made, seen, asked, cachedPow, usedAt>>

\* The key is kept, and with it the tokens; the tables are not.
PowRestart ==
  /\ seen' = Nobody /\ asked' = Nobody /\ cachedPow' = Nobody
  /\ usedAt' = Nobody
  /\ UNCHANGED <<tick, made>>

PowInit ==
  /\ tick = 0
  /\ made = Nobody /\ seen = Nobody /\ asked = Nobody /\ cachedPow = Nobody
  /\ usedAt = Nobody

PowNext ==
  \/ \E bind \in Binds : Demand(bind) \/ \E a \in Addresses : Ask(a, bind)
  \/ \E t \in Tokens : Verify(t)
  \/ PrunePow \/ HalfSecond \/ PowRestart

-----------------------------------------------------------------------------

PowTypeOK ==
  /\ tick \in 0 .. LastTick
  /\ DOMAIN made \subseteq Tokens
  /\ \A t \in DOMAIN made : made[t] \in [issued : 0 .. Second(LastTick), bind : Binds]
  /\ DOMAIN seen \subseteq DOMAIN made /\ DOMAIN usedAt \subseteq DOMAIN made
  /\ \A a \in DOMAIN asked :
       asked[a] \in [start : 0 .. LastTick, count : 1 .. POW_RL_LIMIT]
  /\ \A a \in DOMAIN cachedPow :
       cachedPow[a] \in [token : DOMAIN made, at : 0 .. LastTick]

\* "Each token usable exactly once within the validity window": in a step a
\* process accepts a token again only when POW_VALID_SECS have passed since, which the
\* whole seconds of its age leave room for.
TokenSpentOnce ==
  \A t \in DOMAIN usedAt \cap DOMAIN usedAt' :
    usedAt'[t] # usedAt[t] => usedAt'[t] - usedAt[t] >= Ticks(POW_VALID_SECS)

=============================================================================
