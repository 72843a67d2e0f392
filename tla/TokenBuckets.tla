---------------------------- MODULE TokenBuckets ----------------------------
(***************************************************************************)
(* The three tables of token buckets a request passes (rate_limit.py,      *)
(* integrations/endpoint_policy.py): "socket" by peer address, "identity"  *)
(* by cookie and fingerprint, with limits that depend on the virtual host, *)
(* and "endpoint" by rule and identity.                                    *)
(*                                                                         *)
(* A step on one table reads and writes nothing of another, so a behaviour *)
(* follows one table, `layer`, chosen at the start. Amounts are in parts   *)
(* of a token: a request costs COST, a tick adds Refill(h).                *)
(***************************************************************************)
EXTENDS Integers, FiniteSets

CONSTANTS
  Layers, Keys, Hosts,
  COST,
  BURST,            \* BURST[layer][h]: the capacity host h gives a bucket
  REFILL,           \* REFILL[layer][h]: what it adds in a tick
  FRESH,            \* FRESH[layer]: what a bucket holds when it is made
  MaxBurst,         \* bound: no capacity is above it
  MaxRefill,        \* bound: no refill is above it
  IDLE,             \* ticks without a request after which a bucket may go
  MAX_IDENTITIES,
  EndpointMax,      \* _ENDPOINT_BUCKET_MAX
  MaxAllowance      \* bound: a window of observation ends there

\* IdleIsFull: whoever stays away until the prune has a full bucket anyway, as
\* with the defaults (3600 s at 5 tokens/s against 30 tokens).
ASSUME TokenBucketsAssumption ==
  /\ COST \in Nat \ {0} /\ Hosts # {}
  /\ BURST \in [Layers -> [Hosts -> 0 .. MaxBurst]]
  /\ REFILL \in [Layers -> [Hosts -> 1 .. MaxRefill]]
  /\ FRESH \in [Layers -> 0 .. MaxBurst]
  /\ MaxBurst \in Nat /\ MaxRefill \in Nat \ {0} /\ IDLE \in Nat
  /\ MAX_IDENTITIES \in Nat /\ EndpointMax \in Nat /\ MaxAllowance \in Nat
ASSUME IdleIsFull ==
  \A l \in Layers, h \in Hosts : IDLE * REFILL[l][h] >= MaxBurst

VARIABLES
  layer,      \* the table followed
  table,      \* key -> bucket, for the keys that have one
  watched,    \* history: a key and a window of time, begun at any moment,
  spent,      \*   what was taken from the bucket of the key in the window,
  allowance,  \*   what the advertised limits let it take,
  promise     \*   and the Retry-After of the key's last answer, if a 429

vars == <<layer, table, watched, spent, allowance, promise>>

-----------------------------------------------------------------------------

Bucket == [tokens : 0 .. MaxBurst, idle : 0 .. IDLE + 1]

Burst(h) == BURST[layer][h]
Refill(h) == REFILL[layer][h]
Least(m, n) == IF m < n THEN m ELSE n

\* The lazy refill, clamped to the capacity of the host asked.
Refilled(b, h) == Least(Burst(h), b.tokens + b.idle * Refill(h))

NewBucket == [tokens |-> FRESH[layer], idle |-> 0]

\* Fault: the table takes any number of addresses.
NeverFull == FALSE

\* take_socket_ip_token turns new addresses away while the table is twice too
\* large.
Full == layer = "socket" /\ Cardinality(DOMAIN table) > 2 * MAX_IDENTITIES

Stale == {k \in DOMAIN table : table[k].idle > IDLE}

Without(f, gone) == [k \in DOMAIN f \ gone |-> f[k]]
With(f, k, b) == [j \in DOMAIN f \cup {k} |-> IF j = k THEN b ELSE f[j]]

\* _endpoint_rate_consume drops idle buckets when it finds the table oversized.
Swept ==
  IF layer = "endpoint" /\ Cardinality(DOMAIN table) > EndpointMax
  THEN Without(table, Stale) ELSE table

\* Fault: no second is added to the time a refused client is told to wait.
RetryRoundedDown(left, h) == (COST - left) \div Refill(h)

\* int(retry) + 1
RetryAfter(left, h) == (COST - left) \div Refill(h) + 1

Promised(left, h) ==
  IF layer = "endpoint" THEN {} ELSE {[host |-> h, left |-> RetryAfter(left, h)]}

\* Fault: the refill is added without the clamp.
AfterwardsUnclamped(k, h) ==
  LET b == IF k \in DOMAIN Swept THEN Swept[k] ELSE NewBucket
  IN b.tokens + b.idle * Refill(h)

\* What the bucket of k holds when a request for host h looks at it.
Afterwards(k, h) ==
  Refilled(IF k \in DOMAIN Swept THEN Swept[k] ELSE NewBucket, h)

\* take_socket_ip_token, take_token, _endpoint_rate_consume
Admit(k, h) ==
  /\ k \in DOMAIN table \/ ~Full
  /\ Afterwards(k, h) >= COST
  /\ table' = With(Swept, k, [tokens |-> Afterwards(k, h) - COST, idle |-> 0])
  /\ IF k = watched THEN spent' = spent + COST /\ promise' = {}
                    ELSE UNCHANGED <<spent, promise>>
  /\ UNCHANGED <<layer, watched, allowance>>

Refuse(k, h) ==
  /\ k \in DOMAIN table \/ ~Full
  /\ Afterwards(k, h) < COST
  /\ table' = With(Swept, k, [tokens |-> Afterwards(k, h), idle |-> 0])
  /\ promise' = IF k = watched THEN Promised(Afterwards(k, h), h) ELSE promise
  /\ UNCHANGED <<layer, watched, spent, allowance>>

-----------------------------------------------------------------------------

\* A bucket that goes while it is not full is made anew as a full one: the
\* window is charged for it.
Forgiven(gone) ==
  IF watched \in gone \ Stale
  THEN allowance' = allowance + MaxBurst /\ promise' = {}
  ELSE UNCHANGED <<allowance, promise>>

\* The longest-idle keys beyond the size allowed.
Oldest(f, size) ==
  {gone \in SUBSET DOMAIN f :
     /\ Cardinality(gone) = Cardinality(DOMAIN f) - size
     /\ \A k \in gone, j \in DOMAIN f \ gone : f[k].idle >= f[j].idle}

\* Steps 4 and 4b of _prune_state_loop.
PruneBuckets ==
  /\ layer = "socket"
  /\ LET kept == Without(table, Stale)
     IN IF Cardinality(DOMAIN kept) > MAX_IDENTITIES
        THEN \E gone \in Oldest(kept, MAX_IDENTITIES) :
               table' = Without(kept, gone) /\ Forgiven(gone)
        ELSE table' = kept /\ UNCHANGED <<allowance, promise>>
  /\ UNCHANGED <<layer, watched, spent>>

\* The identity table drops an entry: idle, expired, or the least recently
\* used of a full table.
DropIdentity(k) ==
  /\ layer = "identity" /\ k \in DOMAIN table
  /\ table' = Without(table, {k})
  /\ Forgiven({k})
  /\ UNCHANGED <<layer, watched, spent>>

-----------------------------------------------------------------------------

Aged(b) == [b EXCEPT !.idle = Least(@ + 1, IDLE + 1)]

Tick ==
  /\ table' = [k \in DOMAIN table |-> Aged(table[k])]
  /\ allowance' = allowance + MaxRefill
  /\ promise' = {[p EXCEPT !.left = IF @ > 0 THEN @ - 1 ELSE 0] : p \in promise}
  /\ UNCHANGED <<layer, watched, spent>>

\* Observation only: a window begins.
Watch(k) ==
  /\ watched' = k /\ spent' = 0 /\ allowance' = MaxBurst /\ promise' = {}
  /\ UNCHANGED <<layer, table>>

Init ==
  /\ layer \in Layers
  /\ table = [k \in {} |-> NewBucket]
  /\ watched \in Keys /\ spent = 0 /\ allowance = MaxBurst /\ promise = {}

Next ==
  \/ \E k \in Keys, h \in Hosts : Admit(k, h) \/ Refuse(k, h)
  \/ /\ allowance < MaxAllowance
     /\ PruneBuckets \/ (\E k \in Keys : DropIdentity(k)) \/ Tick
  \/ \E k \in Keys : Watch(k)

Spec == Init /\ [][Next]_vars

-----------------------------------------------------------------------------
(***************************************************************************)
(* Properties                                                              *)
(***************************************************************************)

TypeOK ==
  /\ layer \in Layers
  /\ DOMAIN table \subseteq Keys
  /\ \A k \in DOMAIN table : table[k] \in Bucket
  /\ layer = "socket" => Cardinality(DOMAIN table) <= 2 * MAX_IDENTITIES + 1
  /\ watched \in Keys /\ spent \in Nat /\ allowance \in Nat
  /\ promise \subseteq [host : Hosts, left : Nat]

\* In any window a key takes no more than one burst and the refill of the time
\* passed, over all hosts together; being pruned, dropped for idleness or swept
\* gives nothing back. Only a bucket cut off by a full table counts again.
RateBounded == spent <= allowance

\* A client that waits for the Retry-After of its last 429 and sends nothing
\* meanwhile finds a token, unless its bucket never holds one.
RetryAfterHolds ==
  \A p \in promise :
    /\ p.left = 0
    /\ watched \in DOMAIN table
    /\ Burst(p.host) >= COST
    => Refilled(table[watched], p.host) >= COST

=============================================================================
