--------------------------- MODULE Visitors_proofs ---------------------------
(***************************************************************************)
(* Safety of Visitors, topic by topic: the buckets for any limits, any     *)
(* keys and any hosts; the challenges, the probe and the reports of a page *)
(* for any tables, limits and lengths of time.                             *)
(***************************************************************************)
EXTENDS Visitors, FiniteSetTheorems, TLAPS

\* What the watched key could take now, whichever host it asked.
Level ==
  IF watched \in DOMAIN table
  THEN Least(MaxBurst, table[watched].tokens + table[watched].idle * MaxRefill)
  ELSE MaxBurst

Covered == spent + Level <= allowance

\* The refill of the time still to wait makes up a token.
PromiseKept ==
  \A p \in promise :
    watched \in DOMAIN table /\ Burst(p.host) >= COST
    => table[watched].tokens + (table[watched].idle + p.left) * Refill(p.host) >= COST

IInv ==
  TypeOK /\ IsFiniteSet(DOMAIN table) /\ Covered /\ PromiseKept

-----------------------------------------------------------------------------
(***************************************************************************)
(* Arithmetic                                                              *)
(***************************************************************************)

\* Waiting for the rounded-up time earns what is missing.
LEMMA WaitIsEnough ==
  ASSUME NEW x \in Nat, NEW r \in Nat \ {0}
  PROVE  /\ (x \div r) + 1 \in Nat
         /\ ((x \div r) + 1) * r >= x
  <1>1. x \div r \in Int
    OBVIOUS
  <1>2. x \div r >= 0
    OBVIOUS
  <1>3. x % r \in 0 .. r - 1
    OBVIOUS
  <1>4. x = r * (x \div r) + (x % r)
    OBVIOUS
  <1> DEFINE q == x \div r
  <1> HIDE DEF q
  <1>5. q \in Nat /\ x < r * q + r
    BY <1>1, <1>2, <1>3, <1>4 DEF q
  <1>6. (q + 1) * r = r * q + r
    BY <1>5
  <1>7. (q + 1) * r >= x
    BY <1>5, <1>6
  <1> QED BY <1>5, <1>7 DEF q

LEMMA MoreRefill ==
  ASSUME NEW i \in Nat, NEW r \in Nat, NEW m \in Nat, r <= m
  PROVE  i * r <= i * m /\ i * r \in Nat /\ i * m \in Nat
  OBVIOUS

LEMMA LongerWait ==
  ASSUME NEW i \in Nat, NEW j \in Nat, NEW r \in Nat, i <= j
  PROVE  i * r <= j * r
  OBVIOUS

LEMMA OneTickMore ==
  ASSUME NEW i \in Nat, NEW r \in Nat
  PROVE  (i + 1) * r = i * r + r
  OBVIOUS

LEMMA LeastOfMore ==
  ASSUME NEW t \in Nat, NEW p \in Nat, p >= MaxBurst
  PROVE  Least(MaxBurst, t + p) = MaxBurst
  BY TokenBucketsAssumption DEF Least

LEMMA IdleCapped ==
  ASSUME NEW i \in 0 .. IDLE + 1
  PROVE  /\ Least(i + 1, IDLE + 1) \in 0 .. IDLE + 1
         /\ Least(i + 1, IDLE + 1) = i + 1 \/ (Least(i + 1, IDLE + 1) = IDLE + 1 /\ i = IDLE + 1)
  <1>1. IDLE \in Nat /\ i \in Nat /\ i <= IDLE + 1
    BY TokenBucketsAssumption
  <1>2. CASE i = IDLE + 1
    <2>1. ~(i + 1 < IDLE + 1)
      BY <1>1, <1>2
    <2> QED BY <1>1, <1>2, <2>1 DEF Least
  <1>3. CASE i <= IDLE
    <2>1. i + 1 <= IDLE + 1
      BY <1>1, <1>3
    <2>2. Least(i + 1, IDLE + 1) = i + 1
      BY <1>1, <2>1 DEF Least
    <2> QED BY <1>1, <2>1, <2>2
  <1> QED BY <1>1, <1>2, <1>3

LEMMA LeastGrows ==
  ASSUME NEW t \in Nat, NEW a \in Nat, NEW b \in Nat, b <= a + MaxRefill
  PROVE  /\ Least(MaxBurst, t + a) \in Int /\ Least(MaxBurst, t + b) \in Int
         /\ Least(MaxBurst, t + b) <= Least(MaxBurst, t + a) + MaxRefill
  BY TokenBucketsAssumption DEF Least

\* The limits of the followed table.
LEMMA Limits ==
  ASSUME layer \in Layers, NEW h \in Hosts
  PROVE  /\ Burst(h) \in 0 .. MaxBurst
         /\ Refill(h) \in 1 .. MaxRefill
         /\ FRESH[layer] \in 0 .. MaxBurst
         /\ IDLE * Refill(h) >= MaxBurst
  BY TokenBucketsAssumption, IdleIsFull DEF Burst, Refill

\* A bucket idle for more than IDLE ticks is full, for each host.
LEMMA StaleIsFull ==
  ASSUME layer \in Layers, NEW i \in Nat, i > IDLE
  PROVE  /\ i * MaxRefill >= MaxBurst
         /\ \A h \in Hosts : i * Refill(h) >= MaxBurst
  <1> USE TokenBucketsAssumption
  <1>1. ASSUME NEW h \in Hosts PROVE i * Refill(h) >= MaxBurst
    <2>1. IDLE * Refill(h) >= MaxBurst /\ Refill(h) \in Nat
      BY Limits
    <2>2. IDLE * Refill(h) <= i * Refill(h)
      <3>1. IDLE \in Nat /\ IDLE <= i
        OBVIOUS
      <3> QED BY <2>1, <3>1, LongerWait
    <2>3. IDLE * Refill(h) \in Nat /\ i * Refill(h) \in Nat
      BY <2>1, MoreRefill
    <2> QED BY <2>1, <2>2, <2>3
  <1>2. PICK h \in Hosts : TRUE
    OBVIOUS
  <1>3. Refill(h) \in Nat /\ Refill(h) <= MaxRefill
    BY Limits
  <1>4. i * Refill(h) <= i * MaxRefill /\ i * Refill(h) \in Nat /\ i * MaxRefill \in Nat
    BY <1>3, MoreRefill
  <1>5. i * Refill(h) >= MaxBurst
    BY <1>1
  <1>6. i * MaxRefill >= MaxBurst
    BY <1>4, <1>5
  <1> QED BY <1>1, <1>6

\* What a host finds in a bucket is at most what any host could.
LEMMA RefilledBounded ==
  ASSUME layer \in Layers, NEW b \in Bucket, NEW h \in Hosts
  PROVE  /\ Refilled(b, h) \in 0 .. MaxBurst
         /\ Refilled(b, h) <= Least(MaxBurst, b.tokens + b.idle * MaxRefill)
  <1> USE TokenBucketsAssumption
  <1>1. b.tokens \in 0 .. MaxBurst /\ b.idle \in Nat
    BY DEF Bucket
  <1>2. Burst(h) \in 0 .. MaxBurst /\ Refill(h) \in Nat /\ Refill(h) <= MaxRefill
    BY Limits
  <1>3. b.idle * Refill(h) <= b.idle * MaxRefill /\ b.idle * Refill(h) \in Nat /\ b.idle * MaxRefill \in Nat
    BY <1>1, <1>2, MoreRefill
  <1> HIDE TokenBucketsAssumption
  <1>4. MaxBurst \in Nat
    BY TokenBucketsAssumption
  <1> QED BY <1>1, <1>2, <1>3, <1>4 DEF Refilled, Least

-----------------------------------------------------------------------------

LEMMA LevelTyped ==
  ASSUME TypeOK
  PROVE  Level \in Int /\ Level <= MaxBurst
  <1> USE TokenBucketsAssumption
  <1>1. CASE watched \in DOMAIN table
    <2>1. table[watched].tokens \in Nat /\ table[watched].idle \in Nat
      BY <1>1 DEF TypeOK, Bucket
    <2>2. table[watched].idle * MaxRefill \in Nat
      BY <2>1
    <2> QED BY <1>1, <2>1, <2>2 DEF Level, Least
  <1>2. CASE watched \notin DOMAIN table
    BY <1>2 DEF Level
  <1> QED BY <1>1, <1>2

THEOREM InitEstablishes == Init => IInv
  <1> SUFFICES ASSUME Init PROVE IInv
    OBVIOUS
  <1> USE TokenBucketsAssumption
  <1>1. DOMAIN table = {}
    BY DEF Init
  <1>2. IsFiniteSet(DOMAIN table) /\ Cardinality(DOMAIN table) = 0
    BY <1>1, FS_EmptySet
  <1>3. TypeOK
    BY <1>1, <1>2 DEF Init, TypeOK
  <1>4. Covered /\ PromiseKept
    BY <1>1 DEF Init, Covered, Level, PromiseKept
  <1> QED BY <1>2, <1>3, <1>4 DEF IInv

\* What a request finds, and what becomes of the table when it is counted.
LEMMA TakeStep ==
  ASSUME IInv, NEW k \in Keys, NEW h \in Hosts,
         k \in DOMAIN table \/ ~Full,
         NEW left \in 0 .. MaxBurst,
         table' = With(Swept, k, [tokens |-> left, idle |-> 0]),
         layer' = layer
  PROVE  /\ DOMAIN table' \subseteq Keys
         /\ \A j \in DOMAIN table' : table'[j] \in Bucket
         /\ IsFiniteSet(DOMAIN table')
         /\ layer' = "socket" => Cardinality(DOMAIN table') <= 2 * MAX_IDENTITIES + 1
         /\ k \in DOMAIN table' /\ table'[k] = [tokens |-> left, idle |-> 0]
         /\ \A j \in DOMAIN table' \ {k} : j \in DOMAIN table /\ table'[j] = table[j]
         /\ \A j \in DOMAIN table \ DOMAIN table' : table[j].idle > IDLE
  <1> USE TokenBucketsAssumption DEF IInv
  <1>1. /\ DOMAIN Swept \subseteq DOMAIN table
        /\ \A j \in DOMAIN Swept : Swept[j] = table[j]
        /\ \A j \in DOMAIN table \ DOMAIN Swept : table[j].idle > IDLE
        /\ layer = "socket" => Swept = table
    BY DEF Swept, Without, Stale
  <1>2. /\ DOMAIN table' = DOMAIN Swept \cup {k}
        /\ table'[k] = [tokens |-> left, idle |-> 0]
        /\ \A j \in DOMAIN table' \ {k} : table'[j] = Swept[j]
    BY DEF With
  <1>3. [tokens |-> left, idle |-> 0] \in Bucket
    BY DEF Bucket
  <1>4. IsFiniteSet(DOMAIN Swept)
    BY <1>1, FS_Subset
  <1>5. IsFiniteSet(DOMAIN table')
    <2>1. IsFiniteSet(DOMAIN Swept \cup {k})
      BY <1>4, FS_AddElement
    <2> QED BY <1>2, <2>1
  <1>6. layer' = "socket" => Cardinality(DOMAIN table') <= 2 * MAX_IDENTITIES + 1
    <2> SUFFICES ASSUME layer = "socket"
                 PROVE  Cardinality(DOMAIN table') <= 2 * MAX_IDENTITIES + 1
      OBVIOUS
    <2>1. DOMAIN table' = DOMAIN table \cup {k}
      BY <1>1, <1>2
    <2>2. CASE k \in DOMAIN table
      <3>1. DOMAIN table' = DOMAIN table
        BY <2>1, <2>2
      <3> QED BY <3>1 DEF TypeOK
    <2>3. CASE k \notin DOMAIN table
      <3>1. Cardinality(DOMAIN table) <= 2 * MAX_IDENTITIES
        <4>1. Cardinality(DOMAIN table) \in Nat
          BY FS_CardinalityType
        <4> QED BY <2>3, <4>1 DEF Full
      <3>2. Cardinality(DOMAIN table') = Cardinality(DOMAIN table) + 1
        BY <2>1, <2>3, FS_AddElement
      <3> QED BY <3>1, <3>2, FS_CardinalityType
    <2> QED BY <2>2, <2>3
  <1>7. DOMAIN table' \subseteq Keys
    BY <1>1, <1>2 DEF TypeOK
  <1>8. \A j \in DOMAIN table' : table'[j] \in Bucket
    BY <1>1, <1>2, <1>3 DEF TypeOK
  <1> QED BY <1>1, <1>2, <1>5, <1>6, <1>7, <1>8

\* What a request finds is no more than the level of its key.
LEMMA AfterwardsBounded ==
  ASSUME IInv, NEW k \in Keys, NEW h \in Hosts
  PROVE  /\ Afterwards(k, h) \in 0 .. MaxBurst
         /\ k = watched => Afterwards(k, h) <= Level
  <1> USE DEF IInv
  <1> DEFINE b == IF k \in DOMAIN Swept THEN Swept[k] ELSE NewBucket
  <1>1. /\ k \in DOMAIN Swept => k \in DOMAIN table /\ Swept[k] = table[k]
        /\ k \in DOMAIN table \ DOMAIN Swept => table[k].idle > IDLE
    BY DEF Swept, Without, Stale
  <1>2. b \in Bucket
    <2>1. NewBucket \in Bucket
      BY Limits, TokenBucketsAssumption DEF NewBucket, Bucket, TypeOK
    <2> QED BY <1>1, <2>1 DEF TypeOK
  <1>3. Afterwards(k, h) = Refilled(b, h)
    BY DEF Afterwards
  <1>4. Refilled(b, h) \in 0 .. MaxBurst /\ Refilled(b, h) <= Least(MaxBurst, b.tokens + b.idle * MaxRefill)
    BY <1>2, RefilledBounded DEF TypeOK
  <1>5. ASSUME k = watched PROVE Afterwards(k, h) <= Level
    <2>1. CASE k \in DOMAIN Swept
      <3>1. Level = Least(MaxBurst, b.tokens + b.idle * MaxRefill)
        BY <1>1, <1>5, <2>1 DEF Level
      <3> QED BY <1>3, <1>4, <3>1
    <2>2. CASE k \notin DOMAIN Swept
      <3>1. Level = MaxBurst
        <4>1. CASE k \in DOMAIN table
          <5>1. table[k] \in Bucket /\ table[k].idle > IDLE
            BY <1>1, <2>2, <4>1 DEF TypeOK
          <5>2. table[k].tokens \in Nat /\ table[k].idle \in Nat
            BY <5>1, TokenBucketsAssumption DEF Bucket
          <5>3. table[k].idle * MaxRefill >= MaxBurst
            BY <5>1, <5>2, StaleIsFull DEF TypeOK
          <5>4. table[k].idle * MaxRefill \in Nat
            BY <5>2, TokenBucketsAssumption
          <5>5. Least(MaxBurst, table[k].tokens + table[k].idle * MaxRefill) = MaxBurst
            BY <5>2, <5>3, <5>4, LeastOfMore
          <5> QED BY <1>5, <4>1, <5>5 DEF Level
        <4>2. CASE k \notin DOMAIN table
          BY <1>5, <4>2 DEF Level
        <4> QED BY <4>1, <4>2
      <3> QED BY <1>3, <1>4, <3>1
    <2> QED BY <2>1, <2>2
  <1> QED BY <1>3, <1>4, <1>5

\* What is kept for the watched key when its bucket stays, and when it goes.
LEMMA LevelKept ==
  ASSUME IInv, watched' = watched, spent' = spent, allowance' = allowance,
         watched \in DOMAIN table' =>
           watched \in DOMAIN table /\ table'[watched] = table[watched],
         watched \in DOMAIN table \ DOMAIN table' => table[watched].idle > IDLE
  PROVE  Covered'
  <1> USE DEF IInv
  <1>1. CASE watched \in DOMAIN table'
    BY <1>1 DEF Covered, Level
  <1>2. CASE watched \notin DOMAIN table'
    <2>1. Level = MaxBurst
      <3>1. CASE watched \in DOMAIN table
        <4>1. table[watched] \in Bucket /\ table[watched].idle > IDLE
          BY <1>2, <3>1 DEF TypeOK
        <4>2. table[watched].tokens \in Nat /\ table[watched].idle \in Nat
          BY <4>1, TokenBucketsAssumption DEF Bucket
        <4>3. table[watched].idle * MaxRefill >= MaxBurst
          BY <4>1, <4>2, StaleIsFull DEF TypeOK
        <4>4. table[watched].idle * MaxRefill \in Nat
          BY <4>2, TokenBucketsAssumption
        <4> QED BY <3>1, <4>2, <4>3, <4>4, LeastOfMore DEF Level
      <3>2. CASE watched \notin DOMAIN table
        BY <3>2 DEF Level
      <3> QED BY <3>1, <3>2
    <2>2. Level' = MaxBurst
      BY <1>2 DEF Level
    <2> QED BY <2>1, <2>2 DEF Covered
  <1> QED BY <1>1, <1>2

\* A promise stands as long as the bucket is not touched.
LEMMA PromiseStands ==
  ASSUME IInv, layer' = layer, watched' = watched, promise' \subseteq promise,
         watched \in DOMAIN table' =>
           watched \in DOMAIN table /\ table'[watched] = table[watched]
  PROVE  PromiseKept'
  <1> SUFFICES ASSUME NEW p \in promise', watched \in DOMAIN table', Burst(p.host)' >= COST
               PROVE  table'[watched].tokens + (table'[watched].idle + p.left) * Refill(p.host)' >= COST
    BY DEF PromiseKept
  <1>1. Burst(p.host)' = Burst(p.host) /\ Refill(p.host)' = Refill(p.host)
    BY DEF Burst, Refill
  <1> QED BY <1>1 DEF IInv, PromiseKept

LEMMA AdmitStep ==
  ASSUME IInv, NEW k \in Keys, NEW h \in Hosts, Admit(k, h)
  PROVE  IInv'
  <1> USE TokenBucketsAssumption DEF IInv
  <1> DEFINE left == Afterwards(k, h) - COST
  <1>1. /\ Afterwards(k, h) \in 0 .. MaxBurst /\ Afterwards(k, h) >= COST
        /\ k = watched => Afterwards(k, h) <= Level
    BY AfterwardsBounded DEF Admit
  <1>2. left \in 0 .. MaxBurst
    BY <1>1
  <1>3. /\ table' = With(Swept, k, [tokens |-> left, idle |-> 0])
        /\ UNCHANGED <<layer, watched, allowance>>
        /\ k \in DOMAIN table \/ ~Full
    BY DEF Admit
  <1> HIDE DEF left
  <1>4. /\ DOMAIN table' \subseteq Keys
        /\ \A j \in DOMAIN table' : table'[j] \in Bucket
        /\ IsFiniteSet(DOMAIN table')
        /\ layer' = "socket" => Cardinality(DOMAIN table') <= 2 * MAX_IDENTITIES + 1
        /\ k \in DOMAIN table' /\ table'[k] = [tokens |-> left, idle |-> 0]
        /\ \A j \in DOMAIN table' \ {k} : j \in DOMAIN table /\ table'[j] = table[j]
        /\ \A j \in DOMAIN table \ DOMAIN table' : table[j].idle > IDLE
    BY <1>2, <1>3, TakeStep
  <1>5. CASE k = watched
    <2>1. spent' = spent + COST /\ promise' = {}
      BY <1>5 DEF Admit
    <2>2. TypeOK'
      BY <1>3, <1>4, <2>1 DEF TypeOK
    <2>3. Covered'
      <3>1. Level' = left
        <4>1. Level' = Least(MaxBurst, left + 0 * MaxRefill)
          BY <1>3, <1>4, <1>5 DEF Level
        <4> QED BY <1>2, <4>1 DEF Least
      <3>2. left + COST <= Level /\ left \in Nat
        BY <1>1, <1>2, <1>5 DEF left
      <3>3. spent \in Nat /\ allowance \in Nat /\ spent + Level <= allowance
        BY DEF TypeOK, Covered
      <3>4. Level \in Int
        BY LevelTyped
      <3> QED BY <1>3, <2>1, <3>1, <3>2, <3>3, <3>4 DEF Covered
    <2>4. PromiseKept'
      BY <2>1 DEF PromiseKept
    <2> QED BY <1>4, <2>2, <2>3, <2>4
  <1>6. CASE k # watched
    <2>1. UNCHANGED <<spent, promise>>
      BY <1>6 DEF Admit
    <2>2. TypeOK'
      BY <1>3, <1>4, <2>1 DEF TypeOK
    <2>3. Covered'
      BY <1>3, <1>4, <1>6, <2>1, LevelKept
    <2>4. PromiseKept'
      BY <1>3, <1>4, <1>6, <2>1, PromiseStands
    <2> QED BY <1>4, <2>2, <2>3, <2>4
  <1> QED BY <1>5, <1>6

\* The time a refused client is told to wait earns what its bucket lacks.
LEMMA RetryEarns ==
  ASSUME layer \in Layers, NEW h \in Hosts, NEW left \in Nat, left < COST
  PROVE  RetryAfter(left, h) \in Nat /\ left + RetryAfter(left, h) * Refill(h) >= COST
  <1> USE TokenBucketsAssumption
  <1>1. Refill(h) \in Nat \ {0}
    BY Limits
  <1>2. COST - left \in Nat
    OBVIOUS
  <1> DEFINE x == COST - left
             r == Refill(h)
  <1> HIDE DEF x, r
  <1>3. (x \div r) + 1 \in Nat /\ ((x \div r) + 1) * r >= x
    BY <1>1, <1>2, WaitIsEnough DEF x, r
  <1>4. RetryAfter(left, h) = (x \div r) + 1
    BY DEF RetryAfter, x, r
  <1>5. RetryAfter(left, h) \in Nat /\ RetryAfter(left, h) * Refill(h) >= COST - left
    BY <1>3, <1>4 DEF x, r
  <1>6. RetryAfter(left, h) * Refill(h) \in Nat
    BY <1>1, <1>5
  <1> QED BY <1>2, <1>5, <1>6

LEMMA RefuseStep ==
  ASSUME IInv, NEW k \in Keys, NEW h \in Hosts, Refuse(k, h)
  PROVE  IInv'
  <1> USE TokenBucketsAssumption DEF IInv
  <1> DEFINE left == Afterwards(k, h)
  <1>1. left \in 0 .. MaxBurst /\ left < COST /\ (k = watched => left <= Level)
    BY AfterwardsBounded DEF Refuse
  <1>2. /\ table' = With(Swept, k, [tokens |-> left, idle |-> 0])
        /\ promise' = IF k = watched THEN Promised(left, h) ELSE promise
        /\ UNCHANGED <<layer, watched, spent, allowance>>
        /\ k \in DOMAIN table \/ ~Full
    BY DEF Refuse
  <1> HIDE DEF left
  <1>3. /\ DOMAIN table' \subseteq Keys
        /\ \A j \in DOMAIN table' : table'[j] \in Bucket
        /\ IsFiniteSet(DOMAIN table')
        /\ layer' = "socket" => Cardinality(DOMAIN table') <= 2 * MAX_IDENTITIES + 1
        /\ k \in DOMAIN table' /\ table'[k] = [tokens |-> left, idle |-> 0]
        /\ \A j \in DOMAIN table' \ {k} : j \in DOMAIN table /\ table'[j] = table[j]
        /\ \A j \in DOMAIN table \ DOMAIN table' : table[j].idle > IDLE
    BY <1>1, <1>2, TakeStep
  <1>4. CASE k = watched
    <2>1. RetryAfter(left, h) \in Nat /\ left + RetryAfter(left, h) * Refill(h) >= COST
      BY <1>1, RetryEarns DEF TypeOK
    <2>2. \A p \in promise' : p = [host |-> h, left |-> RetryAfter(left, h)]
      BY <1>2, <1>4 DEF Promised
    <2>3. TypeOK'
      <3>1. promise' \subseteq [host : Hosts, left : Nat]
        BY <2>1, <2>2
      <3> QED BY <1>2, <1>3, <3>1 DEF TypeOK
    <2>4. Covered'
      <3>1. Level' = left
        <4>1. Level' = Least(MaxBurst, left + 0 * MaxRefill)
          BY <1>2, <1>3, <1>4 DEF Level
        <4> QED BY <1>1, <4>1 DEF Least
      <3>2. spent \in Nat /\ allowance \in Nat /\ spent + Level <= allowance
        BY DEF TypeOK, Covered
      <3>3. Level \in Int
        BY LevelTyped
      <3> QED BY <1>1, <1>2, <1>4, <3>1, <3>2, <3>3 DEF Covered
    <2>5. PromiseKept'
      <3> SUFFICES ASSUME NEW p \in promise'
                   PROVE  table'[watched].tokens + (table'[watched].idle + p.left) * Refill(p.host)' >= COST
        BY <1>2 DEF PromiseKept
      <3>1. p.host = h /\ p.left = RetryAfter(left, h)
        BY <2>2
      <3>2. table'[watched].tokens = left /\ table'[watched].idle + p.left = RetryAfter(left, h)
        BY <1>3, <1>4, <2>1, <3>1
      <3>3. Refill(p.host)' = Refill(h)
        BY <1>2, <3>1 DEF Refill
      <3> QED BY <2>1, <3>2, <3>3
    <2> QED BY <1>3, <2>3, <2>4, <2>5
  <1>5. CASE k # watched
    <2>1. promise' = promise
      BY <1>2, <1>5
    <2>2. TypeOK'
      BY <1>2, <1>3, <2>1 DEF TypeOK
    <2>3. Covered'
      BY <1>2, <1>3, <1>5, LevelKept
    <2>4. PromiseKept'
      BY <1>2, <1>3, <1>5, <2>1, PromiseStands
    <2> QED BY <1>3, <2>2, <2>3, <2>4
  <1> QED BY <1>4, <1>5

\* Buckets go: the watched one because it was stale, or the window is charged.
LEMMA RemovalStep ==
  ASSUME IInv, UNCHANGED <<layer, watched, spent>>,
         DOMAIN table' \subseteq DOMAIN table,
         \A j \in DOMAIN table' : table'[j] = table[j],
         \/ /\ UNCHANGED <<allowance, promise>>
            /\ watched \in DOMAIN table \ DOMAIN table' => table[watched].idle > IDLE
         \/ /\ allowance' = allowance + MaxBurst /\ promise' = {}
            /\ watched \notin DOMAIN table'
  PROVE  IInv'
  <1> USE TokenBucketsAssumption DEF IInv
  <1>1. /\ IsFiniteSet(DOMAIN table')
        /\ layer' = "socket" => Cardinality(DOMAIN table') <= 2 * MAX_IDENTITIES + 1
    <2>1. IsFiniteSet(DOMAIN table') /\ Cardinality(DOMAIN table') <= Cardinality(DOMAIN table)
      BY FS_Subset
    <2>2. Cardinality(DOMAIN table') \in Nat /\ Cardinality(DOMAIN table) \in Nat
      BY <2>1, FS_CardinalityType
    <2> QED BY <2>1, <2>2 DEF TypeOK
  <1>2. TypeOK'
    <2>1. allowance' \in Nat /\ promise' \subseteq promise
      BY DEF TypeOK
    <2> QED BY <1>1, <2>1 DEF TypeOK
  <1>3. CASE UNCHANGED <<allowance, promise>> /\
             (watched \in DOMAIN table \ DOMAIN table' => table[watched].idle > IDLE)
    <2>1. Covered'
      BY <1>3, LevelKept
    <2>2. PromiseKept'
      BY <1>3, PromiseStands
    <2> QED BY <1>1, <1>2, <2>1, <2>2
  <1>4. CASE allowance' = allowance + MaxBurst /\ promise' = {} /\ watched \notin DOMAIN table'
    <2>1. Level' = MaxBurst
      BY <1>4 DEF Level
    <2>2. spent <= allowance
      <3>1. Level \in Int /\ Level >= 0
        <4>1. CASE watched \in DOMAIN table
          <5>1. table[watched].tokens \in Nat /\ table[watched].idle \in Nat
            BY <4>1 DEF TypeOK, Bucket
          <5>2. table[watched].idle * MaxRefill \in Nat
            BY <5>1
          <5> QED BY <4>1, <5>1, <5>2 DEF Level, Least
        <4>2. CASE watched \notin DOMAIN table
          BY <4>2 DEF Level
        <4> QED BY <4>1, <4>2
      <3> QED BY <3>1 DEF Covered, TypeOK
    <2>3. Covered'
      BY <1>4, <2>1, <2>2 DEF Covered, TypeOK
    <2>4. PromiseKept'
      BY <1>4 DEF PromiseKept
    <2> QED BY <1>1, <1>2, <2>3, <2>4
  <1> QED BY <1>3, <1>4

LEMMA PruneStep ==
  ASSUME IInv, PruneBuckets
  PROVE  IInv'
  <1> DEFINE kept == Without(table, Stale)
  <1>1. /\ DOMAIN kept = DOMAIN table \ Stale
        /\ \A j \in DOMAIN kept : kept[j] = table[j]
        /\ \A j \in DOMAIN table \ DOMAIN kept : table[j].idle > IDLE
    BY DEF Without, Stale
  <1>2. UNCHANGED <<layer, watched, spent>>
    BY DEF PruneBuckets
  <1>3. CASE table' = kept /\ UNCHANGED <<allowance, promise>>
    <2>1. /\ DOMAIN table' \subseteq DOMAIN table
          /\ \A j \in DOMAIN table' : table'[j] = table[j]
          /\ watched \in DOMAIN table \ DOMAIN table' => table[watched].idle > IDLE
      BY <1>1, <1>3
    <2> QED BY <1>2, <1>3, <2>1, RemovalStep
  <1>4. ASSUME NEW gone \in Oldest(kept, MAX_IDENTITIES), table' = Without(kept, gone), Forgiven(gone)
        PROVE  IInv'
    <2>1. /\ DOMAIN table' = DOMAIN kept \ gone
          /\ \A j \in DOMAIN table' : table'[j] = kept[j]
      BY <1>4 DEF Without
    <2>2. DOMAIN table' \subseteq DOMAIN table /\ \A j \in DOMAIN table' : table'[j] = table[j]
      BY <1>1, <2>1
    <2>3. CASE watched \in gone \ Stale
      BY <1>2, <1>4, <2>1, <2>2, <2>3, RemovalStep DEF Forgiven
    <2>4. CASE watched \notin gone \ Stale
      <3>1. UNCHANGED <<allowance, promise>>
        BY <1>4, <2>4 DEF Forgiven
      <3>2. watched \in DOMAIN table \ DOMAIN table' => table[watched].idle > IDLE
        BY <1>1, <2>1, <2>4 DEF Stale
      <3> QED BY <1>2, <2>2, <3>1, <3>2, RemovalStep
    <2> QED BY <2>3, <2>4
  <1> QED BY <1>3, <1>4 DEF PruneBuckets

LEMMA DropStep ==
  ASSUME IInv, NEW k \in Keys, DropIdentity(k)
  PROVE  IInv'
  <1>1. /\ DOMAIN table' = DOMAIN table \ {k}
        /\ \A j \in DOMAIN table' : table'[j] = table[j]
        /\ UNCHANGED <<layer, watched, spent>>
        /\ Forgiven({k})
    BY DEF DropIdentity, Without
  <1>2. CASE watched \in {k} \ Stale
    BY <1>1, <1>2, RemovalStep DEF Forgiven
  <1>3. CASE watched \notin {k} \ Stale
    <2>1. UNCHANGED <<allowance, promise>>
      BY <1>1, <1>3 DEF Forgiven
    <2>2. watched \in DOMAIN table \ DOMAIN table' => table[watched].idle > IDLE
      BY <1>1, <1>3 DEF Stale
    <2> QED BY <1>1, <2>1, <2>2, RemovalStep
  <1> QED BY <1>2, <1>3

\* A tick gives a bucket at most MaxRefill, and a waiting client what it waits for.
LEMMA TickStep ==
  ASSUME IInv, Tick
  PROVE  IInv'
  <1> USE TokenBucketsAssumption DEF IInv
  <1>1. /\ DOMAIN table' = DOMAIN table
        /\ \A k \in DOMAIN table : table'[k] = Aged(table[k])
        /\ UNCHANGED <<layer, watched, spent>>
        /\ allowance' = allowance + MaxRefill
        /\ promise' = {[p EXCEPT !.left = IF @ > 0 THEN @ - 1 ELSE 0] : p \in promise}
    BY DEF Tick
  <1>2. ASSUME NEW k \in DOMAIN table
        PROVE  /\ table'[k] \in Bucket /\ table'[k].tokens = table[k].tokens
               /\ \/ table'[k].idle = table[k].idle + 1
                  \/ table'[k].idle = IDLE + 1 /\ table[k].idle = IDLE + 1
    <2>1. table[k] \in Bucket
      BY DEF TypeOK
    <2>2. table[k].tokens \in 0 .. MaxBurst /\ table[k].idle \in 0 .. IDLE + 1
      BY <2>1 DEF Bucket
    <2>3. table'[k] = [tokens |-> table[k].tokens, idle |-> Least(table[k].idle + 1, IDLE + 1)]
      BY <1>1, <2>1 DEF Aged, Bucket
    <2>4. /\ Least(table[k].idle + 1, IDLE + 1) \in 0 .. IDLE + 1
          /\ \/ Least(table[k].idle + 1, IDLE + 1) = table[k].idle + 1
             \/ Least(table[k].idle + 1, IDLE + 1) = IDLE + 1 /\ table[k].idle = IDLE + 1
      BY <2>2, IdleCapped
    <2>5. table'[k].tokens = table[k].tokens /\ table'[k].idle = Least(table[k].idle + 1, IDLE + 1)
      BY <2>3
    <2>6. table'[k] \in Bucket
      BY <2>2, <2>3, <2>4 DEF Bucket
    <2> QED BY <2>4, <2>5, <2>6
  <1>3. promise' \subseteq [host : Hosts, left : Nat]
    <2> SUFFICES ASSUME NEW p \in promise
                 PROVE  [p EXCEPT !.left = IF @ > 0 THEN @ - 1 ELSE 0] \in [host : Hosts, left : Nat]
      BY <1>1
    <2>1. p \in [host : Hosts, left : Nat]
      BY DEF TypeOK
    <2> QED BY <2>1
  <1>4. TypeOK'
    BY <1>1, <1>2, <1>3 DEF TypeOK
  <1>5. Covered'
    <2>1. CASE watched \in DOMAIN table
      <3> DEFINE t == table[watched].tokens
                 i == table[watched].idle
                 j == table'[watched].idle
      <3>1. t \in Nat /\ i \in Nat /\ j \in Nat /\ (j = i + 1 \/ j = i)
        BY <1>2, <2>1 DEF TypeOK, Bucket
      <3>2. Level = Least(MaxBurst, t + i * MaxRefill) /\ Level' = Least(MaxBurst, t + j * MaxRefill)
        BY <1>1, <1>2, <2>1 DEF Level
      <3> HIDE DEF t, i, j
      <3>3. i * MaxRefill \in Nat /\ j * MaxRefill \in Nat /\ j * MaxRefill <= i * MaxRefill + MaxRefill
        BY <3>1, OneTickMore
      <3>4. Level \in Int /\ Level' \in Int /\ Level' <= Level + MaxRefill
        BY <3>1, <3>2, <3>3, LeastGrows
      <3> QED BY <1>1, <3>4 DEF Covered, TypeOK
    <2>2. CASE watched \notin DOMAIN table
      <3>1. Level = MaxBurst /\ Level' = MaxBurst
        BY <1>1, <2>2 DEF Level
      <3> QED BY <1>1, <3>1 DEF Covered, TypeOK
    <2> QED BY <2>1, <2>2
  <1>6. PromiseKept'
    <2> SUFFICES ASSUME NEW q \in promise', watched \in DOMAIN table, Burst(q.host) >= COST
                 PROVE  table'[watched].tokens + (table'[watched].idle + q.left) * Refill(q.host) >= COST
      BY <1>1 DEF PromiseKept, Burst, Refill
    <2>1. PICK p \in promise : q = [p EXCEPT !.left = IF @ > 0 THEN @ - 1 ELSE 0]
      BY <1>1
    <2>2. p \in [host : Hosts, left : Nat]
      BY DEF TypeOK
    <2>3. q.host = p.host /\ q.left = (IF p.left > 0 THEN p.left - 1 ELSE 0)
      BY <2>1, <2>2
    <2> DEFINE t == table[watched].tokens
               i == table[watched].idle
               j == table'[watched].idle
               r == Refill(q.host)
    <2>4. t + (i + p.left) * r >= COST
      BY <2>3 DEF PromiseKept
    <2>5. /\ t \in Nat /\ i \in Nat /\ j \in Nat /\ table'[watched].tokens = t
          /\ j = i + 1 \/ j = IDLE + 1
      BY <1>2 DEF TypeOK, Bucket
    <2>6. r \in Nat /\ Burst(q.host) <= MaxBurst /\ Burst(q.host) \in Nat
      BY <2>2, <2>3, Limits DEF TypeOK
    <2>7. q.left \in Nat /\ p.left \in Nat
      BY <2>2, <2>3
    <2>8. CASE j = i + 1
      <3>1. i + p.left <= j + q.left
        BY <2>2, <2>3, <2>5, <2>8
      <3> HIDE DEF t, i, j, r
      <3>2. (i + p.left) * r <= (j + q.left) * r
        BY <2>5, <2>6, <2>7, <3>1, LongerWait
      <3>3. (i + p.left) * r \in Nat /\ (j + q.left) * r \in Nat
        BY <2>5, <2>6, <2>7
      <3>4. t + (j + q.left) * r >= COST
        BY <2>4, <2>5, <3>2, <3>3
      <3> QED BY <2>5, <3>4 DEF j, r
    <2>9. CASE j = IDLE + 1
      <3>1. j * r >= MaxBurst
        BY <2>2, <2>3, <2>5, <2>9, StaleIsFull DEF TypeOK
      <3> HIDE DEF t, i, j, r
      <3>2. j * r <= (j + q.left) * r
        BY <2>5, <2>6, <2>7, LongerWait
      <3>3. j * r \in Nat /\ (j + q.left) * r \in Nat
        BY <2>5, <2>6, <2>7
      <3>4. t + (j + q.left) * r >= COST
        BY <2>5, <2>6, <3>1, <3>2, <3>3
      <3> QED BY <2>5, <3>4 DEF j, r
    <2> QED BY <2>5, <2>8, <2>9
  <1> QED BY <1>1, <1>4, <1>5, <1>6

LEMMA WatchStep ==
  ASSUME IInv, NEW k \in Keys, Watch(k)
  PROVE  IInv'
  <1> USE TokenBucketsAssumption DEF IInv
  <1>1. TypeOK'
    BY DEF Watch, TypeOK
  <1>2. Level' <= MaxBurst /\ Level' \in Int
    <2>1. CASE k \in DOMAIN table
      <3>1. table[k].tokens \in Nat /\ table[k].idle \in Nat
        BY <2>1 DEF TypeOK, Bucket
      <3>2. table[k].idle * MaxRefill \in Nat
        BY <3>1
      <3>3. Level' = Least(MaxBurst, table[k].tokens + table[k].idle * MaxRefill)
        BY <2>1 DEF Watch, Level
      <3> QED BY <3>1, <3>2, <3>3 DEF Least
    <2>2. CASE k \notin DOMAIN table
      BY <2>2 DEF Watch, Level
    <2> QED BY <2>1, <2>2
  <1>3. Covered' /\ PromiseKept'
    BY <1>2 DEF Watch, Covered, PromiseKept
  <1>4. IsFiniteSet(DOMAIN table')
    BY DEF Watch
  <1> QED BY <1>1, <1>3, <1>4

-----------------------------------------------------------------------------

THEOREM StepPreserves == IInv /\ [Next]_vars => IInv'
  <1> SUFFICES ASSUME IInv, [Next]_vars PROVE IInv'
    OBVIOUS
  <1>1. CASE UNCHANGED vars
    BY <1>1 DEF vars, IInv, TypeOK, Covered, Level, PromiseKept, Burst, Refill
  <1>2. ASSUME NEW k \in Keys, NEW h \in Hosts, Admit(k, h) \/ Refuse(k, h)
        PROVE  IInv'
    BY <1>2, AdmitStep, RefuseStep
  <1>3. ASSUME NEW k \in Keys, DropIdentity(k) \/ Watch(k)
        PROVE  IInv'
    BY <1>3, DropStep, WatchStep
  <1>4. CASE PruneBuckets \/ Tick
    BY <1>4, PruneStep, TickStep
  <1> QED BY <1>1, <1>2, <1>3, <1>4 DEF Next

\* The strengthened invariant holds for ever.
THEOREM Inductive == Spec => []IInv
  <1> QED BY InitEstablishes, StepPreserves, PTL DEF Spec

\* Buckets are well formed, and the socket table never holds more than twice
\* MAX_IDENTITIES and one addresses.
THEOREM TypeCorrect == Spec => []TypeOK
  <1>1. IInv => TypeOK
    BY DEF IInv
  <1> QED BY <1>1, Inductive, PTL

\* Pruning and lazy refill together never let a key have more than its burst
\* and the refill of the time passed.
THEOREM RateIsBounded == Spec => []RateBounded
  <1>1. IInv => RateBounded
    <2> SUFFICES ASSUME IInv PROVE RateBounded
      OBVIOUS
    <2> USE TokenBucketsAssumption DEF IInv
    <2>1. Level \in Int /\ Level >= 0
      <3>1. CASE watched \in DOMAIN table
        <4>1. table[watched].tokens \in Nat /\ table[watched].idle \in Nat
          BY <3>1 DEF TypeOK, Bucket
        <4>2. table[watched].idle * MaxRefill \in Nat
          BY <4>1
        <4> QED BY <3>1, <4>1, <4>2 DEF Level, Least
      <3>2. CASE watched \notin DOMAIN table
        BY <3>2 DEF Level
      <3> QED BY <3>1, <3>2
    <2> QED BY <2>1 DEF Covered, TypeOK, RateBounded
  <1> QED BY <1>1, Inductive, PTL

\* The Retry-After of a 429 is long enough, for any limits.
THEOREM RetryAfterIsEnough == Spec => []RetryAfterHolds
  <1>1. IInv => RetryAfterHolds
    <2> SUFFICES ASSUME IInv, NEW p \in promise, p.left = 0, watched \in DOMAIN table,
                        Burst(p.host) >= COST
                 PROVE  Refilled(table[watched], p.host) >= COST
      BY DEF RetryAfterHolds
    <2> USE DEF IInv
    <2>1. p.host \in Hosts /\ table[watched].tokens \in Nat /\ table[watched].idle \in Nat
      BY TokenBucketsAssumption DEF TypeOK, Bucket
    <2>2. Refill(p.host) \in Nat /\ Burst(p.host) \in Nat
      BY <2>1, Limits, TokenBucketsAssumption DEF TypeOK
    <2>3. table[watched].idle + p.left = table[watched].idle
      BY <2>1
    <2>4. table[watched].tokens + table[watched].idle * Refill(p.host) >= COST
      BY <2>3 DEF PromiseKept
    <2> QED BY <2>4 DEF Refilled, Least
  <1> QED BY <1>1, Inductive, PTL

-----------------------------------------------------------------------------
(***************************************************************************)
(* Challenges                                                              *)
(***************************************************************************)

\* A token that was accepted is remembered, or its validity has passed since.
Remembering ==
  /\ tick \in Nat
  /\ \A t \in DOMAIN usedAt :
       /\ usedAt[t] \in Nat
       /\ \/ t \in DOMAIN seen /\ seen[t] = usedAt[t] + Ticks(POW_VALID_SECS)
          \/ tick >= usedAt[t] + Ticks(POW_VALID_SECS)

\* What is pruned on the way has expired.
LEMMA RememberedIsKept ==
  ASSUME Remembering
  PROVE  /\ Remembered \subseteq DOMAIN seen
         /\ \A t \in DOMAIN seen \ Remembered : ~(seen[t] > tick)
  BY DEF Remembered

\* Within its validity a token that was accepted is not accepted again.
LEMMA VerifyStep ==
  ASSUME Remembering, NEW t \in Tokens, Verify(t)
  PROVE  Remembering' /\ TokenSpentOnce
  <1> DEFINE kept == Keep(seen, Remembered)
  <1>1. DOMAIN kept = Remembered /\ \A u \in Remembered : kept[u] = seen[u]
    BY RememberedIsKept DEF Keep
  <1>2. \A u \in DOMAIN usedAt :
          \/ u \in Remembered /\ seen[u] = usedAt[u] + Ticks(POW_VALID_SECS)
          \/ tick >= usedAt[u] + Ticks(POW_VALID_SECS)
    <2> SUFFICES ASSUME NEW u \in DOMAIN usedAt, u \in DOMAIN seen \ Remembered,
                        seen[u] = usedAt[u] + Ticks(POW_VALID_SECS)
                 PROVE  tick >= usedAt[u] + Ticks(POW_VALID_SECS)
      BY DEF Remembering
    <2> QED BY RememberedIsKept, PowAssumption DEF Remembering, Ticks
  <1>3. tick' = tick
    BY DEF Verify
  <1>4. CASE t \in Remembered
    <2>1. seen' = kept /\ usedAt' = usedAt
      BY <1>4 DEF Verify
    <2> QED BY <1>1, <1>2, <1>3, <2>1 DEF Remembering, TokenSpentOnce, Ticks
  <1>5. CASE t \notin Remembered
    <2>1. seen' = Put(kept, t, Expiry(t)) /\ usedAt' = Put(usedAt, t, tick)
      BY <1>5 DEF Verify
    <2>2. /\ DOMAIN seen' = Remembered \cup {t} /\ seen'[t] = tick + Ticks(POW_VALID_SECS)
          /\ \A u \in Remembered \ {t} : seen'[u] = seen[u]
      BY <1>1, <2>1 DEF Put, Expiry
    <2>3. /\ DOMAIN usedAt' = DOMAIN usedAt \cup {t} /\ usedAt'[t] = tick
          /\ \A u \in DOMAIN usedAt \ {t} : usedAt'[u] = usedAt[u]
      BY <2>1 DEF Put
    <2>4. Remembering'
      <3> SUFFICES ASSUME NEW u \in DOMAIN usedAt'
                   PROVE  /\ usedAt'[u] \in Nat
                          /\ \/ u \in DOMAIN seen' /\ seen'[u] = usedAt'[u] + Ticks(POW_VALID_SECS)
                             \/ tick >= usedAt'[u] + Ticks(POW_VALID_SECS)
        BY <1>3 DEF Remembering, Ticks
      <3>1. CASE u = t
        BY <2>2, <2>3, <3>1 DEF Remembering
      <3>2. CASE u # t
        BY <1>2, <2>2, <2>3, <3>2 DEF Remembering
      <3> QED BY <3>1, <3>2
    <2>5. TokenSpentOnce
      <3> SUFFICES ASSUME NEW u \in DOMAIN usedAt, usedAt'[u] # usedAt[u]
                   PROVE  usedAt'[u] - usedAt[u] >= Ticks(POW_VALID_SECS)
        BY DEF TokenSpentOnce
      <3>1. u = t /\ usedAt'[u] = tick
        BY <2>3
      <3>2. tick >= usedAt[u] + Ticks(POW_VALID_SECS)
        BY <1>2, <1>5, <3>1
      <3>3. tick \in Nat /\ usedAt[u] \in Nat /\ Ticks(POW_VALID_SECS) \in Nat
        BY PowAssumption DEF Remembering, Ticks
      <3> QED BY <3>1, <3>2, <3>3
    <2> QED BY <2>4, <2>5
  <1> QED BY <1>4, <1>5

LEMMA PowStep ==
  ASSUME Remembering, [PowNext]_powVars
  PROVE  Remembering' /\ TokenSpentOnce
  <1>1. CASE UNCHANGED <<tick, seen, usedAt>>
    BY <1>1 DEF Remembering, TokenSpentOnce, Ticks
  <1>2. ASSUME NEW bind \in Binds, Demand(bind) \/ \E a \in Addresses : Ask(a, bind)
        PROVE  UNCHANGED <<tick, seen, usedAt>>
    BY <1>2 DEF Demand, Ask
  <1>3. ASSUME NEW t \in Tokens, Verify(t)
        PROVE  Remembering' /\ TokenSpentOnce
    BY <1>3, VerifyStep
  <1>4. CASE PrunePow
    <2>1. /\ UNCHANGED <<tick, usedAt>>
          /\ DOMAIN seen' = {t \in DOMAIN seen : seen[t] >= tick}
          /\ \A t \in DOMAIN seen' : seen'[t] = seen[t]
      BY <1>4 DEF PrunePow, Keep
    <2>2. Remembering'
      <3> SUFFICES ASSUME NEW t \in DOMAIN usedAt
                   PROVE  \/ t \in DOMAIN seen' /\ seen'[t] = usedAt[t] + Ticks(POW_VALID_SECS)
                          \/ tick >= usedAt[t] + Ticks(POW_VALID_SECS)
        BY <2>1 DEF Remembering, Ticks
      <3>1. CASE t \in DOMAIN seen /\ seen[t] = usedAt[t] + Ticks(POW_VALID_SECS)
        BY <2>1, <3>1, PowAssumption DEF Remembering, Ticks
      <3>2. CASE tick >= usedAt[t] + Ticks(POW_VALID_SECS)
        BY <3>2
      <3> QED BY <3>1, <3>2 DEF Remembering
    <2> QED BY <2>1, <2>2 DEF TokenSpentOnce
  <1>5. CASE HalfSecond
    BY <1>5, PowAssumption DEF HalfSecond, Remembering, TokenSpentOnce, Ticks
  <1>6. CASE PowRestart
    <2>1. tick' = tick /\ DOMAIN usedAt' = {}
      BY <1>6 DEF PowRestart, Nobody
    <2> QED BY <2>1 DEF Remembering, TokenSpentOnce
  <1> QED BY <1>1, <1>2, <1>3, <1>4, <1>5, <1>6 DEF PowNext, powVars

-----------------------------------------------------------------------------
(***************************************************************************)
(* Reports                                                                 *)
(***************************************************************************)

\* A report that was accepted is remembered, or its TTL has passed since.
Noting ==
  /\ moment \in Nat
  /\ \A t \in DOMAIN acceptedAt :
       /\ acceptedAt[t] \in Nat
       /\ \/ t \in DOMAIN replayed /\ replayed[t] = acceptedAt[t]
          \/ moment - acceptedAt[t] > HalfSeconds(TOKEN_TTL)

\* Within its TTL the token of a page that was accepted is not accepted again.
LEMMA InteractionStep ==
  ASSUME Noting, NEW p \in Persons, NEW token \in sheets, ReportInteraction(p, token)
  PROVE  Noting' /\ ReportSpentOnce
  <1>1. HalfSeconds(TOKEN_TTL) \in Nat
    BY ReportsAssumption DEF HalfSeconds
  <1>2. \A t \in DOMAIN acceptedAt :
          \/ t \in StillSeen /\ replayed[t] = acceptedAt[t]
          \/ moment - acceptedAt[t] > HalfSeconds(TOKEN_TTL)
    BY <1>1 DEF Noting, StillSeen
  <1>3. moment' = moment
    BY DEF ReportInteraction
  <1>4. CASE token \in StillSeen
    <2>1. replayed' = [t \in StillSeen |-> replayed[t]] /\ acceptedAt' = acceptedAt
      BY <1>4 DEF ReportInteraction
    <2> QED BY <1>2, <1>3, <2>1 DEF Noting, ReportSpentOnce
  <1>5. CASE token \notin StillSeen
    <2>1. /\ DOMAIN replayed' = StillSeen \cup {token} /\ replayed'[token] = moment
          /\ \A t \in StillSeen \ {token} : replayed'[t] = replayed[t]
      BY <1>5 DEF ReportInteraction, SinceAccepted
    <2>2. /\ DOMAIN acceptedAt' = DOMAIN acceptedAt \cup {token} /\ acceptedAt'[token] = moment
          /\ \A t \in DOMAIN acceptedAt \ {token} : acceptedAt'[t] = acceptedAt[t]
      BY <1>5 DEF ReportInteraction
    <2>3. Noting'
      BY <1>2, <1>3, <2>1, <2>2 DEF Noting
    <2>4. ReportSpentOnce
      BY <1>1, <1>2, <1>5, <2>2 DEF Noting, ReportSpentOnce
    <2> QED BY <2>3, <2>4
  <1> QED BY <1>4, <1>5

LEMMA ReportsStep ==
  ASSUME Noting, [ReportsNext]_reportVars
  PROVE  Noting' /\ ReportSpentOnce
  <1>1. CASE UNCHANGED <<moment, replayed, acceptedAt>>
    BY <1>1 DEF Noting, ReportSpentOnce
  <1>2. ASSUME NEW p \in Persons, PutIn(p)
        PROVE  UNCHANGED <<moment, replayed, acceptedAt>>
    BY <1>2 DEF PutIn
  <1>3. ASSUME NEW p \in Persons, NEW token \in sheets,
               ReportBotd(p, token) \/ ReportAutomation(p, token) \/ ReportCanvas(p, token)
        PROVE  UNCHANGED <<moment, replayed, acceptedAt>>
    BY <1>3 DEF ReportBotd, ReportAutomation, ReportCanvas
  <1>4. ASSUME NEW p \in Persons, NEW token \in sheets, ReportInteraction(p, token)
        PROVE  Noting' /\ ReportSpentOnce
    BY <1>4, InteractionStep
  <1>5. CASE HalfASecond
    <2>1. HalfSeconds(TOKEN_TTL) \in Nat
      BY ReportsAssumption DEF HalfSeconds
    <2> QED BY <1>5, <2>1 DEF HalfASecond, Noting, ReportSpentOnce
  <1>6. CASE ReportsRestart
    <2>1. moment' = moment /\ DOMAIN acceptedAt' = {}
      BY <1>6 DEF ReportsRestart
    <2> QED BY <2>1 DEF Noting, ReportSpentOnce
  <1> QED BY <1>1, <1>2, <1>3, <1>4, <1>5, <1>6 DEF ReportsNext, reportVars

-----------------------------------------------------------------------------
(***************************************************************************)
(* The execution probe                                                     *)
(***************************************************************************)

\* A link that will still be known when it is fetched in time.
Pending(v, f) ==
  /\ f.link[1] = v /\ f.since = counts[v].first
  /\ instant - f.since < CANARY_PROBE_TTL
  /\ f.link \in DOMAIN store /\ store[f.link] >= f.since + 2 * CANARY_PROBE_TTL

\* A browser that pages are counted for was confirmed, or has still to fetch
\* the link of the first of them.
Excused ==
  \A v \in Browsers \ unheard :
    v \in DOMAIN counts /\ counts[v].pages # 0
    => v \in confirmed \/ \E f \in awaiting : Pending(v, f)

ProbeClock ==
  /\ instant \in Nat
  /\ \A f \in awaiting : f.since \in Nat /\ f.since <= instant
  /\ \A link \in DOMAIN store : store[link] \in Nat

ProbeInv == ProbeClock /\ Excused /\ HonestBrowserSpared

\* Links that go are expired, or their visitor counts as unheard.
LEMMA LinksStored ==
  ASSUME ProbeClock, NEW u \in Visitors, NEW lost, store' = StoredWithout(u, lost)
  PROVE  /\ DOMAIN store' = (DOMAIN store \ lost) \cup {Token(u)}
         /\ store'[Token(u)] = instant + 2 * CANARY_PROBE_TTL
         /\ \A link \in DOMAIN store \ lost : link # Token(u) => store'[link] = store[link]
         /\ \A link \in DOMAIN store' : store'[link] \in Nat
  BY ProbeAssumption DEF ProbeClock, StoredWithout

\* A link stays pending while pages are served.
LEMMA StaysPending ==
  ASSUME ProbeClock, NEW u \in Visitors, NEW lost, store' = StoredWithout(u, lost),
         instant' = instant, awaiting \subseteq awaiting',
         NEW v \in Browsers, v \notin {t[1] : t \in lost \ Expired},
         NEW f \in awaiting, Pending(v, f), counts'[v].first = counts[v].first
  PROVE  f \in awaiting' /\ Pending(v, f)'
  <1>1. CANARY_PROBE_TTL \in Nat /\ instant \in Nat /\ f.since \in Nat /\ f.since <= instant
    BY ProbeAssumption DEF ProbeClock
  <1>2. f.link \in DOMAIN store /\ store[f.link] \in Nat
    BY DEF Pending, ProbeClock
  <1>3. f.link \notin lost
    <2>1. f.link \notin lost \ Expired
      BY DEF Pending
    <2>2. f.link \notin Expired
      BY <1>1, <1>2 DEF Expired, Pending
    <2> QED BY <2>1, <2>2
  <1>4. f.link \in DOMAIN store' /\ store'[f.link] >= f.since + 2 * CANARY_PROBE_TTL
    <2>0. f.link \in DOMAIN store'
      <3>1. DOMAIN store' = (DOMAIN store \ lost) \cup {Token(u)}
        BY LinksStored
      <3> QED BY <1>2, <1>3, <3>1
    <2>1. CASE f.link = Token(u)
      <3>1. store'[f.link] = instant + 2 * CANARY_PROBE_TTL
        BY <2>1, LinksStored
      <3> QED BY <1>1, <2>0, <3>1
    <2>2. CASE f.link # Token(u)
      <3>1. store'[f.link] = store[f.link]
        BY <1>2, <1>3, <2>2, LinksStored
      <3> QED BY <2>0, <3>1 DEF Pending
    <2> QED BY <2>1, <2>2
  <1> QED BY <1>1, <1>4 DEF Pending

\* A page served to a browser is its first, with a link to fetch, or one more.
LEMMA ServeStep ==
  ASSUME ProbeInv, NEW u \in Visitors, Serve(u)
  PROVE  ProbeInv'
  <1> USE DEF ProbeInv
  <1>1. PICK lost \in Evictions(DOMAIN store, Expired, PROBE_STORE_MAX),
             dropped \in Evictions(DOMAIN counts, {}, PROBE_COUNTS_MAX) :
          LET after == Counted(u, dropped)
          IN /\ store' = StoredWithout(u, lost)
             /\ IF Missed(u, after[u])
                THEN /\ counts' = [after EXCEPT ![u] = [first |-> instant, pages |-> 0]]
                     /\ charged' = charged \cup {u}
                ELSE /\ counts' = [after EXCEPT ![u] = Capped(@)]
                     /\ UNCHANGED charged
             /\ awaiting' = IF u \in Browsers
                            THEN awaiting \cup {[link |-> Token(u), since |-> instant]}
                            ELSE awaiting
             /\ Cardinality(awaiting') <= AwaitingMax
             /\ unheard' = unheard \cup {t[1] : t \in lost \ Expired}
             /\ UNCHANGED <<instant, confirmed, window>>
    BY DEF Serve
  <1> DEFINE after == Counted(u, dropped)
             known == u \in DOMAIN counts \ dropped /\ counts[u].pages # 0
             new == [link |-> Token(u), since |-> instant]
  <1>2. /\ DOMAIN after = (DOMAIN counts \ dropped) \cup {u}
        /\ \A v \in DOMAIN after \ {u} : after[v] = counts[v]
    BY DEF Counted
  <1>3. after[u].first = (IF known THEN counts[u].first ELSE instant)
    BY DEF Counted
  <1>4. after[u] = [first |-> after[u].first, pages |-> after[u].pages]
    BY DEF Counted
  <1> HIDE DEF after
  <1>5. ProbeClock'
    <2>1. \A link \in DOMAIN store' : store'[link] \in Nat
      BY <1>1, LinksStored
    <2>2. \A f \in awaiting' : f.since \in Nat /\ f.since <= instant
      BY <1>1 DEF ProbeClock
    <2> QED BY <1>1, <2>1, <2>2 DEF ProbeClock
  <1>6. ASSUME NEW v \in Browsers \ unheard', NEW f \in awaiting, Pending(v, f),
               counts'[v].first = counts[v].first
        PROVE  f \in awaiting' /\ Pending(v, f)'
    <2>1. store' = StoredWithout(u, lost) /\ instant' = instant /\ awaiting \subseteq awaiting'
      BY <1>1
    <2>2. v \in Browsers /\ v \notin {t[1] : t \in lost \ Expired}
      BY <1>1
    <2> QED BY <1>6, <2>1, <2>2, StaysPending
  <1>7. CASE Missed(u, after[u])
    <2>1. /\ counts' = [after EXCEPT ![u] = [first |-> instant, pages |-> 0]]
          /\ charged' = charged \cup {u}
      BY <1>1, <1>7 DEF after
    <2>2. known
      <3> SUFFICES ASSUME ~known PROVE FALSE
        OBVIOUS
      <3>1. after[u].first = instant
        BY <1>3
      <3> QED BY <1>7, <3>1, ProbeAssumption DEF Missed, ProbeClock
    <2>3. u \in Browsers => u \in unheard
      <3> SUFFICES ASSUME u \in Browsers \ unheard PROVE FALSE
        OBVIOUS
      <3>1. PICK f \in awaiting : Pending(u, f)
        BY <1>7, <2>2 DEF Missed, Excused
      <3>2. instant - counts[u].first >= CANARY_PROBE_TTL
        BY <1>3, <1>7, <2>2 DEF Missed
      <3> QED BY <3>1, <3>2, ProbeAssumption DEF Pending, ProbeClock
    <2>4. HonestBrowserSpared'
      BY <1>1, <2>1, <2>3 DEF HonestBrowserSpared
    <2>5. Excused'
      <3> SUFFICES ASSUME NEW v \in Browsers \ unheard', v \in DOMAIN counts', counts'[v].pages # 0
                   PROVE  v \in confirmed' \/ \E f \in awaiting' : Pending(v, f)'
        BY DEF Excused
      <3>1. v # u
        BY <1>2, <2>1
      <3>2. v \in DOMAIN counts /\ counts'[v] = counts[v] /\ v \in Browsers \ unheard
        BY <1>1, <1>2, <2>1, <3>1
      <3>3. CASE v \in confirmed
        BY <1>1, <3>3
      <3>4. CASE v \notin confirmed
        <4>1. PICK f \in awaiting : Pending(v, f)
          BY <3>2, <3>4 DEF Excused
        <4> QED BY <1>6, <3>2, <4>1
      <3> QED BY <3>3, <3>4
    <2> QED BY <1>5, <2>4, <2>5
  <1>8. CASE ~Missed(u, after[u])
    <2>1. counts' = [after EXCEPT ![u] = Capped(@)] /\ charged' = charged
      BY <1>1, <1>8 DEF after
    <2>2. HonestBrowserSpared'
      BY <1>1, <2>1 DEF HonestBrowserSpared
    <2>3. Excused'
      <3> SUFFICES ASSUME NEW v \in Browsers \ unheard', v \in DOMAIN counts', counts'[v].pages # 0,
                          v \notin confirmed
                   PROVE  \E f \in awaiting' : Pending(v, f)'
        BY <1>1 DEF Excused
      <3>1. v \in Browsers \ unheard
        BY <1>1
      <3>2. CASE v # u
        <4>1. v \in DOMAIN counts /\ counts'[v] = counts[v]
          BY <1>2, <2>1, <3>2
        <4>2. PICK f \in awaiting : Pending(v, f)
          BY <3>1, <4>1 DEF Excused
        <4> QED BY <1>6, <4>1, <4>2
      <3>3. CASE v = u
        <4>1. counts'[u].first = after[u].first
          <5>1. counts'[u] = Capped(after[u])
            BY <1>2, <2>1
          <5>2. Capped(after[u]).first = after[u].first
            BY <1>4 DEF Capped
          <5> QED BY <5>1, <5>2
        <4>2. CASE known
          <5>1. PICK f \in awaiting : Pending(u, f)
            BY <3>1, <3>3, <4>2 DEF Excused
          <5> QED BY <1>3, <1>6, <3>3, <4>1, <4>2, <5>1
        <4>3. CASE ~known
          <5>1. new \in awaiting'
            BY <1>1, <3>3
          <5>2. new.link[1] = u /\ new.since = counts'[u].first
            BY <1>3, <4>1, <4>3 DEF Token
          <5>3. instant' - new.since < CANARY_PROBE_TTL
            BY <1>1, ProbeAssumption DEF ProbeClock
          <5>4. new.link \in DOMAIN store' /\ store'[new.link] >= new.since + 2 * CANARY_PROBE_TTL
            <6>1. store' = StoredWithout(u, lost)
              BY <1>1
            <6>2. Token(u) \in DOMAIN store' /\ store'[Token(u)] = instant + 2 * CANARY_PROBE_TTL
              BY <6>1, LinksStored
            <6>3. instant \in Nat /\ CANARY_PROBE_TTL \in Nat
              BY ProbeAssumption DEF ProbeClock
            <6> QED BY <6>2, <6>3
          <5> HIDE DEF new
          <5> QED BY <3>3, <5>1, <5>2, <5>3, <5>4 DEF Pending
        <4> QED BY <4>2, <4>3
      <3> QED BY <3>2, <3>3
    <2> QED BY <1>5, <2>2, <2>3
  <1> QED BY <1>7, <1>8

\* A fetch confirms its visitor, is refused, or was of a link too old to matter.
LEMMA FetchStep ==
  ASSUME ProbeInv, NEW f \in awaiting, Fetch(f)
  PROVE  ProbeInv'
  <1> USE DEF ProbeInv
  <1> DEFINE who == f.link[1]
  <1>1. /\ UNCHANGED <<instant, store, counts, charged>>
        /\ awaiting' = awaiting \ {f}
        /\ unheard \subseteq unheard'
    BY DEF Fetch
  <1>2. ProbeClock' /\ HonestBrowserSpared'
    BY <1>1 DEF ProbeClock, HonestBrowserSpared
  <1>3. \A v \in confirmed \ unheard' : v \in confirmed'
    BY DEF Fetch
  <1>4. who \in unheard' \/ who \in confirmed' \/ ~Known(f)
    BY DEF Fetch
  <1>5. Excused'
    <2> SUFFICES ASSUME NEW v \in Browsers \ unheard', v \in DOMAIN counts, counts[v].pages # 0,
                        v \notin confirmed'
                 PROVE  \E g \in awaiting' : Pending(v, g)'
      BY <1>1 DEF Excused
    <2>1. PICK g \in awaiting : Pending(v, g)
      BY <1>1, <1>3 DEF Excused
    <2>2. g # f
      <3> SUFFICES ASSUME g = f PROVE FALSE
        OBVIOUS
      <3>1. ~Known(f)
        BY <1>4, <2>1 DEF Pending
      <3> QED BY <2>1, <3>1, ProbeAssumption DEF Pending, Known, ProbeClock
    <2> QED BY <1>1, <2>1, <2>2 DEF Pending
  <1> QED BY <1>2, <1>5

\* Whoever lets the TTL pass counts as unheard.
LEMMA WaitStep ==
  ASSUME ProbeInv, Wait
  PROVE  ProbeInv'
  <1> USE DEF ProbeInv
  <1>1. /\ UNCHANGED <<store, counts, confirmed, awaiting, charged>>
        /\ instant' = instant + 1
        /\ unheard' = unheard \cup
             {f.link[1] : f \in {g \in awaiting : instant' - g.since >= CANARY_PROBE_TTL}}
    BY DEF Wait
  <1>2. ProbeClock' /\ HonestBrowserSpared'
    BY <1>1 DEF ProbeClock, HonestBrowserSpared
  <1>3. Excused'
    <2> SUFFICES ASSUME NEW v \in Browsers \ unheard', v \in DOMAIN counts, counts[v].pages # 0,
                        v \notin confirmed
                 PROVE  \E g \in awaiting : Pending(v, g)'
      BY <1>1 DEF Excused
    <2>1. PICK g \in awaiting : Pending(v, g)
      BY <1>1 DEF Excused
    <2>2. ~(instant' - g.since >= CANARY_PROBE_TTL)
      BY <1>1, <2>1 DEF Pending
    <2>3. instant' - g.since < CANARY_PROBE_TTL
      BY <1>1, <2>2, ProbeAssumption DEF ProbeClock
    <2> QED BY <1>1, <2>1, <2>3 DEF Pending
  <1> QED BY <1>2, <1>3

LEMMA ProbeStep ==
  ASSUME ProbeInv, [ProbeNext]_probeVars
  PROVE  ProbeInv'
  <1> USE DEF ProbeInv
  <1>1. CASE UNCHANGED <<instant, store, counts, confirmed, awaiting, charged, unheard>>
    BY <1>1 DEF ProbeClock, Excused, Pending, HonestBrowserSpared
  <1>2. CASE SendReport \/ PruneProbe
    BY <1>1, <1>2 DEF SendReport, PruneProbe
  <1>3. CASE ProbeRestart
    <2>1. UNCHANGED <<instant, awaiting, charged, unheard>> /\ DOMAIN counts' = {} /\ DOMAIN store' = {}
      BY <1>3 DEF ProbeRestart
    <2> QED BY <2>1 DEF ProbeClock, Excused, HonestBrowserSpared
  <1> QED BY <1>1, <1>2, <1>3, ServeStep, FetchStep, WaitStep DEF ProbeNext, probeVars

-----------------------------------------------------------------------------
(***************************************************************************)
(* Visitors                                                                *)
(***************************************************************************)

\* The steps of a behaviour about one topic are steps or stutters of each.
LEMMA Topics ==
  ASSUME [VisitorNext]_visitorVars
  PROVE  [Next]_vars /\ [PowNext]_powVars /\ [ProbeNext]_probeVars /\ [ReportsNext]_reportVars
  BY DEF VisitorNext, visitorVars

\* What is proved of the buckets holds of visitors.
THEOREM VisitorsHaveBuckets == VisitorSpec => Spec
  <1>1. VisitorInit => Init
    BY DEF VisitorInit
  <1>2. [VisitorNext]_visitorVars => [Next]_vars
    BY Topics
  <1> QED BY <1>1, <1>2, PTL DEF VisitorSpec, Spec

\* A solved challenge and a page's report are accepted once while they are
\* valid, whatever is pruned, expires or is lost at a restart meanwhile.
THEOREM NothingIsSpentTwice == VisitorSpec => SpentOnce
  <1> DEFINE Step == TokenSpentOnce /\ ReportSpentOnce
  <1>1. VisitorInit => Remembering /\ Noting
    BY DEF VisitorInit, PowInit, ReportsInit, Remembering, Noting, Nobody
  <1>2. Remembering /\ Noting /\ [VisitorNext]_visitorVars => (Remembering /\ Noting)' /\ Step
    BY Topics, PowStep, ReportsStep
  <1>3. VisitorSpec => [][Step]_visitorVars
    <2> HIDE DEF Step
    <2> QED BY <1>1, <1>2, PTL DEF VisitorSpec
  <1> QED BY <1>3 DEF SpentOnce

\* A browser that fetches its links in time is not charged as an agent, for
\* any sizes of the tables and any order of pages, fetches, restarts and prunes.
THEOREM BrowsersAreSpared == VisitorSpec => []HonestBrowserSpared
  <1>1. VisitorInit => ProbeInv
    BY DEF VisitorInit, ProbeInit, ProbeInv, ProbeClock, Excused, HonestBrowserSpared
  <1>2. ProbeInv /\ [VisitorNext]_visitorVars => ProbeInv'
    BY Topics, ProbeStep
  <1>3. ProbeInv => HonestBrowserSpared
    BY DEF ProbeInv
  <1> QED BY <1>1, <1>2, <1>3, PTL DEF VisitorSpec

=============================================================================
