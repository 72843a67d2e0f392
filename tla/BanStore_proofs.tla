-------------------------- MODULE BanStore_proofs --------------------------
(***************************************************************************)
(* Safety of BanStore, and that it implements BanLedger, for any           *)
(* identities, addresses and durations, any lengths of queue and batch.    *)
(***************************************************************************)
EXTENDS BanStore, FiniteSetTheorems, SequenceTheorems, WellFoundedInduction, TLAPS

Op == BanOp \cup IpBanOp

\* Requests in flight, with the fields that TypeOK types; a process that is
\* down follows no ban.
Requests ==
  /\ banning \in [who : SUBSET Ids, until : Nat]
  /\ unbanning \in [busy : BOOLEAN, locks : BOOLEAN, rows : SUBSET Keys]
  /\ ~unbanning.busy => unbanning = NotUnbanning
  /\ ~up => tracked = {}

IInv == TypeOK /\ Requests /\ WriteBehindSound

\* The pending rows of k, and what will be stored once they are written.
BanOps(q, k) == {i \in DOMAIN q : q[i].op = "ban" /\ q[i].key = k}
Stored(q, row, k) ==
  IF BanOps(q, k) = {} THEN row
  ELSE q[CHOOSE i \in BanOps(q, k) : \A j \in BanOps(q, k) : j <= i].until

-----------------------------------------------------------------------------
(***************************************************************************)
(* Numbers                                                                 *)
(***************************************************************************)

\* A set of numbers has a least one.
LEMMA LeastNatural ==
  ASSUME NEW T \in SUBSET Nat, T # {}
  PROVE  \E x \in T : \A y \in T : x <= y
  <1> DEFINE R == OpToRel(<, Nat)
  <1>1. IsWellFoundedOn(R, Nat)
    BY NatLessThanWellFounded
  <1>2. \A x, y \in Nat : <<y, x>> \in R <=> y < x
    BY DEF OpToRel
  <1> HIDE DEF R
  <1>3. PICK x \in T : \A y \in T : ~(<<y, x>> \in R)
    BY <1>1, WFMin
  <1>4. x \in Nat /\ \A y \in T : y \in Nat /\ ~(y < x)
    <2> SUFFICES ASSUME NEW y \in T PROVE x \in Nat /\ y \in Nat /\ ~(y < x)
      OBVIOUS
    <2>1. x \in Nat /\ y \in Nat
      OBVIOUS
    <2>2. ~(<<y, x>> \in R)
      BY <1>3
    <2> QED BY <1>2, <2>1, <2>2
  <1> QED BY <1>4

\* Finitely many numbers have a largest.
LEMMA LargestValue ==
  ASSUME NEW n \in Nat, NEW f, NEW H \in SUBSET (1 .. n), \A i \in H : f[i] \in Nat,
         NEW x \in Nat
  PROVE  \E u \in {x} \cup {f[i] : i \in H} : \A v \in {x} \cup {f[i] : i \in H} : v <= u
  <1> DEFINE Values(m) == {x} \cup {f[i] : i \in H \cap (1 .. m)}
             Bounded(m) == \E u \in Values(m) : \A v \in Values(m) : v <= u
             T == {m \in Nat : ~Bounded(m)}
  <1>1. \A m \in Nat : Values(m) \subseteq Nat
    OBVIOUS
  <1>2. Bounded(0)
    <2>1. H \cap (1 .. 0) = {}
      OBVIOUS
    <2>2. Values(0) = {x}
      BY <2>1
    <2> QED BY <2>2
  <1>3. ASSUME NEW m \in Nat, m # 0, Bounded(m - 1)
        PROVE  Bounded(m)
    <2>1. PICK u \in Values(m - 1) : \A v \in Values(m - 1) : v <= u
      BY <1>3
    <2>2. u \in Nat /\ m - 1 \in Nat
      BY <1>1, <1>3
    <2>3. 1 .. m = (1 .. m - 1) \cup {m}
      BY <1>3
    <2>4. CASE m \in H
      <3>1. Values(m) = Values(m - 1) \cup {f[m]}
        BY <2>3, <2>4
      <3>2. f[m] \in Nat
        BY <2>4
      <3> HIDE DEF Values
      <3>3. CASE f[m] <= u
        BY <2>1, <3>1, <3>3
      <3>4. CASE u < f[m]
        BY <1>1, <2>1, <2>2, <3>1, <3>2, <3>4
      <3> QED BY <2>2, <3>2, <3>3, <3>4
    <2>5. CASE m \notin H
      <3>1. Values(m) = Values(m - 1)
        BY <2>3, <2>5
      <3> QED BY <2>1, <3>1
    <2> QED BY <2>4, <2>5
  <1> HIDE DEF Bounded
  <1>4. T = {}
    <2> SUFFICES ASSUME T # {} PROVE FALSE
      OBVIOUS
    <2>1. PICK m \in T : \A y \in T : m <= y
      BY LeastNatural
    <2>2. m \in Nat /\ ~Bounded(m)
      OBVIOUS
    <2>3. m # 0
      BY <1>2, <2>2
    <2>4. m - 1 \in Nat /\ m - 1 \notin T
      BY <2>1, <2>2, <2>3
    <2> QED BY <1>3, <2>2, <2>3, <2>4
  <1>5. Bounded(n)
    BY <1>4
  <1>6. H \cap (1 .. n) = H
    OBVIOUS
  <1> QED BY <1>5, <1>6 DEF Bounded

\* Finitely many places have a last one.
LEMMA LastPlace ==
  ASSUME NEW n \in Nat, NEW H \in SUBSET (1 .. n), H # {}
  PROVE  \E m \in H : \A j \in H : j <= m
  <1> DEFINE f == [i \in 1 .. n |-> i]
  <1>1. \A i \in H : f[i] = i
    OBVIOUS
  <1>2. {f[i] : i \in H} = H
    BY <1>1
  <1> HIDE DEF f
  <1>3. PICK u \in {0} \cup {f[i] : i \in H} : \A v \in {0} \cup {f[i] : i \in H} : v <= u
    <2>1. \A i \in H : f[i] \in Nat
      BY <1>1
    <2>2. 0 \in Nat
      OBVIOUS
    <2> QED BY <2>1, <2>2, LargestValue
  <1>4. u \in H
    BY <1>2, <1>3
  <1> QED BY <1>2, <1>3, <1>4

LEMMA LowestIs ==
  ASSUME NEW a \in Nat, NEW b \in Nat
  PROVE  /\ Lowest(a, b) \in Nat /\ Lowest(a, b) <= a /\ Lowest(a, b) <= b
         /\ Lowest(a, b) = a \/ Lowest(a, b) = b
  BY DEF Lowest

-----------------------------------------------------------------------------
(***************************************************************************)
(* The queue                                                               *)
(***************************************************************************)

LEMMA OpTyped ==
  ASSUME NEW q \in Seq(Op), NEW i \in 1 .. Len(q)
  PROVE  q[i] \in Op /\ q[i].until \in Nat
  <1>1. q[i] \in Op
    BY ElementOfSeq
  <1> QED BY <1>1 DEF Op, BanOp, IpBanOp

LEMMA EventuallyStored ==
  ASSUME NEW k \in Ids
  PROVE  /\ Eventual(k) = Stored(queue, bans[DB_BACKEND][k], k)
         /\ Eventual(k)' = Stored(queue', bans'[DB_BACKEND][k], k)
  BY DEF Eventual, Stored, BanOps

\* The last of the pending rows decides.
LEMMA LastDecides ==
  ASSUME NEW q \in Seq(Op), NEW k \in Ids, NEW row,
         NEW m \in BanOps(q, k), \A j \in BanOps(q, k) : j <= m
  PROVE  Stored(q, row, k) = q[m].until
  <1> DEFINE l == CHOOSE i \in BanOps(q, k) : \A j \in BanOps(q, k) : j <= i
  <1>1. l \in BanOps(q, k) /\ \A j \in BanOps(q, k) : j <= l
    OBVIOUS
  <1>2. BanOps(q, k) \subseteq Nat
    BY LenProperties DEF BanOps
  <1> HIDE DEF l
  <1>3. l = m
    BY <1>1, <1>2
  <1> QED BY <1>3 DEF Stored, l

LEMMA SomeIsLast ==
  ASSUME NEW q \in Seq(Op), NEW k \in Ids, BanOps(q, k) # {}
  PROVE  \E m \in BanOps(q, k) : \A j \in BanOps(q, k) : j <= m
  <1>1. Len(q) \in Nat /\ BanOps(q, k) \subseteq 1 .. Len(q)
    BY LenProperties DEF BanOps
  <1> QED BY <1>1, LastPlace

\* What is put on the queue, or does not fit.
LEMMA Enqueued ==
  ASSUME queue \in Seq(Op), Len(queue) <= QueueMax, NEW ops \in Seq(Op), Len(ops) >= 1
  PROVE  /\ Enqueue(ops) \in Seq(Op) /\ Len(Enqueue(ops)) <= QueueMax
         /\ Len(queue) <= Len(Enqueue(ops))
         /\ \A i \in 1 .. Len(queue) : Enqueue(ops)[i] = queue[i]
         /\ \A i \in Len(queue) + 1 .. Len(Enqueue(ops)) :
              i - Len(queue) \in 1 .. Len(ops) /\ Enqueue(ops)[i] = ops[i - Len(queue)]
         /\ Fits => Len(Enqueue(ops)) >= Len(queue) + 1
         /\ ~Fits => Len(Enqueue(ops)) = Len(queue)
  <1> DEFINE all == queue \o ops
             n == Lowest(QueueMax, Len(queue) + Len(ops))
  <1>1. Len(queue) \in Nat /\ Len(ops) \in Nat /\ QueueMax \in Nat \ {0}
    BY LenProperties, StoreAssumption
  <1>2. /\ all \in Seq(Op) /\ Len(all) = Len(queue) + Len(ops)
        /\ \A i \in 1 .. Len(queue) + Len(ops) :
             all[i] = IF i <= Len(queue) THEN queue[i] ELSE ops[i - Len(queue)]
    BY ConcatProperties
  <1>3. /\ n \in Nat /\ n <= QueueMax /\ n <= Len(queue) + Len(ops) /\ Len(queue) <= n
        /\ Fits => n >= Len(queue) + 1
        /\ ~Fits => n = Len(queue)
    BY <1>1 DEF Lowest, Fits
  <1> HIDE DEF all, n
  <1>4. \A i \in 1 .. n : all[i] \in Op
    <2> SUFFICES ASSUME NEW i \in 1 .. n PROVE all[i] \in Op
      OBVIOUS
    <2>1. i \in 1 .. Len(all)
      BY <1>1, <1>2, <1>3
    <2> QED BY <1>2, <2>1, ElementOfSeq
  <1>5. /\ SubSeq(all, 1, n) \in Seq(Op)
        /\ Len(SubSeq(all, 1, n)) = IF 1 <= n THEN n - 1 + 1 ELSE 0
        /\ \A i \in 1 .. n - 1 + 1 : SubSeq(all, 1, n)[i] = all[1 + i - 1]
    BY <1>3, <1>4, SubSeqProperties
  <1>6. Len(SubSeq(all, 1, n)) = n /\ \A i \in 1 .. n : SubSeq(all, 1, n)[i] = all[i]
    BY <1>3, <1>5
  <1>7. Enqueue(ops) = SubSeq(all, 1, n)
    BY DEF Enqueue, all, n
  <1> DEFINE e == Enqueue(ops)
  <1>8. e \in Seq(Op) /\ Len(e) = n /\ \A i \in 1 .. n : e[i] = all[i]
    BY <1>5, <1>6, <1>7
  <1> HIDE DEF e
  <1>9. \A i \in 1 .. Len(queue) : e[i] = queue[i]
    BY <1>1, <1>2, <1>3, <1>8
  <1>10. \A i \in Len(queue) + 1 .. n :
           i - Len(queue) \in 1 .. Len(ops) /\ e[i] = ops[i - Len(queue)]
    BY <1>1, <1>2, <1>3, <1>8
  <1> QED BY <1>3, <1>8, <1>9, <1>10 DEF e

\* Rows of others change nothing.
LEMMA OthersQueued ==
  ASSUME NEW q \in Seq(Op), NEW r \in Seq(Op), NEW k \in Ids, NEW row,
         Len(q) <= Len(r), \A i \in 1 .. Len(q) : r[i] = q[i],
         \A i \in Len(q) + 1 .. Len(r) : ~(r[i].op = "ban" /\ r[i].key = k)
  PROVE  Stored(r, row, k) = Stored(q, row, k)
  <1>1. /\ Len(q) \in Nat /\ DOMAIN q = 1 .. Len(q)
        /\ Len(r) \in Nat /\ DOMAIN r = 1 .. Len(r)
    BY LenProperties
  <1>2. BanOps(r, k) = BanOps(q, k)
    BY <1>1 DEF BanOps
  <1>3. CASE BanOps(q, k) = {}
    BY <1>2, <1>3 DEF Stored
  <1>4. CASE BanOps(q, k) # {}
    <2>1. PICK m \in BanOps(q, k) : \A j \in BanOps(q, k) : j <= m
      BY <1>4, SomeIsLast
    <2>2. Stored(q, row, k) = q[m].until
      BY <2>1, LastDecides
    <2>3. Stored(r, row, k) = r[m].until
      BY <1>2, <2>1, LastDecides
    <2>4. r[m] = q[m]
      BY <1>1, <2>1 DEF BanOps
    <2> QED BY <2>2, <2>3, <2>4
  <1> QED BY <1>3, <1>4

\* What a batch leaves, when the row it leaves is the one that was expected.
LEMMA BatchTaken ==
  ASSUME NEW q \in Seq(Op), NEW c \in Nat, c <= Len(q), NEW k \in Ids, NEW row, NEW stored,
         BanOps(q, k) \subseteq 1 .. c => stored = Stored(q, row, k)
  PROVE  /\ SubSeq(q, c + 1, Len(q)) \in Seq(Op)
         /\ Len(SubSeq(q, c + 1, Len(q))) = Len(q) - c
         /\ Stored(SubSeq(q, c + 1, Len(q)), stored, k) = Stored(q, row, k)
  <1> DEFINE r == SubSeq(q, c + 1, Len(q))
  <1>1. Len(q) \in Nat /\ DOMAIN q = 1 .. Len(q)
    BY LenProperties
  <1>2. \A i \in c + 1 .. Len(q) : q[i] \in Op
    <2> SUFFICES ASSUME NEW i \in c + 1 .. Len(q) PROVE q[i] \in Op
      OBVIOUS
    <2>1. i \in 1 .. Len(q)
      BY <1>1
    <2> QED BY <2>1, ElementOfSeq
  <1>3. /\ r \in Seq(Op)
        /\ Len(r) = IF c + 1 <= Len(q) THEN Len(q) - (c + 1) + 1 ELSE 0
        /\ \A i \in 1 .. Len(q) - (c + 1) + 1 : r[i] = q[c + 1 + i - 1]
    BY <1>1, <1>2, SubSeqProperties
  <1> HIDE DEF r
  <1>4. r \in Seq(Op) /\ Len(r) = Len(q) - c
    <2>1. CASE c < Len(q)
      <3>1. c + 1 <= Len(q) /\ Len(q) - (c + 1) + 1 = Len(q) - c
        BY <1>1, <2>1
      <3>2. Len(r) = Len(q) - (c + 1) + 1
        BY <1>3, <3>1
      <3> QED BY <1>3, <3>1, <3>2
    <2>2. CASE c = Len(q)
      <3>1. ~(c + 1 <= Len(q)) /\ Len(q) - c = 0
        BY <1>1, <2>2
      <3>2. Len(r) = 0
        BY <1>3, <3>1
      <3> QED BY <1>3, <3>1, <3>2
    <2>3. c < Len(q) \/ c = Len(q)
      <3> DEFINE n == Len(q)
      <3>1. n \in Nat /\ c <= n
        BY <1>1
      <3> HIDE DEF n
      <3> QED BY <3>1 DEF n
    <2> QED BY <2>1, <2>2, <2>3
  <1>5. \A i \in 1 .. Len(q) - c : r[i] = q[c + i]
    <2> SUFFICES ASSUME NEW i \in 1 .. Len(q) - c PROVE r[i] = q[c + i]
      OBVIOUS
    <2>1. i \in 1 .. Len(q) - (c + 1) + 1 /\ c + 1 + i - 1 = c + i
      BY <1>1
    <2>2. r[i] = q[c + 1 + i - 1]
      BY <1>3, <2>1
    <2> QED BY <2>1, <2>2
  <1>6. DOMAIN r = 1 .. Len(q) - c
    BY <1>4, LenProperties
  <1>7. \A i \in 1 .. Len(q) - c : i \in BanOps(r, k) <=> c + i \in BanOps(q, k)
    BY <1>1, <1>5, <1>6 DEF BanOps
  <1>8. CASE BanOps(q, k) \subseteq 1 .. c
    <2>1. BanOps(r, k) = {}
      <3> SUFFICES ASSUME NEW i \in BanOps(r, k) PROVE FALSE
        OBVIOUS
      <3>1. i \in 1 .. Len(q) - c
        BY <1>6 DEF BanOps
      <3>2. c + i \in 1 .. c
        BY <1>7, <1>8, <3>1
      <3> QED BY <1>1, <3>1, <3>2
    <2> QED BY <1>4, <1>8, <2>1 DEF Stored, r
  <1>9. CASE ~(BanOps(q, k) \subseteq 1 .. c)
    <2>1. PICK m \in BanOps(q, k) : \A j \in BanOps(q, k) : j <= m
      BY <1>9, SomeIsLast
    <2>2. m \in 1 .. Len(q) /\ BanOps(q, k) \subseteq 1 .. Len(q)
      BY <1>1 DEF BanOps
    <2>3. m > c
      <3>1. PICK j \in BanOps(q, k) : j \notin 1 .. c
        BY <1>9
      <3> QED BY <1>1, <2>1, <2>2, <3>1
    <2> DEFINE i == m - c
    <2>4. i \in 1 .. Len(q) - c /\ c + i = m
      BY <1>1, <2>2, <2>3
    <2> HIDE DEF i
    <2>5. i \in BanOps(r, k)
      BY <1>7, <2>4
    <2>6. \A j \in BanOps(r, k) : j <= i
      <3> SUFFICES ASSUME NEW j \in BanOps(r, k) PROVE j <= i
        OBVIOUS
      <3>1. j \in 1 .. Len(q) - c
        BY <1>6 DEF BanOps
      <3>2. c + j <= c + i
        BY <1>7, <2>1, <2>4, <3>1
      <3> QED BY <1>1, <2>4, <3>1, <3>2
    <2>7. Stored(r, stored, k) = r[i].until
      BY <1>4, <2>5, <2>6, LastDecides
    <2>8. Stored(q, row, k) = q[m].until
      BY <2>1, LastDecides
    <2>9. r[i] = q[m]
      BY <1>5, <2>4
    <2> QED BY <1>4, <2>7, <2>8, <2>9 DEF r
  <1> QED BY <1>8, <1>9

-----------------------------------------------------------------------------
(***************************************************************************)
(* Steps                                                                   *)
(***************************************************************************)

LEMMA Durations ==
  /\ DB_BACKEND \in Databases /\ "sqlite" \in Databases
  /\ \A secs \in BanSecs \cup ManualSecs : secs \in Nat
  /\ \A k \in Ids : IpOf[k] \in IPs
  BY StoreAssumption DEF Databases

LEMMA Matched ==
  ASSUME NEW target
  PROVE  Matching(target) \subseteq Ids
  BY DEF Matching

\* A row that fits on the queue is the last one of its key; others are as before.
LEMMA OneQueued ==
  ASSUME TypeOK, NEW k \in Ids, NEW until \in Nat, NEW more \in Seq(Op),
         \A i \in 1 .. Len(more) : more[i].op # "ban",
         queue' = Enqueue(<<BanOpOf(k, until)>> \o more)
  PROVE  /\ queue' \in Seq(Op) /\ Len(queue') <= QueueMax
         /\ \A j \in Ids \ {k}, row \in Nat : Stored(queue', row, j) = Stored(queue, row, j)
         /\ \A row \in Nat : Fits => Stored(queue', row, k) = until
         /\ \A row \in Nat : ~Fits => Stored(queue', row, k) = Stored(queue, row, k)
  <1> DEFINE first == BanOpOf(k, until)
             ops == <<first>> \o more
  <1>0. queue \in Seq(Op) /\ Len(queue) \in Nat /\ Len(queue) <= QueueMax
    BY LenProperties DEF TypeOK, Op
  <1>1. first \in Op /\ first.op = "ban" /\ first.key = k /\ first.until = until
    BY DEF BanOpOf, Op, BanOp
  <1> HIDE DEF first
  <1>2. <<first>> \in Seq(Op) /\ Len(<<first>>) = 1 /\ <<first>>[1] = first
    BY <1>1
  <1>3. /\ ops \in Seq(Op) /\ Len(ops) = 1 + Len(more)
        /\ \A i \in 1 .. 1 + Len(more) :
             ops[i] = IF i <= 1 THEN <<first>>[i] ELSE more[i - 1]
    BY <1>2, ConcatProperties
  <1>4. Len(more) \in Nat
    BY LenProperties
  <1> HIDE DEF ops
  <1>5. Len(ops) >= 1 /\ ops[1] = first
    BY <1>2, <1>3, <1>4
  <1>6. \A i \in 2 .. Len(ops) : ops[i].op # "ban"
    <2> SUFFICES ASSUME NEW i \in 2 .. Len(ops) PROVE ops[i].op # "ban"
      OBVIOUS
    <2>1. i - 1 \in 1 .. Len(more) /\ ops[i] = more[i - 1]
      BY <1>3, <1>4
    <2> QED BY <2>1
  <1>7. queue' = Enqueue(ops)
    BY DEF ops, first
  <1>8. /\ queue' \in Seq(Op) /\ Len(queue') <= QueueMax /\ Len(queue) <= Len(queue')
        /\ \A i \in 1 .. Len(queue) : queue'[i] = queue[i]
        /\ \A i \in Len(queue) + 1 .. Len(queue') :
             i - Len(queue) \in 1 .. Len(ops) /\ queue'[i] = ops[i - Len(queue)]
        /\ Fits => Len(queue') >= Len(queue) + 1
        /\ ~Fits => Len(queue') = Len(queue)
    <2> DEFINE e == Enqueue(ops)
    <2>1. /\ e \in Seq(Op) /\ Len(e) <= QueueMax /\ Len(queue) <= Len(e)
          /\ \A i \in 1 .. Len(queue) : e[i] = queue[i]
          /\ \A i \in Len(queue) + 1 .. Len(e) :
               i - Len(queue) \in 1 .. Len(ops) /\ e[i] = ops[i - Len(queue)]
          /\ Fits => Len(e) >= Len(queue) + 1
          /\ ~Fits => Len(e) = Len(queue)
      BY <1>0, <1>3, <1>5, Enqueued
    <2>2. queue' = e
      BY <1>7
    <2> HIDE DEF e
    <2> QED BY <2>1, <2>2
  <1>9. Len(queue') \in Nat /\ DOMAIN queue' = 1 .. Len(queue') /\ DOMAIN queue = 1 .. Len(queue)
    BY <1>0, <1>8, LenProperties
  <1>10. \A i \in Len(queue) + 1 .. Len(queue') :
           IF i = Len(queue) + 1 THEN queue'[i] = first ELSE queue'[i].op # "ban"
    <2> SUFFICES ASSUME NEW i \in Len(queue) + 1 .. Len(queue')
                 PROVE  IF i = Len(queue) + 1 THEN queue'[i] = first ELSE queue'[i].op # "ban"
      OBVIOUS
    <2>1. i - Len(queue) \in 1 .. Len(ops) /\ queue'[i] = ops[i - Len(queue)]
      BY <1>8
    <2>2. CASE i = Len(queue) + 1
      <3>1. i - Len(queue) = 1
        BY <1>0, <2>2
      <3> QED BY <1>5, <2>1, <2>2, <3>1
    <2>3. CASE i # Len(queue) + 1
      <3>1. i - Len(queue) \in 2 .. Len(ops)
        BY <1>0, <1>3, <1>4, <2>1, <2>3
      <3> QED BY <1>6, <2>1, <2>3, <3>1
    <2> QED BY <2>2, <2>3
  <1>11. ASSUME NEW j \in Ids \ {k}, NEW row \in Nat
         PROVE  Stored(queue', row, j) = Stored(queue, row, j)
    <2>1. \A i \in Len(queue) + 1 .. Len(queue') : ~(queue'[i].op = "ban" /\ queue'[i].key = j)
      BY <1>1, <1>10
    <2> QED BY <1>0, <1>8, <2>1, OthersQueued
  <1>12. ASSUME NEW row \in Nat, ~Fits
         PROVE  Stored(queue', row, k) = Stored(queue, row, k)
    <2>1. \A i \in Len(queue) + 1 .. Len(queue') : FALSE
      BY <1>0, <1>8, <1>12
    <2> QED BY <1>0, <1>8, <2>1, OthersQueued
  <1>13. ASSUME NEW row \in Nat, Fits
         PROVE  Stored(queue', row, k) = until
    <2> DEFINE m == Len(queue) + 1
    <2>1. m \in Nat /\ m \in Len(queue) + 1 .. Len(queue') /\ m \in DOMAIN queue'
      BY <1>0, <1>8, <1>9, <1>13
    <2>2. queue'[m] = first
      BY <1>10, <2>1
    <2>3. m \in BanOps(queue', k)
      BY <1>1, <2>1, <2>2 DEF BanOps
    <2>4. \A j \in BanOps(queue', k) : j <= m
      <3> SUFFICES ASSUME NEW j \in BanOps(queue', k), j > m PROVE FALSE
        BY <1>9, <2>1 DEF BanOps
      <3>1. j \in Len(queue) + 1 .. Len(queue') /\ j # m
        BY <1>0, <1>9 DEF BanOps
      <3> QED BY <1>10, <3>1 DEF BanOps
    <2> HIDE DEF m
    <2>5. Stored(queue', row, k) = queue'[m].until
      BY <1>8, <2>3, <2>4, LastDecides
    <2> QED BY <1>1, <2>2, <2>5
  <1> QED BY <1>8, <1>11, <1>12, <1>13

LEMMA RiskBanStep ==
  ASSUME IInv, NEW k \in Ids, NEW secs \in BanSecs, RiskBan(k, secs)
  PROVE  IInv'
  <1> USE DEF IInv
  <1> DEFINE until == wall + secs
             more == IF secs >= HOSTILE_BAN_SECS THEN <<IpBanOpOf(k, until)>> ELSE <<>>
  <1>1. /\ wall \in Nat /\ origin \in Nat /\ origin <= wall /\ secs \in Nat
        /\ banned \in [Ids -> Nat] /\ bans \in [Databases -> [Ids -> Nat]]
    BY Durations DEF TypeOK
  <1>2. /\ UNCHANGED <<wall, origin, up, bans, ipBans, cache, banning, unbanning>>
        /\ banned' = [banned EXCEPT ![k] = wall - origin + secs]
        /\ queue' = Enqueue(<<BanOpOf(k, until)>> \o more)
        /\ tracked' = IF Fits THEN tracked \cup {k} ELSE tracked \ {k}
        /\ up
    BY DEF RiskBan, mono, Unlocked
  <1>3. until \in Nat /\ origin + (wall - origin + secs) = until /\ wall - origin + secs \in Nat
    BY <1>1
  <1>4. more \in Seq(Op) /\ \A i \in 1 .. Len(more) : more[i].op # "ban"
    <2>1. IpBanOpOf(k, until) \in Op /\ IpBanOpOf(k, until).op # "ban"
      BY <1>3, Durations DEF IpBanOpOf, Op, IpBanOp
    <2>2. CASE secs >= HOSTILE_BAN_SECS
      <3>1. more = <<IpBanOpOf(k, until)>>
        BY <2>2
      <3> QED BY <2>1, <3>1
    <2>3. CASE ~(secs >= HOSTILE_BAN_SECS)
      <3>1. more = <<>>
        BY <2>3
      <3> QED BY <3>1
    <2> QED BY <2>2, <2>3
  <1> HIDE DEF until, more
  <1>5. /\ queue' \in Seq(Op) /\ Len(queue') <= QueueMax
        /\ \A j \in Ids \ {k}, row \in Nat : Stored(queue', row, j) = Stored(queue, row, j)
        /\ \A row \in Nat : Fits => Stored(queue', row, k) = until
    BY <1>2, <1>3, <1>4, OneQueued
  <1>6. banned' \in [Ids -> Nat] /\ banned'[k] = wall - origin + secs
        /\ \A j \in Ids \ {k} : banned'[j] = banned[j]
    BY <1>1, <1>2, <1>3
  <1>7. TypeOK'
    <2>1. tracked' \subseteq Ids
      BY <1>2 DEF TypeOK
    <2> QED BY <1>2, <1>5, <1>6, <2>1 DEF TypeOK, Op
  <1>8. Requests'
    BY <1>2 DEF Requests
  <1>9. WriteBehindSound'
    <2> SUFFICES ASSUME NEW j \in tracked', banned'[j] > wall - origin
                 PROVE  Eventual(j)' = origin + banned'[j]
      BY <1>2 DEF WriteBehindSound, mono
    <2>1. j \in Ids /\ bans[DB_BACKEND][j] \in Nat
      BY <1>1, <1>7, Durations DEF TypeOK
    <2>2. Eventual(j)' = Stored(queue', bans[DB_BACKEND][j], j)
      BY <1>2, <2>1, EventuallyStored
    <2>3. CASE j = k
      <3>1. Fits
        BY <1>2, <2>3
      <3>2. Eventual(j)' = until
        BY <1>5, <2>1, <2>2, <2>3, <3>1
      <3> QED BY <1>3, <1>6, <2>3, <3>2
    <2>4. CASE j # k
      <3>1. j \in tracked /\ banned'[j] = banned[j]
        BY <1>2, <1>6, <2>1, <2>4
      <3>2. Eventual(j) = origin + banned[j]
        BY <2>1, <3>1 DEF WriteBehindSound, mono
      <3>3. Eventual(j) = Stored(queue, bans[DB_BACKEND][j], j)
        BY <2>1, EventuallyStored
      <3> QED BY <1>5, <2>1, <2>2, <2>4, <3>1, <3>2, <3>3
    <2> QED BY <2>3, <2>4
  <1> QED BY <1>7, <1>8, <1>9

\* What is stored is untouched, and whoever is tracked was, with the same ban.
LEMMA NothingStored ==
  ASSUME IInv, TypeOK', UNCHANGED <<origin, queue, bans>>, mono <= mono',
         tracked' \subseteq tracked, \A k \in tracked' : banned'[k] = banned[k]
  PROVE  WriteBehindSound'
  <1> SUFFICES ASSUME NEW k \in tracked', banned'[k] > mono'
               PROVE  Eventual(k)' = origin + banned'[k]
    BY DEF WriteBehindSound
  <1>1. k \in Ids /\ k \in tracked /\ banned[k] \in Nat /\ mono \in Int /\ mono' \in Int
    BY DEF IInv, TypeOK, mono
  <1>2. banned[k] > mono
    BY <1>1
  <1>3. Eventual(k) = origin + banned[k]
    BY <1>1, <1>2 DEF IInv, WriteBehindSound
  <1>4. Eventual(k)' = Eventual(k)
    BY <1>1, EventuallyStored
  <1> QED BY <1>3, <1>4

LEMMA ManualBanStep ==
  ASSUME IInv, NEW target \in Keys, NEW secs \in ManualSecs, ManualBan(target, secs)
  PROVE  IInv'
  <1> USE DEF IInv
  <1>1. /\ wall \in Nat /\ origin \in Nat /\ origin <= wall /\ secs \in Nat
        /\ banned \in [Ids -> Nat]
    BY Durations DEF TypeOK
  <1>2. /\ UNCHANGED <<wall, origin, up, queue, bans, ipBans, cache, unbanning>>
        /\ banned' = [k \in Ids |-> IF k \in Matching(target) THEN wall - origin + secs ELSE banned[k]]
        /\ banning' = [who |-> Matching(target), until |-> wall + secs]
        /\ tracked' = tracked \ Matching(target)
    BY DEF ManualBan, mono
  <1>3. wall - origin + secs \in Nat /\ wall + secs \in Nat
    BY <1>1
  <1>4. banned' \in [Ids -> Nat]
    BY <1>1, <1>2, <1>3
  <1>5. banning' \in [who : SUBSET Ids, until : Nat]
    BY <1>2, <1>3, Matched
  <1>6. TypeOK'
    BY <1>2, <1>4, <1>5 DEF TypeOK
  <1>7. Requests'
    BY <1>2, <1>5 DEF Requests
  <1>8. WriteBehindSound'
    <2>1. tracked' \subseteq tracked /\ \A k \in tracked' : banned'[k] = banned[k]
      BY <1>2 DEF TypeOK
    <2>2. mono <= mono'
      BY <1>1, <1>2 DEF mono
    <2> QED BY <1>2, <1>6, <2>1, <2>2, NothingStored
  <1> QED BY <1>6, <1>7, <1>8

LEMMA QueueManualStep ==
  ASSUME IInv, NEW k \in Ids, QueueManualBan(k)
  PROVE  IInv'
  <1> USE DEF IInv
  <1> DEFINE until == banning.until
  <1>1. /\ wall \in Nat /\ origin \in Nat /\ until \in Nat
        /\ banned \in [Ids -> Nat] /\ bans \in [Databases -> [Ids -> Nat]]
    BY DEF TypeOK
  <1>2. /\ UNCHANGED <<wall, origin, up, banned, bans, ipBans, cache, unbanning>>
        /\ up
        /\ queue' = Enqueue(<<BanOpOf(k, until)>>)
        /\ banning' = IF banning.who = {k} THEN NotBanning ELSE [banning EXCEPT !.who = @ \ {k}]
        /\ tracked' = IF ~Fits THEN tracked
                      ELSE IF origin + banned[k] = until THEN tracked \cup {k}
                      ELSE tracked \ {k}
    BY DEF QueueManualBan
  <1>3. banning' \in [who : SUBSET Ids, until : Nat]
    <2>1. banning \in [who : SUBSET Ids, until : Nat]
      BY DEF Requests
    <2>2. NotBanning \in [who : SUBSET Ids, until : Nat]
      BY DEF NotBanning
    <2>3. [banning EXCEPT !.who = @ \ {k}] \in [who : SUBSET Ids, until : Nat]
      BY <2>1
    <2> QED BY <1>2, <2>2, <2>3
  <1> HIDE DEF until
  <1>4. queue' = Enqueue(<<BanOpOf(k, until)>> \o <<>>)
    <2>1. BanOpOf(k, until) \in Op
      BY <1>1 DEF BanOpOf, Op, BanOp
    <2>2. <<BanOpOf(k, until)>> \in Seq(Op)
      BY <2>1
    <2>3. <<BanOpOf(k, until)>> \o <<>> = <<BanOpOf(k, until)>>
      BY <2>2, ConcatEmptySeq
    <2> QED BY <1>2, <2>3
  <1>5. /\ queue' \in Seq(Op) /\ Len(queue') <= QueueMax
        /\ \A j \in Ids \ {k}, row \in Nat : Stored(queue', row, j) = Stored(queue, row, j)
        /\ \A row \in Nat : Fits => Stored(queue', row, k) = until
        /\ \A row \in Nat : ~Fits => Stored(queue', row, k) = Stored(queue, row, k)
    <2>1. <<>> \in Seq(Op) /\ \A i \in 1 .. Len(<<>>) : <<>>[i].op # "ban"
      OBVIOUS
    <2> QED BY <1>1, <1>4, <2>1, OneQueued
  <1>6. TypeOK'
    <2>1. tracked' \subseteq Ids
      BY <1>2 DEF TypeOK
    <2> QED BY <1>2, <1>3, <1>5, <2>1 DEF TypeOK, Op
  <1>7. Requests'
    BY <1>2, <1>3 DEF Requests
  <1>8. WriteBehindSound'
    <2> SUFFICES ASSUME NEW j \in tracked', banned[j] > wall - origin
                 PROVE  Eventual(j)' = origin + banned[j]
      BY <1>2 DEF WriteBehindSound, mono
    <2>1. j \in Ids /\ bans[DB_BACKEND][j] \in Nat
      BY <1>1, <1>6, Durations DEF TypeOK
    <2>2. Eventual(j)' = Stored(queue', bans[DB_BACKEND][j], j)
      BY <1>2, <2>1, EventuallyStored
    <2>3. CASE j = k /\ Fits
      <3>1. Eventual(j)' = until
        BY <1>5, <2>1, <2>2, <2>3
      <3>2. origin + banned[k] = until
        BY <1>2, <2>3
      <3> QED BY <2>3, <3>1, <3>2
    <2>4. CASE ~(j = k /\ Fits)
      <3>1. j \in tracked
        BY <1>2, <2>4
      <3>2. Eventual(j) = origin + banned[j]
        BY <3>1 DEF WriteBehindSound, mono
      <3>3. Eventual(j) = Stored(queue, bans[DB_BACKEND][j], j)
        BY <2>1, EventuallyStored
      <3>4. Stored(queue', bans[DB_BACKEND][j], j) = Stored(queue, bans[DB_BACKEND][j], j)
        BY <1>5, <2>1, <2>4
      <3> QED BY <2>2, <3>2, <3>3, <3>4
    <2> QED BY <2>3, <2>4
  <1> QED BY <1>6, <1>7, <1>8

\* Both tables take values that were put on the queue, and keep what no
\* written op names; address bans only grow.
LEMMA BatchWritten ==
  ASSUME TypeOK, NEW ok \in SUBSET Batch
  PROVE  /\ BansAfter(ok) \in [Ids -> Nat]
         /\ IpBansAfter(ok) \in [IPs -> Nat]
         /\ \A k \in IPs : IpBansAfter(ok)[k] >= ipBans[DB_BACKEND][k]
         /\ \A k \in IPs : Applied(ok, "ip_ban", k) = {}
              => IpBansAfter(ok)[k] = ipBans[DB_BACKEND][k]
  <1>1. queue \in Seq(Op) /\ Len(queue) \in Nat /\ BatchMax \in Nat
    BY LenProperties, StoreAssumption DEF TypeOK, Op
  <1>2. ok \subseteq 1 .. Len(queue)
    <2>1. Lowest(BatchMax, Len(queue)) \in Nat /\ Lowest(BatchMax, Len(queue)) <= Len(queue)
      BY <1>1, LowestIs
    <2> QED BY <1>1, <2>1 DEF Batch
  <1>3. \A i \in 1 .. Len(queue) : queue[i].until \in Nat
    BY <1>1, OpTyped
  <1>4. bans[DB_BACKEND] \in [Ids -> Nat] /\ ipBans[DB_BACKEND] \in [IPs -> Nat]
    BY Durations DEF TypeOK
  <1>5. \A kind, k : Applied(ok, kind, k) \subseteq ok
    BY DEF Applied
  <1>6. ASSUME NEW k \in Ids
        PROVE  LET hits == Applied(ok, "ban", k)
               IN (IF hits = {} THEN bans[DB_BACKEND][k]
                   ELSE queue[CHOOSE i \in hits : \A j \in hits : j <= i].until) \in Nat
    <2> DEFINE hits == Applied(ok, "ban", k)
    <2>1. hits \in SUBSET (1 .. Len(queue))
      BY <1>2, <1>5
    <2> HIDE DEF hits
    <2>2. CASE hits # {}
      <3>1. \E m \in hits : \A j \in hits : j <= m
        BY <1>1, <2>1, <2>2, LastPlace
      <3>2. (CHOOSE i \in hits : \A j \in hits : j <= i) \in hits
        BY <3>1
      <3> QED BY <1>3, <2>1, <2>2, <3>2 DEF hits
    <2> QED BY <1>4, <2>2 DEF hits
  <1>7. BansAfter(ok) \in [Ids -> Nat]
    BY <1>6 DEF BansAfter
  <1>8. ASSUME NEW k \in IPs
        PROVE  LET hits == Applied(ok, "ip_ban", k)
                   row == ipBans[DB_BACKEND][k]
                   values == {row} \cup {queue[i].until : i \in hits}
                   u == CHOOSE u \in values : \A v \in values : v <= u
               IN u \in Nat /\ u >= row /\ (hits = {} => u = row)
    <2> DEFINE hits == Applied(ok, "ip_ban", k)
               row == ipBans[DB_BACKEND][k]
               values == {row} \cup {queue[i].until : i \in hits}
               u == CHOOSE u \in values : \A v \in values : v <= u
    <2>1. hits \in SUBSET (1 .. Len(queue)) /\ row \in Nat
      BY <1>2, <1>4, <1>5
    <2> HIDE DEF hits, row
    <2> DEFINE f == [i \in 1 .. Len(queue) |-> queue[i].until]
    <2>2. \A i \in hits : f[i] \in Nat /\ f[i] = queue[i].until
      BY <1>3, <2>1
    <2> HIDE DEF f
    <2>3. values = {row} \cup {f[i] : i \in hits}
      BY <2>2
    <2>4. \E m \in values : \A v \in values : v <= m
      <3>1. \E m \in {row} \cup {f[i] : i \in hits} : \A v \in {row} \cup {f[i] : i \in hits} : v <= m
        BY <1>1, <2>1, <2>2, LargestValue
      <3> QED BY <2>3, <3>1
    <2>5. values \subseteq Nat /\ row \in values /\ (hits = {} => values = {row})
      BY <1>3, <2>1
    <2> HIDE DEF values
    <2>6. u \in values /\ \A v \in values : v <= u
      BY <2>4
    <2> QED BY <2>5, <2>6 DEF hits, row, values
  <1>9. \A k \in IPs : IpBansAfter(ok)[k] \in Nat /\ IpBansAfter(ok)[k] >= ipBans[DB_BACKEND][k]
          /\ (Applied(ok, "ip_ban", k) = {} => IpBansAfter(ok)[k] = ipBans[DB_BACKEND][k])
    BY <1>8 DEF IpBansAfter
  <1>10. IpBansAfter(ok) \in [IPs -> Nat]
    BY <1>8 DEF IpBansAfter
  <1> QED BY <1>7, <1>9, <1>10

LEMMA Invalidated ==
  ASSUME TypeOK, NEW ok
  PROVE  /\ Invalidate(ok) \in [IPs -> CacheEntry]
         /\ \A k \in IPs : Invalidate(ok)[k] = NoEntry \/ Invalidate(ok)[k] = cache[k]
         /\ \A k \in IPs : DB_BACKEND = "sqlite" /\ Applied(ok, "ip_ban", k) # {}
              => Invalidate(ok)[k] = NoEntry
  BY DEF Invalidate, TypeOK, NoEntry, CacheEntry

\* A batch is on the queue, or in the table, or its loss is noted.
LEMMA BatchStep ==
  ASSUME IInv, NEW ok \in SUBSET Batch, WriteBatch(ok) \/ CommitFails(ok)
  PROVE  IInv'
  <1> USE DEF IInv
  <1> DEFINE c == Lowest(BatchMax, Len(queue))
  <1>0. queue \in Seq(Op) /\ Len(queue) \in Nat /\ DOMAIN queue = 1 .. Len(queue) /\ BatchMax \in Nat
    BY LenProperties, StoreAssumption DEF TypeOK, Op
  <1>1. c \in Nat /\ c <= Len(queue) /\ Batch = 1 .. c
    BY <1>0, LowestIs DEF Batch
  <1>2. /\ UNCHANGED <<wall, origin, up, banned, banning, unbanning>>
        /\ queue' = SubSeq(queue, c + 1, Len(queue))
        /\ tracked' \subseteq tracked
        /\ \/ /\ bans' = [bans EXCEPT ![DB_BACKEND] = BansAfter(ok)]
              /\ ipBans' = [ipBans EXCEPT ![DB_BACKEND] = IpBansAfter(ok)]
              /\ tracked' = tracked \ Lost(Batch \ ok)
           \/ bans' = bans /\ ipBans' = ipBans /\ tracked' = tracked \ Lost(Batch)
        /\ cache' = Invalidate(ok)
    BY DEF WriteBatch, CommitFails, Remaining
  <1> HIDE DEF c
  <1>3. bans' \in [Databases -> [Ids -> Nat]] /\ ipBans' \in [Databases -> [IPs -> Nat]]
    <2>1. BansAfter(ok) \in [Ids -> Nat] /\ IpBansAfter(ok) \in [IPs -> Nat]
      BY BatchWritten
    <2> QED BY <1>2, <2>1 DEF TypeOK
  <1>4. ASSUME NEW k \in tracked', BanOps(queue, k) \subseteq 1 .. c
        PROVE  bans'[DB_BACKEND][k] = Stored(queue, bans[DB_BACKEND][k], k)
    <2>1. k \in Ids /\ k \in tracked
      BY <1>2, <1>4 DEF TypeOK
    <2>2. CASE /\ bans' = [bans EXCEPT ![DB_BACKEND] = BansAfter(ok)]
               /\ tracked' = tracked \ Lost(Batch \ ok)
      <3>1. bans'[DB_BACKEND][k] = BansAfter(ok)[k]
        BY <2>2, Durations DEF TypeOK
      <3>2. Applied(Batch \ ok, "ban", k) = {}
        BY <1>4, <2>1, <2>2 DEF Lost
      <3>3. Applied(ok, "ban", k) = BanOps(queue, k)
        <4>0. ok \subseteq DOMAIN queue
          BY <1>0, <1>1
        <4>1. Applied(ok, "ban", k) \subseteq BanOps(queue, k)
          BY <4>0 DEF Applied, BanOps
        <4>2. BanOps(queue, k) \subseteq Applied(ok, "ban", k)
          BY <1>1, <1>4, <3>2 DEF Applied, BanOps
        <4> QED BY <4>1, <4>2
      <3> QED BY <2>1, <3>1, <3>3 DEF BansAfter, Stored
    <2>3. CASE bans' = bans /\ tracked' = tracked \ Lost(Batch)
      <3>1. Applied(Batch, "ban", k) = {}
        BY <1>4, <2>1, <2>3 DEF Lost
      <3>2. BanOps(queue, k) = {}
        BY <1>1, <1>4, <3>1 DEF Applied, BanOps
      <3> QED BY <2>3, <3>2 DEF Stored
    <2> QED BY <1>2, <2>2, <2>3
  <1>5. queue' \in Seq(Op) /\ Len(queue') = Len(queue) - c
    <2>1. \A i \in c + 1 .. Len(queue) : queue[i] \in Op
      <3> SUFFICES ASSUME NEW i \in c + 1 .. Len(queue) PROVE queue[i] \in Op
        OBVIOUS
      <3>1. i \in 1 .. Len(queue)
        BY <1>0, <1>1
      <3> QED BY <1>0, <3>1, ElementOfSeq
    <2>2. /\ SubSeq(queue, c + 1, Len(queue)) \in Seq(Op)
          /\ Len(SubSeq(queue, c + 1, Len(queue))) =
               IF c + 1 <= Len(queue) THEN Len(queue) - (c + 1) + 1 ELSE 0
      BY <1>0, <1>1, <2>1, SubSeqProperties
    <2>3. (IF c + 1 <= Len(queue) THEN Len(queue) - (c + 1) + 1 ELSE 0) = Len(queue) - c
      <3> DEFINE n == Len(queue)
      <3>1. n \in Nat /\ c \in Nat /\ c <= n
        BY <1>0, <1>1
      <3> HIDE DEF n
      <3> QED BY <3>1 DEF n
    <2> QED BY <1>2, <2>2, <2>3
  <1>6. TypeOK'
    <2>1. Len(queue') <= QueueMax
      <3>1. Len(queue) <= QueueMax /\ QueueMax \in Nat
        BY StoreAssumption DEF TypeOK
      <3> QED BY <1>0, <1>1, <1>5, <3>1
    <2>2. cache' \in [IPs -> CacheEntry]
      BY <1>2, Invalidated
    <2>3. queue' \in Seq(BanOp \cup IpBanOp)
      BY <1>5 DEF Op
    <2>4. tracked' \subseteq Ids
      BY <1>2 DEF TypeOK
    <2> QED BY <1>2, <1>3, <2>1, <2>2, <2>3, <2>4 DEF TypeOK
  <1>7. Requests'
    BY <1>2 DEF Requests
  <1>8. WriteBehindSound'
    <2> SUFFICES ASSUME NEW k \in tracked', banned[k] > wall - origin
                 PROVE  Eventual(k)' = origin + banned[k]
      BY <1>2 DEF WriteBehindSound, mono
    <2>1. k \in Ids /\ k \in tracked
      BY <1>2 DEF TypeOK
    <2>2. Eventual(k) = origin + banned[k]
      BY <2>1 DEF WriteBehindSound, mono
    <2>3. Eventual(k) = Stored(queue, bans[DB_BACKEND][k], k)
      BY <2>1, EventuallyStored
    <2>4. Eventual(k)' = Stored(SubSeq(queue, c + 1, Len(queue)), bans'[DB_BACKEND][k], k)
      BY <1>2, <2>1, EventuallyStored
    <2>5. Stored(SubSeq(queue, c + 1, Len(queue)), bans'[DB_BACKEND][k], k)
            = Stored(queue, bans[DB_BACKEND][k], k)
      BY <1>0, <1>1, <1>4, <2>1, BatchTaken
    <2> QED BY <2>2, <2>3, <2>4, <2>5
  <1> QED BY <1>6, <1>7, <1>8

\* An unban follows no ban it clears.
LEMMA UnbanStep ==
  ASSUME IInv, NEW cleared \in SUBSET Ids,
         \/ \E rows \in SUBSET Keys : Unban(cleared, rows)
         \/ BulkUnban(cleared)
  PROVE  IInv'
  <1> USE DEF IInv
  <1>1. /\ UNCHANGED <<wall, origin, up, queue, bans, ipBans, cache, banning>>
        /\ tracked' = tracked \ cleared
        /\ DOMAIN banned' = Ids
        /\ \A k \in Ids : banned'[k] \in {0, banned[k]} /\ (k \notin cleared => banned'[k] = banned[k])
        /\ banned' = [k \in Ids |-> banned'[k]]
    BY DEF Unban, BulkUnban
  <1>2. unbanning' \in [busy : BOOLEAN, locks : BOOLEAN, rows : SUBSET Keys] /\ unbanning'.busy
    <2>1. {IpOf[k] : k \in cleared} \in SUBSET Keys
      BY Durations DEF Keys
    <2>2. ASSUME NEW rows \in SUBSET Keys, Unban(cleared, rows)
          PROVE  unbanning' = [busy |-> TRUE, locks |-> TRUE, rows |-> rows]
      BY <2>2 DEF Unban
    <2>3. CASE BulkUnban(cleared)
      <3>1. unbanning' = [busy |-> TRUE, locks |-> FALSE, rows |-> {IpOf[k] : k \in cleared}]
        BY <2>3 DEF BulkUnban
      <3> QED BY <2>1, <3>1
    <2>4. ASSUME NEW rows \in SUBSET Keys, Unban(cleared, rows)
          PROVE  unbanning' \in [busy : BOOLEAN, locks : BOOLEAN, rows : SUBSET Keys] /\ unbanning'.busy
      <3>1. unbanning' = [busy |-> TRUE, locks |-> TRUE, rows |-> rows]
        BY <2>2, <2>4
      <3> QED BY <3>1
    <2>5. CASE \E rows \in SUBSET Keys : Unban(cleared, rows)
      BY <2>4, <2>5
    <2> QED BY <2>3, <2>5
  <1>3. banned' \in [Ids -> Nat]
    <2>1. \A k \in Ids : banned'[k] \in Nat
      <3> SUFFICES ASSUME NEW k \in Ids PROVE banned'[k] \in Nat
        OBVIOUS
      <3>1. banned[k] \in Nat
        BY DEF TypeOK
      <3>2. banned'[k] = 0 \/ banned'[k] = banned[k]
        BY <1>1
      <3> QED BY <3>1, <3>2
    <2> DEFINE b == banned'
    <2>2. b = [k \in Ids |-> b[k]] /\ \A k \in Ids : b[k] \in Nat
      BY <1>1, <2>1
    <2> HIDE DEF b
    <2>3. b \in [Ids -> Nat]
      BY <2>2
    <2> QED BY <2>3 DEF b
  <1>4. TypeOK'
    BY <1>1, <1>2, <1>3 DEF TypeOK
  <1>5. Requests'
    BY <1>1, <1>2 DEF Requests
  <1>6. WriteBehindSound'
    <2>1. tracked' \subseteq tracked /\ \A k \in tracked' : banned'[k] = banned[k]
      BY <1>1 DEF TypeOK
    <2>2. mono <= mono'
      BY <1>1 DEF mono, TypeOK
    <2> QED BY <1>1, <1>4, <2>1, <2>2, NothingStored
  <1> QED BY <1>4, <1>5, <1>6

LEMMA FinishStep ==
  ASSUME IInv, FinishUnban
  PROVE  IInv'
  <1> USE DEF IInv
  <1>1. PICK gone \in Rows \cup {{}} :
          /\ bans' = [bans EXCEPT ![DB_BACKEND] = [k \in Ids |-> IF k \in gone THEN 0 ELSE @[k]]]
          /\ ipBans' = [ipBans EXCEPT ![DB_BACKEND] = [k \in IPs |-> IF k \in gone THEN 0 ELSE @[k]]]
          /\ tracked' = tracked \ gone
    BY DEF FinishUnban
  <1>2. /\ unbanning' = NotUnbanning
        /\ UNCHANGED <<wall, origin, up, banned, queue, cache, banning>>
    BY DEF FinishUnban
  <1>3. /\ bans'[DB_BACKEND] = [k \in Ids |-> IF k \in gone THEN 0 ELSE bans[DB_BACKEND][k]]
        /\ bans' \in [Databases -> [Ids -> Nat]] /\ ipBans' \in [Databases -> [IPs -> Nat]]
    <2>1. bans[DB_BACKEND] \in [Ids -> Nat] /\ ipBans[DB_BACKEND] \in [IPs -> Nat]
      BY Durations DEF TypeOK
    <2>2. /\ [k \in Ids |-> IF k \in gone THEN 0 ELSE bans[DB_BACKEND][k]] \in [Ids -> Nat]
          /\ [k \in IPs |-> IF k \in gone THEN 0 ELSE ipBans[DB_BACKEND][k]] \in [IPs -> Nat]
      BY <2>1
    <2> QED BY <1>1, <2>2, Durations DEF TypeOK
  <1>4. unbanning' \in [busy : BOOLEAN, locks : BOOLEAN, rows : SUBSET Keys]
    BY <1>2 DEF NotUnbanning
  <1>5. TypeOK'
    BY <1>1, <1>2, <1>3, <1>4 DEF TypeOK
  <1>6. Requests'
    BY <1>1, <1>2, <1>4 DEF Requests
  <1>7. WriteBehindSound'
    <2> SUFFICES ASSUME NEW k \in tracked', banned[k] > wall - origin
                 PROVE  Eventual(k)' = origin + banned[k]
      BY <1>2 DEF WriteBehindSound, mono
    <2>1. k \in Ids /\ k \in tracked /\ k \notin gone
      BY <1>1 DEF TypeOK
    <2>2. Eventual(k) = origin + banned[k]
      BY <2>1 DEF WriteBehindSound, mono
    <2>3. bans'[DB_BACKEND][k] = bans[DB_BACKEND][k]
      BY <1>3, <2>1
    <2>4. Eventual(k)' = Eventual(k)
      BY <1>2, <2>1, <2>3, EventuallyStored
    <2> QED BY <2>2, <2>4
  <1> QED BY <1>5, <1>6, <1>7

LEMMA RestartStep ==
  ASSUME IInv, Crash \/ Boot
  PROVE  IInv'
  <1> USE DEF IInv
  <1>1. tracked' = {}
    BY DEF Crash, Boot, Requests
  <1>2. CASE Crash
    <2>1. /\ UNCHANGED <<wall, origin, bans, ipBans>> /\ up' = FALSE
          /\ banned' \in [Ids -> Nat] /\ queue' = <<>> /\ cache' \in [IPs -> CacheEntry]
          /\ banning' = NotBanning /\ unbanning' = NotUnbanning
      BY <1>2 DEF Crash, NoEntry, CacheEntry
    <2>2. /\ banning' \in [who : SUBSET Ids, until : Nat]
          /\ unbanning' \in [busy : BOOLEAN, locks : BOOLEAN, rows : SUBSET Keys]
      BY <2>1 DEF NotBanning, NotUnbanning
    <2>3. queue' \in Seq(BanOp \cup IpBanOp) /\ Len(queue') <= QueueMax
      BY <2>1, StoreAssumption
    <2>4. TypeOK'
      BY <1>1, <2>1, <2>2, <2>3 DEF TypeOK
    <2> QED BY <1>1, <2>1, <2>2, <2>4 DEF Requests, WriteBehindSound
  <1>3. CASE Boot
    <2>1. /\ UNCHANGED <<wall, queue, bans, ipBans, cache, banning, unbanning>>
          /\ up' = TRUE /\ origin' \in {origin, wall}
          /\ banned' = [k \in Ids |-> IF bans["sqlite"][k] > wall THEN bans["sqlite"][k] ELSE 0]
      BY <1>3 DEF Boot
    <2>2. bans["sqlite"] \in [Ids -> Nat]
      BY Durations DEF TypeOK
    <2>3. banned' \in [Ids -> Nat]
      BY <2>1, <2>2
    <2>4. TypeOK'
      BY <1>1, <2>1, <2>3 DEF TypeOK
    <2> QED BY <1>1, <2>1, <2>4 DEF Requests, WriteBehindSound
  <1> QED BY <1>2, <1>3

LEMMA Remembered ==
  ASSUME TypeOK, NEW ip \in IPs, NEW until \in Nat, NEW blind \in BOOLEAN, Remember(ip, until, blind)
  PROVE  /\ cache' \in [IPs -> CacheEntry]
         /\ cache'[ip] = [cached |-> TRUE, until |-> until, at |-> wall, blind |-> blind]
         /\ \A k \in IPs \ {ip} : cache'[k] = NoEntry \/ cache'[k] = cache[k]
  <1>1. [cached |-> TRUE, until |-> until, at |-> wall, blind |-> blind] \in CacheEntry
    BY DEF TypeOK, CacheEntry
  <1>2. NoEntry \in CacheEntry
    BY DEF NoEntry, CacheEntry
  <1> QED BY <1>1, <1>2 DEF Remember, TypeOK

LEMMA RowAnswered ==
  ASSUME TypeOK, NEW ip \in IPs
  PROVE  RowAnswer(ip) \in Nat
  <1>1. ipBans["sqlite"][ip] \in Nat
    BY Durations DEF TypeOK
  <1> QED BY <1>1 DEF RowAnswer

LEMMA OtherStep ==
  ASSUME IInv, (\E ip \in IPs : CheckIpBan(ip)) \/ PruneIpBans \/ Tick \/ UNCHANGED vars
  PROVE  IInv'
  <1> USE DEF IInv
  <1>1. /\ UNCHANGED <<origin, up, banned, queue, bans, banning, unbanning, tracked>>
        /\ wall' = wall \/ wall' = wall + 1
    BY DEF CheckIpBan, PruneIpBans, Tick, vars
  <1>2. cache' \in [IPs -> CacheEntry]
    <2>1. ASSUME NEW ip \in IPs, CheckIpBan(ip)
          PROVE  cache' \in [IPs -> CacheEntry]
      BY <2>1, Remembered, RowAnswered DEF CheckIpBan
    <2> QED BY <2>1 DEF PruneIpBans, Tick, vars, TypeOK
  <1>3. ipBans' \in [Databases -> [IPs -> Nat]]
    <2>1. CASE PruneIpBans
      <3>1. ipBans["sqlite"] \in [IPs -> Nat]
        BY Durations DEF TypeOK
      <3>2. [k \in IPs |-> IF ipBans["sqlite"][k] <= wall THEN 0 ELSE ipBans["sqlite"][k]] \in [IPs -> Nat]
        BY <3>1
      <3> QED BY <2>1, <3>2, Durations DEF PruneIpBans, TypeOK
    <2> QED BY <2>1 DEF CheckIpBan, Tick, vars, TypeOK
  <1>4. TypeOK'
    BY <1>1, <1>2, <1>3 DEF TypeOK
  <1>5. mono <= mono'
    BY <1>1 DEF mono, TypeOK
  <1>6. WriteBehindSound'
    BY <1>1, <1>4, <1>5, NothingStored
  <1> QED BY <1>1, <1>4, <1>6 DEF Requests

-----------------------------------------------------------------------------
(***************************************************************************)
(* Theorems                                                                *)
(***************************************************************************)

\* An empty store keeps its promises.
THEOREM InitEstablishes == Init => IInv
  <1> SUFFICES ASSUME Init PROVE IInv
    OBVIOUS
  <1>1. TypeOK
    <2>1. wall \in Nat /\ origin \in Nat /\ origin <= wall
      BY StoreAssumption DEF Init
    <2>2. queue \in Seq(BanOp \cup IpBanOp) /\ Len(queue) <= QueueMax
      BY StoreAssumption DEF Init
    <2>3. cache \in [IPs -> CacheEntry]
      BY DEF Init, NoEntry, CacheEntry
    <2> QED BY <2>1, <2>2, <2>3 DEF Init, TypeOK, NotBanning, NotUnbanning
  <1>2. Requests /\ WriteBehindSound
    BY DEF Init, Requests, WriteBehindSound, NotBanning, NotUnbanning
  <1> QED BY <1>1, <1>2 DEF IInv

\* Every step of the writer, of requests, of operators and of restarts keeps
\* the invariant.
THEOREM NextPreserves == IInv /\ [Next]_vars => IInv'
  <1> SUFFICES ASSUME IInv, [Next]_vars PROVE IInv'
    OBVIOUS
  <1>1. CASE Decide
    BY <1>1, RiskBanStep, ManualBanStep, QueueManualStep DEF Decide
  <1>2. CASE Write
    BY <1>2, BatchStep DEF Write
  <1>3. CASE Lift
    <2>1. ASSUME NEW target \in Keys, Unban(Matching(target), {target})
          PROVE  IInv'
      <3>1. Matching(target) \in SUBSET Ids /\ {target} \in SUBSET Keys
        BY Matched
      <3> QED BY <2>1, <3>1, UnbanStep
    <2>2. CASE Unban(Ids, Keys)
      <3>1. Ids \in SUBSET Ids /\ Keys \in SUBSET Keys
        OBVIOUS
      <3> QED BY <2>2, <3>1, UnbanStep
    <2>3. ASSUME NEW cleared \in SUBSET Ids, BulkUnban(cleared)
          PROVE  IInv'
      BY <2>3, UnbanStep
    <2> QED BY <1>3, <2>1, <2>2, <2>3, FinishStep DEF Lift
  <1> QED BY <1>1, <1>2, <1>3, RestartStep, OtherStep DEF Next

\* The strengthened invariant holds for ever.
THEOREM Invariance == Spec => []IInv
  <1> QED BY InitEstablishes, NextPreserves, PTL DEF Spec

\* Queue, tables and cache are well formed, and the queue keeps its limit.
THEOREM TypeCorrect == Spec => []TypeOK
  <1>1. IInv => TypeOK
    BY DEF IInv
  <1> QED BY <1>1, Invariance, PTL

\* A running ban whose row was neither lost nor overtaken will be stored with
\* the term that memory enforces, for queues and batches of any length.
THEOREM MemoryAndRowsAgree == Spec => []WriteBehindSound
  <1>1. IInv => WriteBehindSound
    BY DEF IInv
  <1> QED BY <1>1, Invariance, PTL

-----------------------------------------------------------------------------
(***************************************************************************)
(* The cached answer.  check_ip_ban reads the local file: what it answers  *)
(* can only be right when the writer writes there.                         *)
(***************************************************************************)

\* A fresh "clear" that was read is true.
ClearIsTrue ==
  \A ip \in IPs :
    ipBans[DB_BACKEND][ip] > wall /\ Fresh(ip) /\ ~cache[ip].blind => cache[ip].until # 0

\* It stays true while rows do not grow and answers are kept or dropped.
LEMMA StillTrue ==
  ASSUME TypeOK, ClearIsTrue, wall \in Nat, wall' \in Nat, wall <= wall',
         NEW ip \in IPs, cache'[ip] = NoEntry \/ cache'[ip] = cache[ip],
         cache'[ip] = NoEntry \/ ipBans'[DB_BACKEND][ip] <= ipBans[DB_BACKEND][ip],
         ipBans'[DB_BACKEND][ip] \in Nat,
         ipBans'[DB_BACKEND][ip] > wall', Fresh(ip)', ~cache'[ip].blind
  PROVE  cache'[ip].until # 0
  <1>1. cache'[ip] # NoEntry
    BY DEF Fresh, NoEntry
  <1>2. cache'[ip] = cache[ip] /\ ipBans[DB_BACKEND][ip] \in Nat
    BY <1>1, Durations DEF TypeOK
  <1>3. cache[ip] \in CacheEntry /\ BAN_CACHE_TTL \in Nat
    BY StoreAssumption DEF TypeOK
  <1>4. cache[ip].at \in Nat /\ cache[ip].until \in Nat
    BY <1>3 DEF CacheEntry
  <1>5. Fresh(ip)
    BY <1>2, <1>3, <1>4 DEF Fresh
  <1>6. ipBans[DB_BACKEND][ip] > wall
    BY <1>1, <1>2
  <1> QED BY <1>2, <1>5, <1>6 DEF ClearIsTrue

LEMMA CacheStep ==
  ASSUME DB_BACKEND = "sqlite", IInv, TypeOK', ClearIsTrue, [Next]_vars
  PROVE  ClearIsTrue'
  <1> SUFFICES ASSUME NEW ip \in IPs, ipBans'["sqlite"][ip] > wall', Fresh(ip)', ~cache'[ip].blind
               PROVE  cache'[ip].until # 0
    BY DEF ClearIsTrue
  <1>1. /\ TypeOK /\ wall \in Nat /\ wall' \in Nat /\ ipBans'["sqlite"][ip] \in Nat
        /\ ipBans["sqlite"] \in [IPs -> Nat]
    BY Durations DEF IInv, TypeOK
  <1>2. CASE UNCHANGED <<wall, ipBans, cache>>
    <2>1. ipBans'["sqlite"][ip] <= ipBans["sqlite"][ip]
      BY <1>1, <1>2
    <2> QED BY <1>1, <1>2, <2>1, StillTrue
  <1>3. ASSUME NEW ok \in SUBSET Batch, WriteBatch(ok) \/ CommitFails(ok)
        PROVE  cache'[ip].until # 0
    <2>1. wall' = wall /\ cache' = Invalidate(ok)
      BY <1>3 DEF WriteBatch, CommitFails
    <2>2. cache'[ip] = NoEntry \/ cache'[ip] = cache[ip]
      BY <1>1, <2>1, Invalidated
    <2>3. cache'[ip] = NoEntry \/ ipBans'["sqlite"][ip] <= ipBans["sqlite"][ip]
      <3>1. CASE Applied(ok, "ip_ban", ip) # {}
        BY <1>1, <2>1, <3>1, Invalidated
      <3>2. CASE Applied(ok, "ip_ban", ip) = {}
        <4>1. IpBansAfter(ok)[ip] = ipBans["sqlite"][ip]
          BY <1>1, <3>2, BatchWritten
        <4>2. ipBans' = ipBans \/ ipBans' = [ipBans EXCEPT !["sqlite"] = IpBansAfter(ok)]
          BY <1>3 DEF WriteBatch, CommitFails
        <4>3. ipBans'["sqlite"][ip] = ipBans["sqlite"][ip]
          BY <1>1, <4>1, <4>2, Durations DEF TypeOK
        <4> QED BY <1>1, <4>3
      <3> QED BY <3>1, <3>2
    <2> QED BY <1>1, <2>1, <2>2, <2>3, StillTrue
  <1>4. CASE FinishUnban
    <2>1. PICK gone \in Rows \cup {{}} :
            ipBans' = [ipBans EXCEPT ![DB_BACKEND] = [k \in IPs |-> IF k \in gone THEN 0 ELSE @[k]]]
      BY <1>4 DEF FinishUnban
    <2>2. ipBans'["sqlite"][ip] <= ipBans["sqlite"][ip]
      <3>1. ipBans'["sqlite"] = [k \in IPs |-> IF k \in gone THEN 0 ELSE ipBans["sqlite"][k]]
        BY <1>1, <2>1, Durations DEF TypeOK
      <3> QED BY <1>1, <3>1
    <2>3. wall' = wall /\ cache' = cache
      BY <1>4 DEF FinishUnban
    <2> QED BY <1>1, <2>2, <2>3, StillTrue
  <1>5. ASSUME NEW other \in IPs, CheckIpBan(other)
        PROVE  cache'[ip].until # 0
    <2>1. wall' = wall /\ ipBans' = ipBans /\ (Remember(other, RowAnswer(other), FALSE) \/ Remember(other, 0, TRUE))
      BY <1>5 DEF CheckIpBan
    <2>2. CASE other = ip
      <3>1. RowAnswer(ip) # 0 /\ RowAnswer(ip) \in Nat
        BY <1>1, <2>1 DEF RowAnswer
      <3>2. CASE Remember(ip, RowAnswer(ip), FALSE)
        <4>1. cache'[ip] = [cached |-> TRUE, until |-> RowAnswer(ip), at |-> wall, blind |-> FALSE]
          BY <1>1, <3>2 DEF Remember
        <4> QED BY <3>1, <4>1
      <3>3. CASE Remember(ip, 0, TRUE)
        <4>1. cache'[ip] = [cached |-> TRUE, until |-> 0, at |-> wall, blind |-> TRUE]
          BY <1>1, <3>3 DEF Remember
        <4> QED BY <4>1
      <3> QED BY <2>1, <2>2, <3>2, <3>3
    <2>3. CASE other # ip
      <3>1. cache'[ip] = NoEntry \/ cache'[ip] = cache[ip]
        BY <1>1, <2>1, <2>3, Remembered, RowAnswered
      <3>2. ipBans'["sqlite"][ip] <= ipBans["sqlite"][ip]
        BY <1>1, <2>1
      <3> QED BY <1>1, <2>1, <3>1, <3>2, StillTrue
    <2> QED BY <2>2, <2>3
  <1>6. CASE PruneIpBans
    <2>1. ipBans'["sqlite"] = [k \in IPs |-> IF ipBans["sqlite"][k] <= wall THEN 0 ELSE ipBans["sqlite"][k]]
      BY <1>6, Durations DEF PruneIpBans, IInv, TypeOK
    <2>2. ipBans'["sqlite"][ip] <= ipBans["sqlite"][ip]
      BY <1>1, <2>1
    <2>3. wall' = wall /\ cache' = cache
      BY <1>6 DEF PruneIpBans
    <2> QED BY <1>1, <2>2, <2>3, StillTrue
  <1>7. CASE Crash
    <2>1. cache'[ip] = NoEntry
      BY <1>7 DEF Crash
    <2> QED BY <2>1 DEF Fresh, NoEntry
  <1>8. CASE Tick
    <2>1. wall' = wall + 1 /\ ipBans' = ipBans /\ cache' = cache
      BY <1>8 DEF Tick
    <2>2. ipBans'["sqlite"][ip] <= ipBans["sqlite"][ip] /\ wall <= wall'
      BY <1>1, <2>1
    <2> QED BY <1>1, <2>1, <2>2, StillTrue
  <1>9. ASSUME Decide \/ Boot \/ (\E cleared \in SUBSET Ids : BulkUnban(cleared))
               \/ (\E cleared, rows : Unban(cleared, rows))
        PROVE  UNCHANGED <<wall, ipBans, cache>>
    BY <1>9 DEF Decide, RiskBan, ManualBan, QueueManualBan, Boot, BulkUnban, Unban
  <1>10. CASE UNCHANGED vars
    BY <1>2, <1>10 DEF vars
  <1>11. CASE Lift
    BY <1>2, <1>4, <1>9, <1>11 DEF Lift
  <1> QED BY <1>2, <1>3, <1>4, <1>5, <1>6, <1>7, <1>8, <1>9, <1>10, <1>11 DEF Next, Write

\* With the SQLite backend a freshly banned address is refused at once: no
\* cached answer outlives the row that contradicts it.
THEOREM FreshBansAreEnforced ==
  ASSUME DB_BACKEND = "sqlite" PROVE Spec => []CacheNeverHidesBan
  <1>1. Init => ClearIsTrue
    BY DEF Init, ClearIsTrue, Fresh, NoEntry
  <1>2. IInv /\ IInv' /\ ClearIsTrue /\ [Next]_vars => ClearIsTrue'
    BY CacheStep DEF IInv
  <1>3. IInv /\ ClearIsTrue => CacheNeverHidesBan
    <2> SUFFICES ASSUME IInv, ClearIsTrue, NEW ip \in IPs, ipBans["sqlite"][ip] > wall,
                        ~(Fresh(ip) /\ cache[ip].blind)
                 PROVE  CachedAnswer(ip) > 0
      BY DEF CacheNeverHidesBan
    <2>1. wall \in Nat /\ ipBans["sqlite"][ip] \in Nat /\ cache[ip] \in CacheEntry
      BY Durations DEF IInv, TypeOK
    <2>2. cache[ip].until \in Nat
      BY <2>1 DEF CacheEntry
    <2>3. CASE Fresh(ip)
      BY <2>2, <2>3 DEF ClearIsTrue, CachedAnswer
    <2>4. CASE ~Fresh(ip)
      BY <2>1, <2>4 DEF CachedAnswer, RowAnswer
    <2> QED BY <2>3, <2>4
  <1> QED BY <1>1, <1>2, <1>3, Invariance, PTL DEF Spec

-----------------------------------------------------------------------------
(***************************************************************************)
(* The ledger                                                              *)
(***************************************************************************)

\* Each step raises rows, expires some, takes or ends a request of an operator,
\* lets time pass, or leaves the ledger alone.
LEMMA LedgerStep ==
  ASSUME IInv, IInv', [Next]_vars
  PROVE  [Ledger!Next]_Ledger!lvars
  <1> USE DEF Ledger!lvars
  <1>0. /\ TypeOK /\ TypeOK' /\ wall \in Nat
        /\ ipBans[DB_BACKEND] \in [IPs -> Nat] /\ ipBans'[DB_BACKEND] \in [IPs -> Nat]
    BY Durations DEF IInv, TypeOK
  <1>1. CASE UNCHANGED <<wall, ipBans, unbanning>>
    BY <1>1
  <1>2. ASSUME NEW ok \in SUBSET Batch, WriteBatch(ok)
        PROVE  Ledger!Raise
    <2>1. ipBans'[DB_BACKEND] = IpBansAfter(ok)
      BY <1>2, Durations DEF WriteBatch, IInv, TypeOK
    <2>2. \A k \in IPs : ipBans'[DB_BACKEND][k] >= ipBans[DB_BACKEND][k]
      BY <1>0, <2>1, BatchWritten
    <2>3. wall' = wall /\ unbanning' = unbanning
      BY <1>2 DEF WriteBatch
    <2> QED BY <1>0, <2>2, <2>3 DEF Ledger!Raise
  <1>3. ASSUME NEW cleared, (\E rows : Unban(cleared, rows)) \/ BulkUnban(cleared)
        PROVE  Ledger!Ask
    <2>1. ~unbanning.busy /\ wall' = wall /\ ipBans' = ipBans
      BY <1>3 DEF Unban, BulkUnban
    <2>2. unbanning.rows \cap IPs = {}
      BY <2>1 DEF IInv, Requests, NotUnbanning
    <2>3. unbanning'.rows \cap IPs \in SUBSET IPs
      OBVIOUS
    <2> QED BY <2>1, <2>2, <2>3 DEF Ledger!Ask
  <1>4. CASE FinishUnban
    <2>1. PICK gone \in Rows \cup {{}} :
            ipBans' = [ipBans EXCEPT ![DB_BACKEND] = [k \in IPs |-> IF k \in gone THEN 0 ELSE @[k]]]
      BY <1>4 DEF FinishUnban
    <2>2. ipBans'[DB_BACKEND] = [k \in IPs |-> IF k \in gone THEN 0 ELSE ipBans[DB_BACKEND][k]]
      BY <1>0, <2>1, Durations DEF TypeOK
    <2> DEFINE freed == gone \cap IPs
    <2>3. freed \in SUBSET (unbanning.rows \cap IPs)
      <3>1. gone = unbanning.rows \/ gone \subseteq Ids
        BY <2>1 DEF Rows
      <3> QED BY <3>1, StoreAssumption
    <2>4. ipBans'[DB_BACKEND] = [k \in IPs |-> IF k \in freed THEN 0 ELSE ipBans[DB_BACKEND][k]]
      BY <2>2
    <2> HIDE DEF freed
    <2>5. wall' = wall /\ unbanning'.rows \cap IPs = {}
      BY <1>4 DEF FinishUnban, NotUnbanning
    <2>6. Ledger!Answer
      BY <2>3, <2>4, <2>5 DEF Ledger!Answer, Ledger!RemoveAmong
    <2> QED BY <2>6 DEF Ledger!Next
  <1>5. CASE PruneIpBans
    <2>1. wall' = wall /\ unbanning' = unbanning
      BY <1>5 DEF PruneIpBans
    <2>2. CASE DB_BACKEND = "sqlite"
      <3> DEFINE freed == {k \in IPs : ipBans[DB_BACKEND][k] <= wall}
      <3>1. ipBans'[DB_BACKEND] = [k \in IPs |-> IF k \in freed THEN 0 ELSE ipBans[DB_BACKEND][k]]
        BY <1>0, <1>5, <2>2, Durations DEF PruneIpBans, TypeOK
      <3>2. freed \in SUBSET {k \in IPs : ipBans[DB_BACKEND][k] <= wall}
        OBVIOUS
      <3> HIDE DEF freed
      <3>3. Ledger!Expire
        BY <2>1, <3>1, <3>2 DEF Ledger!Expire, Ledger!RemoveAmong
      <3> QED BY <3>3 DEF Ledger!Next
    <2>3. CASE DB_BACKEND # "sqlite"
      <3>1. ipBans'[DB_BACKEND] = ipBans[DB_BACKEND]
        BY <1>0, <1>5, <2>3, Durations DEF PruneIpBans, TypeOK
      <3> QED BY <2>1, <3>1
    <2> QED BY <2>2, <2>3
  <1>6. CASE Crash
    <2> DEFINE freed == {}
    <2>1. wall' = wall /\ ipBans' = ipBans /\ unbanning'.rows \cap IPs = {}
      BY <1>6 DEF Crash, NotUnbanning
    <2>2. freed \in SUBSET (unbanning.rows \cap IPs)
      OBVIOUS
    <2>3. ipBans'[DB_BACKEND] = [k \in IPs |-> IF k \in freed THEN 0 ELSE ipBans[DB_BACKEND][k]]
      BY <1>0, <2>1
    <2> HIDE DEF freed
    <2>4. Ledger!Answer
      BY <2>1, <2>2, <2>3 DEF Ledger!Answer, Ledger!RemoveAmong
    <2> QED BY <2>4 DEF Ledger!Next
  <1>7. CASE Tick
    <2>1. wall' = wall + 1 /\ ipBans' = ipBans /\ unbanning' = unbanning
      BY <1>7 DEF Tick
    <2>2. Ledger!Pass
      BY <1>0, <2>1 DEF Ledger!Pass
    <2> QED BY <2>2 DEF Ledger!Next
  <1>8. ASSUME Decide \/ Boot \/ (\E ip \in IPs : CheckIpBan(ip)) \/ (\E ok \in SUBSET Batch : CommitFails(ok))
               \/ UNCHANGED vars
        PROVE  UNCHANGED <<wall, ipBans, unbanning>>
    BY <1>8 DEF Decide, RiskBan, ManualBan, QueueManualBan, Boot, CheckIpBan, CommitFails, vars
  <1>9. CASE Lift
    BY <1>3, <1>4, <1>9 DEF Lift, Ledger!Next
  <1>10. CASE Write
    BY <1>1, <1>2, <1>8, <1>10 DEF Write, Ledger!Next
  <1> QED BY <1>1, <1>5, <1>6, <1>7, <1>8, <1>9, <1>10 DEF Next

\* The table of address bans implements BanLedger, with either backend.
THEOREM LedgerImplemented == Spec => LedgerKept
  <1>1. Init => Ledger!Init
    BY StoreAssumption, Durations DEF Init, NotUnbanning, Ledger!Init
  <1>2. IInv /\ IInv' /\ [Next]_vars => [Ledger!Next]_Ledger!lvars
    BY LedgerStep
  <1> QED BY <1>1, <1>2, Invariance, PTL DEF Spec, LedgerKept, Ledger!Spec

=============================================================================
