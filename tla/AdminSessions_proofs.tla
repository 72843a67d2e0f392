------------------------ MODULE AdminSessions_proofs ------------------------
(***************************************************************************)
(* Safety of AdminSessions, for any users, passwords and limits.           *)
(***************************************************************************)
EXTENDS AdminSessions, FiniteSetTheorems, SequenceTheorems, NaturalsInduction,
        WellFoundedInduction, TLAPS

Accts == Account \cup {Absent}
Tables == [Users -> Accts]

\* The table after each of the operations q; Accounts is the last for the queue.
Past(t, q) ==
  LET after[n \in 0 .. Len(q)] ==
        IF n = 0 THEN t ELSE UserWritten(after[n - 1], q[n])
  IN after

-----------------------------------------------------------------------------
(***************************************************************************)
(* Induction                                                               *)
(***************************************************************************)

\* Of some natural numbers one is the least.
LEMMA LeastNatural ==
  ASSUME NEW T \in SUBSET Nat, T # {}
  PROVE  \E x \in T : \A y \in T : x <= y
  <1> DEFINE R == OpToRel(<, Nat)
  <1>1. IsWellFoundedOn(R, Nat)
    BY NatLessThanWellFounded
  <1>2. \A x, y \in Nat : <<y, x>> \in R <=> y < x
    BY DEF OpToRel
  <1> HIDE DEF R
  <1>3. PICK x \in T : \A y \in T : ~(<<y, x>> \in R)
    BY <1>1, WFMin
  <1>4. x \in Nat /\ \A y \in T : y \in Nat /\ ~(y < x)
    <2> SUFFICES ASSUME NEW y \in T PROVE x \in Nat /\ y \in Nat /\ ~(y < x)
      OBVIOUS
    <2>1. x \in Nat /\ y \in Nat
      OBVIOUS
    <2>2. ~(<<y, x>> \in R)
      BY <1>3
    <2> QED BY <1>2, <2>1, <2>2
  <1> QED BY <1>4

\* Induction up to a number, with the set of those at which a claim holds.
LEMMA UpTo ==
  ASSUME NEW m \in Nat, NEW H, 0 \in H,
         \A n \in 1 .. m : n - 1 \in H => n \in H
  PROVE  \A n \in 0 .. m : n \in H
  <1> DEFINE Bad == {n \in 0 .. m : n \notin H}
  <1>1. Bad = {}
    <2> SUFFICES ASSUME Bad # {} PROVE FALSE
      OBVIOUS
    <2>1. Bad \in SUBSET Nat
      OBVIOUS
    <2>2. PICK n \in Bad : \A y \in Bad : n <= y
      BY <2>1, LeastNatural
    <2>3. n \in 0 .. m /\ n \notin H /\ n # 0
      BY <2>2
    <2>4. n \in 1 .. m /\ n - 1 \in 0 .. m
      BY <2>3
    <2>5. n - 1 \notin Bad
      BY <2>1, <2>2, <2>4
    <2> QED BY <2>3, <2>4, <2>5
  <1> QED BY <1>1

-----------------------------------------------------------------------------
(***************************************************************************)
(* Accounts                                                                *)
(***************************************************************************)

\* An account has three fields; what is absent has none of their values.
LEMMA AccountFields ==
  ASSUME NEW a \in Account
  PROVE  /\ DOMAIN a = {"role", "status", "password"}
         /\ a.role \in Roles /\ a.status \in Statuses /\ a.password \in Passwords
         /\ a # Absent
  BY DEF Account, Absent, Statuses

\* A body has some of these fields.
LEMMA BodyFields ==
  ASSUME NEW f \in Bodies
  PROVE  /\ DOMAIN f \subseteq {"role", "status", "password"}
         /\ "role" \in DOMAIN f => f.role \in Roles
         /\ "status" \in DOMAIN f => f.status \in Statuses
         /\ "password" \in DOMAIN f => f.password \in Passwords
  <1>1. CASE f \in [role : Roles]
    BY <1>1
  <1>2. CASE f \in [status : Statuses]
    BY <1>2
  <1>3. CASE f \in [password : Passwords]
    BY <1>3
  <1>4. CASE f \in [password : Passwords, status : Statuses]
    BY <1>4
  <1> QED BY <1>1, <1>2, <1>3, <1>4 DEF Bodies

\* user_update, field by field.
Merged(a, f) == [x \in DOMAIN a |-> IF x \in DOMAIN f THEN f[x] ELSE a[x]]

LEMMA MergedAccount ==
  ASSUME NEW a \in Account, NEW f \in Bodies
  PROVE  /\ Merged(a, f) \in Account
         /\ Merged(a, f).status = IF "status" \in DOMAIN f THEN f.status ELSE a.status
         /\ Merged(a, f).role = IF "role" \in DOMAIN f THEN f.role ELSE a.role
         /\ Merged(a, f).password =
              IF "password" \in DOMAIN f THEN f.password ELSE a.password
  <1>1. DOMAIN a = {"role", "status", "password"}
    BY AccountFields
  <1> DEFINE m == Merged(a, f)
  <1>2. m = [x \in {"role", "status", "password"} |->
               IF x \in DOMAIN f THEN f[x] ELSE a[x]]
    BY <1>1 DEF Merged
  <1>3. /\ m.status = IF "status" \in DOMAIN f THEN f.status ELSE a.status
        /\ m.role = IF "role" \in DOMAIN f THEN f.role ELSE a.role
        /\ m.password = IF "password" \in DOMAIN f THEN f.password ELSE a.password
    BY <1>2
  <1>4. m.role \in Roles /\ m.status \in Statuses /\ m.password \in Passwords
    BY <1>3, AccountFields, BodyFields
  <1>5. m = [role |-> m.role, status |-> m.status, password |-> m.password]
    <2>1. DOMAIN m = {"role", "status", "password"}
      BY <1>2
    <2> HIDE DEF m
    <2> QED BY <1>2, <2>1
  <1> HIDE DEF m
  <1>6. m \in Account
    BY <1>4, <1>5 DEF Account
  <1> QED BY <1>3, <1>6 DEF m

\* What the operations are.
AccountOp == {"create", "update", "delete"}

LEMMA OpKinds ==
  ASSUME NEW op \in Ops
  PROVE  /\ op.op \in {"open", "revoke", "create", "update", "delete"}
         /\ op.op \in {"open", "revoke"} => op.sid \in Sids
         /\ op.op \in AccountOp => op.user \in Users
         /\ op.op = "create" => op.account \in Account
         /\ op.op = "update" => op.fields \in Bodies
  <1>1. CASE op \in [op : {"open", "revoke"}, sid : Sids]
    BY <1>1 DEF AccountOp
  <1>2. CASE op \in [op : {"create"}, user : Users, account : Account]
    BY <1>2 DEF AccountOp
  <1>3. CASE op \in [op : {"update"}, user : Users, fields : Bodies]
    BY <1>3 DEF AccountOp
  <1>4. CASE op \in [op : {"delete"}, user : Users]
    BY <1>4 DEF AccountOp
  <1> QED BY <1>1, <1>2, <1>3, <1>4 DEF Ops

\* An operation changes at most the row of its user.
LEMMA UserWrittenIs ==
  ASSUME NEW t \in Tables, NEW op \in Ops
  PROVE  /\ UserWritten(t, op) \in Tables
         /\ op.op \notin AccountOp => UserWritten(t, op) = t
         /\ \A u \in Users :
              UserWritten(t, op)[u] =
                IF op.op \notin AccountOp THEN t[u]
                ELSE IF op.user # u THEN t[u]
                ELSE IF op.op = "create" THEN op.account
                ELSE IF op.op = "delete" THEN Absent
                ELSE IF t[u] = Absent THEN Absent ELSE Merged(t[u], op.fields)
  <1>1. CASE op.op \in {"open", "revoke"}
    <2>1. UserWritten(t, op) = t
      BY <1>1 DEF UserWritten
    <2> QED BY <1>1, <2>1 DEF AccountOp
  <1>2. CASE op.op = "create"
    <2>1. UserWritten(t, op) = [t EXCEPT ![op.user] = op.account]
      BY <1>2 DEF UserWritten
    <2>2. op.user \in Users /\ op.account \in Account
      BY <1>2, OpKinds DEF AccountOp
    <2> QED BY <1>2, <2>1, <2>2 DEF Tables, Accts, AccountOp
  <1>3. CASE op.op = "delete"
    <2>1. UserWritten(t, op) = [t EXCEPT ![op.user] = Absent]
      BY <1>3 DEF UserWritten
    <2>2. op.user \in Users
      BY <1>3, OpKinds DEF AccountOp
    <2> QED BY <1>3, <2>1, <2>2 DEF Tables, Accts, AccountOp
  <1>4. CASE op.op = "update"
    <2>1. op.user \in Users /\ op.fields \in Bodies
      BY <1>4, OpKinds DEF AccountOp
    <2>2. CASE t[op.user] = Absent
      <3>1. UserWritten(t, op) = t
        BY <1>4, <2>2 DEF UserWritten
      <3> QED BY <1>4, <2>1, <2>2, <3>1 DEF AccountOp
    <2>3. CASE t[op.user] # Absent
      <3>1. UserWritten(t, op) = [t EXCEPT ![op.user] = Merged(t[op.user], op.fields)]
        BY <1>4, <2>3 DEF UserWritten, Merged
      <3>2. Merged(t[op.user], op.fields) \in Account
        BY <2>1, <2>3, MergedAccount DEF Tables, Accts
      <3> QED BY <1>4, <2>1, <2>3, <3>1, <3>2 DEF Tables, Accts, AccountOp
    <2> QED BY <2>2, <2>3
  <1> QED BY <1>1, <1>2, <1>3, <1>4, OpKinds

\* The history of a table, step by step, and that these steps determine it.
LEMMA PastIs ==
  ASSUME NEW t \in Tables, NEW q \in Seq(Ops)
  PROVE  /\ Past(t, q) \in [0 .. Len(q) -> Tables]
         /\ Past(t, q)[0] = t
         /\ \A n \in 1 .. Len(q) : Past(t, q)[n] = UserWritten(Past(t, q)[n - 1], q[n])
  <1> DEFINE L == Len(q)
             Up(h, n) == IF n = 0 THEN t ELSE UserWritten(h[n - 1], q[n])
             Pasts(m) == {h \in [0 .. m -> Tables] : \A n \in 0 .. m : h[n] = Up(h, n)}
             H == {m \in 0 .. L : Pasts(m) # {}}
  <1> HIDE DEF UserWritten
  <1>1. L \in Nat /\ \A n \in 1 .. L : q[n] \in Ops
    OBVIOUS
  <1> HIDE DEF L
  <1>2. 0 \in H
    <2>1. [n \in 0 .. 0 |-> t] \in Pasts(0)
      OBVIOUS
    <2> QED BY <1>1, <2>1
  <1>3. ASSUME NEW m \in 1 .. L, m - 1 \in H PROVE m \in H
    <2>1. PICK h : h \in Pasts(m - 1)
      BY <1>3
    <2>2. h[m - 1] \in Tables /\ UserWritten(h[m - 1], q[m]) \in Tables
      BY <1>1, <2>1, UserWrittenIs
    <2> DEFINE e == [n \in 0 .. m |-> IF n = m THEN UserWritten(h[m - 1], q[m]) ELSE h[n]]
    <2>3. e \in [0 .. m -> Tables]
      BY <1>1, <2>1, <2>2
    <2>4. ASSUME NEW n \in 0 .. m PROVE e[n] = Up(e, n)
      <3>1. CASE n = m
        <4>1. m - 1 \in 0 .. m /\ m - 1 # m /\ m # 0
          BY <1>1
        <4> QED BY <3>1, <4>1
      <3>2. CASE n # m /\ n = 0
        <4>1. e[n] = h[n] /\ n \in 0 .. m - 1
          BY <1>1, <3>2
        <4> QED BY <2>1, <3>2, <4>1
      <3>3. CASE n # m /\ n # 0
        <4>1. n \in 0 .. m - 1 /\ n - 1 \in 0 .. m /\ n - 1 # m
          BY <1>1, <3>3
        <4>2. e[n] = h[n] /\ e[n - 1] = h[n - 1]
          BY <3>3, <4>1
        <4>3. h[n] = UserWritten(h[n - 1], q[n])
          BY <2>1, <3>3, <4>1
        <4> QED BY <3>3, <4>2, <4>3
      <3> QED BY <3>1, <3>2, <3>3
    <2> HIDE DEF e
    <2>5. e \in Pasts(m)
      BY <2>3, <2>4
    <2> HIDE DEF Pasts
    <2> QED BY <1>1, <2>5
  <1> HIDE DEF H
  <1>4. L \in H
    <2>1. \A m \in 1 .. L : m - 1 \in H => m \in H
      BY <1>3
    <2>2. \A m \in 0 .. L : m \in H
      BY <1>1, <1>2, <2>1, UpTo
    <2> QED BY <1>1, <2>2
  <1>5. PICK h : h \in Pasts(L)
    BY <1>4 DEF H
  <1> DEFINE IsPast(after) ==
        after = [n \in 0 .. L |-> IF n = 0 THEN t ELSE UserWritten(after[n - 1], q[n])]
  <1>6. IsPast(h)
    BY <1>5
  <1> HIDE DEF IsPast
  <1> DEFINE chosen == CHOOSE after : IsPast(after)
  <1>7. IsPast(chosen)
    BY <1>6
  <1>8. Past(t, q) = chosen
    BY DEF Past, IsPast, L
  <1> HIDE DEF chosen
  <1>9. chosen = [n \in 0 .. L |-> chosen[n]] /\ \A n \in 0 .. L : chosen[n] = Up(chosen, n)
    BY <1>7 DEF IsPast
  <1>10. chosen \in [0 .. L -> Tables]
    <2> DEFINE T == {n \in 0 .. L : chosen[n] \in Tables}
    <2>1. 0 \in T
      BY <1>1, <1>9
    <2>2. ASSUME NEW n \in 1 .. L, n - 1 \in T PROVE n \in T
      <3>1. n \in 0 .. L /\ n # 0 /\ q[n] \in Ops /\ chosen[n - 1] \in Tables
        BY <1>1, <2>2
      <3>2. chosen[n] = UserWritten(chosen[n - 1], q[n])
        BY <1>9, <3>1
      <3>3. UserWritten(chosen[n - 1], q[n]) \in Tables
        BY <3>1, UserWrittenIs
      <3> QED BY <3>1, <3>2, <3>3
    <2> HIDE DEF T
    <2>3. \A n \in 0 .. L : n \in T
      BY <1>1, <2>1, <2>2, UpTo
    <2> QED BY <1>9, <2>3 DEF T
  <1>11. chosen[0] = t /\ \A n \in 1 .. L : chosen[n] = UserWritten(chosen[n - 1], q[n])
    BY <1>1, <1>9
  <1> QED BY <1>8, <1>10, <1>11 DEF L

LEMMA PastUnique ==
  ASSUME NEW t \in Tables, NEW q \in Seq(Ops), NEW m \in 0 .. Len(q), NEW h,
         h[0] = t, \A n \in 1 .. m : h[n] = UserWritten(h[n - 1], q[n])
  PROVE  \A n \in 0 .. m : h[n] = Past(t, q)[n]
  <1> DEFINE p == Past(t, q)
             H == {n \in 0 .. m : h[n] = p[n]}
  <1>1. m \in Nat /\ \A n \in 1 .. m : n \in 1 .. Len(q)
    OBVIOUS
  <1>2. p[0] = t /\ \A n \in 1 .. Len(q) : p[n] = UserWritten(p[n - 1], q[n])
    BY PastIs
  <1> HIDE DEF p, UserWritten
  <1>3. 0 \in H
    BY <1>1, <1>2
  <1>4. \A n \in 1 .. m : n - 1 \in H => n \in H
    BY <1>1, <1>2
  <1> HIDE DEF H
  <1>5. \A n \in 0 .. m : n \in H
    BY <1>1, <1>3, <1>4, UpTo
  <1> QED BY <1>5 DEF H, p

LEMMA AccountsLast == Accounts = Past(users, queue)[Len(queue)]
  BY DEF Accounts, Past

-----------------------------------------------------------------------------
(***************************************************************************)
(* The queue                                                               *)
(***************************************************************************)

LEMMA Concat ==
  ASSUME NEW p \in Seq(Ops), NEW q \in Seq(Ops)
  PROVE  /\ p \o q \in Seq(Ops) /\ Len(p \o q) = Len(p) + Len(q)
         /\ Len(p) \in Nat /\ Len(q) \in Nat
         /\ \A i \in 1 .. Len(p) : (p \o q)[i] = p[i]
         /\ \A i \in 1 .. Len(q) : (p \o q)[Len(p) + i] = q[i]
  OBVIOUS

\* The history of the accounts does not depend on what is queued later,
LEMMA PastConcat ==
  ASSUME NEW t \in Tables, NEW q \in Seq(Ops), NEW add \in Seq(Ops)
  PROVE  \A n \in 0 .. Len(q) : Past(t, q \o add)[n] = Past(t, q)[n]
  <1> DEFINE h == Past(t, q)
             c == q \o add
  <1>1. c \in Seq(Ops) /\ Len(q) \in 0 .. Len(c) /\ \A i \in 1 .. Len(q) : c[i] = q[i]
    BY Concat
  <1>2. h[0] = t /\ \A n \in 1 .. Len(q) : h[n] = UserWritten(h[n - 1], q[n])
    BY PastIs
  <1> HIDE DEF h, c, UserWritten
  <1>3. \A n \in 1 .. Len(q) : h[n] = UserWritten(h[n - 1], c[n])
    BY <1>1, <1>2
  <1>4. \A n \in 0 .. Len(q) : h[n] = Past(t, c)[n]
    BY <1>1, <1>2, <1>3, PastUnique
  <1> QED BY <1>4 DEF h, c

\* stands still while operations on sessions are written,
LEMMA PastQuiet ==
  ASSUME NEW t \in Tables, NEW q \in Seq(Ops), NEW k \in 0 .. Len(q),
         \A n \in k + 1 .. Len(q) : q[n].op \notin AccountOp
  PROVE  \A n \in k .. Len(q) : Past(t, q)[n] = Past(t, q)[k]
  <1> DEFINE p == Past(t, q)
             H == {n \in 0 .. Len(q) : n < k \/ p[n] = p[k]}
  <1>1. p \in [0 .. Len(q) -> Tables]
        /\ \A n \in 1 .. Len(q) : p[n] = UserWritten(p[n - 1], q[n])
    BY PastIs
  <1> HIDE DEF p, UserWritten
  <1>2. 0 \in H
    OBVIOUS
  <1>3. ASSUME NEW n \in 1 .. Len(q), n - 1 \in H PROVE n \in H
    <2>1. n \in 0 .. Len(q) /\ n - 1 \in 0 .. Len(q) /\ q[n] \in Ops /\ k \in Nat
      OBVIOUS
    <2>2. CASE n < k \/ n = k
      BY <2>1, <2>2
    <2>3. CASE n > k
      <3>1. p[n - 1] = p[k] /\ q[n].op \notin AccountOp
        BY <1>3, <2>1, <2>3
      <3>2. UserWritten(p[n - 1], q[n]) = p[n - 1]
        BY <1>1, <2>1, <3>1, UserWrittenIs
      <3> QED BY <1>1, <2>1, <3>1, <3>2
    <2> QED BY <2>1, <2>2, <2>3
  <1> HIDE DEF H
  <1>4. \A n \in 0 .. Len(q) : n \in H
    <2>1. \A n \in 1 .. Len(q) : n - 1 \in H => n \in H
      BY <1>3
    <2>2. Len(q) \in Nat
      OBVIOUS
    <2> QED BY <1>2, <2>1, <2>2, UpTo
  <1> QED BY <1>4 DEF H, p

\* and is the same seen a step later.
LEMMA PastTail ==
  ASSUME NEW t \in Tables, NEW q \in Seq(Ops), q # <<>>
  PROVE  /\ UserWritten(t, Head(q)) \in Tables
         /\ \A n \in 0 .. Len(q) - 1 :
              Past(UserWritten(t, Head(q)), Tail(q))[n] = Past(t, q)[n + 1]
  <1> DEFINE p == Past(t, q)
             L == Len(q)
             u == UserWritten(t, Head(q))
             r == Tail(q)
             h == [n \in 0 .. L - 1 |-> p[n + 1]]
  <1>1. p[0] = t /\ \A n \in 1 .. L : p[n] = UserWritten(p[n - 1], q[n])
    BY PastIs
  <1>2. /\ L \in Nat \ {0} /\ Head(q) \in Ops /\ q[1] = Head(q)
        /\ r \in Seq(Ops) /\ Len(r) = L - 1 /\ \A n \in 1 .. L - 1 : r[n] = q[n + 1]
    OBVIOUS
  <1>3. u \in Tables
    BY <1>2, UserWrittenIs
  <1> HIDE DEF p, UserWritten, L, r
  <1>4. h[0] = u
    <2>1. p[1] = UserWritten(p[0], q[1])
      BY <1>1, <1>2
    <2> QED BY <1>1, <1>2, <2>1
  <1>5. ASSUME NEW n \in 1 .. L - 1 PROVE h[n] = UserWritten(h[n - 1], r[n])
    <2>1. n \in 0 .. L - 1 /\ n - 1 \in 0 .. L - 1 /\ n + 1 \in 1 .. L
          /\ n - 1 + 1 = n /\ n + 1 - 1 = n
      BY <1>2
    <2>2. h[n] = p[n + 1] /\ h[n - 1] = p[n] /\ r[n] = q[n + 1]
      BY <1>2, <2>1
    <2>3. p[n + 1] = UserWritten(p[n], q[n + 1])
      BY <1>1, <2>1
    <2> QED BY <2>2, <2>3
  <1>6. \A n \in 0 .. L - 1 : h[n] = p[n + 1]
    OBVIOUS
  <1> HIDE DEF h, u
  <1>7. \A n \in 0 .. L - 1 : h[n] = Past(u, r)[n]
    <2> DEFINE m == L - 1
    <2>1. m \in 0 .. Len(r) /\ r \in Seq(Ops)
      BY <1>2
    <2>2. \A n \in 1 .. m : h[n] = UserWritten(h[n - 1], r[n])
      BY <1>5
    <2> HIDE DEF m
    <2>3. \A n \in 0 .. m : h[n] = Past(u, r)[n]
      BY <1>3, <1>4, <2>1, <2>2, PastUnique
    <2> QED BY <2>3 DEF m
  <1> QED BY <1>3, <1>6, <1>7 DEF u, r, p, L

\* The accounts after at most one more operation on them.
Changed(ops) == IF ops = <<>> THEN Accounts ELSE UserWritten(Accounts, ops[1])

LEMMA AccountsTyped ==
  ASSUME TypeOK
  PROVE  /\ Accounts \in Tables /\ users \in Tables /\ queue \in Seq(Ops)
         /\ \A n \in 0 .. Len(queue) : Past(users, queue)[n] \in Tables
  <1>1. users \in Tables /\ queue \in Seq(Ops) /\ Len(queue) \in Nat
    BY DEF TypeOK, Tables, Accts
  <1>2. \A n \in 0 .. Len(queue) : Past(users, queue)[n] \in Tables
    BY <1>1, PastIs
  <1> QED BY <1>1, <1>2, AccountsLast

LEMMA Appended ==
  ASSUME TypeOK, users' = users,
         NEW ops \in Seq(Ops), Len(ops) <= 1,
         NEW more \in Seq(Ops), \A i \in 1 .. Len(more) : more[i].op \notin AccountOp,
         queue' = queue \o ops \o more
  PROVE  /\ queue' \in Seq(Ops) /\ Len(queue') = Len(queue) + Len(ops) + Len(more)
         /\ Len(queue) \in Nat /\ Len(ops) \in Nat /\ Len(more) \in Nat
         /\ \A i \in 1 .. Len(queue) : queue'[i] = queue[i]
         /\ \A i \in 1 .. Len(ops) : queue'[Len(queue) + i] = ops[i]
         /\ \A i \in 1 .. Len(more) : queue'[Len(queue) + Len(ops) + i] = more[i]
         /\ \A n \in 0 .. Len(queue) : Past(users', queue')[n] = Past(users, queue)[n]
         /\ \A n \in Len(queue) + 1 .. Len(queue') : Past(users', queue')[n] = Changed(ops)
         /\ Accounts' = Changed(ops)
  <1> DEFINE q == queue \o ops
             c == q \o more
  <1>1. /\ queue \in Seq(Ops) /\ users \in Tables /\ Accounts \in Tables
    BY AccountsTyped
  <1>2. /\ q \in Seq(Ops) /\ Len(q) = Len(queue) + Len(ops)
        /\ Len(queue) \in Nat /\ Len(ops) \in Nat
        /\ \A i \in 1 .. Len(queue) : q[i] = queue[i]
        /\ \A i \in 1 .. Len(ops) : q[Len(queue) + i] = ops[i]
    BY <1>1, Concat
  <1>3. \A n \in 0 .. Len(queue) : Past(users, q)[n] = Past(users, queue)[n]
    BY <1>1, PastConcat
  <1> HIDE DEF q
  <1>4. /\ c \in Seq(Ops) /\ Len(c) = Len(q) + Len(more) /\ Len(more) \in Nat
        /\ \A i \in 1 .. Len(q) : c[i] = q[i]
        /\ \A i \in 1 .. Len(more) : c[Len(q) + i] = more[i]
    BY <1>2, Concat
  <1>5. \A n \in 0 .. Len(q) : Past(users, c)[n] = Past(users, q)[n]
    BY <1>1, <1>2, PastConcat
  <1> HIDE DEF c
  <1>6. queue' = c
    BY DEF c, q
  <1>7. \A n \in 0 .. Len(queue) : Past(users, c)[n] = Past(users, queue)[n]
    BY <1>2, <1>3, <1>5
  <1>8. \A n \in Len(q) .. Len(c) : Past(users, c)[n] = Past(users, c)[Len(q)]
    <2>1. Len(q) \in 0 .. Len(c)
      BY <1>2, <1>4
    <2>2. ASSUME NEW n \in Len(q) + 1 .. Len(c) PROVE c[n].op \notin AccountOp
      <3>1. n - Len(q) \in 1 .. Len(more) /\ n = Len(q) + (n - Len(q))
        BY <1>2, <1>4
      <3> QED BY <1>4, <3>1
    <2> QED BY <1>1, <1>4, <2>1, <2>2, PastQuiet
  <1>9. Past(users, c)[Len(q)] = Changed(ops)
    <2>1. Past(users, c)[Len(queue)] = Accounts
      BY <1>2, <1>7, AccountsLast
    <2>2. CASE ops = <<>>
      BY <1>2, <2>1, <2>2 DEF Changed
    <2>3. CASE ops # <<>>
      <3>1. Len(ops) = 1 /\ Len(q) = Len(queue) + 1
        <4>1. Len(ops) # 0 /\ Len(ops) <= 1
          BY <2>3, EmptySeq
        <4>2. Len(ops) \in Nat /\ Len(queue) \in Nat /\ Len(q) = Len(queue) + Len(ops)
          BY <1>2
        <4>3. \A k \in Nat : k # 0 /\ k <= 1 => k = 1
          OBVIOUS
        <4>4. Len(ops) = 1
          BY ONLY <4>1, <4>2, <4>3
        <4> QED BY <4>2, <4>4
      <3>2. c[Len(q)] = ops[1] /\ Len(q) \in 1 .. Len(c) /\ Len(q) - 1 = Len(queue)
        BY <1>2, <1>4, <3>1
      <3>3. Past(users, c)[Len(q)] = UserWritten(Past(users, c)[Len(q) - 1], c[Len(q)])
        BY <1>1, <1>4, <3>2, PastIs
      <3> QED BY <2>1, <2>3, <3>2, <3>3 DEF Changed
    <2> QED BY <2>2, <2>3
  <1>10. \A n \in Len(queue) + 1 .. Len(c) : Past(users, c)[n] = Changed(ops)
    <2> SUFFICES ASSUME NEW n \in Len(queue) + 1 .. Len(c)
                 PROVE  Past(users, c)[n] = Changed(ops)
      OBVIOUS
    <2>1. n \in Len(q) .. Len(c)
      BY <1>2, <1>4
    <2> QED BY <1>8, <1>9, <2>1
  <1>11. Accounts' = Changed(ops)
    <2>1. Accounts' = Past(users', queue')[Len(queue')]
      BY DEF Accounts, Past
    <2>2. Len(c) \in Len(q) .. Len(c)
      BY <1>2, <1>4
    <2> QED BY <1>6, <1>8, <1>9, <2>1, <2>2
  <1>12. /\ \A i \in 1 .. Len(queue) : c[i] = queue[i]
         /\ \A i \in 1 .. Len(ops) : c[Len(queue) + i] = ops[i]
    <2>1. \A i \in 1 .. Len(queue) : i \in 1 .. Len(q)
      BY <1>2
    <2>2. \A i \in 1 .. Len(ops) : Len(queue) + i \in 1 .. Len(q)
      BY <1>2
    <2> QED BY <1>2, <1>4, <2>1, <2>2
  <1> QED BY <1>2, <1>4, <1>6, <1>7, <1>10, <1>11, <1>12

\* The revocations that are queued name the sessions in question, each of them.
LEMMA RevocationsAre ==
  ASSUME NEW noted \in SUBSET Sids, NEW revs \in RevokeOps(noted)
  PROVE  /\ revs \in Seq(Ops) /\ Len(revs) = Cardinality(noted)
         /\ \A i \in 1 .. Len(revs) :
              revs[i].op = "revoke" /\ revs[i].sid \in noted /\ revs[i].op \notin AccountOp
         /\ \A s \in noted : \E i \in 1 .. Len(revs) : revs[i].sid = s
  <1> DEFINE c == Cardinality(noted)
  <1>1. IsFiniteSet(noted) /\ c \in Nat
    <2>1. IsFiniteSet(Sids)
      BY LimitsAssumption, FS_Interval DEF Sids
    <2> QED BY <2>1, FS_Subset, FS_CardinalityType
  <1>2. /\ revs \in [1 .. c -> [op : {"revoke"}, sid : noted]]
        /\ \A i, j \in 1 .. c : i < j => revs[i].sid < revs[j].sid
    BY DEF RevokeOps
  <1> HIDE DEF c
  <1>3. revs \in Seq(Ops) /\ Len(revs) = c
    <2>1. [op : {"revoke"}, sid : noted] \subseteq Ops
      BY DEF Ops
    <2> QED BY <1>1, <1>2, <2>1
  <1> DEFINE g == [i \in 1 .. c |-> revs[i].sid]
  <1>4. g \in Injection(1 .. c, noted)
    <2>1. g \in [1 .. c -> noted]
      BY <1>2
    <2>2. ASSUME NEW i \in 1 .. c, NEW j \in 1 .. c, g[i] = g[j] PROVE i = j
      <3>1. g[i] \in Int /\ g[j] \in Int
        <4>1. g[i] \in Sids /\ g[j] \in Sids
          BY <2>1
        <4> QED BY <4>1, LimitsAssumption DEF Sids
      <3>2. CASE i < j
        BY <1>2, <2>2, <3>1, <3>2
      <3>3. CASE j < i
        BY <1>2, <2>2, <3>1, <3>3
      <3> QED BY <3>2, <3>3
    <2> HIDE DEF g
    <2> QED BY <2>1, <2>2 DEF Injection, IsInjective
  <1>5. Cardinality(1 .. c) = Cardinality(noted)
    BY <1>1, FS_Interval DEF c
  <1>6. g \in Surjection(1 .. c, noted)
    <2> HIDE DEF g
    <2> QED BY <1>1, <1>4, <1>5, FS_Injection
  <1>7. \A s \in noted : \E i \in 1 .. c : g[i] = s
    BY <1>6 DEF Surjection
  <1>8. \A s \in noted : \E i \in 1 .. c : revs[i].sid = s
    BY <1>7
  <1> QED BY <1>2, <1>3, <1>8 DEF c, AccountOp

-----------------------------------------------------------------------------
(***************************************************************************)
(* The inductive invariant                                                 *)
(***************************************************************************)

Deletes(op, u) == op.op = "delete" /\ op.user = u
Creates(op, u) == op.op = "create" /\ op.user = u
Opens(op, s) == op.op = "open" /\ op.sid = s
Revokes(op, s) == op.op = "revoke" /\ op.sid = s

\* A name in the table is not deleted and created again by what is queued, nor
\* one that is not there created and deleted: each handler looks at the table.
QueuedInOrder ==
  \A u \in Users, i, j \in DOMAIN queue : i < j =>
    IF users[u] # Absent THEN ~(Deletes(queue[i], u) /\ Creates(queue[j], u))
    ELSE ~(Creates(queue[i], u) /\ Deletes(queue[j], u))

\* The operation leaves an active admin one.
Harmless(op, u) ==
  \/ op.op \in {"open", "revoke"}
  \/ op.user # u
  \/ /\ op.op = "update" /\ "role" \notin DOMAIN op.fields
     /\ "status" \in DOMAIN op.fields => op.fields.status = "active"

\* Some active admin of the table is not touched by what is queued.
Safeguarded ==
  \/ demoted \/ overlapped
  \/ \E u \in ActiveAdmins : \A i \in DOMAIN queue : Harmless(queue[i], u)

Fits(s, account) ==
  account.status = "active" /\ account.password \in opened[s].passwords
Kept(s) == \A i \in DOMAIN queue : ~Revokes(queue[i], s)

\* Once n operations are written the row of the session says that it lives.
InRow(s, n) == rows[s] = "live" \/ \E i \in 1 .. n : Opens(queue[i], s)

\* The accounts of sessions in the cache are those in force, and in the table.
LiveFit ==
  \A s \in Opened : Authentic(s) /\ s \notin raced \cup kept \cup slipped =>
    users[UserOf(s)] # Absent /\ Fits(s, Accounts[UserOf(s)])

\* A start may come after any of the queued operations: the sessions it would
\* load are those of accounts in force at that moment,
RowsFit ==
  \A s \in Opened \ (raced \cup kept \cup slipped \cup expired) : Kept(s) =>
    \A n \in 0 .. Len(queue) :
      InRow(s, n) => Fits(s, Past(users, queue)[n][UserOf(s)])

\* and none that the cache has given up.
RowsLive ==
  \A s \in Opened \ (slipped \cup expired) :
    Kept(s) /\ InRow(s, Len(queue)) => cache[s] = "live"

Unopened ==
  \A s \in Sids \ Opened :
    /\ rows[s] = "none" /\ cache[s] = "none"
    /\ \A i \in DOMAIN queue : ~Opens(queue[i], s) /\ ~Revokes(queue[i], s)

OpenFirst ==
  \A s \in Sids, i, j \in DOMAIN queue :
    Opens(queue[i], s) /\ Revokes(queue[j], s) => i < j

SessionInv == LiveFit /\ RowsFit /\ RowsLive /\ Unopened /\ OpenFirst
AccountInv == QueuedInOrder /\ Safeguarded
IInv == TypeOK /\ AccountInv /\ SessionInv /\ SessionsLimited

-----------------------------------------------------------------------------
(***************************************************************************)
(* Sessions, where some are revoked                                        *)
(***************************************************************************)

LEMMA SessionTypes ==
  ASSUME TypeOK
  PROVE  /\ Len(opened) \in Nat /\ Opened \subseteq Sids
         /\ \A s \in Opened : UserOf(s) \in Users /\ opened[s].passwords \subseteq Passwords
         /\ \A i \in DOMAIN queue : queue[i] \in Ops /\ i \in 1 .. Len(queue)
         /\ queue \in Seq(Ops) /\ Len(queue) \in Nat /\ DOMAIN queue = 1 .. Len(queue)
  <1>1. opened \in Seq([user : Users, passwords : SUBSET Passwords]) /\ Len(opened) <= MaxSid
    BY DEF TypeOK
  <1>2. \A s \in Opened : opened[s] \in [user : Users, passwords : SUBSET Passwords]
    <2> DEFINE R == [user : Users, passwords : SUBSET Passwords]
    <2>1. opened \in Seq(R)
      BY <1>1
    <2> HIDE DEF R
    <2>2. \A s \in Opened : opened[s] \in R
      BY <2>1 DEF Opened
    <2> QED BY <2>2 DEF R
  <1>3. Opened \subseteq Sids
    BY <1>1, LimitsAssumption DEF Opened, Sids
  <1>4. \A s \in Opened : UserOf(s) \in Users /\ opened[s].passwords \subseteq Passwords
    BY <1>2 DEF UserOf
  <1>5. queue \in Seq(Ops)
    BY DEF TypeOK
  <1> QED BY <1>1, <1>3, <1>4, <1>5

\* An operation on an account may be queued, and behind it revocations of sids:
\* all of them but those whose loss is noted.
Queues(sids, ops, more) ==
  /\ \A i \in 1 .. Len(more) :
       more[i].op = "revoke" /\ more[i].sid \in sids /\ more[i].op \notin AccountOp
  /\ \A s \in sids : s \in slipped' \/ \E i \in 1 .. Len(more) : more[i].sid = s
  /\ queue' = queue \o ops \o more
  /\ Len(queue) + Len(ops) + Len(more) <= MaxQueue
  /\ slipped \subseteq slipped' /\ slipped' \subseteq slipped \cup sids

\* Then no more is needed than that the sessions left fit the accounts as
\* they will be.
LEMMA Revoking ==
  ASSUME TypeOK, SessionInv,
         NEW sids \in SUBSET Opened,
         NEW ops \in Seq(Ops), Len(ops) <= 1, \A i \in 1 .. Len(ops) : ops[i].op \in AccountOp,
         NEW more \in Seq(Ops), Queues(sids, ops, more), kept \subseteq kept',
         cache' = Revoked(sids),
         users' = users, rows' = rows, expired' = expired, raced' = raced,
         Len(opened') = Len(opened),
         \A s \in Opened : /\ opened'[s].user = UserOf(s)
                           /\ opened[s].passwords \subseteq opened'[s].passwords,
         \A s \in Opened \ sids :
           Authentic(s) /\ s \notin raced \cup kept' \cup slipped =>
             /\ Changed(ops)[UserOf(s)].status = "active"
             /\ Changed(ops)[UserOf(s)].password \in opened'[s].passwords
  PROVE  SessionInv'
  <1>0. /\ \A i \in 1 .. Len(more) : more[i].op = "revoke" /\ more[i].sid \in sids
        /\ \A s \in sids : s \in slipped' \/ \E i \in 1 .. Len(more) : more[i].sid = s
        /\ slipped \subseteq slipped'
    BY DEF Queues
  <1>1. /\ Len(queue) \in Nat /\ Opened \subseteq Sids
        /\ \A s \in Opened : UserOf(s) \in Users
        /\ DOMAIN queue = 1 .. Len(queue)
    BY SessionTypes
  <1>2. /\ queue' \in Seq(Ops) /\ Len(queue') = Len(queue) + Len(ops) + Len(more)
        /\ Len(ops) \in Nat /\ Len(more) \in Nat
        /\ \A i \in 1 .. Len(queue) : queue'[i] = queue[i]
        /\ \A i \in 1 .. Len(ops) : queue'[Len(queue) + i] = ops[i]
        /\ \A i \in 1 .. Len(more) : queue'[Len(queue) + Len(ops) + i] = more[i]
        /\ \A n \in 0 .. Len(queue) : Past(users', queue')[n] = Past(users, queue)[n]
        /\ \A n \in Len(queue) + 1 .. Len(queue') : Past(users', queue')[n] = Changed(ops)
        /\ Accounts' = Changed(ops)
    <2>1. /\ \A i \in 1 .. Len(more) : more[i].op \notin AccountOp
          /\ queue' = queue \o ops \o more
      BY DEF Queues
    <2> QED BY <2>1, Appended
  <1>3. Opened' = Opened /\ DOMAIN queue' = 1 .. Len(queue')
    BY <1>2 DEF Opened
  <1>4. \A i \in Len(queue) + 1 .. Len(queue') :
          \/ queue'[i].op \in AccountOp
          \/ queue'[i].op = "revoke" /\ queue'[i].sid \in sids
    <2> SUFFICES ASSUME NEW i \in Len(queue) + 1 .. Len(queue')
                 PROVE  \/ queue'[i].op \in AccountOp
                        \/ queue'[i].op = "revoke" /\ queue'[i].sid \in sids
      OBVIOUS
    <2>1. CASE i <= Len(queue) + Len(ops)
      <3>1. i - Len(queue) \in 1 .. Len(ops) /\ i = Len(queue) + (i - Len(queue))
        BY <1>1, <1>2, <2>1
      <3> QED BY <1>2, <3>1
    <2>2. CASE i > Len(queue) + Len(ops)
      <3> DEFINE k == i - (Len(queue) + Len(ops))
      <3>1. k \in 1 .. Len(more) /\ i = Len(queue) + Len(ops) + k
        BY <1>1, <1>2, <2>2
      <3> HIDE DEF k
      <3>2. queue'[i] = more[k]
        BY <1>2, <3>1
      <3>3. more[k].op = "revoke" /\ more[k].sid \in sids
        BY <1>0, <3>1
      <3> QED BY <3>2, <3>3
    <2> QED BY <1>1, <1>2, <2>1, <2>2
  <1>5. \A s \in Sids, i \in 1 .. Len(queue') : Opens(queue'[i], s) =>
          i \in 1 .. Len(queue) /\ Opens(queue[i], s)
    <2> SUFFICES ASSUME NEW s \in Sids, NEW i \in 1 .. Len(queue'), Opens(queue'[i], s)
                 PROVE  i \in 1 .. Len(queue) /\ Opens(queue[i], s)
      OBVIOUS
    <2>1. queue'[i].op = "open"
      BY DEF Opens
    <2>2. i \notin Len(queue) + 1 .. Len(queue')
      BY <1>4, <2>1 DEF AccountOp
    <2>3. i \in 1 .. Len(queue)
      BY <1>1, <1>2, <2>2
    <2> QED BY <1>2, <2>3
  <1>6. ASSUME NEW s \in Opened, s \notin slipped', Kept(s)'
        PROVE  s \notin sids /\ Kept(s)
    <2>1. Kept(s)
      <3> SUFFICES ASSUME NEW i \in 1 .. Len(queue) PROVE ~Revokes(queue[i], s)
        BY <1>1 DEF Kept
      <3>1. i \in 1 .. Len(queue') /\ queue'[i] = queue[i]
        BY <1>1, <1>2
      <3> QED BY <1>3, <1>6, <3>1 DEF Kept, Revokes
    <2>2. s \notin sids
      <3> SUFFICES ASSUME s \in sids PROVE FALSE
        OBVIOUS
      <3>1. PICK i \in 1 .. Len(more) : more[i].sid = s
        BY <1>6, <1>0
      <3>2. Len(queue) + Len(ops) + i \in 1 .. Len(queue')
            /\ queue'[Len(queue) + Len(ops) + i] = more[i]
        BY <1>1, <1>2
      <3>3. more[i].op = "revoke"
        BY <1>0
      <3> QED BY <1>3, <1>6, <3>1, <3>2, <3>3 DEF Kept, Revokes
    <2> QED BY <2>1, <2>2
  <1>7. ASSUME NEW s \in Opened, NEW n \in 0 .. Len(queue'), InRow(s, n)'
        PROVE  /\ n <= Len(queue) => InRow(s, n)
               /\ InRow(s, Len(queue))
    <2>1. CASE rows[s] = "live"
      BY <2>1 DEF InRow
    <2>2. CASE rows[s] # "live"
      <3>1. PICK i \in 1 .. n : Opens(queue'[i], s)
        BY <1>7, <2>2 DEF InRow
      <3>2. i \in 1 .. Len(queue') /\ s \in Sids
        BY <1>1, <1>2
      <3>3. i \in 1 .. Len(queue) /\ Opens(queue[i], s)
        BY <1>5, <3>1, <3>2
      <3> QED BY <3>1, <3>3 DEF InRow
    <2> QED BY <2>1, <2>2
  <1>8. \A s \in Opened : cache'[s] = IF s \in sids THEN "revoked" ELSE cache[s]
    BY <1>1 DEF Revoked
  <1>9. ASSUME NEW s \in Opened PROVE UserOf(s)' = UserOf(s)
    BY <1>9 DEF UserOf
  <1>10. LiveFit'
    <2> SUFFICES ASSUME NEW s \in Opened', Authentic(s)', s \notin (raced \cup kept \cup slipped)'
                 PROVE  /\ users'[UserOf(s)'] # Absent
                        /\ Accounts'[UserOf(s)'].status = "active"
                        /\ Accounts'[UserOf(s)'].password \in opened'[s].passwords
      BY DEF LiveFit, Fits
    <2>1. s \in Opened \ sids /\ Authentic(s)
      BY <1>3, <1>8, <1>0 DEF Authentic
    <2>2. users[UserOf(s)] # Absent
      BY <1>0, <2>1 DEF SessionInv, LiveFit
    <2> QED BY <1>2, <1>9, <1>0, <2>1, <2>2
  <1>11. RowsFit'
    <2> SUFFICES ASSUME NEW s \in Opened', s \notin (raced \cup kept \cup slipped \cup expired)',
                        Kept(s)', NEW n \in 0 .. Len(queue'), InRow(s, n)'
                 PROVE  /\ Past(users', queue')[n][UserOf(s)'].status = "active"
                        /\ Past(users', queue')[n][UserOf(s)'].password \in opened'[s].passwords
      BY DEF RowsFit, Fits
    <2>1. s \in Opened \ sids /\ Kept(s)
      BY <1>3, <1>6, <1>0
    <2>2. CASE n <= Len(queue)
      <3>1. n \in 0 .. Len(queue) /\ InRow(s, n)
        BY <1>1, <1>7, <2>1, <2>2
      <3>2. Fits(s, Past(users, queue)[n][UserOf(s)])
        BY <1>0, <2>1, <3>1 DEF SessionInv, RowsFit
      <3>3. Past(users', queue')[n] = Past(users, queue)[n]
        BY <1>2, <3>1
      <3> QED BY <1>9, <2>1, <3>2, <3>3 DEF Fits
    <2>3. CASE n > Len(queue)
      <3>1. InRow(s, Len(queue))
        BY <1>7, <2>1
      <3>2. Authentic(s)
        BY <1>0, <2>1, <3>1 DEF SessionInv, RowsLive, Authentic
      <3>3. n \in Len(queue) + 1 .. Len(queue')
        BY <1>1, <1>2, <2>3
      <3>4. Past(users', queue')[n] = Changed(ops)
        BY <1>2, <3>3
      <3> QED BY <1>9, <1>0, <2>1, <3>2, <3>4
    <2> QED BY <1>1, <1>2, <2>2, <2>3
  <1>12. RowsLive'
    <2> SUFFICES ASSUME NEW s \in Opened', s \notin (slipped \cup expired)',
                        Kept(s)', InRow(s, Len(queue))'
                 PROVE  cache'[s] = "live"
      BY DEF RowsLive
    <2>1. s \in Opened \ sids /\ Kept(s)
      BY <1>3, <1>6, <1>0
    <2>2. Len(queue') \in 0 .. Len(queue')
      BY <1>1, <1>2
    <2>3. InRow(s, Len(queue))
      BY <1>7, <2>1, <2>2 DEF InRow
    <2> QED BY <1>8, <1>0, <2>1, <2>3 DEF SessionInv, RowsLive
  <1>13. Unopened'
    <2> SUFFICES ASSUME NEW s \in Sids \ Opened, NEW i \in 1 .. Len(queue')
                 PROVE  /\ rows[s] = "none" /\ cache'[s] = "none"
                        /\ ~Opens(queue'[i], s) /\ ~Revokes(queue'[i], s)
      <3>1. \A s \in Sids \ Opened : rows'[s] = "none" /\ cache'[s] = "none"
        BY DEF SessionInv, Unopened, Revoked
      <3> QED BY <1>3, <3>1 DEF Unopened
    <2>1. rows[s] = "none" /\ cache'[s] = "none"
      BY DEF SessionInv, Unopened, Revoked
    <2>2. CASE i \in 1 .. Len(queue)
      <3>1. ~Opens(queue[i], s) /\ ~Revokes(queue[i], s)
        BY <1>1, <2>2 DEF SessionInv, Unopened
      <3> QED BY <1>2, <2>1, <2>2, <3>1
    <2>3. CASE i \in Len(queue) + 1 .. Len(queue')
      BY <1>4, <2>1, <2>3 DEF Opens, Revokes, AccountOp
    <2> QED BY <1>1, <1>2, <2>2, <2>3
  <1>14. OpenFirst'
    <2> SUFFICES ASSUME NEW s \in Sids, NEW i \in 1 .. Len(queue'), NEW j \in 1 .. Len(queue'),
                        Opens(queue'[i], s), Revokes(queue'[j], s)
                 PROVE  i < j
      BY <1>3 DEF OpenFirst
    <2>1. i \in 1 .. Len(queue) /\ Opens(queue[i], s)
      BY <1>5
    <2>2. CASE j \in 1 .. Len(queue)
      <3>1. Revokes(queue[j], s)
        BY <1>2, <2>2
      <3> QED BY <1>1, <2>1, <2>2, <3>1 DEF SessionInv, OpenFirst
    <2>3. CASE j \notin 1 .. Len(queue)
      BY <1>1, <2>1, <2>3
    <2> QED BY <2>2, <2>3
  <1> QED BY <1>10, <1>11, <1>12, <1>13, <1>14 DEF SessionInv

-----------------------------------------------------------------------------
(***************************************************************************)
(* Sessions, over the other steps                                          *)
(***************************************************************************)

\* A name that is gone stays away until it is created.
LEMMA StaysAway ==
  ASSUME NEW t \in Tables, NEW q \in Seq(Ops), NEW u \in Users, NEW k \in 0 .. Len(q),
         Past(t, q)[k][u] = Absent,
         \A n \in k + 1 .. Len(q) : ~Creates(q[n], u)
  PROVE  \A n \in k .. Len(q) : Past(t, q)[n][u] = Absent
  <1> DEFINE p == Past(t, q)
             H == {n \in 0 .. Len(q) : n < k \/ p[n][u] = Absent}
  <1>1. p \in [0 .. Len(q) -> Tables]
        /\ \A n \in 1 .. Len(q) : p[n] = UserWritten(p[n - 1], q[n])
    BY PastIs
  <1>2. p[k][u] = Absent
    OBVIOUS
  <1> HIDE DEF p
  <1>3. 0 \in H
    BY <1>2
  <1>4. ASSUME NEW n \in 1 .. Len(q), n - 1 \in H PROVE n \in H
    <2>1. n \in 0 .. Len(q) /\ n - 1 \in 0 .. Len(q) /\ q[n] \in Ops /\ k \in Nat
      OBVIOUS
    <2>2. CASE n < k \/ n = k
      BY <1>2, <2>1, <2>2
    <2>3. CASE n > k
      <3>1. p[n - 1][u] = Absent /\ ~Creates(q[n], u)
        BY <1>4, <2>1, <2>3
      <3>2. p[n - 1] \in Tables /\ p[n] = UserWritten(p[n - 1], q[n])
        BY <1>1, <2>1
      <3>3. p[n][u] = Absent
        BY <2>1, <3>1, <3>2, UserWrittenIs DEF Creates
      <3> QED BY <2>1, <3>3
    <2> QED BY <2>1, <2>2, <2>3
  <1> HIDE DEF H
  <1>5. \A n \in 0 .. Len(q) : n \in H
    <2>1. \A n \in 1 .. Len(q) : n - 1 \in H => n \in H
      BY <1>4
    <2>2. Len(q) \in Nat
      OBVIOUS
    <2> QED BY <1>3, <2>1, <2>2, UpTo
  <1> QED BY <1>5 DEF H, p

LEMMA SessionWrittenIs ==
  ASSUME NEW op \in Ops, NEW s \in Sids, NEW table \in [Sids -> {"none", "live", "revoked"}]
  PROVE  SessionWritten(table, op)[s] =
           IF Opens(op, s) THEN "live"
           ELSE IF Revokes(op, s) /\ table[s] # "none" THEN "revoked" ELSE table[s]
  <1>1. op.op \in {"open", "revoke"} => op.sid \in Sids
    BY OpKinds
  <1>2. CASE op.op = "open"
    BY <1>1, <1>2 DEF SessionWritten, Opens, Revokes
  <1>3. CASE op.op = "revoke"
    <2>1. CASE table[op.sid] = "none"
      <3>1. SessionWritten(table, op) = table
        BY <1>3, <2>1 DEF SessionWritten
      <3> QED BY <1>3, <2>1, <3>1 DEF Opens, Revokes
    <2>2. CASE table[op.sid] # "none"
      <3>1. SessionWritten(table, op) = [table EXCEPT ![op.sid] = "revoked"]
        BY <1>3, <2>2 DEF SessionWritten
      <3> QED BY <1>1, <1>3, <2>2, <3>1 DEF Opens, Revokes
    <2> QED BY <2>1, <2>2
  <1>4. CASE op.op \notin {"open", "revoke"}
    BY <1>4 DEF SessionWritten, Opens, Revokes
  <1> QED BY <1>2, <1>3, <1>4

\* The queue after a write, and what the history of the accounts then is.
LEMMA Shifted ==
  ASSUME TypeOK, Write
  PROVE  /\ Len(queue) \in Nat \ {0} /\ 1 \in 1 .. Len(queue) /\ queue[1] \in Ops
         /\ queue' \in Seq(Ops) /\ Len(queue') = Len(queue) - 1
         /\ users' = UserWritten(users, queue[1]) /\ rows' = SessionWritten(rows, queue[1])
         /\ DOMAIN queue' = 1 .. Len(queue')
         /\ \A i \in 1 .. Len(queue') : queue'[i] = queue[i + 1] /\ i + 1 \in 1 .. Len(queue)
         /\ \A n \in 0 .. Len(queue') :
              Past(users', queue')[n] = Past(users, queue)[n + 1] /\ n + 1 \in 0 .. Len(queue)
         /\ Accounts' = Accounts
         /\ UNCHANGED <<cache, sessionVars, patch, slipped, accountVars>>
  <1>1. queue \in Seq(Ops) /\ queue # <<>> /\ users \in Tables
    BY AccountsTyped DEF Write
  <1>2. /\ Len(queue) \in Nat \ {0} /\ 1 \in 1 .. Len(queue)
        /\ Head(queue) \in Ops /\ Head(queue) = queue[1]
        /\ Tail(queue) \in Seq(Ops) /\ Len(Tail(queue)) = Len(queue) - 1
        /\ \A i \in 1 .. Len(queue) - 1 : Tail(queue)[i] = queue[i + 1]
    BY <1>1
  <1>3. /\ queue' = Tail(queue) /\ users' = UserWritten(users, queue[1])
        /\ rows' = SessionWritten(rows, queue[1])
        /\ UNCHANGED <<cache, sessionVars, patch, slipped, accountVars>>
    BY <1>2 DEF Write
  <1>4. \A n \in 0 .. Len(queue) - 1 : Past(users', queue')[n] = Past(users, queue)[n + 1]
    BY <1>1, <1>2, <1>3, PastTail
  <1>5. Accounts' = Accounts
    <2>1. Accounts' = Past(users', queue')[Len(queue')]
      BY DEF Accounts, Past
    <2>2. Len(queue') \in 0 .. Len(queue) - 1 /\ Len(queue') + 1 = Len(queue)
      BY <1>2, <1>3
    <2> QED BY <1>4, <2>1, <2>2, AccountsLast
  <1>6. /\ \A i \in 1 .. Len(queue') : queue'[i] = queue[i + 1] /\ i + 1 \in 1 .. Len(queue)
        /\ \A n \in 0 .. Len(queue') : n \in 0 .. Len(queue) - 1 /\ n + 1 \in 0 .. Len(queue)
    BY <1>2, <1>3
  <1>7. DOMAIN queue' = 1 .. Len(queue')
    BY <1>2, <1>3
  <1> QED BY <1>2, <1>3, <1>4, <1>5, <1>6, <1>7

LEMMA WriteKeepsSessions ==
  ASSUME TypeOK, QueuedInOrder, SessionInv, Write
  PROVE  SessionInv'
  <1> DEFINE op == queue[1]
  <1>1. /\ Len(queue) \in Nat /\ Opened \subseteq Sids
        /\ \A s \in Opened : UserOf(s) \in Users
        /\ DOMAIN queue = 1 .. Len(queue)
    BY SessionTypes
  <1>2. /\ Len(queue) \in Nat \ {0} /\ 1 \in 1 .. Len(queue) /\ op \in Ops
        /\ queue' \in Seq(Ops) /\ Len(queue') = Len(queue) - 1
        /\ users' = UserWritten(users, op) /\ rows' = SessionWritten(rows, op)
        /\ DOMAIN queue' = 1 .. Len(queue')
        /\ \A i \in 1 .. Len(queue') : queue'[i] = queue[i + 1] /\ i + 1 \in 1 .. Len(queue)
        /\ \A n \in 0 .. Len(queue') :
             Past(users', queue')[n] = Past(users, queue)[n + 1] /\ n + 1 \in 0 .. Len(queue)
        /\ Accounts' = Accounts
        /\ UNCHANGED <<cache, sessionVars, patch, slipped, accountVars>>
    BY Shifted
  <1>3. /\ Opened' = Opened /\ \A s \in Opened : UserOf(s)' = UserOf(s) /\ Authentic(s)' = Authentic(s)
    BY <1>2 DEF Opened, UserOf, Authentic, sessionVars
  <1>4. \A s \in Sids : rows'[s] = IF Opens(op, s) THEN "live"
                        ELSE IF Revokes(op, s) /\ rows[s] # "none" THEN "revoked" ELSE rows[s]
    <2>1. rows \in [Sids -> {"none", "live", "revoked"}]
      BY DEF TypeOK
    <2> HIDE DEF op
    <2> QED BY <1>2, <2>1, SessionWrittenIs
  <1>5. op = queue[1]
    OBVIOUS
  <1> HIDE DEF op
  <1>12. ASSUME NEW s \in Opened, Kept(s)', ~Revokes(queue[1], s) PROVE Kept(s)
    <2> SUFFICES ASSUME NEW i \in 1 .. Len(queue) PROVE ~Revokes(queue[i], s)
      BY <1>1 DEF Kept
    <2>1. CASE i = 1
      BY <1>12, <2>1
    <2>2. CASE i # 1
      <3>1. i - 1 \in 1 .. Len(queue') /\ i - 1 + 1 = i
        BY <1>2, <2>2
      <3>2. ~Revokes(queue'[i - 1], s)
        BY <1>2, <1>12, <3>1 DEF Kept
      <3> QED BY <1>2, <3>1, <3>2
    <2> QED BY <2>1, <2>2
  <1>6. ASSUME NEW s \in Opened, Kept(s)', NEW n \in 0 .. Len(queue'),
               rows'[s] = "live" \/ \E i \in 1 .. n : Opens(queue'[i], s)
        PROVE  Kept(s) /\ InRow(s, n + 1)
    <2>1. s \in Sids
      BY <1>1
    <2>2. \A i \in 1 .. n : i \in 1 .. Len(queue') /\ i + 1 \in 1 .. n + 1
      BY <1>2
    <2>3. CASE \E i \in 1 .. n : Opens(queue'[i], s)
      <3>1. PICK i \in 1 .. n : Opens(queue'[i], s)
        BY <2>3
      <3>2. i + 1 \in 1 .. n + 1 /\ Opens(queue[i + 1], s) /\ i + 1 \in 1 .. Len(queue) /\ i \in Nat
        BY <1>2, <2>2, <3>1
      <3>3. ~Revokes(queue[1], s)
        <4>1. ~(i + 1 < 1)
          BY <3>2
        <4> QED BY <1>1, <1>2, <2>1, <3>2, <4>1 DEF SessionInv, OpenFirst
      <3> QED BY <1>6, <1>12, <3>2, <3>3 DEF InRow
    <2>4. CASE ~\E i \in 1 .. n : Opens(queue'[i], s)
      <3>1. rows'[s] = "live"
        BY <1>6, <2>4
      <3>2. CASE Opens(op, s)
        <4>1. ~Revokes(queue[1], s)
          BY <1>5, <3>2 DEF Opens, Revokes
        <4>2. 1 \in 1 .. n + 1
          BY <1>2
        <4> QED BY <1>5, <1>6, <1>12, <3>2, <4>1, <4>2 DEF InRow
      <3>3. CASE ~Opens(op, s)
        <4>1. ~Revokes(queue[1], s) /\ rows[s] = "live"
          BY <1>4, <1>5, <2>1, <3>1, <3>3
        <4> QED BY <1>6, <1>12, <4>1 DEF InRow
      <3> QED BY <3>2, <3>3
    <2> QED BY <2>3, <2>4
  <1>7. LiveFit'
    <2> SUFFICES ASSUME NEW s \in Opened, Authentic(s), s \notin raced \cup kept \cup slipped
                 PROVE  /\ users'[UserOf(s)] # Absent
                        /\ Accounts[UserOf(s)].status = "active"
                        /\ Accounts[UserOf(s)].password \in opened[s].passwords
      BY <1>2, <1>3 DEF LiveFit, Fits, sessionVars
    <2> DEFINE u == UserOf(s)
    <2>1. users[u] # Absent /\ Fits(s, Accounts[u])
      BY DEF SessionInv, LiveFit
    <2>2. users'[u] # Absent
      <3> SUFFICES ASSUME users'[u] = Absent PROVE FALSE
        OBVIOUS
      <3>1. u \in Users /\ users \in Tables /\ queue \in Seq(Ops)
        BY <1>1, AccountsTyped
      <3>2. Deletes(op, u)
        <4>1. users'[u] = UserWritten(users, op)[u]
          BY <1>2
        <4>2. users[u] \in Account
          BY <2>1, <3>1 DEF Tables, Accts
        <4>3. /\ op.op = "update" => op.fields \in Bodies
              /\ op.op = "create" => op.account \in Account
              /\ op.op \in {"open", "revoke", "create", "update", "delete"}
          BY <1>2, OpKinds
        <4>4. op.op = "update" => Merged(users[u], op.fields) # Absent
          BY <4>2, <4>3, MergedAccount, AccountFields
        <4>5. op.op = "create" => op.account # Absent
          BY <4>3, AccountFields
        <4> HIDE DEF u
        <4> QED BY <1>2, <2>1, <3>1, <4>1, <4>3, <4>4, <4>5, UserWrittenIs
               DEF Deletes, AccountOp
      <3>3. \A n \in 2 .. Len(queue) : ~Creates(queue[n], u)
        <4> SUFFICES ASSUME NEW n \in 2 .. Len(queue) PROVE ~Creates(queue[n], u)
          OBVIOUS
        <4>1. n \in 1 .. Len(queue) /\ 1 < n
          BY <1>1
        <4> QED BY <1>1, <1>2, <1>5, <2>1, <3>1, <3>2, <4>1 DEF QueuedInOrder
      <3>4. Past(users, queue)[1][u] = Absent
        <4>1. Past(users', queue')[0] = users'
          <5>1. users' \in Tables
            BY <1>2, <3>1, UserWrittenIs
          <5> QED BY <1>2, <5>1, PastIs
        <4>2. 0 \in 0 .. Len(queue') /\ 0 + 1 = 1
          BY <1>2
        <4>3. Past(users', queue')[0] = Past(users, queue)[1]
          BY <1>2, <4>2
        <4> QED BY <4>1, <4>3
      <3>5. Accounts[u] = Absent
        <4>1. 1 \in 0 .. Len(queue) /\ Len(queue) \in 1 .. Len(queue) /\ 1 + 1 = 2
          BY <1>2
        <4> HIDE DEF u
        <4>2. \A n \in 1 .. Len(queue) : Past(users, queue)[n][u] = Absent
          BY <3>1, <3>3, <3>4, <4>1, StaysAway
        <4> QED BY <4>1, <4>2, AccountsLast
      <3> QED BY <2>1, <3>5 DEF Fits, Absent
    <2> QED BY <2>1, <2>2 DEF Fits
  <1>8. RowsFit'
    <2> SUFFICES ASSUME NEW s \in Opened, s \notin raced \cup kept \cup slipped \cup expired,
                        Kept(s)', NEW n \in 0 .. Len(queue'),
                        rows'[s] = "live" \/ \E i \in 1 .. n : Opens(queue'[i], s)
                 PROVE  /\ Past(users', queue')[n][UserOf(s)].status = "active"
                        /\ Past(users', queue')[n][UserOf(s)].password \in opened[s].passwords
      <3>1. /\ opened' = opened
            /\ (raced \cup kept \cup slipped \cup expired)' = raced \cup kept \cup slipped \cup expired
        BY <1>2 DEF sessionVars
      <3>2. \A s \in Opened', n \in 0 .. Len(queue)' :
              InRow(s, n)' <=> rows'[s] = "live" \/ \E i \in 1 .. n : Opens(queue'[i], s)
        BY DEF InRow
      <3> QED BY <1>3, <3>1, <3>2 DEF RowsFit, Fits
    <2>1. Kept(s) /\ InRow(s, n + 1)
      BY <1>6
    <2>2. Past(users', queue')[n] = Past(users, queue)[n + 1] /\ n + 1 \in 0 .. Len(queue)
      BY <1>2
    <2> QED BY <2>1, <2>2 DEF SessionInv, RowsFit, Fits
  <1>9. RowsLive'
    <2> SUFFICES ASSUME NEW s \in Opened, s \notin slipped \cup expired,
                        Kept(s)', InRow(s, Len(queue))'
                 PROVE  cache[s] = "live"
      BY <1>2, <1>3 DEF RowsLive, sessionVars
    <2>1. Len(queue') \in 0 .. Len(queue') /\ Len(queue') + 1 = Len(queue)
      BY <1>2
    <2>2. rows'[s] = "live" \/ \E i \in 1 .. Len(queue') : Opens(queue'[i], s)
      BY DEF InRow
    <2>3. Kept(s) /\ InRow(s, Len(queue') + 1)
      BY <1>6, <2>1, <2>2
    <2>4. InRow(s, Len(queue))
      BY <2>1, <2>3
    <2> QED BY <2>3, <2>4 DEF SessionInv, RowsLive
  <1>10. Unopened'
    <2> SUFFICES ASSUME NEW s \in Sids \ Opened
                 PROVE  /\ rows'[s] = "none" /\ cache[s] = "none"
                        /\ \A i \in 1 .. Len(queue') : ~Opens(queue'[i], s) /\ ~Revokes(queue'[i], s)
      BY <1>2, <1>3 DEF Unopened
    <2>1. /\ rows[s] = "none" /\ cache[s] = "none"
          /\ \A i \in 1 .. Len(queue) : ~Opens(queue[i], s) /\ ~Revokes(queue[i], s)
      BY <1>1 DEF SessionInv, Unopened
    <2>2. rows'[s] = "none"
      BY <1>2, <1>4, <1>5, <2>1
    <2> QED BY <1>2, <2>1, <2>2
  <1>11. OpenFirst'
    <2> SUFFICES ASSUME NEW s \in Sids, NEW i \in 1 .. Len(queue'), NEW j \in 1 .. Len(queue'),
                        Opens(queue'[i], s), Revokes(queue'[j], s)
                 PROVE  i < j
      BY <1>2 DEF OpenFirst
    <2>1. /\ i + 1 \in 1 .. Len(queue) /\ j + 1 \in 1 .. Len(queue)
          /\ Opens(queue[i + 1], s) /\ Revokes(queue[j + 1], s)
      BY <1>2
    <2>2. i + 1 < j + 1
      BY <1>1, <2>1 DEF SessionInv, OpenFirst
    <2>3. i \in Int /\ j \in Int
      OBVIOUS
    <2> QED BY <2>2, <2>3
  <1> QED BY <1>7, <1>8, <1>9, <1>10, <1>11 DEF SessionInv

\* A table with an active account is not empty.
LEMMA StartKeepsAccounts ==
  ASSUME NEW u \in Users, users[u].status = "active"
  PROVE  Bootstrapped(users) = users
  <1>1. users[u] # Absent
    BY DEF Absent
  <1> QED BY <1>1 DEF Bootstrapped

LEMMA RestartTypes ==
  ASSUME TypeOK, Restart
  PROVE  /\ users' \in Tables /\ queue' \in Seq(Ops) /\ Len(queue') = 0 /\ DOMAIN queue' = {}
         /\ Past(users', queue')[0] = users' /\ Accounts' = users'
  <1>1. users \in Tables
    BY AccountsTyped
  <1>2. Bootstrapped(users) \in Tables
    <2>1. FirstAdmin \in Account
      BY UsersAssumption DEF FirstAdmin, Account, Statuses
    <2> QED BY <1>1, <2>1, UsersAssumption DEF Bootstrapped, Tables, Accts
  <1>3. users' \in Tables /\ queue' = <<>>
    BY <1>2 DEF Restart
  <1>4. queue' \in Seq(Ops) /\ Len(queue') = 0 /\ DOMAIN queue' = {}
    BY <1>3
  <1>5. Past(users', queue')[0] = users'
    BY <1>3, <1>4, PastIs
  <1>6. Accounts' = Past(users', queue')[Len(queue')]
    BY DEF Accounts, Past
  <1> QED BY <1>3, <1>4, <1>5, <1>6

LEMMA RestartKeepsSessions ==
  ASSUME TypeOK, SessionInv, Restart
  PROVE  SessionInv'
  <1>1. /\ queue' \in Seq(Ops) /\ Len(queue') = 0 /\ DOMAIN queue' = {}
        /\ Past(users', queue')[0] = users' /\ Accounts' = users'
    BY RestartTypes
  <1>2. /\ cache' \in {Loaded, [s \in Sids |-> "none"]}
        /\ users' = Bootstrapped(users)
        /\ slipped' = slipped \cup Unwritten \cup {s \in Sids : cache'[s] # Loaded[s]}
        /\ rows' = rows /\ opened' = opened /\ expired' = expired /\ raced' = raced /\ kept' = kept
    BY DEF Restart, sessionVars
  <1>3. Opened' = Opened /\ \A s \in Opened : UserOf(s)' = UserOf(s)
    BY <1>2 DEF Opened, UserOf
  <1>4. /\ Len(queue) \in Nat /\ Opened \subseteq Sids
        /\ \A s \in Opened : UserOf(s) \in Users
        /\ DOMAIN queue = 1 .. Len(queue)
    BY SessionTypes
  <1>5. ASSUME NEW s \in Sids, s \notin slipped' PROVE s \notin slipped /\ Kept(s) /\ cache'[s] = Loaded[s]
    <2>1. s \notin Unwritten
      BY <1>2, <1>5
    <2> QED BY <1>2, <1>5, <2>1 DEF Unwritten, Kept, Revokes
  <1>6. ASSUME NEW s \in Opened, rows[s] = "live", s \notin expired \cup raced \cup kept \cup slipped'
        PROVE  users'[UserOf(s)] # Absent /\ Fits(s, users'[UserOf(s)])
    <2>1. Kept(s) /\ InRow(s, 0)
      BY <1>4, <1>5, <1>6 DEF InRow
    <2>2. 0 \in 0 .. Len(queue)
      BY <1>4
    <2>3. Fits(s, Past(users, queue)[0][UserOf(s)])
      BY <1>4, <1>5, <1>6, <2>1, <2>2 DEF SessionInv, RowsFit
    <2>4. Past(users, queue)[0] = users
      BY AccountsTyped, PastIs
    <2>5. users' = users
      BY <1>2, <1>4, <2>3, <2>4, StartKeepsAccounts DEF Fits
    <2> QED BY <2>3, <2>4, <2>5 DEF Fits, Absent
  <1>7. ASSUME NEW s \in Sids, cache'[s] = "live" PROVE rows[s] = "live" /\ s \notin expired
    BY <1>2, <1>7 DEF Loaded
  <1>8. LiveFit'
    <2> SUFFICES ASSUME NEW s \in Opened, Authentic(s)', s \notin (raced \cup kept \cup slipped)'
                 PROVE  /\ users'[UserOf(s)] # Absent
                        /\ users'[UserOf(s)].status = "active"
                        /\ users'[UserOf(s)].password \in opened[s].passwords
      BY <1>1, <1>2, <1>3 DEF LiveFit, Fits
    <2>1. rows[s] = "live" /\ s \notin expired
      BY <1>4, <1>7 DEF Authentic
    <2> QED BY <1>2, <1>6, <2>1 DEF Fits
  <1>9. \A s \in Opened, n \in 0 .. Len(queue') : InRow(s, n)' => rows[s] = "live" /\ n = 0
    BY <1>1, <1>2 DEF InRow
  <1>10. RowsFit'
    <2> SUFFICES ASSUME NEW s \in Opened, s \notin (raced \cup kept \cup slipped \cup expired)',
                        rows[s] = "live"
                 PROVE  /\ users'[UserOf(s)].status = "active"
                        /\ users'[UserOf(s)].password \in opened[s].passwords
      BY <1>1, <1>2, <1>3, <1>9 DEF RowsFit, Fits
    <2> QED BY <1>2, <1>6 DEF Fits
  <1>11. RowsLive'
    <2> SUFFICES ASSUME NEW s \in Opened, s \notin slipped', s \notin expired, rows[s] = "live"
                 PROVE  cache'[s] = "live"
      <3>1. \A s \in Opened : InRow(s, Len(queue))' => rows[s] = "live"
        BY <1>1, <1>2 DEF InRow
      <3> QED BY <1>2, <1>3, <3>1 DEF RowsLive
    <2>1. s \in Sids /\ cache'[s] = Loaded[s]
      BY <1>4, <1>5
    <2> QED BY <2>1 DEF Loaded
  <1>12. Unopened'
    <2> SUFFICES ASSUME NEW s \in Sids \ Opened PROVE rows[s] = "none" /\ cache'[s] = "none"
      BY <1>1, <1>2, <1>3 DEF Unopened
    <2>1. rows[s] = "none"
      BY DEF SessionInv, Unopened
    <2> QED BY <1>2, <2>1 DEF Loaded
  <1>13. OpenFirst'
    BY <1>1 DEF OpenFirst
  <1> QED BY <1>8, <1>10, <1>11, <1>12, <1>13 DEF SessionInv

LEMMA ExpireKeepsSessions ==
  ASSUME TypeOK, SessionInv, NEW x \in Opened, Expire(x)
  PROVE  SessionInv'
  <1>1. /\ expired' = expired \cup {x}
        /\ raced' = raced \ {x} /\ kept' = kept \ {x} /\ slipped' = slipped \ {x}
        /\ users' = users /\ cache' = cache /\ rows' = rows /\ opened' = opened /\ queue' = queue
    BY DEF Expire
  <1>2. Opened' = Opened /\ Accounts' = Accounts /\ Past(users', queue') = Past(users, queue)
    BY <1>1 DEF Opened, Accounts
  <1>3. \A s \in Opened : UserOf(s)' = UserOf(s) /\ Kept(s)' = Kept(s)
    BY <1>1 DEF UserOf, Kept
  <1>4. \A s \in Opened, n \in 0 .. Len(queue) : InRow(s, n)' = InRow(s, n)
    BY <1>1 DEF InRow
  <1>5. \A s \in Opened : InRow(s, Len(queue))' = InRow(s, Len(queue))
    BY <1>1 DEF InRow
  <1>6. LiveFit'
    <2>1. \A s \in Opened : Authentic(s)' /\ s \notin (raced \cup kept \cup slipped)' =>
            Authentic(s) /\ s \notin raced \cup kept \cup slipped
      BY <1>1 DEF Authentic
    <2> QED BY <1>1, <1>2, <1>3, <2>1 DEF SessionInv, LiveFit, Fits
  <1>7. RowsFit'
    <2>1. (raced \cup kept \cup slipped \cup expired)' = raced \cup kept \cup slipped \cup expired \cup {x}
      BY <1>1
    <2> SUFFICES ASSUME NEW s \in Opened, s \notin raced \cup kept \cup slipped \cup expired \cup {x},
                        Kept(s), NEW n \in 0 .. Len(queue), InRow(s, n)
                 PROVE  /\ Past(users, queue)[n][UserOf(s)].status = "active"
                        /\ Past(users, queue)[n][UserOf(s)].password \in opened[s].passwords
      BY <1>1, <1>2, <1>3, <1>4, <2>1 DEF RowsFit, Fits
    <2> QED BY DEF SessionInv, RowsFit, Fits
  <1>8. RowsLive'
    <2>1. \A s : s \notin (slipped \cup expired)' => s \notin slipped \cup expired
      BY <1>1
    <2> QED BY <1>1, <1>2, <1>3, <1>5, <2>1 DEF SessionInv, RowsLive
  <1>9. Unopened'
    BY <1>1, <1>2 DEF SessionInv, Unopened
  <1>10. OpenFirst'
    BY <1>1 DEF SessionInv, OpenFirst
  <1> QED BY <1>6, <1>7, <1>8, <1>9, <1>10 DEF SessionInv

LEMMA QuietKeepsSessions ==
  ASSUME SessionInv,
         UNCHANGED <<users, cache, rows, sessionVars, queue, slipped>>
  PROVE  SessionInv'
  <1>1. UNCHANGED <<users, cache, rows, opened, expired, raced, kept, queue, slipped>>
    BY DEF sessionVars
  <1>2. LiveFit'
    BY <1>1 DEF SessionInv, LiveFit, Opened, Authentic, UserOf, Fits, Accounts
  <1>3. RowsFit'
    <2>1. Opened' = Opened /\ Past(users', queue') = Past(users, queue)
      BY <1>1 DEF Opened
    <2>2. \A s \in Opened : UserOf(s)' = UserOf(s) /\ Kept(s)' = Kept(s)
      BY <1>1 DEF UserOf, Kept
    <2>3. \A s \in Opened, n \in 0 .. Len(queue) : InRow(s, n)' = InRow(s, n)
      BY <1>1 DEF InRow
    <2> QED BY <1>1, <2>1, <2>2, <2>3 DEF SessionInv, RowsFit, Fits
  <1>4. RowsLive'
    BY <1>1 DEF SessionInv, RowsLive, Opened, Kept, InRow
  <1>5. Unopened'
    BY <1>1 DEF SessionInv, Unopened, Opened
  <1>6. OpenFirst'
    BY <1>1 DEF SessionInv, OpenFirst
  <1> QED BY <1>2, <1>3, <1>4, <1>5, <1>6 DEF SessionInv

\* What Revoke queues behind ops, and that it fits.
LEMMA RevokeQueues ==
  ASSUME TypeOK, NEW sids \in SUBSET Opened, NEW ops \in Seq(Ops), Revoke(sids, ops)
  PROVE  \E more \in Seq(Ops) : Queues(sids, ops, more)
  <1>0. PICK noted \in SUBSET sids : \E revocations \in RevokeOps(noted) :
          /\ Len(queue) + Len(ops) + Cardinality(noted) <= MaxQueue
          /\ queue' = queue \o ops \o revocations
          /\ slipped' = slipped \cup (sids \ noted)
    BY DEF Revoke
  <1>1. PICK revs \in RevokeOps(noted) :
          /\ Len(queue) + Len(ops) + Cardinality(noted) <= MaxQueue
          /\ queue' = queue \o ops \o revs
          /\ slipped' = slipped \cup (sids \ noted)
    BY <1>0
  <1>2. noted \in SUBSET Sids
    BY SessionTypes
  <1>3. /\ revs \in Seq(Ops) /\ Len(revs) = Cardinality(noted)
        /\ \A i \in 1 .. Len(revs) :
             revs[i].op = "revoke" /\ revs[i].sid \in noted /\ revs[i].op \notin AccountOp
        /\ \A s \in noted : \E i \in 1 .. Len(revs) : revs[i].sid = s
    BY <1>2, RevocationsAre
  <1>4. \A s \in sids : s \in slipped' \/ \E i \in 1 .. Len(revs) : revs[i].sid = s
    BY <1>1, <1>3
  <1>5. \A i \in 1 .. Len(revs) : revs[i].sid \in sids
    BY <1>3
  <1>6. Len(queue) + Len(ops) + Len(revs) <= MaxQueue
    BY <1>1, <1>3
  <1>7. slipped \subseteq slipped' /\ slipped' \subseteq slipped \cup sids
    BY <1>1
  <1>8. Queues(sids, ops, revs)
    BY <1>1, <1>3, <1>4, <1>5, <1>6, <1>7 DEF Queues
  <1> QED BY <1>3, <1>8

\* The sessions of an account whose accounts do not change stay as they are.
LEMMA EndKeepsSessions ==
  ASSUME TypeOK, SessionInv, NEW x \in Opened,
         cache' = Revoked({x}), Revoke({x}, <<>>), UNCHANGED <<users, rows, sessionVars>>
  PROVE  SessionInv'
  <1>1. {x} \in SUBSET Opened /\ <<>> \in Seq(Ops) /\ Len(<<>>) = 0
    OBVIOUS
  <1>2. PICK more \in Seq(Ops) : Queues({x}, <<>>, more)
    BY <1>1, RevokeQueues
  <1>3. /\ users' = users /\ rows' = rows /\ opened' = opened /\ expired' = expired
        /\ raced' = raced /\ kept' = kept
    BY DEF sessionVars
  <1>4. \A s \in Opened : opened[s].user = UserOf(s)
    BY DEF UserOf
  <1>5. \A s \in Opened \ {x} : Authentic(s) /\ s \notin raced \cup kept' \cup slipped =>
             /\ Changed(<<>>)[UserOf(s)].status = "active"
             /\ Changed(<<>>)[UserOf(s)].password \in opened'[s].passwords
    BY <1>3 DEF SessionInv, LiveFit, Fits, Changed
  <1>6. Len(<<>>) <= 1 /\ \A i \in 1 .. Len(<<>>) : <<>>[i].op \in AccountOp
    OBVIOUS
  <1> HIDE DEF UserOf
  <1> QED BY <1>1, <1>2, <1>3, <1>4, <1>5, <1>6, Revoking

LEMMA DeleteKeepsSessions ==
  ASSUME TypeOK, SessionInv, NEW x \in Opened, NEW u \in Users, DeleteUser(x, u)
  PROVE  SessionInv'
  <1> DEFINE op == [op |-> "delete", user |-> u]
             ops == <<op>>
  <1>1. op \in Ops /\ op.op \in AccountOp /\ op.op = "delete" /\ op.user = u
    BY DEF Ops, AccountOp
  <1>2. /\ cache' = Revoked(LiveOf(u)) /\ Revoke(LiveOf(u), ops)
        /\ users' = users /\ rows' = rows /\ opened' = opened /\ expired' = expired
        /\ raced' = raced /\ kept' = kept
    BY DEF DeleteUser, sessionVars
  <1> HIDE DEF op
  <1>3. ops \in Seq(Ops) /\ Len(ops) = 1 /\ ops[1] = op /\ ops # <<>>
    BY <1>1
  <1> HIDE DEF ops
  <1>4. LiveOf(u) \in SUBSET Opened
    BY DEF LiveOf
  <1>5. PICK more \in Seq(Ops) : Queues(LiveOf(u), ops, more)
    BY <1>2, <1>3, <1>4, RevokeQueues
  <1>6. \A s \in Opened : opened[s].user = UserOf(s)
    BY DEF UserOf
  <1>7. ASSUME NEW s \in Opened \ LiveOf(u), Authentic(s), s \notin raced \cup kept' \cup slipped
        PROVE  /\ Changed(ops)[UserOf(s)].status = "active"
               /\ Changed(ops)[UserOf(s)].password \in opened'[s].passwords
    <2>1. UserOf(s) # u /\ UserOf(s) \in Users
      BY <1>7, SessionTypes DEF LiveOf
    <2>2. Changed(ops)[UserOf(s)] = Accounts[UserOf(s)]
      BY <1>1, <1>3, <2>1, AccountsTyped, UserWrittenIs DEF Changed
    <2> QED BY <1>2, <1>7, <2>2 DEF SessionInv, LiveFit, Fits
  <1>8. Len(ops) <= 1 /\ \A i \in 1 .. Len(ops) : ops[i].op \in AccountOp
    BY <1>1, <1>3
  <1> QED BY <1>2, <1>3, <1>4, <1>5, <1>6, <1>7, <1>8, Revoking

LEMMA CreateKeepsSessions ==
  ASSUME TypeOK, SessionInv, NEW x \in Opened, NEW u \in Users, NEW role \in Roles,
         NEW password \in Passwords, CreateUser(x, u, role, password)
  PROVE  SessionInv'
  <1> DEFINE account == [role |-> role, status |-> "active", password |-> password]
             op == [op |-> "create", user |-> u, account |-> account]
             ops == <<op>>
             none == <<>>
  <1>1. op \in Ops /\ op.op \in AccountOp /\ op.op = "create" /\ op.user = u
    <2>1. account \in Account
      BY DEF Account, Statuses
    <2> HIDE DEF account
    <2> QED BY <2>1 DEF Ops, AccountOp
  <1>2. /\ queue' = Append(queue, op) /\ users[u] = Absent
        /\ users' = users /\ cache' = cache /\ rows' = rows /\ opened' = opened
        /\ expired' = expired /\ raced' = raced /\ kept' = kept /\ slipped' = slipped
    BY DEF CreateUser, sessionVars
  <1> HIDE DEF op
  <1>3. ops \in Seq(Ops) /\ Len(ops) = 1 /\ ops[1] = op /\ ops # <<>>
    BY <1>1
  <1>4. none \in Seq(Ops) /\ Len(none) = 0
    OBVIOUS
  <1>5. queue' = queue \o ops \o none
    <2>1. queue \in Seq(Ops)
      BY SessionTypes
    <2> QED BY <1>1, <1>2, <2>1
  <1> HIDE DEF ops, none
  <1>6. \A s \in Opened : opened[s].user = UserOf(s)
    BY DEF UserOf
  <1>7. ASSUME NEW s \in Opened, Authentic(s), s \notin raced \cup kept' \cup slipped
        PROVE  /\ Changed(ops)[UserOf(s)].status = "active"
               /\ Changed(ops)[UserOf(s)].password \in opened'[s].passwords
    <2>1. users[UserOf(s)] # Absent /\ Fits(s, Accounts[UserOf(s)]) /\ UserOf(s) \in Users
      BY <1>2, <1>7, SessionTypes DEF SessionInv, LiveFit
    <2>2. Changed(ops)[UserOf(s)] = Accounts[UserOf(s)]
      BY <1>1, <1>2, <1>3, <2>1, AccountsTyped, UserWrittenIs DEF Changed
    <2> QED BY <1>2, <2>1, <2>2 DEF Fits
  <1>8. cache' = Revoked({})
    <2>1. cache \in [Sids -> {"none", "live", "revoked"}]
      BY DEF TypeOK
    <2> QED BY <1>2, <2>1 DEF Revoked
  <1>9. Len(ops) <= 1 /\ \A i \in 1 .. Len(ops) : ops[i].op \in AccountOp
    BY <1>1, <1>3
  <1>10. Queues({}, ops, none)
    <2>1. Len(queue) + Len(ops) + Len(none) <= MaxQueue
      BY <1>3, <1>4, SessionTypes, LimitsAssumption DEF CreateUser, Room
    <2> QED BY <1>2, <1>4, <1>5, <2>1 DEF Queues
  <1>11. {} \in SUBSET Opened
    OBVIOUS
  <1> QED BY <1>2, <1>3, <1>4, <1>5, <1>6, <1>7, <1>8, <1>9, <1>10, <1>11, Revoking

LEMMA UpdateKeepsSessions ==
  ASSUME TypeOK, SessionInv, NEW fields \in Bodies, FinishUpdate(fields)
  PROVE  SessionInv'
  <1> DEFINE u == patch.target
             dying == LiveOf(u) \ Spared(fields)
             op == [op |-> "update", user |-> u, fields |-> fields]
             ops == <<op>>
  <1>1. u \in Users
    <2>1. patch \in Patch
      BY DEF FinishUpdate, TypeOK
    <2> QED BY <2>1 DEF Patch
  <1>2. op \in Ops /\ op.op \in AccountOp /\ op.op = "update" /\ op.user = u /\ op.fields = fields
    <2> HIDE DEF u
    <2> QED BY <1>1 DEF Ops, AccountOp
  <1>3. /\ cache' = Revoked(dying) /\ Revoke(dying, ops)
        /\ users' = users /\ rows' = rows /\ expired' = expired /\ raced' = raced
        /\ opened' = [s \in Opened |->
             IF s \in Spared(fields) /\ "password" \in DOMAIN fields
             THEN [opened[s] EXCEPT !.passwords = @ \cup {fields.password}]
             ELSE opened[s]]
        /\ kept' = IF "status" \in DOMAIN fields /\ fields.status # "active"
                   THEN kept \cup Spared(fields) ELSE kept
    BY DEF FinishUpdate
  <1> HIDE DEF u, op, dying
  <1>4. ops \in Seq(Ops) /\ Len(ops) = 1 /\ ops[1] = op /\ ops # <<>>
    BY <1>2
  <1> HIDE DEF ops
  <1>5. dying \in SUBSET Opened
    BY DEF dying, LiveOf
  <1>6. PICK more \in Seq(Ops) : Queues(dying, ops, more)
    BY <1>3, <1>4, <1>5, RevokeQueues
  <1>7. /\ Len(opened) \in Nat
        /\ \A s \in Opened : opened[s] \in [user : Users, passwords : SUBSET Passwords]
    <2> DEFINE R == [user : Users, passwords : SUBSET Passwords]
    <2>1. opened \in Seq(R)
      BY DEF TypeOK
    <2> HIDE DEF R
    <2>2. Len(opened) \in Nat /\ \A s \in Opened : opened[s] \in R
      BY <2>1 DEF Opened
    <2> QED BY <2>2 DEF R
  <1>8. Len(opened') = Len(opened)
    BY <1>3, <1>7 DEF Opened
  <1>9. ASSUME NEW s \in Opened
        PROVE  /\ opened'[s].user = UserOf(s)
               /\ opened[s].passwords \subseteq opened'[s].passwords
               /\ s \in Spared(fields) /\ "password" \in DOMAIN fields =>
                    fields.password \in opened'[s].passwords
    <2>1. CASE s \in Spared(fields) /\ "password" \in DOMAIN fields
      <3>1. opened'[s] = [opened[s] EXCEPT !.passwords = @ \cup {fields.password}]
        BY <1>3, <2>1
      <3> QED BY <1>7, <2>1, <3>1 DEF UserOf
    <2>2. CASE ~(s \in Spared(fields) /\ "password" \in DOMAIN fields)
      <3>1. opened'[s] = opened[s]
        BY <1>3, <2>2
      <3> QED BY <2>2, <3>1 DEF UserOf
    <2> QED BY <2>1, <2>2
  <1>10. kept \subseteq kept'
    BY <1>3
  <1>11. ASSUME NEW s \in Opened \ dying, Authentic(s), s \notin raced \cup kept' \cup slipped
         PROVE  /\ Changed(ops)[UserOf(s)].status = "active"
                /\ Changed(ops)[UserOf(s)].password \in opened'[s].passwords
    <2>1. UserOf(s) \in Users /\ Fits(s, Accounts[UserOf(s)])
      BY <1>10, <1>11, SessionTypes DEF SessionInv, LiveFit
    <2>2. Changed(ops) = UserWritten(Accounts, op)
      BY <1>4 DEF Changed
    <2>3. CASE UserOf(s) # u
      <3>1. Changed(ops)[UserOf(s)] = Accounts[UserOf(s)]
        BY <1>2, <2>1, <2>2, <2>3, AccountsTyped, UserWrittenIs
      <3> QED BY <1>9, <2>1, <3>1 DEF Fits
    <2>4. CASE UserOf(s) = u
      <3>1. s \in Spared(fields) /\ "password" \in DOMAIN fields
        BY <1>11, <2>4 DEF dying, LiveOf, Spared
      <3>2. ~("status" \in DOMAIN fields /\ fields.status # "active")
        BY <1>3, <1>11, <3>1
      <3> DEFINE a == Accounts[u]
      <3>3. a \in Account
        <4>1. Accounts \in Tables
          BY AccountsTyped
        <4>2. a \in Accts
          BY <1>1, <4>1 DEF Tables
        <4> QED BY <2>1, <2>4, <4>2 DEF Accts, Fits, Absent
      <3>4. Changed(ops)[u] = Merged(a, fields)
        BY <1>1, <1>2, <2>2, <3>3, AccountsTyped, AccountFields, UserWrittenIs DEF AccountOp
      <3> HIDE DEF a
      <3>5. /\ Merged(a, fields).status = IF "status" \in DOMAIN fields THEN fields.status ELSE a.status
            /\ Merged(a, fields).password = fields.password
        BY <3>1, <3>3, MergedAccount
      <3>6. a.status = "active"
        BY <2>1, <2>4 DEF a, Fits
      <3> QED BY <1>9, <2>4, <3>1, <3>2, <3>4, <3>5, <3>6
    <2> QED BY <2>3, <2>4
  <1>12. Len(ops) <= 1 /\ \A i \in 1 .. Len(ops) : ops[i].op \in AccountOp
    BY <1>2, <1>4
  <1>13. \A s \in Opened : /\ opened'[s].user = UserOf(s)
                           /\ opened[s].passwords \subseteq opened'[s].passwords
    BY <1>9
  <1> QED BY <1>3, <1>4, <1>5, <1>6, <1>8, <1>10, <1>11, <1>12, <1>13, Revoking

\* What a login queues: the revocations of the oldest, and the session last.
LoginQueues(u, more) ==
  /\ \A i \in 1 .. Len(more) :
       \/ more[i].op = "revoke" /\ more[i].sid \in Surplus(u)
       \/ more[i].op = "open" /\ more[i].sid = Len(opened) + 1
  /\ \A s \in Surplus(u) :
       s \in slipped' \/ \E i \in 1 .. Len(more) : more[i].op = "revoke" /\ more[i].sid = s
  /\ queue' = queue \o <<>> \o more
  /\ Len(queue) + Len(more) <= MaxQueue
  /\ slipped \subseteq slipped' /\ slipped' \subseteq slipped \cup Surplus(u)

LEMMA LoginQueued ==
  ASSUME TypeOK, NEW u \in Users, Login(u)
  PROVE  \E more \in Seq(Ops) : LoginQueues(u, more)
  <1> DEFINE sid == Len(opened) + 1
             open == [op |-> "open", sid |-> sid]
  <1>0. PICK noted \in SUBSET Surplus(u) : \E revocations \in RevokeOps(noted) :
          /\ Len(queue) + Cardinality(noted) <= MaxQueue
          /\ slipped' = slipped \cup (Surplus(u) \ noted)
          /\ \/ queue' = queue \o revocations
             \/ /\ Len(queue) + Cardinality(noted) < MaxQueue
                /\ queue' = queue \o revocations \o <<open>>
    BY DEF Login
  <1>1. PICK revs \in RevokeOps(noted) :
          /\ Len(queue) + Cardinality(noted) <= MaxQueue
          /\ slipped' = slipped \cup (Surplus(u) \ noted)
          /\ \/ queue' = queue \o revs
             \/ /\ Len(queue) + Cardinality(noted) < MaxQueue
                /\ queue' = queue \o revs \o <<open>>
    BY <1>0
  <1>2. Surplus(u) \subseteq Opened /\ noted \in SUBSET Sids
    BY SessionTypes DEF Surplus, LiveOf
  <1>3. /\ revs \in Seq(Ops) /\ Len(revs) = Cardinality(noted)
        /\ \A i \in 1 .. Len(revs) : revs[i].op = "revoke" /\ revs[i].sid \in noted
        /\ \A s \in noted : \E i \in 1 .. Len(revs) : revs[i].sid = s
    BY <1>2, RevocationsAre
  <1>4. slipped \subseteq slipped' /\ slipped' \subseteq slipped \cup Surplus(u)
    BY <1>1
  <1>5. queue \in Seq(Ops) /\ open \in Ops /\ open.op = "open" /\ open.sid = sid
    <2>1. sid \in Sids
      BY DEF Login
    <2> HIDE DEF sid
    <2> QED BY <2>1, SessionTypes DEF Ops
  <1> HIDE DEF open
  <1>6. CASE queue' = queue \o revs
    <2>1. queue' = queue \o <<>> \o revs
      BY <1>3, <1>5, <1>6
    <2>2. Len(queue) + Len(revs) <= MaxQueue
      BY <1>1, <1>3
    <2>3. \A s \in Surplus(u) :
            s \in slipped' \/ \E i \in 1 .. Len(revs) : revs[i].op = "revoke" /\ revs[i].sid = s
      BY <1>1, <1>3
    <2>4. \A i \in 1 .. Len(revs) : revs[i].op = "revoke" /\ revs[i].sid \in Surplus(u)
      BY <1>3
    <2>5. LoginQueues(u, revs)
      BY <1>4, <2>1, <2>2, <2>3, <2>4 DEF LoginQueues
    <2> QED BY <1>3, <2>5
  <1>7. CASE Len(queue) + Cardinality(noted) < MaxQueue /\ queue' = queue \o revs \o <<open>>
    <2> DEFINE more == Append(revs, open)
    <2>1. /\ more \in Seq(Ops) /\ Len(more) = Len(revs) + 1 /\ Len(revs) \in Nat
          /\ \A i \in 1 .. Len(revs) : more[i] = revs[i]
          /\ more[Len(revs) + 1] = open
      BY <1>3, <1>5
    <2>2. queue' = queue \o <<>> \o more
      <3>1. queue \o <<>> = queue
        BY <1>5
      <3>2. queue \o (revs \o <<open>>) = queue \o revs \o <<open>>
        BY <1>3, <1>5
      <3>3. more = revs \o <<open>>
        BY <1>3, <1>5
      <3> HIDE DEF more
      <3> QED BY <1>7, <3>1, <3>2, <3>3
    <2> HIDE DEF more
    <2>3. Len(queue) + Len(more) <= MaxQueue
      BY <1>3, <1>5, <1>7, <2>1, LimitsAssumption
    <2>4. \A i \in 1 .. Len(more) :
            \/ more[i].op = "revoke" /\ more[i].sid \in Surplus(u)
            \/ more[i].op = "open" /\ more[i].sid = Len(opened) + 1
      <3> SUFFICES ASSUME NEW i \in 1 .. Len(more)
                   PROVE  \/ more[i].op = "revoke" /\ more[i].sid \in Surplus(u)
                          \/ more[i].op = "open" /\ more[i].sid = Len(opened) + 1
        OBVIOUS
      <3>1. CASE i \in 1 .. Len(revs)
        BY <1>3, <2>1, <3>1
      <3>2. CASE i = Len(revs) + 1
        BY <1>5, <2>1, <3>2
      <3> QED BY <2>1, <3>1, <3>2
    <2>5. \A s \in Surplus(u) :
            s \in slipped' \/ \E i \in 1 .. Len(more) : more[i].op = "revoke" /\ more[i].sid = s
      <3> SUFFICES ASSUME NEW s \in noted
                   PROVE  \E i \in 1 .. Len(more) : more[i].op = "revoke" /\ more[i].sid = s
        BY <1>1
      <3>1. PICK i \in 1 .. Len(revs) : revs[i].sid = s
        BY <1>3
      <3>2. i \in 1 .. Len(more) /\ more[i] = revs[i] /\ revs[i].op = "revoke"
        BY <1>3, <2>1
      <3> QED BY <3>1, <3>2
    <2>6. LoginQueues(u, more)
      BY <1>4, <2>2, <2>3, <2>4, <2>5 DEF LoginQueues
    <2> QED BY <2>1, <2>6
  <1> QED BY <1>1, <1>6, <1>7

\* The session of a login comes after the ones there were.
LEMMA LoginOpens ==
  ASSUME TypeOK, NEW u \in Users, Login(u)
  PROVE  /\ Len(opened) \in Nat /\ Len(opened) + 1 \in Sids \ Opened
         /\ Opened' = Opened \cup {Len(opened) + 1}
         /\ \A s \in Opened : opened'[s] = opened[s] /\ UserOf(s)' = UserOf(s)
         /\ opened'[Len(opened) + 1] = [user |-> u, passwords |-> {users[u].password}]
         /\ \A s \in Sids :
              cache'[s] = IF s = Len(opened) + 1 THEN "live"
                          ELSE IF s \in Surplus(u) THEN "revoked" ELSE cache[s]
         /\ opened' \in Seq([user : Users, passwords : SUBSET Passwords])
         /\ Len(opened') <= MaxSid
  <1> DEFINE R == [user : Users, passwords : SUBSET Passwords]
             sid == Len(opened) + 1
             new == [user |-> u, passwords |-> {users[u].password}]
  <1>1. opened \in Seq(R) /\ Len(opened) \in Nat
    BY DEF TypeOK
  <1>2. new \in R
    <2>1. users[u] \in Account
      <3>1. users[u] \in Accts
        BY AccountsTyped DEF Tables
      <3>2. users[u] # Absent
        BY DEF Login, Absent
      <3> QED BY <3>1, <3>2 DEF Accts
    <2>2. users[u].password \in Passwords
      BY <2>1, AccountFields
    <2> QED BY <2>2
  <1>3. /\ sid \in Sids /\ opened' = Append(opened, new)
        /\ cache' = [Revoked(Surplus(u)) EXCEPT ![sid] = "live"]
    BY DEF Login
  <1>4. new.user = u
    OBVIOUS
  <1> HIDE DEF R, new
  <1>5. /\ opened' \in Seq(R) /\ Len(opened') = sid /\ opened'[sid] = new
        /\ \A s \in 1 .. Len(opened) : opened'[s] = opened[s]
    BY <1>1, <1>2, <1>3
  <1>6. Opened' = Opened \cup {sid} /\ sid \notin Opened
    BY <1>1, <1>5 DEF Opened
  <1>7. \A s \in Opened : opened'[s] = opened[s] /\ UserOf(s)' = UserOf(s)
    BY <1>5 DEF Opened, UserOf
  <1>8. sid <= MaxSid
    BY <1>3, LimitsAssumption DEF Sids
  <1> QED BY <1>1, <1>3, <1>5, <1>6, <1>7, <1>8 DEF R, new, Revoked

LEMMA LoginKeepsSessions ==
  ASSUME TypeOK, SessionInv, NEW u \in Users, Login(u)
  PROVE  SessionInv'
  <1> DEFINE sid == Len(opened) + 1
             none == <<>>
  <1>0. PICK more \in Seq(Ops) : LoginQueues(u, more)
    BY LoginQueued
  <1>1. /\ Len(queue) \in Nat /\ Opened \subseteq Sids
        /\ \A s \in Opened : UserOf(s) \in Users
        /\ DOMAIN queue = 1 .. Len(queue)
    BY SessionTypes
  <1>2. /\ sid \in Sids \ Opened
        /\ Opened' = Opened \cup {sid}
        /\ \A s \in Opened : opened'[s] = opened[s] /\ UserOf(s)' = UserOf(s)
        /\ opened'[sid] = [user |-> u, passwords |-> {users[u].password}]
        /\ \A s \in Sids : cache'[s] = IF s = sid THEN "live"
                             ELSE IF s \in Surplus(u) THEN "revoked" ELSE cache[s]
    BY LoginOpens
  <1> HIDE DEF sid
  <1>3. /\ users' = users /\ rows' = rows /\ expired' = expired /\ kept' = kept
        /\ raced \subseteq raced'
        /\ sid \notin raced' => /\ Accounts[u].password = users[u].password
                                /\ Accounts[u].status = "active"
        /\ users[u].status = "active"
    BY DEF Login, sid
  <1>4. /\ \A i \in 1 .. Len(more) :
             \/ more[i].op = "revoke" /\ more[i].sid \in Surplus(u)
             \/ more[i].op = "open" /\ more[i].sid = sid
        /\ \A s \in Surplus(u) :
             s \in slipped' \/ \E i \in 1 .. Len(more) : more[i].op = "revoke" /\ more[i].sid = s
        /\ queue' = queue \o none \o more
        /\ slipped \subseteq slipped'
    BY <1>0 DEF LoginQueues, sid
  <1>5. none \in Seq(Ops) /\ Len(none) = 0 /\ none = <<>>
    OBVIOUS
  <1> HIDE DEF none
  <1>6. Changed(none) = Accounts
    BY <1>5 DEF Changed
  <1>7. /\ queue' \in Seq(Ops) /\ Len(queue') = Len(queue) + Len(more)
        /\ Len(more) \in Nat
        /\ \A i \in 1 .. Len(queue) : queue'[i] = queue[i]
        /\ \A i \in 1 .. Len(more) : queue'[Len(queue) + i] = more[i]
        /\ \A n \in 0 .. Len(queue) : Past(users', queue')[n] = Past(users, queue)[n]
        /\ \A n \in Len(queue) + 1 .. Len(queue') : Past(users', queue')[n] = Accounts
        /\ Accounts' = Accounts
    <2>1. /\ queue' \in Seq(Ops) /\ Len(queue') = Len(queue) + Len(none) + Len(more)
          /\ Len(more) \in Nat
          /\ \A i \in 1 .. Len(queue) : queue'[i] = queue[i]
          /\ \A i \in 1 .. Len(more) : queue'[Len(queue) + Len(none) + i] = more[i]
          /\ \A n \in 0 .. Len(queue) : Past(users', queue')[n] = Past(users, queue)[n]
          /\ \A n \in Len(queue) + 1 .. Len(queue') : Past(users', queue')[n] = Changed(none)
          /\ Accounts' = Changed(none)
      <3>1. \A i \in 1 .. Len(more) : more[i].op \notin AccountOp
        BY <1>4 DEF AccountOp
      <3>2. users' = users /\ queue' = queue \o none \o more /\ Len(none) <= 1
        BY <1>3, <1>4, <1>5
      <3> QED BY <1>5, <3>1, <3>2, Appended
    <2>2. Len(queue) + Len(none) = Len(queue)
      BY <1>1, <1>5
    <2> QED BY <1>6, <2>1, <2>2
  <1>8. DOMAIN queue' = 1 .. Len(queue')
    BY <1>7
  <1>9. Surplus(u) \subseteq Opened
    BY DEF Surplus, LiveOf
  <1>10. \A i \in Len(queue) + 1 .. Len(queue') :
           \/ queue'[i].op = "revoke" /\ queue'[i].sid \in Surplus(u)
           \/ queue'[i].op = "open" /\ queue'[i].sid = sid
    <2> SUFFICES ASSUME NEW i \in Len(queue) + 1 .. Len(queue')
                 PROVE  \/ queue'[i].op = "revoke" /\ queue'[i].sid \in Surplus(u)
                        \/ queue'[i].op = "open" /\ queue'[i].sid = sid
      OBVIOUS
    <2> DEFINE k == i - Len(queue)
    <2>1. k \in 1 .. Len(more) /\ i = Len(queue) + k
      BY <1>1, <1>7
    <2> HIDE DEF k
    <2>2. queue'[i] = more[k]
      BY <1>7, <2>1
    <2> QED BY <1>4, <2>1, <2>2
  <1>11. \A s \in Opened, i \in 1 .. Len(queue') : Opens(queue'[i], s) =>
           i \in 1 .. Len(queue) /\ Opens(queue[i], s)
    <2> SUFFICES ASSUME NEW s \in Opened, NEW i \in 1 .. Len(queue'), Opens(queue'[i], s)
                 PROVE  i \in 1 .. Len(queue) /\ Opens(queue[i], s)
      OBVIOUS
    <2>1. queue'[i].op = "open" /\ queue'[i].sid # sid
      BY <1>2 DEF Opens
    <2>2. i \notin Len(queue) + 1 .. Len(queue')
      BY <1>10, <2>1
    <2>3. i \in 1 .. Len(queue)
      BY <1>1, <1>7, <2>2
    <2> QED BY <1>7, <2>3
  <1>12. \A i \in 1 .. Len(queue) : ~Opens(queue[i], sid) /\ ~Revokes(queue[i], sid)
    BY <1>1, <1>2 DEF SessionInv, Unopened
  <1>13. ASSUME NEW s \in Opened, s \notin slipped', Kept(s)'
         PROVE  s \notin Surplus(u) /\ Kept(s)
    <2>1. Kept(s)
      <3> SUFFICES ASSUME NEW i \in 1 .. Len(queue) PROVE ~Revokes(queue[i], s)
        BY <1>1 DEF Kept
      <3>1. i \in 1 .. Len(queue') /\ queue'[i] = queue[i]
        BY <1>1, <1>7
      <3> QED BY <1>8, <1>13, <3>1 DEF Kept, Revokes
    <2>2. s \notin Surplus(u)
      <3> SUFFICES ASSUME s \in Surplus(u) PROVE FALSE
        OBVIOUS
      <3>1. PICK i \in 1 .. Len(more) : more[i].op = "revoke" /\ more[i].sid = s
        BY <1>4, <1>13
      <3>2. Len(queue) + i \in 1 .. Len(queue') /\ queue'[Len(queue) + i] = more[i]
        BY <1>1, <1>7
      <3> QED BY <1>8, <1>13, <3>1, <3>2 DEF Kept, Revokes
    <2> QED BY <2>1, <2>2
  <1>14. ASSUME NEW s \in Opened, NEW n \in 0 .. Len(queue'), InRow(s, n)'
         PROVE  (n <= Len(queue) => InRow(s, n)) /\ InRow(s, Len(queue))
    <2>1. CASE rows[s] = "live"
      BY <2>1 DEF InRow
    <2>2. CASE rows[s] # "live"
      <3>1. PICK i \in 1 .. n : Opens(queue'[i], s)
        BY <1>3, <1>14, <2>2 DEF InRow
      <3>2. i \in 1 .. Len(queue')
        BY <1>7
      <3>3. i \in 1 .. Len(queue) /\ Opens(queue[i], s)
        BY <1>11, <3>1, <3>2
      <3> QED BY <3>1, <3>3 DEF InRow
    <2> QED BY <2>1, <2>2
  <1>15. ASSUME NEW n \in 0 .. Len(queue'), NEW s, s = sid, InRow(s, n)' PROVE n > Len(queue)
    <2>1. rows[s] = "none"
      BY <1>2, <1>15 DEF SessionInv, Unopened
    <2>2. PICK i \in 1 .. n : Opens(queue'[i], s)
      BY <1>3, <1>15, <2>1 DEF InRow
    <2>3. i \notin 1 .. Len(queue)
      BY <1>7, <1>12, <1>15, <2>2
    <2> QED BY <1>1, <1>7, <2>2, <2>3
  <1>16. ASSUME NEW s, s = sid, s \notin raced'
         PROVE  /\ users[UserOf(s)'] # Absent
                /\ Accounts[UserOf(s)'].status = "active"
                /\ Accounts[UserOf(s)'].password \in opened'[s].passwords
    <2>1. UserOf(s)' = u /\ opened'[s].passwords = {users[u].password}
      BY <1>2, <1>16 DEF UserOf
    <2> QED BY <1>3, <1>16, <2>1 DEF Absent
  <1>17. ASSUME NEW s \in Opened, Authentic(s), s \notin raced' \cup kept' \cup slipped'
         PROVE  /\ users[UserOf(s)'] # Absent
                /\ Accounts[UserOf(s)'].status = "active"
                /\ Accounts[UserOf(s)'].password \in opened'[s].passwords
    BY <1>2, <1>3, <1>4, <1>17 DEF SessionInv, LiveFit, Fits
  <1>18. LiveFit'
    <2> SUFFICES ASSUME NEW s \in Opened', Authentic(s)', s \notin raced' \cup kept' \cup slipped'
                 PROVE  /\ users[UserOf(s)'] # Absent
                        /\ Accounts[UserOf(s)'].status = "active"
                        /\ Accounts[UserOf(s)'].password \in opened'[s].passwords
      BY <1>3, <1>7 DEF LiveFit, Fits
    <2>1. CASE s = sid
      BY <1>16, <2>1
    <2>2. CASE s # sid
      <3>1. s \in Opened /\ Authentic(s)
        BY <1>1, <1>2, <1>3, <2>2 DEF Authentic
      <3> QED BY <1>17, <3>1
    <2> QED BY <2>1, <2>2
  <1>19. RowsFit'
    <2> SUFFICES ASSUME NEW s \in Opened', s \notin raced' \cup kept' \cup slipped' \cup expired',
                        Kept(s)', NEW n \in 0 .. Len(queue'), InRow(s, n)'
                 PROVE  /\ Past(users', queue')[n][UserOf(s)'].status = "active"
                        /\ Past(users', queue')[n][UserOf(s)'].password \in opened'[s].passwords
      BY DEF RowsFit, Fits
    <2>1. CASE s = sid
      <3>1. n \in Len(queue) + 1 .. Len(queue')
        BY <1>1, <1>7, <1>15, <2>1
      <3>2. Past(users', queue')[n] = Accounts
        BY <1>7, <3>1
      <3> QED BY <1>16, <2>1, <3>2
    <2>2. CASE s # sid /\ n <= Len(queue)
      <3>1. s \in Opened /\ Kept(s) /\ InRow(s, n) /\ n \in 0 .. Len(queue)
        BY <1>1, <1>2, <1>7, <1>13, <1>14, <2>2
      <3>2. Fits(s, Past(users, queue)[n][UserOf(s)])
        BY <1>3, <1>4, <3>1 DEF SessionInv, RowsFit
      <3>3. Past(users', queue')[n] = Past(users, queue)[n]
        BY <1>7, <3>1
      <3> QED BY <1>2, <3>1, <3>2, <3>3 DEF Fits
    <2>3. CASE s # sid /\ n > Len(queue)
      <3>1. s \in Opened /\ Kept(s) /\ InRow(s, Len(queue))
        BY <1>2, <1>13, <1>14, <2>3
      <3>2. Authentic(s)
        BY <1>3, <1>4, <3>1 DEF SessionInv, RowsLive, Authentic
      <3>3. n \in Len(queue) + 1 .. Len(queue')
        BY <1>1, <1>7, <2>3
      <3>4. Past(users', queue')[n] = Accounts
        BY <1>7, <3>3
      <3> QED BY <1>17, <3>1, <3>2, <3>4
    <2> QED BY <1>1, <1>7, <2>1, <2>2, <2>3
  <1>20. RowsLive'
    <2> SUFFICES ASSUME NEW s \in Opened', s \notin slipped' \cup expired',
                        Kept(s)', InRow(s, Len(queue))'
                 PROVE  cache'[s] = "live"
      BY DEF RowsLive
    <2>1. CASE s = sid
      BY <1>2, <2>1
    <2>2. CASE s # sid
      <3>1. s \in Opened /\ s \notin Surplus(u) /\ Kept(s)
        BY <1>2, <1>13, <2>2
      <3>2. Len(queue') \in 0 .. Len(queue')
        BY <1>1, <1>7
      <3>3. InRow(s, Len(queue))
        BY <1>14, <3>1, <3>2 DEF InRow
      <3>4. cache[s] = "live"
        BY <1>3, <1>4, <3>1, <3>3 DEF SessionInv, RowsLive
      <3> QED BY <1>1, <1>2, <2>2, <3>1, <3>4
    <2> QED BY <2>1, <2>2
  <1>21. Unopened'
    <2> SUFFICES ASSUME NEW s \in Sids \ Opened'
                 PROVE  /\ rows'[s] = "none" /\ cache'[s] = "none"
                        /\ \A i \in 1 .. Len(queue') : ~Opens(queue'[i], s) /\ ~Revokes(queue'[i], s)
      BY <1>8 DEF Unopened
    <2>1. s \in Sids \ Opened /\ s # sid /\ s \notin Surplus(u)
      BY <1>2, <1>9
    <2>2. rows[s] = "none" /\ cache[s] = "none"
          /\ \A i \in 1 .. Len(queue) : ~Opens(queue[i], s) /\ ~Revokes(queue[i], s)
      BY <1>1, <2>1 DEF SessionInv, Unopened
    <2>3. ASSUME NEW i \in 1 .. Len(queue') PROVE ~Opens(queue'[i], s) /\ ~Revokes(queue'[i], s)
      <3>1. CASE i \in 1 .. Len(queue)
        BY <1>7, <2>2, <3>1
      <3>2. CASE i \notin 1 .. Len(queue)
        <4>1. i \in Len(queue) + 1 .. Len(queue')
          BY <1>1, <1>7, <3>2
        <4> QED BY <1>10, <2>1, <4>1 DEF Opens, Revokes
      <3> QED BY <3>1, <3>2
    <2> QED BY <1>2, <1>3, <2>1, <2>2, <2>3
  <1>22. OpenFirst'
    <2> SUFFICES ASSUME NEW s \in Sids, NEW i \in 1 .. Len(queue'), NEW j \in 1 .. Len(queue'),
                        Opens(queue'[i], s), Revokes(queue'[j], s)
                 PROVE  i < j
      BY <1>8 DEF OpenFirst
    <2>1. CASE j \in 1 .. Len(queue)
      <3>1. Revokes(queue[j], s)
        BY <1>7, <2>1
      <3>2. s \in Opened
        BY <1>1, <2>1, <3>1 DEF SessionInv, Unopened
      <3>3. i \in 1 .. Len(queue) /\ Opens(queue[i], s)
        BY <1>11, <3>2
      <3> QED BY <1>1, <2>1, <3>1, <3>3 DEF SessionInv, OpenFirst
    <2>2. CASE j \notin 1 .. Len(queue)
      <3>1. j \in Len(queue) + 1 .. Len(queue')
        BY <1>1, <1>7, <2>2
      <3>2. s \in Opened
        BY <1>9, <1>10, <3>1 DEF Revokes
      <3>3. i \in 1 .. Len(queue)
        BY <1>11, <3>2
      <3> QED BY <1>1, <3>1, <3>3
    <2> QED BY <2>1, <2>2
  <1> QED BY <1>18, <1>19, <1>20, <1>21, <1>22 DEF SessionInv

-----------------------------------------------------------------------------
(***************************************************************************)
(* Accounts                                                                *)
(***************************************************************************)

\* An operation may be queued, and operations on sessions behind it.
Adds(ops, more) ==
  /\ queue' = queue \o ops \o more
  /\ \A i \in 1 .. Len(more) : more[i].op \in {"open", "revoke"}

LEMMA Elements ==
  ASSUME NEW p \in Seq(Ops), NEW q \in Seq(Ops), NEW r \in Seq(Ops),
         NEW i \in 1 .. Len(p \o q \o r)
  PROVE  \/ i \in 1 .. Len(p) /\ (p \o q \o r)[i] = p[i]
         \/ i > Len(p) /\ \E k \in 1 .. Len(q) : i = Len(p) + k /\ (p \o q \o r)[i] = q[k]
         \/ i > Len(p) /\ \E k \in 1 .. Len(r) : (p \o q \o r)[i] = r[k]
  <1> DEFINE a == p \o q
             c == a \o r
  <1>1. /\ a \in Seq(Ops) /\ Len(a) = Len(p) + Len(q) /\ Len(p) \in Nat /\ Len(q) \in Nat
        /\ \A k \in 1 .. Len(p) : a[k] = p[k]
        /\ \A k \in 1 .. Len(q) : a[Len(p) + k] = q[k]
    BY Concat
  <1> HIDE DEF a
  <1>2. /\ Len(c) = Len(a) + Len(r) /\ Len(r) \in Nat
        /\ \A k \in 1 .. Len(a) : c[k] = a[k]
        /\ \A k \in 1 .. Len(r) : c[Len(a) + k] = r[k]
    BY <1>1, Concat
  <1>3. c = p \o q \o r
    BY DEF a
  <1> HIDE DEF c
  <1>4. i \in 1 .. Len(c)
    BY <1>3
  <1>5. \/ i \in 1 .. Len(p) /\ c[i] = p[i]
        \/ i > Len(p) /\ \E k \in 1 .. Len(q) : i = Len(p) + k /\ c[i] = q[k]
        \/ i > Len(p) /\ \E k \in 1 .. Len(r) : c[i] = r[k]
    <2>1. CASE i <= Len(p)
      <3>1. i \in 1 .. Len(p) /\ i \in 1 .. Len(a)
        BY <1>1, <1>4, <2>1
      <3> QED BY <1>1, <1>2, <3>1
    <2>2. CASE i > Len(p) /\ i <= Len(a)
      <3>1. i - Len(p) \in 1 .. Len(q) /\ i = Len(p) + (i - Len(p)) /\ i \in 1 .. Len(a)
        BY <1>1, <1>4, <2>2
      <3>2. PICK k \in 1 .. Len(q) : i = Len(p) + k
        BY <3>1
      <3>3. i = Len(p) + k /\ c[i] = q[k]
        BY <1>1, <1>2, <3>1, <3>2
      <3> QED BY <2>2, <3>3
    <2>3. CASE i > Len(a)
      <3>1. i - Len(a) \in 1 .. Len(r) /\ i = Len(a) + (i - Len(a)) /\ i > Len(p)
        BY <1>1, <1>2, <1>4, <2>3
      <3>2. PICK k \in 1 .. Len(r) : i = Len(a) + k
        BY <3>1
      <3>3. c[i] = r[k]
        BY <1>2, <3>2
      <3> QED BY <3>1, <3>3
    <2>4. i <= Len(p) \/ (i > Len(p) /\ i <= Len(a)) \/ i > Len(a)
      BY <1>1, <1>2, <1>4
    <2> QED BY <2>1, <2>2, <2>3, <2>4
  <1> QED BY <1>3, <1>5

\* A name is created only where the table has none, and deleted only where it
\* has one.
LEMMA AddKeepsOrder ==
  ASSUME TypeOK, QueuedInOrder, users' = users,
         NEW ops \in Seq(Ops), Len(ops) <= 1, NEW more \in Seq(Ops), Adds(ops, more),
         \A i \in 1 .. Len(ops) : /\ ops[i].op = "create" => users[ops[i].user] = Absent
                                  /\ ops[i].op = "delete" => users[ops[i].user] # Absent
  PROVE  QueuedInOrder'
  <1> DEFINE L == Len(queue)
  <1>1. queue \in Seq(Ops) /\ L \in Nat /\ DOMAIN queue = 1 .. L
    BY SessionTypes
  <1>2. queue' = queue \o ops \o more /\ queue' \in Seq(Ops)
    BY <1>1 DEF Adds
  <1>3. DOMAIN queue' = 1 .. Len(queue')
    BY <1>2
  <1>4. ASSUME NEW i \in 1 .. Len(queue')
        PROVE  \/ i \in 1 .. L /\ queue'[i] = queue[i]
               \/ i > L /\ \E k \in 1 .. Len(ops) : i = L + k /\ queue'[i] = ops[k]
               \/ i > L /\ queue'[i].op \in {"open", "revoke"}
    BY <1>1, <1>2, Elements DEF Adds
  <1>5. ASSUME NEW u \in Users, NEW i \in 1 .. Len(queue'), NEW j \in 1 .. Len(queue'), i < j
        PROVE  IF users[u] # Absent THEN ~(Deletes(queue'[i], u) /\ Creates(queue'[j], u))
               ELSE ~(Creates(queue'[i], u) /\ Deletes(queue'[j], u))
    <2>1. CASE j \in 1 .. L
      <3>1. i \in 1 .. L
        BY <1>1, <1>5, <2>1
      <3>2. queue'[i] = queue[i] /\ queue'[j] = queue[j]
        BY <1>1, <1>4, <2>1, <3>1
      <3> QED BY <1>1, <1>5, <2>1, <3>1, <3>2 DEF QueuedInOrder
    <2>2. CASE \E k \in 1 .. Len(ops) : queue'[j] = ops[k]
      BY <2>2 DEF Deletes, Creates
    <2>3. CASE queue'[j].op \in {"open", "revoke"}
      BY <2>3 DEF Deletes, Creates
    <2> QED BY <1>4, <2>1, <2>2, <2>3
  <1> QED BY <1>3, <1>5 DEF QueuedInOrder

LEMMA AddKeepsAdmin ==
  ASSUME TypeOK, users' = users, NEW w \in ActiveAdmins,
         \A i \in DOMAIN queue : Harmless(queue[i], w),
         NEW ops \in Seq(Ops), NEW more \in Seq(Ops), Adds(ops, more),
         \A i \in 1 .. Len(ops) : Harmless(ops[i], w)
  PROVE  Safeguarded'
  <1>1. queue \in Seq(Ops) /\ DOMAIN queue = 1 .. Len(queue)
    BY SessionTypes
  <1>2. queue' = queue \o ops \o more /\ queue' \in Seq(Ops)
    BY <1>1 DEF Adds
  <1>3. DOMAIN queue' = 1 .. Len(queue')
    BY <1>2
  <1>4. ASSUME NEW i \in 1 .. Len(queue') PROVE Harmless(queue'[i], w)
    <2>1. \/ i \in 1 .. Len(queue) /\ queue'[i] = queue[i]
          \/ \E k \in 1 .. Len(ops) : queue'[i] = ops[k]
          \/ \E k \in 1 .. Len(more) : queue'[i] = more[k]
      BY <1>1, <1>2, Elements
    <2>2. ASSUME NEW k \in 1 .. Len(more) PROVE Harmless(more[k], w)
      BY <2>2 DEF Adds, Harmless
    <2> QED BY <1>1, <2>1, <2>2
  <1>5. w \in ActiveAdmins'
    BY DEF ActiveAdmins
  <1> QED BY <1>3, <1>4, <1>5 DEF Safeguarded

\* What is harmless to an admin leaves one.
LEMMA HarmlessKeeps ==
  ASSUME NEW t \in Tables, NEW op \in Ops, NEW w \in Users, Harmless(op, w),
         t[w].role = "admin", t[w].status = "active"
  PROVE  UserWritten(t, op)[w].role = "admin" /\ UserWritten(t, op)[w].status = "active"
  <1>1. t[w] \in Account
    BY DEF Tables, Accts, Absent
  <1>2. t[w] # Absent
    BY <1>1, AccountFields
  <1>3. CASE op.op \in {"open", "revoke"} \/ op.user # w
    <2>1. UserWritten(t, op)[w] = t[w]
      BY <1>3, UserWrittenIs DEF AccountOp
    <2> QED BY <2>1
  <1>4. CASE op.op = "update" /\ op.user = w
    <2>1. op.fields \in Bodies
      BY <1>4, OpKinds
    <2>2. UserWritten(t, op)[w] = Merged(t[w], op.fields)
      BY <1>2, <1>4, UserWrittenIs DEF AccountOp
    <2>3. /\ "role" \notin DOMAIN op.fields
          /\ "status" \in DOMAIN op.fields => op.fields.status = "active"
      BY <1>4 DEF Harmless
    <2> QED BY <1>1, <2>1, <2>2, <2>3, MergedAccount
  <1> QED BY <1>3, <1>4 DEF Harmless

LEMMA QuietKeepsAccounts ==
  ASSUME AccountInv, users' = users, queue' = queue, demoted' = demoted, overlapped' = overlapped
  PROVE  AccountInv'
  BY DEF AccountInv, QueuedInOrder, Safeguarded, ActiveAdmins

\* Where no account is changed.
LEMMA NothingKeepsAccounts ==
  ASSUME TypeOK, AccountInv, users' = users, demoted' = demoted, overlapped' = overlapped,
         NEW more \in Seq(Ops), Adds(<<>>, more)
  PROVE  AccountInv'
  <1> DEFINE none == <<>>
  <1>1. none \in Seq(Ops) /\ Len(none) <= 1 /\ (\A i \in 1 .. Len(none) : FALSE) /\ Adds(none, more)
    OBVIOUS
  <1> HIDE DEF none
  <1>2. QueuedInOrder'
    BY <1>1, AddKeepsOrder DEF AccountInv
  <1>3. Safeguarded'
    <2>1. CASE demoted \/ overlapped
      BY <2>1 DEF Safeguarded
    <2>2. CASE \E w \in ActiveAdmins : \A i \in DOMAIN queue : Harmless(queue[i], w)
      BY <1>1, <2>2, AddKeepsAdmin
    <2> QED BY <2>1, <2>2 DEF AccountInv, Safeguarded
  <1> QED BY <1>2, <1>3 DEF AccountInv

LEMMA CreateKeepsAccounts ==
  ASSUME TypeOK, AccountInv, NEW x \in Opened, NEW u \in Users, NEW role \in Roles,
         NEW password \in Passwords, CreateUser(x, u, role, password)
  PROVE  AccountInv'
  <1> DEFINE account == [role |-> role, status |-> "active", password |-> password]
             op == [op |-> "create", user |-> u, account |-> account]
             ops == <<op>>
             none == <<>>
  <1>1. op \in Ops /\ op.op = "create" /\ op.user = u
    <2>1. account \in Account
      BY DEF Account, Statuses
    <2> HIDE DEF account
    <2> QED BY <2>1 DEF Ops
  <1>2. /\ queue' = Append(queue, op) /\ users[u] = Absent /\ users' = users
        /\ demoted' = demoted /\ overlapped' = overlapped
    BY DEF CreateUser
  <1> HIDE DEF op
  <1>3. ops \in Seq(Ops) /\ Len(ops) = 1 /\ ops[1] = op /\ Len(ops) <= 1
        /\ \A i \in 1 .. Len(ops) : ops[i] = op
    BY <1>1
  <1>4. none \in Seq(Ops) /\ Adds(ops, none)
    <2>1. queue \in Seq(Ops)
      BY SessionTypes
    <2> QED BY <1>1, <1>2, <2>1 DEF Adds
  <1> HIDE DEF ops, none
  <1>5. QueuedInOrder'
    BY <1>1, <1>2, <1>3, <1>4, AddKeepsOrder DEF AccountInv
  <1>6. Safeguarded'
    <2>1. CASE demoted \/ overlapped
      BY <1>2, <2>1 DEF Safeguarded
    <2>2. CASE \E w \in ActiveAdmins : \A i \in DOMAIN queue : Harmless(queue[i], w)
      <3>1. PICK w \in ActiveAdmins : \A i \in DOMAIN queue : Harmless(queue[i], w)
        BY <2>2
      <3>2. w # u
        BY <1>2 DEF ActiveAdmins, Absent
      <3>3. \A i \in 1 .. Len(ops) : Harmless(ops[i], w)
        BY <1>1, <1>3, <3>2 DEF Harmless
      <3> QED BY <1>2, <1>3, <1>4, <3>1, <3>3, AddKeepsAdmin
    <2> QED BY <2>1, <2>2 DEF AccountInv, Safeguarded
  <1> QED BY <1>5, <1>6 DEF AccountInv

\* Removing an active admin is refused to the last; another one, with nothing
\* queued about accounts, remains.
LEMMA AnotherRemains ==
  ASSUME TypeOK, Safeguarded, ~demoted, ~overlapped, NEW u \in Users, ~LastAdmin(u),
         \A i \in DOMAIN queue : queue[i].op \notin AccountOp
  PROVE  \E w \in ActiveAdmins : w # u /\ \A i \in DOMAIN queue : Harmless(queue[i], w)
  <1>1. PICK v \in ActiveAdmins : TRUE
    BY DEF Safeguarded
  <1>2. PICK w \in ActiveAdmins : w # u
    BY <1>1 DEF LastAdmin
  <1>3. \A i \in DOMAIN queue : queue[i].op \in {"open", "revoke"}
    <2> SUFFICES ASSUME NEW i \in DOMAIN queue PROVE queue[i].op \in {"open", "revoke"}
      OBVIOUS
    <2>1. queue[i] \in Ops
      BY SessionTypes
    <2> QED BY <2>1, OpKinds DEF AccountOp
  <1> QED BY <1>2, <1>3 DEF Harmless

LEMMA DeleteKeepsAccounts ==
  ASSUME TypeOK, AccountInv, NEW x \in Opened, NEW u \in Users, DeleteUser(x, u)
  PROVE  AccountInv'
  <1> DEFINE op == [op |-> "delete", user |-> u]
             ops == <<op>>
  <1>1. op \in Ops /\ op.op = "delete" /\ op.user = u
    BY DEF Ops
  <1>2. /\ Revoke(LiveOf(u), ops) /\ users[u] # Absent /\ ~LastAdmin(u) /\ Removal(u)
        /\ users' = users /\ demoted' = demoted
    BY DEF DeleteUser
  <1> HIDE DEF op
  <1>3. ops \in Seq(Ops) /\ Len(ops) <= 1 /\ \A i \in 1 .. Len(ops) : ops[i] = op
    BY <1>1
  <1> HIDE DEF ops
  <1>4. PICK more \in Seq(Ops) : Queues(LiveOf(u), ops, more)
    <2>1. LiveOf(u) \in SUBSET Opened
      BY DEF LiveOf
    <2> QED BY <1>2, <1>3, <2>1, RevokeQueues
  <1>5. Adds(ops, more)
    BY <1>4 DEF Queues, Adds
  <1>6. QueuedInOrder'
    BY <1>1, <1>2, <1>3, <1>5, AddKeepsOrder DEF AccountInv
  <1>7. Safeguarded'
    <2>1. CASE demoted \/ overlapped \/ overlapped'
      BY <1>2, <2>1 DEF Safeguarded, Removal
    <2>2. CASE ~demoted /\ ~overlapped /\ ~overlapped'
      <3>1. \A i \in DOMAIN queue : queue[i].op \notin AccountOp
        BY <1>2, <2>2 DEF Removal, AccountOp
      <3>2. PICK w \in ActiveAdmins : w # u /\ \A i \in DOMAIN queue : Harmless(queue[i], w)
        BY <1>2, <2>2, <3>1, AnotherRemains DEF AccountInv
      <3>3. \A i \in 1 .. Len(ops) : Harmless(ops[i], w)
        BY <1>1, <1>3, <3>2 DEF Harmless
      <3> QED BY <1>2, <1>3, <1>5, <3>2, <3>3, AddKeepsAdmin
    <2> QED BY <2>1, <2>2
  <1> QED BY <1>6, <1>7 DEF AccountInv

LEMMA UpdateKeepsAccounts ==
  ASSUME TypeOK, AccountInv, NEW fields \in Bodies, FinishUpdate(fields)
  PROVE  AccountInv'
  <1> DEFINE u == patch.target
             dying == LiveOf(u) \ Spared(fields)
             op == [op |-> "update", user |-> u, fields |-> fields]
             ops == <<op>>
             off == "status" \in DOMAIN fields /\ fields.status # "active"
  <1>1. u \in Users
    <2>1. patch \in Patch
      BY DEF FinishUpdate, TypeOK
    <2> QED BY <2>1 DEF Patch
  <1>2. op \in Ops /\ op.op = "update" /\ op.user = u /\ op.fields = fields
    <2> HIDE DEF u
    <2> QED BY <1>1 DEF Ops
  <1>3. /\ Revoke(dying, ops) /\ users' = users
        /\ off => ~LastAdmin(u) /\ Removal(u)
        /\ ~off => overlapped' = overlapped
        /\ demoted' = (demoted \/ "role" \in DOMAIN fields)
    BY DEF FinishUpdate
  <1> HIDE DEF u, op
  <1>4. ops \in Seq(Ops) /\ Len(ops) <= 1 /\ \A i \in 1 .. Len(ops) : ops[i] = op
    BY <1>2
  <1> HIDE DEF ops
  <1>5. PICK more \in Seq(Ops) : Queues(dying, ops, more)
    <2>1. dying \in SUBSET Opened
      BY DEF LiveOf
    <2> HIDE DEF dying
    <2> QED BY <1>3, <1>4, <2>1, RevokeQueues
  <1>6. Adds(ops, more)
    BY <1>5 DEF Queues, Adds
  <1>7. QueuedInOrder'
    BY <1>2, <1>3, <1>4, <1>6, AddKeepsOrder DEF AccountInv
  <1>8. Safeguarded'
    <2>1. CASE demoted' \/ overlapped'
      BY <2>1 DEF Safeguarded
    <2>2. CASE ~demoted' /\ ~overlapped' /\ off
      <3>1. ~demoted /\ ~overlapped /\ \A i \in DOMAIN queue : queue[i].op \notin AccountOp
        BY <1>3, <2>2 DEF Removal, AccountOp
      <3>2. PICK w \in ActiveAdmins : w # u /\ \A i \in DOMAIN queue : Harmless(queue[i], w)
        BY <1>1, <1>3, <2>2, <3>1, AnotherRemains DEF AccountInv
      <3>3. \A i \in 1 .. Len(ops) : Harmless(ops[i], w)
        BY <1>2, <1>4, <3>2 DEF Harmless
      <3> QED BY <1>3, <1>4, <1>6, <3>2, <3>3, AddKeepsAdmin
    <2>3. CASE ~demoted' /\ ~overlapped' /\ ~off
      <3>0. ~demoted /\ ~overlapped
        <4>1. ~(demoted \/ "role" \in DOMAIN fields)
          BY <1>3, <2>3
        <4>2. ~overlapped
          BY <1>3, <2>3
        <4> QED BY <4>1, <4>2
      <3>1. PICK w \in ActiveAdmins : \A i \in DOMAIN queue : Harmless(queue[i], w)
        BY <3>0 DEF AccountInv, Safeguarded
      <3>2. \A i \in 1 .. Len(ops) : Harmless(ops[i], w)
        BY <1>2, <1>3, <1>4, <2>3 DEF Harmless
      <3> QED BY <1>3, <1>4, <1>6, <3>1, <3>2, AddKeepsAdmin
    <2> QED BY <2>1, <2>2, <2>3
  <1> QED BY <1>7, <1>8 DEF AccountInv

LEMMA WriteKeepsAccounts ==
  ASSUME TypeOK, AccountInv, Write
  PROVE  AccountInv'
  <1> DEFINE op == queue[1]
  <1>1. queue \in Seq(Ops) /\ Len(queue) \in Nat /\ DOMAIN queue = 1 .. Len(queue) /\ users \in Tables
    BY SessionTypes, AccountsTyped
  <1>2. /\ 1 \in 1 .. Len(queue) /\ op \in Ops
        /\ users' = UserWritten(users, op)
        /\ DOMAIN queue' = 1 .. Len(queue')
        /\ \A i \in 1 .. Len(queue') : queue'[i] = queue[i + 1] /\ i + 1 \in 1 .. Len(queue)
        /\ demoted' = demoted /\ overlapped' = overlapped
    BY Shifted DEF accountVars
  <1>3. op = queue[1]
    OBVIOUS
  <1> HIDE DEF op
  <1>4. \A i \in 1 .. Len(queue') : 1 < i + 1
    OBVIOUS
  <1>5. ASSUME NEW u \in Users
        PROVE  \/ (users'[u] # Absent) = (users[u] # Absent)
               \/ users[u] # Absent /\ users'[u] = Absent /\ Deletes(op, u)
               \/ users[u] = Absent /\ users'[u] # Absent /\ Creates(op, u)
    <2>1. users[u] \in Accts
      BY <1>1 DEF Tables
    <2>2. /\ op.op = "update" => op.fields \in Bodies
          /\ op.op \in {"open", "revoke", "create", "update", "delete"}
      BY <1>2, OpKinds
    <2>3. op.op = "update" /\ users[u] # Absent => Merged(users[u], op.fields) # Absent
      BY <2>1, <2>2, MergedAccount, AccountFields DEF Accts
    <2>4. users'[u] = IF op.op \notin AccountOp THEN users[u]
                ELSE IF op.user # u THEN users[u]
                ELSE IF op.op = "create" THEN op.account
                ELSE IF op.op = "delete" THEN Absent
                ELSE IF users[u] = Absent THEN Absent ELSE Merged(users[u], op.fields)
      BY <1>1, <1>2, UserWrittenIs
    <2>5. op.op = "create" => op.account # Absent
      BY <1>2, OpKinds, AccountFields
    <2> QED BY <2>2, <2>3, <2>4, <2>5 DEF Deletes, Creates, AccountOp
  <1>6. QueuedInOrder'
    <2> SUFFICES ASSUME NEW u \in Users, NEW i \in 1 .. Len(queue'), NEW j \in 1 .. Len(queue'), i < j
        PROVE  IF users'[u] # Absent THEN ~(Deletes(queue'[i], u) /\ Creates(queue'[j], u))
               ELSE ~(Creates(queue'[i], u) /\ Deletes(queue'[j], u))
      BY <1>2 DEF QueuedInOrder
    <2>1. /\ i + 1 \in 1 .. Len(queue) /\ j + 1 \in 1 .. Len(queue) /\ i + 1 < j + 1
          /\ queue'[i] = queue[i + 1] /\ queue'[j] = queue[j + 1]
      BY <1>2
    <2>2. CASE (users'[u] # Absent) = (users[u] # Absent)
      BY <1>1, <2>1, <2>2 DEF AccountInv, QueuedInOrder
    <2>3. CASE users[u] # Absent /\ users'[u] = Absent /\ Deletes(op, u)
      <3>1. ~Creates(queue[i + 1], u)
        BY <1>1, <1>2, <1>3, <1>4, <2>1, <2>3 DEF AccountInv, QueuedInOrder
      <3> QED BY <2>1, <2>3, <3>1
    <2>4. CASE users[u] = Absent /\ users'[u] # Absent /\ Creates(op, u)
      <3>1. ~Deletes(queue[i + 1], u)
        BY <1>1, <1>2, <1>3, <1>4, <2>1, <2>4 DEF AccountInv, QueuedInOrder
      <3> QED BY <2>1, <2>4, <3>1
    <2> QED BY <1>5, <2>2, <2>3, <2>4
  <1>7. Safeguarded'
    <2>1. CASE demoted \/ overlapped
      BY <1>2, <2>1 DEF Safeguarded
    <2>2. CASE ~demoted /\ ~overlapped
      <3>1. PICK w \in ActiveAdmins : \A i \in DOMAIN queue : Harmless(queue[i], w)
        BY <2>2 DEF AccountInv, Safeguarded
      <3>2. Harmless(op, w)
        BY <1>1, <1>2, <1>3, <3>1
      <3>3. w \in Users /\ users[w].role = "admin" /\ users[w].status = "active"
        BY DEF ActiveAdmins
      <3>4. users'[w].role = "admin" /\ users'[w].status = "active"
        BY <1>1, <1>2, <3>2, <3>3, HarmlessKeeps
      <3>5. \A i \in 1 .. Len(queue') : Harmless(queue'[i], w)
        BY <1>1, <1>2, <3>1
      <3> QED BY <1>2, <3>3, <3>4, <3>5 DEF Safeguarded, ActiveAdmins
    <2> QED BY <2>1, <2>2
  <1> QED BY <1>6, <1>7 DEF AccountInv

LEMMA RestartKeepsAccounts ==
  ASSUME TypeOK, AccountInv, Restart
  PROVE  AccountInv'
  <1>1. DOMAIN queue' = {}
    BY RestartTypes
  <1>2. demoted' = demoted /\ overlapped' = overlapped /\ users' = Bootstrapped(users)
    BY DEF Restart, accountVars
  <1>3. QueuedInOrder'
    BY <1>1 DEF QueuedInOrder
  <1>4. Safeguarded'
    <2>1. CASE demoted \/ overlapped
      BY <1>2, <2>1 DEF Safeguarded
    <2>2. CASE ~demoted /\ ~overlapped
      <3>1. PICK w \in ActiveAdmins : TRUE
        BY <2>2 DEF AccountInv, Safeguarded
      <3>2. w \in Users /\ users[w].status = "active"
        BY DEF ActiveAdmins
      <3>3. users' = users
        BY <1>2, <3>2, StartKeepsAccounts
      <3>4. w \in ActiveAdmins'
        BY <3>3 DEF ActiveAdmins
      <3> QED BY <1>1, <3>4 DEF Safeguarded
    <2> QED BY <2>1, <2>2
  <1> QED BY <1>3, <1>4 DEF AccountInv

-----------------------------------------------------------------------------
(***************************************************************************)
(* The limit on sessions                                                   *)
(***************************************************************************)

\* Of any numbers, those with fewer than k greater ones among them are k at most.
LEMMA Newest ==
  ASSUME NEW S \in SUBSET Nat, IsFiniteSet(S), NEW k \in Nat
  PROVE  /\ IsFiniteSet({s \in S : Cardinality({t \in S : t > s}) < k})
         /\ Cardinality({s \in S : Cardinality({t \in S : t > s}) < k}) <= k
  <1> DEFINE T == {s \in S : Cardinality({t \in S : t > s}) < k}
  <1>1. T \subseteq S /\ IsFiniteSet(T) /\ Cardinality(T) \in Nat
    <2>1. T \subseteq S
      OBVIOUS
    <2> HIDE DEF T
    <2> QED BY <2>1, FS_Subset, FS_CardinalityType
  <1> SUFFICES Cardinality(T) <= k
    BY <1>1
  <1>2. CASE T = {}
    <2>1. Cardinality(T) = 0
      BY <1>2, FS_EmptySet
    <2> HIDE DEF T
    <2> QED BY <1>1, <2>1
  <1>3. CASE T # {}
    <2>1. PICK m \in T : \A y \in T : m <= y
      <3>1. T \in SUBSET Nat
        OBVIOUS
      <3> HIDE DEF T
      <3> QED BY <1>3, <3>1, LeastNatural
    <2> DEFINE above == {t \in S : t > m}
    <2>2. m \in S /\ Cardinality(above) < k
      BY <2>1
    <2>3. IsFiniteSet(above) /\ Cardinality(above) \in Nat
      <3>1. above \subseteq S
        OBVIOUS
      <3> HIDE DEF above
      <3> QED BY <3>1, FS_Subset, FS_CardinalityType
    <2>4. T \ {m} \subseteq above
      <3> SUFFICES ASSUME NEW y \in T, y # m PROVE y \in S /\ y > m
        OBVIOUS
      <3>1. m <= y
        BY <2>1
      <3>2. y \in S /\ y \in Nat /\ m \in Nat
        BY <1>1, <2>2
      <3> HIDE DEF T
      <3> QED BY <3>1, <3>2
    <2> HIDE DEF T, above
    <2>5. Cardinality(T \ {m}) = Cardinality(T) - 1
      BY <1>1, <2>1, FS_RemoveElement
    <2>6. Cardinality(T \ {m}) <= Cardinality(above)
      BY <2>3, <2>4, FS_Subset
    <2> QED BY <1>1, <2>2, <2>3, <2>5, <2>6
  <1> QED BY <1>1, <1>2, <1>3

LEMMA LiveFinite ==
  ASSUME TypeOK, NEW u, NEW S, S \subseteq LiveOf(u)
  PROVE  IsFiniteSet(S) /\ Cardinality(S) \in Nat /\ S \subseteq Nat
  <1>1. S \subseteq Opened /\ Len(opened) \in Nat
    BY SessionTypes DEF LiveOf
  <1>2. IsFiniteSet(Opened)
    BY <1>1, FS_Interval DEF Opened
  <1>3. S \subseteq Nat
    BY <1>1 DEF Opened
  <1>4. IsFiniteSet(S)
    BY <1>1, <1>2, FS_Subset
  <1> QED BY <1>3, <1>4, FS_CardinalityType

\* Sessions that were not there before are needed to pass the limit.
LEMMA FewerKeepLimit ==
  ASSUME TypeOK, SessionsLimited,
         \A u \in Users : (LiveOf(u) \ slipped)' \subseteq LiveOf(u) \ slipped
  PROVE  SessionsLimited'
  <1> SUFFICES ASSUME NEW u \in Users
               PROVE  Cardinality((LiveOf(u) \ slipped)') <= MAX_ADMIN_SESSIONS
    BY DEF SessionsLimited
  <1> DEFINE S == LiveOf(u) \ slipped
             T == (LiveOf(u) \ slipped)'
  <1>1. IsFiniteSet(S) /\ Cardinality(S) \in Nat
    BY LiveFinite
  <1>2. T \subseteq S /\ Cardinality(S) <= MAX_ADMIN_SESSIONS
    BY DEF SessionsLimited
  <1> HIDE DEF S, T
  <1>3. Cardinality(T) <= Cardinality(S) /\ Cardinality(T) \in Nat
    BY <1>1, <1>2, FS_Subset, FS_CardinalityType
  <1>4. Cardinality(T) <= MAX_ADMIN_SESSIONS
    BY <1>1, <1>2, <1>3, LimitsAssumption
  <1> QED BY <1>4 DEF T

LEMMA LoginKeepsLimit ==
  ASSUME TypeOK, SessionsLimited, NEW v \in Users, Login(v)
  PROVE  SessionsLimited'
  <1> DEFINE sid == Len(opened) + 1
  <1>1. /\ sid \in Sids \ Opened
        /\ Opened' = Opened \cup {sid}
        /\ \A s \in Opened : opened'[s] = opened[s] /\ UserOf(s)' = UserOf(s)
        /\ opened'[sid] = [user |-> v, passwords |-> {users[v].password}]
        /\ \A s \in Sids : cache'[s] = IF s = sid THEN "live"
                             ELSE IF s \in Surplus(v) THEN "revoked" ELSE cache[s]
    BY LoginOpens
  <1> HIDE DEF sid
  <1>2. expired' = expired /\ slipped \subseteq slipped'
    <2>1. PICK more \in Seq(Ops) : LoginQueues(v, more)
      BY LoginQueued
    <2> QED BY <2>1 DEF Login, LoginQueues
  <1>3. Opened \subseteq Sids
    BY SessionTypes
  <1>4. \A s \in Opened' : s = sid => UserOf(s)' = v
    BY <1>1 DEF UserOf
  <1> SUFFICES ASSUME NEW u \in Users
               PROVE  Cardinality((LiveOf(u) \ slipped)') <= MAX_ADMIN_SESSIONS
    BY DEF SessionsLimited
  <1> DEFINE T == (LiveOf(u) \ slipped)'
             S == LiveOf(u) \ slipped
  <1>5. \A s \in T : /\ s \in Opened' /\ UserOf(s)' = u /\ s \notin slipped
                     /\ s = sid \/ (s \in Opened /\ s \notin Surplus(v) /\ s \in LiveOf(u))
    BY <1>1, <1>2, <1>3 DEF LiveOf, Authentic
  <1>6. IsFiniteSet(S) /\ Cardinality(S) \in Nat /\ Cardinality(S) <= MAX_ADMIN_SESSIONS
    BY LiveFinite DEF SessionsLimited
  <1>7. CASE u # v
    <2>1. T \subseteq S
      BY <1>4, <1>5, <1>7
    <2> HIDE DEF T, S
    <2>2. Cardinality(T) <= Cardinality(S) /\ Cardinality(T) \in Nat
      BY <1>6, <2>1, FS_Subset, FS_CardinalityType
    <2>3. Cardinality(T) <= MAX_ADMIN_SESSIONS
      BY <1>6, <2>2, LimitsAssumption
    <2> QED BY <2>3 DEF T
  <1>8. CASE u = v
    <2> DEFINE L == LiveOf(u)
               k == MAX_ADMIN_SESSIONS - 1
               New == {s \in L : Cardinality({t \in L : t > s}) < k}
    <2>1. IsFiniteSet(L) /\ L \in SUBSET Nat /\ k \in Nat
      BY LiveFinite, LimitsAssumption
    <2>2. T \subseteq New \cup {sid}
      <3> SUFFICES ASSUME NEW s \in T, s # sid PROVE s \in New
        OBVIOUS
      <3>1. s \in L /\ s \notin Surplus(u)
        BY <1>5, <1>8
      <3>2. ~(Cardinality({t \in L : t > s}) >= k)
        BY <3>1 DEF Surplus
      <3>3. Cardinality({t \in L : t > s}) \in Nat
        <4>1. {t \in L : t > s} \subseteq L
          OBVIOUS
        <4> HIDE DEF L
        <4> QED BY <2>1, <4>1, FS_Subset, FS_CardinalityType
      <3> HIDE DEF L, k
      <3> QED BY <2>1, <3>1, <3>2, <3>3
    <2> HIDE DEF L, T
    <2>3. IsFiniteSet(New) /\ Cardinality(New) <= k
      BY <2>1, Newest
    <2> HIDE DEF New
    <2>4. /\ IsFiniteSet(New \cup {sid})
          /\ Cardinality(New \cup {sid}) \in {Cardinality(New), Cardinality(New) + 1}
          /\ Cardinality(New) \in Nat
      BY <2>3, FS_AddElement, FS_CardinalityType
    <2>5. Cardinality(T) <= Cardinality(New \cup {sid}) /\ Cardinality(T) \in Nat
      BY <2>2, <2>4, FS_Subset, FS_CardinalityType
    <2>6. Cardinality(T) <= MAX_ADMIN_SESSIONS
      BY <2>1, <2>3, <2>4, <2>5, LimitsAssumption
    <2> QED BY <2>6 DEF T
  <1> QED BY <1>7, <1>8

\* A start loads no session that was not live.
LEMMA RestartKeepsLimit ==
  ASSUME TypeOK, SessionInv, SessionsLimited, Restart
  PROVE  SessionsLimited'
  <1>1. /\ cache' \in {Loaded, [s \in Sids |-> "none"]}
        /\ slipped' = slipped \cup Unwritten \cup {s \in Sids : cache'[s] # Loaded[s]}
        /\ opened' = opened /\ expired' = expired
    BY DEF Restart, sessionVars
  <1>2. Opened' = Opened /\ Opened \subseteq Sids /\ DOMAIN queue = 1 .. Len(queue)
    BY <1>1, SessionTypes DEF Opened
  <1>3. ASSUME NEW u \in Users, NEW s \in (LiveOf(u) \ slipped)' PROVE s \in LiveOf(u) \ slipped
    <2>1. s \in Opened /\ cache'[s] = "live" /\ s \notin expired /\ UserOf(s) = u /\ s \notin slipped'
      BY <1>1, <1>2 DEF LiveOf, Authentic, UserOf
    <2>2. rows[s] = "live"
      BY <1>1, <1>2, <2>1 DEF Loaded
    <2>3. s \notin slipped /\ s \notin Unwritten
      BY <1>1, <2>1
    <2>4. Kept(s) /\ InRow(s, Len(queue))
      BY <2>2, <2>3 DEF Unwritten, Kept, Revokes, InRow
    <2>5. cache[s] = "live"
      BY <2>1, <2>3, <2>4 DEF SessionInv, RowsLive
    <2> QED BY <2>1, <2>3, <2>5 DEF LiveOf, Authentic
  <1> QED BY <1>3, FewerKeepLimit

\* Where sessions are revoked.
LEMMA RevokingKeepsLimit ==
  ASSUME TypeOK, SessionsLimited, NEW sids \in SUBSET Opened, cache' = Revoked(sids),
         Len(opened') = Len(opened), \A s \in Opened : opened'[s].user = UserOf(s),
         expired' = expired, slipped \subseteq slipped'
  PROVE  SessionsLimited'
  <1>1. Opened' = Opened /\ Opened \subseteq Sids
    BY SessionTypes DEF Opened
  <1>2. \A s \in Opened : UserOf(s)' = UserOf(s)
    BY DEF UserOf
  <1>3. \A s \in Opened : cache'[s] = "live" => cache[s] = "live"
    BY <1>1 DEF Revoked
  <1>4. \A u \in Users : (LiveOf(u) \ slipped)' \subseteq LiveOf(u) \ slipped
    BY <1>1, <1>2, <1>3 DEF LiveOf, Authentic
  <1> QED BY <1>4, FewerKeepLimit

-----------------------------------------------------------------------------
(***************************************************************************)
(* Types                                                                   *)
(***************************************************************************)

SessionRecord == [user : Users, passwords : SUBSET Passwords]

\* TypeOK, part by part.
LEMMA Types ==
  TypeOK <=>
    /\ users \in Tables
    /\ cache \in [Sids -> {"none", "live", "revoked"}]
    /\ rows \in [Sids -> {"none", "live", "revoked"}]
    /\ opened \in Seq(SessionRecord) /\ Len(opened) <= MaxSid
    /\ queue \in Seq(Ops) /\ Len(queue) <= MaxQueue
    /\ patch \in Patch \cup {NoPatch}
    /\ expired \subseteq Sids /\ raced \subseteq Sids /\ kept \subseteq Sids /\ slipped \subseteq Sids
    /\ changes \in 0 .. MaxChanges
    /\ demoted \in BOOLEAN /\ overlapped \in BOOLEAN
  BY DEF TypeOK, Tables, Accts, SessionRecord

LEMMA TypesNext ==
  ASSUME users' \in Tables,
         cache' \in [Sids -> {"none", "live", "revoked"}],
         rows' \in [Sids -> {"none", "live", "revoked"}],
         opened' \in Seq(SessionRecord), Len(opened') <= MaxSid,
         queue' \in Seq(Ops), Len(queue') <= MaxQueue,
         patch' \in Patch \cup {NoPatch},
         expired' \subseteq Sids, raced' \subseteq Sids, kept' \subseteq Sids,
         slipped' \subseteq Sids, changes' \in 0 .. MaxChanges,
         demoted' \in BOOLEAN, overlapped' \in BOOLEAN
  PROVE  TypeOK'
  BY DEF TypeOK, Tables, Accts, SessionRecord

\* Behind what is queued there is room for what a handler queues.
LEMMA QueueTyped ==
  ASSUME TypeOK, NEW ops \in Seq(Ops), NEW more \in Seq(Ops),
         queue' = queue \o ops \o more, Len(queue) + Len(ops) + Len(more) <= MaxQueue
  PROVE  queue' \in Seq(Ops) /\ Len(queue') <= MaxQueue
  <1> DEFINE a == queue \o ops
  <1>1. queue \in Seq(Ops)
    BY DEF TypeOK
  <1>2. a \in Seq(Ops) /\ Len(a) = Len(queue) + Len(ops)
    BY <1>1, Concat
  <1> HIDE DEF a
  <1>3. a \o more \in Seq(Ops) /\ Len(a \o more) = Len(a) + Len(more)
    BY <1>2, Concat
  <1>4. queue' = a \o more
    BY DEF a
  <1> QED BY <1>2, <1>3, <1>4

LEMMA RevokedTyped ==
  ASSUME TypeOK, NEW sids
  PROVE  Revoked(sids) \in [Sids -> {"none", "live", "revoked"}]
  BY DEF TypeOK, Revoked

LEMMA LoginTyped ==
  ASSUME TypeOK, NEW u \in Users, Login(u)
  PROVE  TypeOK'
  <1>1. PICK more \in Seq(Ops) : LoginQueues(u, more)
    BY LoginQueued
  <1>2. /\ Len(opened) + 1 \in Sids
        /\ opened' \in Seq(SessionRecord) /\ Len(opened') <= MaxSid
    BY LoginOpens DEF SessionRecord
  <1>3. cache' \in [Sids -> {"none", "live", "revoked"}]
    BY <1>2, RevokedTyped DEF Login
  <1>4. queue' \in Seq(Ops) /\ Len(queue') <= MaxQueue
    <2> DEFINE none == <<>>
    <2>1. none \in Seq(Ops) /\ Len(none) = 0 /\ queue' = queue \o none \o more
      BY <1>1 DEF LoginQueues
    <2> HIDE DEF none
    <2>2. Len(queue) + Len(none) + Len(more) <= MaxQueue
      BY <1>1, <2>1, SessionTypes DEF LoginQueues
    <2> QED BY <2>1, <2>2, QueueTyped
  <1>5. slipped' \subseteq Sids
    BY <1>1, SessionTypes, Types DEF LoginQueues, Surplus, LiveOf
  <1>6. raced' \subseteq Sids
    BY <1>2, Types DEF Login
  <1>7. UNCHANGED <<users, rows, expired, kept, patch, changes, demoted, overlapped>>
    BY DEF Login, accountVars
  <1> QED BY <1>2, <1>3, <1>4, <1>5, <1>6, <1>7, Types, TypesNext

LEMMA EndTyped ==
  ASSUME TypeOK, NEW x \in Opened,
         cache' = Revoked({x}), Revoke({x}, <<>>),
         UNCHANGED <<users, rows, sessionVars, patch, accountVars>>
  PROVE  TypeOK'
  <1> DEFINE none == <<>>
  <1>1. {x} \in SUBSET Opened /\ none \in Seq(Ops) /\ Revoke({x}, none)
    OBVIOUS
  <1> HIDE DEF none
  <1>2. PICK more \in Seq(Ops) : Queues({x}, none, more)
    BY <1>1, RevokeQueues
  <1>3. queue' \in Seq(Ops) /\ Len(queue') <= MaxQueue
    BY <1>1, <1>2, QueueTyped DEF Queues
  <1>4. cache' \in [Sids -> {"none", "live", "revoked"}]
    BY RevokedTyped
  <1>5. slipped' \subseteq Sids
    BY <1>2, SessionTypes, Types DEF Queues
  <1>6. UNCHANGED <<users, rows, opened, expired, raced, kept, patch, changes, demoted, overlapped>>
    BY DEF sessionVars, accountVars
  <1> QED BY <1>3, <1>4, <1>5, <1>6, Types, TypesNext

LEMMA DeleteTyped ==
  ASSUME TypeOK, NEW x \in Opened, NEW u \in Users, DeleteUser(x, u)
  PROVE  TypeOK'
  <1> DEFINE op == [op |-> "delete", user |-> u]
             ops == <<op>>
  <1>1. op \in Ops
    BY DEF Ops
  <1>2. /\ cache' = Revoked(LiveOf(u)) /\ Revoke(LiveOf(u), ops)
        /\ changes < MaxChanges /\ changes' = changes + 1
        /\ UNCHANGED <<users, rows, opened, expired, raced, kept, patch, demoted>>
        /\ Removal(u)
    BY DEF DeleteUser, Accepted, sessionVars
  <1> HIDE DEF op
  <1>3. ops \in Seq(Ops)
    BY <1>1
  <1> HIDE DEF ops
  <1>4. LiveOf(u) \in SUBSET Opened
    BY DEF LiveOf
  <1>5. PICK more \in Seq(Ops) : Queues(LiveOf(u), ops, more)
    BY <1>2, <1>3, <1>4, RevokeQueues
  <1>6. queue' \in Seq(Ops) /\ Len(queue') <= MaxQueue
    BY <1>3, <1>5, QueueTyped DEF Queues
  <1>7. cache' \in [Sids -> {"none", "live", "revoked"}]
    BY <1>2, RevokedTyped
  <1>8. slipped' \subseteq Sids
    BY <1>4, <1>5, SessionTypes, Types DEF Queues
  <1>9. changes' \in 0 .. MaxChanges
    BY <1>2, Types, LimitsAssumption
  <1>10. overlapped' \in BOOLEAN
    BY <1>2 DEF Removal
  <1> QED BY <1>2, <1>6, <1>7, <1>8, <1>9, <1>10, Types, TypesNext

LEMMA CreateTyped ==
  ASSUME TypeOK, NEW x \in Opened, NEW u \in Users, NEW role \in Roles,
         NEW password \in Passwords, CreateUser(x, u, role, password)
  PROVE  TypeOK'
  <1> DEFINE account == [role |-> role, status |-> "active", password |-> password]
             op == [op |-> "create", user |-> u, account |-> account]
  <1>1. op \in Ops
    <2>1. account \in Account
      BY DEF Account, Statuses
    <2> HIDE DEF account
    <2> QED BY <2>1 DEF Ops
  <1>2. /\ queue' = Append(queue, op) /\ Len(queue) < MaxQueue
        /\ changes < MaxChanges /\ changes' = changes + 1
        /\ UNCHANGED <<users, cache, rows, opened, expired, raced, kept, patch, slipped, demoted, overlapped>>
    BY DEF CreateUser, Accepted, Room, sessionVars
  <1> HIDE DEF op
  <1>3. queue \in Seq(Ops) /\ Len(queue) \in Nat
    BY SessionTypes
  <1>4. queue' \in Seq(Ops) /\ Len(queue') = Len(queue) + 1
    BY <1>1, <1>2, <1>3
  <1>5. Len(queue') <= MaxQueue
    BY <1>2, <1>3, <1>4, LimitsAssumption
  <1>6. changes' \in 0 .. MaxChanges
    BY <1>2, Types, LimitsAssumption
  <1> QED BY <1>2, <1>4, <1>5, <1>6, Types, TypesNext

LEMMA UpdateTyped ==
  ASSUME TypeOK, NEW fields \in Bodies, FinishUpdate(fields)
  PROVE  TypeOK'
  <1> DEFINE u == patch.target
             dying == LiveOf(u) \ Spared(fields)
             op == [op |-> "update", user |-> u, fields |-> fields]
             ops == <<op>>
  <1>1. patch \in Patch
    BY DEF FinishUpdate, TypeOK
  <1>2. u \in Users /\ patch.sid \in Sids
    BY <1>1 DEF Patch
  <1>3. op \in Ops
    <2> HIDE DEF u
    <2> QED BY <1>2 DEF Ops
  <1>4. /\ cache' = Revoked(dying) /\ Revoke(dying, ops)
        /\ changes < MaxChanges /\ changes' = changes + 1
        /\ UNCHANGED <<users, rows, expired, raced>> /\ patch' = NoPatch
        /\ opened' = [s \in Opened |->
             IF s \in Spared(fields) /\ "password" \in DOMAIN fields
             THEN [opened[s] EXCEPT !.passwords = @ \cup {fields.password}]
             ELSE opened[s]]
        /\ kept' \subseteq kept \cup Spared(fields)
        /\ demoted' = (demoted \/ "role" \in DOMAIN fields)
        /\ Removal(u) \/ overlapped' = overlapped
    BY DEF FinishUpdate, Accepted
  <1> HIDE DEF u, op, dying
  <1>5. ops \in Seq(Ops)
    BY <1>3
  <1> HIDE DEF ops
  <1>6. dying \in SUBSET Opened
    BY DEF dying, LiveOf
  <1>7. PICK more \in Seq(Ops) : Queues(dying, ops, more)
    BY <1>4, <1>5, <1>6, RevokeQueues
  <1>8. queue' \in Seq(Ops) /\ Len(queue') <= MaxQueue
    BY <1>5, <1>7, QueueTyped DEF Queues
  <1>9. cache' \in [Sids -> {"none", "live", "revoked"}]
    BY <1>4, RevokedTyped
  <1>10. slipped' \subseteq Sids
    BY <1>6, <1>7, SessionTypes, Types DEF Queues
  <1>11. kept' \subseteq Sids
    <2>1. Spared(fields) \subseteq Sids
      BY <1>2 DEF Spared
    <2> QED BY <1>4, <2>1, Types
  <1>12. changes' \in 0 .. MaxChanges
    BY <1>4, Types, LimitsAssumption
  <1>13. demoted' \in BOOLEAN /\ overlapped' \in BOOLEAN
    <2>1. overlapped' \in BOOLEAN
      BY <1>4, Types DEF Removal
    <2>2. demoted' \in BOOLEAN
      BY <1>4
    <2> QED BY <2>1, <2>2
  <1>14. opened' \in Seq(SessionRecord) /\ Len(opened') <= MaxSid
    <2>1. /\ opened \in Seq(SessionRecord) /\ Len(opened) <= MaxSid /\ Len(opened) \in Nat
          /\ \A s \in Opened : opened[s] \in SessionRecord
      BY Types DEF Opened
    <2>2. ASSUME NEW s \in Opened PROVE opened'[s] \in SessionRecord
      <3>1. CASE s \in Spared(fields) /\ "password" \in DOMAIN fields
        <4>1. opened'[s] = [opened[s] EXCEPT !.passwords = @ \cup {fields.password}]
          BY <1>4, <3>1
        <4>2. opened[s].passwords \cup {fields.password} \in SUBSET Passwords
          BY <2>1, <3>1, BodyFields DEF SessionRecord
        <4> QED BY <2>1, <4>1, <4>2 DEF SessionRecord
      <3>2. CASE ~(s \in Spared(fields) /\ "password" \in DOMAIN fields)
        BY <1>4, <2>1, <3>2
      <3> QED BY <3>1, <3>2
    <2>3. opened' \in [1 .. Len(opened) -> SessionRecord]
      <3>1. DOMAIN opened' = Opened /\ opened' = [s \in Opened |-> opened'[s]]
        BY <1>4
      <3> QED BY <2>2, <3>1 DEF Opened
    <2> QED BY <2>1, <2>3
  <1> QED BY <1>4, <1>8, <1>9, <1>10, <1>11, <1>12, <1>13, <1>14, Types, TypesNext

LEMMA WriteTyped ==
  ASSUME TypeOK, Write
  PROVE  TypeOK'
  <1> DEFINE op == queue[1]
  <1>1. /\ Len(queue) \in Nat \ {0} /\ op \in Ops
        /\ queue' \in Seq(Ops) /\ Len(queue') = Len(queue) - 1
        /\ users' = UserWritten(users, op) /\ rows' = SessionWritten(rows, op)
        /\ UNCHANGED <<cache, opened, expired, raced, kept, patch, slipped, changes, demoted, overlapped>>
    BY Shifted DEF sessionVars, accountVars
  <1> HIDE DEF op
  <1>2. users' \in Tables
    BY <1>1, Types, UserWrittenIs
  <1>3. rows' \in [Sids -> {"none", "live", "revoked"}]
    <2>1. op.op \in {"open", "revoke"} => op.sid \in Sids
      BY <1>1, OpKinds
    <2> QED BY <1>1, <2>1, Types DEF SessionWritten
  <1>4. Len(queue') <= MaxQueue
    BY <1>1, Types, LimitsAssumption
  <1> QED BY <1>1, <1>2, <1>3, <1>4, Types, TypesNext

LEMMA RestartTyped ==
  ASSUME TypeOK, Restart
  PROVE  TypeOK'
  <1>1. users' \in Tables /\ queue' \in Seq(Ops) /\ Len(queue') = 0
    BY RestartTypes
  <1>2. /\ cache' \in {Loaded, [s \in Sids |-> "none"]} /\ patch' = NoPatch
        /\ slipped' = slipped \cup Unwritten \cup {s \in Sids : cache'[s] # Loaded[s]}
        /\ UNCHANGED <<rows, opened, expired, raced, kept, changes, demoted, overlapped>>
    BY DEF Restart, sessionVars, accountVars
  <1>3. cache' \in [Sids -> {"none", "live", "revoked"}]
    BY <1>2 DEF Loaded
  <1>4. Unwritten \subseteq Sids
    <2> SUFFICES ASSUME NEW i \in DOMAIN queue, queue[i].op = "revoke" PROVE queue[i].sid \in Sids
      BY DEF Unwritten
    <2>1. queue[i] \in Ops
      BY SessionTypes
    <2> QED BY <2>1, OpKinds
  <1>5. slipped' \subseteq Sids
    BY <1>2, <1>4, Types
  <1> QED BY <1>1, <1>2, <1>3, <1>5, Types, TypesNext, LimitsAssumption

LEMMA BeginTyped ==
  ASSUME TypeOK, NEW x \in Opened, NEW u \in Users, BeginUpdate(x, u)
  PROVE  TypeOK'
  <1>1. x \in Sids
    BY SessionTypes
  <1>2. /\ patch' = [sid |-> x, target |-> u, role |-> RoleOf(x)] /\ RoleOf(x) \in Roles
        /\ UNCHANGED <<users, cache, rows, opened, expired, raced, kept, queue, slipped,
                       changes, demoted, overlapped>>
    BY DEF BeginUpdate, sessionVars, accountVars
  <1>3. patch' \in Patch
    BY <1>1, <1>2 DEF Patch
  <1> QED BY <1>2, <1>3, Types, TypesNext

LEMMA ExpireTyped ==
  ASSUME TypeOK, NEW x \in Opened, Expire(x)
  PROVE  TypeOK'
  <1>1. x \in Sids
    BY SessionTypes
  <1>2. /\ expired' = expired \cup {x}
        /\ raced' = raced \ {x} /\ kept' = kept \ {x} /\ slipped' = slipped \ {x}
        /\ UNCHANGED <<users, cache, rows, opened, queue, patch, changes, demoted, overlapped>>
    BY DEF Expire, accountVars
  <1> QED BY <1>1, <1>2, Types, TypesNext

-----------------------------------------------------------------------------
(***************************************************************************)
(* Theorems                                                                *)
(***************************************************************************)

LEMMA InitEstablishes == Init => IInv
  <1> SUFFICES ASSUME Init PROVE IInv
    OBVIOUS
  <1>1. /\ users \in {[u \in Users |-> IF u = Bootstrap THEN FirstAdmin ELSE other] :
                       other \in {Absent, FirstAdmin}}
        /\ cache = [s \in Sids |-> "none"] /\ rows = [s \in Sids |-> "none"]
        /\ expired = {} /\ opened = <<>> /\ queue = <<>> /\ patch = NoPatch
        /\ changes = 0 /\ raced = {} /\ kept = {} /\ slipped = {}
        /\ demoted = FALSE /\ overlapped = FALSE
    BY DEF Init
  <1>2. PICK other \in {Absent, FirstAdmin} :
          users = [u \in Users |-> IF u = Bootstrap THEN FirstAdmin ELSE other]
    BY <1>1
  <1>3. FirstAdmin \in Account /\ FirstAdmin.role = "admin" /\ FirstAdmin.status = "active"
    BY UsersAssumption DEF FirstAdmin, Account, Statuses
  <1>4. users \in Tables
    BY <1>2, <1>3 DEF Tables, Accts
  <1>5. Opened = {} /\ DOMAIN queue = {} /\ Len(queue) = 0 /\ queue \in Seq(Ops)
        /\ opened \in Seq(SessionRecord) /\ Len(opened) = 0
    BY <1>1 DEF Opened
  <1>6. TypeOK
    <2>1. cache \in [Sids -> {"none", "live", "revoked"}] /\ rows \in [Sids -> {"none", "live", "revoked"}]
      BY <1>1
    <2>2. Len(opened) <= MaxSid /\ Len(queue) <= MaxQueue
      BY <1>5, LimitsAssumption
    <2>3. changes \in 0 .. MaxChanges /\ patch \in Patch \cup {NoPatch}
      BY <1>1, LimitsAssumption
    <2>4. /\ expired \subseteq Sids /\ raced \subseteq Sids /\ kept \subseteq Sids /\ slipped \subseteq Sids
          /\ demoted \in BOOLEAN /\ overlapped \in BOOLEAN
      BY <1>1
    <2> QED BY <1>4, <1>5, <2>1, <2>2, <2>3, <2>4, Types
  <1>7. AccountInv
    <2>1. Bootstrap \in ActiveAdmins
      BY <1>2, <1>3, UsersAssumption DEF ActiveAdmins
    <2> QED BY <1>5, <2>1 DEF AccountInv, QueuedInOrder, Safeguarded
  <1>8. SessionInv
    BY <1>1, <1>5 DEF SessionInv, LiveFit, RowsFit, RowsLive, Unopened, OpenFirst
  <1>9. SessionsLimited
    <2>1. \A u \in Users : LiveOf(u) \ slipped = {}
      BY <1>5 DEF LiveOf
    <2>2. Cardinality({}) = 0
      BY FS_EmptySet
    <2> QED BY <2>1, <2>2, LimitsAssumption DEF SessionsLimited
  <1> QED BY <1>6, <1>7, <1>8, <1>9 DEF IInv

LEMMA EndKeeps ==
  ASSUME IInv, NEW x \in Opened,
         cache' = Revoked({x}), Revoke({x}, <<>>),
         UNCHANGED <<users, rows, sessionVars, patch, accountVars>>
  PROVE  IInv'
  <1> DEFINE none == <<>>
  <1>1. TypeOK /\ AccountInv /\ SessionInv /\ SessionsLimited
    BY DEF IInv
  <1>2. {x} \in SUBSET Opened /\ none \in Seq(Ops) /\ Revoke({x}, none)
    OBVIOUS
  <1>3. PICK more \in Seq(Ops) : Queues({x}, none, more)
    <2> HIDE DEF none
    <2> QED BY <1>1, <1>2, RevokeQueues
  <1>4. UNCHANGED <<users, opened, expired, demoted, overlapped>> /\ slipped \subseteq slipped'
    BY <1>3 DEF sessionVars, accountVars, Queues
  <1>5. TypeOK'
    BY <1>1, EndTyped
  <1>6. AccountInv'
    <2>1. Adds(<<>>, more)
      BY <1>3 DEF Queues, Adds
    <2> QED BY <1>1, <1>4, <2>1, NothingKeepsAccounts
  <1>7. SessionInv'
    BY <1>1, EndKeepsSessions
  <1>8. SessionsLimited'
    <2>1. Len(opened') = Len(opened) /\ \A s \in Opened : opened'[s].user = UserOf(s)
      BY <1>4 DEF UserOf
    <2> QED BY <1>1, <1>2, <1>4, <2>1, RevokingKeepsLimit
  <1> QED BY <1>5, <1>6, <1>7, <1>8 DEF IInv

LEMMA QuietKeeps ==
  ASSUME IInv, TypeOK', UNCHANGED <<users, cache, rows, sessionVars, queue, slipped, demoted, overlapped>>
  PROVE  IInv'
  <1>1. TypeOK /\ AccountInv /\ SessionInv /\ SessionsLimited
    BY DEF IInv
  <1>2. UNCHANGED <<users, queue, demoted, overlapped, cache, opened, expired, slipped>>
    BY DEF sessionVars
  <1>3. AccountInv'
    BY <1>1, <1>2, QuietKeepsAccounts
  <1>4. SessionInv'
    BY <1>1, QuietKeepsSessions
  <1>5. SessionsLimited'
    BY <1>1, <1>2 DEF SessionsLimited, LiveOf, Authentic, UserOf, Opened
  <1> QED BY <1>3, <1>4, <1>5 DEF IInv

LEMMA NextPreserves == IInv /\ [Next]_vars => IInv'
  <1> SUFFICES ASSUME IInv, [Next]_vars PROVE IInv'
    OBVIOUS
  <1>1. TypeOK /\ AccountInv /\ SessionInv /\ SessionsLimited /\ QueuedInOrder
    BY DEF IInv, AccountInv
  <1>2. ASSUME NEW u \in Users, Login(u) PROVE IInv'
    <2>1. PICK more \in Seq(Ops) : LoginQueues(u, more)
      BY <1>1, <1>2, LoginQueued
    <2>2. Adds(<<>>, more)
      BY <2>1 DEF LoginQueues, Adds
    <2>3. users' = users /\ demoted' = demoted /\ overlapped' = overlapped
      BY <1>2 DEF Login, accountVars
    <2>4. AccountInv'
      BY <1>1, <2>2, <2>3, NothingKeepsAccounts
    <2> QED BY <1>1, <1>2, <2>4, LoginTyped, LoginKeepsSessions, LoginKeepsLimit DEF IInv
  <1>3. ASSUME NEW s \in Opened, Logout(s) PROVE IInv'
    BY <1>3, EndKeeps DEF Logout
  <1>4. ASSUME NEW s \in Opened, EndSession(s) PROVE IInv'
    BY <1>4, EndKeeps DEF EndSession
  <1>5. ASSUME NEW s \in Opened, Expire(s) PROVE IInv'
    <2>1. /\ UNCHANGED <<users, cache, opened, queue, demoted, overlapped>>
          /\ expired' = expired \cup {s} /\ slipped' = slipped \ {s}
      BY <1>5 DEF Expire, accountVars
    <2>2. AccountInv'
      BY <1>1, <2>1, QuietKeepsAccounts
    <2>3. \A u \in Users : (LiveOf(u) \ slipped)' \subseteq LiveOf(u) \ slipped
      BY <2>1 DEF LiveOf, Authentic, UserOf, Opened
    <2>4. SessionsLimited'
      BY <1>1, <2>3, FewerKeepLimit
    <2> QED BY <1>1, <1>5, <2>2, <2>4, ExpireTyped, ExpireKeepsSessions DEF IInv
  <1>6. ASSUME NEW s \in Opened, NEW u \in Users, BeginUpdate(s, u) PROVE IInv'
    <2>1. UNCHANGED <<users, cache, rows, sessionVars, queue, slipped, demoted, overlapped>>
      BY <1>6 DEF BeginUpdate, accountVars
    <2>2. TypeOK'
      BY <1>1, <1>6, BeginTyped
    <2> QED BY <2>1, <2>2, QuietKeeps
  <1>7. ASSUME NEW s \in Opened, NEW u \in Users, DeleteUser(s, u) PROVE IInv'
    <2>1. LiveOf(u) \in SUBSET Opened
      BY DEF LiveOf
    <2> DEFINE ops == <<[op |-> "delete", user |-> u]>>
    <2>2. /\ cache' = Revoked(LiveOf(u)) /\ Revoke(LiveOf(u), ops)
          /\ opened' = opened /\ expired' = expired
      BY <1>7 DEF DeleteUser, sessionVars
    <2>3. slipped \subseteq slipped'
      BY <2>2 DEF Revoke
    <2>4. Len(opened') = Len(opened) /\ \A x \in Opened : opened'[x].user = UserOf(x)
      BY <2>2 DEF UserOf
    <2>5. SessionsLimited'
      BY <1>1, <2>1, <2>2, <2>3, <2>4, RevokingKeepsLimit
    <2> QED BY <1>1, <1>7, <2>5, DeleteTyped, DeleteKeepsAccounts, DeleteKeepsSessions DEF IInv
  <1>8. ASSUME NEW s \in Opened, NEW u \in Users, NEW role \in Roles, NEW password \in Passwords,
               CreateUser(s, u, role, password)
        PROVE  IInv'
    <2>1. UNCHANGED <<cache, opened, expired, slipped>>
      BY <1>8 DEF CreateUser, sessionVars
    <2>2. SessionsLimited'
      BY <1>1, <2>1 DEF SessionsLimited, LiveOf, Authentic, UserOf, Opened
    <2> QED BY <1>1, <1>8, <2>2, CreateTyped, CreateKeepsAccounts, CreateKeepsSessions DEF IInv
  <1>9. ASSUME NEW fields \in Bodies, FinishUpdate(fields) PROVE IInv'
    <2> DEFINE dying == LiveOf(patch.target) \ Spared(fields)
               ops == <<[op |-> "update", user |-> patch.target, fields |-> fields]>>
    <2>1. dying \in SUBSET Opened
      BY DEF LiveOf
    <2>2. /\ cache' = Revoked(dying) /\ Revoke(dying, ops) /\ expired' = expired
          /\ opened' = [s \in Opened |->
               IF s \in Spared(fields) /\ "password" \in DOMAIN fields
               THEN [opened[s] EXCEPT !.passwords = @ \cup {fields.password}]
               ELSE opened[s]]
      BY <1>9 DEF FinishUpdate
    <2> HIDE DEF dying, ops
    <2>3. slipped \subseteq slipped'
      BY <2>2 DEF Revoke
    <2>4. /\ opened \in Seq(SessionRecord) /\ Len(opened) \in Nat
          /\ \A s \in Opened : opened[s] \in SessionRecord
      BY <1>1, Types DEF Opened
    <2>5. Len(opened') = Len(opened)
      BY <2>2, <2>4 DEF Opened
    <2>6. ASSUME NEW s \in Opened PROVE opened'[s].user = UserOf(s)
      <3>1. opened[s] \in [user : Users, passwords : SUBSET Passwords]
        BY <2>4 DEF SessionRecord
      <3>2. CASE s \in Spared(fields) /\ "password" \in DOMAIN fields
        <4>1. opened'[s] = [opened[s] EXCEPT !.passwords = @ \cup {fields.password}]
          BY <2>2, <3>2
        <4> QED BY <3>1, <4>1 DEF UserOf
      <3>3. CASE ~(s \in Spared(fields) /\ "password" \in DOMAIN fields)
        BY <2>2, <3>3 DEF UserOf
      <3> QED BY <3>2, <3>3
    <2>7. SessionsLimited'
      BY <1>1, <2>1, <2>2, <2>3, <2>5, <2>6, RevokingKeepsLimit
    <2> QED BY <1>1, <1>9, <2>7, UpdateTyped, UpdateKeepsAccounts, UpdateKeepsSessions DEF IInv
  <1>10. CASE AbandonUpdate
    <2>1. /\ UNCHANGED <<users, cache, rows, sessionVars, queue, slipped, demoted, overlapped>>
          /\ UNCHANGED <<opened, expired, raced, kept, changes>> /\ patch' = NoPatch
      BY <1>10 DEF AbandonUpdate, accountVars, sessionVars
    <2>2. TypeOK'
      BY <1>1, <2>1, Types, TypesNext
    <2> QED BY <2>1, <2>2, QuietKeeps
  <1>11. CASE Write
    <2>1. UNCHANGED <<cache, opened, expired, slipped>>
      BY <1>11 DEF Write, sessionVars
    <2>2. SessionsLimited'
      BY <1>1, <2>1 DEF SessionsLimited, LiveOf, Authentic, UserOf, Opened
    <2> QED BY <1>1, <1>11, <2>2, WriteTyped, WriteKeepsAccounts, WriteKeepsSessions DEF IInv
  <1>12. CASE Restart
    BY <1>1, <1>12, RestartTyped, RestartKeepsAccounts, RestartKeepsSessions, RestartKeepsLimit
       DEF IInv
  <1>13. CASE UNCHANGED vars
    <2>1. /\ UNCHANGED <<users, cache, rows, sessionVars, queue, slipped, demoted, overlapped>>
          /\ UNCHANGED <<opened, expired, raced, kept, changes, patch>>
      BY <1>13 DEF vars, accountVars, sessionVars
    <2>2. TypeOK'
      BY <1>1, <2>1, Types, TypesNext
    <2> QED BY <2>1, <2>2, QuietKeeps
  <1>14. CASE Administer
    BY <1>6, <1>7, <1>8, <1>9, <1>10, <1>14 DEF Administer
  <1> QED BY <1>2, <1>3, <1>4, <1>5, <1>11, <1>12, <1>13, <1>14 DEF Next

\* The inductive invariant holds in every behaviour.
THEOREM Invariance == Spec => []IInv
  BY InitEstablishes, NextPreserves, PTL DEF Spec

\* Type correctness: accounts, sessions and their rows, the queue within its
\* limit, and the request in flight.
THEOREM TypeCorrect == Spec => []TypeOK
  <1>1. IInv => TypeOK
    BY DEF IInv
  <1> QED BY <1>1, Invariance, PTL

\* A session does not outlive its account's record, over restarts and names
\* that are used again, but by one of the three ways out that are known.
THEOREM NoneOutlivesItsAccount == Spec => []RepudiatedSessionsDie
  <1>1. IInv => RepudiatedSessionsDie
    BY DEF IInv, SessionInv, LiveFit, Fits, RepudiatedSessionsDie, InForce
  <1> QED BY <1>1, Invariance, PTL

\* No user has more sessions than the limit, over restarts too, but for those
\* whose revocation was lost.
THEOREM LimitHolds == Spec => []SessionsLimited
  <1>1. IInv => SessionsLimited
    BY DEF IInv
  <1> QED BY <1>1, Invariance, PTL

\* Once all that is queued is written someone can still sign in to administer.
THEOREM SomeoneAdministers == Spec => []AdminRemains
  <1>1. IInv => AdminRemains
    <2> SUFFICES ASSUME IInv, ~demoted, ~overlapped
                 PROVE  \E u \in Users : Accounts[u].role = "admin" /\ Accounts[u].status = "active"
      BY DEF AdminRemains
    <2>1. PICK w \in ActiveAdmins : \A i \in DOMAIN queue : Harmless(queue[i], w)
      BY DEF IInv, AccountInv, Safeguarded
    <2>2. TypeOK /\ w \in Users /\ users[w].role = "admin" /\ users[w].status = "active"
      BY DEF IInv, ActiveAdmins
    <2>3. queue \in Seq(Ops) /\ users \in Tables /\ Len(queue) \in Nat /\ DOMAIN queue = 1 .. Len(queue)
      BY <2>2, SessionTypes, AccountsTyped
    <2> DEFINE p == Past(users, queue)
               H == {n \in 0 .. Len(queue) : p[n][w].role = "admin" /\ p[n][w].status = "active"}
    <2>4. /\ p \in [0 .. Len(queue) -> Tables] /\ p[0] = users
          /\ \A n \in 1 .. Len(queue) : p[n] = UserWritten(p[n - 1], queue[n])
      BY <2>3, PastIs
    <2>5. Accounts = p[Len(queue)]
      BY AccountsLast
    <2> HIDE DEF p
    <2>6. 0 \in H
      BY <2>2, <2>3, <2>4
    <2>7. ASSUME NEW n \in 1 .. Len(queue), n - 1 \in H PROVE n \in H
      <3>1. n \in 0 .. Len(queue) /\ p[n - 1] \in Tables /\ queue[n] \in Ops /\ Harmless(queue[n], w)
        BY <2>1, <2>3, <2>4, <2>7
      <3>2. p[n - 1][w].role = "admin" /\ p[n - 1][w].status = "active"
        BY <2>7
      <3>3. p[n][w].role = "admin" /\ p[n][w].status = "active"
        BY <2>2, <2>4, <3>1, <3>2, HarmlessKeeps
      <3> QED BY <3>1, <3>3
    <2> HIDE DEF H
    <2>8. \A n \in 1 .. Len(queue) : n - 1 \in H => n \in H
      BY <2>7
    <2>9. \A n \in 0 .. Len(queue) : n \in H
      BY <2>3, <2>6, <2>8, UpTo
    <2>10. Len(queue) \in H
      BY <2>3, <2>9
    <2> QED BY <2>2, <2>5, <2>10 DEF H
  <1> QED BY <1>1, Invariance, PTL

=============================================================================
