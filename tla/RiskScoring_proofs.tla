------------------------ MODULE RiskScoring_proofs ------------------------
(***************************************************************************)
(* Theorems about RiskScoring for every table size, threshold, duration    *)
(* and number of identities.                                               *)
(*                                                                         *)
(* The inductive invariant IInv adds two facts to the invariants that are  *)
(* checked: keys outside the table have a blank entry, and no identity has *)
(* a score on a vhost that it did not earn there.                          *)
(***************************************************************************)
EXTENDS RiskScoring, FiniteSetTheorems, TLAPS

\* Keys outside the table have no state of their own.
AbsentBlank == \A k \in Ids \ live : st[k] = Blank

\* The score of a vhost has been earned there, down to the last point.
ScoreEarned ==
  \A k \in live, v \in Vhosts :
    \/ earned[k][v] = RISK_BAN_THRESHOLD
    \/ st[k].risk[v] <= earned[k][v]

IInv == TypeOK /\ AbsentBlank /\ IndexComplete /\ ScoreEarned /\ VhostIsolation

-----------------------------------------------------------------------------
(***************************************************************************)
(* Types of the building blocks                                            *)
(***************************************************************************)

LEMMA BlankType ==
  /\ Blank \in IpState
  /\ NothingEarned \in [Scopes -> 0 .. RISK_BAN_THRESHOLD]
BY BoundsAssumption, ThresholdsAssumption DEF Blank, IpState, NothingEarned

LEMMA EntryType ==
  ASSUME TypeOK, NEW k \in Ids
  PROVE  Entry(k) \in IpState
<1>1. CASE k \in live
  BY <1>1 DEF TypeOK, Entry
<1>2. CASE k \notin live
  <2>1. [Blank EXCEPT !.lastSeen = now, !.lastRisk = now] \in IpState
    <3>1. now \in Nat /\ Blank \in IpState
      BY BlankType, BoundsAssumption DEF TypeOK
    <3> HIDE DEF Blank
    <3> QED
      BY <3>1 DEF IpState
  <2> QED
    BY <1>2, <2>1 DEF Entry
<1> QED
  BY <1>1, <1>2

\* An access to k keeps the table within its capacity.
LEMMA RoomForBound ==
  ASSUME TypeOK, NEW k \in Ids, NEW keep \in RoomFor(k)
  PROVE  /\ keep \subseteq Ids
         /\ k \in keep
         /\ keep \subseteq live \cup {k}
         /\ Cardinality(keep) <= MAX_IDENTITIES
<1>1. IsFiniteSet(live) /\ Cardinality(live) \in Nat
  BY FS_Subset, FS_CardinalityType, TableAssumption DEF TypeOK
<1>2. CASE k \in live \/ Cardinality(live) < MAX_IDENTITIES
  <2>1. keep = live \cup {k}
    BY <1>2 DEF RoomFor
  <2>2. Cardinality(live \cup {k}) = IF k \in live THEN Cardinality(live)
                                     ELSE Cardinality(live) + 1
    BY <1>1, FS_AddElement
  <2> QED
    BY <1>1, <1>2, <2>1, <2>2, TableAssumption DEF TypeOK
<1>3. CASE ~(k \in live \/ Cardinality(live) < MAX_IDENTITIES)
  <2>1. PICK victim \in live : keep = (live \ {victim}) \cup {k}
    BY <1>3 DEF RoomFor
  <2>2. /\ IsFiniteSet(live \ {victim})
        /\ Cardinality(live \ {victim}) = Cardinality(live) - 1
    BY <1>1, FS_RemoveElement
  <2>3. Cardinality((live \ {victim}) \cup {k}) = Cardinality(live \ {victim}) + 1
    <3>1. k \notin live \ {victim}
      BY <1>3
    <3> QED
      BY <2>2, <3>1, FS_AddElement
  <2>4. Cardinality(keep) = Cardinality(live)
    BY <1>1, <2>1, <2>2, <2>3
  <2> QED
    BY <2>1, <2>4 DEF TypeOK
<1> QED
  BY <1>2, <1>3

\* Decay never raises a score.
LEMMA DecaysBound ==
  ASSUME NEW e \in IpState, now \in Nat, NEW d \in Decays(e)
  PROVE  /\ d \in [Scopes -> 0 .. MaxRisk]
         /\ \A s \in Scopes : d[s] <= e.risk[s]
<1>1. e.risk \in [Scopes -> 0 .. MaxRisk]
  BY DEF IpState
<1>2. /\ d \in [Scopes -> 0 .. MaxRisk]
      /\ \A s \in Scopes : d[s] <= IF now = e.lastRisk THEN e.risk[s] ELSE e.risk[s] \div 2
  BY DEF Decays
<1>3. \A n \in Nat : n \div 2 <= n /\ n \div 2 \in Nat
  OBVIOUS
<1>4. ASSUME NEW s \in Scopes PROVE d[s] <= e.risk[s]
  <2>1. e.risk[s] \in Nat /\ d[s] \in Nat
    BY <1>1, <1>2, BoundsAssumption
  <2> QED
    BY <1>2, <1>3, <2>1
<1> QED
  BY <1>2, <1>4

\* Installing an entry of the right type keeps the table well typed.
LEMMA InstallType ==
  ASSUME TypeOK, NEW k \in Ids, NEW keep \in RoomFor(k), NEW e \in IpState,
         Install(keep, k, e)
  PROVE  /\ live' \subseteq Ids /\ Cardinality(live') <= MAX_IDENTITIES
         /\ st' \in [Ids -> IpState]
BY RoomForBound, BlankType DEF Install, TypeOK

-----------------------------------------------------------------------------
(***************************************************************************)
(* Type correctness                                                        *)
(***************************************************************************)

LEMMA AddEarnedType ==
  ASSUME NEW n \in 0 .. RISK_BAN_THRESHOLD, NEW w \in Nat
  PROVE  AddEarned(n, w) \in 0 .. RISK_BAN_THRESHOLD
BY ThresholdsAssumption DEF AddEarned

LEMMA EarnedWithinType ==
  ASSUME NEW keep, NEW new \in [Ids -> [Scopes -> 0 .. RISK_BAN_THRESHOLD]],
         EarnedWithin(keep, new)
  PROVE  earned' \in [Ids -> [Scopes -> 0 .. RISK_BAN_THRESHOLD]]
BY BlankType DEF EarnedWithin

LEMMA UpdateRiskType ==
  ASSUME TypeOK, NEW k \in Ids, NEW w \in Weights, NEW sev \in Severities,
         NEW ip \in IPs, NEW sc \in Scopes, UpdateRisk(k, w, sev, ip, sc)
  PROVE  TypeOK'
<1> DEFINE scored == {Global, sc}
           score(d) == [s \in Scopes |-> IF s \in scored THEN d[s] + w ELSE d[s]]
           hit(d, keep) == /\ score(d)[sc] >= ThresholdAt(ip, keep)
                           /\ MayBan(Entry(k), sc)
           entry(d, keep) ==
             [Entry(k) EXCEPT !.risk = score(d), !.lastRisk = now,
                              !.until[sc] = IF hit(d, keep) THEN now + BanSecs[sev] ELSE @]
           more == [earned EXCEPT ![k] = [s \in Scopes |->
                      IF s \in scored THEN AddEarned(@[s], w) ELSE @[s]]]
<1>1. PICK keep \in RoomFor(k), d \in Decays(Entry(k)) :
        /\ score(d) \in [Scopes -> 0 .. MaxRisk]
        /\ Install(keep, k, entry(d, keep))
        /\ EarnedWithin(keep, more)
        /\ UNCHANGED <<now, index>>
  BY DEF UpdateRisk
<1>2. Entry(k) \in IpState
  BY EntryType
<1>3. now \in Nat /\ BanSecs[sev] \in Nat
  BY BoundsAssumption, DurationsAssumption DEF TypeOK
<1>4. entry(d, keep) \in IpState
  <2> DEFINE ban == hit(d, keep)
             new == score(d)
  <2>1. new \in [Scopes -> 0 .. MaxRisk]
    BY <1>1
  <2>2. [Entry(k) EXCEPT !.risk = new, !.lastRisk = now,
                         !.until[sc] = IF ban THEN now + BanSecs[sev] ELSE @] \in IpState
    <3> DEFINE e == Entry(k)
               end == IF ban THEN now + BanSecs[sev] ELSE e.until[sc]
    <3>1. end \in Nat
      BY <1>2, <1>3 DEF IpState
    <3> HIDE DEF ban, new, e, end
    <3>2. e \in IpState
      BY <1>2 DEF e
    <3>3. [e EXCEPT !.risk = new, !.lastRisk = now, !.until[sc] = end] \in IpState
      BY <1>3, <2>1, <3>1, <3>2 DEF IpState
    <3> QED
      BY <3>3 DEF e, end
  <2> QED
    BY <2>2
<1>5. more \in [Ids -> [Scopes -> 0 .. RISK_BAN_THRESHOLD]]
  <2>1. w \in Nat
    BY BoundsAssumption
  <2>2. ASSUME NEW s \in Scopes
        PROVE  (IF s \in scored THEN AddEarned(earned[k][s], w) ELSE earned[k][s])
                 \in 0 .. RISK_BAN_THRESHOLD
    BY <2>1, AddEarnedType DEF TypeOK
  <2> QED
    BY <2>2 DEF TypeOK
<1>6. /\ live' \subseteq Ids /\ Cardinality(live') <= MAX_IDENTITIES
      /\ st' \in [Ids -> IpState]
  <2> HIDE DEF entry
  <2> QED
    BY <1>1, <1>4, InstallType
<1>7. earned' \in [Ids -> [Scopes -> 0 .. RISK_BAN_THRESHOLD]]
  <2> HIDE DEF more
  <2> QED
    BY <1>1, <1>5, EarnedWithinType
<1> QED
  BY <1>1, <1>6, <1>7 DEF TypeOK

LEMMA ArriveType ==
  ASSUME TypeOK, NEW k \in Ids, NEW isStatic \in BOOLEAN, Arrive(k, isStatic)
  PROVE  TypeOK'
<1> DEFINE entry == [Entry(k) EXCEPT !.static = @ \/ isStatic]
<1>1. PICK keep \in RoomFor(k) :
        Install(keep, k, entry) /\ EarnedWithin(keep, earned) /\ UNCHANGED <<now, index>>
  BY DEF Arrive
<1>2. entry \in IpState
  <2>1. Entry(k).static \/ isStatic \in BOOLEAN
    BY EntryType DEF IpState
  <2> QED
    BY <2>1, EntryType DEF IpState
<1>3. /\ live' \subseteq Ids /\ Cardinality(live') <= MAX_IDENTITIES
      /\ st' \in [Ids -> IpState]
  BY <1>1, <1>2, InstallType
<1>4. earned' \in [Ids -> [Scopes -> 0 .. RISK_BAN_THRESHOLD]]
  BY <1>1, EarnedWithinType DEF TypeOK
<1> QED
  BY <1>1, <1>3, <1>4 DEF TypeOK

LEMMA RecordType ==
  ASSUME TypeOK, NEW k \in Ids, NEW ip \in IPs, NEW isAllowed \in BOOLEAN,
         Record(k, ip, isAllowed)
  PROVE  TypeOK'
<1> DEFINE e == Entry(k)
           hot == e.risk[Global] > 0
           entry(d) == [e EXCEPT !.risk = d,
                                 !.lastRisk = IF hot THEN now ELSE @,
                                 !.lastSeen = now,
                                 !.lastIp = ip,
                                 !.allowed = IF isAllowed /\ @ < AllowedForNat
                                             THEN @ + 1 ELSE @]
<1>1. PICK keep \in RoomFor(k), d \in (IF hot THEN Decays(e) ELSE {e.risk}) :
        /\ Install(keep, k, entry(d))
        /\ index' = Reindexed(k, e.lastIp, ip)
        /\ EarnedWithin(keep, earned)
        /\ now' = now
  BY DEF Record
<1>2. e \in IpState /\ now \in Nat
  BY EntryType, BoundsAssumption DEF TypeOK
<1>3. d \in [Scopes -> 0 .. MaxRisk]
  <2>1. CASE hot
    BY <1>1, <1>2, <2>1, DecaysBound
  <2>2. CASE ~hot
    BY <1>1, <1>2, <2>2 DEF IpState
  <2> QED
    BY <2>1, <2>2
<1>4. entry(d) \in IpState
  <2> DEFINE stamp == IF hot THEN now ELSE e.lastRisk
             count == IF isAllowed /\ e.allowed < AllowedForNat
                      THEN e.allowed + 1 ELSE e.allowed
  <2>1. stamp \in Nat /\ count \in 0 .. AllowedForNat
    BY <1>2, BoundsAssumption DEF IpState
  <2> HIDE DEF e, hot, stamp, count
  <2>2. [e EXCEPT !.risk = d, !.lastRisk = stamp, !.lastSeen = now,
                  !.lastIp = ip, !.allowed = count] \in IpState
    BY <1>2, <1>3, <2>1 DEF IpState
  <2> QED
    BY <2>2 DEF stamp, count
<1>5. /\ live' \subseteq Ids /\ Cardinality(live') <= MAX_IDENTITIES
      /\ st' \in [Ids -> IpState]
  <2> HIDE DEF entry
  <2> QED
    BY <1>1, <1>4, InstallType
<1>6. earned' \in [Ids -> [Scopes -> 0 .. RISK_BAN_THRESHOLD]]
  BY <1>1, EarnedWithinType DEF TypeOK
<1>7. index' \in [IPs -> SUBSET Ids]
  BY <1>1 DEF Reindexed, TypeOK
<1> QED
  BY <1>1, <1>5, <1>6, <1>7 DEF TypeOK

LEMMA ClearedType ==
  ASSUME now \in Nat, NEW e \in IpState
  PROVE  Cleared(e) \in IpState
<1> DEFINE score == [s \in Scopes |-> 0]
           until == [s \in Scopes |-> IF s = Global /\ e.until[s] <= now
                                      THEN e.until[s] ELSE 0]
<1>1. score \in [Scopes -> 0 .. MaxRisk]
  BY BoundsAssumption
<1>2. until \in [Scopes -> Nat]
  BY DEF IpState
<1> HIDE DEF score, until
<1>3. [e EXCEPT !.risk = score, !.until = until, !.lastRisk = now] \in IpState
  BY <1>1, <1>2 DEF IpState
<1> QED
  BY <1>3 DEF Cleared, score, until

LEMMA ClearAllType ==
  ASSUME TypeOK, NEW chosen, ClearAll(chosen)
  PROVE  TypeOK'
<1>1. now \in Nat
  BY BoundsAssumption DEF TypeOK
<1>2. \A j \in Ids : Cleared(st[j]) \in IpState
  BY <1>1, ClearedType DEF TypeOK
<1> QED
  BY <1>2, BlankType DEF ClearAll, TypeOK

LEMMA ManualBanType ==
  ASSUME TypeOK, NEW chosen, NEW secs \in ManualSecs, ManualBan(chosen, secs)
  PROVE  TypeOK'
<1>1. now + secs \in Nat /\ Global \in Scopes
  BY BoundsAssumption, DurationsAssumption DEF TypeOK, Scopes
<1>2. ASSUME NEW j \in Ids
      PROVE  [st[j] EXCEPT !.until[Global] = now + secs] \in IpState
  <2> DEFINE e == st[j]
             end == now + secs
  <2>1. e \in IpState /\ end \in Nat
    BY <1>1 DEF TypeOK
  <2> HIDE DEF e, end
  <2>2. [e EXCEPT !.until[Global] = end] \in IpState
    BY <1>1, <2>1 DEF IpState
  <2> QED
    BY <2>2 DEF e, end
<1> QED
  BY <1>2 DEF ManualBan, TypeOK

LEMMA ForgetType ==
  ASSUME TypeOK, NEW gone \in SUBSET live, Forget(gone), index' \in [IPs -> SUBSET Ids]
  PROVE  TypeOK'
<1>1. IsFiniteSet(live)
  BY FS_Subset, TableAssumption DEF TypeOK
<1>2. Cardinality(live \ gone) <= Cardinality(live)
  BY <1>1, FS_Subset
<1>3. /\ IsFiniteSet(live \ gone)
      /\ Cardinality(live) \in Nat /\ Cardinality(live \ gone) \in Nat
  BY <1>1, FS_Subset, FS_CardinalityType
<1> QED
  BY <1>2, <1>3, BlankType, TableAssumption DEF Forget, TypeOK

LEMMA TypeStep ==
  ASSUME TypeOK, [Next]_vars
  PROVE  TypeOK'
<1>1. CASE Detect
  BY <1>1, UpdateRiskType DEF Detect
<1>2. CASE Traffic
  BY <1>2, ArriveType, RecordType DEF Traffic
<1>3. CASE Operator
  BY <1>3, ClearAllType, ManualBanType DEF Operator, Unban, BulkUnban
<1>4. CASE EvictExpired
  <2>1. \E gone \in SUBSET live : Forget(gone)
    BY <1>4 DEF EvictExpired
  <2> QED
    BY <1>4, <2>1, ForgetType DEF EvictExpired, TypeOK
<1>5. CASE PruneState
  <2>1. IdleKeys \in SUBSET live
    BY DEF IdleKeys
  <2>2. index' \in [IPs -> SUBSET Ids]
    BY <1>5 DEF PruneState, TypeOK
  <2> QED
    BY <1>5, <2>1, <2>2, ForgetType DEF PruneState
<1>6. CASE Tick
  BY <1>6, BoundsAssumption DEF Tick, TypeOK
<1>7. CASE UNCHANGED vars
  BY <1>7 DEF vars, TypeOK
<1> QED
  BY <1>1, <1>2, <1>3, <1>4, <1>5, <1>6, <1>7 DEF Next, Housekeeping

LEMMA TypeInit == Init => TypeOK
<1>1. Cardinality({}) = 0
  BY FS_EmptySet
<1> QED
  BY <1>1, BlankType, BoundsAssumption, TableAssumption DEF Init, TypeOK

\* Every variable keeps its type: the table stays within MAX_IDENTITIES
\* entries whatever the order of requests, detections, evictions and prunes,
\* and no clock or expiry becomes negative.
THEOREM TypeCorrect == Spec => []TypeOK
BY TypeInit, TypeStep, PTL DEF Spec

-----------------------------------------------------------------------------
(***************************************************************************)
(* The inductive invariant                                                 *)
(***************************************************************************)

\* What an access to k leaves of the table: the new entry, entries that were
\* there before, and blanks.
LEMMA Accessed ==
  ASSUME TypeOK, NEW k \in Ids, NEW keep \in RoomFor(k), NEW e, Install(keep, k, e)
  PROVE  /\ live' = keep
         /\ st'[k] = e
         /\ \A j \in live' \ {k} : j \in live /\ st'[j] = st[j]
         /\ \A j \in Ids \ live' : st'[j] = Blank
BY RoomForBound DEF Install

\* The invariants hold of the entry an access starts from, new or not.
LEMMA EntryInv ==
  ASSUME IInv, NEW k \in Ids
  PROVE  /\ \A v \in Vhosts : \/ earned[k][v] = RISK_BAN_THRESHOLD
                              \/ Entry(k).risk[v] <= earned[k][v]
         /\ \A v \in Vhosts : Entry(k).until[v] > now => earned[k][v] = RISK_BAN_THRESHOLD
         /\ \A ip \in IPs : Entry(k).lastIp = ip => k \in index[ip]
<1>1. CASE k \in live
  BY <1>1 DEF IInv, Entry, ScoreEarned, VhostIsolation, IndexComplete
<1>2. CASE k \notin live
  <2>1. /\ \A v \in Vhosts : Entry(k).risk[v] = 0 /\ Entry(k).until[v] = 0
        /\ Entry(k).lastIp = NoIp
    BY <1>2 DEF Entry, Blank, Scopes
  <2>2. \A v \in Vhosts : earned[k][v] \in 0 .. RISK_BAN_THRESHOLD
    BY DEF IInv, TypeOK, Scopes
  <2>3. now \in Nat
    BY BoundsAssumption DEF IInv, TypeOK
  <2> QED
    BY <2>1, <2>2, <2>3, ScopesAssumption, ThresholdsAssumption
<1> QED
  BY <1>1, <1>2

LEMMA UpdateRiskInv ==
  ASSUME IInv, NEW k \in Ids, NEW w \in Weights, NEW sev \in Severities,
         NEW ip \in IPs, NEW sc \in Scopes, UpdateRisk(k, w, sev, ip, sc)
  PROVE  AbsentBlank' /\ IndexComplete' /\ ScoreEarned' /\ VhostIsolation'
<1> DEFINE scored == {Global, sc}
           score(d) == [s \in Scopes |-> IF s \in scored THEN d[s] + w ELSE d[s]]
           hit(d, keep) == /\ score(d)[sc] >= ThresholdAt(ip, keep)
                           /\ MayBan(Entry(k), sc)
           entry(d, keep) ==
             [Entry(k) EXCEPT !.risk = score(d), !.lastRisk = now,
                              !.until[sc] = IF hit(d, keep) THEN now + BanSecs[sev] ELSE @]
           more == [earned EXCEPT ![k] = [s \in Scopes |->
                      IF s \in scored THEN AddEarned(@[s], w) ELSE @[s]]]
<1>1. PICK keep \in RoomFor(k), d \in Decays(Entry(k)) :
        /\ Install(keep, k, entry(d, keep))
        /\ EarnedWithin(keep, more)
        /\ UNCHANGED <<now, index>>
  BY DEF UpdateRisk
<1> DEFINE old == Entry(k)
           e == entry(d, keep)
<1>2. /\ TypeOK /\ old \in IpState /\ w \in Nat \ {0}
      /\ now \in Nat /\ RISK_BAN_THRESHOLD \in Nat
  BY EntryType, BoundsAssumption, ThresholdsAssumption DEF IInv, TypeOK
<1>3. /\ live' = keep /\ keep \subseteq Ids /\ k \in live'
      /\ st'[k] = e
      /\ \A j \in live' \ {k} : j \in live /\ st'[j] = st[j]
      /\ \A j \in Ids \ live' : st'[j] = Blank
  <2> HIDE DEF entry
  <2> QED
    BY <1>1, <1>2, Accessed, RoomForBound
<1>4. /\ e.risk = score(d) /\ e.lastIp = old.lastIp
      /\ \A v \in Scopes \ {sc} : e.until[v] = old.until[v]
      /\ ~hit(d, keep) => e.until[sc] = old.until[sc]
  <2> HIDE DEF hit, score
  <2> QED
    BY <1>2 DEF IpState
<1>5. /\ \A v \in Vhosts : earned'[k][v] = IF v = sc THEN AddEarned(earned[k][v], w)
                                           ELSE earned[k][v]
      /\ \A j \in live' \ {k} : earned'[j] = earned[j]
  BY <1>1, <1>3, ScopesAssumption DEF EarnedWithin, IInv, TypeOK, Scopes
<1>6. \A v \in Vhosts : /\ earned[k][v] \in 0 .. RISK_BAN_THRESHOLD
                        /\ d[v] \in Nat /\ d[v] <= old.risk[v] /\ old.risk[v] \in Nat
  <2>1. d \in [Scopes -> 0 .. MaxRisk] /\ \A v \in Scopes : d[v] <= old.risk[v]
    BY <1>1, <1>2, DecaysBound
  <2> QED
    BY <1>2, <2>1, BoundsAssumption DEF IInv, TypeOK, IpState, Scopes
<1>7. \A v \in Vhosts : score(d)[v] = IF v = sc THEN d[v] + w ELSE d[v]
  BY ScopesAssumption DEF Scopes
<1>8. \A v \in Vhosts : \/ earned[k][v] = RISK_BAN_THRESHOLD
                        \/ old.risk[v] <= earned[k][v]
  BY EntryInv
<1>9. \A v \in Vhosts :
        \/ earned'[k][v] = RISK_BAN_THRESHOLD
        \/ earned'[k][v] >= score(d)[v] /\ score(d)[v] < RISK_BAN_THRESHOLD
  <2> SUFFICES ASSUME NEW v \in Vhosts
               PROVE  \/ earned'[k][v] = RISK_BAN_THRESHOLD
                      \/ earned'[k][v] >= score(d)[v] /\ score(d)[v] < RISK_BAN_THRESHOLD
    OBVIOUS
  <2> DEFINE n == earned[k][v]
             p == d[v]
             r == old.risk[v]
  <2>1. n \in 0 .. RISK_BAN_THRESHOLD /\ p \in Nat /\ r \in Nat /\ p <= r
    BY <1>6
  <2>2. n = RISK_BAN_THRESHOLD \/ r <= n
    BY <1>8
  <2>3. CASE v = sc
    <3>1. earned'[k][v] = AddEarned(n, w) /\ score(d)[v] = p + w
      BY <1>5, <1>7, <2>3
    <3>2. \/ AddEarned(n, w) = RISK_BAN_THRESHOLD
          \/ AddEarned(n, w) >= p + w /\ p + w < RISK_BAN_THRESHOLD
      <4> HIDE DEF n, p, r
      <4> QED
        BY <1>2, <2>1, <2>2 DEF AddEarned
    <3> QED
      BY <3>1, <3>2
  <2>4. CASE v # sc
    <3>1. earned'[k][v] = n /\ score(d)[v] = p
      BY <1>5, <1>7, <2>4
    <3> HIDE DEF n, p, r, score
    <3> QED
      BY <1>2, <2>1, <2>2, <3>1
  <2> QED
    BY <2>3, <2>4
<1>10. AbsentBlank'
  BY <1>3 DEF AbsentBlank
<1>11. IndexComplete'
  <2> HIDE DEF entry
  <2> QED
    BY <1>1, <1>3, <1>4, EntryInv DEF IndexComplete, IInv
<1>12. ScoreEarned'
  <2> SUFFICES ASSUME NEW j \in live', NEW v \in Vhosts
               PROVE  \/ earned'[j][v] = RISK_BAN_THRESHOLD
                      \/ st'[j].risk[v] <= earned'[j][v]
    BY DEF ScoreEarned
  <2>1. CASE j = k
    <3>1. st'[k].risk[v] = score(d)[v]
      BY <1>3, <1>4
    <3> HIDE DEF score, entry
    <3> QED
      BY <1>9, <2>1, <3>1
  <2>2. CASE j # k
    BY <1>3, <1>5, <2>2 DEF IInv, ScoreEarned
  <2> QED
    BY <2>1, <2>2
<1>13. VhostIsolation'
  <2> SUFFICES ASSUME NEW j \in live', NEW v \in Vhosts, st'[j].until[v] > now'
               PROVE  earned'[j][v] = RISK_BAN_THRESHOLD
    BY DEF VhostIsolation
  <2>1. CASE j = k /\ v = sc /\ hit(d, keep)
    <3>1. score(d)[v] >= RISK_BAN_THRESHOLD
      <4>1. /\ score(d)[v] >= ThresholdAt(ip, keep)
            /\ score(d)[v] \in Nat
        BY <1>2, <1>6, <1>7, <2>1
      <4> HIDE DEF score
      <4> QED
        BY <4>1, ThresholdsAssumption DEF ThresholdAt
    <3>2. score(d)[v] \in Nat
      BY <1>2, <1>6, <1>7
    <3> HIDE DEF score
    <3> QED
      BY <1>2, <1>9, <2>1, <3>1, <3>2
  <2>2. CASE j = k /\ ~(v = sc /\ hit(d, keep))
    <3>1. st'[k].until[v] = old.until[v] /\ now' = now
      <4> HIDE DEF hit, entry
      <4> QED
        BY <1>1, <1>3, <1>4, <2>2 DEF Scopes
    <3>2. earned[k][v] = RISK_BAN_THRESHOLD
      BY <2>2, <3>1, EntryInv
    <3>3. AddEarned(RISK_BAN_THRESHOLD, w) = RISK_BAN_THRESHOLD
      BY <1>2 DEF AddEarned
    <3> QED
      BY <1>5, <2>2, <3>2, <3>3
  <2>3. CASE j # k
    BY <1>1, <1>3, <1>5, <2>3 DEF IInv, VhostIsolation
  <2> QED
    BY <2>1, <2>2, <2>3
<1> QED
  BY <1>10, <1>11, <1>12, <1>13

\* An access that leaves the scores and bans of k alone or lowers its scores,
\* and keeps or moves its address along with the index.
LEMMA MildAccessInv ==
  ASSUME IInv, NEW k \in Ids, NEW keep \in RoomFor(k), NEW e \in IpState,
         Install(keep, k, e), EarnedWithin(keep, earned), now' = now,
         \A v \in Vhosts : e.risk[v] <= Entry(k).risk[v],
         e.until = Entry(k).until,
         \A ip \in IPs : e.lastIp = ip => k \in index'[ip],
         \A j \in Ids \ {k}, ip \in IPs : j \in index[ip] => j \in index'[ip]
  PROVE  AbsentBlank' /\ IndexComplete' /\ ScoreEarned' /\ VhostIsolation'
<1>1. TypeOK /\ Entry(k) \in IpState
  BY EntryType DEF IInv
<1>2. /\ live' = keep /\ keep \subseteq Ids /\ k \in live'
      /\ st'[k] = e
      /\ \A j \in live' \ {k} : j \in live /\ st'[j] = st[j]
      /\ \A j \in Ids \ live' : st'[j] = Blank
  BY <1>1, Accessed, RoomForBound
<1>3. \A j \in live' : earned'[j] = earned[j]
  BY <1>2 DEF EarnedWithin
<1>4. AbsentBlank'
  BY <1>2 DEF AbsentBlank
<1>5. IndexComplete'
  BY <1>2 DEF IndexComplete, IInv
<1>6. ScoreEarned'
  <2> SUFFICES ASSUME NEW j \in live', NEW v \in Vhosts
               PROVE  \/ earned'[j][v] = RISK_BAN_THRESHOLD
                      \/ st'[j].risk[v] <= earned'[j][v]
    BY DEF ScoreEarned
  <2>1. CASE j = k
    <3>1. e.risk[v] \in Nat /\ Entry(k).risk[v] \in Nat /\ earned[k][v] \in Nat
      BY <1>1, BoundsAssumption, ThresholdsAssumption DEF IpState, Scopes, TypeOK
    <3>2. e.risk[v] <= Entry(k).risk[v]
      OBVIOUS
    <3>3. \/ earned[k][v] = RISK_BAN_THRESHOLD
          \/ Entry(k).risk[v] <= earned[k][v]
      BY EntryInv
    <3> QED
      BY <1>2, <1>3, <2>1, <3>1, <3>2, <3>3
  <2>2. CASE j # k
    BY <1>2, <1>3, <2>2 DEF IInv, ScoreEarned
  <2> QED
    BY <2>1, <2>2
<1>7. VhostIsolation'
  BY <1>2, <1>3, EntryInv DEF IInv, VhostIsolation
<1> QED
  BY <1>4, <1>5, <1>6, <1>7

LEMMA ArriveInv ==
  ASSUME IInv, NEW k \in Ids, NEW isStatic \in BOOLEAN, Arrive(k, isStatic)
  PROVE  AbsentBlank' /\ IndexComplete' /\ ScoreEarned' /\ VhostIsolation'
<1> DEFINE old == Entry(k)
           e == [old EXCEPT !.static = @ \/ isStatic]
<1>1. PICK keep \in RoomFor(k) :
        Install(keep, k, e) /\ EarnedWithin(keep, earned) /\ UNCHANGED <<now, index>>
  BY DEF Arrive
<1>2. old \in IpState
  BY EntryType DEF IInv
<1>3. e \in IpState /\ e.risk = old.risk /\ e.until = old.until /\ e.lastIp = old.lastIp
  <2>1. old.static \/ isStatic \in BOOLEAN
    BY <1>2 DEF IpState
  <2> HIDE DEF old
  <2> QED
    BY <1>2, <2>1 DEF IpState
<1>4. \A v \in Vhosts : e.risk[v] <= Entry(k).risk[v]
  <2>1. \A v \in Vhosts : old.risk[v] \in Nat
    BY <1>2, BoundsAssumption DEF IpState, Scopes
  <2> QED
    BY <1>3, <2>1
<1>5. \A ip \in IPs : e.lastIp = ip => k \in index'[ip]
  BY <1>1, <1>3, EntryInv
<1> HIDE DEF e
<1> QED
  BY <1>1, <1>3, <1>4, <1>5, MildAccessInv

LEMMA RecordInv ==
  ASSUME IInv, NEW k \in Ids, NEW ip \in IPs, NEW isAllowed \in BOOLEAN,
         Record(k, ip, isAllowed)
  PROVE  AbsentBlank' /\ IndexComplete' /\ ScoreEarned' /\ VhostIsolation'
<1> DEFINE old == Entry(k)
           hot == old.risk[Global] > 0
           stamp == IF hot THEN now ELSE old.lastRisk
           count == IF isAllowed /\ old.allowed < AllowedForNat
                    THEN old.allowed + 1 ELSE old.allowed
           e(d) == [old EXCEPT !.risk = d, !.lastRisk = stamp, !.lastSeen = now,
                               !.lastIp = ip, !.allowed = count]
<1>1. PICK keep \in RoomFor(k), d \in (IF hot THEN Decays(old) ELSE {old.risk}) :
        /\ Install(keep, k, e(d))
        /\ index' = Reindexed(k, old.lastIp, ip)
        /\ EarnedWithin(keep, earned)
        /\ now' = now
  BY DEF Record
<1>2. old \in IpState /\ now \in Nat
  BY EntryType, BoundsAssumption DEF IInv, TypeOK
<1>3. stamp \in Nat /\ count \in 0 .. AllowedForNat
  BY <1>2, BoundsAssumption DEF IpState
<1>4. d \in [Scopes -> 0 .. MaxRisk] /\ \A s \in Scopes : d[s] <= old.risk[s]
  <2>1. CASE hot
    BY <1>1, <1>2, <2>1, DecaysBound
  <2>2. CASE ~hot
    <3>1. d = old.risk /\ d \in [Scopes -> 0 .. MaxRisk]
      BY <1>1, <1>2, <2>2 DEF IpState
    <3> QED
      BY <3>1, BoundsAssumption
  <2> QED
    BY <2>1, <2>2
<1>5. /\ e(d) \in IpState /\ e(d).risk = d
      /\ e(d).until = old.until /\ e(d).lastIp = ip
  <2> HIDE DEF old, stamp, count
  <2> QED
    BY <1>2, <1>3, <1>4 DEF IpState
<1>6. \A v \in Vhosts : e(d).risk[v] <= Entry(k).risk[v]
  BY <1>4, <1>5 DEF Scopes
<1>7. /\ \A p \in IPs : e(d).lastIp = p => k \in index'[p]
      /\ \A j \in Ids \ {k}, p \in IPs : j \in index[p] => j \in index'[p]
  <2> HIDE DEF old
  <2> QED
    BY <1>1, <1>5 DEF Reindexed
<1> HIDE DEF e
<1> QED
  BY <1>1, <1>5, <1>6, <1>7, MildAccessInv

LEMMA ClearAllInv ==
  ASSUME IInv, NEW chosen, ClearAll(chosen), chosen \subseteq live
  PROVE  AbsentBlank' /\ IndexComplete' /\ ScoreEarned' /\ VhostIsolation'
<1>1. /\ now' = now /\ live' = live /\ index' = index
      /\ \A j \in Ids \ chosen : st'[j] = st[j] /\ earned'[j] = earned[j]
      /\ \A j \in chosen : st'[j] = Cleared(st[j]) /\ earned'[j] = NothingEarned
  BY DEF ClearAll, IInv, TypeOK
<1>2. \A j \in chosen : /\ st'[j].lastIp = st[j].lastIp
                        /\ \A v \in Vhosts : st'[j].risk[v] = 0 /\ st'[j].until[v] = 0
  <2> SUFFICES ASSUME NEW j \in chosen
               PROVE  /\ st'[j].lastIp = st[j].lastIp
                      /\ \A v \in Vhosts : st'[j].risk[v] = 0 /\ st'[j].until[v] = 0
    OBVIOUS
  <2> DEFINE e == st[j]
  <2>1. e \in IpState /\ st'[j] = Cleared(e)
    BY <1>1 DEF IInv, TypeOK
  <2> HIDE DEF e
  <2>2. /\ Cleared(e).lastIp = e.lastIp
        /\ \A v \in Vhosts : Cleared(e).risk[v] = 0 /\ Cleared(e).until[v] = 0
    BY <2>1, ScopesAssumption DEF Cleared, IpState, Scopes
  <2> QED
    BY <2>1, <2>2 DEF e
<1>3. live \subseteq Ids /\ now \in Nat
  BY BoundsAssumption DEF IInv, TypeOK
<1>4. AbsentBlank'
  BY <1>1 DEF AbsentBlank, IInv
<1>5. IndexComplete'
  BY <1>1, <1>2, <1>3 DEF IndexComplete, IInv
<1>6. ScoreEarned'
  <2>1. \A j \in chosen, v \in Vhosts : st'[j].risk[v] <= earned'[j][v]
    BY <1>1, <1>2 DEF NothingEarned, Scopes
  <2> QED
    BY <1>1, <1>3, <2>1 DEF ScoreEarned, IInv
<1>7. VhostIsolation'
  <2>1. \A j \in chosen, v \in Vhosts : ~(st'[j].until[v] > now')
    BY <1>1, <1>2, <1>3
  <2> QED
    BY <1>1, <1>3, <2>1 DEF VhostIsolation, IInv
<1> QED
  BY <1>4, <1>5, <1>6, <1>7

LEMMA ManualBanInv ==
  ASSUME IInv, NEW chosen, NEW secs \in ManualSecs, ManualBan(chosen, secs),
         chosen \subseteq live
  PROVE  AbsentBlank' /\ IndexComplete' /\ ScoreEarned' /\ VhostIsolation'
<1>1. /\ now' = now /\ live' = live /\ index' = index /\ earned' = earned
      /\ \A j \in Ids \ chosen : st'[j] = st[j]
      /\ \A j \in chosen : st'[j] = [st[j] EXCEPT !.until[Global] = now + secs]
  BY DEF ManualBan, IInv, TypeOK
<1>2. \A j \in Ids : /\ st'[j].lastIp = st[j].lastIp /\ st'[j].risk = st[j].risk
                     /\ \A v \in Vhosts : st'[j].until[v] = st[j].until[v]
  <2> SUFFICES ASSUME NEW j \in Ids
               PROVE  /\ st'[j].lastIp = st[j].lastIp /\ st'[j].risk = st[j].risk
                      /\ \A v \in Vhosts : st'[j].until[v] = st[j].until[v]
    OBVIOUS
  <2>1. CASE j \in chosen
    <3> DEFINE e == st[j]
               end == now + secs
    <3>1. e \in IpState /\ st'[j] = [e EXCEPT !.until[Global] = end]
      BY <1>1, <2>1 DEF IInv, TypeOK
    <3> HIDE DEF e, end
    <3>2. /\ st'[j].lastIp = e.lastIp /\ st'[j].risk = e.risk
          /\ \A v \in Vhosts : st'[j].until[v] = e.until[v]
      BY <3>1, ScopesAssumption DEF IpState, Scopes
    <3> QED
      BY <3>2 DEF e
  <2>2. CASE j \notin chosen
    BY <1>1, <2>2
  <2> QED
    BY <2>1, <2>2
<1>3. live \subseteq Ids
  BY DEF IInv, TypeOK
<1>4. AbsentBlank'
  BY <1>1 DEF AbsentBlank, IInv
<1>5. IndexComplete'
  BY <1>1, <1>2, <1>3 DEF IndexComplete, IInv
<1>6. ScoreEarned'
  BY <1>1, <1>2, <1>3 DEF ScoreEarned, IInv
<1>7. VhostIsolation'
  BY <1>1, <1>2, <1>3 DEF VhostIsolation, IInv
<1> QED
  BY <1>4, <1>5, <1>6, <1>7

\* Forgetting keys is harmless as long as the index keeps those that stay.
LEMMA ForgetInv ==
  ASSUME IInv, NEW gone \in SUBSET live, Forget(gone),
         \A j \in live \ gone, ip \in IPs : j \in index[ip] => j \in index'[ip]
  PROVE  AbsentBlank' /\ IndexComplete' /\ ScoreEarned' /\ VhostIsolation'
<1>1. /\ now' = now /\ live' = live \ gone /\ live \subseteq Ids
      /\ \A j \in live' : st'[j] = st[j] /\ earned'[j] = earned[j]
      /\ \A j \in Ids \ live' : st'[j] = Blank
  BY DEF Forget, IInv, TypeOK, AbsentBlank
<1>2. AbsentBlank'
  BY <1>1 DEF AbsentBlank
<1>3. IndexComplete'
  BY <1>1 DEF IndexComplete, IInv
<1>4. ScoreEarned'
  BY <1>1 DEF ScoreEarned, IInv
<1>5. VhostIsolation'
  BY <1>1 DEF VhostIsolation, IInv
<1> QED
  BY <1>2, <1>3, <1>4, <1>5

LEMMA IInvInit == Init => IInv
<1> SUFFICES ASSUME Init
             PROVE  IInv
  OBVIOUS
<1>1. TypeOK
  BY TypeInit
<1>2. live = {} /\ \A k \in Ids : st[k] = Blank
  BY DEF Init
<1> QED
  BY <1>1, <1>2 DEF IInv, AbsentBlank, IndexComplete, ScoreEarned, VhostIsolation

LEMMA IInvStep ==
  ASSUME IInv, [Next]_vars
  PROVE  IInv'
<1> USE DEF IInv
<1>1. TypeOK'
  BY TypeStep
<1>2. CASE Detect
  BY <1>1, <1>2, UpdateRiskInv DEF Detect
<1>3. CASE Traffic
  BY <1>1, <1>3, ArriveInv, RecordInv DEF Traffic
<1>4. CASE Operator
  <2>1. \A chosen \in Targets \cup {live} : chosen \subseteq live
    BY DEF Targets
  <2>2. ASSUME NEW chosen \in Targets \cup {live}, Unban(chosen)
        PROVE  IInv'
    BY <1>1, <2>1, <2>2, ClearAllInv DEF Unban
  <2>3. ASSUME NEW chosen \in Targets, NEW secs \in ManualSecs, ManualBan(chosen, secs)
        PROVE  IInv'
    BY <1>1, <2>1, <2>3, ManualBanInv
  <2>4. ASSUME NEW matching \in SUBSET Ids, BulkUnban(matching)
        PROVE  IInv'
    BY <1>1, <2>4, ClearAllInv DEF BulkUnban
  <2> QED
    BY <1>4, <2>2, <2>3, <2>4 DEF Operator
<1>5. CASE EvictExpired
  <2>1. PICK gone \in SUBSET live : Forget(gone) /\ index' = index
    BY <1>5 DEF EvictExpired
  <2> QED
    BY <1>1, <2>1, ForgetInv
<1>6. CASE PruneState
  <2>1. IdleKeys \in SUBSET live
    BY DEF IdleKeys
  <2>2. \A j \in live \ IdleKeys, ip \in IPs : j \in index[ip] => j \in index'[ip]
    BY <1>6 DEF PruneState
  <2>3. Forget(IdleKeys)
    BY <1>6 DEF PruneState
  <2> QED
    BY <1>1, <2>1, <2>2, <2>3, ForgetInv
<1>7. CASE Tick
  <2>1. /\ now' = now + 1 /\ UNCHANGED <<live, st, index, earned>>
        /\ now \in Nat
    BY <1>7, BoundsAssumption DEF Tick, TypeOK
  <2>2. VhostIsolation'
    <3> SUFFICES ASSUME NEW k \in live, NEW v \in Vhosts, st[k].until[v] > now + 1
                 PROVE  earned[k][v] = RISK_BAN_THRESHOLD
      BY <2>1 DEF VhostIsolation
    <3>1. st[k].until[v] \in Nat
      BY DEF TypeOK, IpState, Scopes
    <3>2. st[k].until[v] > now
      BY <2>1, <3>1
    <3> QED
      BY <3>2 DEF VhostIsolation
  <2> QED
    BY <1>1, <2>1, <2>2 DEF AbsentBlank, IndexComplete, ScoreEarned
<1>8. CASE UNCHANGED vars
  BY <1>1, <1>8 DEF vars, AbsentBlank, IndexComplete, ScoreEarned, VhostIsolation
<1> QED
  BY <1>2, <1>3, <1>4, <1>5, <1>6, <1>7, <1>8 DEF Next, Housekeeping

LEMMA Inductive == Spec => []IInv
BY IInvInit, IInvStep, PTL DEF Spec

\* The inverted index finds every identity under its last address, for any
\* number of identities and any capacity of the table.
THEOREM IndexIsComplete == Spec => []IndexComplete
<1>1. IInv => IndexComplete
  BY DEF IInv
<1> QED
  BY <1>1, Inductive, PTL

\* A vhost-scoped ban has been earned in full on that vhost, for any weights,
\* thresholds, durations and set of vhosts.
THEOREM VhostsAreIsolated == Spec => []VhostIsolation
<1>1. IInv => VhostIsolation
  BY DEF IInv
<1> QED
  BY <1>1, Inductive, PTL

-----------------------------------------------------------------------------
(***************************************************************************)
(* What a step may never do                                                *)
(***************************************************************************)

\* The expiries a detection leaves: only that of sc may change, and only when
\* no ban of sc is running and the score has reached the threshold at ip.
LEMMA UpdateRiskEffect ==
  ASSUME IInv, NEW k \in Ids, NEW w \in Weights, NEW sev \in Severities,
         NEW ip \in IPs, NEW sc \in Scopes, UpdateRisk(k, w, sev, ip, sc)
  PROVE  /\ live' \in RoomFor(k)
         /\ \A j \in live' \ {k} : j \in live /\ st'[j] = st[j]
         /\ \A s \in Scopes :
              st'[k].until[s] # Entry(k).until[s] =>
                /\ s = sc /\ Entry(k).until[s] <= now
                /\ st'[k].risk[s] >= ThresholdAt(ip, live')
<1> DEFINE score(d) == [s \in Scopes |-> IF s \in {Global, sc} THEN d[s] + w ELSE d[s]]
           hit(d, keep) == /\ score(d)[sc] >= ThresholdAt(ip, keep)
                           /\ MayBan(Entry(k), sc)
           entry(d, keep) ==
             [Entry(k) EXCEPT !.risk = score(d), !.lastRisk = now,
                              !.until[sc] = IF hit(d, keep) THEN now + BanSecs[sev] ELSE @]
<1>1. PICK keep \in RoomFor(k), d \in Decays(Entry(k)) : Install(keep, k, entry(d, keep))
  BY DEF UpdateRisk
<1> DEFINE old == Entry(k)
           e == entry(d, keep)
<1>2. TypeOK /\ old \in IpState
  BY EntryType DEF IInv
<1>3. /\ live' = keep /\ st'[k] = e
      /\ \A j \in live' \ {k} : j \in live /\ st'[j] = st[j]
  <2> HIDE DEF entry
  <2> QED
    BY <1>1, <1>2, Accessed
<1>4. /\ e.risk = score(d)
      /\ \A s \in Scopes \ {sc} : e.until[s] = old.until[s]
      /\ ~hit(d, keep) => e.until[sc] = old.until[sc]
  <2> HIDE DEF hit, score
  <2> QED
    BY <1>2 DEF IpState
<1>5. ASSUME NEW s \in Scopes, e.until[s] # old.until[s]
      PROVE  /\ s = sc /\ old.until[s] <= now
             /\ e.risk[s] >= ThresholdAt(ip, keep)
  <2>1. s = sc /\ hit(d, keep)
    BY <1>4, <1>5
  <2>2. e.risk[s] = score(d)[sc]
    BY <1>4, <2>1
  <2> QED
    BY <2>1, <2>2 DEF MayBan
<1> HIDE DEF entry
<1> QED
  BY <1>1, <1>3, <1>5

\* Requests as such leave every expiry alone.
LEMMA TrafficEffect ==
  ASSUME IInv, Traffic
  PROVE  \A j \in live' \cap live : st'[j].until = st[j].until
<1>1. TypeOK
  BY DEF IInv
<1>2. ASSUME NEW k \in Ids, NEW isStatic \in BOOLEAN, Arrive(k, isStatic)
      PROVE  \A j \in live' \cap live : st'[j].until = st[j].until
  <2> DEFINE e == [Entry(k) EXCEPT !.static = @ \/ isStatic]
  <2>1. PICK keep \in RoomFor(k) : Install(keep, k, e)
    BY <1>2 DEF Arrive
  <2>2. e.until = Entry(k).until
    BY <1>1, EntryType DEF IpState
  <2> HIDE DEF e
  <2>3. /\ st'[k] = e
        /\ \A j \in live' \ {k} : j \in live /\ st'[j] = st[j]
    BY <1>1, <2>1, Accessed
  <2> QED
    BY <2>2, <2>3 DEF Entry
<1>3. ASSUME NEW k \in Ids, NEW ip \in IPs, NEW isAllowed \in BOOLEAN,
             Record(k, ip, isAllowed)
      PROVE  \A j \in live' \cap live : st'[j].until = st[j].until
  <2> DEFINE old == Entry(k)
             hot == old.risk[Global] > 0
             stamp == IF hot THEN now ELSE old.lastRisk
             count == IF isAllowed /\ old.allowed < AllowedForNat
                      THEN old.allowed + 1 ELSE old.allowed
             e(d) == [old EXCEPT !.risk = d, !.lastRisk = stamp, !.lastSeen = now,
                                 !.lastIp = ip, !.allowed = count]
  <2>1. PICK keep \in RoomFor(k), d \in (IF hot THEN Decays(old) ELSE {old.risk}) :
          Install(keep, k, e(d))
    BY <1>3 DEF Record
  <2>2. old \in IpState
    BY <1>1, EntryType
  <2>3. e(d).until = old.until
    <3> HIDE DEF old, stamp, count
    <3> QED
      BY <2>2 DEF IpState
  <2> HIDE DEF e
  <2>4. /\ st'[k] = e(d)
        /\ \A j \in live' \ {k} : j \in live /\ st'[j] = st[j]
    BY <1>1, <2>1, Accessed
  <2> QED
    BY <2>3, <2>4 DEF Entry
<1> QED
  BY <1>2, <1>3 DEF Traffic

\* Neither a detection nor a request ever shortens a running ban.
THEOREM BansAreNotShortened == Spec => TrafficNeverShortensBans
<1> DEFINE Shortened ==
      \E k \in live \cap live', s \in Scopes :
        st[k].until[s] > now /\ st'[k].until[s] < st[k].until[s]
<1>1. ASSUME IInv
      PROVE  Shortened => ~(Detect \/ Traffic)
  <2> SUFFICES ASSUME NEW j \in live \cap live', NEW s \in Scopes,
                      st[j].until[s] > now, st'[j].until[s] < st[j].until[s],
                      Detect \/ Traffic
               PROVE  FALSE
    OBVIOUS
  <2>1. j \in Ids /\ st[j].until[s] \in Nat /\ now \in Nat
    BY <1>1, BoundsAssumption DEF IInv, TypeOK, IpState
  <2>2. CASE Detect
    <3>1. PICK k \in Ids, w \in Weights, sev \in Severities, ip \in IPs, sc \in Scopes :
            UpdateRisk(k, w, sev, ip, sc)
      BY <2>2 DEF Detect
    <3>2. CASE j = k
      BY <1>1, <2>1, <3>1, <3>2, UpdateRiskEffect DEF Entry
    <3>3. CASE j # k
      BY <1>1, <2>1, <3>1, <3>3, UpdateRiskEffect
    <3> QED
      BY <3>2, <3>3
  <2>3. CASE Traffic
    BY <1>1, <2>1, <2>3, TrafficEffect
  <2> QED
    BY <2>2, <2>3
<1> QED
  BY <1>1, Inductive, PTL DEF TrafficNeverShortensBans

\* Behind an address that hosts enough established neighbours nobody is
\* banned below the NAT threshold: the count that goes through the index is
\* the count over the whole table.
THEOREM NatIsTolerated == Spec => NatTolerance
<1> DEFINE crowd(ip) == {j \in live' : Neighbour(j, ip)}
           Tolerated ==
             \A k \in live', ip \in IPs, sc \in Scopes :
               /\ st'[k].until[sc] > Entry(k).until[sc]
               /\ st'[k].risk[sc] < RISK_BAN_THRESHOLD_NAT
               /\ Cardinality(crowd(ip)) >= NAT_IDENTITIES_THRESHOLD
               => ~ \E w \in Weights, sev \in Severities : UpdateRisk(k, w, sev, ip, sc)
<1>1. ASSUME IInv, [Next]_vars
      PROVE  Tolerated
  <2> SUFFICES ASSUME NEW k \in live', NEW ip \in IPs, NEW sc \in Scopes,
                      st'[k].until[sc] > Entry(k).until[sc],
                      st'[k].risk[sc] < RISK_BAN_THRESHOLD_NAT,
                      Cardinality(crowd(ip)) >= NAT_IDENTITIES_THRESHOLD,
                      NEW w \in Weights, NEW sev \in Severities,
                      UpdateRisk(k, w, sev, ip, sc)
               PROVE  FALSE
    OBVIOUS
  <2>1. IInv' /\ k \in Ids
    <3>1. IInv'
      BY <1>1, IInvStep
    <3> QED
      BY <3>1 DEF IInv, TypeOK
  <2>2. Entry(k).until[sc] \in Nat /\ st'[k].until[sc] \in Nat /\ st'[k].risk[sc] \in Nat
    BY <1>1, <2>1, EntryType, BoundsAssumption DEF IInv, TypeOK, IpState
  <2>3. /\ live' \in RoomFor(k)
        /\ st'[k].risk[sc] >= ThresholdAt(ip, live')
    <3>1. st'[k].until[sc] # Entry(k).until[sc]
      BY <2>2
    <3> QED
      BY <1>1, <2>1, <3>1, UpdateRiskEffect
  <2>4. \A j \in live' : Neighbour(j, ip) => j \in index[ip]
    <3> SUFFICES ASSUME NEW j \in live', Neighbour(j, ip)
                 PROVE  j \in index[ip]
      OBVIOUS
    <3>1. j \in Ids
      BY <2>1 DEF IInv, TypeOK
    <3>2. j \in live
      BY <1>1, <3>1, ScopesAssumption DEF IInv, AbsentBlank, Neighbour, Blank
    <3> QED
      BY <1>1, <3>2 DEF IInv, IndexComplete, Neighbour
  <2>5. IdentitiesAt(ip, live') = crowd(ip)
    BY <2>4 DEF IdentitiesAt
  <2>6. ThresholdAt(ip, live') = RISK_BAN_THRESHOLD_NAT
    BY <2>5 DEF ThresholdAt
  <2> QED
    BY <2>2, <2>3, <2>6, ThresholdsAssumption
<1> QED
  BY <1>1, Inductive, PTL DEF NatTolerance, Spec

=============================================================================
