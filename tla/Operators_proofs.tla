-------------------------- MODULE Operators_proofs --------------------------
(***************************************************************************)
(* Theorems about what operators set and hear of: the verdicts of Lookups, *)
(* the events of Delivery, the settings of Settings.  The three share no   *)
(* state; each has a specification and an invariant of its own.            *)
(***************************************************************************)
EXTENDS Settings, Lookups, Delivery, WellFoundedInduction, TLAPS

(***************************************************************************)
(* Lookups                                                                 *)
(*                                                                         *)
(* An opinion of the service is a value and a time, as a row, a decision,  *)
(* a list and an answer on its way all hold one.  It is honest when the    *)
(* service was of that opinion at that time or later: Held(value) only     *)
(* grows, so an honest opinion stays so wherever it is copied.             *)
(***************************************************************************)

Opinions == [value : BOOLEAN, ts : Int]
Honest(opinion) == Held(opinion.value) >= opinion.ts

Caches ==
  /\ otherwise \in Int /\ -LastHour - ABUSE_HOURS <= otherwise /\ otherwise <= hour
  /\ row \in Opinions /\ Honest(row)
  /\ decision \in Opinions /\ Honest(decision)
  /\ writes \in Seq(Opinions) /\ \A i \in 1 .. Len(writes) : Honest(writes[i])

Exits ==
  /\ fresh \in Opinions /\ Honest(fresh)
  /\ lists \in Opinions /\ Honest(lists)
  /\ fetch # "filling" => exits = fresh.value

\* Where a lookup stands, what it has heard holds.
Heard(look) ==
  /\ look.at # "answered" => look.source = "none" /\ look.began <= hour
  /\ look.at = "reading" => service = "abuse"
  /\ look.at = "replied" => Held(look.heard) >= look.began
  /\ look.source = "cache" => Held(look.heard) > look.began - Long
  /\ look.source \in {"api", "list"} => Held(look.heard) >= look.began

LookupsIInv ==
  LookupsTypeOK /\ Caches /\ Exits /\ \A l \in Lookers : Heard(lookups[l])

-----------------------------------------------------------------------------

LEMMA LookupsConstants ==
  /\ ABUSE_HOURS \in Nat /\ ABUSE_HOURS > 0 /\ CROWD_SECS \in Nat /\ CROWD_SECS > 0
  /\ WritesMax \in Nat /\ WritesMax > 0 /\ LastHour \in Nat
  BY LookupsAssumption

\* What the service was last of an opinion grows.
Grows == \A v \in BOOLEAN : Held(v)' \in Int /\ Held(v)' >= Held(v)

LEMMA HeldIsInt ==
  ASSUME LookupsIInv PROVE \A v \in BOOLEAN : Held(v) \in Int
  BY DEF LookupsIInv, LookupsTypeOK, Caches, Held

LEMMA OpinionsGrow ==
  ASSUME LookupsIInv, [LookupsNext]_lookupVars PROVE Grows
<1> USE LookupsConstants DEF LookupsIInv, LookupsTypeOK, Caches, Held, Grows
<1>1. CASE UNCHANGED <<hour, listed, otherwise>>
  BY <1>1
<1>2. CASE ThinkAgain
  BY <1>2 DEF ThinkAgain
<1>3. CASE Hour
  BY <1>3 DEF Hour
<1>4. CASE \E l \in Lookers : RefuseCall(l)
  BY <1>4 DEF RefuseCall
<1>5. QED
  BY <1>1, <1>2, <1>3, <1>4 DEF LookupsNext, lookupVars, cacheVars, torVars,
    Begin, ReadCache, Reply, Fail, Receive, CheckExit, WriteScore, ReadExits,
    ClearExits, FillExits, AbandonFetch, LookupsRestart, Answered

LEMMA HourGrows ==
  ASSUME LookupsIInv, [LookupsNext]_lookupVars
  PROVE  hour \in Int /\ hour' \in Int /\ hour <= hour'
<1>1. hour' = hour \/ hour' = hour + 1
  BY DEF LookupsNext, lookupVars, cacheVars, torVars, Begin, ReadCache, Reply,
    RefuseCall, Fail, Receive, CheckExit, WriteScore, ReadExits, ClearExits,
    FillExits, AbandonFetch, ThinkAgain, Hour, LookupsRestart
<1>2. QED
  BY <1>1, LookupsConstants DEF LookupsIInv, LookupsTypeOK

Looks ==
  [at : {"free", "reading", "calling", "replied", "answered"},
   began : Int, heard : BOOLEAN,
   source : {"none", "cache", "api", "list", "error"}]

\* An honest opinion stays so, and so does what a lookup may say it heard.
LEMMA HonestyStays ==
  ASSUME LookupsIInv, [LookupsNext]_lookupVars
  PROVE  /\ service' = service
         /\ \A o \in Opinions : Honest(o) => Honest(o)'
         /\ \A look \in Looks : Heard(look) => Heard(look)'
<1>1. service' = service
  BY DEF LookupsNext, lookupVars, cacheVars, torVars, Begin, ReadCache, Reply,
    RefuseCall, Fail, Receive, CheckExit, WriteScore, ReadExits, ClearExits,
    FillExits, AbandonFetch, ThinkAgain, Hour, LookupsRestart
<1>2. Grows /\ \A v \in BOOLEAN : Held(v) \in Int
  BY OpinionsGrow, HeldIsInt
<1>3. \A o \in Opinions : Honest(o) => Honest(o)'
  <2> TAKE o \in Opinions
  <2>1. o.value \in BOOLEAN /\ o.ts \in Int
    BY DEF Opinions
  <2>2. Held(o.value) \in Int /\ Held(o.value)' \in Int /\ Held(o.value)' >= Held(o.value)
    BY <1>2, <2>1 DEF Grows
  <2> QED
    BY <2>1, <2>2 DEF Honest
<1>4. \A look \in Looks : Heard(look) => Heard(look)'
  <2> TAKE look \in Looks
  <2>1. look.heard \in BOOLEAN /\ look.began \in Int
    BY DEF Looks
  <2>2. /\ Held(look.heard) \in Int /\ Held(look.heard)' \in Int
        /\ Held(look.heard)' >= Held(look.heard)
    BY <1>2, <2>1 DEF Grows
  <2>3. Long \in Int /\ Long' = Long
    BY <1>1, LookupsConstants DEF Long
  <2> QED
    BY <1>1, <2>1, <2>2, <2>3, HourGrows DEF Heard
<1>5. QED
  BY <1>1, <1>3, <1>4

\* The answers that wait stay honest as the first is taken and one is added.
LEMMA WritesStayHonest ==
  ASSUME NEW w \in Seq(Opinions), NEW o \in Opinions
  PROVE  /\ Append(w, o) \in Seq(Opinions) /\ Len(Append(w, o)) = Len(w) + 1
         /\ \A i \in 1 .. Len(w) : Append(w, o)[i] = w[i]
         /\ Append(w, o)[Len(w) + 1] = o
         /\ w # << >> => /\ Tail(w) \in Seq(Opinions) /\ Len(Tail(w)) = Len(w) - 1
                         /\ Head(w) = w[1] /\ 1 \in 1 .. Len(w)
                         /\ \A i \in 1 .. Len(w) - 1 : Tail(w)[i] = w[i + 1]
  OBVIOUS

LEMMA LookupsStart ==
  ASSUME LookupsInit PROVE LookupsIInv
<1> USE LookupsConstants DEF LookupsInit
<1>1. LookupsTypeOK
  <2>1. Free \in Looks
    BY DEF Free, Looks
  <2>2. lookups \in [Lookers -> Looks] /\ Len(writes) <= WritesMax
    BY <2>1
  <2>3. /\ service \in Services /\ hour \in 0 .. LastHour
        /\ listed \in BOOLEAN /\ fetch \in {"idle", "read", "filling"}
    OBVIOUS
  <2>4. exits \in BOOLEAN
    BY ZenonT(10)
  <2> HIDE DEF LookupsInit
  <2> QED
    BY <2>2, <2>3, <2>4 DEF LookupsTypeOK, Looks
<1>2. Absent \in Opinions /\ Absent.value = FALSE /\ Absent.ts = -LastHour - ABUSE_HOURS
  BY DEF Absent, Opinions
<1>3. Honest(Absent)
  BY <1>2 DEF Honest, Held
<1>4. Caches
  BY <1>2, <1>3 DEF Caches
<1>5. Exits
  BY <1>2, <1>3 DEF Exits
<1>6. \A l \in Lookers : Heard(lookups[l])
  BY DEF Heard, Free
<1>7. QED
  BY <1>1, <1>4, <1>5, <1>6 DEF LookupsIInv

\* A step that changes one lookup, or none.
LEMMA OtherLookups ==
  ASSUME LookupsIInv, [LookupsNext]_lookupVars, NEW l \in Lookers, NEW look \in Looks,
         lookups' = [lookups EXCEPT ![l] = look], Heard(look)'
  PROVE  lookups' \in [Lookers -> Looks] /\ \A k \in Lookers : Heard(lookups[k])'
<1>1. lookups \in [Lookers -> Looks] /\ \A k \in Lookers : Heard(lookups[k])
  BY DEF LookupsIInv, LookupsTypeOK, Looks
<1>2. lookups' \in [Lookers -> Looks]
  BY <1>1
<1>3. \A k \in Lookers : Heard(lookups[k])'
  <2> TAKE k \in Lookers
  <2>1. CASE k = l
    <3>1. lookups'[k] = look
      BY <1>1, <2>1
    <3> QED
      BY <3>1 DEF Heard, Held, Long
  <2>2. CASE k # l
    <3>1. lookups'[k] = lookups[k] /\ lookups[k] \in Looks
      BY <1>1, <2>2
    <3>2. Heard(lookups[k])
      BY <1>1
    <3>3. \A other \in Looks : Heard(other) => Heard(other)'
      BY HonestyStays
    <3> QED
      BY <3>1, <3>2, <3>3 DEF Heard, Held, Long
  <2> QED
    BY <2>1, <2>2
<1>4. QED
  BY <1>2, <1>3

\* A step that moves one lookup on to what the service's opinion bears out.
LEMMA LookupMoves ==
  ASSUME LookupsIInv, [LookupsNext]_lookupVars, NEW l \in Lookers,
         \E look \in Looks : lookups' = [lookups EXCEPT ![l] = look] /\ Heard(look)
  PROVE  lookups' \in [Lookers -> Looks] /\ \A k \in Lookers : Heard(lookups[k])'
<1>1. PICK look \in Looks : lookups' = [lookups EXCEPT ![l] = look] /\ Heard(look)
  OBVIOUS
<1>2. Heard(look)'
  BY <1>1, HonestyStays
<1>3. QED
  BY <1>1, <1>2, OtherLookups

LEMMA LooksAre ==
  ASSUME LookupsIInv, NEW l \in Lookers
  PROVE  /\ lookups[l] \in Looks /\ Heard(lookups[l])
         /\ lookups[l] = [at |-> lookups[l].at, began |-> lookups[l].began,
                          heard |-> lookups[l].heard, source |-> lookups[l].source]
         /\ lookups[l].at \in {"free", "reading", "calling", "replied", "answered"}
         /\ lookups[l].began \in Int /\ lookups[l].heard \in BOOLEAN
         /\ lookups[l].source \in {"none", "cache", "api", "list", "error"}
  BY DEF LookupsIInv, LookupsTypeOK, Looks

\* What is left of the invariant when the lookups are seen to.
LEMMA RestOfLookups ==
  ASSUME LookupsIInv, [LookupsNext]_lookupVars
  PROVE  LookupsTypeOK' <=> /\ hour' \in 0 .. LastHour /\ listed' \in BOOLEAN
                            /\ exits' \in BOOLEAN /\ lookups' \in [Lookers -> Looks]
                            /\ fetch' \in {"idle", "read", "filling"}
                            /\ Len(writes') <= WritesMax
<1>1. service' \in Services
  BY HonestyStays DEF LookupsIInv, LookupsTypeOK
<1>2. QED
  BY <1>1 DEF LookupsTypeOK, Looks

\* The caches and the lists of a step that leaves them alone.
LEMMA CachesStay ==
  ASSUME LookupsIInv, [LookupsNext]_lookupVars
  PROVE  /\ otherwise' = otherwise \/ otherwise' = hour
         /\ hour <= hour' /\ hour' \in Int
         /\ otherwise' \in Int /\ otherwise' <= hour'
         /\ -LastHour - ABUSE_HOURS <= otherwise'
         /\ UNCHANGED cacheVars => Caches'
         /\ UNCHANGED torVars => Exits'
<1>1. otherwise' = otherwise \/ otherwise' = hour
  BY DEF LookupsNext, lookupVars, cacheVars, torVars, Begin, ReadCache, Reply,
    RefuseCall, Fail, Receive, CheckExit, WriteScore, ReadExits, ClearExits,
    FillExits, AbandonFetch, ThinkAgain, Hour, LookupsRestart
<1>2. hour <= hour' /\ hour' \in Int
  BY HourGrows
<1>3. \A o \in Opinions : Honest(o) => Honest(o)'
  BY HonestyStays
<1>4. /\ otherwise' \in Int /\ otherwise' <= hour'
      /\ -LastHour - ABUSE_HOURS <= otherwise'
  BY <1>1, <1>2, LookupsConstants DEF LookupsIInv, LookupsTypeOK, Caches
<1>5. ASSUME UNCHANGED cacheVars PROVE Caches'
  <2>1. row' = row /\ decision' = decision /\ writes' = writes
    BY <1>5 DEF cacheVars
  <2>2. row \in Opinions /\ Honest(row)' /\ decision \in Opinions /\ Honest(decision)'
    BY <1>3, <2>1 DEF LookupsIInv, Caches, Honest, Held
  <2>3. writes \in Seq(Opinions) /\ \A i \in 1 .. Len(writes) : Honest(writes[i])'
    BY <1>3, <2>1 DEF LookupsIInv, Caches, Honest, Held
  <2> QED
    BY <1>4, <2>1, <2>2, <2>3 DEF Caches
<1>6. ASSUME UNCHANGED torVars PROVE Exits'
  BY <1>3, <1>6 DEF torVars, LookupsIInv, Exits, Honest, Held
<1>7. QED
  BY <1>1, <1>2, <1>4, <1>5, <1>6

\* The caches of a step that copies honest opinions among them.
LEMMA CachesCopied ==
  ASSUME LookupsIInv, [LookupsNext]_lookupVars,
         NEW r \in Opinions, Honest(r), row' = r,
         NEW d \in Opinions, Honest(d), decision' = d,
         writes' \in Seq(Opinions),
         \A i \in 1 .. Len(writes') : \E o \in Opinions : o = writes'[i] /\ Honest(o)
  PROVE  Caches'
<1>1. Honest(r)' /\ Honest(d)'
  BY HonestyStays
<1>2. \A i \in 1 .. Len(writes') : \E o \in Opinions : o = writes'[i] /\ Honest(o)'
  BY HonestyStays
<1>3. Honest(row)' /\ Honest(decision)'
  BY <1>1 DEF Honest, Held
<1>4. \A i \in 1 .. Len(writes') : Honest(writes[i])'
  BY <1>2 DEF Honest, Held
<1>5. QED
  BY <1>3, <1>4, CachesStay DEF Caches

LEMMA LookupsKeep ==
  ASSUME LookupsIInv, [LookupsNext]_lookupVars PROVE LookupsIInv'
<1> DEFINE Told == lookups' \in [Lookers -> Looks] /\ \A k \in Lookers : Heard(lookups[k])'
<1>a. /\ lookups \in [Lookers -> Looks] /\ hour \in 0 .. LastHour /\ listed \in BOOLEAN
      /\ exits \in BOOLEAN /\ fetch \in {"idle", "read", "filling"}
      /\ Len(writes) <= WritesMax
  BY DEF LookupsIInv, LookupsTypeOK, Looks
<1>b. /\ UNCHANGED cacheVars => Caches'
      /\ UNCHANGED torVars => Exits'
      /\ \A o \in Opinions : Honest(o) => Honest(o)'
      /\ service' = service
      /\ \A l \in Lookers : lookups[l] \in Looks /\ Heard(lookups[l])
  BY CachesStay, HonestyStays, LooksAre
<1>c. ASSUME UNCHANGED lookups PROVE Told
  <2>1. \A look \in Looks : Heard(look) => Heard(look)'
    BY HonestyStays
  <2>2. \A k \in Lookers : Heard(lookups[k])'
    BY <1>b, <1>c, <2>1 DEF Heard, Held, Long
  <2> QED
    BY <1>a, <1>c, <2>2
<1>e. ASSUME NEW l \in Lookers,
             \E look \in Looks : lookups' = [lookups EXCEPT ![l] = look] /\ Heard(look)
      PROVE  Told
  BY <1>e, LookupMoves
<1>d. ASSUME Told, Caches', Exits', hour' \in 0 .. LastHour, listed' \in BOOLEAN,
             exits' \in BOOLEAN, fetch' \in {"idle", "read", "filling"},
             Len(writes') <= WritesMax
      PROVE  LookupsIInv'
  <2>1. LookupsTypeOK'
    BY <1>d, RestOfLookups
  <2> QED
    BY <1>d, <2>1 DEF LookupsIInv
<1> HIDE DEF Told
<1>1. CASE UNCHANGED lookupVars
  BY <1>1, <1>a, <1>b, <1>c, <1>d DEF lookupVars, cacheVars, torVars
<1>2. ASSUME NEW l \in Lookers, Begin(l) PROVE LookupsIInv'
  <2>1. CASE service = "crowd" /\ decision.ts + CROWD_SECS > hour
    <3> DEFINE look == [at |-> "answered", began |-> hour, heard |-> decision.value,
                        source |-> "cache"]
    <3>1. decision.value \in BOOLEAN /\ decision.ts \in Int
      BY DEF LookupsIInv, Caches, Opinions
    <3>2. look \in Looks
      BY <1>a, <3>1 DEF Looks
    <3>3. Held(decision.value) >= decision.ts /\ Held(decision.value) \in Int
      BY <3>1, HeldIsInt DEF LookupsIInv, Caches, Honest
    <3>4. Held(decision.value) > hour - Long
      BY <1>a, <2>1, <3>1, <3>3, LookupsConstants DEF Long
    <3>5. Heard(look)
      BY <1>a, <3>4 DEF Heard
    <3>6. lookups' = [lookups EXCEPT ![l] = look]
      BY <1>2, <2>1 DEF Begin
    <3>7. Told
      BY <1>e, <3>2, <3>5, <3>6
    <3> QED
      BY <1>2, <1>a, <1>b, <1>d, <3>7 DEF Begin, cacheVars, torVars
  <2>2. CASE ~(service = "crowd" /\ decision.ts + CROWD_SECS > hour)
    <3> DEFINE at == IF service = "abuse" THEN "reading" ELSE "calling"
    <3> DEFINE look == [at |-> at, began |-> hour, heard |-> FALSE, source |-> "none"]
    <3>1. lookups' = [lookups EXCEPT ![l] = look]
      BY <1>2, <2>2 DEF Begin, Free
    <3>2. look \in Looks
      BY <1>a DEF Looks
    <3>3. Heard(look)
      BY <1>a, LookupsConstants DEF Heard
    <3>4. Told
      BY <1>e, <3>1, <3>2, <3>3
    <3> QED
      BY <1>2, <1>a, <1>b, <1>d, <3>4 DEF Begin, cacheVars, torVars
  <2> QED
    BY <2>1, <2>2
<1>3. ASSUME NEW l \in Lookers, ReadCache(l) PROVE LookupsIInv'
  <2>1. CASE lookups' = [lookups EXCEPT ![l].at = "calling"]
    <3> DEFINE look == [lookups[l] EXCEPT !.at = "calling"]
    <3>1. lookups' = [lookups EXCEPT ![l] = look]
      BY <2>1
    <3>2. look \in Looks
      BY <1>b DEF Looks
    <3>3. Heard(look)
      BY <1>3, <1>b DEF ReadCache, Heard, Looks
    <3>4. Told
      BY <1>e, <3>1, <3>2, <3>3
    <3> QED
      BY <1>3, <1>a, <1>b, <1>d, <3>4 DEF ReadCache, cacheVars, torVars
  <2>2. CASE lookups[l].began - row.ts < ABUSE_HOURS /\ Answered(l, row.value, "cache")
    <3> DEFINE look == [lookups[l] EXCEPT !.at = "answered", !.heard = row.value,
                                          !.source = "cache"]
    <3>1. lookups' = [lookups EXCEPT ![l] = look]
      BY <1>a, <2>2 DEF Answered
    <3>2. row.value \in BOOLEAN /\ row.ts \in Int
      BY DEF LookupsIInv, Caches, Opinions
    <3>3. look \in Looks
      BY <1>b, <3>2 DEF Looks
    <3>4. Held(row.value) >= row.ts /\ Held(row.value) \in Int
      BY <3>2, HeldIsInt DEF LookupsIInv, Caches, Honest
    <3>5. service = "abuse" /\ lookups[l].began \in Int
      BY <1>3, <1>b DEF ReadCache, Heard, Looks
    <3>6. Held(row.value) > lookups[l].began - Long
      BY <2>2, <3>2, <3>4, <3>5, LookupsConstants DEF Long
    <3>7. Heard(look)
      BY <1>b, <3>3, <3>6 DEF Heard, Looks
    <3>8. Told
      BY <1>e, <3>1, <3>3, <3>7
    <3> QED
      BY <1>3, <1>a, <1>b, <1>d, <3>8 DEF ReadCache, cacheVars, torVars
  <2> QED
    BY <1>3, <2>1, <2>2 DEF ReadCache
<1>4. ASSUME NEW l \in Lookers, Reply(l) PROVE LookupsIInv'
  <2> DEFINE look == [lookups[l] EXCEPT !.at = "replied", !.heard = listed]
  <2>1. lookups' = [lookups EXCEPT ![l] = look]
    BY <1>4, <1>a DEF Reply
  <2>2. look \in Looks
    BY <1>a, <1>b DEF Looks
  <2>3. Held(listed) = hour
    BY DEF Held
  <2>4. Heard(look)
    BY <1>4, <1>b, <2>3 DEF Reply, Heard, Looks
  <2>5. Told
    BY <1>e, <2>1, <2>2, <2>4
  <2> QED
    BY <1>4, <1>a, <1>b, <1>d, <2>5 DEF Reply, cacheVars, torVars
<1>5. ASSUME NEW l \in Lookers, RefuseCall(l) PROVE LookupsIInv'
  <2> DEFINE look == [lookups[l] EXCEPT !.at = "replied", !.heard = FALSE]
  <2>1. lookups' = [lookups EXCEPT ![l] = look]
    BY <1>5, <1>a DEF RefuseCall
  <2>2. look \in Looks
    BY <1>b DEF Looks
  <2>3. PICK told \in Looks : told = look
    BY <2>2
  <2>4. Held(FALSE)' = hour
    BY <1>5, <1>a DEF RefuseCall, Held
  <2>5. Heard(told)'
    BY <1>5, <1>b, <2>3, <2>4 DEF RefuseCall, Heard, Looks
  <2>6. Told
    BY <2>1, <2>3, <2>5, OtherLookups DEF Told
  <2> QED
    BY <1>5, <1>a, <1>b, <1>d, <2>6 DEF RefuseCall, cacheVars, torVars
<1>6. ASSUME NEW l \in Lookers, Fail(l) PROVE LookupsIInv'
  <2> DEFINE look == [lookups[l] EXCEPT !.at = "answered", !.heard = FALSE,
                                        !.source = "error"]
  <2>1. lookups' = [lookups EXCEPT ![l] = look]
    BY <1>6, <1>a DEF Fail, Answered
  <2>2. look \in Looks
    BY <1>b DEF Looks
  <2>3. Heard(look)
    BY <1>b DEF Heard, Looks
  <2>4. Told
    BY <1>e, <2>1, <2>2, <2>3
  <2> QED
    BY <1>6, <1>a, <1>b, <1>d, <2>4 DEF Fail, cacheVars, torVars
<1>7. ASSUME NEW l \in Lookers, Receive(l) PROVE LookupsIInv'
  <2> DEFINE look == [lookups[l] EXCEPT !.at = "answered", !.source = "api"]
             answer == [value |-> lookups[l].heard, ts |-> lookups[l].began]
  <2>1. lookups' = [lookups EXCEPT ![l] = look]
    BY <1>7, <1>a, <1>b DEF Receive, Answered, Looks
  <2>2. look \in Looks /\ answer \in Opinions
    BY <1>b DEF Looks, Opinions
  <2>3. Held(lookups[l].heard) >= lookups[l].began
    BY <1>7, <1>b DEF Receive, Heard
  <2>4. Heard(look)
    BY <1>b, <2>3 DEF Heard, Looks
  <2>5. Told
    BY <1>e, <2>1, <2>2, <2>4
  <2>6. Honest(answer)
    BY <2>3 DEF Honest
  <2>7. PICK o \in Opinions : o = answer /\ Honest(o)
    BY <2>2, <2>6
  <2>8. Honest(o)'
    BY <1>b, <2>7
  <2>9. /\ writes \in Seq(Opinions)
        /\ \A i \in 1 .. Len(writes) :
             \E q \in Opinions : q = writes[i] /\ Honest(q)
        /\ row \in Opinions /\ decision \in Opinions /\ Honest(row) /\ Honest(decision)
    BY DEF LookupsIInv, Caches
  <2>10. Caches'
    <3>1. /\ row' = row /\ decision' \in {decision, o}
          /\ writes' \in {writes, Append(writes, o)}
      BY <1>7, <2>7 DEF Receive, AnswerOf
    <3> HIDE DEF answer
    <3>2. PICK r \in Opinions : r = row' /\ Honest(r)
      BY <2>9, <3>1
    <3>3. PICK d \in Opinions : d = decision' /\ Honest(d)
      BY <2>7, <2>9, <3>1
    <3>4. writes' \in Seq(Opinions)
      BY <2>9, <3>1, WritesStayHonest
    <3>5. \A i \in 1 .. Len(writes') : \E q \in Opinions : q = writes'[i] /\ Honest(q)
      <4>1. CASE writes' = writes
        BY <2>9, <4>1
      <4>2. CASE writes' = Append(writes, o)
        <5>1. /\ Len(writes') = Len(writes) + 1 /\ Len(writes) \in Nat
              /\ \A i \in 1 .. Len(writes) : writes'[i] = writes[i]
              /\ writes'[Len(writes) + 1] = o
          BY <2>9, <4>2, WritesStayHonest
        <5> QED
          BY <2>7, <2>9, <5>1
      <4> QED
        BY <3>1, <4>1, <4>2
    <3> QED
      BY <3>2, <3>3, <3>4, <3>5, CachesCopied
  <2>11. Len(writes') <= WritesMax
    <3>1. Len(Append(writes, answer)) = Len(writes) + 1 /\ Len(writes) \in Nat
      BY <2>2, <2>9
    <3> HIDE DEF answer
    <3> QED
      BY <1>7, <1>a, <3>1, LookupsConstants DEF Receive, answer
  <2> QED
    BY <1>7, <1>a, <1>b, <1>d, <2>5, <2>10, <2>11 DEF Receive, torVars
<1>8. ASSUME NEW l \in Lookers, CheckExit(l) PROVE LookupsIInv'
  <2> DEFINE look == [at |-> "answered", began |-> fresh.ts, heard |-> exits,
                      source |-> IF fetch = "filling" \/ fresh = Absent
                                 THEN "none" ELSE "list"]
  <2>1. lookups' = [lookups EXCEPT ![l] = look]
    BY <1>8 DEF CheckExit
  <2>2. /\ fresh.value \in BOOLEAN /\ fresh.ts \in Int /\ Held(fresh.value) >= fresh.ts
        /\ fetch # "filling" => exits = fresh.value
    BY DEF LookupsIInv, Exits, Opinions, Honest
  <2>3. look \in Looks
    BY <1>a, <2>2 DEF Looks
  <2>4. Heard(look)
    BY <2>2 DEF Heard
  <2>5. Told
    BY <1>e, <2>1, <2>3, <2>4
  <2> QED
    BY <1>8, <1>a, <1>b, <1>d, <2>5 DEF CheckExit, cacheVars, torVars
<1>9. CASE WriteScore
  <2>1. /\ writes \in Seq(Opinions) /\ writes # << >>
        /\ \A i \in 1 .. Len(writes) :
             \E q \in Opinions : q = writes[i] /\ Honest(q)
        /\ row \in Opinions /\ decision \in Opinions /\ Honest(row) /\ Honest(decision)
    BY <1>9 DEF WriteScore, LookupsIInv, Caches
  <2>2. /\ writes' = Tail(writes) /\ decision' = decision /\ row' \in {Head(writes), row}
    BY <1>9 DEF WriteScore
  <2>3. /\ writes' \in Seq(Opinions) /\ Len(writes') = Len(writes) - 1
        /\ Head(writes) = writes[1] /\ 1 \in 1 .. Len(writes) /\ Len(writes) \in Nat
        /\ \A i \in 1 .. Len(writes) - 1 : writes'[i] = writes[i + 1]
    BY <2>1, <2>2
  <2>4. Caches'
    <3>1. PICK r \in Opinions : r = row' /\ Honest(r)
      BY <2>1, <2>2, <2>3
    <3>2. PICK d \in Opinions : d = decision' /\ Honest(d)
      BY <2>1, <2>2
    <3>3. \A i \in 1 .. Len(writes') : \E q \in Opinions : q = writes'[i] /\ Honest(q)
      BY <2>1, <2>3
    <3> QED
      BY <2>3, <3>1, <3>2, <3>3, CachesCopied
  <2>5. Len(writes') <= WritesMax
    BY <1>a, <2>3, LookupsConstants
  <2> QED
    BY <1>9, <1>a, <1>b, <1>c, <1>d, <2>4, <2>5 DEF WriteScore, torVars
<1>10. CASE ReadExits
  <2>1. /\ lists' \in Opinions /\ lists'.value = listed /\ lists'.ts = hour
    BY <1>10, <1>a DEF ReadExits, Opinions
  <2>2. Honest(lists)'
    BY <1>10, <1>a, <2>1 DEF ReadExits, Honest, Held
  <2>3. Exits'
    BY <1>10, <1>b, <2>1, <2>2 DEF ReadExits, LookupsIInv, Exits, Honest, Held
  <2> QED
    BY <1>10, <1>a, <1>b, <1>c, <1>d, <2>3 DEF ReadExits, cacheVars
<1>11. CASE ClearExits
  <2>1. Exits'
    BY <1>11, <1>b DEF ClearExits, LookupsIInv, Exits, Honest, Held
  <2> QED
    BY <1>11, <1>a, <1>b, <1>c, <1>d, <2>1 DEF ClearExits, cacheVars
<1>12. CASE FillExits
  <2>1. Exits'
    BY <1>12, <1>b DEF FillExits, LookupsIInv, Exits, Honest, Held
  <2>2. exits' \in BOOLEAN
    BY <1>12 DEF FillExits, LookupsIInv, Exits, Opinions
  <2> QED
    BY <1>12, <1>a, <1>b, <1>c, <1>d, <2>1, <2>2 DEF FillExits, cacheVars
<1>13. CASE AbandonFetch
  <2>1. Exits'
    BY <1>13, <1>b DEF AbandonFetch, LookupsIInv, Exits, Honest, Held
  <2> QED
    BY <1>13, <1>a, <1>b, <1>c, <1>d, <2>1 DEF AbandonFetch, cacheVars
<1>14. CASE ThinkAgain
  BY <1>14, <1>a, <1>b, <1>c, <1>d DEF ThinkAgain, cacheVars, torVars
<1>15. CASE Hour
  <2>1. hour' \in 0 .. LastHour
    BY <1>15, <1>a, LookupsConstants DEF Hour
  <2> QED
    BY <1>15, <1>a, <1>b, <1>c, <1>d, <2>1 DEF Hour, cacheVars, torVars
<1>16. CASE LookupsRestart
  <2>1. /\ Absent \in Opinions /\ Absent.value = FALSE
        /\ Absent.ts = -LastHour - ABUSE_HOURS
    BY LookupsConstants DEF Absent, Opinions
  <2>2. Honest(Absent)
    BY <1>a, <2>1, LookupsConstants DEF Honest, Held, LookupsIInv, Caches
  <2>3. Free \in Looks /\ Heard(Free)
    BY <1>a DEF Free, Looks, Heard
  <2>4. Told
    BY <1>16, <2>3, HonestyStays DEF LookupsRestart, Told, Heard, Held, Long
  <2>5. Caches'
    <3>1. PICK r \in Opinions : r = row' /\ Honest(r)
      BY <1>16 DEF LookupsRestart, LookupsIInv, Caches
    <3>2. PICK d \in Opinions : d = decision' /\ Honest(d)
      BY <1>16, <2>1, <2>2 DEF LookupsRestart
    <3>3. writes' \in Seq(Opinions) /\ Len(writes') = 0
      BY <1>16 DEF LookupsRestart
    <3> QED
      BY <3>1, <3>2, <3>3, CachesCopied
  <2>6. Exits'
    BY <1>16, <1>b, <2>1, <2>2 DEF LookupsRestart, Exits, Honest, Held
  <2>7. /\ hour' \in 0 .. LastHour /\ listed' \in BOOLEAN /\ fetch' = "idle"
        /\ Len(writes') <= WritesMax
    BY <1>16, <1>a, LookupsConstants DEF LookupsRestart
  <2>8. exits' \in BOOLEAN
    BY <1>16 DEF LookupsRestart
  <2> QED
    BY <1>d, <2>4, <2>5, <2>6, <2>7, <2>8
<1>17. QED
  BY <1>1, <1>2, <1>3, <1>4, <1>5, <1>6, <1>7, <1>8, <1>9, <1>10, <1>11, <1>12,
     <1>13, <1>14, <1>15, <1>16 DEF LookupsNext

-----------------------------------------------------------------------------

LEMMA LookupsInvariance ==
  LookupsSpec => []LookupsIInv
<1>1. LookupsInit => LookupsIInv
  BY LookupsStart
<1>2. LookupsIInv /\ [LookupsNext]_lookupVars => LookupsIInv'
  BY LookupsKeep
<1>3. QED
  BY <1>1, <1>2, PTL DEF LookupsSpec

\* A verdict on an address is never older than its cache allows: whatever the
\* service, the writer and the thread that reads the list do in between, and
\* however often the process restarts.
THEOREM VerdictsAreFresh ==
  LookupsSpec => []VerdictsFresh
<1>1. LookupsIInv => VerdictsFresh
  BY DEF LookupsIInv, Heard, VerdictsFresh
<1>2. QED
  BY <1>1, LookupsInvariance, PTL

(***************************************************************************)
(* Delivery                                                                *)
(***************************************************************************)

DeliveryIInv == DeliveryTypeOK /\ OpenMeansLost

\* A full queue takes no more, and a key is kept for its time.
LEMMA PostTyped ==
  ASSUME DeliveryTypeOK, NEW k \in Keys, Post(k)
  PROVE  claimed' \in [Keys -> 0 .. DEDUP] /\ backlog' \in 0 .. BacklogMax
  <1>1. DEDUP \in 0 .. DEDUP /\ Backlogged \in 0 .. BacklogMax
    BY DeliveryAssumption DEF DeliveryTypeOK, Backlogged
  <1> QED BY <1>1 DEF Post, Claimed, DeliveryTypeOK

LEMMA DeliveryStarts ==
  ASSUME DeliveryInit
  PROVE  DeliveryIInv
  <1>1. /\ 0 \in 0 .. DEDUP /\ 0 \in 0 .. BacklogMax /\ 0 \in 0 .. Attempts - 1
        /\ 0 \in 0 .. CB_THRESHOLD /\ 0 \in 0 .. CB_RESET /\ 0 \in 0 .. ALERT_COOLDOWN
    BY DeliveryAssumption
  <1>2. DeliveryTypeOK
    BY <1>1 DEF DeliveryInit, DeliveryTypeOK
  <1>3. OpenMeansLost
    BY DEF DeliveryInit, OpenMeansLost, Broken
  <1> QED BY <1>2, <1>3 DEF DeliveryIInv

\* The steps of the worker: a loss opens the circuit and ends the posting.
LEMMA WorkerStep ==
  ASSUME DeliveryIInv, Works
  PROVE  DeliveryIInv'
  <1> USE DeliveryAssumption DEF DeliveryIInv
  <1>1. CASE Take
    <2>1. DeliveryTypeOK'
      BY <1>1 DEF Take, Skipped, DeliveryTypeOK, alarmVars
    <2>2. OpenMeansLost'
      BY <1>1 DEF Take, Skipped, OpenMeansLost, Broken
    <2> QED BY <2>1, <2>2
  <1>2. CASE Check
    <2>1. DeliveryTypeOK'
      BY <1>2 DEF Check, DeliveryTypeOK, alarmVars
    <2>2. ~Broken /\ circuit' = circuit
      BY <1>2 DEF Check, OpenMeansLost
    <2> QED BY <2>1, <2>2 DEF OpenMeansLost, Broken
  <1>3. CASE Deliver
    <2>1. DeliveryTypeOK'
      BY <1>3 DEF Deliver, AfterDelivery, DeliveryTypeOK, alarmVars
    <2>2. ~Broken /\ circuit'.openLeft = circuit.openLeft
      BY <1>3 DEF Deliver, AfterDelivery, OpenMeansLost, DeliveryTypeOK
    <2> QED BY <2>1, <2>2 DEF OpenMeansLost, Broken
  <1>4. CASE Miss
    <2>1. ~Broken
      BY <1>4 DEF Miss, OpenMeansLost
    <2>2. AfterLoss \in [failures : 0 .. CB_THRESHOLD, openLeft : 0 .. CB_RESET]
      BY DEF AfterLoss, DeliveryTypeOK
    <2>3. AfterLoss.openLeft > 0 => AfterLoss.failures = CB_THRESHOLD
      BY <2>1 DEF AfterLoss, Broken
    <2>4. CASE attempt + 1 < Attempts
      <3>1. attempt' = attempt + 1 /\ UNCHANGED <<worker, circuit, outcome>>
        BY <1>4, <2>4 DEF Miss
      <3>2. attempt' \in 0 .. Attempts - 1
        BY <2>4, <3>1 DEF DeliveryTypeOK
      <3> QED BY <1>4, <2>1, <3>1, <3>2 DEF Miss, DeliveryTypeOK, OpenMeansLost, Broken, alarmVars
    <2>5. CASE ~(attempt + 1 < Attempts)
      <3>1. worker' = "idle" /\ outcome' = "lost" /\ circuit' = AfterLoss /\ attempt' = 0
        BY <1>4, <2>5 DEF Miss
      <3>2. DeliveryTypeOK'
        BY <1>4, <2>2, <3>1 DEF Miss, DeliveryTypeOK, alarmVars
      <3> QED BY <2>3, <3>1, <3>2 DEF OpenMeansLost, Broken
    <2> QED BY <2>4, <2>5
  <1> QED BY <1>1, <1>2, <1>3, <1>4 DEF Works

\* The steps of everything else leave the worker alone; time closes the circuit.
LEMMA DeliveryStep ==
  ASSUME DeliveryIInv, [DeliveryNext]_deliveryVars
  PROVE  DeliveryIInv'
  <1> USE DeliveryAssumption DEF DeliveryIInv
  <1>1. ASSUME UNCHANGED workerVars
        PROVE  OpenMeansLost'
    BY <1>1 DEF OpenMeansLost, Broken, workerVars
  <1>2. ASSUME NEW c \in Calls, PostEnds(c)
        PROVE  DeliveryIInv'
    <2>1. calls[c] \in Keys
      BY <1>2 DEF PostEnds, DeliveryTypeOK
    <2> QED BY <1>1, <1>2, <2>1, PostTyped DEF PostEnds, DeliveryTypeOK, workerVars, alarmVars
  <1>3. ASSUME NEW c \in Calls, NEW k \in Keys, Announce(c, k)
        PROVE  DeliveryIInv'
    BY <1>1, <1>3 DEF Announce, DeliveryTypeOK, workerVars, alarmVars
  <1>4. ASSUME NEW k \in Keys, ClaimElsewhere(k)
        PROVE  DeliveryIInv'
    BY <1>1, <1>4 DEF ClaimElsewhere, Claimed, DeliveryTypeOK, workerVars, alarmVars
  <1>5. CASE Round \/ \E a \in Alarms : Quiet(a) \/ Raise(a)
    BY <1>1, <1>5 DEF Round, Quiet, Raise, DeliveryTypeOK, workerVars
  <1>6. CASE Raised
    <2>1. silent' \in [Alarms -> 0 .. ALERT_COOLDOWN]
      BY <1>6 DEF Raised, DeliveryTypeOK
    <2> QED BY <1>1, <1>6, <2>1, PostTyped DEF Raised, DeliveryTypeOK, workerVars
  <1>7. CASE PassTime
    <2>1. /\ \A k \in Keys : Less(claimed[k]) \in 0 .. DEDUP
          /\ \A a \in Alarms : Less(silent[a]) \in 0 .. ALERT_COOLDOWN
          /\ Less(circuit.openLeft) \in 0 .. CB_RESET
          /\ Less(circuit.openLeft) > 0 => circuit.openLeft > 0
      BY DEF DeliveryTypeOK, Less
    <2>2. DeliveryTypeOK'
      BY <1>7, <2>1 DEF PassTime, DeliveryTypeOK
    <2>3. OpenMeansLost'
      BY <1>7, <2>1 DEF PassTime, OpenMeansLost, Broken, DeliveryTypeOK
    <2> QED BY <2>2, <2>3
  <1>8. CASE \E r \in {"up", "down", "barred"} : Becomes(r)
    BY <1>1, <1>8 DEF Becomes, DeliveryTypeOK, workerVars, alarmVars
  <1>9. CASE ProcessEnds
    BY <1>9 DEF ProcessEnds, DeliveryTypeOK, OpenMeansLost, Broken
  <1>10. CASE UNCHANGED deliveryVars
    BY <1>1, <1>10 DEF deliveryVars, DeliveryTypeOK, workerVars
  <1> QED BY <1>2, <1>3, <1>4, <1>5, <1>6, <1>7, <1>8, <1>9, <1>10, WorkerStep
          DEF DeliveryNext

\* Every variable keeps its type: the queue its bound, whatever is announced.
THEOREM DeliveryTypeCorrect == DeliverySpec => []DeliveryTypeOK
  <1>1. DeliveryIInv => DeliveryTypeOK
    BY DEF DeliveryIInv
  <1> QED BY <1>1, DeliveryStarts, DeliveryStep, PTL DEF DeliverySpec

\* The circuit of the webhook opens only after CB_THRESHOLD losses, and no
\* answer of an event finds it open, for any threshold, number of attempts and
\* length of the queue.
THEOREM CircuitIsOpenedByLosses == DeliverySpec => []OpenMeansLost
  <1>1. DeliveryIInv => OpenMeansLost
    BY DEF DeliveryIInv
  <1> QED BY <1>1, DeliveryStarts, DeliveryStep, PTL DEF DeliverySpec

\* What HeardAgain rests on: once one event has been taken for delivery, and
\* as long as the receiver stays up, no event is lost.
THEOREM NoneIsLostWhileUp == DeliverySpec => HeardWhileUp
  <1>1. DeliveryInit => DeliveryIInv
    BY DeliveryStarts
  <1>2. DeliveryIInv /\ [DeliveryNext]_deliveryVars => DeliveryIInv'
    BY DeliveryStep
  <1>3. DeliveryIInv /\ [DeliveryNext]_deliveryVars
          => [receiver = "up" /\ receiver' = "up" /\ outcome # "lost"
              => outcome' # "lost"]_deliveryVars
    <2> SUFFICES ASSUME DeliveryIInv, DeliveryNext, receiver = "up", outcome # "lost"
                 PROVE  outcome' # "lost"
      BY DEF deliveryVars
    <2>1. ~Broken
      BY DEF DeliveryIInv, OpenMeansLost
    <2>2. CASE Works
      BY <2>1, <2>2 DEF Works, Take, Check, Deliver, Miss
    <2>3. CASE ~Works
      BY <2>3 DEF DeliveryNext, Announce, PostEnds, ClaimElsewhere, Round, Quiet, Raise,
                  Raised, PassTime, Becomes, ProcessEnds, workerVars
    <2> QED BY <2>2, <2>3
  <1> QED BY <1>1, <1>2, <1>3, PTL DEF DeliverySpec, HeardWhileUp

(***************************************************************************)
(* Settings                                                                *)
(*                                                                         *)
(* What is stored once the queue is written, Settled, replays the queue on *)
(* the stores.  The first lemmas are about replays: they exist, a replay   *)
(* of q and then p is a replay of p on one of q, and what the operations   *)
(* keep from step to step holds at the end.                                *)
(***************************************************************************)

LEMMA LeastNatural ==
  ASSUME NEW T \in SUBSET Nat, T # {}
  PROVE  \E x \in T : \A y \in T : x <= y
  <1> DEFINE R == OpToRel(<, Nat)
  <1>1. IsWellFoundedOn(R, Nat)
    BY NatLessThanWellFounded
  <1>2. \A x, y \in Nat : <<y, x>> \in R <=> y < x
    BY DEF OpToRel
  <1> HIDE DEF R
  <1>3. PICK x \in T : \A y \in T : ~(<<y, x>> \in R)
    BY <1>1, WFMin
  <1>4. x \in Nat /\ \A y \in T : y \in Nat /\ ~(y < x)
    <2> SUFFICES ASSUME NEW y \in T PROVE x \in Nat /\ y \in Nat /\ ~(y < x)
      OBVIOUS
    <2>1. x \in Nat /\ y \in Nat
      OBVIOUS
    <2>2. ~(<<y, x>> \in R)
      BY <1>3
    <2> QED BY <1>2, <2>1, <2>2
  <1> QED BY <1>4

\* Induction up to a number, with the set of those at which a claim holds.
LEMMA UpTo ==
  ASSUME NEW m \in Nat, NEW H, 0 \in H,
         \A n \in 1 .. m : n - 1 \in H => n \in H
  PROVE  \A n \in 0 .. m : n \in H
  <1> DEFINE Bad == {n \in 0 .. m : n \notin H}
  <1>1. Bad = {}
    <2> SUFFICES ASSUME Bad # {} PROVE FALSE
      OBVIOUS
    <2>1. Bad \in SUBSET Nat
      OBVIOUS
    <2>2. PICK n \in Bad : \A y \in Bad : n <= y
      BY <2>1, LeastNatural
    <2>3. n \in 0 .. m /\ n \notin H /\ n # 0
      BY <2>2
    <2>4. n \in 1 .. m /\ n - 1 \in 0 .. m
      BY <2>3
    <2>5. n - 1 \notin Bad
      BY <2>1, <2>2, <2>4
    <2> QED BY <2>3, <2>4, <2>5
  <1> QED BY <1>1

\* f holds the stores after each of ops.
Run(f, st, ops) ==
  /\ f[0] = st
  /\ \A n \in 1 .. Len(ops) : f[n] = Applied(f[n - 1], ops[n])

LEMMA Replays ==
  ASSUME NEW T, NEW ops \in Seq(T), NEW st
  PROVE  \E f : Run(f, st, ops) /\ Replayed(st, ops) = f[Len(ops)]
<1> DEFINE Upto(n) == \E f : f = [m \in 0 .. n |-> IF m = 0 THEN st
                                              ELSE Applied(f[m - 1], ops[m])]
           S == {n \in Nat : Upto(n)}
<1>1. 0 \in S
  <2>1. PICK g : g = [m \in 0 .. 0 |-> st]
    OBVIOUS
  <2>2. g = [m \in 0 .. 0 |-> IF m = 0 THEN st ELSE Applied(g[m - 1], ops[m])]
    BY <2>1
  <2> QED
    BY <2>2
<1>2. \A n \in 1 .. Len(ops) : n - 1 \in S => n \in S
  <2> SUFFICES ASSUME NEW n \in 1 .. Len(ops), n - 1 \in S PROVE n \in S
    OBVIOUS
  <2>1. PICK f : f = [m \in 0 .. n - 1 |-> IF m = 0 THEN st ELSE Applied(f[m - 1], ops[m])]
    OBVIOUS
  <2>2. PICK g : g = [m \in 0 .. n |-> IF m = n THEN Applied(f[n - 1], ops[n]) ELSE f[m]]
    OBVIOUS
  <2>3. ASSUME NEW m \in 0 .. n
        PROVE  g[m] = IF m = 0 THEN st ELSE Applied(g[m - 1], ops[m])
    <3>1. CASE m = n
      <4>1. m - 1 \in 0 .. n /\ m - 1 # n /\ m # 0
        BY <3>1
      <4>2. g[m - 1] = f[n - 1]
        BY <2>2, <3>1, <4>1
      <4> QED
        BY <2>2, <3>1, <4>1, <4>2
    <3>2. CASE m # n
      <4>1. m \in 0 .. n - 1 /\ g[m] = f[m]
        BY <2>2, <3>2
      <4>2. f[m] = IF m = 0 THEN st ELSE Applied(f[m - 1], ops[m])
        BY <2>1, <4>1
      <4>3. m # 0 => g[m - 1] = f[m - 1]
        BY <2>2, <4>1
      <4> QED
        BY <4>1, <4>2, <4>3
    <3> QED
      BY <3>1, <3>2
  <2>4. g = [m \in 0 .. n |-> IF m = 0 THEN st ELSE Applied(g[m - 1], ops[m])]
    BY <2>2, <2>3
  <2>5. Upto(n)
    BY <2>4
  <2> QED
    BY <2>5
<1>3. Len(ops) \in S
  <2> HIDE DEF S
  <2>1. PICK m \in Nat : m = Len(ops)
    OBVIOUS
  <2>2. \A n \in 1 .. m : n - 1 \in S => n \in S
    BY <1>2, <2>1
  <2>3. \A n \in 0 .. m : n \in S
    BY <1>1, <2>2, UpTo
  <2> QED
    BY <2>1, <2>3
<1>4. PICK f : f = [m \in 0 .. Len(ops) |-> IF m = 0 THEN st ELSE Applied(f[m - 1], ops[m])]
  BY <1>3
<1> DEFINE after == CHOOSE g : g = [m \in 0 .. Len(ops) |-> IF m = 0 THEN st
                                              ELSE Applied(g[m - 1], ops[m])]
<1>5. after = [m \in 0 .. Len(ops) |-> IF m = 0 THEN st ELSE Applied(after[m - 1], ops[m])]
  BY <1>4
<1>6. Replayed(st, ops) = after[Len(ops)]
  BY DEF Replayed
<1> HIDE DEF after
<1>7. Run(after, st, ops)
  BY <1>5 DEF Run
<1>8. QED
  BY <1>6, <1>7

\* Two replays of the same operations on related stores end related: rel[n]
\* holds the pairs that may come after the first n.
LEMMA ReplaysRelate ==
  ASSUME NEW T, NEW ops \in Seq(T), NEW st1, NEW st2, NEW rel,
         <<st1, st2>> \in rel[0],
         \A n \in 1 .. Len(ops) : \A a, b :
           <<a, b>> \in rel[n - 1] => <<Applied(a, ops[n]), Applied(b, ops[n])>> \in rel[n]
  PROVE  <<Replayed(st1, ops), Replayed(st2, ops)>> \in rel[Len(ops)]
<1>1. PICK f : Run(f, st1, ops) /\ Replayed(st1, ops) = f[Len(ops)]
  BY Replays
<1>2. PICK g : Run(g, st2, ops) /\ Replayed(st2, ops) = g[Len(ops)]
  BY Replays
<1> DEFINE S == {n \in 0 .. Len(ops) : <<f[n], g[n]>> \in rel[n]}
<1>3. Len(ops) \in Nat
  OBVIOUS
<1>4. 0 \in S
  BY <1>1, <1>2, <1>3 DEF Run
<1>5. \A n \in 1 .. Len(ops) : n - 1 \in S => n \in S
  <2> SUFFICES ASSUME NEW n \in 1 .. Len(ops), n - 1 \in S PROVE n \in S
    OBVIOUS
  <2>1. f[n] = Applied(f[n - 1], ops[n]) /\ g[n] = Applied(g[n - 1], ops[n])
    BY <1>1, <1>2 DEF Run
  <2>2. <<f[n - 1], g[n - 1]>> \in rel[n - 1] /\ n \in 0 .. Len(ops)
    OBVIOUS
  <2> QED
    BY <2>1, <2>2
<1> HIDE DEF S
<1>6. Len(ops) \in S
  <2>1. \A n \in 0 .. Len(ops) : n \in S
    BY <1>3, <1>4, <1>5, UpTo
  <2> QED
    BY <1>3, <2>1
<1>7. QED
  BY <1>1, <1>2, <1>6 DEF S

\* What the first n of ops lead to, n for n, holds at the end.
LEMMA ReplayLeadsTo ==
  ASSUME NEW T, NEW ops \in Seq(T), NEW st, NEW good,
         st \in good[0],
         \A n \in 1 .. Len(ops) : \A a \in good[n - 1] : Applied(a, ops[n]) \in good[n]
  PROVE  Replayed(st, ops) \in good[Len(ops)]
<1>1. PICK f : Run(f, st, ops) /\ Replayed(st, ops) = f[Len(ops)]
  BY Replays
<1> DEFINE S == {n \in 0 .. Len(ops) : f[n] \in good[n]}
<1>2. Len(ops) \in Nat /\ 0 \in S
  BY <1>1 DEF Run
<1>3. \A n \in 1 .. Len(ops) : n - 1 \in S => n \in S
  BY <1>1 DEF Run
<1> HIDE DEF S
<1>4. Len(ops) \in S
  <2>1. \A n \in 0 .. Len(ops) : n \in S
    BY <1>2, <1>3, UpTo
  <2> QED
    BY <1>2, <2>1
<1>5. QED
  BY <1>1, <1>4 DEF S

LEMMA RunsAgree ==
  ASSUME NEW f, NEW g, NEW m \in Nat, f[0] = g[0], NEW T, NEW ops \in Seq(T),
         \A n \in 1 .. m : f[n] = Applied(f[n - 1], ops[n]),
         \A n \in 1 .. m : g[n] = Applied(g[n - 1], ops[n])
  PROVE  f[m] = g[m]
<1> DEFINE S == {n \in 0 .. m : f[n] = g[n]}
<1>1. 0 \in S
  OBVIOUS
<1>2. \A n \in 1 .. m : n - 1 \in S => n \in S
  OBVIOUS
<1> HIDE DEF S
<1>3. m \in S
  <2>1. \A n \in 0 .. m : n \in S
    BY <1>1, <1>2, UpTo
  <2> QED
    BY <2>1
<1>4. QED
  BY <1>3 DEF S

LEMMA ReplayOfNothing ==
  ASSUME NEW st PROVE Replayed(st, << >>) = st
<1>1. << >> \in Seq({}) /\ Len(<< >>) = 0
  OBVIOUS
<1>2. PICK f : Run(f, st, << >>) /\ Replayed(st, << >>) = f[Len(<< >>)]
  BY <1>1, Replays
<1>3. QED
  BY <1>1, <1>2 DEF Run

LEMMA ReplayInTurn ==
  ASSUME NEW T, NEW q \in Seq(T), NEW p \in Seq(T), NEW st
  PROVE  Replayed(st, q \o p) = Replayed(Replayed(st, q), p)
<1>1. /\ q \o p \in Seq(T) /\ Len(q \o p) = Len(q) + Len(p)
      /\ Len(q) \in Nat /\ Len(p) \in Nat
      /\ \A n \in 1 .. Len(q) : (q \o p)[n] = q[n]
      /\ \A n \in 1 .. Len(p) : (q \o p)[Len(q) + n] = p[n]
  OBVIOUS
<1>2. PICK f : Run(f, st, q \o p) /\ Replayed(st, q \o p) = f[Len(q \o p)]
  BY <1>1, Replays
<1>3. PICK g : Run(g, st, q) /\ Replayed(st, q) = g[Len(q)]
  BY Replays
<1>4. PICK h : Run(h, Replayed(st, q), p) /\ Replayed(Replayed(st, q), p) = h[Len(p)]
  BY Replays
<1>5. f[Len(q)] = g[Len(q)]
  <2>1. \A n \in 1 .. Len(q) : f[n] = Applied(f[n - 1], q[n])
    BY <1>1, <1>2 DEF Run
  <2>2. \A n \in 1 .. Len(q) : g[n] = Applied(g[n - 1], q[n])
    BY <1>3 DEF Run
  <2>3. f[0] = g[0]
    BY <1>2, <1>3 DEF Run
  <2> QED
    BY <1>1, <2>1, <2>2, <2>3, RunsAgree
<1> DEFINE k == [n \in 0 .. Len(p) |-> f[Len(q) + n]]
<1>6. \A n \in 0 .. Len(p) : k[n] = f[Len(q) + n]
  OBVIOUS
<1> HIDE DEF k
<1>7. k[Len(p)] = h[Len(p)]
  <2>1. ASSUME NEW n \in 1 .. Len(p) PROVE k[n] = Applied(k[n - 1], p[n])
    <3>1. /\ n \in 0 .. Len(p) /\ n - 1 \in 0 .. Len(p)
          /\ Len(q) + n \in 1 .. Len(q \o p) /\ Len(q) + n - 1 = Len(q) + (n - 1)
      BY <1>1
    <3>2. f[Len(q) + n] = Applied(f[Len(q) + n - 1], (q \o p)[Len(q) + n])
      BY <1>2, <3>1 DEF Run
    <3> QED
      BY <1>1, <1>6, <3>1, <3>2
  <2>2. \A n \in 1 .. Len(p) : h[n] = Applied(h[n - 1], p[n])
    BY <1>4 DEF Run
  <2>3. k[0] = h[0]
    BY <1>1, <1>3, <1>4, <1>5, <1>6 DEF Run
  <2> QED
    BY <1>1, <2>1, <2>2, <2>3, RunsAgree
<1>8. QED
  BY <1>1, <1>2, <1>4, <1>6, <1>7

LEMMA ReplayOfOne ==
  ASSUME NEW st, NEW op PROVE Replayed(st, <<op>>) = Applied(st, op)
<1>1. <<op>> \in Seq({op}) /\ Len(<<op>>) = 1 /\ <<op>>[1] = op
  OBVIOUS
<1>2. PICK f : Run(f, st, <<op>>) /\ Replayed(st, <<op>>) = f[Len(<<op>>)]
  BY <1>1, Replays
<1>3. f[1] = Applied(f[0], op) /\ f[0] = st
  BY <1>1, <1>2 DEF Run
<1>4. QED
  BY <1>1, <1>2, <1>3

-----------------------------------------------------------------------------
(***************************************************************************)
(* Operations, and the stores they make                                    *)
(***************************************************************************)

StoreSpace ==
  [rows : Partial(Knobs \ {"bypass"}, BOOLEAN), kept : SUBSET Secrets,
   table : SUBSET Cidrs]

KnobOps == {KnobOp(k, v) : k \in Knobs \ {"bypass"}, v \in BOOLEAN}
SecretOps == {SecretOp(s, present) : s \in Secrets, present \in BOOLEAN}
AllCidrOps == {CidrOp(c, listed_) : c \in Cidrs, listed_ \in BOOLEAN}
Ops == KnobOps \cup SecretOps \cup AllCidrOps

Sets(op, k) == op.op = "set_config" /\ op.knob = k
Turns(op, s) == op.op = "secret" /\ op.secret = s
Lists(op, c) == op.op = "admin_ip" /\ op.cidr = c

\* k has the same value, or none, in both.
SameRow(r1, r2, k) == /\ k \in DOMAIN r1 <=> k \in DOMAIN r2
                      /\ k \in DOMAIN r1 => r1[k] = r2[k]

\* The row of k holds v.
HasRow(r, k, v) == k \in DOMAIN r /\ r[k] = v

LEMMA KnobsAre ==
  /\ Knobs = {"turnstile", "abuse", "plain", "ja4", "bypass"}
  /\ Secrets = {"turnstile", "abuse"}
  BY DEF Knobs, Secrets

LEMMA PartialIs ==
  ASSUME NEW S, NEW T, NEW f
  PROVE  f \in Partial(S, T) <=> DOMAIN f \subseteq S /\ f \in [DOMAIN f -> T]
  BY DEF Partial

\* What each kind of operation is.
LEMMA OpsAre ==
  ASSUME NEW op \in Ops
  PROVE  /\ op.op \in {"set_config", "secret", "admin_ip"}
         /\ op.op = "set_config" =>
              /\ op.knob \in Knobs \ {"bypass"} /\ op.value \in BOOLEAN
         /\ op.op = "secret" => op.secret \in Secrets /\ op.present \in BOOLEAN
         /\ op.op = "admin_ip" => op.cidr \in Cidrs /\ op.listed \in BOOLEAN
<1>1. CASE op \in KnobOps
  BY <1>1 DEF KnobOps, KnobOp
<1>2. CASE op \in SecretOps
  BY <1>2 DEF SecretOps, SecretOp
<1>3. CASE op \in AllCidrOps
  BY <1>3 DEF AllCidrOps, CidrOp
<1>4. QED
  BY <1>1, <1>2, <1>3 DEF Ops

LEMMA OpsMade ==
  /\ \A k \in Knobs \ {"bypass"}, v \in BOOLEAN :
       /\ KnobOp(k, v) \in Ops /\ KnobOp(k, v).op = "set_config"
       /\ KnobOp(k, v).knob = k /\ KnobOp(k, v).value = v
  /\ \A s \in Secrets, v \in BOOLEAN :
       /\ SecretOp(s, v) \in Ops /\ SecretOp(s, v).op = "secret"
       /\ SecretOp(s, v).secret = s /\ SecretOp(s, v).present = v
  /\ \A c \in Cidrs, v \in BOOLEAN :
       /\ CidrOp(c, v) \in Ops /\ CidrOp(c, v).op = "admin_ip"
       /\ CidrOp(c, v).cidr = c /\ CidrOp(c, v).listed = v
<1>1. ASSUME NEW k \in Knobs \ {"bypass"}, NEW v \in BOOLEAN
      PROVE  /\ KnobOp(k, v) \in Ops /\ KnobOp(k, v).op = "set_config"
             /\ KnobOp(k, v).knob = k /\ KnobOp(k, v).value = v
  <2>1. KnobOp(k, v) \in KnobOps
    BY DEF KnobOps
  <2> QED
    BY <2>1 DEF Ops, KnobOp
<1>2. ASSUME NEW s \in Secrets, NEW v \in BOOLEAN
      PROVE  /\ SecretOp(s, v) \in Ops /\ SecretOp(s, v).op = "secret"
             /\ SecretOp(s, v).secret = s /\ SecretOp(s, v).present = v
  <2>1. SecretOp(s, v) \in SecretOps
    BY DEF SecretOps
  <2> QED
    BY <2>1 DEF Ops, SecretOp
<1>3. ASSUME NEW c \in Cidrs, NEW v \in BOOLEAN
      PROVE  /\ CidrOp(c, v) \in Ops /\ CidrOp(c, v).op = "admin_ip"
             /\ CidrOp(c, v).cidr = c /\ CidrOp(c, v).listed = v
  <2>1. CidrOp(c, v) \in AllCidrOps
    BY DEF AllCidrOps
  <2> QED
    BY <2>1 DEF Ops, CidrOp
<1>4. QED
  BY <1>1, <1>2, <1>3

\* What one operation does to a store.
LEMMA AppliedIs ==
  ASSUME NEW a \in StoreSpace, NEW op \in Ops
  PROVE  /\ Applied(a, op) \in StoreSpace
         /\ \A k : IF Sets(op, k)
                   THEN k \in DOMAIN Applied(a, op).rows
                        /\ Applied(a, op).rows[k] = op.value
                   ELSE SameRow(a.rows, Applied(a, op).rows, k)
         /\ \A s : s \in Applied(a, op).kept <=>
                     IF Turns(op, s) THEN op.present ELSE s \in a.kept
         /\ \A c : c \in Applied(a, op).table <=>
                     IF Lists(op, c) THEN op.listed ELSE c \in a.table
<1>a. /\ a.rows \in Partial(Knobs \ {"bypass"}, BOOLEAN) /\ a.kept \subseteq Secrets
      /\ a.table \subseteq Cidrs
      /\ a = [rows |-> a.rows, kept |-> a.kept, table |-> a.table]
  BY DEF StoreSpace
<1>b. \A r \in Partial(Knobs \ {"bypass"}, BOOLEAN), s \in SUBSET Secrets,
         t \in SUBSET Cidrs :
        [rows |-> r, kept |-> s, table |-> t] \in StoreSpace
  BY DEF StoreSpace
<1>1. CASE op.op = "set_config"
  <2> DEFINE r == Given(a.rows, op.knob, op.value)
  <2>1. Applied(a, op) = [rows |-> r, kept |-> a.kept, table |-> a.table]
    BY <1>1, <1>a DEF Applied
  <2>2. /\ DOMAIN r = DOMAIN a.rows \cup {op.knob} /\ r[op.knob] = op.value
        /\ \A k \in DOMAIN a.rows : k # op.knob => r[k] = a.rows[k]
        /\ r = [k \in DOMAIN r |-> r[k]]
    BY DEF Given, Over
  <2> HIDE DEF r
  <2>3. r \in Partial(Knobs \ {"bypass"}, BOOLEAN)
    BY <1>1, <1>a, <2>2, OpsAre, PartialIs
  <2>4. Applied(a, op) \in StoreSpace
    BY <1>a, <1>b, <2>1, <2>3
  <2> QED
    BY <1>1, <1>a, <2>1, <2>2, <2>4 DEF Sets, Turns, Lists, SameRow
<1>2. CASE op.op = "secret"
  <2> DEFINE s == IF op.present THEN a.kept \cup {op.secret} ELSE a.kept \ {op.secret}
  <2>1. Applied(a, op) = [rows |-> a.rows, kept |-> s, table |-> a.table]
    BY <1>2, <1>a DEF Applied
  <2>2. s \in SUBSET Secrets
    BY <1>2, <1>a, OpsAre
  <2>3. \A x : x \in s <=> IF x = op.secret THEN op.present ELSE x \in a.kept
    BY <1>2, OpsAre
  <2> HIDE DEF s
  <2>4. Applied(a, op) \in StoreSpace
    BY <1>a, <1>b, <2>1, <2>2
  <2> QED
    BY <1>2, <1>a, <2>1, <2>3, <2>4 DEF Sets, Turns, Lists, SameRow
<1>3. CASE op.op = "admin_ip"
  <2> DEFINE t == IF op.listed THEN a.table \cup {op.cidr} ELSE a.table \ {op.cidr}
  <2>1. Applied(a, op) = [rows |-> a.rows, kept |-> a.kept, table |-> t]
    BY <1>3, <1>a DEF Applied
  <2>2. t \in SUBSET Cidrs
    BY <1>3, <1>a, OpsAre
  <2>3. \A x : x \in t <=> IF x = op.cidr THEN op.listed ELSE x \in a.table
    BY <1>3, OpsAre
  <2> HIDE DEF t
  <2>4. Applied(a, op) \in StoreSpace
    BY <1>a, <1>b, <2>1, <2>2
  <2> QED
    BY <1>3, <1>a, <2>1, <2>3, <2>4 DEF Sets, Turns, Lists, SameRow
<1>4. QED
  BY <1>1, <1>2, <1>3, OpsAre

LEMMA ReplayInSpace ==
  ASSUME NEW a \in StoreSpace, NEW p \in Seq(Ops) PROVE Replayed(a, p) \in StoreSpace
<1> DEFINE good == [n \in 0 .. Len(p) |-> StoreSpace]
<1>1. \A n \in 0 .. Len(p) : good[n] = StoreSpace
  OBVIOUS
<1>2. Len(p) \in Nat /\ \A n \in 1 .. Len(p) : p[n] \in Ops /\ n - 1 \in 0 .. Len(p)
                                              /\ n \in 0 .. Len(p)
  OBVIOUS
<1> HIDE DEF good
<1>3. \A n \in 1 .. Len(p) : \A b \in good[n - 1] : Applied(b, p[n]) \in good[n]
  BY <1>1, <1>2, AppliedIs
<1>4. a \in good[0]
  BY <1>1, <1>2
<1>5. QED
  BY <1>1, <1>2, <1>3, <1>4, ReplayLeadsTo

\* No operation of p is about knob k.
LEMMA ReplayKeepsRow ==
  ASSUME NEW a \in StoreSpace, NEW p \in Seq(Ops), NEW k,
         \A n \in 1 .. Len(p) : ~Sets(p[n], k)
  PROVE  SameRow(a.rows, Replayed(a, p).rows, k)
<1> DEFINE same == {b \in StoreSpace : SameRow(a.rows, b.rows, k)}
           good == [n \in 0 .. Len(p) |-> same]
<1>1. \A n \in 0 .. Len(p) : good[n] = same
  OBVIOUS
<1>2. Len(p) \in Nat /\ \A n \in 1 .. Len(p) : p[n] \in Ops /\ n - 1 \in 0 .. Len(p)
                                              /\ n \in 0 .. Len(p)
  OBVIOUS
<1> HIDE DEF good
<1>3. \A n \in 1 .. Len(p) : \A b \in same : Applied(b, p[n]) \in same
  <2> SUFFICES ASSUME NEW n \in 1 .. Len(p), NEW b \in same
               PROVE  Applied(b, p[n]) \in same
    OBVIOUS
  <2>1. /\ Applied(b, p[n]) \in StoreSpace
        /\ SameRow(b.rows, Applied(b, p[n]).rows, k)
    BY <1>2, AppliedIs
  <2> QED
    BY <2>1 DEF SameRow
<1>4. a \in same
  BY DEF SameRow
<1> HIDE DEF same
<1>5. Replayed(a, p) \in same
  BY <1>1, <1>2, <1>3, <1>4, ReplayLeadsTo
<1>6. QED
  BY <1>5 DEF same

\* The last operation of p about knob k is the i-th.
LEMMA ReplaySetsRow ==
  ASSUME NEW a \in StoreSpace, NEW p \in Seq(Ops), NEW k,
         NEW i \in 1 .. Len(p), Sets(p[i], k), \A n \in i + 1 .. Len(p) : ~Sets(p[n], k)
  PROVE  HasRow(Replayed(a, p).rows, k, p[i].value)
<1> DEFINE set == {b \in StoreSpace : k \in DOMAIN b.rows /\ b.rows[k] = p[i].value}
           good == [n \in 0 .. Len(p) |-> IF n < i THEN StoreSpace ELSE set]
<1>1. /\ \A n \in 0 .. i - 1 : good[n] = StoreSpace
      /\ \A n \in i .. Len(p) : good[n] = set
  OBVIOUS
<1>2. Len(p) \in Nat /\ \A n \in 1 .. Len(p) : p[n] \in Ops /\ n - 1 \in 0 .. Len(p)
                                              /\ n \in 0 .. Len(p)
  OBVIOUS
<1> HIDE DEF good
<1>3. \A n \in 1 .. Len(p) : \A b \in good[n - 1] : Applied(b, p[n]) \in good[n]
  <2> SUFFICES ASSUME NEW n \in 1 .. Len(p), NEW b \in good[n - 1]
               PROVE  Applied(b, p[n]) \in good[n]
    OBVIOUS
  <2>1. b \in StoreSpace /\ (n > i => b \in set)
    <3>1. n - 1 \in 0 .. i - 1 \/ n - 1 \in i .. Len(p)
      BY <1>2
    <3>2. n > i => n - 1 \in i .. Len(p)
      BY <1>2
    <3> QED
      BY <1>1, <3>1, <3>2
  <2>2. /\ Applied(b, p[n]) \in StoreSpace
        /\ Sets(p[n], k) => /\ k \in DOMAIN Applied(b, p[n]).rows
                            /\ Applied(b, p[n]).rows[k] = p[n].value
        /\ ~Sets(p[n], k) => SameRow(b.rows, Applied(b, p[n]).rows, k)
    BY <1>2, <2>1, AppliedIs
  <2>3. CASE n < i
    BY <1>1, <1>2, <2>2, <2>3
  <2>4. CASE n = i
    BY <1>1, <1>2, <2>2, <2>4
  <2>5. CASE n > i
    <3>1. b \in set /\ ~Sets(p[n], k)
      BY <1>2, <2>1, <2>5
    <3> QED
      BY <1>1, <1>2, <2>2, <2>5, <3>1 DEF SameRow
  <2> QED
    BY <2>3, <2>4, <2>5
<1>4. a \in good[0]
  <2>1. 0 \in 0 .. i - 1
    OBVIOUS
  <2> QED
    BY <1>1, <2>1
<1>5. good[Len(p)] = set
  <2>1. Len(p) \in i .. Len(p)
    BY <1>2
  <2> QED
    BY <1>1, <2>1
<1> HIDE DEF set
<1>6. Replayed(a, p) \in set
  BY <1>2, <1>3, <1>4, <1>5, ReplayLeadsTo
<1>7. QED
  BY <1>6 DEF set, HasRow

\* No operation of p is about secret s.
LEMMA ReplayKeepsSecret ==
  ASSUME NEW a \in StoreSpace, NEW p \in Seq(Ops), NEW s,
         \A n \in 1 .. Len(p) : ~Turns(p[n], s)
  PROVE  s \in Replayed(a, p).kept <=> s \in a.kept
<1> DEFINE same == {b \in StoreSpace : s \in b.kept <=> s \in a.kept}
           good == [n \in 0 .. Len(p) |-> same]
<1>1. \A n \in 0 .. Len(p) : good[n] = same
  OBVIOUS
<1>2. Len(p) \in Nat /\ \A n \in 1 .. Len(p) : p[n] \in Ops /\ n - 1 \in 0 .. Len(p)
                                              /\ n \in 0 .. Len(p)
  OBVIOUS
<1> HIDE DEF good
<1>3. \A n \in 1 .. Len(p) : \A b \in same : Applied(b, p[n]) \in same
  BY <1>2, AppliedIs
<1>4. a \in same
  OBVIOUS
<1> HIDE DEF same
<1>5. Replayed(a, p) \in same
  BY <1>1, <1>2, <1>3, <1>4, ReplayLeadsTo
<1>6. QED
  BY <1>5 DEF same

\* Every operation of p about address c lists it.
LEMMA ReplayLists ==
  ASSUME NEW a \in StoreSpace, NEW p \in Seq(Ops), NEW c,
         \A n \in 1 .. Len(p) : Lists(p[n], c) => p[n].listed
  PROVE  c \in Replayed(a, p).table <=>
           c \in a.table \/ \E n \in 1 .. Len(p) : Lists(p[n], c)
<1> DEFINE listing(n) == {b \in StoreSpace :
                            c \in b.table <=>
                              c \in a.table \/ \E m \in 1 .. n : Lists(p[m], c)}
           good == [n \in 0 .. Len(p) |-> listing(n)]
<1>1. \A n \in 0 .. Len(p) : good[n] = listing(n)
  OBVIOUS
<1>2. Len(p) \in Nat /\ \A n \in 1 .. Len(p) : p[n] \in Ops /\ n - 1 \in 0 .. Len(p)
                                              /\ n \in 0 .. Len(p)
  OBVIOUS
<1> HIDE DEF good
<1>3. \A n \in 1 .. Len(p) : \A b \in good[n - 1] : Applied(b, p[n]) \in good[n]
  <2> SUFFICES ASSUME NEW n \in 1 .. Len(p), NEW b \in listing(n - 1)
               PROVE  Applied(b, p[n]) \in listing(n)
    BY <1>1, <1>2
  <2>1. \A m \in 1 .. n : m \in 1 .. n - 1 \/ m = n
    OBVIOUS
  <2>2. 1 .. n - 1 \subseteq 1 .. n /\ n \in 1 .. n
    BY <1>2
  <2>3. /\ Applied(b, p[n]) \in StoreSpace
        /\ c \in Applied(b, p[n]).table <=>
             IF Lists(p[n], c) THEN p[n].listed ELSE c \in b.table
    BY <1>2, AppliedIs
  <2> QED
    BY <1>2, <2>1, <2>2, <2>3
<1>4. a \in good[0]
  BY <1>1, <1>2
<1>5. good[Len(p)] = listing(Len(p))
  BY <1>1, <1>2
<1> HIDE DEF listing
<1>6. Replayed(a, p) \in listing(Len(p))
  BY <1>2, <1>3, <1>4, <1>5, ReplayLeadsTo
<1>7. QED
  BY <1>6 DEF listing

\* Stores that differ in other secrets only stay so.
LEMMA ReplaysApart ==
  ASSUME NEW a \in StoreSpace, NEW b \in StoreSpace, NEW p \in Seq(Ops),
         a.rows = b.rows, a.table = b.table, NEW s, s \in a.kept <=> s \in b.kept
  PROVE  /\ \A k : SameRow(Replayed(a, p).rows, Replayed(b, p).rows, k)
         /\ Replayed(a, p).table = Replayed(b, p).table
         /\ s \in Replayed(a, p).kept <=> s \in Replayed(b, p).kept
<1> DEFINE alike == {d \in StoreSpace \X StoreSpace :
                       /\ \A k : SameRow(d[1].rows, d[2].rows, k)
                       /\ \A c : c \in d[1].table <=> c \in d[2].table
                       /\ s \in d[1].kept <=> s \in d[2].kept}
           rel == [n \in 0 .. Len(p) |-> alike]
<1>1. \A n \in 0 .. Len(p) : rel[n] = alike
  OBVIOUS
<1>2. Len(p) \in Nat /\ \A n \in 1 .. Len(p) : p[n] \in Ops /\ n - 1 \in 0 .. Len(p)
                                              /\ n \in 0 .. Len(p)
  OBVIOUS
<1> HIDE DEF rel
<1>3. \A n \in 1 .. Len(p) : \A d, e : <<d, e>> \in alike =>
        <<Applied(d, p[n]), Applied(e, p[n])>> \in alike
  <2> SUFFICES ASSUME NEW n \in 1 .. Len(p), NEW d, NEW e, <<d, e>> \in alike
               PROVE  <<Applied(d, p[n]), Applied(e, p[n])>> \in alike
    OBVIOUS
  <2>1. /\ d \in StoreSpace /\ e \in StoreSpace
        /\ \A k : SameRow(d.rows, e.rows, k)
        /\ \A c : c \in d.table <=> c \in e.table
        /\ s \in d.kept <=> s \in e.kept
    OBVIOUS
  <2> DEFINE d1 == Applied(d, p[n])
             e1 == Applied(e, p[n])
  <2>2. /\ d1 \in StoreSpace /\ e1 \in StoreSpace
        /\ \A k : IF Sets(p[n], k) THEN k \in DOMAIN d1.rows /\ d1.rows[k] = p[n].value
                  ELSE SameRow(d.rows, d1.rows, k)
        /\ \A k : IF Sets(p[n], k) THEN k \in DOMAIN e1.rows /\ e1.rows[k] = p[n].value
                  ELSE SameRow(e.rows, e1.rows, k)
        /\ s \in d1.kept <=> IF Turns(p[n], s) THEN p[n].present ELSE s \in d.kept
        /\ s \in e1.kept <=> IF Turns(p[n], s) THEN p[n].present ELSE s \in e.kept
        /\ \A c : c \in d1.table <=> IF Lists(p[n], c) THEN p[n].listed ELSE c \in d.table
        /\ \A c : c \in e1.table <=> IF Lists(p[n], c) THEN p[n].listed ELSE c \in e.table
    BY <1>2, <2>1, AppliedIs
  <2> HIDE DEF d1, e1
  <2>3. \A k : SameRow(d1.rows, e1.rows, k)
    BY <2>1, <2>2 DEF SameRow
  <2>4. \A c : c \in d1.table <=> c \in e1.table
    BY <2>1, <2>2
  <2>5. s \in d1.kept <=> s \in e1.kept
    BY <2>1, <2>2
  <2>6. <<d1, e1>> \in alike
    BY <2>2, <2>3, <2>4, <2>5
  <2> QED
    BY <2>6 DEF d1, e1
<1>4. <<a, b>> \in alike
  BY DEF SameRow
<1> HIDE DEF alike
<1>5. <<Replayed(a, p), Replayed(b, p)>> \in alike
  <2>1. \A n \in 1 .. Len(p) : \A d, e : <<d, e>> \in rel[n - 1] =>
          <<Applied(d, p[n]), Applied(e, p[n])>> \in rel[n]
    BY <1>1, <1>2, <1>3
  <2>2. <<a, b>> \in rel[0] /\ rel[Len(p)] = alike
    BY <1>1, <1>2, <1>4
  <2> QED
    BY <2>1, <2>2, ReplaysRelate
<1>6. /\ \A k : SameRow(Replayed(a, p).rows, Replayed(b, p).rows, k)
      /\ \A c : c \in Replayed(a, p).table <=> c \in Replayed(b, p).table
      /\ s \in Replayed(a, p).kept <=> s \in Replayed(b, p).kept
  BY <1>5 DEF alike
<1>7. Replayed(a, p).table = Replayed(b, p).table
  BY <1>6
<1>8. QED
  BY <1>6, <1>7

\* A larger table leads to a larger table.
LEMMA ReplayGrows ==
  ASSUME NEW a \in StoreSpace, NEW b \in StoreSpace, NEW p \in Seq(Ops),
         a.table \subseteq b.table
  PROVE  Replayed(a, p).table \subseteq Replayed(b, p).table
<1> DEFINE within == {d \in StoreSpace \X StoreSpace :
                        \A c : c \in d[1].table => c \in d[2].table}
           rel == [n \in 0 .. Len(p) |-> within]
<1>1. \A n \in 0 .. Len(p) : rel[n] = within
  OBVIOUS
<1>2. Len(p) \in Nat /\ \A n \in 1 .. Len(p) : p[n] \in Ops /\ n - 1 \in 0 .. Len(p)
                                              /\ n \in 0 .. Len(p)
  OBVIOUS
<1> HIDE DEF rel
<1>3. \A n \in 1 .. Len(p) : \A d, e : <<d, e>> \in within =>
        <<Applied(d, p[n]), Applied(e, p[n])>> \in within
  <2> SUFFICES ASSUME NEW n \in 1 .. Len(p), NEW d, NEW e, <<d, e>> \in within
               PROVE  <<Applied(d, p[n]), Applied(e, p[n])>> \in within
    OBVIOUS
  <2>1. d \in StoreSpace /\ e \in StoreSpace /\ \A c : c \in d.table => c \in e.table
    OBVIOUS
  <2>2. /\ Applied(d, p[n]) \in StoreSpace /\ Applied(e, p[n]) \in StoreSpace
        /\ \A c : c \in Applied(d, p[n]).table => c \in Applied(e, p[n]).table
    BY <1>2, <2>1, AppliedIs
  <2> QED
    BY <2>2
<1>4. <<a, b>> \in within
  OBVIOUS
<1> HIDE DEF within
<1>5. <<Replayed(a, p), Replayed(b, p)>> \in within
  <2>1. \A n \in 1 .. Len(p) : \A d, e : <<d, e>> \in rel[n - 1] =>
          <<Applied(d, p[n]), Applied(e, p[n])>> \in rel[n]
    BY <1>1, <1>2, <1>3
  <2>2. <<a, b>> \in rel[0] /\ rel[Len(p)] = within
    BY <1>1, <1>2, <1>4
  <2> QED
    BY <2>1, <2>2, ReplaysRelate
<1>6. QED
  BY <1>5 DEF within

\* All operations of p about k have the value v, and there is one.
LEMMA ReplayAgrees ==
  ASSUME NEW a \in StoreSpace, NEW p \in Seq(Ops), NEW k, NEW v,
         \A n \in 1 .. Len(p) : Sets(p[n], k) => p[n].value = v,
         \E n \in 1 .. Len(p) : Sets(p[n], k)
  PROVE  HasRow(Replayed(a, p).rows, k, v)
<1> DEFINE set == {b \in StoreSpace : k \in DOMAIN b.rows /\ b.rows[k] = v}
           after(n) == {b \in StoreSpace :
                          (\E m \in 1 .. n : Sets(p[m], k)) => b \in set}
           good == [n \in 0 .. Len(p) |-> after(n)]
<1>1. \A n \in 0 .. Len(p) : good[n] = after(n)
  OBVIOUS
<1>2. Len(p) \in Nat /\ \A n \in 1 .. Len(p) : p[n] \in Ops /\ n - 1 \in 0 .. Len(p)
                                              /\ n \in 0 .. Len(p)
  OBVIOUS
<1> HIDE DEF good
<1>3. \A n \in 1 .. Len(p) : \A b \in good[n - 1] : Applied(b, p[n]) \in good[n]
  <2> SUFFICES ASSUME NEW n \in 1 .. Len(p), NEW b \in after(n - 1)
               PROVE  Applied(b, p[n]) \in after(n)
    BY <1>1, <1>2
  <2>1. \A m \in 1 .. n : m \in 1 .. n - 1 \/ m = n
    OBVIOUS
  <2>2. /\ Applied(b, p[n]) \in StoreSpace
        /\ Sets(p[n], k) => /\ k \in DOMAIN Applied(b, p[n]).rows
                            /\ Applied(b, p[n]).rows[k] = p[n].value
        /\ ~Sets(p[n], k) => SameRow(b.rows, Applied(b, p[n]).rows, k)
    BY <1>2, AppliedIs
  <2>3. CASE Sets(p[n], k)
    BY <2>2, <2>3
  <2>4. CASE ~Sets(p[n], k)
    BY <2>1, <2>2, <2>4 DEF SameRow
  <2> QED
    BY <2>3, <2>4
<1>4. a \in good[0] /\ good[Len(p)] = after(Len(p))
  <2>1. 0 \in 0 .. Len(p) /\ Len(p) \in 0 .. Len(p) /\ 1 .. 0 = {}
    BY <1>2
  <2>2. good[0] = after(0) /\ good[Len(p)] = after(Len(p))
    BY <1>1, <2>1
  <2> QED
    BY <2>1, <2>2
<1> HIDE DEF after
<1>5. Replayed(a, p) \in after(Len(p))
  BY <1>2, <1>3, <1>4, ReplayLeadsTo
<1>6. QED
  BY <1>5, <1>2 DEF after, HasRow

-----------------------------------------------------------------------------

\* The elements of a sequence.
Elements(q) == {q[i] : i \in 1 .. Len(q)}

LEMMA ElementsInTurn ==
  ASSUME NEW T, NEW q \in Seq(T), NEW p \in Seq(T)
  PROVE  q \o p \in Seq(T) /\ Elements(q \o p) = Elements(q) \cup Elements(p)
<1>1. /\ q \o p \in Seq(T) /\ Len(q \o p) = Len(q) + Len(p)
      /\ Len(q) \in Nat /\ Len(p) \in Nat
      /\ \A n \in 1 .. Len(q) : n \in 1 .. Len(q \o p) /\ (q \o p)[n] = q[n]
      /\ \A n \in 1 .. Len(p) : /\ Len(q) + n \in 1 .. Len(q \o p)
                                /\ (q \o p)[Len(q) + n] = p[n]
  OBVIOUS
<1>2. \A x \in Elements(q) \cup Elements(p) : x \in Elements(q \o p)
  BY <1>1 DEF Elements
<1>3. \A n \in 1 .. Len(q \o p) :
        n \in 1 .. Len(q) \/ (n - Len(q) \in 1 .. Len(p) /\ n = Len(q) + (n - Len(q)))
  BY <1>1
<1>4. \A x \in Elements(q \o p) : x \in Elements(q) \cup Elements(p)
  <2> SUFFICES ASSUME NEW n \in 1 .. Len(q \o p)
               PROVE  (q \o p)[n] \in Elements(q) \cup Elements(p)
    BY DEF Elements
  <2>1. CASE n \in 1 .. Len(q)
    BY <1>1, <2>1 DEF Elements
  <2>2. CASE n - Len(q) \in 1 .. Len(p) /\ n = Len(q) + (n - Len(q))
    BY <1>1, <2>2 DEF Elements
  <2> QED
    BY <1>3, <2>1, <2>2
<1>5. QED
  BY <1>1, <1>2, <1>4

LEMMA LengthsInTurn ==
  ASSUME NEW T, NEW q \in Seq(T), NEW p \in Seq(T)
  PROVE  q \o p \in Seq(T) /\ Len(q \o p) = Len(q) + Len(p)
  OBVIOUS

\* The operations of a post: one for each knob that is stored.
LEMMA RowOpsAre ==
  ASSUME NEW body \in Partial(Knobs, BOOLEAN), NEW ks, ks \subseteq DOMAIN body
  PROVE  /\ RowOps(body, ks) \in Seq(Ops)
         /\ Elements(RowOps(body, ks)) = {KnobOp(k, body[k]) : k \in ks \ {"bypass"}}
<1>1. DOMAIN body \subseteq Knobs /\ \A k \in DOMAIN body : body[k] \in BOOLEAN
  BY PartialIs
<1> DEFINE single(k) == IF k \in ks \ NotPersisted THEN <<KnobOp(k, body[k])>> ELSE <<>>
           ops(k) == IF k \in ks \ {"bypass"} THEN {KnobOp(k, body[k])} ELSE {}
<1>2. ASSUME NEW k PROVE single(k) \in Seq(Ops) /\ Elements(single(k)) = ops(k)
  <2>1. CASE k \in ks \ {"bypass"}
    <3>1. KnobOp(k, body[k]) \in Ops
      BY <1>1, <2>1, OpsMade
    <3>2. single(k) = <<KnobOp(k, body[k])>>
      BY <2>1 DEF NotPersisted
    <3>3. /\ <<KnobOp(k, body[k])>> \in Seq(Ops) /\ Len(<<KnobOp(k, body[k])>>) = 1
          /\ <<KnobOp(k, body[k])>>[1] = KnobOp(k, body[k])
      BY <3>1
    <3> QED
      BY <2>1, <3>2, <3>3 DEF Elements
  <2>2. CASE k \notin ks \ {"bypass"}
    <3>1. single(k) = <<>>
      BY <2>2 DEF NotPersisted
    <3> QED
      BY <2>2, <3>1 DEF Elements
  <2> QED
    BY <2>1, <2>2
<1>3. RowOps(body, ks) = single("plain") \o single("abuse") \o single("bypass")
                           \o single("turnstile") \o single("ja4")
  BY DEF RowOps
<1> HIDE DEF single, ops
<1>4. /\ RowOps(body, ks) \in Seq(Ops)
      /\ Elements(RowOps(body, ks)) = ops("plain") \cup ops("abuse") \cup ops("bypass")
                                        \cup ops("turnstile") \cup ops("ja4")
  <2>a. ASSUME NEW q \in Seq(Ops), NEW k
        PROVE  \E r \in Seq(Ops) : r = q \o single(k) /\ Elements(r) = Elements(q) \cup ops(k)
    <3>1. single(k) \in Seq(Ops) /\ Elements(single(k)) = ops(k)
      BY <1>2
    <3>2. /\ q \o single(k) \in Seq(Ops)
          /\ Elements(q \o single(k)) = Elements(q) \cup Elements(single(k))
      BY <3>1, ElementsInTurn
    <3> QED
      BY <3>1, <3>2
  <2>b. single("plain") \in Seq(Ops) /\ Elements(single("plain")) = ops("plain")
    BY <1>2
  <2>1. PICK q1 \in Seq(Ops) : /\ q1 = single("plain") \o single("abuse")
                               /\ Elements(q1) = ops("plain") \cup ops("abuse")
    BY <2>a, <2>b
  <2>2. PICK q2 \in Seq(Ops) : /\ q2 = q1 \o single("bypass")
                               /\ Elements(q2) = Elements(q1) \cup ops("bypass")
    BY <2>a
  <2>3. PICK q3 \in Seq(Ops) : /\ q3 = q2 \o single("turnstile")
                               /\ Elements(q3) = Elements(q2) \cup ops("turnstile")
    BY <2>a
  <2>4. PICK q4 \in Seq(Ops) : /\ q4 = q3 \o single("ja4")
                               /\ Elements(q4) = Elements(q3) \cup ops("ja4")
    BY <2>a
  <2>5. RowOps(body, ks) = q4
    BY <1>3, <2>1, <2>2, <2>3, <2>4
  <2> QED
    BY <2>1, <2>2, <2>3, <2>4, <2>5
<1>5. \A k \in ks : k \in {"turnstile", "abuse", "plain", "ja4", "bypass"}
  BY <1>1, KnobsAre
<1>6. QED
  BY <1>4, <1>5 DEF ops

-----------------------------------------------------------------------------
(***************************************************************************)
(* The invariant                                                           *)
(***************************************************************************)

SettingsTypes == TypeOK /\ queue \in Seq(Ops) /\ keys.file <= changes

\* What a restart would make of a knob, from the rows r and the credentials p,
\* is what it is, but for those no row stands for.  For the JA4 knob that is
\* its row alone, for the exclusion never has to be applied at the start.
Trusted(r, p) ==
  /\ \A k \in Knobs \ {"ja4"} :
       k \notin unsettled /\ (k \in Secrets => (k \in secrets <=> k \in p))
         => handler[k] = Loaded(r, p)[k]
  /\ "ja4" \notin unsettled =>
       handler["ja4"] = Loaded(r, p)["ja4"] /\ ~Clash(handler)

KnobsInv ==
  \A r, p : r = Settled.rows /\ p = EnvSecrets \cup Settled.kept => Trusted(r, p)

\* An entry is in the table, in the environment or in an operation that waits.
Seeded(st) == [st EXCEPT !.table = @ \cup EnvSeed]
AllowInv ==
  /\ unread \/ entries = Settled.table
  /\ entries \subseteq Replayed(Seeded(Stored), queue).table

SettingsIInv == SettingsTypes /\ KnobsInv /\ AllowInv /\ HostsKept /\ CopiesAgree

-----------------------------------------------------------------------------

LEMMA EnvIs ==
  ASSUME env \in Environments
  PROVE  /\ Pinned \subseteq {"plain", "ja4"} /\ EnvSecrets \subseteq Secrets
         /\ OptOut \in BOOLEAN /\ EnvSeed \subseteq Cidrs
         /\ EnvHosts \in Partial(Hosts, SUBSET Overrides)
  BY EnvironmentsAssumption DEF Pinned, EnvSecrets, OptOut, EnvSeed, EnvHosts

LEMMA SettingsConstants == MaxQueue \in Nat /\ MaxQueue > 0 /\ MaxChanges \in Nat
  BY BoundsAssumption

LEMMA EnvStays ==
  ASSUME [Next]_vars PROVE env' = env
  BY DEF Next, vars, Write, Restart, Rotate, Config, PostSecret, DeleteSecret,
    SetSecrets, AddCidr, RemoveCidr, SetVhost, DeleteVhost, Import

LEMMA StoredIs ==
  ASSUME SettingsTypes
  PROVE  /\ Stored \in StoreSpace /\ Stored.rows = rows /\ Stored.kept = kept
         /\ Stored.table = table
         /\ Seeded(Stored) \in StoreSpace /\ Seeded(Stored).table = table \cup EnvSeed
<1>1. /\ rows \in Partial(Knobs \ {"bypass"}, BOOLEAN) /\ kept \subseteq Secrets
      /\ table \subseteq Cidrs /\ EnvSeed \subseteq Cidrs
  BY EnvIs DEF SettingsTypes, TypeOK
<1>2. Stored = [rows |-> rows, kept |-> kept, table |-> table]
  BY DEF Stored
<1>3. Seeded(Stored) = [rows |-> rows, kept |-> kept, table |-> table \cup EnvSeed]
  BY <1>2 DEF Seeded
<1>4. QED
  BY <1>1, <1>2, <1>3 DEF StoreSpace

LEMMA SettledIs ==
  ASSUME SettingsTypes
  PROVE  /\ Settled \in StoreSpace
         /\ Replayed(Seeded(Stored), queue) \in StoreSpace
  BY StoredIs, ReplayInSpace DEF Settled, SettingsTypes

\* The first n of ops.
LEMMA PrefixIs ==
  ASSUME NEW T, NEW ops \in Seq(T), NEW n \in 0 .. Len(ops)
  PROVE  /\ SubSeq(ops, 1, n) \in Seq(T) /\ Len(SubSeq(ops, 1, n)) = n
         /\ \A i \in 1 .. n : SubSeq(ops, 1, n)[i] = ops[i] /\ i \in 1 .. Len(ops)
  OBVIOUS

\* What the first n of ops make of the row of k.
LEMMA QueuedRows ==
  ASSUME NEW a \in StoreSpace, NEW ops \in Seq(Ops), NEW n \in 0 .. Len(ops), NEW k,
         k \notin LostKnobs(ops, n)
  PROVE  LET r == Replayed(a, SubSeq(ops, 1, n)).rows
         IN /\ (\A op \in Elements(ops) : ~Sets(op, k)) => SameRow(a.rows, r, k)
            /\ \A v : (/\ \E op \in Elements(ops) : Sets(op, k)
                       /\ \A op \in Elements(ops) : Sets(op, k) => op.value = v)
                      => HasRow(r, k, v)
            /\ (Len(ops) > 0 /\ Sets(ops[Len(ops)], k))
                      => HasRow(r, k, ops[Len(ops)].value)
<1> DEFINE p == SubSeq(ops, 1, n)
<1>1. /\ p \in Seq(Ops) /\ Len(p) = n /\ Len(ops) \in Nat /\ n \in Nat
      /\ \A i \in 1 .. n : p[i] = ops[i] /\ i \in 1 .. Len(ops)
  BY PrefixIs
<1>2. \A i \in 1 .. Len(ops) : Sets(ops[i], k) => i \in 1 .. n
  BY <1>1 DEF LostKnobs, Sets
<1> HIDE DEF p
<1>3. ASSUME \A op \in Elements(ops) : ~Sets(op, k)
      PROVE  SameRow(a.rows, Replayed(a, p).rows, k)
  <2>1. \A i \in 1 .. Len(p) : ~Sets(p[i], k)
    BY <1>1, <1>3 DEF Elements
  <2> QED
    BY <1>1, <2>1, ReplayKeepsRow
<1>4. ASSUME NEW v, \E op \in Elements(ops) : Sets(op, k),
             \A op \in Elements(ops) : Sets(op, k) => op.value = v
      PROVE  HasRow(Replayed(a, p).rows, k, v)
  <2>1. PICK i \in 1 .. Len(ops) : Sets(ops[i], k)
    BY <1>4 DEF Elements
  <2>2. \E m \in 1 .. Len(p) : Sets(p[m], k)
    BY <1>1, <1>2, <2>1
  <2>3. \A m \in 1 .. Len(p) : Sets(p[m], k) => p[m].value = v
    BY <1>1, <1>4 DEF Elements
  <2>4. p \in Seq(Ops)
    BY <1>1
  <2> HIDE <1>1, <1>2, <1>3, <1>4
  <2> QED
    BY <2>2, <2>3, <2>4, ReplayAgrees
<1>5. ASSUME Len(ops) > 0, Sets(ops[Len(ops)], k)
      PROVE  HasRow(Replayed(a, p).rows, k, ops[Len(ops)].value)
  <2>1. Len(ops) \in 1 .. Len(ops)
    BY <1>1, <1>5
  <2>2. n = Len(ops) /\ p[n] = ops[n] /\ n \in 1 .. Len(p)
    BY <1>1, <1>2, <1>5, <2>1
  <2>3. \A m \in n + 1 .. Len(p) : ~Sets(p[m], k)
    BY <1>1
  <2>4. Sets(p[n], k) /\ p \in Seq(Ops)
    BY <1>1, <1>5, <2>2
  <2>5. HasRow(Replayed(a, p).rows, k, p[n].value)
    BY <2>2, <2>3, <2>4, ReplaySetsRow
  <2> QED
    BY <2>2, <2>5
<1>6. QED
  BY <1>3, <1>4, <1>5 DEF p

\* Loading depends on the row of a knob and on its credentials.
LEMMA DefaultsAre ==
  ASSUME NEW p
  PROVE  /\ Defaults(p)["plain"] = ("plain" \in Pinned)
         /\ Defaults(p)["ja4"] =
              ("ja4" \in Pinned /\ ("turnstile" \in EnvSecrets => OptOut))
         /\ Defaults(p)["turnstile"] = ("turnstile" \in p /\ ~OptOut)
         /\ Defaults(p)["abuse"] = ("abuse" \in p)
         /\ Defaults(p)["bypass"] = FALSE
         /\ \A k \in Knobs : Defaults(p)[k] \in BOOLEAN
<1>1. {"turnstile", "abuse", "plain", "ja4", "bypass"} = Knobs
  BY KnobsAre
<1>2. Defaults(p)["plain"] = ("plain" \in Pinned)
  BY <1>1 DEF Defaults
<1>3. Defaults(p)["ja4"] = ("ja4" \in Pinned /\ ("turnstile" \in EnvSecrets => OptOut))
  BY <1>1 DEF Defaults
<1>4. Defaults(p)["turnstile"] = ("turnstile" \in p /\ ~OptOut)
  BY <1>1 DEF Defaults
<1>5. Defaults(p)["abuse"] = ("abuse" \in p)
  BY <1>1 DEF Defaults
<1>6. Defaults(p)["bypass"] = FALSE
  BY <1>1 DEF Defaults
<1>7. \A k \in Knobs : Defaults(p)[k] \in BOOLEAN
  <2>1. Defaults(p)["plain"] \in BOOLEAN
    BY <1>2
  <2>3. Defaults(p)["abuse"] \in BOOLEAN
    BY <1>5
  <2>4. Defaults(p)["bypass"] \in BOOLEAN
    BY <1>6
  <2>2. Defaults(p)["turnstile"] \in BOOLEAN /\ Defaults(p)["ja4"] \in BOOLEAN
    BY <1>3, <1>4
  <2> QED
    BY <1>1, <2>1, <2>2, <2>3, <2>4
<1>8. QED
  BY <1>2, <1>3, <1>4, <1>5, <1>6, <1>7

LEMMA LoadedIs ==
  ASSUME NEW r, NEW p, NEW k \in Knobs
  PROVE  Loaded(r, p)[k] = IF Stands(r, k, p) THEN r[k] ELSE Defaults(p)[k]
  BY DEF Loaded

LEMMA LoadedSame ==
  ASSUME NEW r1, NEW r2, NEW p1, NEW p2, NEW k \in Knobs, SameRow(r1, r2, k),
         k \in Secrets => (k \in p1 <=> k \in p2)
  PROVE  Loaded(r1, p1)[k] = Loaded(r2, p2)[k]
<1>1. Stands(r1, k, p1) <=> Stands(r2, k, p2)
  BY DEF Stands, Valid, SameRow
<1>2. Defaults(p1)[k] = Defaults(p2)[k]
  BY DefaultsAre, KnobsAre
<1>3. Stands(r1, k, p1) => r1[k] = r2[k]
  BY DEF Stands, SameRow
<1>4. QED
  BY <1>1, <1>2, <1>3, LoadedIs

\* A row that is valid stands when the environment does not set the knob.
LEMMA LoadedRow ==
  ASSUME NEW r, NEW p, NEW k \in Knobs, k \in DOMAIN r, k \notin Pinned,
         r[k] /\ k \in Secrets => k \in p
  PROVE  Loaded(r, p)[k] = r[k]
<1>1. Stands(r, k, p)
  BY DEF Stands, Valid
<1>2. QED
  BY <1>1, LoadedIs

-----------------------------------------------------------------------------
(***************************************************************************)
(* What requests queue                                                     *)
(***************************************************************************)

LEMMA OverIs ==
  ASSUME NEW S, NEW T, NEW f \in Partial(S, T), NEW g \in Partial(S, T)
  PROVE  Over(f, g) \in Partial(S, T)
<1>1. /\ DOMAIN f \subseteq S /\ DOMAIN g \subseteq S
      /\ \A x \in DOMAIN f : f[x] \in T
      /\ \A x \in DOMAIN g : g[x] \in T
  BY PartialIs
<1>2. /\ DOMAIN Over(f, g) = DOMAIN f \cup DOMAIN g
      /\ Over(f, g) \in [DOMAIN f \cup DOMAIN g -> T]
  BY <1>1 DEF Over
<1>3. QED
  BY <1>1, <1>2, PartialIs

LEMMA GivenIs ==
  ASSUME NEW S, NEW T, NEW f \in Partial(S, T), NEW x \in S, NEW v \in T
  PROVE  Given(f, x, v) \in Partial(S, T)
<1>1. [y \in {x} |-> v] \in Partial(S, T)
  <2>1. DOMAIN [y \in {x} |-> v] = {x} /\ [y \in {x} |-> v] \in [{x} -> T]
    OBVIOUS
  <2> QED
    BY <2>1, PartialIs
<1>2. QED
  BY <1>1, OverIs DEF Given

LEMMA BodiesAre ==
  ASSUME NEW body \in Bodies PROVE body \in Partial(Knobs, BOOLEAN)
<1>1. CASE body \in [{"ja4", "turnstile"} -> BOOLEAN]
  BY <1>1, KnobsAre, PartialIs
<1>2. CASE body \in UNION {[{k} -> BOOLEAN] : k \in Knobs}
  <2>1. PICK k \in Knobs : body \in [{k} -> BOOLEAN]
    BY <1>2
  <2> QED
    BY <2>1, PartialIs
<1>3. QED
  BY <1>1, <1>2 DEF Bodies

LEMMA ArchivesAre ==
  ASSUME NEW archive \in Archives
  PROVE  /\ archive.knobs \in Partial(Knobs, BOOLEAN) /\ archive.cidrs \in Seq(Cidrs)
         /\ archive.hosts \in Partial(Hosts, SUBSET Overrides)
         /\ archive.secrets \subseteq Secrets
  BY ArchivesAssumption

\* A copy after the loop over a body.
LEMMA PostedIs ==
  ASSUME handler \in [Knobs -> BOOLEAN], NEW body \in Partial(Knobs, BOOLEAN)
  PROVE  /\ Posted(body) \in [Knobs -> BOOLEAN]
         /\ Accepted(body) \subseteq Knobs /\ Accepted(body) \subseteq DOMAIN body
         /\ \A k \in Accepted(body) : /\ Posted(body)[k] = body[k] /\ k \notin Pinned
                                      /\ body[k] \in BOOLEAN
         /\ \A k \in Knobs \ Accepted(body) : Posted(body)[k] = handler[k]
<1>1. DOMAIN body \subseteq Knobs /\ \A k \in DOMAIN body : body[k] \in BOOLEAN
  BY PartialIs
<1>2. Accepted(body) \subseteq DOMAIN body /\ \A k \in Accepted(body) : k \notin Pinned
  BY DEF Accepted
<1>3. QED
  BY <1>1, <1>2 DEF Posted

LEMMA ExclusionOpsAre ==
  ASSUME NEW body
  PROVE  /\ ExclusionOps(body) \in Seq(Ops)
         /\ Elements(ExclusionOps(body)) =
              IF Excluded(body) THEN {KnobOp("ja4", FALSE)} ELSE {}
         /\ Excluded(body) => /\ Len(ExclusionOps(body)) = 1
                              /\ ExclusionOps(body)[1] = KnobOp("ja4", FALSE)
<1>1. KnobOp("ja4", FALSE) \in Ops
  BY OpsMade, KnobsAre
<1>2. CASE Excluded(body)
  <2>1. ExclusionOps(body) = <<KnobOp("ja4", FALSE)>>
    BY <1>2 DEF ExclusionOps
  <2> DEFINE op == KnobOp("ja4", FALSE)
  <2>2. op \in Ops
    BY <1>1
  <2> HIDE DEF op
  <2>3. <<op>> \in Seq(Ops) /\ Len(<<op>>) = 1 /\ <<op>>[1] = op
    BY <2>2
  <2>4. Elements(<<op>>) = {op}
    BY <2>3 DEF Elements
  <2> QED
    BY <1>2, <2>1, <2>3, <2>4 DEF op
<1>3. CASE ~Excluded(body)
  <2>1. ExclusionOps(body) = << >>
    BY <1>3 DEF ExclusionOps
  <2> QED
    BY <1>3, <2>1 DEF Elements
<1>4. QED
  BY <1>2, <1>3

\* An import queues an operation that lists for each new address.
LEMMA CidrOpsAre ==
  ASSUME NEW cidrs \in Seq(Cidrs)
  PROVE  /\ CidrOps(cidrs) \in Seq(Ops)
         /\ \A op \in Elements(CidrOps(cidrs)) : op.op = "admin_ip" /\ op.listed
<1> DEFINE Next1(f, n) == CASE n = 0 -> << >>
                            [] n > 0 /\ cidrs[n] \in entries -> f[n - 1]
                            [] n > 0 /\ cidrs[n] \notin entries ->
                                 Append(f[n - 1], CidrOp(cidrs[n], TRUE))
           S == {n \in Nat : \E f : f = [m \in 0 .. n |-> Next1(f, m)]}
<1>1. 0 \in S
  <2>1. PICK g : g = [m \in 0 .. 0 |-> << >>]
    OBVIOUS
  <2>2. g = [m \in 0 .. 0 |-> Next1(g, m)]
    BY <2>1
  <2> QED
    BY <2>2
<1>2. \A n \in 1 .. Len(cidrs) : n - 1 \in S => n \in S
  <2> SUFFICES ASSUME NEW n \in 1 .. Len(cidrs), n - 1 \in S PROVE n \in S
    OBVIOUS
  <2>1. PICK f : f = [m \in 0 .. n - 1 |-> Next1(f, m)]
    OBVIOUS
  <2>2. PICK g : g = [m \in 0 .. n |-> IF m = n THEN Next1(f, n) ELSE f[m]]
    OBVIOUS
  <2>3. ASSUME NEW m \in 0 .. n PROVE g[m] = Next1(g, m)
    <3>1. CASE m = n
      <4>1. m - 1 \in 0 .. n /\ m - 1 # n /\ m # 0
        BY <3>1
      <4>2. g[m - 1] = f[n - 1] /\ g[m] = Next1(f, n)
        BY <2>2, <3>1, <4>1
      <4> QED
        BY <3>1, <4>1, <4>2
    <3>2. CASE m # n
      <4>1. m \in 0 .. n - 1 /\ g[m] = f[m]
        BY <2>2, <3>2
      <4>2. f[m] = Next1(f, m)
        BY <2>1, <4>1
      <4>3. m # 0 => g[m - 1] = f[m - 1]
        BY <2>2, <4>1
      <4> QED
        BY <4>1, <4>2, <4>3
    <3> QED
      BY <3>1, <3>2
  <2>4. g = [m \in 0 .. n |-> Next1(g, m)]
    <3> HIDE DEF Next1
    <3> QED BY <2>2, <2>3
  <2>5. n \in Nat
    OBVIOUS
  <2> QED
    BY <2>4, <2>5
<1>3. Len(cidrs) \in S
  <2> HIDE DEF S
  <2>1. PICK m \in Nat : m = Len(cidrs)
    OBVIOUS
  <2>2. \A n \in 1 .. m : n - 1 \in S => n \in S
    BY <1>2, <2>1
  <2>3. \A n \in 0 .. m : n \in S
    BY <1>1, <2>2, UpTo
  <2> QED
    BY <2>1, <2>3
<1>4. PICK f : f = [m \in 0 .. Len(cidrs) |-> Next1(f, m)]
  BY <1>3
<1> DEFINE added == CHOOSE g : g = [m \in 0 .. Len(cidrs) |-> Next1(g, m)]
<1>5. added = [m \in 0 .. Len(cidrs) |-> Next1(added, m)]
  BY <1>4
<1>6. CidrOps(cidrs) = added[Len(cidrs)]
  BY DEF CidrOps
<1> HIDE DEF added
<1> DEFINE Good == {q \in Seq(Ops) : \A op \in Elements(q) : op.op = "admin_ip" /\ op.listed}
           G == {n \in 0 .. Len(cidrs) : added[n] \in Good}
<1>7. 0 \in G
  <2>1. Len(cidrs) \in Nat /\ 0 \in 0 .. Len(cidrs)
    OBVIOUS
  <2>2. added[0] = << >>
    BY <1>5, <2>1
  <2>3. << >> \in Seq(Ops) /\ Elements(<< >>) = {}
    BY DEF Elements
  <2> QED
    BY <2>1, <2>2, <2>3
<1>8. \A n \in 1 .. Len(cidrs) : n - 1 \in G => n \in G
  <2> SUFFICES ASSUME NEW n \in 1 .. Len(cidrs), n - 1 \in G PROVE n \in G
    OBVIOUS
  <2>1. n \in 0 .. Len(cidrs) /\ n > 0 /\ added[n - 1] \in Good /\ cidrs[n] \in Cidrs
    OBVIOUS
  <2>2. /\ cidrs[n] \in entries => added[n] = added[n - 1]
        /\ cidrs[n] \notin entries =>
             added[n] = Append(added[n - 1], CidrOp(cidrs[n], TRUE))
    <3>1. added[n] = Next1(added, n)
      <4> HIDE DEF Next1
      <4> QED BY <1>5, <2>1
    <3>2. n # 0 /\ n > 0
      OBVIOUS
    <3> HIDE DEF G, Good
    <3> QED BY <3>1, <3>2
  <2>3. CASE cidrs[n] \in entries
    <3> HIDE DEF Good
    <3> QED BY <2>1, <2>2, <2>3
  <2>4. CASE cidrs[n] \notin entries
    <3> DEFINE op == CidrOp(cidrs[n], TRUE)
               q == added[n - 1]
    <3>1. added[n] = Append(q, op)
      BY <2>1, <2>2, <2>4
    <3>2. op \in Ops /\ op.op = "admin_ip" /\ op.listed
      BY <2>1, OpsMade
    <3>3. q \in Seq(Ops) /\ \A o \in Elements(q) : o.op = "admin_ip" /\ o.listed
      BY <2>1
    <3> HIDE DEF op, q, Good, G
    <3>4. /\ Append(q, op) \in Seq(Ops) /\ Len(Append(q, op)) = Len(q) + 1
          /\ \A i \in 1 .. Len(q) : Append(q, op)[i] = q[i]
          /\ Append(q, op)[Len(q) + 1] = op /\ Len(q) \in Nat
      BY <3>2, <3>3
    <3>5. \A i \in 1 .. Len(q) + 1 : i \in 1 .. Len(q) \/ i = Len(q) + 1
      BY <3>4
    <3>6. \A o \in Elements(Append(q, op)) : o \in Elements(q) \/ o = op
      BY <3>4, <3>5 DEF Elements
    <3>7. Append(q, op) \in Good
      BY <3>2, <3>3, <3>4, <3>6 DEF Good
    <3> QED
      BY <2>1, <3>1, <3>7 DEF G
  <2> QED
    BY <2>3, <2>4
<1>9. Len(cidrs) \in G
  <2> HIDE DEF G
  <2>1. Len(cidrs) \in Nat
    OBVIOUS
  <2>2. \A n \in 0 .. Len(cidrs) : n \in G
    BY <1>7, <1>8, <2>1, UpTo
  <2> QED
    BY <2>1, <2>2
<1>10. QED
  BY <1>6, <1>9

\* The operations of one request.
LEMMA RequestOpsAre ==
  ASSUME NEW body \in Partial(Knobs, BOOLEAN), handler \in [Knobs -> BOOLEAN]
  PROVE  /\ RowOps(body, Accepted(body)) \o ExclusionOps(body) \in Seq(Ops)
         /\ Elements(RowOps(body, Accepted(body)) \o ExclusionOps(body)) =
              {KnobOp(k, body[k]) : k \in Accepted(body) \ {"bypass"}}
                \cup IF Excluded(body) THEN {KnobOp("ja4", FALSE)} ELSE {}
         /\ \A cidrs \in Seq(Cidrs) :
              /\ RowOps(body, Accepted(body)) \o CidrOps(cidrs) \in Seq(Ops)
              /\ Elements(RowOps(body, Accepted(body)) \o CidrOps(cidrs)) =
                   {KnobOp(k, body[k]) : k \in Accepted(body) \ {"bypass"}}
                     \cup Elements(CidrOps(cidrs))
<1>1. /\ RowOps(body, Accepted(body)) \in Seq(Ops)
      /\ Elements(RowOps(body, Accepted(body))) =
           {KnobOp(k, body[k]) : k \in Accepted(body) \ {"bypass"}}
  BY PostedIs, RowOpsAre
<1>2. ExclusionOps(body) \in Seq(Ops)
  BY ExclusionOpsAre
<1>3. /\ RowOps(body, Accepted(body)) \o ExclusionOps(body) \in Seq(Ops)
      /\ Elements(RowOps(body, Accepted(body)) \o ExclusionOps(body)) =
           Elements(RowOps(body, Accepted(body))) \cup Elements(ExclusionOps(body))
  BY <1>1, <1>2, ElementsInTurn
<1>4. ASSUME NEW cidrs \in Seq(Cidrs)
      PROVE  /\ RowOps(body, Accepted(body)) \o CidrOps(cidrs) \in Seq(Ops)
             /\ Elements(RowOps(body, Accepted(body)) \o CidrOps(cidrs)) =
                  Elements(RowOps(body, Accepted(body))) \cup Elements(CidrOps(cidrs))
  <2>1. CidrOps(cidrs) \in Seq(Ops)
    BY CidrOpsAre
  <2> QED
    BY <1>1, <2>1, ElementsInTurn
<1>5. QED
  BY <1>1, <1>3, <1>4, ExclusionOpsAre

LEMMA QueueTypes ==
  ASSUME SettingsTypes, NEW ops \in Seq(Ops), NEW n, Queued(ops, n)
  PROVE  /\ queue' \in Seq(Ops) /\ Len(queue') <= MaxQueue
         /\ n \in 0 .. Len(ops) /\ LostKnobs(ops, n) \subseteq Knobs
         /\ SubSeq(ops, 1, n) \in Seq(Ops) /\ Len(SubSeq(ops, 1, n)) = n
         /\ \A i \in 1 .. n : SubSeq(ops, 1, n)[i] = ops[i] /\ i \in 1 .. Len(ops)
         /\ queue' = queue \o SubSeq(ops, 1, n)
<1> DEFINE p == SubSeq(ops, 1, n)
<1>1. /\ n \in 0 .. Len(ops) /\ Len(queue) + n <= MaxQueue /\ queue' = queue \o p
      /\ queue \in Seq(Ops)
  BY DEF Queued, SettingsTypes
<1>2. /\ p \in Seq(Ops) /\ Len(p) = n
      /\ \A i \in 1 .. n : p[i] = ops[i] /\ i \in 1 .. Len(ops)
  BY <1>1, PrefixIs
<1> HIDE DEF p
<1>3. queue' \in Seq(Ops) /\ Len(queue') = Len(queue) + n
  <2>1. queue \o p \in Seq(Ops) /\ Len(queue \o p) = Len(queue) + Len(p)
    <3>1. queue \in Seq(Ops)
      BY <1>1
    <3> QED
      BY <1>2, <3>1, LengthsInTurn
  <2> QED
    BY <1>1, <1>2, <2>1
<1>4. LostKnobs(ops, n) \subseteq Knobs
  <2> SUFFICES ASSUME NEW i \in n + 1 .. Len(ops), ops[i].op = "set_config"
               PROVE  ops[i].knob \in Knobs
    BY DEF LostKnobs
  <2>1. i \in 1 .. Len(ops) /\ ops[i] \in Ops
    BY <1>1
  <2> QED
    BY <2>1, OpsAre
<1>5. QED
  BY <1>1, <1>2, <1>3, <1>4 DEF p

\* What a start makes of the knobs.
LEMMA BootIs ==
  ASSUME NEW r \in Partial(Knobs \ {"bypass"}, BOOLEAN), NEW p
  PROVE  /\ Loaded(r, p) \in [Knobs -> BOOLEAN] /\ Boot(r, p) \in [Knobs -> BOOLEAN]
         /\ \A k \in Knobs \ {"ja4"} : Boot(r, p)[k] = Loaded(r, p)[k]
         /\ Boot(r, p)["ja4"] = (Loaded(r, p)["ja4"] /\ ~Clash(Loaded(r, p)))
         /\ ~Clash(Boot(r, p))
<1>1. Loaded(r, p) \in [Knobs -> BOOLEAN]
  <2>1. ASSUME NEW k \in Knobs
        PROVE  (IF Stands(r, k, p) THEN r[k] ELSE Defaults(p)[k]) \in BOOLEAN
    <3>1. CASE Stands(r, k, p)
      <4>1. k \in DOMAIN r /\ r \in [DOMAIN r -> BOOLEAN]
        BY <3>1, PartialIs DEF Stands
      <4> QED
        BY <3>1, <4>1
    <3>2. CASE ~Stands(r, k, p)
      BY <3>2, DefaultsAre
    <3> QED
      BY <3>1, <3>2
  <2> QED
    BY <2>1 DEF Loaded
<1>2. PICK l \in [Knobs -> BOOLEAN] : l = Loaded(r, p)
  BY <1>1
<1>3. Boot(r, p) = [l EXCEPT !["ja4"] = l["ja4"] /\ ~Clash(l)]
  BY <1>2 DEF Boot
<1>4. "ja4" \in Knobs /\ "turnstile" \in Knobs
  BY KnobsAre
<1>5. QED
  BY <1>2, <1>3, <1>4 DEF Clash

LEMMA RefreshedIs ==
  ASSUME NEW copy \in [Knobs -> BOOLEAN], NEW present
  PROVE  /\ Refreshed(copy, present) \in [Knobs -> BOOLEAN]
         /\ \A k \in Knobs \ {"turnstile", "abuse"} : Refreshed(copy, present)[k] = copy[k]
         /\ Refreshed(copy, present)["turnstile"] =
              (copy["turnstile"] \/ ("turnstile" \in present \ secrets /\ ~OptOut))
<1>1. "turnstile" \in Knobs /\ "abuse" \in Knobs
  BY KnobsAre
<1>2. PICK t \in BOOLEAN :
        t = (copy["turnstile"] \/ ("turnstile" \in present \ secrets /\ ~OptOut))
  OBVIOUS
<1>3. PICK a \in BOOLEAN : a = ("abuse" \in present)
  <2>1. ("abuse" \in present) \in BOOLEAN
    OBVIOUS
  <2> QED
    BY <2>1, Zenon
<1>4. Refreshed(copy, present) = [copy EXCEPT !["turnstile"] = t, !["abuse"] = a]
  BY <1>1, <1>2, <1>3 DEF Refreshed
<1>5. QED
  BY <1>1, <1>2, <1>4

-----------------------------------------------------------------------------
(***************************************************************************)
(* Types                                                                   *)
(***************************************************************************)

LEMMA SettingsStart == Init => SettingsTypes
<1> SUFFICES ASSUME Init PROVE SettingsTypes
  OBVIOUS
<1>1. /\ EnvSecrets \subseteq Secrets /\ EnvSeed \subseteq Cidrs
      /\ EnvHosts \in Partial(Hosts, SUBSET Overrides)
  BY EnvIs DEF Init
<1>2. \A S, T : << >> \in Partial(S, T)
  <2>1. DOMAIN << >> = {} /\ \A T : << >> \in [{} -> T]
    OBVIOUS
  <2> QED
    BY <2>1, PartialIs
<1>3. Boot(rows, secrets) \in [Knobs -> BOOLEAN]
  BY <1>2, BootIs DEF Init
<1>4. keys \in [{"handler", "modules", "file"} -> 0 .. MaxChanges] /\ keys.file <= changes
  BY SettingsConstants DEF Init
<1>5. queue \in Seq(Ops) /\ Len(queue) <= MaxQueue
  BY SettingsConstants DEF Init
<1>6. QED
  BY <1>1, <1>2, <1>3, <1>4, <1>5, SettingsConstants DEF Init, SettingsTypes, TypeOK

\* What every step keeps of the types when the knobs, the queue and the hosts do.
LEMMA TypesFromParts ==
  ASSUME SettingsTypes, env' = env,
         handler' \in [Knobs -> BOOLEAN], others' \in [Knobs -> BOOLEAN],
         unsettled' \subseteq Knobs, imported' \subseteq Knobs,
         secrets' \subseteq Secrets, kept' \subseteq Secrets,
         rows' \in Partial(Knobs \ {"bypass"}, BOOLEAN),
         entries' \subseteq Cidrs, table' \subseteq Cidrs,
         vhosts' \in Partial(Hosts, SUBSET Overrides),
         file' \in Partial(Hosts, SUBSET Overrides),
         unsaved' \subseteq Hosts, unread' \in BOOLEAN,
         queue' \in Seq(Ops), Len(queue') <= MaxQueue,
         \/ UNCHANGED <<keys, changes>>
         \/ UNCHANGED keys /\ Change
         \/ Rotate
         \/ keys' = [copy \in DOMAIN keys |-> keys.file] /\ UNCHANGED changes
  PROVE  SettingsTypes'
<1>1. /\ keys \in [{"handler", "modules", "file"} -> 0 .. MaxChanges]
      /\ keys.file <= changes /\ changes \in 0 .. MaxChanges /\ env \in Environments
  BY DEF SettingsTypes, TypeOK
<1>2. /\ keys' \in [{"handler", "modules", "file"} -> 0 .. MaxChanges]
      /\ keys'.file <= changes' /\ changes' \in 0 .. MaxChanges
  <2>1. CASE UNCHANGED <<keys, changes>>
    BY <1>1, <2>1
  <2>2. CASE UNCHANGED keys /\ Change
    BY <1>1, <2>2, SettingsConstants DEF Change
  <2>3. CASE Rotate
    <3>1. keys.file + 1 \in 0 .. MaxChanges /\ changes' = changes + 1
      BY <1>1, <2>3, SettingsConstants DEF Rotate, Change
    <3>2. keys' = [keys EXCEPT !.handler = keys.file + 1, !.file = keys.file + 1]
      BY <2>3 DEF Rotate
    <3>3. changes' \in 0 .. MaxChanges
      BY <1>1, <2>3, SettingsConstants DEF Rotate, Change
    <3>4. keys' \in [{"handler", "modules", "file"} -> 0 .. MaxChanges]
      BY <1>1, <3>1, <3>2
    <3>5. keys'.file = keys.file + 1
      BY <1>1, <3>2
    <3>6. keys.file \in Int /\ changes \in Int
      BY <1>1, SettingsConstants
    <3> QED
      BY <1>1, <3>1, <3>3, <3>4, <3>5, <3>6
  <2>4. CASE keys' = [copy \in DOMAIN keys |-> keys.file] /\ UNCHANGED changes
    <3>1. DOMAIN keys = {"handler", "modules", "file"} /\ keys.file \in 0 .. MaxChanges
      BY <1>1
    <3>2. keys' \in [{"handler", "modules", "file"} -> 0 .. MaxChanges]
      BY <2>4, <3>1
    <3>3. keys'.file = keys.file
      BY <2>4, <3>1
    <3> QED
      BY <1>1, <2>4, <3>2, <3>3
  <2> QED
    BY <2>1, <2>2, <2>3, <2>4
<1>3. QED
  BY <1>1, <1>2 DEF SettingsTypes, TypeOK

LEMMA SettingsTypesKeep ==
  ASSUME SettingsTypes, [Next]_vars PROVE SettingsTypes'
<1>a. env' = env
  BY EnvStays
<1>b. /\ handler \in [Knobs -> BOOLEAN] /\ others \in [Knobs -> BOOLEAN]
      /\ unsettled \subseteq Knobs /\ imported \subseteq Knobs
      /\ secrets \subseteq Secrets /\ kept \subseteq Secrets
      /\ rows \in Partial(Knobs \ {"bypass"}, BOOLEAN)
      /\ entries \subseteq Cidrs /\ table \subseteq Cidrs
      /\ vhosts \in Partial(Hosts, SUBSET Overrides)
      /\ file \in Partial(Hosts, SUBSET Overrides)
      /\ unsaved \subseteq Hosts /\ unread \in BOOLEAN
      /\ queue \in Seq(Ops) /\ Len(queue) <= MaxQueue
  BY DEF SettingsTypes, TypeOK
<1>c. /\ Pinned \subseteq {"plain", "ja4"} /\ EnvSecrets \subseteq Secrets
      /\ EnvSeed \subseteq Cidrs /\ EnvHosts \in Partial(Hosts, SUBSET Overrides)
  BY EnvIs DEF SettingsTypes, TypeOK
<1>d. NotPersisted \subseteq Knobs /\ "ja4" \in Knobs /\ Secrets \subseteq Knobs
      /\ "abuse" \in Knobs
  BY KnobsAre DEF NotPersisted
<1>1. CASE UNCHANGED vars
  BY <1>1, <1>a, <1>b, TypesFromParts DEF vars, knobVars, hostVars, stores
<1>2. CASE Write
  <2>1. Head(queue) \in Ops /\ Tail(queue) \in Seq(Ops) /\ Len(Tail(queue)) <= MaxQueue
    BY <1>2, <1>b, SettingsConstants DEF Write
  <2>2. Applied(Stored, Head(queue)) \in StoreSpace
    BY <2>1, StoredIs, AppliedIs
  <2>3. /\ rows' \in Partial(Knobs \ {"bypass"}, BOOLEAN) /\ kept' \subseteq Secrets
        /\ table' \subseteq Cidrs
    BY <1>2, <2>2 DEF Write, StoreSpace
  <2> QED
    BY <1>2, <1>a, <1>b, <2>1, <2>3, TypesFromParts DEF Write, knobVars, hostVars
<1>3. CASE Restart
  <2> DEFINE present == EnvSecrets \cup kept
  <2>1. handler' \in [Knobs -> BOOLEAN] /\ others' = handler'
    BY <1>3, <1>b, BootIs DEF Restart
  <2>2. present \subseteq Secrets /\ secrets' = present
    BY <1>3, <1>b, <1>c DEF Restart
  <2>3. table' \subseteq Cidrs /\ entries' \subseteq Cidrs /\ unread' \in BOOLEAN
    BY <1>3, <1>b, <1>c DEF Restart, LoadAdminIps
  <2>4. vhosts' \in Partial(Hosts, SUBSET Overrides)
    BY <1>3, <1>b, <1>c, OverIs DEF Restart, BootHosts
  <2>5. queue' \in Seq(Ops) /\ Len(queue') <= MaxQueue
    BY <1>3, SettingsConstants DEF Restart
  <2>6. unsettled' \subseteq Knobs /\ imported' \subseteq Knobs /\ unsaved' \subseteq Hosts
    BY <1>3, <1>d DEF Restart
  <2> QED
    BY <1>3, <1>a, <1>b, <2>1, <2>2, <2>3, <2>4, <2>5, <2>6, TypesFromParts DEF Restart
<1>4. CASE Rotate
  BY <1>4, <1>a, <1>b, TypesFromParts DEF Rotate, knobVars, hostVars, stores
<1>5. ASSUME NEW body \in Bodies, Config(body) PROVE SettingsTypes'
  <2>1. body \in Partial(Knobs, BOOLEAN)
    BY BodiesAre
  <2> DEFINE ops == RowOps(body, Accepted(body)) \o ExclusionOps(body)
  <2>2. ops \in Seq(Ops)
    BY <1>b, <2>1, RequestOpsAre
  <2>3. PICK n : /\ Queued(ops, n)
                 /\ unsettled' = (unsettled \ Accepted(body)) \cup LostKnobs(ops, n)
                         \cup (Accepted(body) \cap NotPersisted)
                         \cup (IF Excluded(body) THEN Pinned \cap {"ja4"} ELSE {})
    BY <1>5 DEF Config
  <2> HIDE DEF ops
  <2>4. queue' \in Seq(Ops) /\ Len(queue') <= MaxQueue /\ LostKnobs(ops, n) \subseteq Knobs
    BY <2>2, <2>3, QueueTypes
  <2>5. unsettled' \subseteq Knobs
    BY <1>b, <1>d, <2>3, <2>4
  <2>6. PICK posted \in [Knobs -> BOOLEAN] : posted = Posted(body)
    BY <1>b, <2>1, PostedIs
  <2>7. handler' \in [Knobs -> BOOLEAN]
    <3>1. handler' = [posted EXCEPT !["ja4"] = posted["ja4"] /\ ~Excluded(body)]
      BY <1>5, <2>6 DEF Config
    <3> QED
      BY <1>d, <2>6, <3>1
  <2>8. others' \in [Knobs -> BOOLEAN] /\ imported' \subseteq Knobs
    BY <1>5, <1>b, <2>7 DEF Config
  <2> QED
    BY <1>5, <1>a, <1>b, <2>4, <2>5, <2>7, <2>8, TypesFromParts
    DEF Config, hostVars, stores
<1>6. ASSUME NEW present, present \subseteq Secrets, NEW s \in Secrets, NEW v \in BOOLEAN,
             SetSecrets(present, SecretOp(s, v))
      PROVE  SettingsTypes'
  <2>1. SecretOp(s, v) \in Ops /\ SecretOp(s, v).secret = s
    BY OpsMade
  <2> DEFINE op == SecretOp(s, v)
             ops == <<op>>
  <2>2. ops \in Seq(Ops)
    <3> HIDE DEF op
    <3> QED BY <2>1 DEF op
  <2>3. PICK n : Queued(ops, n)
    BY <1>6 DEF SetSecrets
  <2> HIDE DEF ops
  <2>4. queue' \in Seq(Ops) /\ Len(queue') <= MaxQueue
    BY <2>2, <2>3, QueueTypes
  <2>5. unsettled' \subseteq Knobs
    BY <1>6, <1>b, <1>d, <2>1 DEF SetSecrets
  <2>6. handler' \in [Knobs -> BOOLEAN]
    BY <1>6, <1>b, RefreshedIs DEF SetSecrets
  <2>7. /\ others' \in [Knobs -> BOOLEAN] /\ imported' \subseteq Knobs
        /\ secrets' \subseteq Secrets
    BY <1>6, <1>b, <2>6 DEF SetSecrets
  <2> QED
    BY <1>6, <1>a, <1>b, <2>4, <2>5, <2>6, <2>7, TypesFromParts
    DEF SetSecrets, hostVars, stores
<1>7. ASSUME NEW s \in Secrets, PostSecret(s) PROVE SettingsTypes'
  BY <1>6, <1>7, <1>b DEF PostSecret
<1>8. ASSUME NEW s \in Secrets, DeleteSecret(s) PROVE SettingsTypes'
  BY <1>6, <1>8, <1>b, <1>c DEF DeleteSecret
<1>9. ASSUME NEW c \in Cidrs, AddCidr(c) \/ RemoveCidr(c) PROVE SettingsTypes'
  <2>1. CidrOp(c, TRUE) \in Ops /\ CidrOp(c, FALSE) \in Ops
    BY OpsMade
  <2>2. PICK op \in Ops, n \in 0 .. 1 : Queued(<<op>>, n)
    BY <1>9, <2>1 DEF AddCidr, RemoveCidr
  <2>3. <<op>> \in Seq(Ops)
    OBVIOUS
  <2>4. queue' \in Seq(Ops) /\ Len(queue') <= MaxQueue
    BY <2>2, <2>3, QueueTypes
  <2>5. entries' \subseteq Cidrs
    BY <1>9, <1>b DEF AddCidr, RemoveCidr, Listed
  <2>6. /\ UNCHANGED <<unread, knobVars, secrets, stores, hostVars, keys>> /\ Change
    BY <1>9 DEF AddCidr, RemoveCidr
  <2> QED
    BY <1>a, <1>b, <2>4, <2>5, <2>6, TypesFromParts DEF knobVars, hostVars, stores
<1>10. ASSUME NEW h \in Hosts, NEW o \in SUBSET Overrides \ {{}}, SetVhost(h, o)
       PROVE  SettingsTypes'
  <2>1. vhosts' \in Partial(Hosts, SUBSET Overrides)
    BY <1>10, <1>b, GivenIs DEF SetVhost
  <2>2. file' \in Partial(Hosts, SUBSET Overrides) /\ unsaved' \subseteq Hosts
    BY <1>10, <1>b, <2>1 DEF SetVhost, Saved
  <2> QED
    BY <1>10, <1>a, <1>b, <2>1, <2>2, TypesFromParts DEF SetVhost, knobVars, stores
<1>11. ASSUME NEW h \in Hosts, DeleteVhost(h) PROVE SettingsTypes'
  <2>1. vhosts' \in Partial(Hosts, SUBSET Overrides)
    <3>1. /\ DOMAIN vhosts \subseteq Hosts
          /\ \A g \in DOMAIN vhosts : vhosts[g] \in SUBSET Overrides
      BY <1>b, PartialIs
    <3>2. DOMAIN vhosts' \subseteq Hosts /\ vhosts' \in [DOMAIN vhosts' -> SUBSET Overrides]
      BY <1>11, <3>1 DEF DeleteVhost
    <3>3. PICK f : f = vhosts'
      OBVIOUS
    <3> QED
      BY <3>2, <3>3, PartialIs
  <2>2. file' \in Partial(Hosts, SUBSET Overrides) /\ unsaved' \subseteq Hosts
    BY <1>11, <1>b, <2>1 DEF DeleteVhost, Saved
  <2> QED
    BY <1>11, <1>a, <1>b, <2>1, <2>2, TypesFromParts DEF DeleteVhost, knobVars, stores
<1>12. ASSUME NEW archive \in Archives, Import(archive) PROVE SettingsTypes'
  <2>1. /\ archive.knobs \in Partial(Knobs, BOOLEAN) /\ archive.cidrs \in Seq(Cidrs)
        /\ archive.hosts \in Partial(Hosts, SUBSET Overrides)
        /\ archive.secrets \subseteq Secrets
    BY ArchivesAre
  <2> DEFINE ops == RowOps(archive.knobs, Accepted(archive.knobs))
                      \o CidrOps(archive.cidrs)
  <2>2. ops \in Seq(Ops)
    BY <1>b, <2>1, RequestOpsAre
  <2>3. PICK n : /\ Queued(ops, n)
                 /\ entries' = entries \cup
                      {ops[i].cidr : i \in {j \in 1 .. n : IsAdd(ops[j])}}
                 /\ unsettled' = (unsettled \ Accepted(archive.knobs))
                      \cup LostKnobs(ops, n) \cup archive.secrets
                      \cup (Accepted(archive.knobs) \cap NotPersisted)
                      \cup (IF Clash(handler') THEN {"ja4"} ELSE {})
    BY <1>12 DEF Import
  <2> HIDE DEF ops
  <2>4. /\ queue' \in Seq(Ops) /\ Len(queue') <= MaxQueue
        /\ LostKnobs(ops, n) \subseteq Knobs /\ \A i \in 1 .. n : i \in 1 .. Len(ops)
    BY <2>2, <2>3, QueueTypes
  <2>5. unsettled' \subseteq Knobs
    BY <1>b, <1>d, <2>1, <2>3, <2>4
  <2>6. entries' \subseteq Cidrs
    <3>1. ASSUME NEW i \in 1 .. n, IsAdd(ops[i]) PROVE ops[i].cidr \in Cidrs
      <4>1. ops[i] \in Ops
        BY <2>2, <2>4
      <4> QED
        BY <3>1, <4>1, OpsAre DEF IsAdd
    <3> QED
      BY <1>b, <2>3, <3>1
  <2>7. /\ handler' \in [Knobs -> BOOLEAN] /\ Accepted(archive.knobs) \subseteq Knobs
        /\ imported' \subseteq Knobs /\ others' \in [Knobs -> BOOLEAN]
    BY <1>12, <1>b, <2>1, PostedIs DEF Import
  <2>8. vhosts' \in Partial(Hosts, SUBSET Overrides)
    BY <1>12, <1>b, <2>1, OverIs DEF Import
  <2>9. file' \in Partial(Hosts, SUBSET Overrides) /\ unsaved' \subseteq Hosts
    <3>1. DOMAIN archive.hosts \subseteq Hosts
      BY <2>1, PartialIs
    <3> QED
      BY <1>12, <1>b, <2>8, <3>1 DEF Import, Saved
  <2>10. kept' \subseteq Secrets
    BY <1>12, <1>b, <2>1 DEF Import
  <2>11. Change /\ UNCHANGED <<unread, secrets, rows, table, keys>>
    BY <1>12 DEF Import
  <2> QED
    BY <1>a, <1>b, <2>4, <2>5, <2>6, <2>7, <2>8, <2>9, <2>10, <2>11, TypesFromParts
<1>13. QED
  BY <1>1, <1>2, <1>3, <1>4, <1>5, <1>7, <1>8, <1>9, <1>10, <1>11, <1>12 DEF Next

-----------------------------------------------------------------------------
(***************************************************************************)
(* The copies of the knobs, and their exclusion                            *)
(***************************************************************************)

\* What a post makes of the handler's copy.
LEMMA ConfiguredIs ==
  ASSUME SettingsTypes, NEW body \in Bodies, Config(body)
  PROVE  /\ \A k \in Knobs \ {"ja4"} : handler'[k] = Posted(body)[k]
         /\ handler'["ja4"] = (Posted(body)["ja4"] /\ ~Excluded(body))
         /\ \A k \in Knobs \ Reached(body) : handler'[k] = handler[k]
         /\ \A k \in Reached(body) : k \in Knobs
         /\ Clash(handler') => Clash(handler)
                               /\ Accepted(body) \cap {"ja4", "turnstile"} = {}
         /\ Clash(Posted(body)) /\ ~Excluded(body) => Clash(handler)
<1>1. "ja4" \in Knobs /\ "turnstile" \in Knobs /\ body \in Partial(Knobs, BOOLEAN)
  BY KnobsAre, BodiesAre
<1>2. handler \in [Knobs -> BOOLEAN]
  BY DEF SettingsTypes, TypeOK
<1>3. PICK posted \in [Knobs -> BOOLEAN] : posted = Posted(body)
  BY <1>1, <1>2, PostedIs
<1>4. handler' = [posted EXCEPT !["ja4"] = posted["ja4"] /\ ~Excluded(body)]
  BY <1>3 DEF Config
<1>5. /\ \A k \in Knobs \ {"ja4"} : handler'[k] = posted[k]
      /\ handler'["ja4"] = (posted["ja4"] /\ ~Excluded(body))
  BY <1>1, <1>3, <1>4
<1>6. /\ \A k \in Knobs \ Accepted(body) : posted[k] = handler[k]
      /\ Accepted(body) \subseteq Knobs
  BY <1>1, <1>2, <1>3, PostedIs
<1>7. \A k \in Knobs \ Reached(body) : handler'[k] = handler[k]
  <2> SUFFICES ASSUME NEW k \in Knobs \ Reached(body) PROVE handler'[k] = handler[k]
    OBVIOUS
  <2>1. k \notin Accepted(body) /\ (Excluded(body) => k # "ja4")
    BY DEF Reached
  <2>2. CASE k # "ja4"
    BY <1>5, <1>6, <2>1, <2>2
  <2>3. CASE k = "ja4" /\ ~Excluded(body)
    <3>1. posted["ja4"] = handler["ja4"] /\ posted["ja4"] \in BOOLEAN
      BY <1>1, <1>3, <1>6, <2>1, <2>3
    <3> QED
      BY <1>5, <2>3, <3>1
  <2> QED
    BY <2>1, <2>2, <2>3
<1>8. \A k \in Reached(body) : k \in Knobs
  BY <1>1, <1>6 DEF Reached
<1>9. ASSUME Clash(posted), ~Excluded(body)
      PROVE  Clash(handler) /\ Accepted(body) \cap {"ja4", "turnstile"} = {}
  <2>1. Accepted(body) \cap {"ja4", "turnstile"} = {}
    BY <1>3, <1>9 DEF Excluded
  <2> QED
    BY <1>1, <1>6, <1>9, <2>1 DEF Clash
<1>10. Clash(handler') => Clash(posted) /\ ~Excluded(body)
  BY <1>1, <1>5 DEF Clash
<1>11. QED
  BY <1>3, <1>5, <1>7, <1>8, <1>9, <1>10

\* What new credentials make of it.
LEMMA RecoveredIs ==
  ASSUME SettingsTypes, NEW present, NEW op, SetSecrets(present, op)
  PROVE  /\ \A k \in Knobs \ Secrets : handler'[k] = handler[k]
         /\ ("turnstile" \in present => "turnstile" \in secrets)
              => handler'["turnstile"] = handler["turnstile"]
<1>1. handler \in [Knobs -> BOOLEAN] /\ handler' = Refreshed(handler, present)
  BY DEF SettingsTypes, TypeOK, SetSecrets
<1>2. "turnstile" \in Knobs /\ handler["turnstile"] \in BOOLEAN
  BY <1>1, KnobsAre
<1>3. QED
  BY <1>1, <1>2, RefreshedIs, KnobsAre

\* A step that sets no knob.
Untouched == UNCHANGED <<handler, others, imported>>

LEMMA KnobSteps ==
  ASSUME [Next]_vars
  PROVE  \/ Untouched \/ Restart
         \/ \E body \in Bodies : Config(body)
         \/ \E present, s, v : SetSecrets(present, SecretOp(s, v))
         \/ \E archive \in Archives : Import(archive)
  BY DEF Next, vars, Untouched, knobVars, Write, Rotate, PostSecret, DeleteSecret,
    AddCidr, RemoveCidr, SetVhost, DeleteVhost

LEMMA CopiesKeep ==
  ASSUME SettingsTypes, CopiesAgree, [Next]_vars PROVE CopiesAgree'
<1> SUFFICES ASSUME NEW k \in Knobs, k \notin imported' PROVE others'[k] = handler'[k]
  BY DEF CopiesAgree
<1>1. CASE Untouched
  BY <1>1 DEF CopiesAgree, Untouched
<1>2. CASE Restart
  BY <1>2 DEF Restart
<1>3. ASSUME NEW body \in Bodies, Config(body) PROVE others'[k] = handler'[k]
  <2>1. others'[k] = IF k \in Reached(body) THEN handler'[k] ELSE others[k]
    BY <1>3 DEF Config
  <2>2. k \notin Reached(body) => k \notin imported /\ handler'[k] = handler[k]
    BY <1>3, ConfiguredIs DEF Config
  <2> QED
    BY <2>1, <2>2 DEF CopiesAgree
<1>4. ASSUME NEW present, NEW s, NEW v, SetSecrets(present, SecretOp(s, v))
      PROVE  others'[k] = handler'[k]
  <2>1. CASE k \in Secrets
    BY <1>4, <2>1 DEF SetSecrets
  <2>2. CASE k \notin Secrets
    <3>1. handler'[k] = handler[k]
      BY <1>4, <2>2, RecoveredIs
    <3>2. others'[k] = others[k] /\ k \notin imported
      BY <1>4, <2>2 DEF SetSecrets
    <3> QED
      BY <3>1, <3>2 DEF CopiesAgree
  <2> QED
    BY <2>1, <2>2
<1>5. ASSUME NEW archive \in Archives, Import(archive) PROVE others'[k] = handler'[k]
  <2>1. k \notin imported /\ k \notin Accepted(archive.knobs) /\ others' = others
    BY <1>5 DEF Import
  <2>2. handler'[k] = handler[k]
    BY <1>5, <2>1 DEF Import, Posted
  <2> QED
    BY <2>1, <2>2 DEF CopiesAgree
<1>6. QED
  BY <1>1, <1>2, <1>3, <1>4, <1>5, KnobSteps

-----------------------------------------------------------------------------
(***************************************************************************)
(* Virtual hosts                                                           *)
(***************************************************************************)

\* A save that touches T, when the other hosts stay.
LEMMA HostsSaved ==
  ASSUME HostsKept, env' = env, NEW T, Saved(T),
         \A h \in Hosts \ T : /\ h \in DOMAIN vhosts' <=> h \in DOMAIN vhosts
                              /\ h \in DOMAIN vhosts => vhosts'[h] = vhosts[h]
  PROVE  HostsKept'
<1>1. EnvHosts' = EnvHosts
  BY DEF EnvHosts
<1>2. CASE file' = vhosts' /\ unsaved' = {}
  <2> SUFFICES ASSUME NEW h \in Hosts
               PROVE  IF h \in DOMAIN vhosts' THEN h \in DOMAIN Over(file', EnvHosts)
                                 /\ vhosts'[h] = Over(file', EnvHosts)[h]
                      ELSE h \notin DOMAIN file'
    BY <1>1, <1>2 DEF HostsKept, BootHosts
  <2> QED
    BY <1>2 DEF Over
<1>3. CASE UNCHANGED file /\ unsaved' = unsaved \cup T
  <2> SUFFICES ASSUME NEW h \in Hosts, h \notin unsaved'
               PROVE  IF h \in DOMAIN vhosts' THEN h \in DOMAIN BootHosts(file)
                                 /\ vhosts'[h] = BootHosts(file)[h]
                      ELSE h \notin DOMAIN file
    BY <1>1, <1>3 DEF HostsKept, BootHosts
  <2>1. h \notin unsaved /\ h \notin T
    BY <1>3
  <2> QED
    BY <2>1 DEF HostsKept
<1>4. QED
  BY <1>2, <1>3 DEF Saved

LEMMA HostsKeep ==
  ASSUME HostsKept, [Next]_vars PROVE HostsKept'
<1>a. env' = env /\ EnvHosts' = EnvHosts
  BY EnvStays DEF EnvHosts
<1>1. CASE UNCHANGED hostVars
  BY <1>1, <1>a DEF HostsKept, hostVars, BootHosts
<1>2. CASE Restart
  <2> SUFFICES ASSUME NEW h \in Hosts
               PROVE  IF h \in DOMAIN vhosts' THEN h \in DOMAIN Over(file', EnvHosts)
                                 /\ vhosts'[h] = Over(file', EnvHosts)[h]
                      ELSE h \notin DOMAIN file'
    BY <1>a DEF HostsKept, BootHosts
  <2>1. vhosts' = Over(file, EnvHosts) /\ file' = file
    BY <1>2 DEF Restart, BootHosts
  <2> QED
    BY <2>1 DEF Over
<1>3. ASSUME NEW h \in Hosts, NEW o, SetVhost(h, o) PROVE HostsKept'
  <2>1. \A g \in Hosts \ {h} : /\ g \in DOMAIN vhosts' <=> g \in DOMAIN vhosts
                               /\ g \in DOMAIN vhosts => vhosts'[g] = vhosts[g]
    BY <1>3 DEF SetVhost, Given, Over
  <2> QED
    BY <1>3, <1>a, <2>1, HostsSaved DEF SetVhost
<1>4. ASSUME NEW h \in Hosts, DeleteVhost(h) PROVE HostsKept'
  <2>1. \A g \in Hosts \ {h} : /\ g \in DOMAIN vhosts' <=> g \in DOMAIN vhosts
                               /\ g \in DOMAIN vhosts => vhosts'[g] = vhosts[g]
    BY <1>4 DEF DeleteVhost
  <2> QED
    BY <1>4, <1>a, <2>1, HostsSaved DEF DeleteVhost
<1>5. ASSUME NEW archive \in Archives, Import(archive) PROVE HostsKept'
  <2> DEFINE T == DOMAIN archive.hosts
  <2>1. vhosts' = Over(archive.hosts, vhosts)
    BY <1>5 DEF Import
  <2>2. \A g \in Hosts \ T : /\ g \in DOMAIN vhosts' <=> g \in DOMAIN vhosts
                             /\ g \in DOMAIN vhosts => vhosts'[g] = vhosts[g]
    BY <2>1 DEF Over
  <2>3. Saved(T)
    <3>1. CASE archive.hosts = << >>
      <4>1. T = {} /\ UNCHANGED <<file, unsaved>>
        BY <1>5, <3>1 DEF Import
      <4> QED
        BY <4>1 DEF Saved
    <3>2. CASE archive.hosts # << >>
      BY <1>5, <3>2 DEF Import
    <3> QED
      BY <3>1, <3>2
  <2> HIDE DEF T
  <2> QED
    BY <1>a, <2>2, <2>3, HostsSaved
<1>6. QED
  BY <1>1, <1>2, <1>3, <1>4, <1>5 DEF Next, vars, Write, Rotate, Config, PostSecret,
    DeleteSecret, SetSecrets, AddCidr, RemoveCidr

-----------------------------------------------------------------------------
(***************************************************************************)
(* What a step makes of the stores to come                                 *)
(***************************************************************************)

\* The write of one operation changes nothing to come.
LEMMA WriteSettles ==
  ASSUME SettingsTypes, Write
  PROVE  /\ Settled' = Settled
         /\ Replayed(Seeded(Stored), queue).table
              \subseteq Replayed(Seeded(Stored), queue)'.table
<1> DEFINE op == Head(queue)
           rest == Tail(queue)
<1>1. /\ op \in Ops /\ rest \in Seq(Ops) /\ <<op>> \in Seq(Ops) /\ queue = <<op>> \o rest
      /\ queue' = rest
  <2>1. queue \in Seq(Ops) /\ queue # << >>
    BY DEF SettingsTypes, Write
  <2>2. /\ Head(queue) \in Ops /\ Tail(queue) \in Seq(Ops)
        /\ queue = <<Head(queue)>> \o Tail(queue)
    BY <2>1
  <2> QED
    BY <2>2 DEF Write
<1> HIDE DEF op, rest
<1>2. \A st : Replayed(st, queue) = Replayed(Applied(st, op), rest)
  <2>1. \A st : Replayed(st, <<op>> \o rest) = Replayed(Replayed(st, <<op>>), rest)
    BY <1>1, ReplayInTurn
  <2> QED
    BY <1>1, <2>1, ReplayOfOne
<1>3. /\ Stored \in StoreSpace /\ Seeded(Stored) \in StoreSpace
      /\ Stored.table = table /\ Seeded(Stored).table = table \cup EnvSeed
  BY StoredIs
<1>4. Stored' = Applied(Stored, op)
  <2>1. Applied(Stored, op) \in StoreSpace
    BY <1>1, <1>3, AppliedIs
  <2>2. /\ rows' = Applied(Stored, op).rows /\ kept' = Applied(Stored, op).kept
        /\ table' = Applied(Stored, op).table
    BY DEF Write, op
  <2> QED
    BY <2>1, <2>2 DEF Stored, StoreSpace
<1>5. Settled' = Settled
  <2>1. Settled' = Replayed(Stored', queue') /\ Settled = Replayed(Stored, queue)
    BY DEF Settled
  <2> QED
    BY <1>1, <1>2, <1>4, <2>1
<1>6. env' = env /\ EnvSeed' = EnvSeed /\ SettingsTypes'
  BY SettingsTypesKeep DEF Write, EnvSeed, Next
<1>7. /\ Seeded(Stored)' \in StoreSpace
      /\ Seeded(Stored)'.table = Stored'.table \cup EnvSeed
  <2>1. PICK seed : seed = EnvSeed
    OBVIOUS
  <2>2. /\ (Seeded(Stored) \in StoreSpace)'
        /\ (Seeded(Stored).table = table \cup EnvSeed)' /\ (Stored.table = table)'
    BY <1>6, StoredIs, PTL
  <2> QED
    BY <1>6, <2>2
<1>8. Applied(Seeded(Stored), op).table \subseteq Seeded(Stored)'.table
  <2>1. \A c : c \in Applied(Seeded(Stored), op).table <=>
                 IF Lists(op, c) THEN op.listed ELSE c \in table \cup EnvSeed
    BY <1>1, <1>3, AppliedIs
  <2>2. \A c : c \in Applied(Stored, op).table <=>
                 IF Lists(op, c) THEN op.listed ELSE c \in table
    BY <1>1, <1>3, AppliedIs
  <2> QED
    BY <1>4, <1>7, <2>1, <2>2
<1>9. Replayed(Seeded(Stored), queue)' = Replayed(Seeded(Stored)', rest)
  BY <1>1
<1>10. Applied(Seeded(Stored), op) \in StoreSpace
  BY <1>1, <1>3, AppliedIs
<1>11. QED
  BY <1>1, <1>2, <1>5, <1>7, <1>8, <1>9, <1>10, ReplayGrows

\* The queue takes the first n of ops, and the table of secrets may change
\* under it: they are replayed on a store that differs in these secrets only.
LEMMA QueueTakes ==
  ASSUME SettingsTypes, SettingsTypes', NEW ops \in Seq(Ops), NEW n, Queued(ops, n),
         UNCHANGED <<rows, table, env>>
  PROVE  /\ \E a \in StoreSpace :
              /\ Settled' = Replayed(a, SubSeq(ops, 1, n))
              /\ \A k : SameRow(Settled.rows, a.rows, k)
              /\ a.table = Settled.table
              /\ \A s : (s \in kept <=> s \in kept') =>
                          (s \in Settled.kept <=> s \in a.kept)
         /\ \E b \in StoreSpace :
              /\ Replayed(Seeded(Stored), queue)' = Replayed(b, SubSeq(ops, 1, n))
              /\ b.table = Replayed(Seeded(Stored), queue).table
<1> DEFINE p == SubSeq(ops, 1, n)
<1>1. p \in Seq(Ops) /\ queue' = queue \o p /\ queue \in Seq(Ops)
  BY QueueTypes DEF SettingsTypes
<1> HIDE DEF p
<1>2. \A st : Replayed(st, queue') = Replayed(Replayed(st, queue), p)
  BY <1>1, ReplayInTurn
<1>3. PICK st, seeded, seed :
        st = Stored' /\ seeded = Seeded(Stored)' /\ seed = EnvSeed
  OBVIOUS
<1>4. /\ Stored \in StoreSpace /\ Stored.rows = rows /\ Stored.kept = kept
      /\ Stored.table = table
      /\ Seeded(Stored) \in StoreSpace /\ Seeded(Stored).table = table \cup seed
      /\ Seeded(Stored).rows = rows /\ Seeded(Stored).kept = kept
  BY <1>3, StoredIs DEF Seeded
<1>5. /\ st \in StoreSpace /\ st.rows = rows /\ st.kept = kept' /\ st.table = table
      /\ seeded \in StoreSpace /\ seeded.table = table \cup seed
      /\ seeded.rows = rows /\ seeded.kept = kept'
  <2>1. /\ (Stored \in StoreSpace)' /\ (Stored.rows = rows)' /\ (Stored.kept = kept)'
        /\ (Stored.table = table)'
        /\ (Seeded(Stored) \in StoreSpace)' /\ (Seeded(Stored).table = table \cup EnvSeed)'
    BY StoredIs, PTL
  <2>2. Seeded(Stored)'.rows = Stored'.rows /\ Seeded(Stored)'.kept = Stored'.kept
    BY DEF Seeded, Stored
  <2>3. EnvSeed' = EnvSeed
    BY DEF EnvSeed
  <2> QED
    BY <1>3, <2>1, <2>2, <2>3
<1>6. Settled = Replayed(Stored, queue) /\ Settled' = Replayed(Replayed(st, queue), p)
  BY <1>2, <1>3 DEF Settled
<1>7. Replayed(Seeded(Stored), queue)' = Replayed(Replayed(seeded, queue), p)
  BY <1>2, <1>3
<1>8. /\ Replayed(st, queue) \in StoreSpace /\ Replayed(seeded, queue) \in StoreSpace
  BY <1>1, <1>5, ReplayInSpace
<1>9. ASSUME NEW s
      PROVE  /\ \A k : SameRow(Settled.rows, Replayed(st, queue).rows, k)
             /\ Replayed(st, queue).table = Settled.table
             /\ (s \in kept <=> s \in kept') =>
                  (s \in Settled.kept <=> s \in Replayed(st, queue).kept)
  <2>0. PICK ghost : ghost \notin Secrets
    <3>1. "plain" \notin Secrets
      BY KnobsAre
    <3> QED
      BY <3>1
  <2>1. Stored.kept \subseteq Secrets /\ st.kept \subseteq Secrets
    BY <1>4, <1>5 DEF StoreSpace
  <2>2. ghost \in Stored.kept <=> ghost \in st.kept
    BY <2>0, <2>1
  <2>3. /\ \A k : SameRow(Replayed(Stored, queue).rows, Replayed(st, queue).rows, k)
        /\ Replayed(Stored, queue).table = Replayed(st, queue).table
    <3>1. /\ Stored \in StoreSpace /\ st \in StoreSpace /\ queue \in Seq(Ops)
          /\ Stored.rows = st.rows /\ Stored.table = st.table
      BY <1>1, <1>4, <1>5
    <3> HIDE <1>1, <1>2, <1>3, <1>4, <1>5, <1>6, <1>7, <1>8
    <3> QED
      BY <2>2, <3>1, ReplaysApart
  <2>4. (s \in Stored.kept <=> s \in st.kept) =>
          (s \in Replayed(Stored, queue).kept <=> s \in Replayed(st, queue).kept)
    BY <1>1, <1>4, <1>5, ReplaysApart
  <2> QED
    BY <1>4, <1>5, <1>6, <2>3, <2>4
<1>10. Replayed(seeded, queue).table = Replayed(Seeded(Stored), queue).table
  <2>1. Replayed(seeded, queue).table \subseteq Replayed(Seeded(Stored), queue).table
    BY <1>1, <1>4, <1>5, ReplayGrows
  <2>2. Replayed(Seeded(Stored), queue).table \subseteq Replayed(seeded, queue).table
    BY <1>1, <1>4, <1>5, ReplayGrows
  <2> QED
    BY <2>1, <2>2
<1>11. QED
  BY <1>6, <1>7, <1>8, <1>9, <1>10 DEF p

\* Nothing waits after a start.
LEMMA StartSettles ==
  ASSUME Restart
  PROVE  /\ Settled' = [rows |-> rows, kept |-> kept, table |-> table']
         /\ Replayed(Seeded(Stored), queue)' =
              [rows |-> rows, kept |-> kept, table |-> table' \cup EnvSeed]
<1>1. queue' = << >> /\ rows' = rows /\ kept' = kept /\ env' = env
  BY DEF Restart
<1>2. Settled' = Stored' /\ Replayed(Seeded(Stored), queue)' = Seeded(Stored)'
  BY <1>1, ReplayOfNothing DEF Settled
<1>3. QED
  BY <1>1, <1>2 DEF Stored, Seeded, EnvSeed

-----------------------------------------------------------------------------
(***************************************************************************)
(* The allowlist                                                           *)
(***************************************************************************)

\* The addresses that the first n of ops list.
Listing(ops, n) == {ops[i].cidr : i \in {j \in 1 .. n : IsAdd(ops[j])}}

\* A request that removes no address.
LEMMA AllowQueued ==
  ASSUME SettingsTypes, SettingsTypes', AllowInv, NEW ops \in Seq(Ops), NEW n,
         Queued(ops, n), UNCHANGED <<rows, table, env, unread>>,
         \A op \in Elements(ops) : op.op = "admin_ip" => op.listed,
         entries' = entries \cup Listing(ops, n)
  PROVE  AllowInv'
<1> DEFINE p == SubSeq(ops, 1, n)
<1>1. /\ p \in Seq(Ops) /\ Len(p) = n /\ n \in 0 .. Len(ops)
      /\ \A i \in 1 .. n : p[i] = ops[i] /\ i \in 1 .. Len(ops)
  BY QueueTypes
<1>2. /\ \E a \in StoreSpace : Settled' = Replayed(a, p) /\ a.table = Settled.table
      /\ \E b \in StoreSpace :
           /\ Replayed(Seeded(Stored), queue)' = Replayed(b, p)
           /\ b.table = Replayed(Seeded(Stored), queue).table
  BY QueueTakes
<1> HIDE DEF p
<1>3. \A i \in 1 .. Len(p) : \A c : /\ Lists(p[i], c) => p[i].listed
                                    /\ Lists(p[i], c) <=> IsAdd(ops[i]) /\ ops[i].cidr = c
  BY <1>1 DEF Elements, Lists, IsAdd
<1>4. ASSUME NEW a \in StoreSpace
      PROVE  Replayed(a, p).table = a.table \cup Listing(ops, n)
  <2>1. ASSUME NEW c
        PROVE  c \in Replayed(a, p).table <=> c \in a.table \cup Listing(ops, n)
    <3>1. \A i \in 1 .. Len(p) : Lists(p[i], c) => p[i].listed
      BY <1>3
    <3>2. c \in Replayed(a, p).table <=>
            c \in a.table \/ \E i \in 1 .. Len(p) : Lists(p[i], c)
      BY <1>1, <3>1, ReplayLists
    <3>3. c \in Listing(ops, n) <=> \E i \in 1 .. n : IsAdd(ops[i]) /\ ops[i].cidr = c
      BY DEF Listing
    <3> QED
      BY <1>1, <1>3, <3>2, <3>3
  <2> QED
    BY <2>1
<1>5. PICK a \in StoreSpace : Settled' = Replayed(a, p) /\ a.table = Settled.table
  BY <1>2
<1>6. PICK b \in StoreSpace : /\ Replayed(Seeded(Stored), queue)' = Replayed(b, p)
                              /\ b.table = Replayed(Seeded(Stored), queue).table
  BY <1>2
<1>7. /\ Settled'.table = Settled.table \cup Listing(ops, n)
      /\ Replayed(Seeded(Stored), queue)'.table =
           Replayed(Seeded(Stored), queue).table \cup Listing(ops, n)
  BY <1>4, <1>5, <1>6
<1>8. (unread' \/ entries' = Settled'.table)
        /\ entries' \subseteq Replayed(Seeded(Stored), queue)'.table
  BY <1>7 DEF AllowInv
<1>9. QED
  BY <1>8 DEF AllowInv

\* A request about one address, or about none.
LEMMA OneQueued ==
  ASSUME SettingsTypes, NEW op \in Ops, NEW n, Queued(<<op>>, n)
  PROVE  /\ <<op>> \in Seq(Ops) /\ Elements(<<op>>) = {op} /\ n \in 0 .. 1
         /\ n = 0 => SubSeq(<<op>>, 1, n) = << >>
         /\ n = 1 => SubSeq(<<op>>, 1, n) = <<op>>
         /\ Listing(<<op>>, n) = IF n = 1 /\ IsAdd(op) THEN {op.cidr} ELSE {}
<1>1. <<op>> \in Seq(Ops) /\ Len(<<op>>) = 1 /\ <<op>>[1] = op /\ 1 .. 1 = {1}
  OBVIOUS
<1>2. n \in 0 .. 1
  BY <1>1 DEF Queued
<1>3. SubSeq(<<op>>, 1, 0) = << >> /\ SubSeq(<<op>>, 1, 1) = <<op>>
  <2>1. PICK q, r : q = SubSeq(<<op>>, 1, 0) /\ r = SubSeq(<<op>>, 1, 1)
    OBVIOUS
  <2>2. 0 \in 0 .. Len(<<op>>) /\ 1 \in 0 .. Len(<<op>>)
    BY <1>1
  <2>3. q \in Seq(Ops) /\ Len(q) = 0
    BY <1>1, <2>1, <2>2, PrefixIs
  <2>4. r \in Seq(Ops) /\ Len(r) = 1 /\ r[1] = op
    BY <1>1, <2>1, <2>2, PrefixIs
  <2>5. r = <<op>>
    BY <2>4
  <2>6. q = << >>
    BY <2>3
  <2> QED
    BY <2>1, <2>5, <2>6
<1>4. Listing(<<op>>, 0) = {}
  BY DEF Listing
<1>5. Listing(<<op>>, 1) = IF IsAdd(op) THEN {op.cidr} ELSE {}
  BY <1>1 DEF Listing
<1>6. Elements(<<op>>) = {op}
  BY <1>1 DEF Elements
<1>7. n = 0 \/ n = 1
  BY <1>2
<1>8. QED
  BY <1>1, <1>2, <1>3, <1>4, <1>5, <1>6, <1>7

LEMMA AllowKeeps ==
  ASSUME SettingsTypes, SettingsTypes', AllowInv, [Next]_vars PROVE AllowInv'
<1>a. env' = env /\ EnvSeed' = EnvSeed
  BY EnvStays DEF EnvSeed
<1>b. handler \in [Knobs -> BOOLEAN]
  BY DEF SettingsTypes, TypeOK
<1>1. CASE UNCHANGED <<unread, entries, stores, queue>>
  BY <1>1, <1>a DEF AllowInv, Settled, Stored, Seeded, stores
<1>2. CASE Write
  <2>1. /\ Settled' = Settled /\ UNCHANGED <<unread, entries>>
        /\ Replayed(Seeded(Stored), queue).table
              \subseteq Replayed(Seeded(Stored), queue)'.table
    BY <1>2, WriteSettles DEF Write
  <2> QED
    BY <2>1 DEF AllowInv
<1>3. CASE Restart
  <2>1. /\ Settled'.table = table'
        /\ Replayed(Seeded(Stored), queue)'.table = table' \cup EnvSeed
    BY <1>3, StartSettles
  <2>2. /\ unread' \/ entries' = table'
        /\ entries' \subseteq table' \cup EnvSeed
    BY <1>3 DEF Restart, LoadAdminIps
  <2> QED
    BY <2>1, <2>2 DEF AllowInv
<1>4. ASSUME NEW body \in Bodies, Config(body) PROVE AllowInv'
  <2> DEFINE ops == RowOps(body, Accepted(body)) \o ExclusionOps(body)
  <2>1. /\ ops \in Seq(Ops)
        /\ Elements(ops) = {KnobOp(k, body[k]) : k \in Accepted(body) \ {"bypass"}}
                            \cup IF Excluded(body) THEN {KnobOp("ja4", FALSE)} ELSE {}
    BY <1>b, BodiesAre, RequestOpsAre
  <2>2. PICK n : Queued(ops, n)
    BY <1>4 DEF Config
  <2> HIDE DEF ops
  <2>3. \A op \in Elements(ops) : op.op = "set_config"
    BY <2>1 DEF KnobOp
  <2>4. \A i \in 1 .. n : ops[i].op = "set_config"
    BY <2>1, <2>2, <2>3, QueueTypes DEF Elements
  <2>5. Listing(ops, n) = {}
    BY <2>4 DEF Listing, IsAdd
  <2> QED
    BY <1>4, <2>1, <2>2, <2>3, <2>5, AllowQueued DEF Config, stores
<1>5. ASSUME NEW present, NEW s \in Secrets, NEW v \in BOOLEAN,
             SetSecrets(present, SecretOp(s, v))
      PROVE  AllowInv'
  <2>1. PICK op \in Ops, n \in 0 .. 1 : Queued(<<op>>, n) /\ op.op = "secret"
    BY <1>5, OpsMade DEF SetSecrets
  <2>2. /\ <<op>> \in Seq(Ops) /\ Elements(<<op>>) = {op} /\ Listing(<<op>>, n) = {}
    BY <2>1, OneQueued DEF IsAdd
  <2> QED
    BY <1>5, <2>1, <2>2, AllowQueued DEF SetSecrets, stores
<1>6. ASSUME NEW c \in Cidrs, AddCidr(c) PROVE AllowInv'
  <2>0. PICK op \in Ops : /\ op = CidrOp(c, TRUE) /\ op.op = "admin_ip" /\ op.listed
                          /\ op.cidr = c
    BY OpsMade
  <2>1. PICK n : Queued(<<op>>, n) /\ entries' = Listed(c, n)
    BY <1>6, <2>0 DEF AddCidr
  <2>2. entries' = entries \cup Listing(<<op>>, n)
    BY <2>0, <2>1, OneQueued DEF IsAdd, Listed
  <2>3. <<op>> \in Seq(Ops) /\ Elements(<<op>>) = {op}
    BY <2>1, OneQueued
  <2> QED
    BY <1>6, <2>0, <2>1, <2>2, <2>3, AllowQueued DEF AddCidr, stores
<1>7. ASSUME NEW c \in Cidrs, RemoveCidr(c) PROVE AllowInv'
  <2>0. PICK op \in Ops : /\ op = CidrOp(c, FALSE) /\ op.op = "admin_ip" /\ ~op.listed
                          /\ op.cidr = c
    BY OpsMade
  <2>1. PICK n : /\ Queued(<<op>>, n)
                 /\ entries' = IF n = 1 THEN entries \ {c} ELSE entries
    BY <1>7, <2>0 DEF RemoveCidr
  <2>2. /\ <<op>> \in Seq(Ops) /\ n \in 0 .. 1
        /\ n = 0 => SubSeq(<<op>>, 1, n) = << >>
        /\ n = 1 => SubSeq(<<op>>, 1, n) = <<op>>
    BY <2>1, OneQueued
  <2>3. ASSUME NEW a \in StoreSpace
        PROVE  Replayed(a, SubSeq(<<op>>, 1, n)).table =
                 IF n = 1 THEN a.table \ {c} ELSE a.table
    <3>1. CASE n = 0
      <4>1. Replayed(a, SubSeq(<<op>>, 1, n)) = a
        BY <2>2, <3>1, ReplayOfNothing
      <4> QED
        BY <3>1, <4>1
    <3>2. CASE n = 1
      <4>1. Replayed(a, SubSeq(<<op>>, 1, n)) = Applied(a, op)
        BY <2>2, <3>2, ReplayOfOne
      <4>2. \A d : d \in Applied(a, op).table <=>
                     IF Lists(op, d) THEN op.listed ELSE d \in a.table
        BY AppliedIs
      <4>3. \A d : d \in Applied(a, op).table <=> d \in a.table \ {c}
        BY <2>0, <4>2 DEF Lists
      <4>4. Applied(a, op).table = a.table \ {c}
        BY <4>3
      <4> QED
        BY <3>2, <4>1, <4>4
    <3>3. n = 0 \/ n = 1
      BY <2>2
    <3> QED
      BY <3>1, <3>2, <3>3
  <2>4. UNCHANGED <<rows, table, env, unread>>
    BY <1>7 DEF RemoveCidr, stores
  <2>5. /\ \E a \in StoreSpace : /\ Settled' = Replayed(a, SubSeq(<<op>>, 1, n))
                                 /\ a.table = Settled.table
        /\ \E b \in StoreSpace :
           /\ Replayed(Seeded(Stored), queue)' = Replayed(b, SubSeq(<<op>>, 1, n))
           /\ b.table = Replayed(Seeded(Stored), queue).table
    BY <2>1, <2>2, <2>4, QueueTakes
  <2>6. /\ Settled'.table = IF n = 1 THEN Settled.table \ {c} ELSE Settled.table
        /\ Replayed(Seeded(Stored), queue)'.table =
             IF n = 1 THEN Replayed(Seeded(Stored), queue).table \ {c}
                      ELSE Replayed(Seeded(Stored), queue).table
    BY <2>3, <2>5
  <2>7. (unread' \/ entries' = Settled'.table)
          /\ entries' \subseteq Replayed(Seeded(Stored), queue)'.table
    BY <2>1, <2>4, <2>6 DEF AllowInv
  <2> QED
    BY <2>7 DEF AllowInv
<1>8. ASSUME NEW archive \in Archives, Import(archive) PROVE AllowInv'
  <2> DEFINE ops == RowOps(archive.knobs, Accepted(archive.knobs))
                      \o CidrOps(archive.cidrs)
  <2>1. /\ ops \in Seq(Ops)
        /\ Elements(ops) = {KnobOp(k, archive.knobs[k]) :
                              k \in Accepted(archive.knobs) \ {"bypass"}}
                             \cup Elements(CidrOps(archive.cidrs))
    BY <1>b, ArchivesAre, RequestOpsAre
  <2>2. PICK n : Queued(ops, n) /\ entries' = entries \cup Listing(ops, n)
    BY <1>8 DEF Import, Listing
  <2> HIDE DEF ops
  <2>3. \A op \in Elements(ops) : op.op = "admin_ip" => op.listed
    <3>1. \A op \in Elements(CidrOps(archive.cidrs)) : op.listed
      BY ArchivesAre, CidrOpsAre
    <3> QED
      BY <2>1, <3>1 DEF KnobOp
  <2> QED
    BY <1>8, <1>a, <2>1, <2>2, <2>3, AllowQueued DEF Import
<1>9. QED
  BY <1>1, <1>2, <1>3, <1>4, <1>5, <1>6, <1>7, <1>8 DEF Next, vars, Rotate, PostSecret,
    DeleteSecret, SetVhost, DeleteVhost

-----------------------------------------------------------------------------
(***************************************************************************)
(* The knobs                                                               *)
(***************************************************************************)

LEMMA LoadedStays ==
  ASSUME env' = env, NEW r, NEW p
  PROVE  Loaded(r, p)' = Loaded(r, p)
  BY DEF Loaded, Stands, Defaults, Pinned, EnvSecrets, OptOut, Valid

\* What a step that queues ops makes of the row of k and of secret s.
LEMMA RowsTaken ==
  ASSUME SettingsTypes, SettingsTypes', NEW ops \in Seq(Ops), NEW n, Queued(ops, n),
         UNCHANGED <<rows, table, env>>
  PROVE  /\ \A k :
              /\ k \notin LostKnobs(ops, n) /\ (\A op \in Elements(ops) : ~Sets(op, k))
                   => SameRow(Settled.rows, Settled'.rows, k)
              /\ \A v : (/\ k \notin LostKnobs(ops, n)
                         /\ \E op \in Elements(ops) : Sets(op, k)
                         /\ \A op \in Elements(ops) : Sets(op, k) => op.value = v)
                        => HasRow(Settled'.rows, k, v)
              /\ (/\ k \notin LostKnobs(ops, n)
                  /\ Len(ops) > 0 /\ Sets(ops[Len(ops)], k))
                        => HasRow(Settled'.rows, k, ops[Len(ops)].value)
         /\ \A s : (s \in kept <=> s \in kept') /\ (\A op \in Elements(ops) : ~Turns(op, s))
                     => (s \in Settled.kept <=> s \in Settled'.kept)
<1> DEFINE p == SubSeq(ops, 1, n)
<1>1. /\ p \in Seq(Ops) /\ Len(p) = n /\ n \in 0 .. Len(ops)
      /\ \A i \in 1 .. n : p[i] = ops[i] /\ i \in 1 .. Len(ops)
  BY QueueTypes
<1>2. PICK a \in StoreSpace : /\ Settled' = Replayed(a, p)
                              /\ \A k : SameRow(Settled.rows, a.rows, k)
                              /\ \A s : (s \in kept <=> s \in kept') =>
                                          (s \in Settled.kept <=> s \in a.kept)
  BY QueueTakes
<1>3. ASSUME NEW k, k \notin LostKnobs(ops, n)
      PROVE  /\ (\A op \in Elements(ops) : ~Sets(op, k))
                  => SameRow(Settled.rows, Settled'.rows, k)
             /\ \A v : (/\ \E op \in Elements(ops) : Sets(op, k)
                        /\ \A op \in Elements(ops) : Sets(op, k) => op.value = v)
                       => HasRow(Settled'.rows, k, v)
             /\ Len(ops) > 0 /\ Sets(ops[Len(ops)], k)
                       => HasRow(Settled'.rows, k, ops[Len(ops)].value)
  <2>1. /\ (\A op \in Elements(ops) : ~Sets(op, k))
                  => SameRow(a.rows, Replayed(a, p).rows, k)
        /\ \A v : (/\ \E op \in Elements(ops) : Sets(op, k)
                   /\ \A op \in Elements(ops) : Sets(op, k) => op.value = v)
                  => HasRow(Replayed(a, p).rows, k, v)
        /\ Len(ops) > 0 /\ Sets(ops[Len(ops)], k)
                  => HasRow(Replayed(a, p).rows, k, ops[Len(ops)].value)
    BY <1>1, <1>3, QueuedRows
  <2>2. SameRow(Settled.rows, a.rows, k)
    BY <1>2
  <2>3. SameRow(a.rows, Replayed(a, p).rows, k)
          => SameRow(Settled.rows, Replayed(a, p).rows, k)
    BY <2>2 DEF SameRow
  <2> HIDE DEF p
  <2> QED
    BY <1>2, <2>1, <2>3
<1>4. ASSUME NEW s, s \in kept <=> s \in kept', \A op \in Elements(ops) : ~Turns(op, s)
      PROVE  s \in Settled.kept <=> s \in Settled'.kept
  <2> HIDE DEF p
  <2>1. \A i \in 1 .. Len(p) : ~Turns(p[i], s)
    BY <1>1, <1>4 DEF Elements
  <2>2. s \in Replayed(a, p).kept <=> s \in a.kept
    BY <1>1, <2>1, ReplayKeepsSecret
  <2> QED
    BY <1>2, <1>4, <2>2
<1>5. QED
  BY <1>3, <1>4

\* Either a restart would find what the step made of k, or k stays as it was.
Found(r, p, k) == handler'[k] = Loaded(r, p)[k]
Stays(r0, p0, r, p, k) ==
  /\ k \notin unsettled /\ handler'[k] = handler[k] /\ SameRow(r0, r, k)
  /\ k \in Secrets => (k \in p0 <=> k \in p) /\ (k \in secrets <=> k \in secrets')

LEMMA KnobsFromParts ==
  ASSUME env' = env, KnobsInv,
         NEW r0, NEW p0, r0 = Settled.rows, p0 = EnvSecrets \cup Settled.kept,
         NEW r, NEW p, r = Settled'.rows, p = EnvSecrets \cup Settled'.kept,
         \A k \in Knobs \ {"ja4"} :
           k \notin unsettled' /\ (k \in Secrets => (k \in secrets' <=> k \in p))
             => Found(r, p, k) \/ Stays(r0, p0, r, p, k),
         "ja4" \notin unsettled' =>
           /\ ~Clash(handler')
           /\ Found(r, p, "ja4") \/ Stays(r0, p0, r, p, "ja4")
  PROVE  KnobsInv'
<1>1. /\ EnvSecrets' = EnvSecrets /\ Loaded(r, p)' = Loaded(r, p)
      /\ "ja4" \in Knobs /\ "ja4" \notin Secrets
  BY LoadedStays, KnobsAre DEF EnvSecrets
<1>2. Trusted(r0, p0)
  BY DEF KnobsInv
<1>3. ASSUME NEW k \in Knobs \ {"ja4"}, k \notin unsettled',
             k \in Secrets => (k \in secrets' <=> k \in p)
      PROVE  handler'[k] = Loaded(r, p)[k]
  <2>1. CASE Found(r, p, k)
    BY <2>1 DEF Found
  <2>2. CASE Stays(r0, p0, r, p, k)
    <3>1. handler[k] = Loaded(r0, p0)[k]
      BY <1>2, <1>3, <2>2 DEF Stays, Trusted
    <3>2. Loaded(r0, p0)[k] = Loaded(r, p)[k]
      BY <2>2, LoadedSame DEF Stays
    <3> QED
      BY <2>2, <3>1, <3>2 DEF Stays
  <2> QED
    BY <1>3, <2>1, <2>2
<1>4. ASSUME "ja4" \notin unsettled'
      PROVE  handler'["ja4"] = Loaded(r, p)["ja4"] /\ ~Clash(handler')
  <2>1. CASE Found(r, p, "ja4")
    BY <1>4, <2>1 DEF Found
  <2>2. CASE Stays(r0, p0, r, p, "ja4")
    <3>1. handler["ja4"] = Loaded(r0, p0)["ja4"]
      BY <1>2, <2>2 DEF Stays, Trusted
    <3>2. Loaded(r0, p0)["ja4"] = Loaded(r, p)["ja4"]
      BY <1>1, <2>2, LoadedSame DEF Stays
    <3> QED
      BY <1>4, <2>2, <3>1, <3>2 DEF Stays
  <2> QED
    BY <1>4, <2>1, <2>2
<1>5. Trusted(r, p)'
  BY <1>1, <1>3, <1>4 DEF Trusted, Clash
<1>6. QED
  BY <1>1, <1>5 DEF KnobsInv

\* A knob just accepted: a restart finds its row.
LEMMA AcceptedIsFound ==
  ASSUME handler \in [Knobs -> BOOLEAN], NEW body \in Partial(Knobs, BOOLEAN),
         NEW k \in Accepted(body), NEW r, NEW p, HasRow(r, k, body[k]),
         k \in Secrets => (k \in secrets <=> k \in p)
  PROVE  Loaded(r, p)[k] = Posted(body)[k]
<1>1. /\ k \in Knobs /\ k \notin Pinned /\ Posted(body)[k] = body[k]
      /\ k \in DOMAIN r /\ r[k] = body[k]
  BY PostedIs DEF HasRow
<1>2. r[k] /\ k \in Secrets => k \in p
  BY <1>1 DEF Accepted, Valid
<1>3. QED
  BY <1>1, <1>2, LoadedRow

\* A step that leaves the knobs, the secrets and what the queue makes of both.
LEMMA KnobsUndisturbed ==
  ASSUME env' = env, KnobsInv, UNCHANGED <<handler, unsettled, secrets>>,
         \A k : SameRow(Settled.rows, Settled'.rows, k),
         \A s : s \in Settled.kept <=> s \in Settled'.kept
  PROVE  KnobsInv'
<1>1. PICK r0, p0, r, p : /\ r0 = Settled.rows /\ p0 = EnvSecrets \cup Settled.kept
                          /\ r = Settled'.rows /\ p = EnvSecrets \cup Settled'.kept
  OBVIOUS
<1>2. \A s : s \in p0 <=> s \in p
  BY <1>1
<1>3. \A k : k \notin unsettled' => Stays(r0, p0, r, p, k)
  BY <1>1, <1>2 DEF Stays
<1>4. "ja4" \notin unsettled' => ~Clash(handler')
  BY <1>1 DEF KnobsInv, Trusted, Clash
<1>5. QED
  BY <1>1, <1>3, <1>4, KnobsFromParts

LEMMA ConfigKeepsKnobs ==
  ASSUME SettingsTypes, SettingsTypes', KnobsInv, NEW body \in Bodies, Config(body)
  PROVE  KnobsInv'
<1> DEFINE ops == RowOps(body, Accepted(body)) \o ExclusionOps(body)
           A == Accepted(body)
<1>a. handler \in [Knobs -> BOOLEAN] /\ body \in Partial(Knobs, BOOLEAN) /\ env' = env
  BY BodiesAre DEF SettingsTypes, TypeOK, Config
<1>1. /\ ops \in Seq(Ops)
      /\ Elements(ops) = {KnobOp(k, body[k]) : k \in A \ {"bypass"}}
                           \cup IF Excluded(body) THEN {KnobOp("ja4", FALSE)} ELSE {}
  BY <1>a, RequestOpsAre
<1>2. Excluded(body) => Len(ops) > 0 /\ ops[Len(ops)] = KnobOp("ja4", FALSE)
  <2> SUFFICES ASSUME Excluded(body) PROVE Len(ops) > 0 /\ ops[Len(ops)] = KnobOp("ja4", FALSE)
    OBVIOUS
  <2>1. PICK q, e : q = RowOps(body, Accepted(body)) /\ e = ExclusionOps(body)
    OBVIOUS
  <2>2. q \in Seq(Ops) /\ e \in Seq(Ops) /\ Len(e) = 1 /\ e[1] = KnobOp("ja4", FALSE)
    BY <1>a, <2>1, PostedIs, RowOpsAre, ExclusionOpsAre
  <2>3. Len(q \o e) = Len(q) + 1 /\ (q \o e)[Len(q) + 1] = e[1] /\ Len(q) \in Nat
    <3>1. q \in Seq(Ops) /\ e \in Seq(Ops)
      BY <2>2
    <3>2. Len(q) \in Nat /\ Len(q \o e) = Len(q) + Len(e)
      BY <3>1
    <3>3. \A m \in 1 .. Len(e) : (q \o e)[Len(q) + m] = e[m]
      BY <3>1
    <3>4. 1 \in 1 .. Len(e) /\ Len(q \o e) = Len(q) + 1
      BY <2>2, <3>2
    <3>5. (q \o e)[Len(q) + 1] = e[1]
      BY <3>3, <3>4
    <3> QED
      BY <3>2, <3>4, <3>5
  <2> QED
    BY <2>1, <2>2, <2>3
<1>3. PICK n : /\ Queued(ops, n)
               /\ unsettled' = (unsettled \ A) \cup LostKnobs(ops, n)
                         \cup (A \cap NotPersisted)
                         \cup (IF Excluded(body) THEN Pinned \cap {"ja4"} ELSE {})
  BY DEF Config
<1>b. UNCHANGED <<rows, kept, table, env, secrets>>
  BY DEF Config, stores
<1>c. A \subseteq Knobs /\ "ja4" \in Knobs /\ NotPersisted = {"bypass"} /\ "ja4" # "bypass"
      /\ "ja4" \notin Secrets
  BY <1>a, PostedIs, KnobsAre DEF NotPersisted
<1> HIDE DEF ops, A
<1>4. PICK r0, p0, r, p : /\ r0 = Settled.rows /\ p0 = EnvSecrets \cup Settled.kept
                          /\ r = Settled'.rows /\ p = EnvSecrets \cup Settled'.kept
  OBVIOUS
<1>5. /\ \A k :
           /\ k \notin LostKnobs(ops, n) /\ (\A op \in Elements(ops) : ~Sets(op, k))
                => SameRow(r0, r, k)
           /\ \A v : (/\ k \notin LostKnobs(ops, n)
                      /\ \E op \in Elements(ops) : Sets(op, k)
                      /\ \A op \in Elements(ops) : Sets(op, k) => op.value = v)
                     => HasRow(r, k, v)
           /\ (/\ k \notin LostKnobs(ops, n)
               /\ Len(ops) > 0 /\ Sets(ops[Len(ops)], k))
                     => HasRow(r, k, ops[Len(ops)].value)
      /\ \A s : (\A op \in Elements(ops) : ~Turns(op, s)) => (s \in p0 <=> s \in p)
  BY <1>1, <1>3, <1>b, <1>4, RowsTaken
<1>6. /\ \A op \in Elements(ops) : \A s : ~Turns(op, s)
      /\ \A op \in Elements(ops) : \A k :
           Sets(op, k) => \/ k \in A \ {"bypass"} /\ op = KnobOp(k, body[k])
                          \/ k = "ja4" /\ Excluded(body)
      /\ \A k \in A \ {"bypass"} : \E op \in Elements(ops) : Sets(op, k)
  <2>1. ASSUME NEW op \in Elements(ops)
        PROVE  \/ \E k \in A \ {"bypass"} : op = KnobOp(k, body[k])
               \/ Excluded(body) /\ op = KnobOp("ja4", FALSE)
    BY <1>1
  <2>2. /\ \A k, v : /\ KnobOp(k, v).op = "set_config" /\ KnobOp(k, v).knob = k
        /\ KnobOp("ja4", FALSE).op = "set_config" /\ KnobOp("ja4", FALSE).knob = "ja4"
    BY DEF KnobOp
  <2>3. \A k \in A \ {"bypass"} : KnobOp(k, body[k]) \in Elements(ops)
    BY <1>1
  <2>4. ASSUME NEW op \in Elements(ops)
        PROVE  /\ op.op = "set_config"
               /\ \/ op.knob \in A \ {"bypass"} /\ op = KnobOp(op.knob, body[op.knob])
                  \/ Excluded(body) /\ op.knob = "ja4"
    <3>1. CASE \E k \in A \ {"bypass"} : op = KnobOp(k, body[k])
      <4>1. PICK k \in A \ {"bypass"} : op = KnobOp(k, body[k])
        BY <3>1
      <4>2. op.op = "set_config" /\ op.knob = k
        BY <2>2, <4>1
      <4> QED
        BY <4>1, <4>2
    <3>2. CASE Excluded(body) /\ op = KnobOp("ja4", FALSE)
      BY <2>2, <3>2
    <3> QED
      BY <2>1, <3>1, <3>2
  <2>5. \A op \in Elements(ops) : \A s : ~Turns(op, s)
    BY <2>4 DEF Turns
  <2>6. \A k \in A \ {"bypass"} : \E op \in Elements(ops) : Sets(op, k)
    BY <2>2, <2>3 DEF Sets
  <2> QED
    BY <2>4, <2>5, <2>6 DEF Sets
<1>7. \A s : s \in p0 <=> s \in p
  BY <1>5, <1>6
\* A knob accepted, and not excluded.
<1>8. ASSUME NEW k \in A, k \notin unsettled', k = "ja4" => ~Excluded(body),
             k \in Secrets => (k \in secrets' <=> k \in p)
      PROVE  Found(r, p, k)
  <2>1. k \in A \ {"bypass"} /\ k \notin LostKnobs(ops, n)
    BY <1>3, <1>8, <1>c
  <2>2. \A op \in Elements(ops) : Sets(op, k) => op.value = body[k]
    BY <1>6, <1>8 DEF KnobOp
  <2>3. HasRow(r, k, body[k])
    BY <1>5, <1>6, <2>1, <2>2
  <2>4. Loaded(r, p)[k] = Posted(body)[k]
    BY <1>8, <1>a, <1>b, <2>3, AcceptedIsFound DEF A
  <2>5. handler'[k] = Posted(body)[k]
    <3>1. CASE k # "ja4"
      BY <1>8, <1>c, <3>1, ConfiguredIs
    <3>2. CASE k = "ja4"
      <4>1. Posted(body)["ja4"] \in BOOLEAN
        BY <1>a, <1>c, PostedIs
      <4>2. handler'["ja4"] = (Posted(body)["ja4"] /\ ~Excluded(body))
        BY ConfiguredIs
      <4> QED
        BY <1>8, <3>2, <4>1, <4>2
    <3> QED
      BY <3>1, <3>2
  <2> QED
    BY <2>4, <2>5 DEF Found
\* A knob not posted.
<1>9. ASSUME NEW k \in Knobs \ A, k \notin unsettled', k = "ja4" => ~Excluded(body)
      PROVE  Stays(r0, p0, r, p, k)
  <2>1. k \notin LostKnobs(ops, n) /\ k \notin unsettled
    BY <1>3, <1>9
  <2>2. \A op \in Elements(ops) : ~Sets(op, k)
    BY <1>6, <1>9
  <2>3. SameRow(r0, r, k)
    BY <1>5, <2>1, <2>2
  <2>4. handler'[k] = handler[k]
    BY <1>9, ConfiguredIs DEF Reached, A
  <2> QED
    BY <1>7, <1>b, <2>1, <2>3, <2>4 DEF Stays
<1>10. ASSUME "ja4" \notin unsettled'
       PROVE  /\ ~Clash(handler')
              /\ Found(r, p, "ja4") \/ Stays(r0, p0, r, p, "ja4")
  <2>1. CASE Excluded(body)
    <3>1. /\ handler'["ja4"] = (Posted(body)["ja4"] /\ ~Excluded(body))
      BY ConfiguredIs
    <3>2. handler'["ja4"] = FALSE
      BY <2>1, <3>1
    <3>3. "ja4" \notin Pinned /\ "ja4" \notin LostKnobs(ops, n)
      BY <1>3, <1>10, <2>1
    <3>4. HasRow(r, "ja4", ops[Len(ops)].value) /\ ops[Len(ops)].value = FALSE
      BY <1>2, <1>5, <2>1, <3>3 DEF Sets, KnobOp
    <3>5. "ja4" \in DOMAIN r /\ r["ja4"] = FALSE
      BY <3>4 DEF HasRow
    <3>6. Loaded(r, p)["ja4"] = FALSE
      BY <1>c, <3>3, <3>5, LoadedRow
    <3> QED
      BY <3>2, <3>6 DEF Found, Clash
  <2>2. CASE ~Excluded(body) /\ "ja4" \in A
    <3>1. ~Clash(handler')
      BY <2>2, ConfiguredIs DEF A
    <3> QED
      BY <1>8, <1>10, <1>c, <2>2, <3>1
  <2>3. CASE ~Excluded(body) /\ "ja4" \notin A
    <3>1. Stays(r0, p0, r, p, "ja4")
      BY <1>9, <1>10, <1>c, <2>3
    <3>2. ~Clash(handler)
      BY <1>4, <3>1 DEF Stays, KnobsInv, Trusted
    <3>3. ~Clash(handler')
      BY <3>2, ConfiguredIs
    <3> QED
      BY <3>1, <3>3
  <2> QED
    BY <2>1, <2>2, <2>3
<1>11. \A k \in Knobs \ {"ja4"} :
         k \notin unsettled' /\ (k \in Secrets => (k \in secrets' <=> k \in p))
           => Found(r, p, k) \/ Stays(r0, p0, r, p, k)
  BY <1>8, <1>9
<1>12. QED
  BY <1>4, <1>10, <1>11, <1>a, KnobsFromParts

LEMMA SecretsKeepKnobs ==
  ASSUME SettingsTypes, SettingsTypes', KnobsInv,
         NEW present, NEW s \in Secrets, NEW v \in BOOLEAN,
         SetSecrets(present, SecretOp(s, v)),
         \A t \in Secrets \ {s} : t \in present <=> t \in secrets
  PROVE  KnobsInv'
<1>1. PICK op \in Ops : op = SecretOp(s, v) /\ op.op = "secret" /\ op.secret = s
  BY OpsMade
<1>2. PICK n : Queued(<<op>>, n)
  BY <1>1 DEF SetSecrets
<1>3. /\ <<op>> \in Seq(Ops) /\ Elements(<<op>>) = {op}
      /\ UNCHANGED <<rows, kept, table, env>> /\ secrets' = present
      /\ unsettled' = unsettled \cup {"abuse", s} \cup (IF Clash(handler') THEN {"ja4"} ELSE {})
  BY <1>1, <1>2, OneQueued DEF SetSecrets, stores
<1>4. PICK r0, p0, r, p : /\ r0 = Settled.rows /\ p0 = EnvSecrets \cup Settled.kept
                          /\ r = Settled'.rows /\ p = EnvSecrets \cup Settled'.kept
  OBVIOUS
<1>5. /\ \A k : k \notin LostKnobs(<<op>>, n) /\ (\A o \in Elements(<<op>>) : ~Sets(o, k))
                  => SameRow(r0, r, k)
      /\ \A t : (\A o \in Elements(<<op>>) : ~Turns(o, t)) => (t \in p0 <=> t \in p)
  BY <1>2, <1>3, <1>4, RowsTaken
<1>6. \A k : SameRow(r0, r, k)
  <2>1. \A i \in 1 .. Len(<<op>>) : <<op>>[i] = op
    OBVIOUS
  <2>2. LostKnobs(<<op>>, n) = {}
    <3>1. n \in 0 .. 1 /\ Len(<<op>>) = 1
      BY <1>2, OneQueued
    <3>2. \A j \in n + 1 .. Len(<<op>>) : <<op>>[j].op # "set_config"
      BY <1>1, <2>1, <3>1
    <3> QED
      BY <3>2 DEF LostKnobs
  <2> QED
    BY <1>1, <1>3, <1>5, <2>2 DEF Sets
<1>7. \A t : t # s => (t \in p0 <=> t \in p)
  BY <1>1, <1>3, <1>5 DEF Turns
<1>8. ASSUME NEW k \in Knobs, k \notin unsettled' PROVE Stays(r0, p0, r, p, k)
  <2>1. k \notin unsettled /\ k # s /\ k # "abuse"
    BY <1>3, <1>8
  <2>2. handler'[k] = handler[k]
    <3>1. CASE k \notin Secrets
      BY <3>1, RecoveredIs
    <3>2. CASE k \in Secrets
      <4>1. k = "turnstile" /\ ("turnstile" \in present => "turnstile" \in secrets)
        BY <2>1, <3>2, KnobsAre
      <4> QED
        BY <4>1, RecoveredIs
    <3> QED
      BY <3>1, <3>2
  <2>3. k \in Secrets => (k \in p0 <=> k \in p) /\ (k \in secrets <=> k \in secrets')
    BY <1>3, <1>7, <2>1
  <2> QED
    BY <1>6, <2>1, <2>2, <2>3 DEF Stays
<1>9. "ja4" \notin unsettled' => ~Clash(handler')
  BY <1>3
<1>10. "ja4" \in Knobs
  BY KnobsAre
<1>11. QED
  BY <1>3, <1>4, <1>8, <1>9, <1>10, KnobsFromParts

LEMMA ImportKeepsKnobs ==
  ASSUME SettingsTypes, SettingsTypes', KnobsInv, NEW archive \in Archives, Import(archive)
  PROVE  KnobsInv'
<1> DEFINE body == archive.knobs
           ops == RowOps(body, Accepted(body)) \o CidrOps(archive.cidrs)
           A == Accepted(body)
<1>a. handler \in [Knobs -> BOOLEAN] /\ body \in Partial(Knobs, BOOLEAN) /\ env' = env
  BY ArchivesAre DEF SettingsTypes, TypeOK, Import
<1>1. /\ ops \in Seq(Ops)
      /\ Elements(ops) = {KnobOp(k, body[k]) : k \in A \ {"bypass"}}
                           \cup Elements(CidrOps(archive.cidrs))
  BY <1>a, ArchivesAre, RequestOpsAre
<1>2. \A op \in Elements(CidrOps(archive.cidrs)) : op.op = "admin_ip"
  BY ArchivesAre, CidrOpsAre
<1>3. PICK n : /\ Queued(ops, n)
               /\ unsettled' = (unsettled \ A) \cup LostKnobs(ops, n) \cup archive.secrets
                      \cup (A \cap NotPersisted)
                      \cup (IF Clash(handler') THEN {"ja4"} ELSE {})
  BY DEF Import
<1>b. /\ UNCHANGED <<rows, table, env, secrets>> /\ kept' = kept \cup archive.secrets
      /\ handler' = Posted(body)
  BY DEF Import
<1>c. A \subseteq Knobs /\ "ja4" \in Knobs /\ NotPersisted = {"bypass"} /\ "ja4" \notin Secrets
  BY <1>a, PostedIs, KnobsAre DEF NotPersisted
<1> HIDE DEF ops, A
<1>4. PICK r0, p0, r, p : /\ r0 = Settled.rows /\ p0 = EnvSecrets \cup Settled.kept
                          /\ r = Settled'.rows /\ p = EnvSecrets \cup Settled'.kept
  OBVIOUS
<1>5. /\ \A k :
           /\ k \notin LostKnobs(ops, n) /\ (\A op \in Elements(ops) : ~Sets(op, k))
                => SameRow(r0, r, k)
           /\ \A v : (/\ k \notin LostKnobs(ops, n)
                      /\ \E op \in Elements(ops) : Sets(op, k)
                      /\ \A op \in Elements(ops) : Sets(op, k) => op.value = v)
                     => HasRow(r, k, v)
      /\ \A s : (s \in kept <=> s \in kept') /\ (\A op \in Elements(ops) : ~Turns(op, s))
                  => (s \in p0 <=> s \in p)
  BY <1>1, <1>3, <1>b, <1>4, RowsTaken
<1>6. /\ \A op \in Elements(ops) : \A s : ~Turns(op, s)
      /\ \A op \in Elements(ops) : \A k :
           Sets(op, k) => k \in A \ {"bypass"} /\ op = KnobOp(k, body[k])
      /\ \A k \in A \ {"bypass"} : \E op \in Elements(ops) : Sets(op, k)
  <2>1. ASSUME NEW op \in Elements(ops)
        PROVE  \/ \E k \in A \ {"bypass"} : op = KnobOp(k, body[k])
               \/ op.op = "admin_ip"
    BY <1>1, <1>2
  <2>2. \A k, v : /\ KnobOp(k, v).op = "set_config" /\ KnobOp(k, v).knob = k
    BY DEF KnobOp
  <2>3. \A k \in A \ {"bypass"} : KnobOp(k, body[k]) \in Elements(ops)
    BY <1>1
  <2>4. \A op \in Elements(ops) : op.op # "secret"
    BY <2>1, <2>2
  <2>5. \A op \in Elements(ops) : \A s : ~Turns(op, s)
    BY <2>4 DEF Turns
  <2>6. \A k \in A \ {"bypass"} : \E op \in Elements(ops) : Sets(op, k)
    BY <2>2, <2>3 DEF Sets
  <2> QED
    BY <2>1, <2>2, <2>5, <2>6 DEF Sets
<1>7. ASSUME NEW k \in A, k \notin unsettled',
             k \in Secrets => (k \in secrets' <=> k \in p)
      PROVE  Found(r, p, k)
  <2>1. k \in A \ {"bypass"} /\ k \notin LostKnobs(ops, n)
    BY <1>3, <1>7, <1>c
  <2>2. \A op \in Elements(ops) : Sets(op, k) => op.value = body[k]
    BY <1>6 DEF KnobOp
  <2>3. HasRow(r, k, body[k])
    BY <1>5, <1>6, <2>1, <2>2
  <2>4. Loaded(r, p)[k] = Posted(body)[k]
    BY <1>7, <1>a, <1>b, <2>3, AcceptedIsFound DEF A
  <2> QED
    BY <1>b, <2>4 DEF Found
<1>8. ASSUME NEW k \in Knobs \ A, k \notin unsettled' PROVE Stays(r0, p0, r, p, k)
  <2>1. k \notin LostKnobs(ops, n) /\ k \notin unsettled /\ k \notin archive.secrets
    BY <1>3, <1>8
  <2>2. SameRow(r0, r, k)
    BY <1>5, <1>6, <1>8, <2>1
  <2>3. handler'[k] = handler[k]
    BY <1>8, <1>a, <1>b, PostedIs DEF A
  <2>4. k \in p0 <=> k \in p
    BY <1>5, <1>6, <1>b, <2>1
  <2> QED
    BY <1>b, <2>1, <2>2, <2>3, <2>4 DEF Stays
<1>9. "ja4" \notin unsettled' => ~Clash(handler')
  BY <1>3
<1>10. \A k \in Knobs :
         k \notin unsettled' /\ (k \in Secrets => (k \in secrets' <=> k \in p))
           => Found(r, p, k) \/ Stays(r0, p0, r, p, k)
  BY <1>7, <1>8
<1>11. QED
  BY <1>4, <1>9, <1>10, <1>a, <1>c, KnobsFromParts

LEMMA KnobsKeep ==
  ASSUME SettingsTypes, SettingsTypes', KnobsInv, [Next]_vars PROVE KnobsInv'
<1>a. env' = env
  BY EnvStays
<1>1. CASE UNCHANGED <<handler, unsettled, secrets, stores, queue>>
  <2>1. Settled' = Settled
    BY <1>1 DEF Settled, Stored, stores
  <2> QED
    BY <1>1, <1>a, <2>1, KnobsUndisturbed DEF SameRow
<1>2. CASE Write
  <2>1. Settled' = Settled /\ UNCHANGED <<handler, unsettled, secrets>>
    BY <1>2, WriteSettles DEF Write, knobVars
  <2> QED
    BY <1>a, <2>1, KnobsUndisturbed DEF SameRow
<1>3. CASE Restart
  <2>1. PICK r0, p0, r, p : /\ r0 = Settled.rows /\ p0 = EnvSecrets \cup Settled.kept
                            /\ r = Settled'.rows /\ p = EnvSecrets \cup Settled'.kept
    OBVIOUS
  <2>2. r = rows /\ p = EnvSecrets \cup kept /\ r \in Partial(Knobs \ {"bypass"}, BOOLEAN)
    BY <1>3, <2>1, StartSettles DEF SettingsTypes, TypeOK
  <2>3. /\ handler' = Boot(r, p)
        /\ unsettled' = IF Clash(Loaded(r, p)) THEN {"ja4"} ELSE {}
    BY <1>3, <2>2 DEF Restart
  <2>4. \A k \in Knobs \ {"ja4"} : Found(r, p, k)
    BY <2>2, <2>3, BootIs DEF Found
  <2>5. ASSUME "ja4" \notin unsettled' PROVE ~Clash(handler') /\ Found(r, p, "ja4")
    <3>1. ~Clash(Loaded(r, p))
      BY <2>3, <2>5
    <3>2. Loaded(r, p)["ja4"] \in BOOLEAN
      BY <2>2, BootIs, KnobsAre
    <3>3. /\ Boot(r, p)["ja4"] = (Loaded(r, p)["ja4"] /\ ~Clash(Loaded(r, p)))
          /\ ~Clash(Boot(r, p))
      BY <2>2, BootIs
    <3>4. Boot(r, p)["ja4"] = Loaded(r, p)["ja4"]
      BY <3>1, <3>2, <3>3
    <3> QED
      BY <2>3, <3>3, <3>4 DEF Found
  <2> QED
    BY <1>a, <2>1, <2>4, <2>5, KnobsFromParts
<1>4. ASSUME NEW body \in Bodies, Config(body) PROVE KnobsInv'
  BY <1>4, ConfigKeepsKnobs
<1>5. ASSUME NEW s \in Secrets, PostSecret(s) PROVE KnobsInv'
  <2>1. \A t \in Secrets \ {s} : t \in secrets \cup {s} <=> t \in secrets
    OBVIOUS
  <2> QED
    BY <1>5, <2>1, SecretsKeepKnobs DEF PostSecret
<1>6. ASSUME NEW s \in Secrets, DeleteSecret(s) PROVE KnobsInv'
  <2>1. \A t \in Secrets \ {s} :
          t \in (secrets \ {s}) \cup (EnvSecrets \cap {s}) <=> t \in secrets
    OBVIOUS
  <2> QED
    BY <1>6, <2>1, SecretsKeepKnobs DEF DeleteSecret
<1>7. ASSUME NEW c \in Cidrs, AddCidr(c) \/ RemoveCidr(c) PROVE KnobsInv'
  <2>1. CidrOp(c, TRUE) \in Ops /\ CidrOp(c, FALSE) \in Ops
        /\ CidrOp(c, TRUE).op = "admin_ip" /\ CidrOp(c, FALSE).op = "admin_ip"
    BY OpsMade
  <2>2. PICK op \in Ops, n \in 0 .. 1 : Queued(<<op>>, n) /\ op.op = "admin_ip"
    BY <1>7, <2>1 DEF AddCidr, RemoveCidr
  <2>3. <<op>> \in Seq(Ops) /\ Elements(<<op>>) = {op} /\ n \in 0 .. 1
    BY <2>2, OneQueued
  <2>4. UNCHANGED <<rows, kept, table, env, handler, unsettled, secrets>>
    BY <1>7 DEF AddCidr, RemoveCidr, stores, knobVars
  <2>5. LostKnobs(<<op>>, n) = {}
    <3>1. \A j \in n + 1 .. Len(<<op>>) : <<op>>[j].op # "set_config"
      BY <2>2, <2>3
    <3> QED
      BY <3>1 DEF LostKnobs
  <2>6. /\ \A k : SameRow(Settled.rows, Settled'.rows, k)
        /\ \A s : s \in Settled.kept <=> s \in Settled'.kept
    <3>1. /\ \A o \in Elements(<<op>>) : \A k : ~Sets(o, k)
          /\ \A o \in Elements(<<op>>) : \A s : ~Turns(o, s)
      BY <2>2, <2>3 DEF Sets, Turns
    <3>2. UNCHANGED <<rows, table, env>>
      BY <2>4
    <3> QED
      BY <2>2, <2>3, <2>4, <2>5, <3>1, <3>2, RowsTaken
  <2> QED
    BY <1>a, <2>4, <2>6, KnobsUndisturbed
<1>8. ASSUME NEW archive \in Archives, Import(archive) PROVE KnobsInv'
  BY <1>8, ImportKeepsKnobs
<1>9. QED
  BY <1>1, <1>2, <1>3, <1>4, <1>5, <1>6, <1>7, <1>8 DEF Next, vars, knobVars, Rotate,
    SetVhost, DeleteVhost

-----------------------------------------------------------------------------

LEMMA InvStart == Init => SettingsIInv
<1> SUFFICES ASSUME Init PROVE SettingsIInv
  OBVIOUS
<1>1. SettingsTypes
  BY SettingsStart
<1>2. /\ Settled = [rows |-> rows, kept |-> kept, table |-> table]
      /\ Replayed(Seeded(Stored), queue).table = table \cup EnvSeed
  BY <1>1, ReplayOfNothing, StoredIs DEF Init, Settled, Stored
<1>3. KnobsInv
  <2> SUFFICES ASSUME NEW r, NEW p, r = Settled.rows, p = EnvSecrets \cup Settled.kept
               PROVE  Trusted(r, p)
    BY DEF KnobsInv
  <2>1. r = << >> /\ p = EnvSecrets /\ r = rows /\ p = secrets
    BY <1>2 DEF Init
  <2>2. /\ handler = Boot(r, p) /\ r \in Partial(Knobs \ {"bypass"}, BOOLEAN)
    BY <1>1, <2>1 DEF Init, SettingsTypes, TypeOK
  <2>3. \A k \in Knobs \ {"ja4"} : handler[k] = Loaded(r, p)[k]
    BY <2>2, BootIs
  <2>4. ~Clash(Loaded(r, p))
    <3>1. ~Stands(r, "ja4", p) /\ ~Stands(r, "turnstile", p)
      BY <2>1 DEF Stands
    <3>2. /\ Loaded(r, p)["ja4"] = Defaults(p)["ja4"]
          /\ Loaded(r, p)["turnstile"] = Defaults(p)["turnstile"]
      BY <3>1, LoadedIs, KnobsAre
    <3>3. ~(Defaults(p)["ja4"] /\ Defaults(p)["turnstile"])
      BY <2>1, DefaultsAre
    <3> QED
      BY <3>2, <3>3 DEF Clash
  <2>5. handler["ja4"] = Loaded(r, p)["ja4"] /\ ~Clash(handler)
    <3>1. Loaded(r, p)["ja4"] \in BOOLEAN
      BY <2>2, BootIs, KnobsAre
    <3>2. /\ Boot(r, p)["ja4"] = (Loaded(r, p)["ja4"] /\ ~Clash(Loaded(r, p)))
          /\ ~Clash(Boot(r, p))
      BY <2>2, BootIs
    <3> QED
      BY <2>2, <2>4, <3>1, <3>2
  <2> QED
    BY <2>3, <2>5 DEF Trusted
<1>4. AllowInv
  BY <1>2 DEF Init, AllowInv
<1>5. HostsKept
  BY DEF Init, HostsKept, BootHosts, Over
<1>6. CopiesAgree
  BY DEF Init, CopiesAgree
<1>7. QED
  BY <1>1, <1>3, <1>4, <1>5, <1>6 DEF SettingsIInv

LEMMA SettingsKeep ==
  ASSUME SettingsIInv, [Next]_vars PROVE SettingsIInv'
<1>1. SettingsTypes'
  BY SettingsTypesKeep DEF SettingsIInv
<1>2. QED
  BY <1>1, KnobsKeep, AllowKeeps, HostsKeep, CopiesKeep DEF SettingsIInv

LEMMA SettingsInvariance == Spec => []SettingsIInv
<1>1. Init => SettingsIInv
  BY InvStart
<1>2. SettingsIInv /\ [Next]_vars => SettingsIInv'
  BY SettingsKeep
<1>3. QED
  BY <1>1, <1>2, PTL DEF Spec

\* What is in memory, in the stores and in the queue is of the type each has.
THEOREM SettingsTypeCorrect == Spec => []TypeOK
<1>1. SettingsIInv => TypeOK
  BY DEF SettingsIInv, SettingsTypes
<1>2. QED
  BY <1>1, SettingsInvariance, PTL

\* Every module sees the handler's value of a knob, but for what an import set
\* in the handler's module alone.
THEOREM AllModulesAgree == Spec => []CopiesAgree
<1>1. SettingsIInv => CopiesAgree
  BY DEF SettingsIInv
<1>2. QED
  BY <1>1, SettingsInvariance, PTL

\* A restart brings back what operators set: the knobs and what they lean on
\* from the rows that stand or wait in the queue, the allowlist from its table,
\* the virtual hosts from their file.
THEOREM RestartsKeep == Spec => []RestartKeeps
<1>1. ASSUME SettingsIInv PROVE KnobsKept
  <2>1. PICK r, p : r = Settled.rows /\ p = EnvSecrets \cup Settled.kept
    OBVIOUS
  <2>2. Trusted(r, p)
    BY <1>1, <2>1 DEF SettingsIInv, KnobsInv
  <2>3. r \in Partial(Knobs \ {"bypass"}, BOOLEAN)
    BY <1>1, <2>1, SettledIs DEF SettingsIInv, StoreSpace
  <2>4. /\ Loaded(r, p) \in [Knobs -> BOOLEAN]
        /\ \A k \in Knobs \ {"ja4"} : Boot(r, p)[k] = Loaded(r, p)[k]
        /\ Boot(r, p)["ja4"] = (Loaded(r, p)["ja4"] /\ ~Clash(Loaded(r, p)))
    BY <2>3, BootIs
  <2>5. \A k \in Knobs : Safe(k) =>
          k \notin unsettled /\ (k \in Secrets => (k \in secrets <=> k \in p))
    BY <2>1 DEF Safe
  <2>6. \A k \in Knobs \ {"ja4"} : Safe(k) => handler[k] = Loaded(r, p)[k]
    BY <2>2, <2>5 DEF Trusted
  <2>7. ASSUME Safe("ja4"), Safe("turnstile") PROVE handler["ja4"] = Boot(r, p)["ja4"]
    <3>1. "ja4" \in Knobs /\ "turnstile" \in Knobs \ {"ja4"}
      BY KnobsAre
    <3>2. handler["ja4"] = Loaded(r, p)["ja4"] /\ ~Clash(handler)
      BY <2>2, <2>5, <2>7, <3>1 DEF Trusted
    <3>3. handler["turnstile"] = Loaded(r, p)["turnstile"]
      BY <2>6, <2>7, <3>1
    <3>4. ~Clash(Loaded(r, p)) /\ Loaded(r, p)["ja4"] \in BOOLEAN
      BY <2>4, <3>1, <3>2, <3>3 DEF Clash
    <3> QED
      BY <2>4, <3>2, <3>4
  <2>8. \A k \in Knobs : Safe(k) /\ (k = "ja4" => Safe("turnstile"))
                           => handler[k] = Boot(r, p)[k]
    BY <2>4, <2>6, <2>7
  <2> QED
    BY <2>1, <2>8 DEF KnobsKept
<1>2. SettingsIInv => RestartKeeps
  BY <1>1 DEF SettingsIInv, AllowInv, RestartKeeps
<1>3. QED
  BY <1>2, SettingsInvariance, PTL

\* No post and no restart turns on both of the knobs that exclude each other.
THEOREM PostsNeverClash == Spec => NoPostClashes
<1> DEFINE Barred == Clash(handler') => \/ Clash(handler)
                                        \/ secrets' # secrets /\ changes' # changes
                                        \/ \E a \in Archives : Import(a)
<1>1. SettingsIInv /\ [Next]_vars => [Barred]_vars
  <2> SUFFICES ASSUME SettingsIInv, [Next]_vars PROVE Barred
    OBVIOUS
  <2>a. SettingsTypes
    BY DEF SettingsIInv
  <2>1. CASE Untouched
    BY <2>1 DEF Untouched, Clash
  <2>2. CASE Restart
    <3>1. rows \in Partial(Knobs \ {"bypass"}, BOOLEAN)
      BY <2>a DEF SettingsTypes, TypeOK
    <3>2. ~Clash(handler')
      BY <2>2, <3>1, BootIs DEF Restart
    <3> QED
      BY <3>2
  <2>3. ASSUME NEW body \in Bodies, Config(body) PROVE Barred
    BY <2>3, <2>a, ConfiguredIs
  <2>4. ASSUME NEW present, NEW s, NEW v, SetSecrets(present, SecretOp(s, v)) PROVE Barred
    <3>1. changes' # changes /\ secrets' = present
      <4>1. changes \in Int /\ changes' = changes + 1
        BY <2>4, <2>a, SettingsConstants DEF SetSecrets, Change, SettingsTypes, TypeOK
      <4> QED
        BY <2>4, <4>1 DEF SetSecrets
    <3>2. CASE secrets' = secrets
      <4>1. handler'["ja4"] = handler["ja4"] /\ handler'["turnstile"] = handler["turnstile"]
        BY <2>4, <2>a, <3>1, <3>2, RecoveredIs, KnobsAre
      <4> QED
        BY <4>1 DEF Clash
    <3> QED
      BY <3>1, <3>2
  <2> QED
    BY <2>1, <2>2, <2>3, <2>4, KnobSteps
<1>2. NoPostClashes <=> [][Barred]_vars
  BY DEF NoPostClashes
<1> HIDE DEF Barred
<1>3. Spec => [][Barred]_vars
  BY <1>1, SettingsInvariance, PTL DEF Spec
<1>4. QED
  BY <1>2, <1>3

\* What a replay leaves in the table was there, or one of its operations
\* listed it.
LEMMA ReplayListsOnly ==
  ASSUME NEW a \in StoreSpace, NEW p \in Seq(Ops), \A n \in 1 .. Len(p) : ~IsAdd(p[n])
  PROVE  Replayed(a, p).table \subseteq a.table
<1> DEFINE within == {b \in StoreSpace : b.table \subseteq a.table}
           good == [n \in 0 .. Len(p) |-> within]
<1>1. \A n \in 0 .. Len(p) : good[n] = within
  OBVIOUS
<1>2. Len(p) \in Nat /\ \A n \in 1 .. Len(p) : p[n] \in Ops /\ n - 1 \in 0 .. Len(p)
                                              /\ n \in 0 .. Len(p)
  OBVIOUS
<1> HIDE DEF good
<1>3. \A n \in 1 .. Len(p) : \A b \in within : Applied(b, p[n]) \in within
  <2> SUFFICES ASSUME NEW n \in 1 .. Len(p), NEW b \in within
               PROVE  Applied(b, p[n]) \in within
    OBVIOUS
  <2>1. /\ Applied(b, p[n]) \in StoreSpace
        /\ \A c : c \in Applied(b, p[n]).table <=>
                    IF Lists(p[n], c) THEN p[n].listed ELSE c \in b.table
    BY <1>2, AppliedIs
  <2>2. \A c : Lists(p[n], c) => ~p[n].listed
    BY DEF Lists, IsAdd
  <2> QED
    BY <2>1, <2>2
<1>4. a \in within
  OBVIOUS
<1> HIDE DEF within
<1>5. Replayed(a, p) \in within
  BY <1>1, <1>2, <1>3, <1>4, ReplayLeadsTo
<1>6. QED
  BY <1>5 DEF within

\* An allowlist with entries lets everyone in only once its last entry is
\* removed, a stop takes one whose row was queued, or a start cannot read it.
THEOREM GateHolds == Spec => GateStaysClosed
<1> DEFINE Closed == entries # {} /\ entries' = {} =>
             \/ \E c \in Cidrs : entries = {c} /\ queue' = Append(queue, CidrOp(c, FALSE))
             \/ queue' = << >> /\ \E i \in DOMAIN queue : IsAdd(queue[i])
             \/ unread'
<1>1. SettingsIInv /\ [Next]_vars => [Closed]_vars
  <2> SUFFICES ASSUME SettingsIInv, [Next]_vars, entries # {}, entries' = {}
               PROVE  Closed
    OBVIOUS
  <2>a. SettingsTypes /\ queue \in Seq(Ops)
    BY DEF SettingsIInv, SettingsTypes
  <2>1. CASE entries \subseteq entries'
    BY <2>1
  <2>2. CASE Restart
    <3>1. CASE \E i \in DOMAIN queue : IsAdd(queue[i])
      BY <2>2, <3>1 DEF Restart
    <3>2. CASE ~\E i \in DOMAIN queue : IsAdd(queue[i])
      <4>1. Replayed(Seeded(Stored), queue).table \subseteq table \cup EnvSeed
        <5>1. DOMAIN queue = 1 .. Len(queue)
          BY <2>a
        <5>2. \A i \in 1 .. Len(queue) : ~IsAdd(queue[i])
          BY <3>2, <5>1
        <5> QED
          BY <2>a, <5>2, StoredIs, ReplayListsOnly
      <4>2. table \cup EnvSeed # {}
        BY <4>1 DEF SettingsIInv, AllowInv
      <4>3. unread'
        BY <2>2, <4>2 DEF Restart, LoadAdminIps
      <4> QED
        BY <4>3
    <3> QED
      BY <3>1, <3>2
  <2>3. ASSUME NEW c \in Cidrs, RemoveCidr(c) PROVE Closed
    <3>1. PICK op \in Ops : op = CidrOp(c, FALSE)
      BY OpsMade
    <3>2. PICK n : /\ Queued(<<op>>, n)
                   /\ entries' = IF n = 1 THEN entries \ {c} ELSE entries
      BY <2>3, <3>1 DEF RemoveCidr
    <3>3. entries = {c} /\ n = 1
      BY <3>2
    <3>4. queue' = queue \o <<op>>
      BY <2>a, <3>2, <3>3, OneQueued DEF Queued
    <3>5. queue \o <<op>> = Append(queue, op)
      BY <2>a
    <3> QED
      BY <3>1, <3>3, <3>4, <3>5
  <2>4. ASSUME NEW archive \in Archives, Import(archive) PROVE entries \subseteq entries'
    BY <2>4 DEF Import
  <2>5. ASSUME NEW c \in Cidrs, AddCidr(c) PROVE entries \subseteq entries'
    BY <2>5 DEF AddCidr, Listed
  <2> QED
    BY <2>1, <2>2, <2>3, <2>4, <2>5 DEF Next, vars, Write, Rotate, Config, PostSecret,
      DeleteSecret, SetSecrets, SetVhost, DeleteVhost
<1>2. GateStaysClosed <=> [][Closed]_vars
  BY DEF GateStaysClosed
<1> HIDE DEF Closed
<1>3. Spec => [][Closed]_vars
  BY <1>1, SettingsInvariance, PTL DEF Spec
<1>4. QED
  BY <1>2, <1>3
=============================================================================
