---------------------------- MODULE RiskScoring ----------------------------
(***************************************************************************)
(* The in-memory half of the ban engine: the identity table `ip_state`     *)
(* (state.py), the risk score and the ban decision (scoring.py), the       *)
(* inverted index the NAT test reads (core/metrics.py), the operator's     *)
(* ban / unban handlers (core/proxy_handler.py) and the two housekeeping   *)
(* loops that forget identities (state.py, rate_limit.py).                 *)
(*                                                                         *)
(* Every action is one critical section of `state_lock`: the event loop    *)
(* interleaves requests only between such sections.  One tick of `now` is  *)
(* one half-life of the risk score (3600 s).                               *)
(*                                                                         *)
(* A scope is either Global or a vhost.  risk[Global] and until[Global]    *)
(* stand for risk_score and banned_until, risk[v] and until[v] for         *)
(* risk_by_vhost[v] and banned_until_by_vhost[v].                          *)
(***************************************************************************)
EXTENDS Integers, FiniteSets

CONSTANTS
  Ids,                      \* track keys
  IPs,                      \* raw client addresses
  NoIp,                     \* last_ip = ""
  Vhosts,                   \* hostnames under BAN_SCOPE = "vhost"
  Global,                   \* BAN_SCOPE = "global", or no vhost in context
  Weights,                  \* RISK_WEIGHTS of the detectors
  Severities,               \* risk, hostile, really
  BanSecs,                  \* duration of a ban of each severity
  ManualSecs,               \* durations an operator may ask for
  RISK_BAN_THRESHOLD,
  RISK_BAN_THRESHOLD_NAT,
  NAT_IDENTITIES_THRESHOLD,
  AllowedForNat,            \* allowed_count a NAT neighbour must reach
  MAX_IDENTITIES,
  EvictTtl,                 \* ttl_secs of _ip_state_evict_loop
  PRUNE_IDLE_SECS,
  NatWindow,                \* a NAT neighbour was seen this recently
  MaxRisk,                  \* bound on a score
  MaxTime                   \* bound on the clock

Scopes == Vhosts \cup {Global}

ASSUME ScopesAssumption == Global \notin Vhosts /\ NoIp \notin IPs

ASSUME BoundsAssumption ==
  /\ MaxRisk \in Nat /\ MaxTime \in Nat
  /\ Weights \subseteq Nat \ {0}
  /\ AllowedForNat \in Nat
  /\ EvictTtl \in Nat /\ PRUNE_IDLE_SECS \in Nat /\ NatWindow \in Nat

ASSUME DurationsAssumption ==
  /\ BanSecs \in [Severities -> Nat \ {0}]
  /\ ManualSecs \subseteq Nat \ {0}

ASSUME ThresholdsAssumption ==
  /\ RISK_BAN_THRESHOLD \in Nat \ {0}
  /\ RISK_BAN_THRESHOLD_NAT \in Nat
  /\ RISK_BAN_THRESHOLD_NAT >= RISK_BAN_THRESHOLD
  /\ NAT_IDENTITIES_THRESHOLD \in Nat

ASSUME TableAssumption == IsFiniteSet(Ids) /\ MAX_IDENTITIES \in Nat \ {0}

VARIABLES
  now,          \* time.monotonic(), in half-lives
  live,         \* the keys of ip_state
  st,           \* st[k] is the IpState of k, Blank when k is not live
  index,        \* ip_to_identities
  earned        \* history: weight earned per scope since k was last cleared,
                \* counted up to RISK_BAN_THRESHOLD

vars == <<now, live, st, index, earned>>

IpState ==
  [risk     : [Scopes -> 0 .. MaxRisk],
   until    : [Scopes -> Nat],
   lastRisk : Nat,
   lastSeen : Nat,
   lastIp   : IPs \cup {NoIp},
   static   : BOOLEAN,              \* static_loads >= 1
   allowed  : 0 .. AllowedForNat]   \* allowed_count, counted up to the test

Blank ==
  [risk |-> [s \in Scopes |-> 0], until |-> [s \in Scopes |-> 0],
   lastRisk |-> 0, lastSeen |-> 0, lastIp |-> NoIp,
   static |-> FALSE, allowed |-> 0]

NothingEarned == [s \in Scopes |-> 0]

-----------------------------------------------------------------------------
(***************************************************************************)
(* The table                                                               *)
(***************************************************************************)

\* ip_state[k]: a missing key is created with its clocks stamped now.
Entry(k) == IF k \in live
            THEN st[k]
            ELSE [Blank EXCEPT !.lastSeen = now, !.lastRisk = now]

\* Fault: nothing is dropped at capacity.
RoomForever(k) == {live \cup {k}}

\* The key sets an access to k may leave behind.  A table at capacity drops
\* one other key; which one depends on the LRU order, kept abstract here.
RoomFor(k) ==
  IF k \in live \/ Cardinality(live) < MAX_IDENTITIES
  THEN {live \cup {k}}
  ELSE {(live \ {victim}) \cup {k} : victim \in live}

\* The table holds the keys `keep`, and k has the entry e.
Install(keep, k, e) ==
  /\ live' = keep
  /\ st' = [j \in Ids |-> IF j = k THEN e
                          ELSE IF j \in keep THEN st[j] ELSE Blank]

\* Forget what the identities outside `keep` have earned.
EarnedWithin(keep, new) ==
  earned' = [j \in Ids |-> IF j \in keep THEN new[j] ELSE NothingEarned]

-----------------------------------------------------------------------------
(***************************************************************************)
(* Scoring                                                                 *)
(***************************************************************************)

\* _decay_risk: a score may have lost anything since the last update, and has
\* lost at least half of its value once a half-life has passed.
Decays(e) ==
  {d \in [Scopes -> 0 .. MaxRisk] :
     \A s \in Scopes :
       d[s] <= IF now = e.lastRisk THEN e.risk[s] ELSE e.risk[s] \div 2}

\* An established, recently seen neighbour at this address.
Neighbour(j, ip) ==
  /\ st[j].lastIp = ip
  /\ now - st[j].lastSeen < NatWindow
  /\ st[j].static
  /\ st[j].allowed >= AllowedForNat

\* The neighbours found through the inverted index among the keys `keep`.
IdentitiesAt(ip, keep) == {j \in index[ip] : j \in keep /\ Neighbour(j, ip)}

\* Fault: one neighbour too many is required.
ThresholdOffByOne(ip, keep) ==
  IF Cardinality(IdentitiesAt(ip, keep)) > NAT_IDENTITIES_THRESHOLD
  THEN RISK_BAN_THRESHOLD_NAT
  ELSE RISK_BAN_THRESHOLD

\* How much risk it takes to ban somebody at ip.
ThresholdAt(ip, keep) ==
  IF Cardinality(IdentitiesAt(ip, keep)) >= NAT_IDENTITIES_THRESHOLD
  THEN RISK_BAN_THRESHOLD_NAT
  ELSE RISK_BAN_THRESHOLD

AddEarned(n, w) ==
  IF n + w >= RISK_BAN_THRESHOLD THEN RISK_BAN_THRESHOLD ELSE n + w

\* Fault: a running ban is decided again.
AlwaysOpen(e, sc) == TRUE

\* A ban is decided only when none of this scope is running.
MayBan(e, sc) == e.until[sc] <= now

\* update_risk_and_maybe_ban: add the weight of a detector to k, and ban k in
\* the scope of the request when that scope's score reaches the threshold.
UpdateRisk(k, w, sev, ip, sc) ==
  \E keep \in RoomFor(k), d \in Decays(Entry(k)) :
    LET scored == {Global, sc}
        score  == [s \in Scopes |-> IF s \in scored THEN d[s] + w ELSE d[s]]
        hit    == score[sc] >= ThresholdAt(ip, keep) /\ MayBan(Entry(k), sc)
    IN /\ score \in [Scopes -> 0 .. MaxRisk]
       /\ Install(keep, k,
            [Entry(k) EXCEPT !.risk = score, !.lastRisk = now,
                             !.until[sc] = IF hit THEN now + BanSecs[sev] ELSE @])
       /\ EarnedWithin(keep,
            [earned EXCEPT ![k] = [s \in Scopes |->
               IF s \in scored THEN AddEarned(@[s], w) ELSE @[s]]])
       /\ UNCHANGED <<now, index>>

-----------------------------------------------------------------------------
(***************************************************************************)
(* Requests                                                                *)
(***************************************************************************)

\* The arrival of a request of k: the table entry is created and a static
\* fetch is noted.
Arrive(k, isStatic) ==
  \E keep \in RoomFor(k) :
    LET e == Entry(k)
    IN /\ Install(keep, k, [e EXCEPT !.static = @ \/ isStatic])
       /\ EarnedWithin(keep, earned)
       /\ UNCHANGED <<now, index>>

\* Fault: the old address is cleaned up after the new one has been noted.
ReindexedAddFirst(k, from, to) ==
  [p \in IPs |-> IF p = from THEN index[p] \ {k}
                 ELSE IF p = to THEN index[p] \cup {k}
                 ELSE index[p]]

\* k moves from one bucket of the index to another; when the address has not
\* changed nothing is discarded.
Reindexed(k, from, to) ==
  [p \in IPs |-> IF p = to THEN index[p] \cup {k}
                 ELSE IF p = from THEN index[p] \ {k}
                 ELSE index[p]]

\* record: the decision on a request of k from address ip is booked.
Record(k, ip, isAllowed) ==
  \E keep \in RoomFor(k) :
    LET e    == Entry(k)
        hot  == e.risk[Global] > 0
    IN /\ \E d \in (IF hot THEN Decays(e) ELSE {e.risk}) :
            Install(keep, k,
              [e EXCEPT !.risk = d,
                        !.lastRisk = IF hot THEN now ELSE @,
                        !.lastSeen = now,
                        !.lastIp = ip,
                        !.allowed = IF isAllowed /\ @ < AllowedForNat
                                    THEN @ + 1 ELSE @])
       /\ index' = Reindexed(k, e.lastIp, ip)
       /\ EarnedWithin(keep, earned)
       /\ UNCHANGED now

-----------------------------------------------------------------------------
(***************************************************************************)
(* The operator                                                            *)
(***************************************************************************)

\* What an operator's request may name: an identity, or the identities last
\* seen at an address.
Targets == {{k} : k \in live}
           \cup {{k \in live : st[k].lastIp = ip} : ip \in IPs}

\* Fault: the maps of the vhosts are left alone.
ClearedGloballyOnly(e) ==
  [e EXCEPT !.risk[Global] = 0, !.until[Global] = 0, !.lastRisk = now]

\* Fault: a ban is ended by dating it back.
ClearedByBackdating(e) ==
  [e EXCEPT !.risk     = [s \in Scopes |-> 0],
            !.until    = [s \in Scopes |-> now - 1],
            !.lastRisk = now]

\* The state an Allow leaves: score, bans and clock reset.  A global ban that
\* has already run out is left as it is.
Cleared(e) ==
  [e EXCEPT !.risk     = [s \in Scopes |-> 0],
            !.until    = [s \in Scopes |->
                            IF s = Global /\ @[s] <= now THEN @[s] ELSE 0],
            !.lastRisk = now]

ClearAll(chosen) ==
  /\ st' = [j \in Ids |-> IF j \in chosen THEN Cleared(st[j]) ELSE st[j]]
  /\ earned' = [j \in Ids |-> IF j \in chosen THEN NothingEarned ELSE earned[j]]
  /\ UNCHANGED <<now, live, index>>

\* unban_endpoint, its section under state_lock.
Unban(chosen) == ClearAll(chosen)

\* bulk_unban_endpoint: the globally banned identities that match a filter.
BulkUnban(matching) ==
  ClearAll({k \in live \cap matching : st[k].until[Global] > now})

\* ban_endpoint: the operator's duration replaces whatever ban was running.
ManualBan(chosen, secs) ==
  /\ st' = [j \in Ids |-> IF j \in chosen
                          THEN [st[j] EXCEPT !.until[Global] = now + secs]
                          ELSE st[j]]
  /\ UNCHANGED <<now, live, index, earned>>

-----------------------------------------------------------------------------
(***************************************************************************)
(* Housekeeping                                                            *)
(***************************************************************************)

Forget(gone) ==
  /\ live' = live \ gone
  /\ st' = [j \in Ids |-> IF j \in gone THEN Blank ELSE st[j]]
  /\ earned' = [j \in Ids |-> IF j \in gone THEN NothingEarned ELSE earned[j]]
  /\ UNCHANGED now

\* evict_expired: idle keys go, whatever their ban; the index keeps them.
EvictExpired ==
  /\ Forget({k \in live : st[k].lastSeen < now - EvictTtl})
  /\ UNCHANGED index

\* Idle and without a running global ban.
IdleKeys == {k \in live : /\ st[k].until[Global] <= now
                          /\ now - st[k].lastSeen > PRUNE_IDLE_SECS}

\* _prune_state_loop, steps 1 and 2b: idle keys without a running global ban
\* leave the table and the index.  Step 2 (the cap) never finds an overflow:
\* RoomFor keeps the table within MAX_IDENTITIES.
PruneState ==
  /\ Forget(IdleKeys)
  /\ index' = [p \in IPs |-> index[p] \ {k \in IdleKeys : st[k].lastIp = p}]

Tick ==
  /\ now < MaxTime
  /\ now' = now + 1
  /\ UNCHANGED <<live, st, index, earned>>

-----------------------------------------------------------------------------
Init ==
  /\ now = 0
  /\ live = {}
  /\ st = [k \in Ids |-> Blank]
  /\ index = [p \in IPs |-> {}]
  /\ earned = [k \in Ids |-> NothingEarned]

Detect ==
  \E k \in Ids, w \in Weights, sev \in Severities, ip \in IPs, sc \in Scopes :
    UpdateRisk(k, w, sev, ip, sc)

Traffic ==
  \E k \in Ids :
    \/ \E isStatic \in BOOLEAN : Arrive(k, isStatic)
    \/ \E ip \in IPs, isAllowed \in BOOLEAN : Record(k, ip, isAllowed)

Operator ==
  \/ \E chosen \in Targets \cup {live} : Unban(chosen)
  \/ \E chosen \in Targets, secs \in ManualSecs : ManualBan(chosen, secs)
  \/ \E matching \in SUBSET Ids : BulkUnban(matching)

Housekeeping == EvictExpired \/ PruneState

Next == Detect \/ Traffic \/ Operator \/ Housekeeping \/ Tick

Spec == Init /\ [][Next]_vars

-----------------------------------------------------------------------------
(***************************************************************************)
(* Properties                                                              *)
(***************************************************************************)

TypeOK ==
  /\ now \in 0 .. MaxTime
  /\ live \subseteq Ids /\ Cardinality(live) <= MAX_IDENTITIES
  /\ st \in [Ids -> IpState]
  /\ index \in [IPs -> SUBSET Ids]
  /\ earned \in [Ids -> [Scopes -> 0 .. RISK_BAN_THRESHOLD]]

\* The inverted index never misses an identity: whoever was last seen at an
\* address is found there (ip_to_identities, "maintained at every last_ip
\* write site"), through LRU drops, evictions, prunes and changes of address.
IndexComplete ==
  \A k \in live, ip \in IPs : st[k].lastIp = ip => k \in index[ip]

\* True isolation of vhost-scoped bans: an identity is banned on a vhost only
\* after it has earned the whole threshold on that vhost since it was last
\* cleared; risk carried over from elsewhere, or left behind by an Allow,
\* never bans it there.
VhostIsolation ==
  \A k \in live, v \in Vhosts :
    st[k].until[v] > now => earned[k][v] = RISK_BAN_THRESHOLD

\* NAT tolerance: a detector's ban at an address that really hosts enough
\* established neighbours, counted over the whole table, needs the NAT
\* threshold; the count through the index misses none of them.
NatTolerance ==
  [][\A k \in live', ip \in IPs, sc \in Scopes :
       LET crowd == {j \in live' : Neighbour(j, ip)}
       IN /\ st'[k].until[sc] > Entry(k).until[sc]
          /\ st'[k].risk[sc] < RISK_BAN_THRESHOLD_NAT
          /\ Cardinality(crowd) >= NAT_IDENTITIES_THRESHOLD
          => ~ \E w \in Weights, sev \in Severities : UpdateRisk(k, w, sev, ip, sc)]_vars

\* A detector or a recorded request never shortens a ban that is running:
\* a mild signal after a severe one leaves the longer ban alone.
TrafficNeverShortensBans ==
  [][(\E k \in live \cap live', s \in Scopes :
        st[k].until[s] > now /\ st'[k].until[s] < st[k].until[s])
     => ~ (Detect \/ Traffic)]_vars

\* config.py on HOSTILE_BAN_SECS: an identity that has crossed the threshold
\* is kept "silent-decoyed for HOSTILE_BAN_SECS (default 24 h)".  Neither
\* housekeeping loop forgets an identity whose global ban is running.
BansAreRemembered ==
  [][(\E k \in live \ live' : st[k].until[Global] > now) => ~ Housekeeping]_vars

=============================================================================
