----------------------------- MODULE SharedBans -----------------------------
(***************************************************************************)
(* Several gateways that share their bans through Redis                    *)
(* (integrations/redis.py, is_banned and update_risk_and_maybe_ban in      *)
(* scoring.py).  A ban is applied locally, then published with a SET; a    *)
(* SET that fails is kept in a bounded retry queue that a flush loop       *)
(* drains, in the processes that started one.  A request that is not       *)
(* banned locally asks Redis, and imports the ban it finds there.          *)
(*                                                                         *)
(* Every await is a point where the other handlers of the same gateway     *)
(* run, so a SET, a GET and a retry each start in one action and end in    *)
(* another.  Redis answers while it is up; a call times out while it is    *)
(* not, and may have taken effect all the same.                            *)
(***************************************************************************)
EXTENDS Integers, Sequences, FiniteSets

CONSTANTS
  Gateways,
  Ids,               \* track keys
  Vhosts,            \* vhosts whose BAN_SCOPE is "vhost"
  GlobalScopes,      \* {Global}, or {} when every vhost has its own scope
  Global,
  BanSecs,           \* the durations of a ban
  PendingMax,        \* maxlen of _pending_redis_bans
  FlightMax,         \* bound: first SETs and GETs in flight, all gateways together
  MaxTime            \* bound on the clock

ASSUME SharedAssumption ==
  /\ Global \notin Vhosts /\ GlobalScopes \subseteq {Global}
  /\ BanSecs \subseteq Nat \ {0}
  /\ PendingMax \in Nat \ {0} /\ FlightMax \in Nat
  /\ MaxTime \in Nat

Scopes == Vhosts \cup {Global}

VARIABLES
  now,        \* the clock, the same for all gateways
  local,      \* local[g][k][s]: banned_until(_by_vhost) of k at gateway g
  redis,      \* redis[k]: the epoch stored for k, 0 once its TTL is over
  redisUp,
  writing,    \* writing[g]: the SETs of _shared_ban_set in flight
  pending,    \* pending[g]: _pending_redis_bans
  started,    \* started[g]: this boot has started _redis_ban_flush_loop
  flushing,   \* flushing[g]: the SET of the flush loop in flight, if any
  overrun,    \* history: overrun[g], the limit dropped an entry meanwhile
  asking,     \* asking[g]: the GET of is_banned in flight, if any
  longest,    \* history: the latest end of any ban given to k
  everGlobal  \* history: the identities that were given a global ban

flushLoop == <<started, flushing, overrun>>
sharedVars == <<now, local, redis, redisUp, writing, pending, flushLoop, asking,
                longest, everGlobal>>

Entry == [key : Ids, until : Nat]
Unanswered == [answered |-> FALSE, until |-> 0]
Answers == [answered : BOOLEAN, until : Nat]

Later(a, b) == IF a < b THEN b ELSE a

RoomToCall ==
  Cardinality(UNION {{<<g, e>> : e \in writing[g]} \cup {<<g, k>> : k \in DOMAIN asking[g]}
                     : g \in Gateways}) < FlightMax

-----------------------------------------------------------------------------
(***************************************************************************)
(* Bans                                                                    *)
(***************************************************************************)

\* The ban is in memory, and _shared_ban_set sends it whatever its scope is.
Give(g, k, s, until) ==
  /\ RoomToCall
  /\ local' = [local EXCEPT ![g][k][s] = until]
  /\ writing' = [writing EXCEPT ![g] = @ \cup {[key |-> k, until |-> until]}]
  /\ longest' = [longest EXCEPT ![k] = Later(@, until)]
  /\ everGlobal' = IF s = Global THEN everGlobal \cup {k} ELSE everGlobal
  /\ UNCHANGED <<now, redis, redisUp, pending, flushLoop, asking>>

\* update_risk_and_maybe_ban: no ban of this scope is running.
RiskBan(g, k, s, secs) ==
  /\ local[g][k][s] <= now
  /\ Give(g, k, s, now + secs)

\* ban_endpoint: the operator's duration replaces the running ban.
ManualBan(g, k, secs) == Give(g, k, Global, now + secs)

\* unban_endpoint: the memory of this gateway only.
Unban(g, k) ==
  /\ local' = [local EXCEPT ![g][k] = [s \in Scopes |-> 0]]
  /\ UNCHANGED <<now, redis, redisUp, writing, pending, flushLoop, asking,
                 longest, everGlobal>>

-----------------------------------------------------------------------------
(***************************************************************************)
(* Publishing                                                              *)
(***************************************************************************)

\* Fault: the epoch is recomputed from the TTL.
StoredFromTtl(e) == [redis EXCEPT ![e.key] = now + Later(1, e.until - now)]

\* SET key value EX max(1, until - now): the last write wins, even one whose
\* term is over.
Stored(e) == [redis EXCEPT ![e.key] = IF e.until > now THEN e.until ELSE 0]

Full(q) == Len(q) = PendingMax

\* Fault: what failed last is retried first.
AppendInFront(q, e) == IF Full(q) THEN <<e>> \o Tail(q) ELSE <<e>> \o q

\* append on a deque with maxlen: the oldest entry makes room.
AppendBounded(q, e) ==
  LET longer == Append(q, e)
  IN IF Len(longer) > PendingMax THEN Tail(longer) ELSE longer

WriteDone(g, e) ==
  /\ e \in writing[g] /\ redisUp
  /\ redis' = Stored(e)
  /\ writing' = [writing EXCEPT ![g] = @ \ {e}]
  /\ UNCHANGED <<now, local, redisUp, pending, flushLoop, asking, longest, everGlobal>>

WriteFails(g, e) ==
  /\ e \in writing[g] /\ ~redisUp
  /\ redis' \in {redis, Stored(e)}
  /\ writing' = [writing EXCEPT ![g] = @ \ {e}]
  /\ pending' = [pending EXCEPT ![g] = AppendBounded(@, e)]
  /\ overrun' = [overrun EXCEPT ![g] = @ \/ (flushing[g] # <<>> /\ Full(pending[g]))]
  /\ UNCHANGED <<now, local, redisUp, started, flushing, asking, longest, everGlobal>>

\* Fault: the entry that has been sent stays.
KeepSent(q) == q

\* popleft.
DropSent(q) == Tail(q)

\* The flush loop, where it runs, reads the oldest entry and sends it ...
FlushStart(g) ==
  /\ started[g]
  /\ flushing[g] = <<>> /\ pending[g] # <<>>
  /\ flushing' = [flushing EXCEPT ![g] = <<Head(pending[g])>>]
  /\ UNCHANGED <<started, overrun, now, local, redis, redisUp, writing, pending, asking, longest, everGlobal>>

\* ... and once it is stored, takes the entry that is now the oldest away.
FlushDone(g) ==
  /\ flushing[g] # <<>> /\ redisUp
  /\ redis' = Stored(flushing[g][1])
  /\ pending' = [pending EXCEPT ![g] = DropSent(@)]
  /\ flushing' = [flushing EXCEPT ![g] = <<>>]
  /\ overrun' = [overrun EXCEPT ![g] = FALSE]
  /\ UNCHANGED <<started, now, local, redisUp, writing, asking, longest, everGlobal>>

FlushFails(g) ==
  /\ flushing[g] # <<>> /\ ~redisUp
  /\ redis' \in {redis, Stored(flushing[g][1])}
  /\ flushing' = [flushing EXCEPT ![g] = <<>>]
  /\ overrun' = [overrun EXCEPT ![g] = FALSE]
  /\ UNCHANGED <<started, now, local, redisUp, writing, pending, asking, longest, everGlobal>>

-----------------------------------------------------------------------------
(***************************************************************************)
(* is_banned                                                               *)
(***************************************************************************)

LocallyBanned(g, k, s) == local[g][k][Global] > now \/ local[g][k][s] > now

\* Memory says no: the request waits for Redis, with state_lock released.
Ask(g, k, s) ==
  /\ ~LocallyBanned(g, k, s)
  /\ k \notin DOMAIN asking[g] /\ RoomToCall
  /\ asking' = [asking EXCEPT ![g] = [j \in DOMAIN @ \cup {k} |->
                                        IF j = k THEN Unanswered ELSE @[j]]]
  /\ UNCHANGED <<now, local, redis, redisUp, writing, pending, flushLoop, longest, everGlobal>>

\* Redis answers, or the call times out and counts as no ban.
Answer(g, k) ==
  /\ k \in DOMAIN asking[g] /\ ~asking[g][k].answered
  /\ asking' = [asking EXCEPT ![g][k] =
                  [answered |-> TRUE, until |-> IF redisUp THEN redis[k] ELSE 0]]
  /\ UNCHANGED <<now, local, redis, redisUp, writing, pending, flushLoop, longest, everGlobal>>

\* Fault: the answer of Redis replaces the local ban.
Replaced(old, until) == now + (until - now)

\* A ban found in Redis may only extend the local one.
Merged(old, until) == Later(old, now + (until - now))

\* The request goes on; a ban that still runs becomes a global one here.
Import(g, k) ==
  /\ k \in DOMAIN asking[g] /\ asking[g][k].answered
  /\ LET until == asking[g][k].until
     IN local' = IF until > now
                 THEN [local EXCEPT ![g][k][Global] = Merged(@, until)]
                 ELSE local
  /\ asking' = [asking EXCEPT ![g] = [j \in DOMAIN @ \ {k} |-> @[j]]]
  /\ UNCHANGED <<now, redis, redisUp, writing, pending, flushLoop, longest, everGlobal>>

-----------------------------------------------------------------------------
(***************************************************************************)
(* Redis and time                                                          *)
(***************************************************************************)

Outage ==
  /\ redisUp' = ~redisUp
  /\ UNCHANGED <<now, local, redis, writing, pending, flushLoop, asking, longest, everGlobal>>

\* TTLs run out as time passes.
Tick ==
  /\ now < MaxTime
  /\ now' = now + 1
  /\ redis' = [k \in Ids |-> IF redis[k] > now + 1 THEN redis[k] ELSE 0]
  /\ UNCHANGED <<local, redisUp, writing, pending, flushLoop, asking, longest, everGlobal>>

\* on_startup.  Only a boot that finds a fresh pending_bg_migration marker
\* reaches the start of the flush loop; Redis is connected on every boot.
SharedBansInit ==
  /\ started \in [Gateways -> BOOLEAN]
  /\ now = 0
  /\ local = [g \in Gateways |-> [k \in Ids |-> [s \in Scopes |-> 0]]]
  /\ redis = [k \in Ids |-> 0]
  /\ redisUp = TRUE
  /\ writing = [g \in Gateways |-> {}]
  /\ pending = [g \in Gateways |-> <<>>]
  /\ flushing = [g \in Gateways |-> <<>>]
  /\ overrun = [g \in Gateways |-> FALSE]
  /\ asking = [g \in Gateways |-> <<>>]
  /\ longest = [k \in Ids |-> 0]
  /\ everGlobal = {}

\* The ends of the awaits, and the loop that retries.
Completion(g) ==
  \/ \E e \in writing[g] : WriteDone(g, e) \/ WriteFails(g, e)
  \/ FlushDone(g) \/ FlushFails(g)
  \/ \E k \in Ids : Answer(g, k) \/ Import(g, k)

Requests(g) ==
  \E k \in Ids :
    \/ \E s \in Vhosts \cup GlobalScopes : Ask(g, k, s)
    \/ \E secs \in BanSecs :
         \/ \E s \in Vhosts \cup GlobalScopes : RiskBan(g, k, s, secs)
         \/ GlobalScopes # {} /\ ManualBan(g, k, secs)
    \/ Unban(g, k)

SharedBansNext ==
  \/ \E g \in Gateways : Completion(g) \/ Requests(g) \/ FlushStart(g)
  \/ Outage \/ Tick

\* wait_for bounds every await, and the event loop resumes its tasks.
SharedBansFairness ==
  \A g \in Gateways :
    /\ WF_sharedVars(\E e \in writing[g] : WriteDone(g, e) \/ WriteFails(g, e))
    /\ WF_sharedVars(FlushStart(g)) /\ WF_sharedVars(FlushDone(g) \/ FlushFails(g))

SharedBansSpec == SharedBansInit /\ [][SharedBansNext]_sharedVars
SharedBansFairSpec == SharedBansSpec /\ SharedBansFairness

-----------------------------------------------------------------------------
(***************************************************************************)
(* Properties                                                              *)
(***************************************************************************)

SharedBansTypeOK ==
  /\ now \in 0 .. MaxTime
  /\ local \in [Gateways -> [Ids -> [Scopes -> Nat]]]
  /\ redis \in [Ids -> Nat]
  /\ redisUp \in BOOLEAN
  /\ \A g \in Gateways :
       /\ writing[g] \subseteq Entry
       /\ pending[g] \in Seq(Entry) /\ Len(pending[g]) <= PendingMax
       /\ flushing[g] \in Seq(Entry) /\ Len(flushing[g]) <= 1
       /\ started[g] \in BOOLEAN /\ overrun[g] \in BOOLEAN
       /\ DOMAIN asking[g] \subseteq Ids
       /\ \A k \in DOMAIN asking[g] : asking[g][k] \in Answers
  /\ longest \in [Ids -> Nat]
  /\ everGlobal \subseteq Ids

\* A ban that travels through Redis, a retry queue or a slow answer never
\* ends later than the latest end somebody gave it.
SharingNeverStretches ==
  \A g \in Gateways, k \in Ids, s \in Scopes : local[g][k][s] <= longest[k]

\* A ban that is running at a gateway ends early only because an operator
\* said so there: an answer of Redis that arrives after a longer ban has been
\* given meanwhile does not replace it.
OnlyOperatorsShorten ==
  [][\A g \in Gateways, k \in Ids, s \in Scopes :
       local[g][k][s] > now /\ local'[g][k][s] < local[g][k][s]
       => Unban(g, k) \/ \E secs \in BanSecs : ManualBan(g, k, secs)]_sharedVars

\* popleft() after the await: the entry that the flush loop takes away is the
\* one it has sent, whatever failed and was queued meanwhile, unless the limit
\* had dropped that one; there always is an entry to take.
NoneIsSkipped ==
  \A g \in Gateways :
    flushing[g] # <<>> =>
      pending[g] # <<>> /\ (overrun[g] \/ Head(pending[g]) = flushing[g][1])

\* Where the flush loop runs, the retry queue becomes empty again and again
\* once Redis stays up: a ban that waits is sent or makes room for others.
DrainsWhereStarted ==
  <>[]redisUp => \A g \in Gateways : started[g] => []<>(pending[g] = <<>>)

\* "On Redis reconnect, the pending bans drain": once Redis stays up, the
\* retry queue of every gateway becomes empty again and again.
DrainsOnReconnect ==
  <>[]redisUp => \A g \in Gateways : []<>(pending[g] = <<>>)

\* "_redis_ban_flush_loop will retry until Redis recovers": the loop takes no
\* ban off the retry queue but the one it has sent.
RetriedUntilStored ==
  [][\A g \in Gateways :
       flushing'[g] # flushing[g] =>
         \A i \in DOMAIN pending[g] :
           \/ \E j \in DOMAIN pending'[g] : pending'[g][j] = pending[g][i]
           \/ \E j \in DOMAIN flushing[g] : flushing[g][j] = pending[g][i]]_sharedVars

\* config.py on BAN_SCOPE: "the ban only applies to the vhost where the bad
\* behaviour was observed".  Nobody is banned globally who was never given a
\* global ban.
VhostBansStay ==
  \A g \in Gateways, k \in Ids : local[g][k][Global] > now => k \in everGlobal

=============================================================================
