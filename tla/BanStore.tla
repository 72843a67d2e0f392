------------------------------ MODULE BanStore ------------------------------
(***************************************************************************)
(* How a ban outlives the process that decided it: the write-behind queue  *)
(* (scoring.py, ban_endpoint), the writer loop and the ban tables          *)
(* (db/sqlite.py, db/postgres.py), the cached address check of every       *)
(* request, the operator's unban, crashes, and the boot that reads the     *)
(* tables back (proxy.py).                                                 *)
(*                                                                         *)
(* Two clocks: `wall` is time.time(), in which rows are stamped;           *)
(* time.monotonic(), in which memory is, is wall - origin and starts again *)
(* when the host is rebooted.                                              *)
(*                                                                         *)
(* The event loop runs one action at a time; the handlers of a ban and of  *)
(* an unban give it up between their steps, the second one while it holds  *)
(* state_lock.                                                             *)
(***************************************************************************)
EXTENDS Integers, FiniteSets, Sequences

CONSTANTS
  Ids,               \* track keys, the keys of `bans`
  IPs,               \* client addresses, the keys of `ip_bans`
  IpOf,              \* the address each identity is seen at
  BanSecs,           \* the durations a risk ban may have
  ManualSecs,        \* the durations an operator may ask for
  HOSTILE_BAN_SECS,  \* from this duration on a risk ban also bans the address
  QueueMax,          \* maxsize of db_queue
  BatchMax,          \* ops the writer takes at a time
  BAN_CACHE_TTL,
  BAN_CACHE_MAX,
  DB_BACKEND,        \* "sqlite" or "postgres"
  WallStart,         \* the epoch at which the first process starts
  MaxWall            \* bound on the clock

ASSUME StoreAssumption ==
  /\ Ids \cap IPs = {} /\ IsFiniteSet(IPs)
  /\ IpOf \in [Ids -> IPs]
  /\ BanSecs \subseteq Nat \ {0} /\ ManualSecs \subseteq Nat \ {0}
  /\ HOSTILE_BAN_SECS \in Nat /\ BAN_CACHE_TTL \in Nat /\ BAN_CACHE_MAX \in Nat
  /\ QueueMax \in Nat \ {0} /\ BatchMax \in Nat \ {0}
  /\ DB_BACKEND \in {"sqlite", "postgres"}
  /\ WallStart \in Nat \ {0} /\ MaxWall \in Nat

Keys == Ids \cup IPs
Databases == {"sqlite", "postgres"}

VARIABLES
  wall,       \* time.time()
  origin,     \* the epoch at which the monotonic clock read 0
  up,         \* the process is running
  banned,     \* banned[k]: ip_state[k].banned_until, monotonic
  queue,      \* db_queue
  bans,       \* bans[db][k]: banned_until of the row of k, 0 for no row
  ipBans,     \* ipBans[db][k]: the same for table ip_bans
  cache,      \* _ban_cache
  banning,    \* a ban request in flight: identities still to be queued
  unbanning,  \* an unban request in flight: rows to delete
  tracked     \* history: identities whose last ban has been queued and since
              \* neither lost, overtaken nor deleted by an operator

vars == <<wall, origin, up, banned, queue, bans, ipBans, cache, banning,
          unbanning, tracked>>

mono == wall - origin

BanOp == [op : {"ban"}, key : Ids, until : Nat]
IpBanOp == [op : {"ip_ban"}, key : IPs, until : Nat]

\* blind (history): the answer comes from a read that failed.
NoEntry == [cached |-> FALSE, until |-> 0, at |-> 0, blind |-> FALSE]
CacheEntry == [cached : BOOLEAN, until : Nat, at : Nat, blind : BOOLEAN]

NotBanning == [who |-> {}, until |-> 0]
NotUnbanning == [busy |-> FALSE, locks |-> FALSE, rows |-> {}]

Lowest(a, b) == IF a < b THEN a ELSE b

-----------------------------------------------------------------------------
(***************************************************************************)
(* Deciding a ban                                                          *)
(***************************************************************************)

\* Fault: the queue has no limit.
EnqueueUnbounded(ops) == queue \o ops

\* put_nowait for each op in turn: what does not fit is dropped silently.
Fits == Len(queue) < QueueMax
Enqueue(ops) == SubSeq(queue \o ops, 1, Lowest(QueueMax, Len(queue) + Len(ops)))

BanOpOf(k, until) == [op |-> "ban", key |-> k, until |-> until]
IpBanOpOf(k, until) == [op |-> "ip_ban", key |-> IpOf[k], until |-> until]

\* state_lock is free.
Unlocked == up /\ ~unbanning.locks

\* The tail of update_risk_and_maybe_ban once a global ban has triggered.
RiskBan(k, secs) ==
  /\ Unlocked
  /\ banned[k] <= mono
  /\ banned' = [banned EXCEPT ![k] = mono + secs]
  /\ queue' = Enqueue(<<BanOpOf(k, wall + secs)>> \o
                      IF secs >= HOSTILE_BAN_SECS
                      THEN <<IpBanOpOf(k, wall + secs)>> ELSE <<>>)
  /\ tracked' = IF Fits THEN tracked \cup {k} ELSE tracked \ {k}
  /\ UNCHANGED <<wall, origin, up, bans, ipBans, cache, banning, unbanning>>

\* What an operator's request may name: an identity or an address.
Matching(target) == {k \in Ids : k = target \/ IpOf[k] = target}

\* ban_endpoint, under state_lock: memory takes the operator's duration,
\* whatever ban was running.  Bound: one such request in flight.
ManualBan(target, secs) ==
  /\ Unlocked /\ banning = NotBanning /\ Matching(target) # {}
  /\ banned' = [k \in Ids |-> IF k \in Matching(target) THEN mono + secs ELSE banned[k]]
  /\ banning' = [who |-> Matching(target), until |-> wall + secs]
  /\ tracked' = tracked \ Matching(target)
  /\ UNCHANGED <<wall, origin, up, queue, bans, ipBans, cache, unbanning>>

\* ban_endpoint, after the lock and after the shared store has been told: the
\* rows are queued one by one.
QueueManualBan(k) ==
  /\ up /\ k \in banning.who
  /\ queue' = Enqueue(<<BanOpOf(k, banning.until)>>)
  /\ banning' = IF banning.who = {k} THEN NotBanning
                ELSE [banning EXCEPT !.who = @ \ {k}]
  /\ tracked' = IF ~Fits THEN tracked
                ELSE IF origin + banned[k] = banning.until THEN tracked \cup {k}
                ELSE tracked \ {k}
  /\ UNCHANGED <<wall, origin, up, banned, bans, ipBans, cache, unbanning>>

-----------------------------------------------------------------------------
(***************************************************************************)
(* The writer loop                                                         *)
(***************************************************************************)

Batch == 1 .. Lowest(BatchMax, Len(queue))
Remaining == SubSeq(queue, Lowest(BatchMax, Len(queue)) + 1, Len(queue))

Applied(ok, kind, k) == {i \in ok : queue[i].op = kind /\ queue[i].key = k}

\* Fault: `bans` keeps the largest value, as ip_bans does.
BansAfterKeepsLargest(ok) ==
  [k \in Ids |->
     LET values == {bans[DB_BACKEND][k]} \cup {queue[i].until : i \in Applied(ok, "ban", k)}
     IN CHOOSE u \in values : \A v \in values : v <= u]

\* `bans` takes the last value written, whatever it was before.
BansAfter(ok) ==
  [k \in Ids |->
     LET hits == Applied(ok, "ban", k)
     IN IF hits = {} THEN bans[DB_BACKEND][k]
        ELSE queue[CHOOSE i \in hits : \A j \in hits : j <= i].until]

\* Fault: `ip_bans` takes the last value, as bans does.
IpBansAfterTakesLast(ok) ==
  [k \in IPs |->
     LET hits == Applied(ok, "ip_ban", k)
     IN IF hits = {} THEN ipBans[DB_BACKEND][k]
        ELSE queue[CHOOSE i \in hits : \A j \in hits : j <= i].until]

\* `ip_bans` keeps the largest.
IpBansAfter(ok) ==
  [k \in IPs |->
     LET values == {ipBans[DB_BACKEND][k]}
                   \cup {queue[i].until : i \in Applied(ok, "ip_ban", k)}
     IN CHOOSE u \in values : \A v \in values : v <= u]

\* Fault: the writer leaves the cache alone.
InvalidateNothing(ok) == cache

\* The addresses of the batch lose their cached answer; the postgres branch of
\* the loop makes no such call.
Invalidate(ok) ==
  [k \in IPs |-> IF DB_BACKEND = "sqlite" /\ Applied(ok, "ip_ban", k) # {}
                 THEN NoEntry ELSE cache[k]]

Lost(failed) == {k \in Ids : Applied(failed, "ban", k) # {}}

\* A batch is executed op by op and committed; an op that raises is skipped.
WriteBatch(ok) ==
  /\ up /\ queue # <<>>
  /\ queue' = Remaining
  /\ bans' = [bans EXCEPT ![DB_BACKEND] = BansAfter(ok)]
  /\ ipBans' = [ipBans EXCEPT ![DB_BACKEND] = IpBansAfter(ok)]
  /\ cache' = Invalidate(ok)
  /\ tracked' = tracked \ Lost(Batch \ ok)
  /\ UNCHANGED <<wall, origin, up, banned, banning, unbanning>>

\* The commit fails: the whole batch has been taken off the queue all the same.
CommitFails(ok) ==
  /\ up /\ queue # <<>> /\ DB_BACKEND = "sqlite"
  /\ queue' = Remaining
  /\ cache' = Invalidate(ok)
  /\ tracked' = tracked \ Lost(Batch)
  /\ UNCHANGED <<wall, origin, up, banned, bans, ipBans, banning, unbanning>>

-----------------------------------------------------------------------------
(***************************************************************************)
(* The address check of every request                                      *)
(***************************************************************************)

\* check_ip_ban reads the local file, whatever the backend.
RowAnswer(ip) == IF ipBans["sqlite"][ip] > wall THEN ipBans["sqlite"][ip] ELSE 0

\* A cached ban that is still running and a cached "clear" are final within
\* the TTL.
Fresh(ip) ==
  /\ cache[ip].cached
  /\ wall - cache[ip].at < BAN_CACHE_TTL
  /\ cache[ip].until > wall \/ cache[ip].until = 0

\* What check_ip_ban_cached answers now.
CachedAnswer(ip) == IF Fresh(ip) THEN cache[ip].until ELSE RowAnswer(ip)

\* An answer is remembered; a full cache is emptied first.
Remember(ip, until, blind) ==
  LET full == Cardinality({k \in IPs : cache[k].cached}) >= BAN_CACHE_MAX
  IN cache' = [k \in IPs |->
       IF k = ip THEN [cached |-> TRUE, until |-> until, at |-> wall, blind |-> blind]
       ELSE IF full THEN NoEntry ELSE cache[k]]

\* A read that fails answers 0, and that answer is cached like any other.
CheckIpBan(ip) ==
  /\ up /\ ~Fresh(ip)
  /\ Remember(ip, RowAnswer(ip), FALSE) \/ Remember(ip, 0, TRUE)
  /\ UNCHANGED <<wall, origin, up, banned, queue, bans, ipBans, banning,
                 unbanning, tracked>>

-----------------------------------------------------------------------------
(***************************************************************************)
(* The operator's unban, the prune, crashes and restarts                   *)
(***************************************************************************)

Running(k) == banned[k] > mono

\* unban_endpoint, in memory; state_lock is kept until the rows are deleted.
\* Bound: one unban of either kind in flight.
Unban(cleared, rows) ==
  /\ up /\ ~unbanning.busy
  /\ banned' = [k \in Ids |-> IF k \in cleared /\ Running(k) THEN 0 ELSE banned[k]]
  /\ unbanning' = [busy |-> TRUE, locks |-> TRUE, rows |-> rows]
  /\ tracked' = tracked \ cleared
  /\ UNCHANGED <<wall, origin, up, queue, bans, ipBans, cache, banning>>

\* bulk_unban_endpoint, in memory, by reason or ASN: state_lock is free again
\* before the rows are deleted, those of the addresses of what was cleared.
BulkUnban(cleared) ==
  /\ up /\ ~unbanning.busy /\ \A k \in cleared : Running(k)
  /\ banned' = [k \in Ids |-> IF k \in cleared THEN 0 ELSE banned[k]]
  /\ unbanning' = [busy |-> TRUE, locks |-> FALSE,
                   rows |-> {IpOf[k] : k \in cleared}]
  /\ tracked' = tracked \ cleared
  /\ UNCHANGED <<wall, origin, up, queue, bans, ipBans, cache, banning>>

\* A bulk unban that cleared nobody looks for rows of the reason asked for.
Rows == IF unbanning.locks \/ unbanning.rows # {} THEN {unbanning.rows}
        ELSE SUBSET {k \in Ids : bans[DB_BACKEND][k] > 0}

\* The worker thread deletes the rows named by the request, in the active
\* database and in one transaction, or fails; the handler lets go of the lock.
FinishUnban ==
  /\ up /\ unbanning.busy
  /\ \E gone \in Rows \cup {{}} :
       /\ bans' = [bans EXCEPT ![DB_BACKEND] =
                     [k \in Ids |-> IF k \in gone THEN 0 ELSE @[k]]]
       /\ ipBans' = [ipBans EXCEPT ![DB_BACKEND] =
                     [k \in IPs |-> IF k \in gone THEN 0 ELSE @[k]]]
       /\ tracked' = tracked \ gone
  /\ unbanning' = NotUnbanning
  /\ UNCHANGED <<wall, origin, up, banned, queue, cache, banning>>

\* prune_ip_bans: expired addresses leave the local file.
PruneIpBans ==
  /\ up
  /\ ipBans' = [ipBans EXCEPT !["sqlite"] =
                  [k \in IPs |-> IF @[k] <= wall THEN 0 ELSE @[k]]]
  /\ UNCHANGED <<wall, origin, up, banned, queue, bans, cache, banning,
                 unbanning, tracked>>

\* The process dies, or is stopped with ops still queued.
Crash ==
  /\ up
  /\ up' = FALSE
  /\ banned' = [k \in Ids |-> 0]
  /\ queue' = <<>>
  /\ cache' = [k \in IPs |-> NoEntry]
  /\ banning' = NotBanning /\ unbanning' = NotUnbanning
  /\ tracked' = {}
  /\ UNCHANGED <<wall, origin, bans, ipBans>>

\* on_startup: the local rows that still run are put into memory as they are
\* stored; the monotonic clock starts again if the host did.
Boot ==
  /\ ~up
  /\ up' = TRUE
  /\ origin' \in {origin, wall}
  /\ banned' = [k \in Ids |-> IF bans["sqlite"][k] > wall THEN bans["sqlite"][k] ELSE 0]
  /\ UNCHANGED <<wall, queue, bans, ipBans, cache, banning, unbanning, tracked>>

Tick ==
  /\ wall < MaxWall
  /\ wall' = wall + 1
  /\ UNCHANGED <<origin, up, banned, queue, bans, ipBans, cache, banning,
                 unbanning, tracked>>

-----------------------------------------------------------------------------
Init ==
  /\ wall = WallStart /\ origin = WallStart
  /\ up = TRUE
  /\ banned = [k \in Ids |-> 0]
  /\ queue = <<>>
  /\ bans = [db \in Databases |-> [k \in Ids |-> 0]]
  /\ ipBans = [db \in Databases |-> [k \in IPs |-> 0]]
  /\ cache = [k \in IPs |-> NoEntry]
  /\ banning = NotBanning /\ unbanning = NotUnbanning
  /\ tracked = {}

Decide ==
  \/ \E k \in Ids, secs \in BanSecs : RiskBan(k, secs)
  \/ \E target \in Keys, secs \in ManualSecs : ManualBan(target, secs)
  \/ \E k \in Ids : QueueManualBan(k)

Write == \E ok \in SUBSET Batch : WriteBatch(ok) \/ CommitFails(ok)

Lift ==
  \/ \E target \in Keys : Unban(Matching(target), {target})
  \/ Unban(Ids, Keys)
  \/ \E cleared \in SUBSET Ids : BulkUnban(cleared)
  \/ FinishUnban

Next ==
  \/ Decide \/ Write \/ Lift
  \/ \E ip \in IPs : CheckIpBan(ip)
  \/ PruneIpBans \/ Crash \/ Boot \/ Tick

Spec == Init /\ [][Next]_vars

-----------------------------------------------------------------------------
(***************************************************************************)
(* Properties                                                              *)
(***************************************************************************)

TypeOK ==
  /\ wall \in Nat /\ origin \in Nat /\ origin <= wall
  /\ up \in BOOLEAN
  /\ banned \in [Ids -> Nat]
  /\ queue \in Seq(BanOp \cup IpBanOp) /\ Len(queue) <= QueueMax
  /\ bans \in [Databases -> [Ids -> Nat]]
  /\ ipBans \in [Databases -> [IPs -> Nat]]
  /\ cache \in [IPs -> CacheEntry]
  /\ banning.who \subseteq Ids /\ banning.until \in Nat
  /\ unbanning.busy \in BOOLEAN /\ unbanning.locks \in BOOLEAN
  /\ unbanning.rows \subseteq Keys
  /\ tracked \subseteq Ids

\* A freshly banned address is refused at once, not after the TTL: whatever
\* the cache holds, an address with a running row is answered as banned,
\* unless the last read of its row failed.
CacheNeverHidesBan ==
  \A ip \in IPs :
    ipBans[DB_BACKEND][ip] > wall /\ ~(Fresh(ip) /\ cache[ip].blind)
    => CachedAnswer(ip) > 0

\* What the database will hold for k once the queue has been written.
Eventual(k) ==
  LET pending == {i \in DOMAIN queue : queue[i].op = "ban" /\ queue[i].key = k}
  IN IF pending = {} THEN bans[DB_BACKEND][k]
     ELSE queue[CHOOSE i \in pending : \A j \in pending : j <= i].until

\* Memory and the write-behind rows agree: a running ban whose row was neither
\* lost nor overtaken will be stored with the very term that memory enforces,
\* however the bans of risk and operators, batches, and failures interleave.
WriteBehindSound ==
  \A k \in tracked : banned[k] > mono => Eventual(k) = origin + banned[k]

\* The table of address bans keeps the promise of BanLedger.
Ledger == INSTANCE BanLedger WITH
  Keys <- IPs, ledger <- ipBans[DB_BACKEND], lifting <- unbanning.rows \cap IPs
LedgerKept == Ledger!Spec

\* sqlite.py on banned_until: "banned_until is monotonic; if epoch > now,
\* restore offset".  No ban in memory runs longer than the longest ban anyone
\* can give.
NoBanOutlivesItsTerm ==
  \A k \in Ids : \E secs \in BanSecs \cup ManualSecs : banned[k] <= mono + secs

=============================================================================
