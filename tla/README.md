# A verified model of the AntiBotGW gateway

TLA+ models of the gateway: *who is banned, for how long, and what a blocked or
throttled client gets*; how a request finds its way through the gates; and what
happens to what operators set, when it has to survive queues, two databases and
restarts. TLC configurations check small instances; TLAPS proofs hold for every
value of the constants.

    tlc -workers 2 -config Services.cfg MCServices.tla   # model-check
    tlapm Services_proofs.tla                            # check the proofs

| modules | composed with | run (configuration, root module) | proofs |
|---|---|---|---|
| `RiskScoring` | | `RiskScoringScopes.cfg`, `RiskScoringNat.cfg` (`MCRiskScoring`) | `RiskScoring_proofs` |
| `BanStore` | implements `BanLedger` | `BanStoreSqlite.cfg`, `BanStoreRestart.cfg` (`MCBanStore`) | `BanStore_proofs` |
| `SharedBans` | | `Stores.cfg` (`MCStores`, two gateways), `Services.cfg` (`MCServices`, one), `SharedBansBoot.cfg` | `Services_proofs` |
| `Upstream` | | `Services.cfg` (`MCServices`) | `Services_proofs` |
| `RequestPath` | | `RequestPath.cfg` (`MCRequestPath`) | `RequestPath_proofs` |
| `TokenBuckets`, `PowTokens`, `CanaryProbe`, `PageReports` | topics of `VisitorSpec` (`Visitors`) | `TokenBuckets.cfg` (`MCTokenBuckets`) | `Visitors_proofs` |
| `AdminSessions` | | `AdminSessions.cfg` | `AdminSessions_proofs` |
| `Settings`, `Delivery`, `Lookups` | topics of `OperatorSpec` | `Settings.cfg` (`MCSettings`) | `Operators_proofs` |
| `Backends` | | `Stores.cfg` (`MCStores`) | `Databases_proofs` |
| `Tables`, `SqliteArms`, `PostgresArms`, `Transfers`, `Replicas` | each extends the former | `Replicas.cfg` (`MCReplicas`) | `Databases_proofs` |

`PROJECT.json` holds the table of components, the runs, the line ranges each
definition translates (`map`), one mutant of the code per checked property, the
findings, the hazards and the theorems. A definition whose comment begins with
*Fault:* is such a mutant and is used nowhere else.

---

## 1. Inventory of the system

One Python process, one asyncio event loop: a piece of code without `await` is
atomic, and every `await` is a point where another request, a background task
or an operator may run. Three locks matter: `state_lock` (the identity table and
its address index), `_ip_bucket_lock` / `_endpoint_rate_lock` (bucket tables)
and one lock per decoy slot. Almost everything that must survive a restart goes
through one bounded queue, `db_queue`, to one writer task.

| component | state it keeps | operations | talks to | here |
|---|---|---|---|---|
| identity table and risk scoring (`state.py`, `scoring.py`) | `ip_state`: score, decay time, ban deadlines global and per vhost, last address, buckets | `update_risk_and_maybe_ban`, `is_banned`, LRU table with `evict_expired` | queue, Redis, address index | `RiskScoring` |
| decisions on record (`core/metrics.py`) | `ip_to_identities`, timelines, counters | `record` | identity table | `RiskScoring` |
| state pruning (`rate_limit.py`) | | `_prune_state_loop`, every ten minutes | every table | in each table's module |
| operator bans (`core/proxy_handler.py`) | | `ban_endpoint`, `unban_endpoint`, `bulk_unban_endpoint` | memory, queue, database, Redis | `RiskScoring`, `BanStore`, `SharedBans` |
| ban persistence (`db/sqlite.py`, `db/postgres.py`) | `bans`, `ip_bans`, `_ban_cache` | writer loop, `check_ip_ban`, `prune_ip_bans`, `_rehydrate_bans` | queue, identity table | `BanStore`, `Replicas` |
| shared bans (`integrations/redis.py`) | retry queue, Redis keys | `redis_ban_set`, `redis_ban_get`, flush loop | identity table of every gateway | `SharedBans` |
| request pipeline (`core/proxy_handler.py` `protect`, `proxy`) | per-request context | some forty gates in order | everything | `RequestPath` |
| upstream breaker and decoy (`core/proxy_handler.py`) | `_UPSTREAM_CB`, `_decoy_cache`, locks | `_circuit_*`, `proxy`, `silent_decoy_response` | the sites | `Upstream` |
| rate limiting (`rate_limit.py`, pipeline) | three bucket tables, windows, probe and PoW limiters | consume, prune, sweep | identity table | `TokenBuckets`, `PowTokens`, `CanaryProbe` |
| challenges (`challenge/`) | PoW cache, replay table, cookies | issue, verify | identity | `RequestPath`, `PowTokens` |
| detectors (`detection/`) | probe tables, report tables | predicates of one request; probes and reports of pages | scoring | `CanaryProbe`, `PageReports` |
| identity (`identity.py`) | session-churn ledger | HMAC of cookie and fingerprint | | `RequestPath` |
| operators, sessions, login (`admin/users.py`, `admin/auth.py`) | sessions, accounts, lockouts | login, logout, revoke, roles | queue, database | `AdminSessions` |
| settings and hot reload (`config.py`, handlers) | knobs, secrets, allowlist, keys | set, reset, import, rotate | every module's copy | `Settings` |
| gateway mesh (`admin/mesh.py`) | registry, rules, signal orders | register, rotate, delete, distribute | queue, database | `Replicas` |
| virtual hosts (`vhost.py`) | overlays per host, a file | set, delete, load | scoring, pipeline | `Settings` |
| backend switch and migration (`proxy_handler.py`, `db/`, `proxy.py`) | active backend, marker, sealed DSN | switch, migrate, backfill, recover | writer | `Backends` |
| webhooks and alerting (`integrations/webhook.py`, `core/alerting.py`, `dashboards/siem.py`) | queue, dedup keys, breaker | announce, deliver | external | `Delivery` |
| reputation feeds (`reputation/`) | caches, lists | look up, refresh | external | `Lookups` |
| import and export (`db/import.py`, `db/export.py`, `admin/settings.py`) | none | copies of tables, archives | both databases | `Transfers`, `Replicas` |
| JA4, fingerproxy, endpoint policy, JWT | rule tables | per-request checks | pipeline | not modelled |
| dashboards | none | read-only | database | not modelled |
| startup and shutdown (`proxy.py`) | background tasks | boot, drain, stop | all | each module's restart |

**How they interact.** A detector calls `update_risk_and_maybe_ban`. Under
`state_lock` it decays and raises the score, picks the threshold from the number
of recent neighbours at the same address (`ip_to_identities`), and on crossing
it writes a deadline (`time.monotonic()`) into the identity; then it queues the
row (`time.time()`), and a severe ban queues an address row too; outside the
lock it publishes the ban to Redis. Another gateway imports it when it next
meets that identity in `is_banned`. The writer drains the queue in batches and
`check_ip_ban` reads the address rows through a cache on each request. At boot,
`_rehydrate_bans` copies rows into memory. A request that is refused gets a
decoy page cached per site; a request that passes goes to the site through the
circuit breaker. An operator's request changes memory, in as many copies as
modules import the value, and queues rows; handlers that check before they
write read the database, not the queue. With Postgres configured there are two
databases, which one is read and which one is written being two decisions.

**What is hard here**, and a test would hardly reach:

- *two clocks*: memory is monotonic, rows are epochs, and monotonic restarts
  with the host;
- *three owners of one ban* (memory, database, Redis) updated one after the
  other with awaits in between, each able to fail or lag alone;
- *check, await, act*: gates and handlers look at a ban, an account, a registry
  row, await, and act on what they saw;
- *hand-kept derived state*: the address index, the ban cache, pruned buckets,
  the copies of a knob, the cache of sessions;
- *write behind*: a full queue, a failed commit, a crash between memory and row;
- *two databases* kept alike by tasks that fail or overtake each other, by
  copies taken while the writer runs, and by tools run over databases in use;
- *late answers*: a Redis GET that returns after a longer ban, a SET applied
  after its timeout, an upstream answer of an earlier phase of the breaker, two
  lookups of one address;
- *limits*: full queues, LRU table at capacity (bans forgotten), bucket and
  probe tables swept;
- *liveness*: the retry queue must drain, breakers must close, nobody may wait
  for ever at a decoy lock, operators must be heard from again.

The forty entries of `hazards` in `PROJECT.json` give each of these with its
line and the properties that would catch it, or why none does.

**What makes each component correct**

- *scoring*: a ban is earned where it applies; traffic never shortens a ban; a
  shared address gets the higher threshold; the index misses nobody.
- *persistence*: an address ban once written is enforced on the next request; a
  queued ban reaches its row unless the program recorded a loss; a row only
  grows and disappears only by expiry or by an operator; a restart neither
  shortens nor stretches it.
- *sharing*: a ban travels with its end; it is not lost on an outage.
- *pipeline*: no request of a banned client reaches the site except by an
  exemption; churning sessions are stopped; an operator's Allow window is not
  held against the identity.
- *breaker and decoy*: opens only on a streak of failures, closes once the
  sites are well; one fetch per stale page; everybody is answered.
- *rate limits and tokens*: in every window at most burst plus refill, pruning
  of idle buckets included; `Retry-After` is long enough; a token is accepted
  once; an honest browser is not taken for an agent.
- *sessions*: a repudiated session is not used again; sessions are limited; an
  administrator remains.
- *settings*: what was accepted survives a restart; all copies agree; exclusive
  knobs exclude each other; the gate to the console does not fall open.
- *switch*: no event is hidden from the copies, or copied twice, and events are
  read where they are written.
- *replicas*: rows agree unless an accident set them apart; a copy of a database
  weakens and takes over nothing; what is exported can be restored.
- *the outside*: operators are heard from again after an outage; a verdict is not older than its cache allows.

---

## 2. The models

Each action is one critical section: the code between two awaits, or between
taking and giving back a lock. Where the handler awaits in the middle the model
has several actions and a variable for the handler in flight.

### RiskScoring

State: `live` (keys of `ip_state`), `st[k]` (score, times, deadlines per scope,
last address, allowed requests), `index` (`ip_to_identities`), `now`. Scopes
are the global one and the virtual hosts, as `BAN_SCOPE` chooses.

| action | code |
|---|---|
| `UpdateRisk` | `update_risk_and_maybe_ban`: decay by halving, threshold, neighbours, `max` with the running deadline |
| `Arrive`, `Record` | the pipeline's touch of the identity; `record` with the index maintenance |
| `Unban`, `BulkUnban`, `ManualBan` | the operator's handlers, in memory |
| `EvictExpired`, `PruneState` | `state.py` and the prune loop |

`RoomFor` is the LRU table at capacity (*which* entry goes is left open: any but
the one being used). One unit of time is one half-life. Decay is left open
within bounds (`Decays`): a score may have lost anything since it was last
updated, and has lost at least half once a unit has passed, so the fractions of
the code's exponential are among the outcomes. History: `earned` counts the weight an identity earned per
scope since it was last cleared.

### BanLedger and BanStore

`BanLedger` is the promise of the `ip_bans` table. `BanStore` is the machinery:
`wall` and `origin` (so that `mono == wall - origin`), `db_queue`, both tables
in both back ends, `_ban_cache`, the two-step manual ban and unban, crash,
host reboot and boot.

| action | code |
|---|---|
| `RiskBan` | ban rows enqueued by scoring, `put_nowait` with the drop when full |
| `ManualBan`, `QueueManualBan` | `ban_endpoint`: memory under the lock, rows queued one by one afterwards |
| `WriteBatch`, `CommitFails` | writer loop: an operation or the commit may fail after the batch left the queue |
| `CheckIpBan` | `check_ip_ban` with the cache, the failing read that answers and caches 0, the full cache that is emptied |
| `Unban`, `FinishUnban` | `unban_endpoint`: memory first, rows deleted later, under the lock |
| `BulkUnban` | `bulk_unban_endpoint`: memory, then the rows a reason selects |
| `PruneIpBans`, `Crash`, `Boot`, `Tick` | pruning, loss of memory and queue, `_rehydrate_bans` |

`LedgerKept` is the refinement: `ledger` is the SQLite `ip_bans` table and
`lifting` the addresses of the unban in flight. A row may therefore only grow,
expire, or go by an unban somebody asked for, across crashes and failed commits.

### SharedBans

Several gateways, one Redis. `local` deadlines per gateway and scope, `redis`,
whether it is up, `writing` (SETs under way), `pending` (the bounded retry
queue), `flushing` (the entry the flush loop is sending), `asking` (the GETs
under way and their answers). A SET or a flush may fail *after* it was applied.
`Import` is the part of `is_banned` that runs when the answer comes back, by
which time the identity may have been banned for longer or unbanned.
`started` says at which gateways this boot has begun a flush loop: only a boot
that finds a fresh marker of a pending migration does (`proxy.py:376`; section
5), while Redis is connected on every boot. Any gateway may be of either kind.
`overrun` is history: the full queue dropped an entry while one was being sent.

### RequestPath

`req[r]` is how far a request has come: `entered`, `stamped`, `known`,
`checked`, `forwarded`, or paying for churn. Each gate of `protect` and `proxy`
that awaits is an action (`Stamp`, `SessionFlood`, `CheckIdentity`,
`CheckFingerprint`, `Forward`, ...; `HeaderGate`, `SlowBody`, `BodyScan`,
`EscalatedScan` and, on the way back, `PageCheck` are those of `proxy`). What a gate sees *in the request* is a
choice of the environment; what it sees *in the state* is a guard. `Suspect`,
`Exclude`, `Deny`, `SoftSignal` are the groups of detectors, by what they do;
`way` remembers by which kind of exemption a request passes. `minted` is
the ledger of challenge cookies per fingerprint, filled when the answer is
stamped (`Mint`, `Pay`) and by the solver's endpoint (`SolveChallenge`).
`Unban`, `ManualBan` and the Allow window are the operator between the gates.
Keys of `ip_state` are identities, fingerprints or raw addresses, as in the code.

`ChurnBounded` counts the pages a fingerprint is served in one window with a new
cookie each. A ban begins when the first request that owes for a cookie pays,
and requests that are past the fingerprint's check by then go on to get theirs.
When the ban ends they have left the ledger *no later than those of before*, but
what they minted late may still be in it, up to one less than the requests in
flight; `Unpaid` is the larger of that and the allowance. The instance, whose
window is one unit long, never has such a rest: the first form of the property
left it out, TLC agreed, and the proof did not go through until it was there.

### Upstream

`breaker` (`_UPSTREAM_CB`, one for all sites), `sent` (requests under way with
whether their site was well when they left: late answers come in any order),
`slot` (decoy cache), `holder` (per-slot lock), `decoy` (blocked requests).
Actions: `Forward`, `Probe`, `Refuse`, `Answered`, `Fails`, `Oversized` for
`_circuit_before/_record_*` and `proxy`; `Block`, `Resume`, `FetchEnds`,
`GrowsStale` for `silent_decoy_response`; `SiteOutage` and `SecondPasses` are
the environment. A site whose home page has no body (`Bodiless`) never fills
its slot, as the code tests the body's truth; its blocked requests fetch one
after the other.

### TokenBuckets, PowTokens, CanaryProbe, PageReports

*TokenBuckets*: the socket, identity and endpoint buckets are one algorithm with
different parameters; `layer`, chosen in `Init`, says which table a behaviour
follows, and with it the size limit, the initial level, and who prunes.
`Admit`, `Refuse` (with `Retry-After`), `PruneBuckets` (idle over 3600 s in the
socket table and 300 s in that of the endpoints, here one `IDLE`; then the
oldest down to the limit), `DropIdentity` (the identity bucket dies with its
identity), `Tick`. Tokens are kept in units of 1/`COST` so that fractions stay
exact. History: `Watch` opens a window on a key at any moment; `spent` and
`allowance` count in it, through every deletion and rebirth of the bucket. A
bucket deleted because it was idle must cost nothing: that is what `RateBounded`
is about. One that is pushed out of a full table, or dies with its identity,
comes back full by design; `Forgiven` adds that burst to the allowance, so the
bound is *burst + refill + one burst per forced eviction*.

*PowTokens*: challenges issued with the whole second, cached per address, limited
per address, verified against a replay table that is pruned on the way and by
the prune loop. A tick is half a second, so that whole and fractional seconds
differ. *CanaryProbe*: the hidden link each page carries, the tables of tokens,
counts and confirmations with their limits, the limiter the probe shares with
the reports, and the check that charges whoever never fetched. *PageReports*:
the four kinds of report a page sends back, their shared tokens and the replay
table of one of them.

### AdminSessions

`users` and `rows` are tables, `cache` the sessions in memory, `queue` the
writer's. `Login` reads the account from the table and opens a session, with
the session limit; `Logout`, `EndSession`, `Expire`; `CreateUser`,
`BeginUpdate`/`FinishUpdate` (the check comes before the body is awaited),
`DeleteUser`; `Write` is the writer, with failing operations; `Restart` loses
cache and queue and reads the rows back, where the load may fail. Histories name
the three accepted reasons for a session to outlive its account (`raced`,
`kept`, `slipped`) and the two for a gateway without an administrator
(`demoted`, `overlapped`).

### Settings, Delivery, Lookups

*Settings*: five knobs stand for the two hundred, one for each way a knob is
kept (plain, two that exclude each other, one derived from a secret, one never
stored); `handler` is the copy in `core.proxy_handler`, `others` that of all
other modules. `Config` is the POST with validation, exclusion, rows and the
push to the modules; `PostSecret`, `DeleteSecret` (which re-derive knobs),
`Rotate`, `AddCidr`, `RemoveCidr`, `SetVhost`, `DeleteVhost`, `Import` the other
handlers; `Write` the queue, whose operations `Replayed` applies one after the
other (`Settled` is what the stores will be); `Restart` rebuilds everything from environment, rows
and files in the order of `on_startup`, the allowlist's read included, which
may fail. `NoPostClashes` excepts every import, one that sets a knob an earlier
one had set included: an import applies no exclusion, however often it is made.

*Delivery*: `_post_webhook` (DNS, dedup key in Redis shared by all gateways, a
bounded queue), the one worker with retries and its breaker, the alarms with
their cooldown, an end of the process. *Lookups*: AbuseIPDB,
CrowdSec and the Tor list for one address: `Begin`, `ReadCache`, `Reply`,
`RefuseCall`, `Fail`, `Receive` of two requests at once, the writer, the list
that is cleared and filled again from another thread, restarts.

### Backends

An event is its timestamp. `liteTable` and `pgTable` are the two tables of
events: the number of rows of each, two standing for more; `backend`, `shown`, `available`, `disabled` and `writer` are
the five variables by which different parts of the program decide which store
is in use; `liteRow`, `pgRow`, `marker`, `liteDsn`, `keyFile` are what a start
reads. `Record` and `WriteFirst` are an event's way through the queue;
`BeginSwitch`, `CopyRecent`, `Commit` are `/__db-switch`; `Restart` is `on_startup` with the
backfill; `MigrateBatch`, `MigrateEnd` the background migration in both
directions; `Recover` the recovery loop; `SetKnob`, `SetDsn`, `Rotate` what
operators change around it. The stored DSN is sealed under the session key the
process started with and opened with the one on disk. Histories name what the
properties exempt: events that `record` also inserts itself (`doubled`), a
recent window copied again (`again`), events between window and cutoff
(`straddled`), a failed step (`spoiled`).

### Tables, SqliteArms, PostgresArms, Transfers, Replicas

`Tables` has the operators' rows as both databases hold them and the operations
of the queue; `SqliteArms` and `PostgresArms` are what each operation does to
either (they differ: `REPLACE` against `ON CONFLICT`), and what is left when one
of two statements stops half-way (`LiteApplyHalf`; `PgBegun`, `PgFinished`); `Transfers` has
`db.import`, `db.export` and the XML archives; `Replicas` is the writer, its
mirror tasks (each may fail, stop half-way, overtake another or run between its
statements), crashes, the copies, and the
handlers in front: accounts, sessions, settings, address bans, the gateway
registry, and the activation orders of signals, which go around the queue
straight into both databases under the name the gateway knew itself by when it
started (`_gw_local_id`). A behaviour is about one `family` of tables in one
deployment (`mode`): SQLite alone, SQLite mirrored to Postgres (while every
handler reads Postgres), or Postgres alone.

---

## 3. What the runs check

| run | instance | distinct states | shows |
|---|---|---|---|
| `scoring_scopes` | 1 identity, 2 vhosts (symmetric) + global, weights 1-2, two severities | 100,874 | `VhostIsolation`, `TrafficNeverShortensBans` |
| `scoring_nat` | 3 identities, 2 addresses, table of 2 | 352,597 | `IndexComplete` through LRU drops, `NatTolerance` |
| `ban_store` | 1 identity at 1 address, queue of 2, batches of 2 | 1,628,795 | `CacheNeverHidesBan`, `WriteBehindSound`, `LedgerKept` |
| `stores` | log: 3 instants, 2 requests, 1 fault; Redis: 2 gateways, 1 identity, retry queue of 1, 2 calls under way | 6,031,372 | `NoGap`, `CopiedOnce`, `EventReadsFollow`; `SharingNeverStretches`, `OnlyOperatorsShorten` |
| `services` | 2 sites (one bodiless), 2 forwards, 2 blocked; 1 gateway, retry queue of 2, 3 calls under way | 261,492 | `OneFetchPerExpiry`, `BreakerRecovers`, `BlockedAreAnswered`; `NoneIsSkipped`, `DrainsWhereStarted` |
| `request_path` | 2 requests in flight of 1 identity | 1,550,622 | `BannedMeetsDecoy`, `ChurnBounded`, `GraceUndisturbed` |
| `token_buckets` | 4 keys, 2 hosts with different limits, tables of 1 and 2; 2 challenges; a browser and an agent; 2 visitors' reports | 845,416 | `RateBounded`, `RetryAfterHolds`, `SpentOnce`, `HonestBrowserSpared` |
| `admin_sessions` | 2 accounts, 2 roles, 2 sessions, 2 changes, limit of 1 | 5,487,269 | `RepudiatedSessionsDie`, `SessionsLimited`, `AdminRemains` |
| `settings` | 4 environments, 2 archives, 3 requests, queue of 3; 2 event keys; 2 lookups | 1,195,687 | `RestartKeeps`, `CopiesAgree`, `NoPostClashes`, `GateStaysClosed`; `HeardAgain`; `VerdictsFresh` |
| `replicas` | 3 deployments x 6 families, 2 gateways, queue of 3, 2 to 4 requests | 577,985 | `ReplicasAgree`, `RulesNameGateways`, `LastGatewayStays`, `ImportNeverWeakens`, `BackupRestores`, `RestoreTakesOverNothing` |

Two more runs, each of one property, expect a violation (section 5): `rehydrated_ban`
on the instance of `ban_store` with other lengths of bans, and `undrained_queue`
on one gateway as in `services`.

`MCSettings`, `MCServices`, `MCStores` and `Visitors` host several components that share no state:
`topic`, chosen at the start, says which one a behaviour is about, so that a run
explores the sum of their state spaces and never the product. Nothing is lost:
no component of a topic reads a variable of another (`VisitorsHaveBuckets` proves
it of the buckets).

Each module has its `TypeOK` (`ProbeTypeOK`, ...). The runs do not repeat it: it is proved
for `RiskScoring`, `Upstream`, `TokenBuckets`, `SharedBans`, `BanStore`,
`RequestPath`, `AdminSessions`, `Settings`, `Delivery`, `Backends` and `Replicas`, and was
checked on the same instances for the others.

**Why the bounds are enough.** Each bound is the smallest at which the
interesting case happens.
*Scoring*: two vhosts let risk cross from one to the other; three identities in
a table of two give LRU drops while the index still names the dropped one; two
addresses let an identity move; two severities with different durations let a
mild one follow a severe one; thresholds of 2 and 3 leave scores on either side
of the NAT rule. `MaxRisk` caps a score just above the highest threshold (where
nothing further depends on it), `MaxTime` covers one expiry and one eviction.
*Store*: a queue of two holds one whole ban (identity and address row) and lets
the next one overflow in the middle; bans of two lengths and an operator's ban
give several rows of different length for one address, in either order; a cache
of one makes eviction happen. A second identity adds nothing the operator's ban
of the same address does not, and with `bulk_unban` in the model it would cost
minutes; the clock runs far enough instead for a ban to be given, written,
expired and given again. It starts at epoch 2 so an epoch is never mistaken for
a small monotonic time.
*Sharing*: a retry queue of one overflows at the second entry, two calls under
way are enough for a late one to overtake; two gateways are enough for a ban to
travel. To see what the loop takes off, one gateway, a queue of two and three
calls: one entry being sent, one behind it, and a third that pushes the first out.
*Path*: two requests in flight let one be banned, or reach the churn limit,
between two gates of the other; every threshold is one, so one signal bans.
*Upstream*: a threshold of two tells a streak from a single failure; a term of
two ticks lets a late failure renew it half-way; a second site shows that the
breaker is shared.
*Buckets and tokens*: bursts that are not multiples of the cost leave fractions;
`MaxAllowance` ends a window after a few refills; four keys overflow both size
limits; `IDLE * REFILL` at the slower host equals the larger burst, the tightest
value the assumption allows. Clocks run past a TTL; replay and probe tables
hold less than there are tokens.
*Sessions*: a limit of one is passed by the second login; two changes may
overlap; two accounts are two administrators that remove each other.
*Settings*: three requests are one to set, one to unset and one around a
restart; a queue of three holds a whole exclusion (two rows) and loses the end
of a longer request. The four environments differ in all that pins or seeds.
*Outside*: a backlog of two, a breaker of two and three attempts give failures
left over when the circuit closes; two lookups are two answers in either order.
*Backends*: three instants are before, in and after a window; one fault makes
every step fail once; two requests are a switch there and back.
*Replicas*: a queue of three batches three operations, two of which may touch one
row; two gateways are one to keep and one to delete. Tables start empty, or as an
operator left them; archives of another gateway come with and without secrets.

**Symmetry** is used where the properties are invariants or action properties
over interchangeable values; the runs with liveness (`services`, `undrained_queue`, `settings`) use none.

`CHECK_DEADLOCK FALSE` stands in `AdminSessions.cfg` and `Replicas.cfg`, whose
instances may stop once the bounded number of requests is spent and nothing is
queued. The others never do.

**Fairness.**
`SharedBans`: weak fairness of the completion of each SET and of the steps of
the flush loop. Each await in them is under `asyncio.wait_for`, so it ends, by
an answer or by a timeout; the loop's sleep is finite. `redisUp` means that Redis
answers within that timeout, so that a call that fails falls into an outage,
however short. Nothing is assumed of requests or operators, nor that a loop is
started: `FlushStart` is fair where there is one.
`Upstream`: weak fairness that each call to a site ends (aiohttp's
`ClientTimeout`), that each fetch of a home page ends (10 s total), strong
fairness that a waiter at a decoy lock gets it (`asyncio.Lock` wakes waiters
first-come-first-served), weak fairness of the clock. No fairness of arrivals.
`Delivery`: weak fairness of the worker, one task whose every await (queue, DNS,
POST) has a limit or something to wake it, and of the clock. None of callers or
of the receiver.

---

## 4. What is proved

All obligations of the eight `_proofs` modules are discharged by TLAPS, for
every value of the constants that satisfies the assumptions the modules name.
Most proofs are of one shape: an inductive invariant, one lemma for each action
that can disturb it, `Spec => []IInv`, and what the runs check as a consequence
of it.

Several modules compute by a recursive function over a queue or a window (what
the queue will leave in a table, how many cookies a window holds). What is true
of such a function for every length is shown by its least counterexample: a
non-empty set of numbers has a least element (`LeastNatural`, from the well-founded
order of the naturals), and the equation of the function at that element
contradicts its being the least.

**RiskScoring** assumes only that durations, thresholds and bounds are numbers
of the right sign, that the NAT threshold is not below the ordinary one
(`ThresholdsAssumption`; the code's defaults) and that identities are finite in
number. The inductive invariant is

    IInv == TypeOK /\ AbsentBlank /\ IndexComplete /\ ScoreEarned /\ VhostIsolation

`VhostIsolation` alone is not inductive: that a vhost ban was earned there
follows when it is given only if the *score* on that vhost never exceeds what
was earned there (`ScoreEarned`), and that survives an LRU drop only if an
absent identity has a blank entry (`AbsentBlank`). `NatIsTolerated` needs
`IndexComplete`: the code counts neighbours through the index, the property
over the whole table. Theorems: `TypeCorrect`, `IndexIsComplete`,
`VhostsAreIsolated`, `BansAreNotShortened`, `NatIsTolerated`.

**Services** holds `Upstream` and `SharedBans`.

    UpstreamIInv == UpstreamTypeOK /\ OpenMeansFailing /\ AskedOnce /\ HolderFetches

One fetch per stale page needs that the request that fetches is the one that
holds the lock (`HolderFetches`), and that a slot which still needs its page
has not been asked for since it grew stale unless its holder is asking now
(`AskedOnce`). `LocksGuardFetches` is inductive with the types: a lock passes
from one fetch to the next and never to a request that does something else. With
fairness it gives `BlockedAreAnswered`. `LateFailuresRunOut` is the measure of
`BreakerRecovers`: while all sites are healthy the term of the breaker is renewed
only by a failure that was in flight before, no request in flight becomes one,
and each is used up by what it does; so the pair (such failures, term) only
falls. That it does fall is liveness, and left to TLC. Theorems:
`UpstreamTypeCorrect`, `OpensOnFailures`, `HerdProtection`, `LocksAreReleased`,
`LateFailuresAreCounted`.

    SharedBansIInv == SharedBansTypeOK /\ Shapes /\ NoneIsSkipped /\ Promised

A memory holds no deadline that was never given only if no copy of a ban holds
one: `Promised` says it of Redis, the calls under way, the retry queue, the
entry the flush loop sends and the answers on their way. `NoneIsSkipped` is
inductive with the types: the entry being sent stays at the head until the limit
drops it, which only a SET that fails with the queue full can do, and that
leaves its mark. Theorems: `SharedBansTypeCorrect`, `NobodyIsBannedLonger`,
`PopsTakeWhatWasSent`, `OnlyOperatorsEndBans`.

**BanStore**

    IInv == TypeOK /\ Requests /\ WriteBehindSound

`WriteBehindSound` looks at the last row of the queue for a key; that a batch
which takes any prefix off the queue and applies any subset of it leaves the
value unchanged, unless the key was given up, is the work of `Stored` and the
lemmas on it. `LedgerImplemented` is the refinement: every step raises rows,
expires some, takes or ends an operator's request, lets time pass, or leaves the
ledger alone. `FreshBansAreEnforced` assumes `DB_BACKEND = "sqlite"`; with
Postgres the statement is false (section 5). Theorems: `TypeCorrect`,
`MemoryAndRowsAgree`, `FreshBansAreEnforced`, `LedgerImplemented`.

**RequestPath**

    IInv     == TypeOK /\ BarredByBans
    ChurnInv == ScoredByPayments /\ \A f \in Fps \ touched : Paid(f)

`BannedMeetsDecoy` speaks of the history `barred`; `BarredByBans` says that this
history is true (every ban in it is running) and, stage by stage, which keys can
no longer be in it once a check has been passed. `Paid` bounds the ledger in the
three states of a fingerprint, never paid for (`Clean`), paid for (`Scored`) and
banned (`Barred`), by the requests that owe for a cookie and those that may
still get one. The assumptions it needs are that one payment bans, or two at a
crowded address (`WeightsAssumption`), and that a ban lasts at least as long as
the window (`TimesAssumption`); both hold for the code's defaults. Theorems:
`TypeCorrect`, `BansHold`, `AllowedAreNotScored`, `ChurnIsBounded`.

**Visitors** holds `TokenBuckets`, `PowTokens`, `CanaryProbe` and `PageReports`.
The buckets assume `IdleIsFull`: `IDLE * REFILL >= MaxBurst`, a bucket
idle long enough to be pruned would have been full. It holds for the default
limits. It does not hold for an endpoint rule whose burst is more than 300
times its `rps`: then a pruned bucket comes back fuller than it was, and the
rate is not bounded by the rule. Their invariant

    IInv == TypeOK /\ IsFiniteSet(DOMAIN table) /\ Covered /\ PromiseKept

strengthens `spent <= allowance` to `spent + level <= allowance`, the level
being what the watched bucket, or the full one that would replace it, still
holds; `PromiseKept` does the same for `Retry-After`: level plus the refill of
the remaining wait reaches `COST`. `SpentOnce` needs that an accepted token is
remembered or its validity over (`Remembering`, and `Noting` for reports);
`HonestBrowserSpared` that a browser with pages to its count was confirmed or
has still to fetch a link that will be known when it does (`Excused`).
Theorems: `TypeCorrect`, `RateIsBounded`, `RetryAfterIsEnough`,
`VisitorsHaveBuckets` (the composition implements the buckets),
`NothingIsSpentTwice`, `BrowsersAreSpared`.

**AdminSessions**

    IInv == TypeOK /\ AccountInv /\ SessionInv /\ SessionsLimited

A start may come after any of the queued operations is written, so `SessionInv`
speaks of every prefix of the queue: at each of them, the sessions a start would
load fit the accounts as they are at that moment (`RowsFit`). `AccountInv` has what
the handlers guarantee of the queue's order (`QueuedInOrder`: they looked at the
table before they queued), and that some administrator of the table is touched
by nothing that waits (`Safeguarded`). Theorems: `TypeCorrect`,
`NoneOutlivesItsAccount`, `LimitHolds`, `SomeoneAdministers`.

**Operators** holds `Settings`, `Delivery` and `Lookups`.

    SettingsIInv == SettingsTypes /\ KnobsInv /\ AllowInv /\ HostsKept /\ CopiesAgree

`RestartKeeps` compares what is in memory with what a start would make of the
stores once the queue is written. `KnobsInv` states it knob by knob, and for the
JA4 knob more strongly than the property: its row alone agrees, and the
exclusion never has to be applied at the start. That is what makes
`NoPostClashes` true of a restart. `AllowInv` adds that an entry is in the
table, in the environment, or in an operation that waits, which is what
`GateStaysClosed` needs when a stop loses the queue. `LookupsIInv` says of every verdict in a cache, in a row, in the queue and on its way that the service
held it when it is said to have (`Honest`). Of `Delivery`, `OpenMeansLost` says
that the circuit never opens around an event that is being posted: there is one
worker, and a loss that opens the circuit is the end of its event. So once an
event has been taken the circuit is closed, and only a receiver that is not up
can open it (`HeardWhileUp`, the safety that `HeardAgain` rests on). Theorems:
`SettingsTypeCorrect`, `AllModulesAgree`, `RestartsKeep`, `PostsNeverClash`,
`GateHolds`, `DeliveryTypeCorrect`, `CircuitIsOpenedByLosses`,
`NoneIsLostWhileUp`, `VerdictsAreFresh`.

**Databases** holds `Backends` and `Replicas`.

    EventsInv == BackendsTypeOK /\ CopyPhase /\ ReadersAgree
                 /\ Timed /\ Placed /\ CopiedOnce /\ (~spoiled => Closing)

`NoGap` speaks of the moments when no copy is under way. `Closing` says of every
moment, and of every event that SQLite has and Postgres lacks, by which procedure
it will still come (`Reachable`): the next backfill, as it is newer than all
rows; the marker, whose cutoff lies above it with no row of Postgres in between
to hide it; or the switch in progress, which has copied its window and has its
marker still to write. `Covered` says that the migration that runs has it on its
list or leaves it to the backfill. Both survive the writer only because events
wait in order of time and go behind all that is stored (`InTurn`, `LiteLast`),
and a batch because the oldest event goes first. `CopiedOnce` needs to know
where an event that waits, or is on the list of a migration, may not be yet
(`Placed`). The proof also shows that the first half of the two-sided watermark
(rows older than any in Postgres, `postgres.py:1150`) is needed only after a
step that failed or a marker that was lost. Theorems: `BackendsTypeCorrect`,
`ReadsFollowWriter`, `EventsAreCopiedOnce`, `NoGapRemains`.

Of `Replicas` the proofs assume that databases and archives hold well-formed
rows (`CapacityAssumption`) and that the rules a database starts with name
gateways it has (`StartsAssumption`). Two properties are about one step and need
only the types: `ImportsNeverWeaken`, `RestoresTakeOverNothing`. `BackupsRestore`
holds of any pair of databases, reachable or not; its second half goes through
the archive made of the restored gateway, field by field. For the registry,

    RegistryInv == OrderOK /\ RegistryFollows /\ RulesFollow /\ OneStays

A rule is checked against the database that is read and written to the other.
`RegistryFollows` says that SQLite has every gateway a handler sees in Postgres
while none of its deletions is on its way, and every gateway whose registration
is on its way with no deletion behind it; that survives a mirror only because
what overtakes is set apart (`Overtaken`), and a batch because it goes behind
every mirror (`OrderOK`: the queue is in the order of requests, all later than
the mirrors). `RulesFollow` extends the property to the rules that are queued,
with the deletions queued before them; `OneStays` says that some gateway that is
there is named by no queued deletion. Operations of two statements can stop
half-way: a deletion leaves the rules of a gateway that is gone, and both the
batch and the mirror then set its rows apart. Between the two statements of a
mirror the other mirrors run; `MirrorsInv` says that what the first statement
did is still there when the second runs, or its rows have been set apart
(`HalfRun`), so that in the end the second leaves what the whole operation would
have (`RestIsDispatch`). What a batch of any length leaves is again
shown by its least counterexample (`BatchKeeps`). For the copies,

    AgreeInv == TablesCatchUp /\ AccountsWait /\ SessionsWait /\ OrdersAgree

`ReplicasAgree` speaks of rows that no mirror is on its way to; `TablesCatchUp`
says of every row that SQLite has what the mirrors on their way will make of
Postgres' row when they run in the order of their requests (`CatchesUp`, a replay
of the effects of `CellAfter`). A mirror that runs out of turn must then leave the
row as its turn would have: it does when its operation and those it goes before
commute, which `EffectsCommute` shows of all pairs that do not count as
overtaking; of those that do the row is set apart. A batch adds its operations
behind all mirrors (`OneMore`), and a mirror takes one away (`OneLess`). The arms of
the two databases differ where a row is there already (`REPLACE` against `ON
CONFLICT`); `AccountsWait` and `SessionsWait` say that no account or session that
waits to be made is there yet, so the difference never shows, and no assumption
on the rows is needed. Theorems: `ReplicasTypeCorrect`, `ImportsNeverWeaken`,
`RestoresTakeOverNothing`, `BackupsRestore`, `RulesFollowRegistry`,
`RegistryKeepsOne`, `CopiesOfTablesAgree`.

**Only model-checked.** Liveness (`DrainsWhereStarted`, `BreakerRecovers`,
`BlockedAreAnswered`, `HeardAgain`): fairness and `ENABLED` are out of TLAPS's
reach; the safety each of them rests on is proved (`NoneIsSkipped`,
`LateFailuresRunOut`, `LocksGuardFetches`, `HeardWhileUp`). Every invariant and
action property of the passing runs is proved. `RECURSIVE` operators are out of
reach too, which is why no module of this project declares one.

**Proved, and in no run.** The last three of those, `OpenMeansFailing` and
`OpenMeansLost`: TLC found no violation of them on the instances of section 3
either, and the runs keep what fairness adds to them.

---

## 5. Where the code and what is said of it disagree

Two runs show one each.

- `rehydrated_ban`: `_rehydrate_bans` (`db/sqlite.py:1856`) copies an epoch into
  a monotonic deadline, and a ban restored at boot ends decades later.
  (`db_load_state` converts `clients.banned_until_epoch` correctly; what it set
  is overwritten.)
- `undrained_queue`: the flush loop is started only on the path of a pending
  migration (`proxy.py:376`), Redis connected on every boot (`proxy.py:888`); on
  an ordinary one the retry queue never drains, where `IMPROVEMENTS.md:189` says
  it does.

The following were met while modelling. Those with a property in parentheses
are stated in the modules and refuted by TLC on the listed instance or on a
variation of it; no run is kept for them. The passing runs hold in spite of all
these, because an exemption named in the property, a constant of the
instance or the wording of the model takes them in.

*Forgotten, unsent, torn.* `evict_expired` (`state.py:183`) forgets an identity
an hour after its last request, whatever its ban (`BansAreRemembered`, where a
ban outlives the eviction); `config.py:76` promises 24 hours of decoys to a
hostile one, and vhost bans go the same way. The address stays banned by its row
in `ip_bans`, where it has one. With the retry queue full, a SET that fails during
the loop's own SET drops the entry being sent; `popleft()` then takes the next
one, which was never sent (`RetriedUntilStored`; `integrations/redis.py:272`,
line 208 says otherwise). The replacement of the distribution rules is two
statements, and neither database runs them in one transaction
(`RulesReplacedWhole`): the pool of Postgres commits each (`db/postgres.py:103`,
`684`), the SQLite writer commits a batch of which an operation failed
(`db/sqlite.py:1081`); `admin/mesh.py:709` says otherwise. A deletion of a gateway
can leave its rules behind in the same way.

*Bans.* With Postgres, address bans are written there and looked up in SQLite
(`db/sqlite.py:2004`). A ban earned on one vhost is published without scope and
comes back global (`VhostBansStay`; `scoring.py:369`, `config.py:83` says
otherwise). An unban by address deletes no row kept by track key
(`proxy_handler.py:5985`). `bulk_unban` skips vhost-only bans,
compares an attribute `IpState` does not have, deletes the rows of a reason that
matches nothing in memory while memory keeps those bans, and when something
matched deletes rows by address that are kept by track key. A row queued before
an unban and written after it brings the ban back at the next boot.

*Breaker, decoy, limits.* Each failed probe resets the count of probes
(`proxy_handler.py:225`), so they are not limited to
`CIRCUIT_HALF_OPEN_MAX` (`ProbesBounded`).
With the breaker open the code answers 503 where `controls.html` speaks of a
cached decoy; the mirror of the site's 404 reads a dictionary of the wrong
level and always answers 404. The switches of rate limiting
(`RATE_LIMIT_ENABLED` and its kin) are read by no request though
`controls.html:1114` documents them; an endpoint rule below 0.5 rps without a
burst has capacity 0 and refuses for ever; an empty vhost window is falsy and
falls back to the global one (`proxy_handler.py:3402`); `request_times` gets
each request twice.

*Pipeline.* A user-agent rule with action ban bans the raw address, which
the ban check of an identity never looks at (`RuleBansBite`; comment at
`proxy_handler.py:3297`). In an Allow window requests pass before any ban is
looked at, against `state.py:86`. The tarpit decays the score with `time.time()`
where `last_risk_update` is monotonic (`proxy_handler.py:635`). Slow bodies of
exempt requests are not scored. An automatically minted challenge cookie of
better days exempts from Turnstile when risk has climbed. Cookie-ghost misses
called consecutive are never reset. `/challenge` asks for work only if a token is
there. The redirect maze is never entered.

*Tokens and probes.* The time of issue is cut to the second, so the floor on
solving time is already met for most tokens; `pow_endpoint` returns a cached
token whatever it was bound to, while `bound_to` names the path that was asked;
the prune loop compares monotonic windows with the time of day and empties
three limiters at each round. Two tokens of one identity and second are the same,
so the second report is called replayed; reports of the first page carry a token
of the identity before the cookie and fail, and BotD scores the browser for it
(`canary.py:206`); BotD's "idempotent" has no deduplication. A challenge nonce
can be used again.

*Sessions.* A login that read the account before a queued change was written
keeps its session (`SessionsFollowAccounts`). SSO cannot complete: login stores
no nonce and the callback refuses a missing one; nor does that path enforce the
session limit. The login limiter's "rolling window" is a fixed one.

*Settings.* `rotate_keys_endpoint` rebinds `SESSION_KEY` in its own module only,
so cookies under the old key go on being accepted until a restart
(`RotationBites`; docstring `proxy_handler.py:2248`). An import sets the
handler's copy of a knob only. Credentials switch Turnstile on without regard to
the knob it excludes; deleting them leaves it on. Entries and hosts that the
environment names return at every boot. A failed read of `admin_ips` at boot
leaves the entries of the environment; with none, the list is empty and open.

*Switch.* A confirmed switch writes its row to SQLite, and `db_load_config`
reads Postgres's (`SwitchTakesEffect`; docstring `proxy_handler.py:4536`). The
end of one migration deletes the marker of a newer switch (`proxy.py:353`);
a second switch to Postgres before the restart overwrites the marker of the
first, and what lay between what Postgres had and the first window is then
inside its range, where no procedure looks (four instants show it; `spoiled`);
the window is measured from the copy and the cutoff from the switch; an
interrupted migration leaves holes; with Postgres each event is inserted twice;
the knob alone, set to sqlite, drops every event; a marker older than a day is
dropped. A DSN re-entered after a rotation and before the restart, which the
comment at `db/sqlite.py:1146` advises, is sealed under the old key and
unreadable at the next boot.

*Replicas and the mesh.* In a mirrored deployment handlers read Postgres
while SQLite is written first; a revocation whose mirror overtakes that of the
login leaves the session active there; when the commit fails the mirrors of the
batch already run. Two queued deletions can empty the registry
(`mesh.py:670`). `gw_registry_add` in Postgres keeps an old private key under a
new public one, as an archive does. Imports and archives read and write SQLite
whatever the deployment; `db.import` loses rules, `auto_apply`, vhost bans and
the revocation of sessions, repeats journals though it calls itself
idempotent, and copies events outside the transaction it says it rolled back.
Signal orders are kept under the host's name until the process that first meets
the local gateway's row is started: those saved before are no longer loaded, an
archive does not carry them, and a first import into a blank gateway drops the
archive's. The automatic import of the first boot never runs, because the
banner writes its marker first (`proxy.py:575`); `db_restore_from_postgres` is
never called; mesh synchronisation uses a name its module does not import.

*Outside.* The dedup key is set before the event is queued: a full queue loses
the event and, for five minutes, its repeats (`webhook.py:198`); alarms and
leaks share one key, so with Redis they swallow each other; the breaker does not
forget its failures when it closes. Nothing calls the evaluator of SIEM rules
(`siem.py:117`) or `feeds_check`. The Tor set is emptied and filled from another
thread, and an exit passes in between.

---

## 6. Not modelled

Left out on purpose: the predicates of single requests (most detectors, JA4,
fingerproxy, endpoint rules, JWT): they keep no state of their own, and what
they may decide is a choice in `RequestPath`; formatting, dashboards, telemetry
no decision reads; cryptography (tokens and ciphertexts are opaque, keys are
numbers); the mesh's synchronisation loop, which publishes nothing; lockouts,
TOTP and OIDC; the columns of `clients` that `db_load_state` reads; the upstream
404 mirror; the evaluator of SIEM rules (`dashboards/siem.py:117`), which nothing
calls; tables only dashboards read; canary echoes, path sweeps and cookie
ghosts; the global request window; the check of the Postgres schema version.
