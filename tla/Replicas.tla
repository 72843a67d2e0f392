------------------------------ MODULE Replicas ------------------------------
(***************************************************************************)
(* The operators' tables in two databases (db/sqlite.py, db/postgres.py,   *)
(* db/conn.py), with the gateway registry (admin/mesh.py) as the client    *)
(* whose checks read what the writer has not written yet.                  *)
(*                                                                         *)
(* Three deployments: "sqlite" has no Postgres; in "both" the writer fills *)
(* SQLite and mirrors each operation by a task of its own, while every     *)
(* handler reads Postgres (a DSN is set); in "pg" SQLite is left alone.    *)
(* A batch of the writer runs without giving up the event loop.            *)
(***************************************************************************)
EXTENDS Transfers, Sequences, FiniteSets

CONSTANTS
  MaxQueue,     \* capacity of db_queue
  Starts,       \* tables a behaviour of a family starts from
  Archives,     \* archives of other gateways
  MaxOps        \* bound: requests of operators, copies included

Families == {"settings", "accounts", "sessions", "bans", "mesh", "orders"}
Archivable == {"settings", "accounts", "mesh", "orders"}  \* what archives hold

ASSUME CapacityAssumption ==
  /\ MaxQueue \in Nat \ {0}
  /\ Starts \in [Families -> SUBSET Database]
  /\ Archives \subseteq Archive /\ Nothing \notin Archive
  /\ IsFiniteSet(Gateways)
  /\ MaxOps \in [Families -> Nat]

\* Rules are about gateways of the registry to begin with.
ASSUME StartsAssumption ==
  \A f \in Families : \A db \in Starts[f] : \A r \in db.rules :
    \A g \in {r[1], r[2]} : db.gateways[g] # Nothing

VARIABLES
  mode,         \* the deployment
  family,       \* the tables this behaviour is about
  knownAs,      \* _LOCAL_GW_ID, of the two names of this gateway
  cache,        \* _signal_order_cache
  lite,         \* the SQLite file, as committed
  pg,           \* Postgres
  queue,        \* db_queue
  mirrors,      \* tasks of _pg_mirror_bg that have not run to the end yet
  begun,        \* those of them whose first of two statements has run
  archive,      \* the archive of the configuration in the operator's hands
  sent,         \* requests of operators so far
  skewed,       \* history: rows whose copies an accident has set apart
  apart,        \* history: the same, of signal orders
  unchecked,    \* history: gateways named by rules while their deletion was
                \* queued, or by the rules of an archive
  rushed        \* history: a deletion was accepted while another was pending

historyVars == <<skewed, apart, unchecked, rushed>>
fixed == <<mode, family>>
self == <<knownAs, cache>>
mirrorVars == <<mirrors, begun>>
replicasVars ==
  <<fixed, self, lite, pg, queue, mirrorVars, archive, sent, historyVars>>

Modes == {"sqlite", "both", "pg"}
Rows == Keys \cup Users \cup Sids \cup Addresses \cup Gateways
        \cup {"rules", "journal"}

RangeOf(s) == {s[i] : i \in DOMAIN s}

-----------------------------------------------------------------------------
(***************************************************************************)
(* Handlers                                                                *)
(***************************************************************************)

\* open_conn: Postgres is read whenever a DSN is set.
Read == IF mode = "sqlite" THEN lite ELSE pg

\* Operations queued or on their way to Postgres.
Pending == {e.op : e \in RangeOf(queue) \cup mirrors}

\* put_nowait, one after the other; what finds the queue full is dropped.
Enqueue(ops) ==
  LET room == MaxQueue - Len(queue)
      fit  == IF Len(ops) <= room THEN Len(ops) ELSE room
  IN /\ sent < MaxOps[family]
     /\ queue' = queue \o [i \in 1 .. fit |-> [op |-> ops[i], at |-> sent + 1]]
     /\ sent' = sent + 1
     /\ UNCHANGED <<fixed, self, pg, mirrorVars>>

\* The settings, secrets and admin-IP handlers write without reading.
SettingRequests ==
  [kind : {"set_config"}, key : Keys, value : Values]
  \cup [kind : {"del_config"}, key : Keys]

\* The account handlers look the account up first.
AccountRequests ==
  LET known == {u \in Users : Read.accounts[u] # Nothing}
  IN [kind : {"user_create"}, key : Users \ known, password : Values]
     \cup [kind : {"user_update"}, key : known,
           patch : AccountPatch]
     \cup [kind : {"user_delete"}, key : known]

\* A session id is new; the cache knows the sessions that were opened.
SessionRequests ==
  LET opened == {s \in Sids : \/ lite.sessions[s] # Nothing
                              \/ pg.sessions[s] # Nothing
                              \/ \E op \in Pending : op.key = s}
  IN [kind : {"user_session_create"}, key : Sids \ opened]
     \cup [kind : {"user_session_revoke"}, key : opened]

BanRequests ==
  [kind : {"ip_ban"}, key : Addresses, until : Untils \ {0}]
  \cup [kind : {"ip_ban_del"}, key : Addresses]

Write ==
  /\ \E op \in CASE family = "settings" -> SettingRequests
                 [] family = "accounts" -> AccountRequests
                 [] family = "sessions" -> SessionRequests
                 [] family = "bans"     -> BanRequests
                 [] OTHER               -> {} :
       /\ Len(queue) < MaxQueue
       /\ Enqueue(<<op>>)
  /\ UNCHANGED <<lite, archive, historyVars>>

\* A handler of the registry: its operation, or a 503, and a record of it.
Book(op) ==
  /\ Len(queue) < MaxQueue
  /\ Enqueue(<<op, [kind |-> "gw_audit_add", key |-> "journal"]>>)
  /\ UNCHANGED <<lite, archive>>

Known == {g \in Gateways : Read.gateways[g] # Nothing}

\* gw_registry_create_endpoint: a lookup that fails finds no row either.  A
\* remote gateway's private key is not kept.
Register(g, keys, isLocal, lookedUp) ==
  /\ lookedUp => g \notin Known
  /\ Book([kind |-> "gw_registry_add", key |-> g, public |-> keys,
           private |-> IF isLocal THEN keys ELSE Nothing,
           local |-> isLocal, status |-> "active"])
  /\ UNCHANGED historyVars

\* gw_registry_update_endpoint, and can_distribute likewise.
Amend(g, status) ==
  /\ g \in Known
  /\ Book([kind |-> "gw_registry_update", key |-> g,
           patch |-> [status |-> status]])
  /\ UNCHANGED historyVars

\* gw_registry_auto_apply_endpoint: remote gateways only.
TrustPeer(g, on) ==
  /\ g \in Known /\ ~ Read.gateways[g].local
  /\ Book([kind |-> "gw_registry_update", key |-> g,
           patch |-> [auto_apply |-> on]])
  /\ UNCHANGED historyVars

\* gw_registry_rotate_key_endpoint.
RotateKey(g, keys) ==
  /\ g \in Known
  /\ Book([kind |-> "gw_registry_update", key |-> g,
           patch |-> [public |-> keys,
                      private |-> IF Read.gateways[g].local THEN keys
                                                            ELSE Nothing]])
  /\ UNCHANGED historyVars

\* Fault: the count of the registry is not looked at.
DeletableUncounted(g) == g \in Known /\ ~ Read.gateways[g].local

\* Neither the local gateway nor the last one.
Deletable(g) ==
  /\ g \in Known /\ ~ Read.gateways[g].local
  /\ Cardinality(Known) > 1

\* gw_registry_delete_endpoint.
Delete(g) ==
  /\ Deletable(g)
  /\ Book([kind |-> "gw_registry_delete", key |-> g])
  /\ rushed' = (rushed \/ \E op \in Pending : op.kind = "gw_registry_delete")
  /\ UNCHANGED <<skewed, apart, unchecked>>

\* Both ends are registered.
Acceptable == {r \in Rules : {r[1], r[2]} \subseteq Known}

\* gw_registry_distribution_rules_endpoint: the whole set is replaced.
SetRules(rules) ==
  /\ rules \subseteq Acceptable
  /\ Book([kind |-> "gw_distribution_replace", key |-> "rules", rules |-> rules])
  /\ unchecked' = unchecked \cup
       {g \in Gateways :
          /\ \E r \in rules : g \in {r[1], r[2]}
          /\ \E op \in Pending : op.kind = "gw_registry_delete" /\ op.key = g}
  /\ UNCHANGED <<skewed, apart, rushed>>

\* This gateway enters the registry.  Bound: once.
Enrol ==
  /\ family = "orders"
  /\ ~ Named(Read) /\ \A op \in Pending : op.kind # "gw_registry_add"
  /\ \E g \in Gateways, keys \in KeyPairs : Register(g, keys, TRUE, TRUE)

\* _save_signal_order: SQLite, the cache and Postgres, at once; without SQLite
\* nothing happens, without Postgres nobody is told.
StoreOrder(row, n, reached) ==
  /\ lite' = [lite EXCEPT !.orders[row] = n]
  /\ cache' = [cache EXCEPT ![row[2]] = n]
  /\ pg' = IF mode # "sqlite" /\ reached
           THEN [pg EXCEPT !.orders[row] = n] ELSE pg
  /\ apart' = IF reached THEN apart \ {row} ELSE apart \cup {row}

\* signal_orders_endpoint.
SaveOrder ==
  /\ family = "orders"
  /\ sent < MaxOps[family] /\ sent' = sent + 1
  /\ \E s \in Signals, n \in Orders, reached \in BOOLEAN :
       StoreOrder(<<knownAs, s>>, n, reached)
  /\ UNCHANGED <<fixed, knownAs, queue, mirrorVars, archive, skewed, unchecked, rushed>>

Registry ==
  /\ family = "mesh"
  /\ \/ \E g \in Gateways, keys \in KeyPairs, isLocal \in BOOLEAN,
           lookedUp \in BOOLEAN :
          Register(g, keys, isLocal, lookedUp)
     \/ \E g \in Gateways, status \in Statuses : Amend(g, status)
     \/ \E g \in Gateways, on \in BOOLEAN : TrustPeer(g, on)
     \/ \E g \in Gateways, keys \in KeyPairs : RotateKey(g, keys)
     \/ \E g \in Gateways : Delete(g)
     \/ \E rules \in SUBSET Rules : SetRules(rules)

-----------------------------------------------------------------------------
(***************************************************************************)
(* The writer and its mirrors                                              *)
(***************************************************************************)

\* The arm of the branch that runs.
Done(db, op) == IF mode = "pg" THEN PgDispatch(db, op) ELSE LiteApply(db, op)

Begun(db, op) == IF mode = "pg" THEN PgBegun(db, op) ELSE LiteApplyHalf(db, op)

\* What became of an operation: "done", "failed" (nothing happened) or "half"
\* (its second statement failed).
Outcomes(e) ==
  {"done", "failed"} \cup
  (IF e.op.kind \in TwoStatements THEN {"half"} ELSE {})

Outcome(db, op, how) ==
  CASE how = "done"   -> Done(db, op)
    [] how = "half"   -> Begun(db, op)
    [] how = "failed" -> db

\* What the operations of a batch make of the writer's database.
Written(db, batch, how) ==
  LET after[i \in 0 .. Len(batch)] ==
        IF i = 0 THEN db ELSE Outcome(after[i - 1], batch[i].op, how[i])
  IN after[Len(batch)]

\* Fault: an operation is mirrored whether or not SQLite took it.
MirroredAnyway(how) == DOMAIN how

\* The operations of a batch that are mirrored.
Mirrored(how) == {i \in DOMAIN how : how[i] = "done"}

\* The ways in which the operations of a batch may turn out.
Courses == {how \in [1 .. Len(queue) -> {"done", "failed", "half"}] :
              \A i \in DOMAIN queue : how[i] \in Outcomes(queue[i])}

\* db_writer_loop on SQLite: an operation that raises is skipped, one that
\* succeeds is mirrored at once, and the commit of the batch may fail.
WriteBatch ==
  /\ mode \in {"sqlite", "both"} /\ queue # << >>
  /\ \E how \in Courses, committed \in BOOLEAN :
       LET torn == {i \in DOMAIN queue : how[i] = "half"}
       IN /\ lite' = IF committed THEN Written(lite, queue, how) ELSE lite
          /\ mirrors' = IF mode = "both"
                        THEN mirrors \cup {queue[i] : i \in Mirrored(how)}
                        ELSE mirrors
          /\ skewed' = skewed \cup
               UNION {Touches(queue[i].op) :
                        i \in IF committed THEN torn
                             ELSE {j \in DOMAIN queue : how[j] = "done"}}
  /\ queue' = << >>
  /\ rushed' = FALSE
  /\ UNCHANGED <<fixed, self, pg, begun, archive, sent, apart, unchecked>>

\* db_writer_loop on Postgres: every statement commits as it runs.
WritePg ==
  /\ mode = "pg" /\ queue # << >>
  /\ \E how \in Courses :
       /\ pg' = Written(pg, queue, how)
       /\ skewed' = skewed \cup
            UNION {Touches(queue[i].op) : i \in {j \in DOMAIN queue : how[j] = "half"}}
  /\ queue' = << >>
  /\ rushed' = FALSE
  /\ UNCHANGED <<fixed, self, lite, mirrorVars, archive, sent, apart, unchecked>>

\* Operations whose order does not matter.
Commute(a, b) ==
  \/ a.kind = "ip_ban" /\ b.kind = "ip_ban"
  \/ a.kind \in JournalOps /\ b.kind \in JournalOps

\* Rows on which m overtakes a mirror that was queued before it.
Overtaken(m) ==
  UNION {Touches(m.op) \cap Touches(e.op) :
           e \in {f \in mirrors : f.at < m.at /\ ~ Commute(f.op, m.op)}}

\* The thread of one mirror has run the first of two statements; those of
\* other mirrors may run before the second one.
MirrorBegins ==
  \E m \in mirrors \ begun :
    /\ m.op.kind \in TwoStatements
    /\ begun' = begun \cup {m}
    /\ pg' = PgBegun(pg, m.op)
    /\ skewed' = skewed \cup Overtaken(m)
    /\ UNCHANGED <<fixed, self, lite, queue, mirrors, archive, sent, apart, unchecked, rushed>>

\* What is left of a mirror to run.
Rest(db, m) == IF m \in begun THEN PgFinished(db, m.op) ELSE PgDispatch(db, m.op)

\* _pg_mirror_kv in a thread of the task; a failure is logged and forgotten.
Mirror ==
  \E m \in mirrors, reached \in BOOLEAN :
    /\ mirrors' = mirrors \ {m} /\ begun' = begun \ {m}
    /\ pg' = IF reached THEN Rest(pg, m) ELSE pg
    /\ skewed' = skewed \cup (IF reached THEN Overtaken(m) ELSE Touches(m.op))
    /\ UNCHANGED <<fixed, self, lite, queue, archive, sent, apart, unchecked, rushed>>

\* _gw_local_id, asked first by _load_signal_order_cache, both with failing reads.
Boot ==
  /\ knownAs' \in {"host"} \cup IF Named(Read) THEN {"local"} ELSE {}
  /\ cache' \in {[s \in Signals |-> lite.orders[<<knownAs', s>>]],
                [s \in Signals |-> Nothing]}

\* The process dies and starts again.
Crash ==
  /\ queue' = << >> /\ mirrors' = {} /\ begun' = {}
  /\ skewed' = skewed \cup UNION {Touches(m.op) : m \in mirrors}
  /\ rushed' = FALSE
  /\ IF family = "orders" THEN Boot ELSE UNCHANGED self
  /\ UNCHANGED <<fixed, lite, pg, archive, sent, apart, unchecked>>

-----------------------------------------------------------------------------
(***************************************************************************)
(* Copies made by the operator                                             *)
(***************************************************************************)

\* settings_export_endpoint.  Bound: one archive in a behaviour.
SaveArchive ==
  /\ archive = Nothing /\ family \in Archivable
  /\ sent < MaxOps[family] /\ sent' = sent + 1
  /\ \E withSecrets \in BOOLEAN, sections \in SUBSET Sections :
       archive' = Archived(Readable(lite, sections), withSecrets)
  /\ UNCHANGED <<fixed, self, lite, pg, queue, mirrorVars, historyVars>>

\* The rows a copy of SQLite's tables changed, and the signal orders.
Altered(old, new) ==
  {k \in Keys : old.settings[k] # new.settings[k]}
  \cup {u \in Users : old.accounts[u] # new.accounts[u]}
  \cup {g \in Gateways : old.gateways[g] # new.gateways[g]}
  \cup {r \in {"rules"} : old.rules # new.rules}
Reordered(old, new) == {r \in Names \X Signals : old.orders[r] # new.orders[r]}

\* settings_import_endpoint, its data sections: SQLite is written directly, and
\* alone, whatever the deployment.
Restore ==
  /\ archive # Nothing
  /\ \E sections \in SUBSET Sections :
       lite' = Restored(lite, archive, sections)
  /\ Enqueue(<<[kind |-> "gw_audit_add", key |-> "journal"]>>)
  /\ skewed' = skewed \cup Altered(lite, lite')
  /\ apart' = apart \cup Reordered(lite, lite')
  /\ unchecked' = unchecked \cup
       {g \in Gateways : \E r \in lite'.rules \ lite.rules : g \in {r[1], r[2]}}
  /\ UNCHANGED <<archive, rushed>>

\* db.import, on the way to Postgres or once more after it.
Import ==
  /\ mode \in {"sqlite", "pg"}
  /\ sent < MaxOps[family] /\ sent' = sent + 1
  /\ pg' = Imported(pg, lite)
  /\ UNCHANGED <<fixed, self, lite, queue, mirrorVars, archive, historyVars>>

\* db.export --force over the file the gateway no longer uses.
Export ==
  /\ mode = "pg"
  /\ sent < MaxOps[family] /\ sent' = sent + 1
  /\ lite' = Exported(pg)
  /\ apart' = apart \cup Reordered(lite, lite')
  /\ UNCHANGED <<fixed, self, pg, queue, mirrorVars, archive, skewed, unchecked, rushed>>

-----------------------------------------------------------------------------
ReplicasInit ==
  /\ mode \in Modes /\ family \in Families
  /\ lite \in Starts[family] /\ pg = lite
  /\ knownAs = "host" /\ cache = [s \in Signals |-> Nothing]
  /\ archive \in {Nothing} \cup IF family \in Archivable THEN Archives ELSE {}
  /\ queue = << >> /\ mirrors = {} /\ begun = {} /\ sent = 0
  /\ skewed = {} /\ apart = {} /\ unchecked = {} /\ rushed = FALSE

ReplicasNext ==
  Write \/ Registry \/ Enrol \/ SaveOrder \/ WriteBatch \/ WritePg
  \/ MirrorBegins \/ Mirror \/ Crash
  \/ SaveArchive \/ Restore \/ Import \/ Export

ReplicasSpec == ReplicasInit /\ [][ReplicasNext]_replicasVars

-----------------------------------------------------------------------------
(***************************************************************************)
(* Properties                                                              *)
(***************************************************************************)

Operations ==
  SettingRequests \cup BanRequests
  \cup [kind : {"user_create"}, key : Users, password : Values]
  \cup [kind : {"user_update"}, key : Users,
        patch : AccountPatch]
  \cup [kind : {"user_delete"}, key : Users]
  \cup [kind : SessionOps, key : Sids]
  \cup [kind : JournalOps, key : {"journal"}]
  \cup [kind : {"gw_registry_add"}, key : Gateways, public : KeyPairs,
        private : KeyPairs \cup {Nothing}, local : BOOLEAN, status : Statuses]
  \cup [kind : {"gw_registry_update"}, key : Gateways,
        patch : GatewayPatch]
  \cup [kind : {"gw_registry_delete"}, key : Gateways]
  \cup [kind : {"gw_distribution_replace"}, key : {"rules"},
        rules : SUBSET Rules]

\* An operation with the request that asked for it.
Queued == [op : Operations, at : Nat]

DeploymentOK ==
  /\ mode \in Modes /\ family \in Families
  /\ knownAs \in Names /\ cache \in [Signals -> Orders \cup {Nothing}]
  /\ sent \in 0 .. MaxOps[family]

DatabasesOK ==
  /\ lite \in Database /\ pg \in Database
  /\ archive \in Archive \cup {Nothing}

PendingOK ==
  /\ queue \in Seq(Queued) /\ Len(queue) <= MaxQueue
  /\ mirrors \subseteq Queued
  /\ begun \subseteq {m \in mirrors : m.op.kind \in TwoStatements}
  /\ \A e \in RangeOf(queue) \cup mirrors : e.at \in 1 .. sent

HistoryOK ==
  /\ skewed \subseteq Rows /\ apart \subseteq Names \X Signals
  /\ unchecked \subseteq Gateways /\ rushed \in BOOLEAN

\* Databases, queue and mirrors hold rows and operations, the queue no more than
\* its capacity.
ReplicasTypeOK == DeploymentOK /\ DatabasesOK /\ PendingOK /\ HistoryOK

\* The columns of a gateway both databases agree about: a registration over a
\* row that is there keeps its other columns in Postgres only.
Shared(row) ==
  IF row = Nothing THEN Nothing
  ELSE [public |-> row.public, local |-> row.local, status |-> row.status]

\* No mirror on its way changes this row.
Settled(row) == row \notin skewed /\ \A m \in mirrors : row \notin Touches(m.op)

\* The mirror ("lets the standby backend stay in sync so a backend swap loses
\* no configuration"): a row none of whose writes was lost, torn or overtaken
\* between the two databases is the same in both as soon as its last mirror
\* has run, whatever happened to other rows. And the orders of signals, which go
\* around the queue: both databases hold, under the name the gateway goes by,
\* what it runs with.
ReplicasAgree ==
  /\ \A s \in Signals :
       LET row == <<knownAs, s>>
       IN row \notin apart =>
            /\ mode # "sqlite" => lite.orders[row] = pg.orders[row]
            /\ cache[s] # Nothing => cache[s] = lite.orders[row]
  /\ mode = "both" =>
       /\ \A k \in Keys : Settled(k) => lite.settings[k] = pg.settings[k]
       /\ \A u \in Users : Settled(u) => lite.accounts[u] = pg.accounts[u]
       /\ \A s \in Sids : Settled(s) => lite.sessions[s] = pg.sessions[s]
       /\ \A a \in Addresses : Settled(a) => lite.bans[a] = pg.bans[a]
       /\ \A g \in Gateways :
            Settled(g) => Shared(lite.gateways[g]) = Shared(pg.gateways[g])
       /\ Settled("rules") => lite.rules = pg.rules
       /\ Settled("journal") => lite.journal = pg.journal

\* The database the deployment writes first.
Primary == IF mode = "pg" THEN pg ELSE lite

\* Distribution rules name registered gateways: a rule is checked when it is
\* asked for and written later, and still dangles only when the deletion of
\* its gateway was already queued, when an archive brought it in, or when an
\* accident tore the deletion apart.
RulesNameGateways ==
  \A r \in Primary.rules : \A g \in {r[1], r[2]} :
    \/ Primary.gateways[g] # Nothing
    \/ g \in unchecked \cup skewed

\* mesh.py on gw_registry_distribution_rules_endpoint: "Replaces the entire
\* rule set in one transaction".  Where no gateway is deleted, a batch of the
\* writer leaves the rules alone, or as one of its requests wanted them.
RulesReplacedWhole ==
  [][WriteBatch \/ WritePg =>
       LET asked == {e.op : e \in RangeOf(queue)}
       IN (\A op \in asked : op.kind # "gw_registry_delete") =>
            \/ Primary'.rules = Primary.rules
            \/ \E op \in asked : /\ op.kind = "gw_distribution_replace"
                                 /\ op.rules = Primary'.rules]_replicasVars

\* "There must always be at least one row": with one database, a registry that
\* has gateways is emptied only by two deletions accepted before either was
\* written.
LastGatewayStays ==
  [][(/\ mode # "both"
      /\ \E g \in Gateways : Primary.gateways[g] # Nothing
      /\ \A g \in Gateways : Primary'.gateways[g] = Nothing)
     => rushed]_replicasVars

\* db.import is safe to run on a Postgres in use: it never shortens a ban of an
\* address, revives a revoked session, drops a second factor, a private key or
\* a row.
ImportNeverWeakens ==
  [][Import =>
      /\ \A a \in Addresses : pg'.bans[a] >= pg.bans[a]
      /\ \A s \in Sids : pg.sessions[s] = "revoked" => pg'.sessions[s] = "revoked"
      /\ \A u \in Users :
           pg.accounts[u] # Nothing =>
             pg'.accounts[u] # Nothing /\ (pg.accounts[u].totp => pg'.accounts[u].totp)
      /\ \A g \in Gateways :
           pg.gateways[g] # Nothing =>
             /\ pg'.gateways[g] # Nothing
             /\ pg.gateways[g].private # Nothing => pg'.gateways[g].private # Nothing
             /\ pg.gateways[g].auto_apply = pg'.gateways[g].auto_apply
      /\ pg'.rules = pg.rules]_replicasVars

\* Moving house with either kind of backup. What db.export takes out of
\* Postgres, db.import brings back into a new one, but for the rules, the
\* auto_apply flags and the revocation of sessions; and an archive with secrets
\* gives a blank gateway the secrets, passwords, gateways and rules of the one
\* it was made on, and a second import its signal orders.
BackupRestores ==
  /\ Carried(Imported(Empty, Exported(pg))) = Carried(pg)
  /\ LET made == Archived(lite, TRUE)
         once == Restored(Empty, made, Sections)
     IN /\ [Archived(once, TRUE) EXCEPT !.orders = made.orders] = made
        /\ Archived(Restored(once, made, Sections), TRUE) = made

\* Restoring an archive, of whatever gateway and age, takes over no account and
\* no key in use ("an existing admin is never silently overwritten"; "NEVER
\* overwrite the local row's private_key"), makes no gateway local that was
\* not, and removes nothing.
RestoreTakesOverNothing ==
  [][Restore =>
      /\ \A u \in Users :
           lite.accounts[u] # Nothing => lite'.accounts[u] = lite.accounts[u]
      /\ \A g \in Gateways :
           lite.gateways[g] # Nothing =>
             /\ lite'.gateways[g] # Nothing
             /\ lite'.gateways[g].local = lite.gateways[g].local
             /\ lite.gateways[g].private # Nothing =>
                  lite'.gateways[g].private = lite.gateways[g].private
      /\ \A k \in Keys : lite.settings[k] # Nothing => lite'.settings[k] # Nothing
      /\ lite.rules \subseteq lite'.rules]_replicasVars

=============================================================================
