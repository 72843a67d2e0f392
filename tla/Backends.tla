------------------------------- MODULE Backends -------------------------------
(***************************************************************************)
(* The two event stores and the switch between them (core/proxy_handler.py *)
(* db_switch_endpoint, db/postgres.py, db/sqlite.py, proxy.py on_startup). *)
(* SQLite and Postgres each have an events table; a boot decides which one *)
(* the writer fills, and three procedures copy rows across: the recent     *)
(* window at the switch, the backfill of newer rows at every boot with a   *)
(* DSN, and the migration of older rows a switch leaves a marker for.      *)
(*                                                                         *)
(* An event is its timestamp: one event at most per tick of the clock.  A  *)
(* table is how many rows each event has there, two standing for more.     *)
(* There is one Postgres, so a DSN is a BOOLEAN, set or not; stored, it is *)
(* the number of the session key it is encrypted under.                    *)
(***************************************************************************)
EXTENDS Integers, Sequences

CONSTANTS
  Window,       \* the 60 s of events a switch copies at once
  MaxClock,     \* bound: clock
  MaxWaiting,   \* bound: db_queue
  MaxRequests,  \* bound: operator requests and changed deployments
  MaxFaults     \* bound: failures of Postgres or of a direct SQLite write

ASSUME ConstantsAssumption ==
  /\ {Window, MaxWaiting, MaxRequests, MaxFaults} \subseteq Nat
  /\ MaxClock \in Nat \ {0}

VARIABLES
  clock,
  fresh,      \* the event of this tick is still to come
  env,        \* POSTGRES_DSN in the environment
  dsn,        \* POSTGRES_DSN of proxy_handler and db.postgres
  backend,    \* DB_BACKEND of metrics and db.postgres
  shown,      \* DB_BACKEND of proxy_handler, which event reads go by
  available,  \* _postgres_available
  disabled,   \* _PG_DISABLED_BY_FAILURE
  writer,     \* the branch db_writer_loop took
  liteDsn,    \* SQLite secrets_kv: the key of the DSN there, or NoDsn
  keyFile,    \* the session key on disk
  key,        \* SESSION_KEY of config, as read at the start
  liteRow,    \* SQLite config_kv: DB_BACKEND
  pgRow,      \* Postgres config_kv has a DB_BACKEND row
  marker,     \* SQLite config_kv: pending_bg_migration
  liteTable,  \* SQLite events
  pgTable,    \* Postgres events
  waiting,    \* db_queue
  switch,     \* the /__db-switch request in progress
  exiting,    \* _delayed_exit is scheduled
  migration,  \* the background migration in progress
  requests,   \* requests so far
  faults,     \* failures so far
  staged,     \* history: the shown backend was set without a restart
  doubled,    \* history: events record() also sent to Postgres itself
  again,      \* history: events the recent window copied once more
  straddled,  \* history: events between the window and the cutoff
  spoiled     \* history: Postgres may have gaps no procedure closes

keys == <<keyFile, key>>
settings == <<env, dsn, liteDsn, keys>>
view == <<backend, shown, available, disabled, writer>>
rows == <<liteRow, pgRow, marker>>
tables == <<liteTable, pgTable>>
process == <<switch, exiting, migration>>
history == <<staged, doubled, again, straddled, spoiled>>
backendsVars == <<clock, fresh, settings, view, rows, tables, waiting, process,
                  requests, faults, history>>

Stores == {"sqlite", "postgres"}
Events == 1 .. MaxClock
None == [target |-> "none"]
NoDsn == -1

Held(table) == {e \in Events : table[e] > 0}
InLite == Held(liteTable)
InPg == Held(pgTable)

\* The rows of a table that are of events in S.
Only(table, S) == [e \in Events |-> IF e \in S THEN table[e] ELSE 0]

\* A table with the rows of another inserted.
Added(table, more) ==
  [e \in Events |-> IF table[e] + more[e] > 2 THEN 2 ELSE table[e] + more[e]]

\* The one row an event is written as.
RowOf(e) == [x \in Events |-> IF x = e THEN 1 ELSE 0]

\* db_read_events.
Reader == IF shown = "postgres" /\ available THEN "postgres" ELSE "sqlite"

-----------------------------------------------------------------------------
(***************************************************************************)
(* Events                                                                  *)
(***************************************************************************)

TimePasses ==
  /\ clock < MaxClock
  /\ clock' = clock + 1 /\ fresh' = TRUE
  /\ UNCHANGED <<settings, view, rows, tables, waiting, process, requests,
                 faults, history>>

\* Fault: a queue without a bound.
AlwaysRoom == TRUE

\* put_nowait: a full queue loses what it is given.
HasRoom == Len(waiting) < MaxWaiting
Put(op) == waiting' = IF HasRoom THEN Append(waiting, op) ELSE waiting

EventOp(e) == [op |-> "event", arg |-> e]

\* Something fails, or all works.
Fault == faults < MaxFaults /\ faults' = faults + 1
Works == UNCHANGED faults

\* pg_insert_event: best effort, and nothing under another DB_BACKEND.
Inserted(e) ==
  \/ Works /\ pgTable' = IF backend = "postgres" THEN Added(pgTable, RowOf(e))
                                                ELSE pgTable
  \/ Fault /\ UNCHANGED pgTable

\* record(): an insert of its own, which lands now or never, and the writer's.
Direct == backend = "postgres" /\ available

Record ==
  /\ fresh /\ fresh' = FALSE
  /\ Put(EventOp(clock))
  /\ IF Direct THEN /\ Inserted(clock)
                    /\ doubled' = doubled \cup {clock}
                    /\ spoiled' = (spoiled \/ writer = "sqlite")
               ELSE Works /\ UNCHANGED <<pgTable, doubled, spoiled>>
  /\ UNCHANGED <<clock, settings, view, rows, liteTable, process, requests,
                 staged, again, straddled>>

\* By a Postgres writer, or a mirror task of a process that booted with a DSN.
PgRowWritten ==
  \/ Works /\ pgRow' = (pgRow \/ available)
  \/ Fault /\ UNCHANGED pgRow

WriteFirst ==
  /\ waiting # <<>> /\ waiting' = Tail(waiting)
  /\ LET op == Head(waiting)
     IN \/ /\ op.op = "event"
           /\ IF writer = "postgres"
              THEN Inserted(op.arg) /\ UNCHANGED liteTable
              ELSE /\ liteTable' = Added(liteTable, RowOf(op.arg))
                   /\ Works /\ UNCHANGED pgTable
           /\ UNCHANGED <<liteRow, pgRow, liteDsn>>
        \/ /\ op.op = "set_config"
           /\ liteRow' = IF writer = "sqlite" THEN op.arg ELSE liteRow
           /\ PgRowWritten
           /\ UNCHANGED <<tables, liteDsn>>
        \/ /\ op.op = "secret"
           /\ liteDsn' = IF writer = "sqlite" THEN op.arg ELSE liteDsn
           /\ Works /\ UNCHANGED <<tables, liteRow, pgRow>>
  /\ UNCHANGED <<clock, fresh, env, dsn, keys, view, marker, process, requests,
                 history>>

-----------------------------------------------------------------------------
(***************************************************************************)
(* Operators                                                               *)
(***************************************************************************)

Request == requests < MaxRequests /\ requests' = requests + 1

\* The DB_BACKEND knob, in every module at once.
SetKnob ==
  /\ Request
  /\ \E b \in Stores : /\ backend' = b /\ shown' = b
                       /\ Put([op |-> "set_config", arg |-> b])
  /\ staged' = TRUE
  /\ UNCHANGED <<clock, fresh, settings, available, disabled, writer, rows,
                 tables, process, faults, doubled, again, straddled, spoiled>>

\* _dsn_encrypt: under the key the process started with.
Sealed == key

\* _dsn_decrypt: under session key k.
Opens(k) == liteDsn = k

\* rotate_keys_endpoint: the file, and a copy of the key no DSN is sealed with.
Rotate ==
  /\ Request
  /\ keyFile' = keyFile + 1
  /\ UNCHANGED <<clock, fresh, env, dsn, liteDsn, key, view, rows, tables,
                 waiting, process, faults, history>>

\* POST or DELETE of the POSTGRES_DSN secret.
SetDsn ==
  /\ Request
  /\ \E set \in BOOLEAN : /\ dsn' = (set \/ env)
                          /\ Put([op |-> "secret",
                                  arg |-> IF set THEN Sealed ELSE NoDsn])
  /\ UNCHANGED <<clock, fresh, env, liteDsn, keys, view, rows, tables, process,
                 faults, history>>

\* The probe is part of this step, and leaves the handler on Postgres.
BeginSwitch ==
  /\ Request
  /\ switch = None /\ clock > Window
  /\ \E target \in Stores, body, full, reached \in BOOLEAN :
       /\ IF reached THEN Works ELSE target = "postgres" /\ Fault
       /\ body => target = "postgres"
       /\ target = "postgres" => body \/ dsn
       /\ shown' = IF target = "postgres" THEN "postgres" ELSE shown
       /\ staged' = (staged \/ target = "postgres")
       /\ switch' = IF ~reached THEN None
                    ELSE [target |-> target, body |-> body, full |-> full,
                          ts |-> clock, phase |-> "begun", copied |-> FALSE]
  /\ UNCHANGED <<clock, fresh, settings, backend, available, disabled, writer,
                 rows, tables, waiting, exiting, migration,
                 doubled, again, straddled, spoiled>>

\* _migrate_recent_events, by the DSN of its own module.
Recent(table) == Only(table, {e \in Events : e >= clock - Window})

CopyRecent ==
  /\ switch # None /\ switch.phase = "begun"
  /\ \E works \in BOOLEAN :
       LET copied == IF ~dsn \/ ~works THEN Only(liteTable, {})
                     ELSE Recent(IF switch.target = "postgres" THEN liteTable
                                                               ELSE pgTable)
       IN /\ IF works THEN Works ELSE dsn /\ Fault
          /\ switch' = [switch EXCEPT !.phase = "copied",
                                      !.copied = Held(copied) # {}]
          /\ IF switch.target = "postgres"
             THEN /\ pgTable' = Added(pgTable, copied)
                  /\ again' = again \cup (Held(copied) \cap InPg)
                  /\ straddled' = straddled \cup
                       {e \in InLite : /\ switch.ts - Window <= e
                                       /\ e < clock - Window}
                  /\ UNCHANGED liteTable
             ELSE /\ liteTable' = Added(liteTable, copied)
                  /\ UNCHANGED <<pgTable, again, straddled>>
  /\ UNCHANGED <<clock, fresh, settings, view, rows, waiting, exiting,
                 migration, requests, staged, doubled, spoiled>>

\* The rest of db_switch_endpoint: the marker and the row straight to SQLite,
\* the DSN through the queue.  Each may fail; only success leads to the exit.
Commit ==
  /\ switch # None /\ switch.phase = "copied" /\ switch' = None
  /\ \E marked \in {FALSE, switch.full}, saved \in BOOLEAN :
       /\ IF saved /\ marked = switch.full THEN Works ELSE Fault
       /\ marker' = IF marked THEN [target |-> switch.target,
                                    cutoff |-> switch.ts - Window] ELSE marker
       /\ liteRow' = IF saved THEN switch.target ELSE liteRow
       /\ spoiled' = \/ spoiled
                     \/ switch.target = "postgres" /\ switch.copied /\ ~marked
                     \/ marker.target = "postgres" /\ marker' # marker
       /\ IF saved /\ switch.body THEN Put([op |-> "secret", arg |-> Sealed])
                                   ELSE UNCHANGED waiting
       /\ exiting' = (exiting \/ (saved /\ (switch.body => HasRoom)))
  /\ UNCHANGED <<clock, fresh, settings, view, pgRow, tables,
                 migration, requests, staged, doubled, again, straddled>>

-----------------------------------------------------------------------------
(***************************************************************************)
(* Start                                                                   *)
(***************************************************************************)

\* Fault: only rows older than the target's are copied.
UncoveredBefore(e, there, cutoff) ==
  e < cutoff /\ \A x \in there : x < cutoff => e < x

\* What _bg_sqlite_to_pg and _bg_pg_to_sqlite copy: below the cutoff, what
\* lies outside the range the target has there.
Uncovered(e, there, cutoff) ==
  LET covered == {x \in there : x < cutoff}
  IN /\ e < cutoff
     /\ (\A x \in covered : e < x) \/ (\A x \in covered : e > x)

\* Fault: a DSN alone sends the writer to Postgres.
WriterOfDsn(b, d) == IF d THEN "postgres" ELSE "sqlite"

\* The store db_writer_loop fills.
WriterOf(b, d) == IF b = "postgres" /\ d THEN "postgres" ELSE "sqlite"

\* Fault: the high-water mark is copied again.
NewerOrEqual(e, there) == \A x \in there : e >= x

\* _backfill_events_gap_from_sqlite.
Newer(e, there) == \A x \in there : e > x
Backfill == {e \in InLite : Newer(e, InPg)}

\* _resume_pending_bg_migration, Postgres holding the events there; without a
\* DSN it fails.
Resumed(d, there) ==
  IF marker = None THEN None
  ELSE [target |-> marker.target, cutoff |-> marker.cutoff,
        todo |-> IF ~d THEN {}
                 ELSE IF marker.target = "postgres"
                      THEN {e \in InLite : Uncovered(e, there, marker.cutoff)}
                      ELSE {e \in there : Uncovered(e, InLite, marker.cutoff)}]

\* Work in progress that ends with the process and leaves a gap.
Interrupted == switch # None /\ switch.target = "postgres" /\ switch.copied

\* The end of the process, planned or not, and on_startup.  A deployment may
\* set or unset the DSN; db_init may find Postgres late; the backfill may fail.
Restart ==
  \E deployed, late, filled \in BOOLEAN :
    LET d == deployed \/ Opens(keyFile)
        row == IF ~d THEN liteRow ELSE IF pgRow THEN "postgres" ELSE "none"
        table == IF d /\ filled THEN Added(pgTable, Only(liteTable, Backfill))
                 ELSE pgTable
    IN /\ late => deployed
       /\ ~filled => d /\ Backfill # {}
       /\ IF filled /\ ~late THEN Works ELSE Fault
       /\ IF deployed = env THEN UNCHANGED requests ELSE Request
       /\ env' = deployed /\ dsn' = d /\ key' = keyFile
       /\ backend' = IF row # "none" THEN row
                     ELSE IF deployed THEN "postgres" ELSE "sqlite"
       /\ shown' = IF row = "none" /\ late THEN "sqlite" ELSE backend'
       /\ available' = d /\ disabled' = late
       /\ writer' = WriterOf(backend', d)
       /\ pgTable' = table
       /\ migration' = Resumed(d, Held(table))
       /\ waiting' = <<>> /\ switch' = None /\ exiting' = FALSE
       /\ staged' = FALSE
       /\ spoiled' = \/ spoiled \/ Interrupted \/ ~filled
                     \/ ~d /\ marker.target = "postgres"
       /\ UNCHANGED <<clock, fresh, liteDsn, keyFile, rows, liteTable, doubled,
                      again, straddled>>

\* One batch, here the rows of one event.  The order is that of the ids: the
\* rows the target lacks were written in order of time.
MigrateBatch ==
  /\ migration # None
  /\ \E e \in migration.todo :
       /\ \A x \in migration.todo : e <= x
       /\ migration' = [migration EXCEPT !.todo = @ \ {e}]
       /\ IF migration.target = "postgres"
          THEN /\ pgTable' = Added(pgTable, Only(liteTable, {e}))
               /\ UNCHANGED liteTable
          ELSE /\ liteTable' = Added(liteTable, Only(pgTable, {e}))
               /\ UNCHANGED pgTable
  /\ UNCHANGED <<clock, fresh, settings, view, rows, waiting, switch, exiting,
                 requests, faults, history>>

\* _full_migrate_background returns, all its batches done or one failed.
Returned == IF migration.todo = {} THEN Works ELSE Fault

\* _runner clears the marker, whether the migration worked or not and whichever
\* switch wrote it.
MigrateEnd ==
  /\ migration # None
  /\ migration' = None /\ marker' = None
  /\ Returned
  /\ spoiled' = \/ spoiled
                \/ migration.target = "postgres" /\ migration.todo # {}
                \/ /\ marker.target = "postgres"
                   /\ \/ migration.target # "postgres"
                      \/ migration.cutoff # marker.cutoff
  /\ UNCHANGED <<clock, fresh, settings, view, liteRow, pgRow, tables, waiting,
                 switch, exiting, requests, staged, doubled, again, straddled>>

\* pg_maybe_recover; a failure of db_init_postgres disables Postgres again.
Recover ==
  /\ disabled /\ dsn
  /\ \/ /\ disabled' = FALSE /\ available' = TRUE /\ shown' = "postgres"
        /\ staged' = FALSE
     \/ /\ available' = FALSE /\ shown' = "sqlite"
        /\ UNCHANGED <<disabled, staged>>
  /\ UNCHANGED <<clock, fresh, settings, backend, writer, rows, tables, waiting,
                 process, requests, faults, doubled, again, straddled, spoiled>>

-----------------------------------------------------------------------------
BackendsInit ==
  /\ clock = 1 /\ fresh = TRUE
  /\ keyFile = 0 /\ key = 0
  /\ env \in BOOLEAN /\ liteDsn \in {NoDsn, key}
  /\ dsn = (env \/ Opens(key)) /\ available = dsn
  /\ backend = (IF env THEN "postgres" ELSE "sqlite")
  /\ shown = backend /\ writer = backend /\ disabled = FALSE
  /\ liteRow = "none" /\ pgRow = FALSE /\ marker = None
  /\ liteTable = [e \in Events |-> 0] /\ pgTable = liteTable
  /\ waiting = <<>>
  /\ switch = None /\ exiting = FALSE /\ migration = None
  /\ requests = 0 /\ faults = 0
  /\ staged = FALSE /\ doubled = {} /\ again = {} /\ straddled = {}
  /\ spoiled = FALSE

BackendsNext ==
  \/ TimePasses \/ Record \/ WriteFirst
  \/ SetKnob \/ Rotate \/ SetDsn \/ BeginSwitch \/ CopyRecent \/ Commit
  \/ Restart \/ MigrateBatch \/ MigrateEnd \/ Recover

BackendsSpec == BackendsInit /\ [][BackendsNext]_backendsVars

-----------------------------------------------------------------------------
(***************************************************************************)
(* Properties                                                              *)
(***************************************************************************)

\* Operations the queue may hold.
QueuedOps ==
  [op : {"event"}, arg : Events] \cup [op : {"set_config"}, arg : Stores]
  \cup [op : {"secret"}, arg : {NoDsn} \cup 0 .. MaxRequests]

CountersOK ==
  /\ clock \in 1 .. MaxClock /\ fresh \in BOOLEAN
  /\ requests \in 0 .. MaxRequests /\ faults \in 0 .. MaxFaults
  /\ keyFile \in 0 .. requests /\ key \in 0 .. keyFile
  /\ liteDsn \in {NoDsn} \cup 0 .. keyFile

FlagsOK ==
  /\ env \in BOOLEAN /\ dsn \in BOOLEAN
  /\ backend \in Stores /\ shown \in Stores /\ writer \in Stores
  /\ available \in BOOLEAN /\ disabled \in BOOLEAN
  /\ liteRow \in Stores \cup {"none"} /\ pgRow \in BOOLEAN
  /\ exiting \in BOOLEAN /\ staged \in BOOLEAN /\ spoiled \in BOOLEAN

TablesOK ==
  /\ liteTable \in [Events -> 0 .. 2] /\ pgTable \in [Events -> 0 .. 2]
  /\ doubled \cup again \cup straddled \subseteq Events

\* No DSN is sealed under a key that is yet to be made.
QueueOK ==
  /\ waiting \in Seq(QueuedOps) /\ Len(waiting) <= MaxWaiting
  /\ \A i \in DOMAIN waiting :
       waiting[i].op = "secret" => waiting[i].arg <= keyFile

SwitchOK ==
  switch \in {None} \cup
    [target : Stores, body : BOOLEAN, full : BOOLEAN,
     ts : (Window + 1) .. MaxClock, phase : {"begun", "copied"},
     copied : BOOLEAN]

MigrationOK ==
  /\ marker \in {None} \cup [target : Stores, cutoff : 1 .. MaxClock]
  /\ migration \in {None} \cup
       [target : Stores, cutoff : 1 .. MaxClock, todo : SUBSET Events]

\* Every variable keeps its range, the queue its bound.
BackendsTypeOK ==
  CountersOK /\ FlagsOK /\ TablesOK /\ QueueOK /\ SwitchOK /\ MigrationOK

\* With no switch or migration under way, what SQLite holds and Postgres does
\* not is newer than all Postgres holds, and nothing at all once the writer
\* fills Postgres: no copy hides events from the next backfill behind the rows
\* it writes.  Not so when a copy failed or was skipped, when requests wrote to
\* both stores, when one switch overwrote the marker of another or lost it, or
\* for an event between the cutoff of the marker and the window copied a moment
\* later.
NoGap ==
  migration = None /\ marker = None /\ switch = None /\ ~spoiled =>
    \A e \in InLite \ (InPg \cup straddled) :
      Newer(e, InPg) /\ writer = "sqlite"

\* However often the gateway is switched and restarted, backfill, migration
\* and writer insert an event in Postgres once between them, but for the two
\* inserts of record() under Postgres and a repeated recent window.
CopiedOnce == \A e \in Events \ (doubled \cup again) : pgTable[e] <= 1

\* Event reads come from the store the writer fills, from boot on, until an
\* operator stages the other one or while Postgres has yet to be re-enabled.
EventReadsFollow == Reader = writer \/ staged \/ disabled

\* Not kept by the code (the row goes to SQLite and is read from Postgres): a
\* switch that was confirmed, with its DSN stored and nothing left in the
\* queue, has taken effect after the restart it asks for, in a deployment that
\* leaves the DSN to the gateway.
SwitchTakesEffect ==
  [][exiting /\ ~exiting' /\ waiting = <<>> /\ liteDsn # NoDsn /\ ~env /\ ~env'
       => writer' = liteRow]_backendsVars
=============================================================================
