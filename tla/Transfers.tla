----------------------------- MODULE Transfers -----------------------------
(***************************************************************************)
(* The tools that copy one database into the other: db.import (SQLite to   *)
(* Postgres, through the arms of the writer, in one transaction) and       *)
(* db.export (Postgres to a new SQLite file, column by column).  Events,   *)
(* metrics and the tables without a name here are left out.                *)
(***************************************************************************)
EXTENDS PostgresArms, SqliteArms

\* Each row of one table of `lite`, dispatched to the arm of its operation.
ImportedSettings(pg, lite) ==
  [k \in Keys |->
     IF lite.settings[k] = Nothing THEN pg.settings[k]
     ELSE PgSetting(pg.settings, [kind |-> "set_config", key |-> k,
                                  value |-> lite.settings[k]])[k]]

\* user_create for the base columns, then user_update for the TOTP columns
\* that are set.
ImportedAccounts(pg, lite) ==
  [u \in Users |->
     IF lite.accounts[u] = Nothing THEN pg.accounts[u]
     ELSE LET row == PgAccount(pg.accounts,
                       [kind |-> "user_create", key |-> u,
                        password |-> lite.accounts[u].password])[u]
          IN IF lite.accounts[u].totp THEN [row EXCEPT !.totp = TRUE] ELSE row]

\* The plan has no column for the status of a session.
ImportedSessions(pg, lite) ==
  [s \in Sids |->
     IF lite.sessions[s] = Nothing THEN pg.sessions[s]
     ELSE PgSession(pg.sessions, [kind |-> "user_session_create", key |-> s])[s]]

ImportedBans(pg, lite) ==
  [a \in Addresses |->
     IF lite.bans[a] = 0 THEN pg.bans[a]
     ELSE PgBan(pg.bans, [kind |-> "ip_ban", key |-> a,
                          until |-> lite.bans[a]])[a]]

\* The plan has no column for auto_apply.
ImportedGateways(pg, lite) ==
  [g \in Gateways |->
     IF lite.gateways[g] = Nothing THEN pg.gateways[g]
     ELSE PgGateway(pg.gateways,
            [kind |-> "gw_registry_add", key |-> g,
             public |-> lite.gateways[g].public,
             private |-> lite.gateways[g].private,
             local |-> lite.gateways[g].local,
             status |-> lite.gateways[g].status])[g]]

\* python -m db.import.  Journals are appended once more, rules stay behind.
Imported(pg, lite) ==
  [settings |-> ImportedSettings(pg, lite),
   accounts |-> ImportedAccounts(pg, lite),
   sessions |-> ImportedSessions(pg, lite),
   bans     |-> ImportedBans(pg, lite),
   journal  |-> pg.journal + lite.journal,
   gateways |-> ImportedGateways(pg, lite),
   rules    |-> pg.rules,
   orders   |-> pg.orders]

\* Fault: the plan forgets the private keys.
ExportedKeyless(pg) ==
  [pg EXCEPT !.orders = Empty.orders, !.gateways =
     [g \in Gateways |-> IF @[g] = Nothing THEN Nothing
                         ELSE [@[g] EXCEPT !.private = Nothing]]]

\* python -m db.export: a fresh file with every table of the plan, which has no
\* signal orders.
Exported(pg) ==
  [pg EXCEPT !.orders = Empty.orders, !.gateways =
     [g \in Gateways |-> IF @[g] = Nothing THEN Nothing
                         ELSE [@[g] EXCEPT !.auto_apply = FALSE]]]

-----------------------------------------------------------------------------
(***************************************************************************)
(* Archives of the configuration (admin/settings.py): made of the SQLite   *)
(* file and read back into it, whatever the deployment.                    *)
(***************************************************************************)

Sections == {"secrets", "users", "signal_orders", "gw_registry",
             "gw_distribution"}

\* What an export reads: a section that fails is left empty, as are all of them
\* when the file does not open.
Readable(db, sections) ==
  [db EXCEPT
     !.settings = IF "secrets" \in sections THEN @ ELSE Empty.settings,
     !.accounts = IF "users" \in sections THEN @ ELSE Empty.accounts,
     !.gateways = IF "gw_registry" \in sections THEN @ ELSE Empty.gateways,
     !.rules = IF "gw_distribution" \in sections THEN @ ELSE Empty.rules,
     !.orders = IF "signal_orders" \in sections THEN @ ELSE Empty.orders]

\* _settings_build_xml: a private key leaves with the secrets, and only if it
\* is the local gateway's.  TOTP columns stay behind, and signal orders unless
\* the registry names this gateway.
Archived(db, withSecrets) ==
  [settings |-> [k \in Keys |-> IF withSecrets THEN db.settings[k] ELSE Nothing],
   passwords |-> [u \in Users |->
                    IF withSecrets /\ db.accounts[u] # Nothing
                    THEN db.accounts[u].password ELSE Nothing],
   gateways |-> [g \in Gateways |->
                   IF db.gateways[g] = Nothing THEN Nothing
                   ELSE [db.gateways[g] EXCEPT
                           !.private = IF withSecrets /\ db.gateways[g].local
                                       THEN @ ELSE Nothing]],
   rules |-> db.rules,
   orders |-> [s \in Signals |-> IF Named(db) THEN db.orders[<<"local", s>>]
                                            ELSE Nothing]]

Archive ==
  [settings  : [Keys -> Values \cup {Nothing}],
   passwords : [Users -> Values \cup {Nothing}],
   gateways  : [Gateways -> GatewayRow \cup {Nothing}],
   rules     : SUBSET Rules,
   orders    : [Signals -> Orders \cup {Nothing}]]

\* settings_import_endpoint, section by section.
RestoredSettings(t, a) ==
  [k \in Keys |-> IF a.settings[k] = Nothing THEN t[k] ELSE a.settings[k]]

\* INSERT OR IGNORE, of the accounts whose password came along.
RestoredAccounts(t, a) ==
  [u \in Users |->
     IF t[u] # Nothing \/ a.passwords[u] = Nothing THEN t[u]
     ELSE [password |-> a.passwords[u], totp |-> FALSE]]

\* Fault: the archive's private key replaces the one in use.
RestoredGatewaysTaken(t, a) ==
  [g \in Gateways |->
     IF a.gateways[g] = Nothing THEN t[g]
     ELSE IF t[g] = Nothing THEN a.gateways[g]
     ELSE [a.gateways[g] EXCEPT !.local = t[g].local]]

\* A private key that is there is never replaced.
RestoredGateways(t, a) ==
  [g \in Gateways |->
     IF a.gateways[g] = Nothing THEN t[g]
     ELSE IF t[g] = Nothing THEN a.gateways[g]
     ELSE [a.gateways[g] EXCEPT
             !.private = IF t[g].private = Nothing THEN @ ELSE t[g].private,
             !.local = t[g].local]]

RestoredRules(r, a) == r \cup a.rules

\* Under the name the registry has before the archive's gateways are added.
RestoredOrders(t, a) ==
  [r \in Names \X Signals |->
     IF r[1] = "host" \/ a.orders[r[2]] = Nothing THEN t[r] ELSE a.orders[r[2]]]

\* A section that cannot be written is skipped.
Restored(db, a, sections) ==
  [db EXCEPT
     !.settings = IF "secrets" \in sections THEN RestoredSettings(@, a) ELSE @,
     !.accounts = IF "users" \in sections THEN RestoredAccounts(@, a) ELSE @,
     !.gateways = IF "gw_registry" \in sections THEN RestoredGateways(@, a) ELSE @,
     !.rules = IF "gw_distribution" \in sections THEN RestoredRules(@, a) ELSE @,
     !.orders = IF "signal_orders" \in sections /\ Named(db)
                THEN RestoredOrders(@, a) ELSE @]

-----------------------------------------------------------------------------
\* What an export and an import into a new Postgres bring back of `pg`.
Carried(pg) ==
  [settings |-> pg.settings, accounts |-> pg.accounts, bans |-> pg.bans,
   journal |-> pg.journal,
   gateways |-> [g \in Gateways |->
                   IF pg.gateways[g] = Nothing THEN Nothing
                   ELSE [pg.gateways[g] EXCEPT !.auto_apply = FALSE]],
   opened |-> {s \in Sids : pg.sessions[s] # Nothing}]
=============================================================================
