---------------------------- MODULE PostgresArms ----------------------------
(***************************************************************************)
(* _PG_OP_HANDLERS (db/postgres.py): what the same operations do to        *)
(* Postgres.  The connections of the pool commit every statement as it     *)
(* runs (autocommit): an operation of two statements can stop half-way,    *)
(* and others can run in between.                                          *)
(***************************************************************************)
EXTENDS Tables

PgSetting(t, op) ==
  [t EXCEPT ![op.key] = IF op.kind = "set_config" THEN op.value ELSE Nothing]

\* Fault: the upsert resets the columns it does not name.
PgAccountReset(t, op) ==
  [t EXCEPT ![op.key] =
     CASE op.kind = "user_create" -> [password |-> op.password, totp |-> FALSE]
       [] op.kind = "user_update" -> Patched(@, op.patch)
       [] op.kind = "user_delete" -> Nothing]

\* ON CONFLICT DO UPDATE leaves the columns it does not name.
PgAccount(t, op) ==
  [t EXCEPT ![op.key] =
     CASE op.kind = "user_create" ->
            [password |-> op.password, totp |-> @ # Nothing /\ @.totp]
       [] op.kind = "user_update" -> Patched(@, op.patch)
       [] op.kind = "user_delete" -> Nothing]

\* ON CONFLICT DO NOTHING; a revocation of no row is no error.
PgSession(t, op) ==
  [t EXCEPT ![op.key] =
     CASE op.kind = "user_session_create" /\ @ = Nothing -> "active"
       [] op.kind = "user_session_revoke" /\ @ # Nothing -> "revoked"
       [] OTHER                                          -> @]

\* GREATEST.
PgBan(t, op) ==
  [t EXCEPT ![op.key] = IF op.kind = "ip_ban" THEN Later(@, op.until) ELSE 0]

\* A row that exists keeps auto_apply, and its private key when none comes in.
PgGateway(t, op) ==
  [t EXCEPT ![op.key] =
     CASE op.kind = "gw_registry_add" /\ @ = Nothing -> Registered(op)
       [] op.kind = "gw_registry_add" /\ @ # Nothing ->
            [Registered(op) EXCEPT
               !.private = IF op.private = Nothing THEN t[op.key].private ELSE @,
               !.auto_apply = t[op.key].auto_apply]
       [] op.kind = "gw_registry_update" -> Patched(@, op.patch)
       [] op.kind = "gw_registry_delete" -> Nothing]

PgRules(r, op) ==
  CASE op.kind = "gw_distribution_replace" -> op.rules
    [] op.kind = "gw_registry_delete"      -> Without(r, op.key)
    [] OTHER                               -> r

\* All statements of an operation.
PgDispatch(db, op) ==
  CASE op.kind \in SettingOps -> [db EXCEPT !.settings = PgSetting(@, op)]
    [] op.kind \in AccountOps -> [db EXCEPT !.accounts = PgAccount(@, op)]
    [] op.kind \in SessionOps -> [db EXCEPT !.sessions = PgSession(@, op)]
    [] op.kind \in BanOps     -> [db EXCEPT !.bans = PgBan(@, op)]
    [] op.kind \in JournalOps -> [db EXCEPT !.journal = @ + 1]
    [] op.kind = "gw_distribution_replace" ->
         [db EXCEPT !.rules = PgRules(@, op)]
    [] OTHER ->
         [db EXCEPT !.gateways = PgGateway(@, op), !.rules = PgRules(@, op)]

\* The first of two statements: DELETE, of the gateway or of all rules ...
PgBegun(db, op) ==
  IF op.kind = "gw_registry_delete"
  THEN [db EXCEPT !.gateways = PgGateway(@, op)]
  ELSE [db EXCEPT !.rules = {}]

\* ... and the second one: DELETE of the rules that name the gateway, or the
\* INSERTs ON CONFLICT DO NOTHING.
PgFinished(db, op) ==
  [db EXCEPT !.rules = IF op.kind = "gw_registry_delete"
                       THEN Without(@, op.key) ELSE @ \cup op.rules]
=============================================================================
