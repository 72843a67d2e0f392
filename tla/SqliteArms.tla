----------------------------- MODULE SqliteArms -----------------------------
(***************************************************************************)
(* The arms of db_writer_loop (db/sqlite.py): what each queued operation   *)
(* does to the SQLite file.                                                *)
(***************************************************************************)
EXTENDS Tables

LiteSetting(t, op) ==
  [t EXCEPT ![op.key] = IF op.kind = "set_config" THEN op.value ELSE Nothing]

\* INSERT OR REPLACE gives the columns it does not name their defaults.
LiteAccount(t, op) ==
  [t EXCEPT ![op.key] =
     CASE op.kind = "user_create" -> [password |-> op.password, totp |-> FALSE]
       [] op.kind = "user_update" -> Patched(@, op.patch)
       [] op.kind = "user_delete" -> Nothing]

LiteSession(t, op) ==
  [t EXCEPT ![op.key] =
     IF op.kind = "user_session_create" THEN "active"
     ELSE IF @ = Nothing THEN Nothing ELSE "revoked"]

\* The greater expiry wins.
LiteBan(t, op) ==
  [t EXCEPT ![op.key] = IF op.kind = "ip_ban" THEN Later(@, op.until) ELSE 0]

LiteGateway(t, op) ==
  [t EXCEPT ![op.key] =
     CASE op.kind = "gw_registry_add"    -> Registered(op)
       [] op.kind = "gw_registry_update" -> Patched(@, op.patch)
       [] op.kind = "gw_registry_delete" -> Nothing]

\* Fault: a deleted gateway stays in the rules.
LiteRulesDangling(r, op) ==
  IF op.kind = "gw_distribution_replace" THEN op.rules ELSE r

LiteRules(r, op) ==
  CASE op.kind = "gw_distribution_replace" -> op.rules
    [] op.kind = "gw_registry_delete"      -> Without(r, op.key)
    [] OTHER                               -> r

LiteApply(db, op) ==
  CASE op.kind \in SettingOps -> [db EXCEPT !.settings = LiteSetting(@, op)]
    [] op.kind \in AccountOps -> [db EXCEPT !.accounts = LiteAccount(@, op)]
    [] op.kind \in SessionOps -> [db EXCEPT !.sessions = LiteSession(@, op)]
    [] op.kind \in BanOps     -> [db EXCEPT !.bans = LiteBan(@, op)]
    [] op.kind \in JournalOps -> [db EXCEPT !.journal = @ + 1]
    [] op.kind = "gw_distribution_replace" ->
         [db EXCEPT !.rules = LiteRules(@, op)]
    [] OTHER ->
         [db EXCEPT !.gateways = LiteGateway(@, op), !.rules = LiteRules(@, op)]

\* An arm of two statements whose second one fails leaves the first one's work
\* in the batch's transaction.
LiteApplyHalf(db, op) ==
  IF op.kind = "gw_registry_delete"
  THEN [db EXCEPT !.gateways = LiteGateway(@, op)]
  ELSE [db EXCEPT !.rules = {}]
=============================================================================
