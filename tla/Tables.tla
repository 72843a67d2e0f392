------------------------------- MODULE Tables -------------------------------
(***************************************************************************)
(* The operators' tables, as both databases hold them (db/sqlite.py,       *)
(* db/postgres.py), and the operations of the writer's queue that change   *)
(* them.  Timestamps, descriptions and the tables that only dashboards     *)
(* read are left out.                                                      *)
(***************************************************************************)
EXTENDS Integers

CONSTANTS
  Nothing,      \* no row, or SQL's NULL
  Keys,         \* keys of config_kv, secrets_kv and admin_ips
  Values,
  Users,
  Sids,
  Addresses,
  Untils,       \* expiries of bans, 0 standing for none
  Gateways,
  Signals,
  Orders,       \* of activation, 1 to 3
  KeyPairs      \* key pairs of gateways: both halves are named alike

ASSUME TablesAssumption ==
  /\ Untils \subseteq Nat /\ 0 \in Untils
  /\ Orders \subseteq 1 .. 3

Rules == {r \in Gateways \X Gateways : r[1] # r[2]}

\* A gateway is known by its host's name until its row is in the registry; an
\* order of activation is kept under the name it was set by.
Names == {"host", "local"}

AccountRow == [password : Values, totp : BOOLEAN]
SessionRow == {"active", "revoked"}
Statuses == {"active", "disabled"}
GatewayRow ==
  [public : KeyPairs, private : KeyPairs \cup {Nothing}, local : BOOLEAN,
   status : Statuses, auto_apply : BOOLEAN]

Database ==
  [settings : [Keys -> Values \cup {Nothing}],
   accounts : [Users -> AccountRow \cup {Nothing}],
   sessions : [Sids -> SessionRow \cup {Nothing}],
   bans     : [Addresses -> Untils],
   journal  : Nat,                       \* rows appended: gw_audit, audit_events, ...
   gateways : [Gateways -> GatewayRow \cup {Nothing}],
   rules    : SUBSET Rules,
   orders   : [Names \X Signals -> Orders \cup {Nothing}]]

\* NULL is neither a value nor a row.
ASSUME NothingAssumption ==
  /\ Nothing \notin Values /\ Nothing \notin KeyPairs /\ Nothing \notin Orders
  /\ Nothing \notin AccountRow /\ Nothing \notin SessionRow
  /\ Nothing \notin GatewayRow

Empty ==
  [settings |-> [k \in Keys |-> Nothing],
   accounts |-> [u \in Users |-> Nothing],
   sessions |-> [s \in Sids |-> Nothing],
   bans     |-> [a \in Addresses |-> 0],
   journal  |-> 0,
   gateways |-> [g \in Gateways |-> Nothing],
   rules    |-> {},
   orders   |-> [r \in Names \X Signals |-> Nothing]]

-----------------------------------------------------------------------------
\* Every operation changes one of these tables.
SettingOps == {"set_config", "del_config"}
AccountOps == {"user_create", "user_update", "user_delete"}
SessionOps == {"user_session_create", "user_session_revoke"}
BanOps     == {"ip_ban", "ip_ban_del"}
JournalOps == {"gw_audit_add"}
MeshOps    == {"gw_registry_add", "gw_registry_update", "gw_registry_delete",
               "gw_distribution_replace"}

\* Carried out by two statements, in either database.
TwoStatements == {"gw_registry_delete", "gw_distribution_replace"}

\* The rows an operation touches.
Touches(op) ==
  CASE op.kind = "gw_distribution_replace" -> {"rules"}
    [] op.kind = "gw_registry_delete"      -> {op.key, "rules"}
    [] OTHER                               -> {op.key}

\* What the handlers update of a row.
AccountPatch == [password : Values] \cup [totp : BOOLEAN]
GatewayPatch ==
  [status : Statuses] \cup [auto_apply : BOOLEAN]
  \cup [public : KeyPairs, private : KeyPairs \cup {Nothing}]

\* UPDATE: the columns of `patch` in a row that exists.
Patched(row, patch) ==
  IF row = Nothing
  THEN Nothing
  ELSE [c \in DOMAIN row |-> IF c \in DOMAIN patch THEN patch[c] ELSE row[c]]

\* A row as gw_registry_add inserts it.
Registered(op) ==
  [public |-> op.public, private |-> op.private, local |-> op.local,
   status |-> op.status, auto_apply |-> FALSE]

\* The registry has a row for this gateway.
Named(db) == \E g \in Gateways : db.gateways[g] # Nothing /\ db.gateways[g].local

\* ON DELETE: the pairs that name a gateway go with it.
Without(rules, g) == {r \in rules : g \notin {r[1], r[2]}}

Later(a, b) == IF a > b THEN a ELSE b
=============================================================================
