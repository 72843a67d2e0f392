---------------------------- MODULE AdminSessions ----------------------------
(***************************************************************************)
(* Operators and their sessions (admin/users.py, admin/auth.py): accounts  *)
(* are rows, changed behind the writer's queue; a session is a signed      *)
(* cookie, an entry of _SESSION_CACHE and a row written behind too.  The   *)
(* cache decides, and is read back from the rows at every start.           *)
(*                                                                         *)
(* The queue is shared with the traffic (module BanStore has its detail):  *)
(* here it may be full for any operation, and the writer's batches may end *)
(* anywhere.  Sessions are numbered in the order they are opened, which is *)
(* the order in which they expire.                                         *)
(***************************************************************************)
EXTENDS Integers, FiniteSets, Sequences

CONSTANTS
  Users,
  Roles,                \* some of admin, maintainer and viewer
  Bootstrap,            \* the user "admin" of _user_bootstrap
  Passwords,
  InternalKey,          \* its password
  MAX_ADMIN_SESSIONS,
  MaxSid,               \* bound: sessions ever opened
  MaxChanges,           \* bound: account changes accepted
  MaxQueue              \* bound: account and session operations queued

ASSUME UsersAssumption ==
  /\ Bootstrap \in Users /\ InternalKey \in Passwords
  /\ "admin" \in Roles /\ Roles \subseteq {"admin", "maintainer", "viewer"}
ASSUME LimitsAssumption ==
  /\ MAX_ADMIN_SESSIONS \in Nat \ {0} /\ MaxSid \in Nat /\ MaxQueue \in Nat
  /\ MaxChanges \in Nat

Sids == 1 .. MaxSid
Statuses == {"active", "disabled"}
Account == [role : Roles, status : Statuses, password : Passwords]
Absent == [role |-> "none", status |-> "none", password |-> "none"]

VARIABLES
  users,     \* table users
  cache,     \* _SESSION_CACHE: "none", "live" or "revoked"
  rows,      \* table user_sessions, likewise
  expired,   \* sessions past their expires_ts
  opened,    \* opened[s], s \in 1 .. Len(opened): user of a login, and the passwords it stands for
  queue,     \* db_queue
  patch,     \* an update whose body is being read
  changes,   \* account changes so far
  raced,     \* history: sessions opened while a change of the account was queued
  kept,      \* history: sessions of callers who disabled themselves
  slipped,   \* history: sessions whose revocation never reached its row, or
             \* that a failed load hid from revocation
  demoted,   \* history: an admin's role was changed
  overlapped \* history: an admin was removed while another change was queued

accountVars == <<changes, demoted, overlapped>>
sessionVars == <<opened, expired, raced, kept>>
vars == <<users, cache, rows, sessionVars, queue, patch, slipped, accountVars>>

NoPatch == [sid |-> 0]
Patch == [sid : Sids, target : Users, role : Roles]

UserOf(s) == opened[s].user
Opened == 1 .. Len(opened)

-----------------------------------------------------------------------------
(***************************************************************************)
(* The writer                                                              *)
(***************************************************************************)

\* user_create replaces, user_update needs a row, user_delete removes it.
UserWritten(table, op) ==
  CASE op.op = "create" -> [table EXCEPT ![op.user] = op.account]
    [] op.op = "update" /\ table[op.user] # Absent ->
         [table EXCEPT ![op.user] = [f \in DOMAIN @ |->
            IF f \in DOMAIN op.fields THEN op.fields[f] ELSE @[f]]]
    [] op.op = "delete" -> [table EXCEPT ![op.user] = Absent]
    [] OTHER -> table

SessionWritten(table, op) ==
  CASE op.op = "open" -> [table EXCEPT ![op.sid] = "live"]
    [] op.op = "revoke" /\ table[op.sid] # "none" ->
         [table EXCEPT ![op.sid] = "revoked"]
    [] OTHER -> table

\* The accounts once all that is queued is written.
Accounts ==
  LET after[n \in 0 .. Len(queue)] ==
        IF n = 0 THEN users ELSE UserWritten(after[n - 1], queue[n])
  IN after[Len(queue)]

Write ==
  /\ queue # <<>>
  /\ users' = UserWritten(users, Head(queue))
  /\ rows' = SessionWritten(rows, Head(queue))
  /\ queue' = Tail(queue)
  /\ UNCHANGED <<cache, sessionVars, patch, slipped, accountVars>>

\* Fault: the queue has no limit.
RoomAlways == TRUE

\* put_nowait takes one more.
Room == Len(queue) < MaxQueue

-----------------------------------------------------------------------------
(***************************************************************************)
(* Sessions                                                                *)
(***************************************************************************)

\* _session_verify, once the cache is loaded.
Authentic(s) == cache[s] = "live" /\ s \notin expired
LiveOf(u) == {s \in Opened : Authentic(s) /\ UserOf(s) = u}

\* _request_role: the row decides, whatever its status.
RoleOf(s) == users[UserOf(s)].role

RevokeOps(sids) ==
  {ops \in [1 .. Cardinality(sids) -> [op : {"revoke"}, sid : sids]] :
     \A i, j \in DOMAIN ops : i < j => ops[i].sid < ops[j].sid}

\* _session_revoke for each of sids behind the ops already put: the queue may
\* be full for some of them.
Revoke(sids, ops) ==
  \E noted \in SUBSET sids : \E revocations \in RevokeOps(noted) :
    /\ Len(queue) + Len(ops) + Cardinality(noted) <= MaxQueue
    /\ queue' = queue \o ops \o revocations
    /\ slipped' = slipped \cup (sids \ noted)

Revoked(sids) == [s \in Sids |-> IF s \in sids THEN "revoked" ELSE cache[s]]

\* Fault: room is made once the limit is passed.
SurplusLate(u) ==
  {s \in LiveOf(u) :
     Cardinality({t \in LiveOf(u) : t > s}) >= MAX_ADMIN_SESSIONS}

\* _enforce_session_limit: the oldest, until one more fits.
Surplus(u) ==
  {s \in LiveOf(u) :
     Cardinality({t \in LiveOf(u) : t > s}) >= MAX_ADMIN_SESSIONS - 1}

\* login_submit_endpoint once the body is read; the rate limit of the attempts
\* (module TokenBuckets has its like) and the wait for the body come before.
Login(u) ==
  LET sid == Len(opened) + 1
      open == [op |-> "open", sid |-> sid]
  IN /\ sid \in Sids
     /\ users[u].status = "active"
     /\ cache' = [Revoked(Surplus(u)) EXCEPT ![sid] = "live"]
     /\ opened' = Append(opened, [user |-> u, passwords |-> {users[u].password}])
     /\ raced' = IF Accounts[u].password = users[u].password
                    /\ Accounts[u].status = "active"
                 THEN raced ELSE raced \cup {sid}
     /\ \E noted \in SUBSET Surplus(u) : \E revocations \in RevokeOps(noted) :
          /\ Len(queue) + Cardinality(noted) <= MaxQueue
          /\ slipped' = slipped \cup (Surplus(u) \ noted)
          /\ \/ queue' = queue \o revocations
             \/ /\ Len(queue) + Cardinality(noted) < MaxQueue
                /\ queue' = queue \o revocations \o <<open>>
     /\ UNCHANGED <<users, rows, expired, kept, patch, accountVars>>

\* logout_endpoint: whether the session of the cookie still lives is not asked,
\* and one revoked already is revoked by its owner once more.
Logout(s) ==
  /\ cache[s] # "none" /\ s \notin expired
  /\ cache' = Revoked({s})
  /\ Revoke({s}, <<>>)
  /\ UNCHANGED <<users, rows, sessionVars, patch, accountVars>>

\* user_session_revoke_endpoint, and the idle timeout that _internal_authed
\* finds.
EndSession(s) ==
  /\ cache[s] # "none"
  /\ \/ Authentic(s)
     \/ \E t \in Opened : /\ Authentic(t)
                          /\ \/ RoleOf(t) \in {"admin", "maintainer"}
                             \/ UserOf(t) = UserOf(s)
  /\ cache' = Revoked({s})
  /\ Revoke({s}, <<>>)
  /\ UNCHANGED <<users, rows, sessionVars, patch, accountVars>>

\* Twelve hours after it was opened; what became of it is history no more.
Expire(s) ==
  /\ s \in Opened \ expired /\ 1 .. s - 1 \subseteq expired
  /\ expired' = expired \cup {s}
  /\ raced' = raced \ {s} /\ kept' = kept \ {s} /\ slipped' = slipped \ {s}
  /\ UNCHANGED <<users, cache, rows, opened, queue, patch, accountVars>>

-----------------------------------------------------------------------------
(***************************************************************************)
(* Accounts                                                                *)
(***************************************************************************)

\* As the table has them: what is queued is not seen.
ActiveAdmins == {u \in Users : users[u].role = "admin" /\ users[u].status = "active"}

\* Fault: a disabled admin counts.
LastAdminOfAll(u) == {v \in Users : users[v].role = "admin"} = {u}

LastAdmin(u) == ActiveAdmins = {u}

Accepted == changes < MaxChanges /\ changes' = changes + 1

Removal(u) ==
  overlapped' = (overlapped \/ \E i \in DOMAIN queue :
                                 queue[i].op \in {"create", "update", "delete"})

\* users_create_endpoint: the name must not be in the table; a full queue is
\* answered 503.
CreateUser(s, u, role, password) ==
  /\ Authentic(s) /\ RoleOf(s) = "admin"
  /\ users[u] = Absent /\ Room /\ Accepted
  /\ queue' = Append(queue, [op |-> "create", user |-> u,
       account |-> [role |-> role, status |-> "active", password |-> password]])
  /\ UNCHANGED <<users, cache, rows, sessionVars, patch, slipped, demoted, overlapped>>

\* users_update_endpoint up to its await: the caller's role and the row are
\* read.  Bounds: one such request in flight, and one that can still be accepted.
BeginUpdate(s, u) ==
  /\ patch = NoPatch /\ changes < MaxChanges
  /\ Authentic(s) /\ users[u] # Absent
  /\ RoleOf(s) \in Roles
  /\ UserOf(s) = u \/ RoleOf(s) \in {"admin", "maintainer"}
  /\ patch' = [sid |-> s, target |-> u, role |-> RoleOf(s)]
  /\ UNCHANGED <<users, cache, rows, sessionVars, queue, slipped, accountVars>>

\* A body that does not come, or asks for what is not allowed.
AbandonUpdate ==
  /\ patch # NoPatch
  /\ patch' = NoPatch
  /\ UNCHANGED <<users, cache, rows, sessionVars, queue, slipped, accountVars>>

\* except_sid: the caller's own session, when it changes its own password.
Spared(fields) ==
  IF UserOf(patch.sid) = patch.target /\ "password" \in DOMAIN fields
  THEN {patch.sid} ELSE {}

\* The rest of the handler: one field of the body, or a password with a role
\* or a status.  The sessions of the account are revoked after the change is
\* queued.  A session that is spared goes on under the new password, even when
\* the same body disables the account.
FinishUpdate(fields) ==
  LET u == patch.target
      dying == LiveOf(u) \ Spared(fields)
  IN /\ patch # NoPatch /\ Accepted
     /\ "role" \in DOMAIN fields => patch.role = "admin"
     /\ "status" \in DOMAIN fields => patch.role # "viewer"
     /\ "status" \in DOMAIN fields /\ fields.status # "active" => ~LastAdmin(u)
     /\ Revoke(dying, <<[op |-> "update", user |-> u, fields |-> fields]>>)
     /\ cache' = Revoked(dying)
     /\ opened' = [s \in Opened |->
          IF s \in Spared(fields) /\ "password" \in DOMAIN fields
          THEN [opened[s] EXCEPT !.passwords = @ \cup {fields.password}]
          ELSE opened[s]]
     /\ demoted' = (demoted \/ "role" \in DOMAIN fields)
     /\ IF "status" \in DOMAIN fields /\ fields.status # "active"
        THEN Removal(u) ELSE UNCHANGED overlapped
     /\ kept' = IF "status" \in DOMAIN fields /\ fields.status # "active"
                THEN kept \cup Spared(fields) ELSE kept
     /\ patch' = NoPatch
     /\ UNCHANGED <<users, rows, expired, raced>>

\* users_delete_endpoint.
DeleteUser(s, u) ==
  /\ Authentic(s) /\ RoleOf(s) = "admin" /\ UserOf(s) # u
  /\ users[u] # Absent /\ ~LastAdmin(u) /\ Accepted
  /\ Revoke(LiveOf(u), <<[op |-> "delete", user |-> u]>>)
  /\ cache' = Revoked(LiveOf(u))
  /\ Removal(u)
  /\ UNCHANGED <<users, rows, sessionVars, patch, demoted>>

-----------------------------------------------------------------------------
(***************************************************************************)
(* Starts                                                                  *)
(***************************************************************************)

FirstAdmin == [role |-> "admin", status |-> "active", password |-> InternalKey]

\* _user_bootstrap: into an empty table.
Bootstrapped(table) ==
  IF \A u \in Users : table[u] = Absent
  THEN [table EXCEPT ![Bootstrap] = FirstAdmin] ELSE table

\* Fault: whatever their status.
LoadedAll == [s \in Sids |-> IF rows[s] # "none" /\ s \notin expired
                             THEN "live" ELSE "none"]

\* _session_cache_load: the active rows that have not expired.
Loaded == [s \in Sids |-> IF rows[s] = "live" /\ s \notin expired
                          THEN "live" ELSE "none"]

Unwritten == {queue[i].sid : i \in {j \in DOMAIN queue : queue[j].op = "revoke"}}

\* The process dies with what is queued and starts again; a load that fails
\* leaves the cache empty.
Restart ==
  /\ cache' \in {Loaded, [s \in Sids |-> "none"]}
  /\ users' = Bootstrapped(users)
  /\ queue' = <<>> /\ patch' = NoPatch
  /\ slipped' = slipped \cup Unwritten \cup {s \in Sids : cache'[s] # Loaded[s]}
  /\ UNCHANGED <<rows, sessionVars, accountVars>>

-----------------------------------------------------------------------------
\* After a first start, or over the table of an earlier life.
Init ==
  /\ users \in {[u \in Users |-> IF u = Bootstrap THEN FirstAdmin ELSE other] :
                 other \in {Absent, FirstAdmin}}
  /\ cache = [s \in Sids |-> "none"]
  /\ rows = [s \in Sids |-> "none"]
  /\ expired = {} /\ opened = <<>> /\ queue = <<>> /\ patch = NoPatch
  /\ changes = 0 /\ raced = {} /\ kept = {} /\ slipped = {}
  /\ demoted = FALSE /\ overlapped = FALSE

Bodies ==
  [role : Roles] \cup [status : Statuses] \cup [password : Passwords]
  \cup [password : Passwords, status : Statuses]

Administer ==
  \/ \E s \in Opened, u \in Users :
       \/ BeginUpdate(s, u) \/ DeleteUser(s, u)
       \/ \E role \in Roles, password \in Passwords : CreateUser(s, u, role, password)
  \/ \E fields \in Bodies : FinishUpdate(fields)
  \/ AbandonUpdate

Next ==
  \/ \E u \in Users : Login(u)
  \/ \E s \in Opened : Logout(s) \/ EndSession(s) \/ Expire(s)
  \/ Administer
  \/ Write
  \/ Restart

Spec == Init /\ [][Next]_vars

-----------------------------------------------------------------------------
(***************************************************************************)
(* Properties                                                              *)
(***************************************************************************)

Ops == [op : {"open", "revoke"}, sid : Sids]
       \cup [op : {"create"}, user : Users, account : Account]
       \cup [op : {"update"}, user : Users, fields : Bodies]
       \cup [op : {"delete"}, user : Users]

TypeOK ==
  /\ users \in [Users -> Account \cup {Absent}]
  /\ cache \in [Sids -> {"none", "live", "revoked"}]
  /\ rows \in [Sids -> {"none", "live", "revoked"}]
  /\ opened \in Seq([user : Users, passwords : SUBSET Passwords]) /\ Len(opened) <= MaxSid
  /\ queue \in Seq(Ops) /\ Len(queue) <= MaxQueue
  /\ patch \in Patch \cup {NoPatch}
  /\ expired \cup raced \cup kept \cup slipped \subseteq Sids
  /\ changes \in 0 .. MaxChanges
  /\ {demoted, overlapped} \subseteq BOOLEAN

\* The session is that of an account in force: it exists, is active, and the
\* session was opened with its password, or its owner set that password in it.
InForce(s) ==
  Accounts[UserOf(s)].status = "active"
  /\ Accounts[UserOf(s)].password \in opened[s].passwords

\* A repudiated session does not outlive its account's record
\* (_revoke_user_sessions), restarts and deleted names that are used again
\* included.  Three ways out are known: a login read the record before the
\* change was written; an operator disabled himself in the body that set his
\* password; the revocation was dropped at a full queue, lost with the process,
\* or not made because a failed load had hidden the session.
RepudiatedSessionsDie ==
  \A s \in Opened : Authentic(s) /\ s \notin raced \cup kept \cup slipped => InForce(s)

\* _revoke_user_sessions: "so a compromised or repudiated session cannot
\* outlive the authoritative record", a login in the window of the writer
\* included.
SessionsFollowAccounts ==
  \A s \in Opened : Authentic(s) /\ s \notin kept \cup slipped => InForce(s)

\* The limit on the sessions of a user holds (_enforce_session_limit) at every
\* moment and over restarts, but for sessions whose revocation was lost.
SessionsLimited ==
  \A u \in Users : Cardinality(LiveOf(u) \ slipped) <= MAX_ADMIN_SESSIONS

\* Someone can sign in to administer (users_update_endpoint, users_delete_endpoint:
\* "would lock everyone out"), accounts that are still queued included, unless
\* roles were changed or an admin was removed while another change was queued.
AdminRemains ==
  demoted \/ overlapped
  \/ \E u \in Users : Accounts[u].role = "admin" /\ Accounts[u].status = "active"

=============================================================================
