------------------------------- MODULE Settings -------------------------------
(***************************************************************************)
(* What operators set while the gateway runs (core/proxy_handler.py,       *)
(* admin/settings.py, admin/auth.py, vhost.py, db/sqlite.py): hot-reload   *)
(* knobs, integration secrets, the admin-IP allowlist, virtual hosts and   *)
(* the session key.  Each lives in memory, in one copy per Python module   *)
(* where modules import it by value, and in a row or a file a restart      *)
(* reads.                                                                  *)
(*                                                                         *)
(* Five knobs stand for the two hundred: a plain one, the two that exclude *)
(* each other, one derived from a secret, and one never stored.  A handler *)
(* fills the queue without awaiting, so a full queue loses a suffix of its *)
(* operations; other traffic may leave it any room.                        *)
(***************************************************************************)
EXTENDS Integers, Sequences

CONSTANTS
  Environments,     \* the process environments of deployments
  Cidrs,
  Hosts,
  Archives,         \* exports an operator may import
  MaxQueue,         \* bound: operations waiting in db_queue
  MaxChanges        \* bound: operator requests

Secrets == {"turnstile", "abuse"}     \* a knob and the credentials it needs
Knobs == Secrets \cup {"plain", "ja4", "bypass"}
Overrides == {"UPSTREAM", "KNOB"}

\* Partial functions from S to T.
Partial(S, T) == UNION {[D -> T] : D \in SUBSET S}

ASSUME EnvironmentsAssumption == \A e \in Environments :
  /\ e.pinned \subseteq {"plain", "ja4"} /\ e.secrets \subseteq Secrets
  /\ e.optOut \in BOOLEAN /\ e.seed \subseteq Cidrs
  /\ e.hosts \in Partial(Hosts, SUBSET Overrides)
ASSUME ArchivesAssumption == \A a \in Archives :
  /\ a.knobs \in Partial(Knobs, BOOLEAN) /\ a.cidrs \in Seq(Cidrs)
  /\ a.hosts \in Partial(Hosts, SUBSET Overrides) /\ a.secrets \subseteq Secrets
ASSUME BoundsAssumption == MaxQueue \in Nat \ {0} /\ MaxChanges \in Nat

VARIABLES
  env,        \* the environment, the same at every start
  handler,    \* the globals of core.proxy_handler, which vc() reads
  others,     \* the copies of every other module
  secrets,    \* secrets in memory
  rows,       \* table config_kv: knob -> value
  kept,       \* table secrets_kv
  entries,    \* ADMIN_ALLOWED_ENTRIES
  table,      \* table admin_ips
  vhosts,     \* VHOSTS
  file,       \* vhosts.json
  keys,       \* SESSION_KEY of the handler, of the other modules, of the file
  queue,      \* db_queue
  unsettled,  \* history: knobs whose value no stored row stands for
  imported,   \* history: knobs an import gave to the handler alone
  unread,     \* history: the last start did not get to read admin_ips
  unsaved,    \* history: hosts whose change vhosts.json missed
  changes     \* operator requests so far

knobVars == <<handler, others, unsettled, imported>>
hostVars == <<vhosts, file, unsaved>>
stores == <<rows, kept, table>>
vars == <<env, unread, knobVars, secrets, stores, entries, hostVars, keys, queue, changes>>

Pinned == env.pinned         \* knobs it turns on, _ENV_PROVIDED_KNOBS
EnvSecrets == env.secrets    \* secrets it provides
OptOut == env.optOut         \* TURNSTILE_ENABLED=0
EnvSeed == env.seed          \* ADMIN_ENV_SEED
EnvHosts == env.hosts        \* VHOSTS: host -> overrides

\* Fault: every knob gets a row.
PersistAll == {}

\* _NOT_PERSIST_KNOBS.
NotPersisted == {"bypass"}

\* f, and g where f is not defined.
Over(f, g) ==
  [x \in DOMAIN f \cup DOMAIN g |-> IF x \in DOMAIN f THEN f[x] ELSE g[x]]
Given(f, x, v) == Over([y \in {x} |-> v], f)

KnobOp(k, v) == [op |-> "set_config", knob |-> k, value |-> v]
SecretOp(s, present) == [op |-> "secret", secret |-> s, present |-> present]
CidrOp(c, listed) == [op |-> "admin_ip", cidr |-> c, listed |-> listed]
IsAdd(op) == op.op = "admin_ip" /\ op.listed

-----------------------------------------------------------------------------
(***************************************************************************)
(* The stores                                                              *)
(***************************************************************************)

\* What op makes of a store st = [rows, kept, table].
Applied(st, op) ==
  CASE op.op = "set_config" -> [st EXCEPT !.rows = Given(@, op.knob, op.value)]
    [] op.op = "secret" -> [st EXCEPT !.kept = IF op.present
                              THEN @ \cup {op.secret} ELSE @ \ {op.secret}]
    [] op.op = "admin_ip" -> [st EXCEPT !.table = IF op.listed
                              THEN @ \cup {op.cidr} ELSE @ \ {op.cidr}]

Stored == [rows |-> rows, kept |-> kept, table |-> table]

\* What ops, one after the other, make of a store.
Replayed(st, ops) ==
  LET after[n \in 0 .. Len(ops)] ==
        IF n = 0 THEN st ELSE Applied(after[n - 1], ops[n])
  IN after[Len(ops)]

\* The stores once all that is queued is written.
Settled == Replayed(Stored, queue)

Write ==
  /\ queue # <<>>
  /\ LET st == Applied(Stored, Head(queue))
     IN rows' = st.rows /\ kept' = st.kept /\ table' = st.table
  /\ queue' = Tail(queue)
  /\ UNCHANGED <<env, unread, knobVars, secrets, entries, hostVars, keys, changes>>

\* put_nowait for the first n of ops, QueueFull for the rest.
Queued(ops, n) ==
  /\ n \in 0 .. Len(ops)
  /\ Len(queue) + n <= MaxQueue
  /\ queue' = queue \o SubSeq(ops, 1, n)

LostKnobs(ops, n) ==
  {ops[i].knob : i \in {j \in n + 1 .. Len(ops) : ops[j].op = "set_config"}}

Change == changes < MaxChanges /\ changes' = changes + 1

-----------------------------------------------------------------------------
(***************************************************************************)
(* Start                                                                   *)
(***************************************************************************)

\* The validators: an integration needs its credentials.
Valid(k, v, present) == v /\ k \in Secrets => k \in present

\* config.py, reputation/abuseipdb.py, then db_load_secrets and its refresh.
Defaults(present) ==
  [k \in Knobs |->
     CASE k = "plain" -> "plain" \in Pinned
       [] k = "ja4" -> "ja4" \in Pinned /\ ("turnstile" \in EnvSecrets => OptOut)
       [] k = "turnstile" -> "turnstile" \in present /\ ~OptOut
       [] k = "abuse" -> "abuse" \in present
       [] k = "bypass" -> FALSE]

\* The environment leaves knob k to its row, and its value is valid.
Stands(r, k, present) == k \in DOMAIN r \ Pinned /\ Valid(k, r[k], present)

\* db_load_config, before its last test.
Loaded(r, present) ==
  [k \in Knobs |-> IF Stands(r, k, present) THEN r[k] ELSE Defaults(present)[k]]

Clash(copy) == copy["ja4"] /\ copy["turnstile"]

Boot(r, present) ==
  [Loaded(r, present) EXCEPT !["ja4"] = @ /\ ~Clash(Loaded(r, present))]

\* The file's hosts over the environment's.
BootHosts(f) == Over(f, EnvHosts)

\* db_load_admin_ips seeds the table again and reads it; should either fail,
\* the list stays what the import of the module made of the environment.
LoadAdminIps ==
  \/ /\ table' = table \cup EnvSeed /\ entries' = table'
     /\ unread' = FALSE
  \/ /\ table' \in {table, table \cup EnvSeed} /\ entries' = EnvSeed
     /\ unread' = TRUE

Restart ==
  LET present == EnvSecrets \cup kept IN
  /\ secrets' = present
  /\ handler' = Boot(rows, present)
  /\ others' = handler'
  /\ unsettled' = IF Clash(Loaded(rows, present)) THEN {"ja4"} ELSE {}
  /\ imported' = {}
  /\ LoadAdminIps
  /\ vhosts' = BootHosts(file)
  /\ unsaved' = {}
  /\ keys' = [copy \in DOMAIN keys |-> keys.file]
  /\ queue' = <<>>
  /\ UNCHANGED <<env, rows, kept, file, changes>>

-----------------------------------------------------------------------------
(***************************************************************************)
(* Knobs                                                                   *)
(***************************************************************************)

Bodies == [{"ja4", "turnstile"} -> BOOLEAN] \cup UNION {[{k} -> BOOLEAN] : k \in Knobs}

Accepted(body) ==
  {k \in DOMAIN body : k \notin Pinned /\ Valid(k, body[k], secrets)}

RowOps(body, ks) ==
  LET single(k) == IF k \in ks \ NotPersisted
                     THEN <<KnobOp(k, body[k])>> ELSE <<>>
  IN single("plain") \o single("abuse") \o single("bypass")
       \o single("turnstile") \o single("ja4")

\* Posted(body): the handler's copy after the loop over body.
Posted(body) ==
  [k \in Knobs |-> IF k \in Accepted(body) THEN body[k] ELSE handler[k]]

\* Fault: only a post of the JA4 knob is tested.
ExcludedByJa4(body) ==
  Clash(Posted(body)) /\ "ja4" \in Accepted(body)

\* The mutual exclusion applies: one of the two was just turned on.
Excluded(body) ==
  Clash(Posted(body)) /\ Accepted(body) \cap {"ja4", "turnstile"} # {}

\* Fault: _mutex_propagate writes no row.
NoExclusionOps(body) == <<>>

ExclusionOps(body) ==
  IF Excluded(body) THEN <<KnobOp("ja4", FALSE)>> ELSE <<>>

\* Fault: _mutex_propagate sets the handler's copy only.
ReachedByLoop(body) == Accepted(body)

\* The knobs set in every module.
Reached(body) ==
  Accepted(body) \cup (IF Excluded(body) THEN {"ja4"} ELSE {})

\* config_endpoint without a vhost.
Config(body) ==
  /\ Change
  /\ handler' = [Posted(body) EXCEPT !["ja4"] = @ /\ ~Excluded(body)]
  /\ others' = [k \in Knobs |->
                  IF k \in Reached(body) THEN handler'[k] ELSE others[k]]
  /\ imported' = imported \ Reached(body)
  /\ LET ops == RowOps(body, Accepted(body)) \o ExclusionOps(body) IN
     \E n \in 0 .. Len(ops) :
       /\ Queued(ops, n)
       /\ unsettled' = (unsettled \ Accepted(body)) \cup LostKnobs(ops, n)
                         \cup (Accepted(body) \cap NotPersisted)
                         \cup (IF Excluded(body) THEN Pinned \cap {"ja4"} ELSE {})
  /\ UNCHANGED <<env, unread, secrets, stores, entries, hostVars, keys>>

-----------------------------------------------------------------------------
(***************************************************************************)
(* Secrets                                                                 *)
(***************************************************************************)

\* _refresh_integration_state, in every module: Turnstile comes on with its
\* credentials, and AbuseIPDB follows its key whatever the operator chose.
Refreshed(copy, present) ==
  [copy EXCEPT
     !["turnstile"] = @ \/ ("turnstile" \in present \ secrets /\ ~OptOut),
     !["abuse"] = "abuse" \in present]

SetSecrets(present, op) ==
  /\ Change
  /\ secrets' = present
  /\ handler' = Refreshed(handler, present)
  /\ others' = [k \in Knobs |->
                  IF k \in Secrets THEN handler'[k] ELSE others[k]]
  /\ imported' = imported \ Secrets
  /\ unsettled' = unsettled \cup {"abuse", op.secret}
                    \cup (IF Clash(handler') THEN {"ja4"} ELSE {})
  /\ \E n \in 0 .. 1 : Queued(<<op>>, n)
  /\ UNCHANGED <<env, unread, stores, entries, hostVars, keys>>

\* secrets_endpoint, POST and DELETE.
PostSecret(s) == SetSecrets(secrets \cup {s}, SecretOp(s, TRUE))
DeleteSecret(s) ==
  SetSecrets((secrets \ {s}) \cup (EnvSecrets \cap {s}), SecretOp(s, FALSE))

\* rotate_keys_endpoint: the file, and the name in the handler's module.
Rotate ==
  /\ Change
  /\ keys' = [keys EXCEPT !.handler = keys.file + 1, !.file = @ + 1]
  /\ UNCHANGED <<env, unread, knobVars, secrets, stores, entries, hostVars, queue>>

-----------------------------------------------------------------------------
(***************************************************************************)
(* The admin-IP allowlist                                                  *)
(***************************************************************************)

\* Fault: an entry is listed although its row was refused.
ListedAnyway(c, n) == entries \cup {c}

\* admin_ip_add, given n = 1 when the queue took its operation.
Listed(c, n) == IF n = 1 THEN entries \cup {c} ELSE entries

AddCidr(c) ==
  /\ Change
  /\ c \notin entries
  /\ \E n \in 0 .. 1 : Queued(<<CidrOp(c, TRUE)>>, n) /\ entries' = Listed(c, n)
  /\ UNCHANGED <<env, unread, knobVars, secrets, stores, hostVars, keys>>

RemoveCidr(c) ==
  /\ Change
  /\ c \in entries
  /\ \E n \in 0 .. 1 :
       /\ Queued(<<CidrOp(c, FALSE)>>, n)
       /\ entries' = IF n = 1 THEN entries \ {c} ELSE entries
  /\ UNCHANGED <<env, unread, knobVars, secrets, stores, hostVars, keys>>

-----------------------------------------------------------------------------
(***************************************************************************)
(* Virtual hosts                                                           *)
(***************************************************************************)

\* _save_vhosts_file writes every host; a failure is only logged.
Saved(touched) ==
  \/ file' = vhosts' /\ unsaved' = {}
  \/ UNCHANGED file /\ unsaved' = unsaved \cup touched

\* vhost_set, by vhosts_endpoint (with an UPSTREAM) or config_endpoint with a
\* vhost: the posted overrides replace all the host had.
SetVhost(h, overrides) ==
  /\ Change
  /\ vhosts' = Given(vhosts, h, overrides)
  /\ Saved({h})
  /\ UNCHANGED <<env, unread, knobVars, secrets, stores, entries, keys, queue>>

DeleteVhost(h) ==
  /\ Change
  /\ vhosts' = [g \in DOMAIN vhosts \ {h} |-> vhosts[g]]
  /\ Saved({h})
  /\ UNCHANGED <<env, unread, knobVars, secrets, stores, entries, keys, queue>>

-----------------------------------------------------------------------------
(***************************************************************************)
(* Import                                                                  *)
(***************************************************************************)

\* An operation for each of cidrs that is not listed.
CidrOps(cidrs) ==
  LET fresh[n \in 0 .. Len(cidrs)] ==
        CASE n = 0 -> << >>
          [] n > 0 /\ cidrs[n] \in entries -> fresh[n - 1]
          [] n > 0 /\ cidrs[n] \notin entries ->
               Append(fresh[n - 1], CidrOp(cidrs[n], TRUE))
  IN fresh[Len(cidrs)]

\* settings_import_endpoint: knobs in the handler's module only and with no
\* exclusion, an address if new, hosts, and secrets straight into the table.
Import(archive) ==
  /\ Change
  /\ handler' = Posted(archive.knobs)
  /\ imported' = imported \cup Accepted(archive.knobs)
  /\ LET ops == RowOps(archive.knobs, Accepted(archive.knobs))
                \o CidrOps(archive.cidrs) IN
     \E n \in 0 .. Len(ops) :
       /\ Queued(ops, n)
       /\ entries' = entries \cup
            {ops[i].cidr : i \in {j \in 1 .. n : IsAdd(ops[j])}}
       /\ unsettled' = (unsettled \ Accepted(archive.knobs))
            \cup LostKnobs(ops, n) \cup archive.secrets
            \cup (Accepted(archive.knobs) \cap NotPersisted)
            \cup (IF Clash(handler') THEN {"ja4"} ELSE {})
  /\ vhosts' = Over(archive.hosts, vhosts)
  /\ IF archive.hosts = << >> THEN UNCHANGED <<file, unsaved>>
                              ELSE Saved(DOMAIN archive.hosts)
  /\ kept' = kept \cup archive.secrets
  /\ UNCHANGED <<env, unread, others, secrets, rows, table, keys>>

-----------------------------------------------------------------------------
Init ==
  /\ env \in Environments
  /\ secrets = EnvSecrets /\ kept = {} /\ rows = << >>
  /\ handler = Boot(rows, secrets) /\ others = handler
  /\ table = EnvSeed /\ entries = EnvSeed
  /\ file = << >> /\ vhosts = EnvHosts
  /\ keys = [handler |-> 0, modules |-> 0, file |-> 0]
  /\ queue = <<>>
  /\ unsettled = {} /\ imported = {} /\ unsaved = {} /\ unread = FALSE
  /\ changes = 0

Next ==
  \/ Write
  \/ Restart
  \/ Rotate
  \/ \E body \in Bodies : Config(body)
  \/ \E s \in Secrets : PostSecret(s)
  \/ \E s \in Secrets : DeleteSecret(s)
  \/ \E c \in Cidrs : AddCidr(c)
  \/ \E c \in Cidrs : RemoveCidr(c)
  \/ \E h \in Hosts, o \in SUBSET Overrides \ {{}} : SetVhost(h, o)
  \/ \E h \in Hosts : DeleteVhost(h)
  \/ \E archive \in Archives : Import(archive)

Spec == Init /\ [][Next]_vars

-----------------------------------------------------------------------------
(***************************************************************************)
(* Properties                                                              *)
(***************************************************************************)

\* Every store holds what its loader can read: only knobs that are stored
\* have rows, and the queue keeps within its bound.
TypeOK ==
  /\ env \in Environments
  /\ handler \in [Knobs -> BOOLEAN] /\ others \in [Knobs -> BOOLEAN]
  /\ secrets \subseteq Secrets /\ kept \subseteq Secrets
  /\ rows \in Partial(Knobs \ {"bypass"}, BOOLEAN)
  /\ entries \subseteq Cidrs /\ table \subseteq Cidrs
  /\ vhosts \in Partial(Hosts, SUBSET Overrides)
  /\ file \in Partial(Hosts, SUBSET Overrides)
  /\ keys \in [{"handler", "modules", "file"} -> 0 .. MaxChanges]
  /\ Len(queue) <= MaxQueue
  /\ unsettled \subseteq Knobs /\ imported \subseteq Knobs
  /\ unsaved \subseteq Hosts /\ unread \in BOOLEAN /\ changes \in 0 .. MaxChanges

\* k's value is the last an operator posted, its row was queued, and so was
\* what its value leans on: an integration's credentials, and for the JA4
\* knob the Turnstile one.
Safe(k) ==
  /\ k \notin unsettled
  /\ k \in Secrets => (k \in secrets <=> k \in EnvSecrets \cup Settled.kept)

KnobsKept ==
  \A k \in Knobs :
    Safe(k) /\ (k = "ja4" => Safe("turnstile"))
      => handler[k] = Boot(Settled.rows, EnvSecrets \cup Settled.kept)[k]

\* A host whose last change was saved; deleting one the environment names
\* does not survive (vhost.py:574).
HostsKept ==
  \A h \in Hosts \ unsaved :
    IF h \in DOMAIN vhosts THEN h \in DOMAIN BootHosts(file)
                                 /\ vhosts[h] = BootHosts(file)[h]
    ELSE h \notin DOMAIN file

\* A restart changes nothing an operator set and the gateway accepted
\* (proxy_handler.py:3041 "so the change survives container restart"), once
\* the queue is written; the exceptions are those of Safe, knobs the queue, an
\* import or a secret left without a row of their value, and an allowlist the
\* last start could not read.
RestartKeeps ==
  KnobsKept /\ (unread \/ entries = Settled.table) /\ HostsKept

\* All modules see one value of each knob, unless an import set it, which
\* reaches core.proxy_handler only (admin/settings.py:500): the challenge
\* then goes on with the old one.
CopiesAgree == \A k \in Knobs \ imported : others[k] = handler[k]

\* The two knobs that cannot both be active come to be so only when
\* credentials arrive (_refresh_integration_state) or by an import: no post
\* and no restart does it.
NoPostClashes ==
  [][Clash(handler') => \/ Clash(handler)
                        \/ secrets' # secrets /\ changes' # changes
                        \/ \E a \in Archives : Import(a)]_vars

\* An allowlist with entries lets everyone in again (_admin_ip_allowed on an
\* empty list) only when its last entry is removed, when a stop takes an entry
\* whose row was still queued, or when a start cannot read the table.
GateStaysClosed ==
  [][entries # {} /\ entries' = {} =>
       \/ \E c \in Cidrs : entries = {c} /\ queue' = Append(queue, CidrOp(c, FALSE))
       \/ queue' = << >> /\ \E i \in DOMAIN queue : IsAdd(queue[i])
       \/ unread']_vars

\* rotate_keys_endpoint (proxy_handler.py:2248): "Every cookie HMAC-signed
\* under the old key fails verification immediately after this returns."
\* The modules that verify hold the key their import gave them.
RotationBites == keys.modules = keys.file

=============================================================================
