---------------------------- MODULE CanaryProbe -----------------------------
(***************************************************************************)
(* The browser execution probe (detection/canary.py): every HTML page      *)
(* carries a link that browsers fetch and agents do not.  An identity that *)
(* was served enough pages and has not fetched one within the TTL is       *)
(* charged.  The endpoint shares its limiter, by address, with those of    *)
(* the reports a page sends.                                               *)
(*                                                                         *)
(* The tables are capped; which entry is the oldest is not tracked, so any *)
(* entry may be the one that is dropped.                                   *)
(***************************************************************************)
EXTENDS Integers, FiniteSets

CONSTANTS
  Visitors,            \* identities, all of one address
  Browsers,            \* those that fetch what their pages link to
  CANARY_PROBE_TTL,    \* CANARY_PROBE_TTL_SECS
  CANARY_PROBE_MIN_HTML,
  PROBE_STORE_MAX,
  PROBE_COUNTS_MAX,
  PROBE_CONFIRMED_MAX,
  PROBE_RL_LIMIT,
  PROBE_RL_WINDOW,
  AwaitingMax,         \* bound: pages whose link is still to be fetched
  LastInstant          \* bound on the clock

ASSUME ProbeAssumption ==
  /\ Browsers \subseteq Visitors
  /\ {CANARY_PROBE_TTL, PROBE_RL_LIMIT} \subseteq Nat \ {0}
  /\ {CANARY_PROBE_MIN_HTML, PROBE_STORE_MAX, PROBE_COUNTS_MAX, PROBE_RL_WINDOW,
      PROBE_CONFIRMED_MAX, AwaitingMax, LastInstant} \subseteq Nat

VARIABLES
  instant,    \* time.time()
  store,      \* _probe_token_store: store[token], when the token expires
  counts,     \* _probe_html_counts: counts[v].first and .pages
  confirmed,  \* _probe_confirmed
  window,     \* the entry of the address in _PROBE_RL
  awaiting,   \* the links that browsers have still to fetch
  charged,    \* the visitors charged with canary-probe-miss
  unheard     \* history: the browsers whose fetch was late, refused or forgotten

probeVars == <<instant, store, counts, confirmed, window, awaiting, charged, unheard>>

NoWindow == [age |-> 0, used |-> 0]

-----------------------------------------------------------------------------

Token(v) == <<v, instant \div CANARY_PROBE_TTL>>

\* What a table of at least `max` entries is left with: without what expired,
\* and when that is not enough, without one more.
Evictions(entries, expired, max) ==
  IF Cardinality(entries) < max THEN {{}}
  ELSE IF Cardinality(entries \ expired) < max THEN {expired}
  ELSE {expired \cup {e} : e \in entries \ expired}

Expired == {t \in DOMAIN store : store[t] < instant}

\* _store_probe_token
StoredWithout(v, dropped) ==
  [t \in (DOMAIN store \ dropped) \cup {Token(v)} |->
     IF t = Token(v) THEN instant + 2 * CANARY_PROBE_TTL ELSE store[t]]

\* inject_canary_probe: the counts with one page more.
Counted(v, dropped) ==
  LET old == IF v \in DOMAIN counts \ dropped THEN counts[v]
             ELSE [first |-> 0, pages |-> 0]
  IN [u \in (DOMAIN counts \ dropped) \cup {v} |->
        IF u # v THEN counts[u]
        ELSE [first |-> IF old.pages = 0 THEN instant ELSE old.first,
              pages |-> old.pages + 1]]

\* Fault: the check does not wait for the TTL.
MissedAtOnce(v, record) ==
  v \notin confirmed /\ record.pages >= CANARY_PROBE_MIN_HTML

\* check_canary_probe
Missed(v, record) ==
  /\ v \notin confirmed
  /\ record.pages >= CANARY_PROBE_MIN_HTML
  /\ instant - record.first >= CANARY_PROBE_TTL

\* Pages are counted as far as the check can tell.
Capped(record) ==
  [record EXCEPT !.pages = IF @ > CANARY_PROBE_MIN_HTML THEN CANARY_PROBE_MIN_HTML ELSE @]

\* The end of proxy() for an HTML answer: the link is put in, then the visitor
\* is checked.
Serve(v) ==
  \E lost \in Evictions(DOMAIN store, Expired, PROBE_STORE_MAX),
     dropped \in Evictions(DOMAIN counts, {}, PROBE_COUNTS_MAX) :
    LET after == Counted(v, dropped)
    IN /\ store' = StoredWithout(v, lost)
       /\ IF Missed(v, after[v])
          THEN /\ counts' = [after EXCEPT ![v] = [first |-> instant, pages |-> 0]]
               /\ charged' = charged \cup {v}
          ELSE /\ counts' = [after EXCEPT ![v] = Capped(@)]
               /\ UNCHANGED charged
       /\ awaiting' = IF v \in Browsers
                      THEN awaiting \cup {[link |-> Token(v), since |-> instant]}
                      ELSE awaiting
       /\ Cardinality(awaiting') <= AwaitingMax
       /\ unheard' = unheard \cup {t[1] : t \in lost \ Expired}
       /\ UNCHANGED <<instant, confirmed, window>>

-----------------------------------------------------------------------------

\* _probe_rate_limit_ok
NewProbeWindow == window.used = 0

Admitted == NewProbeWindow \/ window.used < PROBE_RL_LIMIT

Used == IF NewProbeWindow THEN [age |-> 0, used |-> 1]
        ELSE [window EXCEPT !.used = @ + 1]

\* Some page sends a report of another kind.
SendReport ==
  /\ Admitted
  /\ window' = Used
  /\ UNCHANGED <<instant, store, counts, confirmed, awaiting, charged, unheard>>

\* canary_probe_endpoint.  Over its limit the table of confirmations forgets a
\* part of them.
Confirmed(v) ==
  LET all == confirmed \cup {v}
  IN IF Cardinality(all) > PROBE_CONFIRMED_MAX THEN {all \ {u} : u \in all} ELSE {all}

Known(f) == f.link \in DOMAIN store /\ instant <= store[f.link]

Fetch(f) ==
  /\ awaiting' = awaiting \ {f}
  /\ LET who == f.link[1]
     IN \/ /\ ~Admitted
           /\ unheard' = unheard \cup {who}
           /\ UNCHANGED <<window, confirmed>>
        \/ /\ Admitted /\ window' = Used /\ Known(f)
           /\ confirmed' \in Confirmed(who)
           /\ unheard' = unheard \cup ((confirmed \cup {who}) \ confirmed')
        \/ /\ Admitted /\ window' = Used /\ ~Known(f)
           /\ UNCHANGED <<confirmed, unheard>>
  /\ UNCHANGED <<instant, store, counts, charged>>

-----------------------------------------------------------------------------

\* Browsers that let the TTL pass are late.  A window over its time is as good
\* as none.
Wait ==
  /\ instant < LastInstant
  /\ instant' = instant + 1
  /\ unheard' = unheard \cup
       {f.link[1] : f \in {g \in awaiting : instant' - g.since >= CANARY_PROBE_TTL}}
  /\ window' = IF window.used = 0 \/ window.age = PROBE_RL_WINDOW THEN NoWindow
               ELSE [window EXCEPT !.age = @ + 1]
  /\ UNCHANGED <<store, counts, confirmed, awaiting, charged>>

\* The prune loop compares the window, a reading of the monotonic clock, with
\* the time of day, and drops it whatever its age.
PruneProbe ==
  /\ window' = NoWindow
  /\ UNCHANGED <<instant, store, counts, confirmed, awaiting, charged, unheard>>

ProbeRestart ==
  /\ store' = << >> /\ counts' = << >> /\ confirmed' = {} /\ window' = NoWindow
  /\ UNCHANGED <<instant, awaiting, charged, unheard>>

ProbeInit ==
  /\ instant = 0
  /\ store = << >> /\ counts = << >> /\ confirmed = {} /\ window = NoWindow
  /\ awaiting = {} /\ charged = {} /\ unheard = {}

ProbeNext ==
  \/ \E v \in Visitors : Serve(v)
  \/ SendReport
  \/ \E f \in awaiting : Fetch(f)
  \/ Wait \/ PruneProbe \/ ProbeRestart

-----------------------------------------------------------------------------

ProbeTypeOK ==
  /\ instant \in 0 .. LastInstant
  /\ DOMAIN store \subseteq Visitors \X (0 .. LastInstant)
  /\ DOMAIN counts \subseteq Visitors /\ confirmed \subseteq Visitors
  /\ \A v \in DOMAIN counts : counts[v] \in
       [first : 0 .. LastInstant, pages : 0 .. CANARY_PROBE_MIN_HTML]
  /\ window \in [age : 0 .. PROBE_RL_WINDOW, used : 0 .. PROBE_RL_LIMIT]
  /\ charged \subseteq Visitors /\ unheard \subseteq Browsers \cup Visitors

\* A browser is charged as an agent only after a fetch of its own came late,
\* was refused by the limiter, or was forgotten when a table was full: pages
\* served in any order and number, links that change with the time, and
\* restarts between a page and its fetch do not make it one.
HonestBrowserSpared == charged \cap Browsers \subseteq unheard

=============================================================================
