------------------------------ MODULE Lookups -------------------------------
(***************************************************************************)
(* What other services say of an address, for the requests that ask:       *)
(* AbuseIPDB, whose scores are cached in a table the writer fills          *)
(* (reputation/abuseipdb.py), CrowdSec, whose decisions are cached in      *)
(* memory (reputation/crowdsec.py), and the Tor exits, a list that is      *)
(* fetched now and then (reputation/tor.py).  One address, and in a        *)
(* behaviour one service; a score is high or it is not.                    *)
(***************************************************************************)
EXTENDS Integers, Sequences

CONSTANTS
  Lookers,             \* bound: requests that look the address up at a time
  ABUSE_HOURS,         \* ABUSEIPDB_CACHE_HOURS
  CROWD_SECS,          \* CROWDSEC_CACHE_SECS
  WritesMax,           \* the queue's maxsize
  LastHour             \* bound on the clock

ASSUME LookupsAssumption ==
  {ABUSE_HOURS, CROWD_SECS, WritesMax, LastHour} \subseteq Nat \ {0}

VARIABLES
  service,    \* the one asked: "abuse", "crowd" or "tor"
  hour,       \* time.time()
  listed,     \* what the service thinks of the address
  otherwise,  \* history: when it last thought, or said, otherwise
  lookups,    \* lookups[l]: where it is, when it began (or its list was
              \* read), what it has heard
  row,        \* abuseipdb_cache: the score and its ts
  writes,     \* abuseipdb_set on the queue
  decision,   \* _crowdsec_cache: the decision and when it expires
  exits,      \* whether the address is in _tor_exits
  fetch,      \* _tor_fetch: "idle", "filling", or "read" the list
  fresh,      \* the list it read last, and when
  lists       \* the list it has read and not yet put in place

cacheVars == <<row, writes, decision>>
torVars == <<exits, fetch, fresh, lists>>
lookupVars == <<service, hour, listed, otherwise, lookups, cacheVars, torVars>>

Services == {"abuse", "crowd", "tor"}
Long == IF service = "abuse" THEN ABUSE_HOURS ELSE CROWD_SECS
Free == [at |-> "free", began |-> 0, heard |-> FALSE, source |-> "none"]
Absent == [value |-> FALSE, ts |-> -LastHour - ABUSE_HOURS]

-----------------------------------------------------------------------------
(***************************************************************************)
(* _abuseipdb_lookup and _crowdsec_check: the cache, then the service.     *)
(* The time of the answer is the time the lookup began.                    *)
(***************************************************************************)

Answered(l, value, source) ==
  lookups' = [lookups EXCEPT ![l].at = "answered", ![l].heard = value,
                             ![l].source = source]

\* The table is read by another thread, the dictionary at once.
Begin(l) ==
  /\ service # "tor" /\ lookups[l].at \in {"free", "answered"}
  /\ IF service = "crowd" /\ decision.ts + CROWD_SECS > hour
     THEN lookups' = [lookups EXCEPT ![l] =
            [at |-> "answered", began |-> hour, heard |-> decision.value,
             source |-> "cache"]]
     ELSE lookups' = [lookups EXCEPT ![l] =
            [Free EXCEPT !.at = IF service = "abuse" THEN "reading" ELSE "calling",
                         !.began = hour]]
  /\ UNCHANGED <<service, hour, listed, otherwise, cacheVars, torVars>>

\* A read that fails is as good as no row.
ReadCache(l) ==
  /\ lookups[l].at = "reading"
  /\ \/ /\ lookups[l].began - row.ts < ABUSE_HOURS
        /\ Answered(l, row.value, "cache")
     \/ lookups' = [lookups EXCEPT ![l].at = "calling"]
  /\ UNCHANGED <<service, hour, listed, otherwise, cacheVars, torVars>>

\* The service answers, and the answer is on its way.
Reply(l) ==
  /\ lookups[l].at = "calling"
  /\ lookups' = [lookups EXCEPT ![l].at = "replied", ![l].heard = listed]
  /\ UNCHANGED <<service, hour, listed, otherwise, cacheVars, torVars>>

\* CrowdSec answers a request it refuses with an object where a list of
\* decisions is expected: that is taken for none.
RefuseCall(l) ==
  /\ service = "crowd" /\ lookups[l].at = "calling"
  /\ lookups' = [lookups EXCEPT ![l].at = "replied", ![l].heard = FALSE]
  /\ otherwise' = IF listed THEN hour ELSE otherwise
  /\ UNCHANGED <<service, hour, listed, cacheVars, torVars>>

\* A timeout, an exhausted quota or any other failure: the address passes for
\* clean, and nothing is remembered.
Fail(l) ==
  /\ lookups[l].at \in {"calling", "replied"}
  /\ Answered(l, FALSE, "error")
  /\ UNCHANGED <<service, hour, listed, otherwise, cacheVars, torVars>>

\* Fault: an answer counts from when it is received.
ReceivedAt(l) == hour

\* `n`
AnswerOf(l) == lookups[l].began

Receive(l) ==
  LET answer == [value |-> lookups[l].heard, ts |-> AnswerOf(l)]
  IN /\ lookups[l].at = "replied"
     /\ Answered(l, answer.value, "api")
     /\ IF service = "crowd"
        THEN decision' = answer /\ UNCHANGED <<row, writes>>
        ELSE /\ writes' = IF Len(writes) < WritesMax
                          THEN Append(writes, answer) ELSE writes
             /\ UNCHANGED <<row, decision>>
     /\ UNCHANGED <<service, hour, listed, otherwise, torVars>>

\* The writer's arm, or the loss of its batch.
WriteScore ==
  /\ writes # << >> /\ writes' = Tail(writes)
  /\ row' \in {Head(writes), row}
  /\ UNCHANGED <<service, hour, listed, otherwise, lookups, decision, torVars>>

-----------------------------------------------------------------------------
(***************************************************************************)
(* _tor_refresh_loop: a thread of its own reads the list, empties the set  *)
(* and fills it again, while requests look into it.  A list that cannot be *)
(* read leaves the set alone.                                              *)
(***************************************************************************)

ReadExits ==
  /\ service = "tor" /\ fetch = "idle"
  /\ fetch' = "read" /\ lists' = [value |-> listed, ts |-> hour]
  /\ UNCHANGED <<service, hour, listed, otherwise, lookups, cacheVars, exits, fresh>>

ClearExits ==
  /\ fetch = "read" /\ fetch' = "filling" /\ exits' = FALSE
  /\ UNCHANGED <<service, hour, listed, otherwise, lookups, cacheVars, fresh, lists>>

FillExits ==
  /\ fetch = "filling" /\ fetch' = "idle"
  /\ exits' = lists.value /\ fresh' = lists
  /\ UNCHANGED <<service, hour, listed, otherwise, lookups, cacheVars, lists>>

AbandonFetch ==
  /\ fetch = "read" /\ fetch' = "idle"
  /\ UNCHANGED <<service, hour, listed, otherwise, lookups, cacheVars, exits, fresh,
                 lists>>

\* protect() and the operators' view of an address.
CheckExit(l) ==
  /\ service = "tor" /\ lookups[l].at \in {"free", "answered"}
  /\ lookups' = [lookups EXCEPT ![l] =
       [at |-> "answered", began |-> fresh.ts, heard |-> exits,
        source |-> IF fetch = "filling" \/ fresh = Absent THEN "none" ELSE "list"]]
  /\ UNCHANGED <<service, hour, listed, otherwise, cacheVars, torVars>>

-----------------------------------------------------------------------------

\* The world.
ThinkAgain ==
  /\ listed' = ~listed /\ otherwise' = hour
  /\ UNCHANGED <<service, hour, lookups, cacheVars, torVars>>

Hour ==
  /\ hour < LastHour /\ hour' = hour + 1
  /\ UNCHANGED <<service, listed, otherwise, lookups, cacheVars, torVars>>

LookupsRestart ==
  /\ lookups' = [l \in Lookers |-> Free]
  /\ writes' = << >> /\ decision' = Absent
  /\ exits' = FALSE /\ fetch' = "idle" /\ fresh' = Absent /\ lists' = Absent
  /\ UNCHANGED <<service, hour, listed, otherwise, row>>

LookupsInit ==
  /\ service \in Services /\ hour = 0
  /\ listed \in BOOLEAN /\ otherwise = -LastHour - ABUSE_HOURS
  /\ lookups = [l \in Lookers |-> Free]
  /\ row = Absent /\ writes = << >> /\ decision = Absent
  /\ exits = FALSE /\ fetch = "idle" /\ fresh = Absent /\ lists = Absent

LookupsNext ==
  \/ \E l \in Lookers : \/ Begin(l) \/ ReadCache(l) \/ Reply(l) \/ RefuseCall(l)
                        \/ Fail(l) \/ Receive(l) \/ CheckExit(l)
  \/ WriteScore
  \/ ReadExits \/ ClearExits \/ FillExits \/ AbandonFetch
  \/ ThinkAgain \/ Hour \/ LookupsRestart

LookupsSpec == LookupsInit /\ [][LookupsNext]_lookupVars

-----------------------------------------------------------------------------

LookupsTypeOK ==
  /\ service \in Services /\ hour \in 0 .. LastHour
  /\ listed \in BOOLEAN /\ exits \in BOOLEAN
  /\ lookups \in [Lookers ->
       [at : {"free", "reading", "calling", "replied", "answered"},
        began : Int, heard : BOOLEAN,
        source : {"none", "cache", "api", "list", "error"}]]
  /\ fetch \in {"idle", "read", "filling"} /\ Len(writes) <= WritesMax

\* When the service was last of this opinion.
Held(value) == IF listed = value THEN hour ELSE otherwise

\* A verdict on an address is never older than its cache allows, however slow
\* the service and the writer, whichever of two answers is written last, and
\* whatever was restarted: the service was of that opinion less than the TTL
\* before the request asked, or since the list in use was fetched.  A failure
\* is nobody's opinion, and an empty set that is being filled is none either.
VerdictsFresh ==
  \A l \in Lookers :
    LET look == lookups[l]
    IN /\ look.source = "cache" => Held(look.heard) > look.began - Long
       /\ look.source \in {"api", "list"} => Held(look.heard) >= look.began

=============================================================================
