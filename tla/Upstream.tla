------------------------------ MODULE Upstream ------------------------------
(***************************************************************************)
(* The gateway and the sites behind it (core/proxy_handler.py): proxy()    *)
(* forwards a request through one circuit breaker, _silent_decoy_response  *)
(* answers a blocked one with the site's home page, kept in a slot per     *)
(* site and refreshed by one request at a time.                            *)
(*                                                                         *)
(* A request that waits for a site is resumed in a later step, so answers  *)
(* to requests sent before the breaker opened arrive while it is open.     *)
(* Durations count down: SecondPasses is one second for the breaker.       *)
(***************************************************************************)
EXTENDS Integers, FiniteSets

CONSTANTS
  Sites,                    \* the upstreams of the virtual hosts
  Bodiless,                 \* those whose home page has no body (a redirect)
  Forwards,                 \* bound: requests in proxy() at a time
  Blocked,                  \* bound: requests in _silent_decoy_response at a time
  NoRequest,
  CIRCUIT_FAIL_THRESHOLD,
  CIRCUIT_OPEN_SECS,
  CIRCUIT_HALF_OPEN_MAX

ASSUME UpstreamAssumption ==
  /\ CIRCUIT_FAIL_THRESHOLD \in Nat \ {0}
  /\ CIRCUIT_OPEN_SECS \in Nat \ {0}
  /\ CIRCUIT_HALF_OPEN_MAX \in Nat \ {0}
  /\ Bodiless \subseteq Sites
  /\ NoRequest \notin Blocked

VARIABLES
  healthy,   \* the sites that answer, and answer below 500
  breaker,   \* _UPSTREAM_CB, for all sites together
  sent,      \* sent[r]: what request r waits for
  slot,      \* slot[s]: _decoy_cache[s]
  holder,    \* holder[s]: the request that holds the lock of the slot
  decoy,     \* decoy[b]: what the blocked request b waits for
  fetches,   \* history: fetches for the slot of s since it last grew stale
  probes     \* history: requests let through since the breaker opened

upstreamVars == <<healthy, breaker, sent, slot, holder, decoy, fetches, probes>>
breakerVars == <<breaker, sent, probes>>
decoyVars == <<slot, holder, decoy, fetches>>

-----------------------------------------------------------------------------
(***************************************************************************)
(* The circuit breaker                                                     *)
(***************************************************************************)

\* failures and attempts are only compared with a threshold: they are counted
\* as far as that comparison can tell.
Breaker == [failures : 0 .. CIRCUIT_FAIL_THRESHOLD,
            openLeft : 0 .. CIRCUIT_OPEN_SECS,
            attempts : 0 .. CIRCUIT_HALF_OPEN_MAX + 1]

UpTo(n, limit) == IF n < limit THEN n + 1 ELSE limit

Closed == [failures |-> 0, openLeft |-> 0, attempts |-> 0]

Open == breaker.openLeft > 0

\* A request on its way: `sound` says its site has been healthy all along.
NotSent == [waits |-> FALSE]
SentTo(s) == [waits |-> TRUE, site |-> s, sound |-> s \in healthy]
Waiting == {r \in Forwards : sent[r].waits}

Forward(r, s) ==
  /\ ~sent[r].waits /\ ~Open
  /\ sent' = [sent EXCEPT ![r] = SentTo(s)]
  /\ UNCHANGED <<healthy, breaker, probes, decoyVars>>

\* Fault: every request turned away keeps the breaker open for longer.
AttemptProlongs ==
  [breaker EXCEPT !.attempts = UpTo(@, CIRCUIT_HALF_OPEN_MAX + 1),
                  !.openLeft = CIRCUIT_OPEN_SECS]

\* While the breaker is open every request is counted; the first ones pass.
Attempt == [breaker EXCEPT !.attempts = UpTo(@, CIRCUIT_HALF_OPEN_MAX + 1)]

Probe(r, s) ==
  /\ ~sent[r].waits /\ Open
  /\ breaker' = Attempt
  /\ breaker'.attempts <= CIRCUIT_HALF_OPEN_MAX
  /\ sent' = [sent EXCEPT ![r] = SentTo(s)]
  /\ probes' = UpTo(probes, CIRCUIT_HALF_OPEN_MAX + 1)
  /\ UNCHANGED <<healthy, decoyVars>>

\* 503
Refuse ==
  /\ Open
  /\ breaker' = Attempt
  /\ breaker'.attempts > CIRCUIT_HALF_OPEN_MAX
  /\ UNCHANGED <<healthy, sent, probes, decoyVars>>

\* Fault: a failure adds to the time the breaker stays open.
AfterFailureProlonged ==
  LET failures == UpTo(breaker.failures, CIRCUIT_FAIL_THRESHOLD)
  IN [failures |-> failures, attempts |-> 0,
      openLeft |-> IF failures >= CIRCUIT_FAIL_THRESHOLD
                   THEN breaker.openLeft + CIRCUIT_OPEN_SECS ELSE 0]

\* _circuit_record_failure: every failure from the threshold on opens the
\* breaker anew and forgets the attempts.
AfterFailure ==
  LET failures == UpTo(breaker.failures, CIRCUIT_FAIL_THRESHOLD)
  IN IF failures >= CIRCUIT_FAIL_THRESHOLD
     THEN [failures |-> failures, openLeft |-> CIRCUIT_OPEN_SECS, attempts |-> 0]
     ELSE [breaker EXCEPT !.failures = failures]

\* Fault: a success leaves the breaker open for the rest of its time.
ForgetFailures == [breaker EXCEPT !.failures = 0, !.attempts = 0]

\* _circuit_record_success
AfterSuccess == Closed

\* An answer below 500.
Answered(r) ==
  /\ sent[r].waits
  /\ breaker' = AfterSuccess
  /\ probes' = 0
  /\ sent' = [sent EXCEPT ![r] = NotSent]
  /\ UNCHANGED <<healthy, decoyVars>>

\* An answer of 500 or above, a connection error or a timeout.
Fails(r) ==
  /\ sent[r].waits /\ ~sent[r].sound
  /\ breaker' = AfterFailure
  /\ sent' = [sent EXCEPT ![r] = NotSent]
  /\ UNCHANGED <<healthy, probes, decoyVars>>

\* A body over UPSTREAM_MAX_RESP is refused before the breaker hears of it.
Oversized(r) ==
  /\ sent[r].waits
  /\ sent' = [sent EXCEPT ![r] = NotSent]
  /\ UNCHANGED <<healthy, breaker, probes, decoyVars>>

-----------------------------------------------------------------------------
(***************************************************************************)
(* The decoy page                                                          *)
(***************************************************************************)

\* The lock is asked for, then the slot is looked at again.
NeedsPage(s) == slot[s] # "fresh" /\ ~Open

NoDecoy == [does |-> "nothing"]
Does(what, s) == [does |-> what, site |-> s]

\* Fault: the slot is not looked at again.
StillNeeded(s) == TRUE

NeededUnderLock(s) == NeedsPage(s)

\* The request holds the lock: it fetches the page, or finds it there.
Enter(b, s) ==
  IF NeededUnderLock(s)
  THEN /\ holder' = [holder EXCEPT ![s] = b]
       /\ decoy' = [decoy EXCEPT ![b] = Does("fetch", s)]
       /\ fetches' = [fetches EXCEPT ![s] = UpTo(@, 2)]
  ELSE /\ decoy' = [decoy EXCEPT ![b] = NoDecoy]
       /\ UNCHANGED <<holder, fetches>>

\* A blocked request that needs no refresh is answered at once.
Block(b, s) ==
  /\ decoy[b].does = "nothing" /\ NeedsPage(s)
  /\ IF holder[s] = NoRequest
     THEN Enter(b, s)
     ELSE /\ decoy' = [decoy EXCEPT ![b] = Does("wait", s)]
          /\ UNCHANGED <<holder, fetches>>
  /\ UNCHANGED <<healthy, breakerVars, slot>>

Resume(b) ==
  /\ decoy[b].does = "wait" /\ holder[decoy[b].site] = NoRequest
  /\ Enter(b, decoy[b].site)
  /\ UNCHANGED <<healthy, breakerVars, slot>>

\* The site's page, or after an error the built-in one, is kept for the TTL; a
\* slot without a body counts as empty.
Filled(s) == IF s \in Bodiless THEN {"fresh", "empty"} ELSE {"fresh"}

\* Fault: after an error the lock is kept.
ReleasedBySuccess(s) == IF s \in healthy THEN NoRequest ELSE holder[s]

Released(s) == NoRequest

FetchEnds(b) ==
  /\ decoy[b].does = "fetch"
  /\ LET s == decoy[b].site
     IN /\ \E page \in Filled(s) : slot' = [slot EXCEPT ![s] = page]
        /\ holder' = [holder EXCEPT ![s] = Released(s)]
  /\ decoy' = [decoy EXCEPT ![b] = NoDecoy]
  /\ UNCHANGED <<healthy, breakerVars, fetches>>

GrowsStale(s) ==
  /\ slot[s] = "fresh"
  /\ slot' = [slot EXCEPT ![s] = "stale"]
  /\ fetches' = [fetches EXCEPT ![s] = 0]
  /\ UNCHANGED <<healthy, breakerVars, holder, decoy>>

-----------------------------------------------------------------------------

\* A site goes down, and spoils what is on its way to it; or comes back.
SiteOutage(s) ==
  /\ healthy' = IF s \in healthy THEN healthy \ {s} ELSE healthy \cup {s}
  /\ sent' = [r \in Forwards |->
                IF sent[r].waits /\ sent[r].site = s
                THEN [sent[r] EXCEPT !.sound = FALSE] ELSE sent[r]]
  /\ UNCHANGED <<breaker, probes, decoyVars>>

SecondPasses ==
  /\ Open
  /\ breaker' = [breaker EXCEPT !.openLeft = @ - 1]
  /\ probes' = IF breaker.openLeft = 1 THEN 0 ELSE probes
  /\ UNCHANGED <<healthy, sent, decoyVars>>

UpstreamInit ==
  /\ healthy = Sites
  /\ breaker = Closed
  /\ sent = [r \in Forwards |-> NotSent]
  /\ slot = [s \in Sites |-> "empty"]
  /\ holder = [s \in Sites |-> NoRequest]
  /\ decoy = [b \in Blocked |-> NoDecoy]
  /\ fetches = [s \in Sites |-> 0]
  /\ probes = 0

Ends(r) == Answered(r) \/ Fails(r) \/ Oversized(r)

UpstreamNext ==
  \/ \E r \in Forwards, s \in Sites : Forward(r, s) \/ Probe(r, s)
  \/ Refuse
  \/ \E r \in Forwards : Ends(r)
  \/ \E b \in Blocked : (\E s \in Sites : Block(b, s)) \/ Resume(b) \/ FetchEnds(b)
  \/ \E s \in Sites : GrowsStale(s) \/ SiteOutage(s)
  \/ SecondPasses

\* Every call to a site has a ClientTimeout, asyncio.Lock wakes its waiters in
\* order, and time passes.
UpstreamFairness ==
  /\ \A r \in Forwards : WF_upstreamVars(Ends(r))
  /\ \A b \in Blocked : WF_upstreamVars(FetchEnds(b)) /\ SF_upstreamVars(Resume(b))
  /\ WF_upstreamVars(SecondPasses)

UpstreamSpec == UpstreamInit /\ [][UpstreamNext]_upstreamVars
UpstreamFairSpec == UpstreamSpec /\ UpstreamFairness

-----------------------------------------------------------------------------
(***************************************************************************)
(* Properties                                                              *)
(***************************************************************************)

UpstreamTypeOK ==
  /\ healthy \subseteq Sites
  /\ breaker \in Breaker
  /\ sent \in [Forwards -> {NotSent} \cup
                 [waits : {TRUE}, site : Sites, sound : BOOLEAN]]
  /\ slot \in [Sites -> {"empty", "fresh", "stale"}]
  /\ holder \in [Sites -> Blocked \cup {NoRequest}]
  /\ decoy \in [Blocked -> {NoDecoy} \cup [does : {"wait", "fetch"}, site : Sites]]
  /\ fetches \in [Sites -> 0 .. 2]
  /\ probes \in 0 .. CIRCUIT_HALF_OPEN_MAX + 1

\* "Consecutive upstream failures that trip the circuit breaker open": a 503
\* is never given unless that many requests failed since the last success,
\* however late their answers came.
OpenMeansFailing == Open => breaker.failures = CIRCUIT_FAIL_THRESHOLD

\* The herd protection of the decoy lock: the blocked requests that find a
\* slot stale send one request to the site, whether it succeeds or fails. (A
\* home page without a body never fills its slot: it is fetched for each of
\* them, one after the other.)
OneFetchPerExpiry ==
  /\ \A s \in Sites \ Bodiless : fetches[s] <= 1
  /\ \A b \in Blocked : decoy[b].does = "fetch" => holder[decoy[b].site] = b

\* The lock of a slot is held only by a request that is fetching its page,
\* failed fetches included: whoever waits at a lock waits for a call with a
\* time limit.
LocksGuardFetches ==
  \A s \in Sites : holder[s] # NoRequest => decoy[holder[s]] = Does("fetch", s)

\* The requests in flight whose site failed them.
Late == {r \in Waiting : ~sent[r].sound}

\* While every site is healthy only a failure sent before the recovery keeps
\* the breaker open for longer, and each of them does so once: requests that
\* are refused, probes and answers in whatever order do not.
LateFailuresRunOut ==
  [][healthy = Sites /\ healthy' = Sites
     => /\ Late' \subseteq Late
        /\ breaker'.openLeft > breaker.openLeft => Late' # Late]_upstreamVars

\* Once every site stays healthy the breaker closes for good: failures that
\* arrive late may open it again, but not for ever.
BreakerRecovers == <>[](healthy = Sites) => <>[]~Open

\* A blocked request gets its page: nobody waits for ever at the lock.
BlockedAreAnswered ==
  \A b \in Blocked : decoy[b].does # "nothing" ~> decoy[b].does = "nothing"

\* controls.html on CIRCUIT_HALF_OPEN_MAX: "Number of probe requests allowed
\* through while the circuit is open (to test if upstream has recovered).
\* After this many, all requests bypass until CIRCUIT_OPEN_SECS expires."
ProbesBounded == probes <= CIRCUIT_HALF_OPEN_MAX

=============================================================================
