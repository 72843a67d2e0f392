--------------------------- MODULE Services_proofs ---------------------------
(*****************************************************************************)
(* Safety of the two components that wait for another service: Upstream,     *)
(* for any number of sites and of requests, and SharedBans, for any          *)
(* gateways, identities and vhosts, any durations and any length of the      *)
(* retry queue.                                                              *)
(*****************************************************************************)
EXTENDS Upstream, SharedBans, SequenceTheorems, TLAPS

-----------------------------------------------------------------------------
(*****************************************************************************)
(* Upstream                                                                  *)
(*****************************************************************************)

\* A slot that has been asked for since it grew stale is full, or the request
\* that asked still holds its lock; only the holder of a lock fetches.
AskedOnce ==
  \A s \in Sites \ Bodiless :
    \/ fetches[s] = 0
    \/ fetches[s] = 1 /\ (slot[s] = "fresh" \/ holder[s] # NoRequest)
HolderFetches ==
  \A b \in Blocked : decoy[b].does = "fetch" => holder[decoy[b].site] = b

UpstreamIInv == UpstreamTypeOK /\ OpenMeansFailing /\ AskedOnce /\ HolderFetches

-----------------------------------------------------------------------------

\* A request in flight names a site.
LEMMA SentTyped ==
  ASSUME UpstreamTypeOK, NEW s \in Sites
  PROVE  /\ SentTo(s) \in [waits : {TRUE}, site : Sites, sound : BOOLEAN]
         /\ \A r \in Forwards : sent[r].waits => sent[r].site \in Sites
  <1>1. SentTo(s) \in [waits : {TRUE}, site : Sites, sound : BOOLEAN]
    BY DEF SentTo
  <1>2. ASSUME NEW r \in Forwards, sent[r].waits
        PROVE  sent[r].site \in Sites
    <2>1. sent[r] \in {NotSent} \cup [waits : {TRUE}, site : Sites, sound : BOOLEAN]
      BY DEF UpstreamTypeOK
    <2>2. sent[r] # NotSent
      BY <1>2 DEF NotSent
    <2> QED BY <2>1, <2>2
  <1> QED BY <1>1, <1>2

\* A blocked request that waits or fetches names a site.
LEMMA DecoyTyped ==
  ASSUME UpstreamTypeOK, NEW b \in Blocked, decoy[b].does \in {"wait", "fetch"}
  PROVE  decoy[b].site \in Sites /\ decoy[b] # NoDecoy
  <1>1. decoy[b] \in {NoDecoy} \cup [does : {"wait", "fetch"}, site : Sites]
    BY DEF UpstreamTypeOK
  <1>2. decoy[b] # NoDecoy
    BY DEF NoDecoy
  <1> QED BY <1>1, <1>2

THEOREM UpstreamInitEstablishes == UpstreamInit => UpstreamIInv
  <1> SUFFICES ASSUME UpstreamInit PROVE UpstreamIInv
    OBVIOUS
  <1> USE UpstreamAssumption
  <1>1. UpstreamTypeOK
    <2>1. Closed \in Breaker /\ 0 \in 0 .. CIRCUIT_HALF_OPEN_MAX + 1
      BY DEF Closed, Breaker
    <2>2. sent \in [Forwards -> {NotSent} \cup [waits : {TRUE}, site : Sites, sound : BOOLEAN]]
      BY DEF UpstreamInit
    <2>3. decoy \in [Blocked -> {NoDecoy} \cup [does : {"wait", "fetch"}, site : Sites]]
      BY DEF UpstreamInit
    <2> QED BY <2>1, <2>2, <2>3 DEF UpstreamInit, UpstreamTypeOK
  <1>2. OpenMeansFailing
    BY DEF UpstreamInit, OpenMeansFailing, Open, Closed
  <1>3. AskedOnce
    BY DEF UpstreamInit, AskedOnce
  <1>4. HolderFetches
    BY DEF UpstreamInit, HolderFetches, NoDecoy
  <1> QED BY <1>1, <1>2, <1>3, <1>4 DEF UpstreamIInv

-----------------------------------------------------------------------------

\* The breaker side: what the steps of proxy() do to it.
LEMMA BreakerTyped ==
  ASSUME UpstreamTypeOK
  PROVE  Attempt \in Breaker /\ AfterFailure \in Breaker /\ AfterSuccess \in Breaker
  <1> USE UpstreamAssumption DEF Breaker
  <1>1. /\ breaker \in Breaker
        /\ CIRCUIT_HALF_OPEN_MAX + 1 \in Nat
    BY DEF UpstreamTypeOK
  <1>2. UpTo(breaker.attempts, CIRCUIT_HALF_OPEN_MAX + 1) \in 0 .. CIRCUIT_HALF_OPEN_MAX + 1
    BY <1>1 DEF UpTo
  <1>3. UpTo(breaker.failures, CIRCUIT_FAIL_THRESHOLD) \in 0 .. CIRCUIT_FAIL_THRESHOLD
    BY <1>1 DEF UpTo
  <1>4. Attempt \in Breaker
    BY <1>1, <1>2 DEF Attempt
  <1>5. AfterFailure \in Breaker
    BY <1>1, <1>3 DEF AfterFailure
  <1>6. AfterSuccess \in Breaker
    BY DEF AfterSuccess, Closed
  <1> QED BY <1>4, <1>5, <1>6

LEMMA BreakerFailing ==
  ASSUME UpstreamTypeOK, OpenMeansFailing
  PROVE  /\ Attempt.openLeft = breaker.openLeft /\ Attempt.failures = breaker.failures
         /\ AfterFailure.openLeft > 0 => AfterFailure.failures = CIRCUIT_FAIL_THRESHOLD
         /\ AfterSuccess.openLeft = 0
  <1> USE UpstreamAssumption DEF Breaker
  <1>1. breaker \in Breaker
    BY DEF UpstreamTypeOK
  <1>2. Attempt.openLeft = breaker.openLeft /\ Attempt.failures = breaker.failures
    BY <1>1 DEF Attempt
  <1>3. AfterFailure.openLeft > 0 => AfterFailure.failures = CIRCUIT_FAIL_THRESHOLD
    BY <1>1 DEF AfterFailure, UpTo, OpenMeansFailing, Open
  <1> QED BY <1>2, <1>3 DEF AfterSuccess, Closed

\* What proxy(), outages and the clock do leaves the decoy pages alone.
LEMMA DecoyUntouched ==
  ASSUME AskedOnce, HolderFetches, UNCHANGED decoyVars
  PROVE  AskedOnce' /\ HolderFetches'
  BY DEF AskedOnce, HolderFetches, decoyVars

\* What blocked requests do leaves the breaker alone.
LEMMA BreakerUntouched ==
  ASSUME OpenMeansFailing, UNCHANGED breaker
  PROVE  OpenMeansFailing'
  BY DEF OpenMeansFailing, Open

\* The steps of proxy().
LEMMA ForwardStep ==
  ASSUME UpstreamIInv, NEW r \in Forwards, NEW s \in Sites, Forward(r, s)
  PROVE  UpstreamIInv'
  <1> USE DEF UpstreamIInv
  <1>1. UpstreamTypeOK'
    BY SentTyped DEF Forward, UpstreamTypeOK, decoyVars
  <1>2. OpenMeansFailing' /\ AskedOnce' /\ HolderFetches'
    BY DecoyUntouched, BreakerUntouched DEF Forward
  <1> QED BY <1>1, <1>2

LEMMA ProbeStep ==
  ASSUME UpstreamIInv, NEW r \in Forwards, NEW s \in Sites, Probe(r, s)
  PROVE  UpstreamIInv'
  <1> USE DEF UpstreamIInv
  <1>1. UpstreamTypeOK'
    <2>1. probes' \in 0 .. CIRCUIT_HALF_OPEN_MAX + 1
      BY UpstreamAssumption DEF Probe, UpstreamTypeOK, UpTo
    <2> QED BY <2>1, SentTyped, BreakerTyped DEF Probe, UpstreamTypeOK, decoyVars
  <1>2. OpenMeansFailing'
    BY BreakerFailing DEF Probe, OpenMeansFailing, Open
  <1>3. AskedOnce' /\ HolderFetches'
    BY DecoyUntouched DEF Probe
  <1> QED BY <1>1, <1>2, <1>3

LEMMA RefuseStep ==
  ASSUME UpstreamIInv, Refuse
  PROVE  UpstreamIInv'
  <1> USE DEF UpstreamIInv
  <1>1. UpstreamTypeOK'
    BY BreakerTyped DEF Refuse, UpstreamTypeOK, decoyVars
  <1>2. OpenMeansFailing'
    BY BreakerFailing DEF Refuse, OpenMeansFailing, Open
  <1>3. AskedOnce' /\ HolderFetches'
    BY DecoyUntouched DEF Refuse
  <1> QED BY <1>1, <1>2, <1>3

LEMMA EndsStep ==
  ASSUME UpstreamIInv, NEW r \in Forwards, Ends(r)
  PROVE  UpstreamIInv'
  <1> USE DEF UpstreamIInv
  <1>1. CASE Answered(r)
    <2>1. UpstreamTypeOK'
      <3>1. 0 \in 0 .. CIRCUIT_HALF_OPEN_MAX + 1
        BY UpstreamAssumption
      <3> QED BY <1>1, <3>1, BreakerTyped DEF Answered, UpstreamTypeOK, decoyVars
    <2>2. OpenMeansFailing'
      BY <1>1, BreakerFailing DEF Answered, OpenMeansFailing, Open
    <2>3. AskedOnce' /\ HolderFetches'
      BY <1>1, DecoyUntouched DEF Answered
    <2> QED BY <2>1, <2>2, <2>3
  <1>2. CASE Fails(r)
    <2>1. UpstreamTypeOK'
      BY <1>2, BreakerTyped DEF Fails, UpstreamTypeOK, decoyVars
    <2>2. OpenMeansFailing'
      BY <1>2, BreakerFailing DEF Fails, OpenMeansFailing, Open
    <2>3. AskedOnce' /\ HolderFetches'
      BY <1>2, DecoyUntouched DEF Fails
    <2> QED BY <2>1, <2>2, <2>3
  <1>3. CASE Oversized(r)
    <2>1. UpstreamTypeOK'
      BY <1>3 DEF Oversized, UpstreamTypeOK, decoyVars
    <2>2. OpenMeansFailing' /\ AskedOnce' /\ HolderFetches'
      BY <1>3, DecoyUntouched, BreakerUntouched DEF Oversized
    <2> QED BY <2>1, <2>2
  <1> QED BY <1>1, <1>2, <1>3 DEF Ends

\* Entering the lock of a slot, free until now.
LEMMA EnterStep ==
  ASSUME UpstreamIInv, NEW b \in Blocked, NEW s \in Sites, Enter(b, s),
         holder[s] = NoRequest, decoy[b].does # "fetch",
         UNCHANGED <<healthy, breakerVars, slot>>
  PROVE  UpstreamIInv'
  <1> USE DEF UpstreamIInv
  <1>1. Does("fetch", s) \in [does : {"wait", "fetch"}, site : Sites]
    BY DEF Does
  <1>2. CASE NeededUnderLock(s)
    <2>1. s \notin Bodiless => fetches[s] = 0
      BY <1>2 DEF NeededUnderLock, NeedsPage, AskedOnce
    <2>2. /\ holder' = [holder EXCEPT ![s] = b]
          /\ decoy' = [decoy EXCEPT ![b] = Does("fetch", s)]
          /\ fetches' = [fetches EXCEPT ![s] = UpTo(@, 2)]
      BY <1>2 DEF Enter
    <2>3. UpstreamTypeOK'
      <3>1. UpTo(fetches[s], 2) \in 0 .. 2
        BY DEF UpstreamTypeOK, UpTo
      <3>2. fetches' \in [Sites -> 0 .. 2]
        BY <2>2, <3>1 DEF UpstreamTypeOK
      <3> QED BY <1>1, <2>2, <3>2 DEF UpstreamTypeOK, breakerVars
    <2>4. AskedOnce'
      <3>1. UpTo(0, 2) = 1
        BY DEF UpTo
      <3> QED BY <2>1, <2>2, <3>1, UpstreamAssumption DEF AskedOnce, UpstreamTypeOK
    <2>5. HolderFetches'
      <3> SUFFICES ASSUME NEW c \in Blocked, decoy'[c].does = "fetch"
                   PROVE  holder'[decoy'[c].site] = c
        BY DEF HolderFetches
      <3>1. CASE c = b
        BY <2>2, <3>1 DEF UpstreamTypeOK, Does
      <3>2. CASE c # b
        <4>1. decoy'[c] = decoy[c] /\ holder[decoy[c].site] = c
          BY <2>2, <3>2 DEF HolderFetches, UpstreamTypeOK
        <4>2. decoy[c].site # s
          BY <4>1, UpstreamAssumption
        <4> QED BY <2>2, <4>1, <4>2 DEF UpstreamTypeOK
      <3> QED BY <3>1, <3>2
    <2> QED BY <2>3, <2>4, <2>5, BreakerUntouched DEF breakerVars
  <1>3. CASE ~NeededUnderLock(s)
    <2>1. decoy' = [decoy EXCEPT ![b] = NoDecoy] /\ UNCHANGED <<holder, fetches>>
      BY <1>3 DEF Enter
    <2>2. UpstreamTypeOK'
      BY <2>1 DEF UpstreamTypeOK, breakerVars
    <2>3. AskedOnce'
      BY <2>1 DEF AskedOnce
    <2>4. HolderFetches'
      <3> SUFFICES ASSUME NEW c \in Blocked, decoy'[c].does = "fetch"
                   PROVE  holder'[decoy'[c].site] = c
        BY DEF HolderFetches
      <3>1. decoy'[c] = decoy[c]
        BY <2>1 DEF UpstreamTypeOK, NoDecoy
      <3> QED BY <2>1, <3>1 DEF HolderFetches
    <2> QED BY <2>2, <2>3, <2>4, BreakerUntouched DEF breakerVars
  <1> QED BY <1>2, <1>3

LEMMA BlockStep ==
  ASSUME UpstreamIInv, NEW b \in Blocked, NEW s \in Sites, Block(b, s)
  PROVE  UpstreamIInv'
  <1> USE DEF UpstreamIInv
  <1>1. CASE holder[s] = NoRequest
    BY <1>1, EnterStep DEF Block
  <1>2. CASE holder[s] # NoRequest
    <2>1. /\ decoy' = [decoy EXCEPT ![b] = Does("wait", s)]
          /\ UNCHANGED <<healthy, breakerVars, slot, holder, fetches>>
      BY <1>2 DEF Block
    <2>2. Does("wait", s) \in [does : {"wait", "fetch"}, site : Sites]
      BY DEF Does
    <2>3. UpstreamTypeOK'
      BY <2>1, <2>2 DEF UpstreamTypeOK, breakerVars
    <2>4. AskedOnce'
      BY <2>1 DEF AskedOnce
    <2>5. HolderFetches'
      <3> SUFFICES ASSUME NEW c \in Blocked, decoy'[c].does = "fetch"
                   PROVE  holder'[decoy'[c].site] = c
        BY DEF HolderFetches
      <3>1. decoy'[c] = decoy[c]
        BY <2>1 DEF UpstreamTypeOK, Does
      <3> QED BY <2>1, <3>1 DEF HolderFetches
    <2> QED BY <2>1, <2>3, <2>4, <2>5, BreakerUntouched DEF breakerVars
  <1> QED BY <1>1, <1>2

LEMMA ResumeStep ==
  ASSUME UpstreamIInv, NEW b \in Blocked, Resume(b)
  PROVE  UpstreamIInv'
  <1>1. decoy[b].site \in Sites
    BY DecoyTyped DEF UpstreamIInv, Resume
  <1> QED BY <1>1, EnterStep DEF Resume

LEMMA FetchEndsStep ==
  ASSUME UpstreamIInv, NEW b \in Blocked, FetchEnds(b)
  PROVE  UpstreamIInv'
  <1> USE DEF UpstreamIInv
  <1> DEFINE s == decoy[b].site
  <1>1. s \in Sites /\ holder[s] = b
    BY DecoyTyped DEF FetchEnds, HolderFetches
  <1>2. /\ \E page \in Filled(s) : slot' = [slot EXCEPT ![s] = page]
        /\ holder' = [holder EXCEPT ![s] = NoRequest]
        /\ decoy' = [decoy EXCEPT ![b] = NoDecoy]
        /\ UNCHANGED <<healthy, breakerVars, fetches>>
    BY DEF FetchEnds, Released
  <1> HIDE DEF s
  <1>3. UpstreamTypeOK'
    BY <1>1, <1>2 DEF UpstreamTypeOK, breakerVars, Filled
  <1>4. AskedOnce'
    BY <1>1, <1>2 DEF AskedOnce, UpstreamTypeOK, Filled
  <1>5. HolderFetches'
    <2> SUFFICES ASSUME NEW c \in Blocked, decoy'[c].does = "fetch"
                 PROVE  holder'[decoy'[c].site] = c
      BY DEF HolderFetches
    <2>1. c # b /\ decoy'[c] = decoy[c]
      BY <1>2 DEF UpstreamTypeOK, NoDecoy
    <2>2. holder[decoy[c].site] = c
      BY <2>1 DEF HolderFetches
    <2>3. decoy[c].site # s
      BY <1>1, <2>1, <2>2
    <2> QED BY <1>2, <2>1, <2>2, <2>3 DEF UpstreamTypeOK
  <1> QED BY <1>2, <1>3, <1>4, <1>5, BreakerUntouched DEF breakerVars

LEMMA GrowsStaleStep ==
  ASSUME UpstreamIInv, NEW s \in Sites, GrowsStale(s)
  PROVE  UpstreamIInv'
  <1> USE DEF UpstreamIInv
  <1>1. UpstreamTypeOK'
    <2>1. /\ slot' \in [Sites -> {"empty", "fresh", "stale"}]
          /\ fetches' \in [Sites -> 0 .. 2]
      BY DEF GrowsStale, UpstreamTypeOK
    <2> QED BY <2>1 DEF GrowsStale, UpstreamTypeOK, breakerVars
  <1>2. AskedOnce'
    <2> SUFFICES ASSUME NEW u \in Sites \ Bodiless
                 PROVE  \/ fetches'[u] = 0
                        \/ fetches'[u] = 1 /\ (slot'[u] = "fresh" \/ holder'[u] # NoRequest)
      BY DEF AskedOnce
    <2>1. CASE u = s
      BY <2>1 DEF GrowsStale, UpstreamTypeOK
    <2>2. CASE u # s
      <3>1. fetches'[u] = fetches[u] /\ slot'[u] = slot[u] /\ holder' = holder
        BY <2>2 DEF GrowsStale, UpstreamTypeOK
      <3> QED BY <3>1 DEF AskedOnce
    <2> QED BY <2>1, <2>2
  <1>3. HolderFetches'
    BY DEF GrowsStale, HolderFetches
  <1> QED BY <1>1, <1>2, <1>3, BreakerUntouched DEF GrowsStale, breakerVars

LEMMA OutageStep ==
  ASSUME UpstreamIInv, NEW s \in Sites, SiteOutage(s)
  PROVE  UpstreamIInv'
  <1> USE DEF UpstreamIInv
  <1>1. UpstreamTypeOK'
    <2>1. healthy' \subseteq Sites
      BY DEF SiteOutage, UpstreamTypeOK
    <2>2. ASSUME NEW r \in Forwards
          PROVE  sent'[r] \in {NotSent} \cup [waits : {TRUE}, site : Sites, sound : BOOLEAN]
      <3>1. sent[r] \in {NotSent} \cup [waits : {TRUE}, site : Sites, sound : BOOLEAN]
        BY DEF UpstreamTypeOK
      <3>2. sent[r].waits => sent[r] # NotSent
        BY DEF NotSent
      <3> QED BY <3>1, <3>2 DEF SiteOutage
    <2>3. sent' \in [Forwards -> {NotSent} \cup [waits : {TRUE}, site : Sites, sound : BOOLEAN]]
      BY <2>2 DEF SiteOutage
    <2> QED BY <2>1, <2>3 DEF SiteOutage, UpstreamTypeOK, decoyVars
  <1> QED BY <1>1, DecoyUntouched, BreakerUntouched DEF SiteOutage

LEMMA TickStep ==
  ASSUME UpstreamIInv, SecondPasses
  PROVE  UpstreamIInv'
  <1> USE UpstreamAssumption DEF UpstreamIInv
  <1>1. breaker' \in Breaker /\ breaker'.failures = breaker.failures
    BY DEF SecondPasses, UpstreamTypeOK, Breaker, Open
  <1>2. UpstreamTypeOK'
    <2>1. probes' \in 0 .. CIRCUIT_HALF_OPEN_MAX + 1
      BY DEF SecondPasses, UpstreamTypeOK
    <2> QED BY <1>1, <2>1 DEF SecondPasses, UpstreamTypeOK, decoyVars
  <1>3. OpenMeansFailing'
    BY <1>1 DEF SecondPasses, OpenMeansFailing, Open
  <1> QED BY <1>2, <1>3, DecoyUntouched DEF SecondPasses

-----------------------------------------------------------------------------

THEOREM UpstreamStepPreserves == UpstreamIInv /\ [UpstreamNext]_upstreamVars => UpstreamIInv'
  <1> SUFFICES ASSUME UpstreamIInv, [UpstreamNext]_upstreamVars PROVE UpstreamIInv'
    OBVIOUS
  <1>1. CASE UNCHANGED upstreamVars
    BY <1>1 DEF upstreamVars, UpstreamIInv, UpstreamTypeOK, OpenMeansFailing, Open, AskedOnce, HolderFetches
  <1>2. ASSUME NEW r \in Forwards, NEW s \in Sites, Forward(r, s) \/ Probe(r, s)
        PROVE  UpstreamIInv'
    BY <1>2, ForwardStep, ProbeStep
  <1>3. ASSUME NEW r \in Forwards, Ends(r) PROVE UpstreamIInv'
    BY <1>3, EndsStep
  <1>4. ASSUME NEW b \in Blocked, (\E s \in Sites : Block(b, s)) \/ Resume(b) \/ FetchEnds(b)
        PROVE  UpstreamIInv'
    BY <1>4, BlockStep, ResumeStep, FetchEndsStep
  <1>5. ASSUME NEW s \in Sites, GrowsStale(s) \/ SiteOutage(s) PROVE UpstreamIInv'
    BY <1>5, GrowsStaleStep, OutageStep
  <1>6. CASE Refuse \/ SecondPasses
    BY <1>6, RefuseStep, TickStep
  <1> QED BY <1>1, <1>2, <1>3, <1>4, <1>5, <1>6 DEF UpstreamNext

\* The strengthened invariant holds for ever.
THEOREM UpstreamInductive == UpstreamSpec => []UpstreamIInv
  <1> QED BY UpstreamInitEstablishes, UpstreamStepPreserves, PTL DEF UpstreamSpec

\* Every variable keeps its type.
THEOREM UpstreamTypeCorrect == UpstreamSpec => []UpstreamTypeOK
  <1>1. UpstreamIInv => UpstreamTypeOK
    BY DEF UpstreamIInv
  <1> QED BY <1>1, UpstreamInductive, PTL

\* A 503 is given only after CIRCUIT_FAIL_THRESHOLD failures without a success
\* in between, whatever the number of requests in flight.
THEOREM OpensOnFailures == UpstreamSpec => []OpenMeansFailing
  <1>1. UpstreamIInv => OpenMeansFailing
    BY DEF UpstreamIInv
  <1> QED BY <1>1, UpstreamInductive, PTL

\* However many blocked requests find the decoy stale, one of them fetches it.
THEOREM HerdProtection == UpstreamSpec => []OneFetchPerExpiry
  <1>1. UpstreamIInv => OneFetchPerExpiry
    BY DEF UpstreamIInv, AskedOnce, HolderFetches, OneFetchPerExpiry
  <1> QED BY <1>1, UpstreamInductive, PTL

\* A lock that is held is held to fetch: taking it, waiting for it, failing and
\* releasing it keep that.
LEMMA LocksStep ==
  ASSUME UpstreamTypeOK, LocksGuardFetches, [UpstreamNext]_upstreamVars
  PROVE  LocksGuardFetches'
  <1>1. CASE UNCHANGED <<holder, decoy>>
    BY <1>1 DEF LocksGuardFetches
  <1>2. ASSUME NEW b \in Blocked, NEW s \in Sites, Enter(b, s),
               holder[s] = NoRequest, decoy[b].does # "fetch"
        PROVE  LocksGuardFetches'
    <2> SUFFICES ASSUME NEW t \in Sites, holder'[t] # NoRequest
                 PROVE  decoy'[holder'[t]] = Does("fetch", t)
      BY DEF LocksGuardFetches
    <2>1. CASE holder'[t] = holder[t]
      <3>1. holder[t] \in Blocked /\ decoy[holder[t]] = Does("fetch", t)
        BY <2>1 DEF LocksGuardFetches, UpstreamTypeOK
      <3>2. holder[t] # b
        BY <1>2, <3>1 DEF Does
      <3> QED BY <1>2, <2>1, <3>1, <3>2 DEF Enter, UpstreamTypeOK
    <2>2. CASE holder'[t] # holder[t]
      <3>1. /\ holder' = [holder EXCEPT ![s] = b]
            /\ decoy' = [decoy EXCEPT ![b] = Does("fetch", s)]
        BY <1>2, <2>2 DEF Enter
      <3>2. t = s /\ holder'[t] = b /\ decoy'[b] = Does("fetch", s)
        BY <2>2, <3>1 DEF UpstreamTypeOK
      <3> QED BY <3>2
    <2> QED BY <2>1, <2>2
  <1>3. ASSUME NEW b \in Blocked, NEW s \in Sites, Block(b, s)
        PROVE  LocksGuardFetches'
    <2>1. CASE holder[s] = NoRequest
      BY <1>2, <1>3, <2>1 DEF Block
    <2>2. CASE holder[s] # NoRequest
      <3>1. /\ decoy[b].does = "nothing" /\ UNCHANGED holder
            /\ decoy' = [decoy EXCEPT ![b] = Does("wait", s)]
        BY <1>3, <2>2 DEF Block
      <3>2. ASSUME NEW t \in Sites, holder[t] # NoRequest
            PROVE  decoy'[holder[t]] = Does("fetch", t)
        <4>1. holder[t] \in Blocked /\ decoy[holder[t]] = Does("fetch", t)
          BY <3>2 DEF LocksGuardFetches, UpstreamTypeOK
        <4>2. holder[t] # b
          BY <3>1, <4>1 DEF Does
        <4> QED BY <3>1, <4>1, <4>2 DEF UpstreamTypeOK
      <3> QED BY <3>1, <3>2 DEF LocksGuardFetches
    <2> QED BY <2>1, <2>2
  <1>4. ASSUME NEW b \in Blocked, Resume(b)
        PROVE  LocksGuardFetches'
    <2>1. decoy[b].site \in Sites
      BY <1>4, DecoyTyped DEF Resume
    <2> QED BY <1>2, <1>4, <2>1 DEF Resume
  <1>5. ASSUME NEW b \in Blocked, FetchEnds(b)
        PROVE  LocksGuardFetches'
    <2> DEFINE s == decoy[b].site
    <2>1. /\ s \in Sites /\ holder' = [holder EXCEPT ![s] = NoRequest]
          /\ decoy' = [decoy EXCEPT ![b] = NoDecoy]
      BY <1>5, DecoyTyped DEF FetchEnds, Released
    <2> SUFFICES ASSUME NEW t \in Sites, holder'[t] # NoRequest
                 PROVE  decoy'[holder'[t]] = Does("fetch", t)
      BY DEF LocksGuardFetches
    <2>2. t # s /\ holder'[t] = holder[t]
      BY <2>1 DEF UpstreamTypeOK
    <2>3. holder[t] \in Blocked /\ decoy[holder[t]] = Does("fetch", t)
      BY <2>2 DEF LocksGuardFetches, UpstreamTypeOK
    <2>4. holder[t] # b
      BY <2>2, <2>3 DEF Does
    <2> QED BY <2>1, <2>2, <2>3, <2>4 DEF UpstreamTypeOK
  <1>6. CASE \E r \in Forwards : Ends(r) \/ \E s \in Sites : Forward(r, s) \/ Probe(r, s)
    BY <1>1, <1>6 DEF Ends, Answered, Fails, Oversized, Forward, Probe, decoyVars
  <1>7. CASE Refuse \/ SecondPasses \/ \E s \in Sites : GrowsStale(s) \/ SiteOutage(s)
    BY <1>1, <1>7 DEF Refuse, SecondPasses, GrowsStale, SiteOutage, decoyVars
  <1>8. CASE UNCHANGED upstreamVars
    BY <1>1, <1>8 DEF upstreamVars
  <1> QED BY <1>3, <1>4, <1>5, <1>6, <1>7, <1>8 DEF UpstreamNext

\* Nobody waits at a lock that no fetch is going to release, for any number of
\* sites and blocked requests.
THEOREM LocksAreReleased == UpstreamSpec => []LocksGuardFetches
  <1>1. UpstreamInit => LocksGuardFetches
    BY DEF UpstreamInit, LocksGuardFetches
  <1>2. UpstreamTypeOK /\ LocksGuardFetches /\ [UpstreamNext]_upstreamVars
          => LocksGuardFetches'
    BY LocksStep
  <1> QED BY <1>1, <1>2, UpstreamTypeCorrect, PTL DEF UpstreamSpec

\* While every site is healthy, what a step may do to the requests in flight
\* and to the time the breaker stays open.
LEMMA CalmStep ==
  ASSUME UpstreamTypeOK, [UpstreamNext]_upstreamVars, healthy = Sites, healthy' = Sites
  PROVE  /\ Late' \subseteq Late
         /\ breaker'.openLeft > breaker.openLeft => Late' # Late
  <1> USE DEF Late, Waiting
  <1>0. /\ breaker.openLeft \in Nat /\ sent \in [Forwards -> {sent[r] : r \in Forwards}]
        /\ DOMAIN breaker = {"failures", "openLeft", "attempts"}
    BY UpstreamAssumption DEF UpstreamTypeOK, Breaker
  <1>1. CASE UNCHANGED <<sent, breaker>>
    BY <1>0, <1>1
  <1>2. ASSUME NEW r \in Forwards, NEW s \in Sites, Forward(r, s) \/ Probe(r, s)
        PROVE  Late' \subseteq Late /\ breaker'.openLeft = breaker.openLeft
    <2>1. sent' = [sent EXCEPT ![r] = SentTo(s)] /\ SentTo(s).sound = TRUE
      BY <1>2 DEF Forward, Probe, SentTo
    <2>2. breaker'.openLeft = breaker.openLeft
      BY <1>0, <1>2 DEF Forward, Probe, Attempt
    <2> QED BY <1>0, <2>1, <2>2
  <1>3. ASSUME NEW r \in Forwards, Answered(r) \/ Oversized(r)
        PROVE  Late' \subseteq Late /\ ~(breaker'.openLeft > breaker.openLeft)
    <2>1. sent' = [sent EXCEPT ![r] = NotSent] /\ NotSent.waits = FALSE
      BY <1>3 DEF Answered, Oversized, NotSent
    <2>2. ~(breaker'.openLeft > breaker.openLeft)
      BY <1>0, <1>3 DEF Answered, Oversized, AfterSuccess, Closed
    <2> QED BY <1>0, <2>1, <2>2
  <1>4. ASSUME NEW r \in Forwards, Fails(r)
        PROVE  Late' \subseteq Late /\ Late' # Late
    <2>1. /\ sent' = [sent EXCEPT ![r] = NotSent] /\ NotSent.waits = FALSE
          /\ sent[r].waits /\ ~sent[r].sound
      BY <1>4 DEF Fails, NotSent
    <2>2. Late' \subseteq Late /\ r \in Late /\ r \notin Late'
      BY <1>0, <2>1
    <2> QED BY <2>2
  <1>5. CASE Refuse
    BY <1>0, <1>5 DEF Refuse, Attempt
  <1>6. CASE SecondPasses
    BY <1>0, <1>6 DEF SecondPasses, Open
  <1>7. ~ \E s \in Sites : SiteOutage(s)
    BY DEF SiteOutage
  <1>8. CASE \E b \in Blocked : (\E s \in Sites : Block(b, s)) \/ Resume(b) \/ FetchEnds(b)
    BY <1>1, <1>8 DEF Block, Resume, FetchEnds, breakerVars
  <1>9. CASE \E s \in Sites : GrowsStale(s)
    BY <1>1, <1>9 DEF GrowsStale, breakerVars
  <1>10. CASE UNCHANGED upstreamVars
    BY <1>1, <1>10 DEF upstreamVars
  <1>11. CASE \E r \in Forwards : Ends(r) \/ \E s \in Sites : Forward(r, s) \/ Probe(r, s)
    <2>1. CASE \E r \in Forwards, s \in Sites : Forward(r, s) \/ Probe(r, s)
      BY <1>0, <1>2, <2>1
    <2>2. CASE \E r \in Forwards : Answered(r) \/ Oversized(r)
      BY <1>3, <2>2
    <2>3. CASE \E r \in Forwards : Fails(r)
      BY <1>4, <2>3
    <2> QED BY <1>11, <2>1, <2>2, <2>3 DEF Ends
  <1> QED BY <1>5, <1>6, <1>7, <1>8, <1>9, <1>10, <1>11 DEF UpstreamNext

\* The breaker of recovered sites is kept open by the failures in flight only,
\* each once, for any thresholds and any number of requests.
THEOREM LateFailuresAreCounted == UpstreamSpec => LateFailuresRunOut
  <1>1. UpstreamTypeOK /\ [UpstreamNext]_upstreamVars
          => [healthy = Sites /\ healthy' = Sites
              => /\ Late' \subseteq Late
                 /\ breaker'.openLeft > breaker.openLeft => Late' # Late]_upstreamVars
    BY CalmStep
  <1> QED BY <1>1, UpstreamTypeCorrect, PTL DEF UpstreamSpec, LateFailuresRunOut

-----------------------------------------------------------------------------
(*****************************************************************************)
(* SharedBans                                                                *)
(*****************************************************************************)

\* SharedBansTypeOK, with the domains of the variables that hold sets and sequences.
Shapes ==
  /\ writing \in [Gateways -> SUBSET Entry]
  /\ pending \in [Gateways -> Seq(Entry)]
  /\ flushing \in [Gateways -> Seq(Entry)]
  /\ started \in [Gateways -> BOOLEAN] /\ overrun \in [Gateways -> BOOLEAN]
  /\ DOMAIN asking = Gateways
  /\ asking = [g \in Gateways |-> asking[g]]

\* Wherever the end of a ban is kept, somebody gave k one that late.
Given(e) == e.until <= longest[e.key]
RedisHolds == \A k \in Ids : redis[k] <= longest[k]
WritingHolds == \A g \in Gateways : \A e \in writing[g] : Given(e)
PendingHolds == \A g \in Gateways : \A i \in DOMAIN pending[g] : Given(pending[g][i])
FlushingHolds == \A g \in Gateways : \A i \in DOMAIN flushing[g] : Given(flushing[g][i])
AnswersHold ==
  \A g \in Gateways : \A k \in DOMAIN asking[g] : asking[g][k].until <= longest[k]

Promised ==
  /\ SharingNeverStretches
  /\ RedisHolds /\ WritingHolds /\ PendingHolds /\ FlushingHolds /\ AnswersHold

SharedBansIInv == SharedBansTypeOK /\ Shapes /\ NoneIsSkipped /\ Promised

-----------------------------------------------------------------------------
(***************************************************************************)
(* Operators                                                               *)
(***************************************************************************)

LEMMA LaterIsLater ==
  ASSUME NEW a \in Nat, NEW b \in Nat
  PROVE  Later(a, b) \in Nat /\ a <= Later(a, b) /\ b <= Later(a, b)
         /\ (Later(a, b) = a \/ Later(a, b) = b)
  BY DEF Later

\* The retry queue stays within its bound, keeps only what it was given, and
\* loses its head only at the limit.
LEMMA BoundedAppend ==
  ASSUME NEW q \in Seq(Entry), Len(q) <= PendingMax, NEW e \in Entry
  PROVE  /\ AppendBounded(q, e) \in Seq(Entry)
         /\ Len(AppendBounded(q, e)) <= PendingMax
         /\ AppendBounded(q, e) # <<>>
         /\ \A i \in DOMAIN AppendBounded(q, e) :
              \/ AppendBounded(q, e)[i] = e
              \/ \E j \in DOMAIN q : AppendBounded(q, e)[i] = q[j]
         /\ q # <<>> /\ ~Full(q) => Head(AppendBounded(q, e)) = Head(q)
  <1> DEFINE longer == Append(q, e)
  <1>1. /\ longer \in Seq(Entry) /\ Len(longer) = Len(q) + 1
        /\ \A i \in 1 .. Len(q) : longer[i] = q[i]
        /\ longer[Len(q) + 1] = e
    BY AppendProperties
  <1> HIDE DEF longer
  <1>0. Len(q) \in Nat /\ PendingMax \in Nat \ {0}
    BY LenProperties, SharedAssumption
  <1>2. DOMAIN q = 1 .. Len(q) /\ DOMAIN longer = 1 .. Len(q) + 1
    BY <1>1, LenProperties
  <1>3. CASE Len(longer) > PendingMax
    <2>1. AppendBounded(q, e) = Tail(longer)
      BY <1>3 DEF AppendBounded, longer
    <2>2. /\ Tail(longer) \in Seq(Entry) /\ Len(Tail(longer)) = Len(longer) - 1
          /\ \A i \in 1 .. Len(Tail(longer)) : Tail(longer)[i] = longer[i + 1]
      BY <1>1, <1>0, <1>2, HeadTailProperties, EmptySeq
    <2>3. DOMAIN Tail(longer) = 1 .. Len(q)
      BY <1>1, <1>0, <1>2, <2>2, LenProperties
    <2>4. Len(q) = PendingMax
      BY <1>0, <1>1, <1>3
    <2>5. Tail(longer) # <<>>
      <3>1. Len(Tail(longer)) # 0
        BY <1>0, <1>1, <2>2, <2>4
      <3> QED BY <2>2, <3>1, EmptySeq
    <2>6. ASSUME NEW i \in 1 .. Len(q)
          PROVE  Tail(longer)[i] = e \/ \E j \in DOMAIN q : Tail(longer)[i] = q[j]
      <3>1. Tail(longer)[i] = longer[i + 1]
        BY <1>1, <1>0, <1>2, <2>2
      <3>2. CASE i = Len(q)
        BY <3>1, <3>2, <1>1
      <3>3. CASE i # Len(q)
        <4>1. i + 1 \in 1 .. Len(q)
          BY <1>0, <3>3
        <4> QED BY <3>1, <4>1, <1>1, <1>0, <1>2
      <3> QED BY <3>2, <3>3
    <2>7. Full(q)
      BY <2>4 DEF Full
    <2> QED BY <1>1, <1>0, <1>2, <2>1, <2>2, <2>3, <2>4, <2>5, <2>6, <2>7
  <1>4. CASE ~(Len(longer) > PendingMax)
    <2>1. AppendBounded(q, e) = longer
      BY <1>4 DEF AppendBounded, longer
    <2>2. longer # <<>>
      BY <1>1, <1>0, <1>2
    <2>3. ASSUME NEW i \in 1 .. Len(q) + 1
          PROVE  longer[i] = e \/ \E j \in DOMAIN q : longer[i] = q[j]
      <3>1. CASE i = Len(q) + 1
        BY <3>1, <1>1
      <3>2. CASE i # Len(q) + 1
        <4>1. i \in 1 .. Len(q)
          BY <1>0, <1>2, <3>2
        <4> QED BY <4>1, <1>1, <1>0, <1>2
      <3> QED BY <3>1, <3>2
    <2>4. q # <<>> => Head(longer) = Head(q)
      <3> SUFFICES ASSUME q # <<>> PROVE Head(longer) = Head(q)
        OBVIOUS
      <3>1. Head(q) = q[1] /\ Len(q) # 0
        BY HeadTailProperties, EmptySeq
      <3>2. Head(longer) = longer[1]
        BY <1>1, <2>2, HeadTailProperties
      <3> QED BY <1>0, <1>1, <3>1, <3>2
    <2> QED BY <1>1, <1>0, <1>2, <1>4, <2>1, <2>2, <2>3, <2>4
  <1> QED BY <1>3, <1>4

\* What is left of a queue once its head has been taken.
LEMMA DroppedHead ==
  ASSUME NEW q \in Seq(Entry), q # <<>>
  PROVE  /\ DropSent(q) \in Seq(Entry) /\ Len(DropSent(q)) = Len(q) - 1
         /\ \A i \in DOMAIN DropSent(q) : \E j \in DOMAIN q : DropSent(q)[i] = q[j]
         /\ Head(q) \in Entry /\ Head(q) = q[1] /\ 1 \in DOMAIN q
  <1>1. /\ Head(q) \in Entry /\ Tail(q) \in Seq(Entry) /\ Len(Tail(q)) = Len(q) - 1
        /\ \A i \in 1 .. Len(Tail(q)) : Tail(q)[i] = q[i + 1]
    BY HeadTailProperties
  <1>2. Len(q) \in Nat /\ Len(q) # 0 /\ DOMAIN q = 1 .. Len(q)
        /\ DOMAIN Tail(q) = 1 .. Len(Tail(q))
    BY <1>1, LenProperties, EmptySeq
  <1>3. ASSUME NEW i \in DOMAIN Tail(q)
        PROVE  \E j \in DOMAIN q : Tail(q)[i] = q[j]
    <2>1. i + 1 \in DOMAIN q /\ Tail(q)[i] = q[i + 1]
      BY <1>1, <1>2
    <2> QED BY <2>1
  <1> QED BY <1>1, <1>2, <1>3 DEF DropSent

\* A SET stores nothing that was not sent.
LEMMA StoredHolds ==
  ASSUME redis \in [Ids -> Nat], longest \in [Ids -> Nat], now \in Nat,
         RedisHolds, NEW e \in Entry, Given(e)
  PROVE  /\ Stored(e) \in [Ids -> Nat]
         /\ \A k \in Ids : Stored(e)[k] <= longest[k]
  BY DEF Stored, RedisHolds, Given, Entry

-----------------------------------------------------------------------------
(***************************************************************************)
(* The invariant                                                           *)
(***************************************************************************)

THEOREM SharedBansInitEstablishes == SharedBansInit => SharedBansIInv
  <1> SUFFICES ASSUME SharedBansInit PROVE SharedBansIInv
    OBVIOUS
  <1>1. <<>> \in Seq(Entry) /\ Len(<<>>) = 0 /\ DOMAIN <<>> = {}
    BY EmptySeq
  <1>2. SharedBansTypeOK
    BY <1>1, SharedAssumption DEF SharedBansInit, SharedBansTypeOK
  <1>3. Shapes
    BY <1>1 DEF SharedBansInit, Shapes
  <1>4. NoneIsSkipped
    BY DEF SharedBansInit, NoneIsSkipped
  <1>5. Promised
    BY <1>1 DEF SharedBansInit, Promised, SharingNeverStretches, RedisHolds, WritingHolds,
         PendingHolds, FlushingHolds, AnswersHold
  <1> QED BY <1>2, <1>3, <1>4, <1>5 DEF SharedBansIInv

LEMMA EntriesTyped ==
  ASSUME Shapes, NEW g \in Gateways
  PROVE  /\ \A i \in DOMAIN pending[g] : pending[g][i] \in Entry
         /\ \A i \in DOMAIN flushing[g] : flushing[g][i] \in Entry
         /\ \A e \in writing[g] : e \in Entry
  BY ElementOfSeq, LenProperties DEF Shapes

\* A ban of any scope: the end that memory takes is the latest end of record.
LEMMA GiveStep ==
  ASSUME SharedBansIInv, NEW g \in Gateways, NEW k \in Ids, NEW s \in Scopes,
         NEW until \in Nat, Give(g, k, s, until)
  PROVE  SharedBansIInv'
  <1> USE DEF SharedBansIInv, Give, flushLoop
  <1>1. [key |-> k, until |-> until] \in Entry
    BY DEF Entry
  <1>2. \A j \in Ids : longest[j] \in Nat /\ longest'[j] \in Nat /\ longest[j] <= longest'[j]
    BY LaterIsLater DEF SharedBansTypeOK
  <1>3. until <= longest'[k]
    BY LaterIsLater DEF SharedBansTypeOK
  <1>4. SharedBansTypeOK'
    BY <1>1, <1>2 DEF SharedBansTypeOK, Shapes
  <1>5. Shapes'
    BY <1>1 DEF Shapes
  <1>6. NoneIsSkipped'
    BY DEF NoneIsSkipped
  <1>7. SharingNeverStretches'
    BY <1>2, <1>3 DEF SharedBansTypeOK, Promised, SharingNeverStretches
  <1>8. RedisHolds'
    BY <1>2 DEF SharedBansTypeOK, Promised, RedisHolds
  <1>9. WritingHolds'
    BY <1>2, <1>3 DEF SharedBansTypeOK, Shapes, Promised, WritingHolds, Given, Entry
  <1>10. PendingHolds' /\ FlushingHolds'
    <2>1. \A e \in Entry : Given(e) => Given(e)'
      BY <1>2 DEF SharedBansTypeOK, Given, Entry
    <2> QED BY <2>1, EntriesTyped DEF Promised, PendingHolds, FlushingHolds, Given
  <1>11. AnswersHold'
    BY <1>2 DEF SharedBansTypeOK, Shapes, Promised, AnswersHold, Answers
  <1> QED BY <1>4, <1>5, <1>6, <1>7, <1>8, <1>9, <1>10, <1>11 DEF Promised

LEMMA WriteDoneStep ==
  ASSUME SharedBansIInv, NEW g \in Gateways, NEW e \in writing[g], WriteDone(g, e)
  PROVE  SharedBansIInv'
  <1> USE DEF SharedBansIInv, WriteDone, flushLoop
  <1>1. e \in Entry /\ Given(e)
    BY EntriesTyped DEF Promised, WritingHolds
  <1>2. Stored(e) \in [Ids -> Nat] /\ \A k \in Ids : Stored(e)[k] <= longest[k]
    BY <1>1, StoredHolds, SharedAssumption DEF SharedBansTypeOK, Promised
  <1>3. SharedBansTypeOK'
    BY <1>2 DEF SharedBansTypeOK, Shapes
  <1>4. Shapes'
    BY DEF Shapes
  <1>5. NoneIsSkipped'
    BY DEF NoneIsSkipped
  <1>6. RedisHolds'
    BY <1>2 DEF RedisHolds
  <1>7. WritingHolds'
    BY DEF Shapes, Promised, WritingHolds, Given
  <1>8. SharingNeverStretches' /\ PendingHolds' /\ FlushingHolds' /\ AnswersHold'
    BY DEF Promised, SharingNeverStretches, PendingHolds, FlushingHolds, AnswersHold, Given
  <1> QED BY <1>3, <1>4, <1>5, <1>6, <1>7, <1>8 DEF Promised

LEMMA WriteFailsStep ==
  ASSUME SharedBansIInv, NEW g \in Gateways, NEW e \in writing[g], WriteFails(g, e)
  PROVE  SharedBansIInv'
  <1> USE DEF SharedBansIInv, WriteFails
  <1>1. e \in Entry /\ Given(e)
    BY EntriesTyped DEF Promised, WritingHolds
  <1>2. redis' \in [Ids -> Nat] /\ \A k \in Ids : redis'[k] <= longest[k]
    BY <1>1, StoredHolds, SharedAssumption DEF SharedBansTypeOK, Promised, RedisHolds
  <1> DEFINE q == AppendBounded(pending[g], e)
  <1>3. /\ q \in Seq(Entry) /\ Len(q) <= PendingMax /\ q # <<>>
        /\ \A i \in DOMAIN q : q[i] = e \/ \E j \in DOMAIN pending[g] : q[i] = pending[g][j]
        /\ pending[g] # <<>> /\ ~Full(pending[g]) => Head(q) = Head(pending[g])
    BY <1>1, BoundedAppend DEF SharedBansTypeOK, Shapes
  <1>4. pending' = [pending EXCEPT ![g] = q]
    OBVIOUS
  <1> HIDE DEF q
  <1>5. SharedBansTypeOK'
    BY <1>2, <1>3, <1>4 DEF SharedBansTypeOK, Shapes
  <1>6. Shapes'
    BY <1>3, <1>4 DEF Shapes
  <1>7. NoneIsSkipped'
    <2>1. overrun' = [overrun EXCEPT ![g] = @ \/ (flushing[g] # <<>> /\ Full(pending[g]))]
      OBVIOUS
    <2>2. \A h \in Gateways \ {g} : pending'[h] = pending[h] /\ overrun'[h] = overrun[h]
      BY <1>4, <2>1 DEF Shapes
    <2>3. pending'[g] = q /\ (overrun'[g] <=> overrun[g] \/ (flushing[g] # <<>> /\ Full(pending[g])))
      BY <1>4, <2>1 DEF Shapes
    <2> QED BY <1>3, <2>2, <2>3 DEF NoneIsSkipped
  <1>8. RedisHolds'
    BY <1>2 DEF RedisHolds
  <1>9. WritingHolds'
    BY DEF Shapes, Promised, WritingHolds, Given
  <1>10. PendingHolds'
    <2>1. pending'[g] = q /\ \A h \in Gateways \ {g} : pending'[h] = pending[h]
      BY <1>4 DEF Shapes
    <2>2. \A i \in DOMAIN q : Given(q[i])
      BY <1>1, <1>3 DEF Promised, PendingHolds
    <2> QED BY <2>1, <2>2 DEF Promised, PendingHolds, Given
  <1>11. SharingNeverStretches' /\ FlushingHolds' /\ AnswersHold'
    BY DEF Promised, SharingNeverStretches, FlushingHolds, AnswersHold, Given
  <1> QED BY <1>5, <1>6, <1>7, <1>8, <1>9, <1>10, <1>11 DEF Promised

LEMMA FlushStartStep ==
  ASSUME SharedBansIInv, NEW g \in Gateways, FlushStart(g)
  PROVE  SharedBansIInv'
  <1> USE DEF SharedBansIInv, FlushStart
  <1> DEFINE head == Head(pending[g])
  <1>1. head \in Entry /\ Given(head)
    BY DroppedHead DEF Shapes, Promised, PendingHolds
  <1>2. <<head>> \in Seq(Entry) /\ Len(<<head>>) = 1 /\ DOMAIN <<head>> = {1} /\ <<head>>[1] = head
    BY <1>1
  <1>3. flushing' = [flushing EXCEPT ![g] = <<head>>]
    OBVIOUS
  <1> HIDE DEF head
  <1>4. SharedBansTypeOK'
    BY <1>2, <1>3 DEF SharedBansTypeOK, Shapes
  <1>5. Shapes'
    BY <1>2, <1>3 DEF Shapes
  <1>6. NoneIsSkipped'
    <2>1. flushing'[g][1] = Head(pending[g]) /\ pending[g] # <<>>
      BY <1>2, <1>3 DEF Shapes, head
    <2>2. \A h \in Gateways \ {g} : flushing'[h] = flushing[h]
      BY <1>3 DEF Shapes
    <2> QED BY <2>1, <2>2 DEF NoneIsSkipped
  <1>7. FlushingHolds'
    BY <1>1, <1>2, <1>3 DEF Shapes, Promised, FlushingHolds, Given
  <1>8. /\ SharingNeverStretches' /\ RedisHolds' /\ WritingHolds' /\ PendingHolds'
        /\ AnswersHold'
    BY DEF Promised, SharingNeverStretches, RedisHolds, WritingHolds, PendingHolds,
         AnswersHold, Given
  <1> QED BY <1>4, <1>5, <1>6, <1>7, <1>8 DEF Promised

\* The ends of the SET of the flush loop: what it sent is in Redis, or may be.
LEMMA FlushEndStep ==
  ASSUME SharedBansIInv, NEW g \in Gateways, FlushDone(g) \/ FlushFails(g)
  PROVE  SharedBansIInv'
  <1> USE DEF SharedBansIInv, FlushDone, FlushFails
  <1> DEFINE e == flushing[g][1]
  <1>0. flushing[g] \in Seq(Entry) /\ flushing[g] # <<>> /\ pending[g] \in Seq(Entry)
        /\ pending[g] # <<>>
    BY DEF Shapes, NoneIsSkipped
  <1>1. e \in Entry /\ Given(e)
    BY <1>0, DroppedHead DEF Promised, FlushingHolds
  <1>2. redis' \in [Ids -> Nat] /\ \A k \in Ids : redis'[k] <= longest[k]
    BY <1>1, StoredHolds, SharedAssumption DEF SharedBansTypeOK, Promised, RedisHolds
  <1>3. /\ pending'[g] \in Seq(Entry) /\ Len(pending'[g]) <= PendingMax
        /\ \A i \in DOMAIN pending'[g] : \E j \in DOMAIN pending[g] : pending'[g][i] = pending[g][j]
    <2>1. CASE FlushDone(g)
      <3>1. pending'[g] = DropSent(pending[g])
        BY <2>1 DEF Shapes
      <3>2. Len(pending[g]) \in Nat /\ Len(pending[g]) <= PendingMax /\ PendingMax \in Nat
        BY <1>0, LenProperties, SharedAssumption DEF SharedBansTypeOK
      <3> QED BY <1>0, <3>1, <3>2, DroppedHead
    <2>2. CASE FlushFails(g)
      BY <1>0, <2>2 DEF SharedBansTypeOK
    <2> QED BY <2>1, <2>2
  <1>4. /\ pending' \in [Gateways -> Seq(Entry)]
        /\ \A h \in Gateways \ {g} : pending'[h] = pending[h]
    BY <1>3 DEF Shapes
  <1>5. flushing' = [flushing EXCEPT ![g] = <<>>] /\ <<>> \in Seq(Entry) /\ Len(<<>>) = 0
        /\ DOMAIN <<>> = {}
    BY EmptySeq
  <1> HIDE DEF e
  <1>13. UNCHANGED started /\ overrun' = [overrun EXCEPT ![g] = FALSE]
    OBVIOUS
  <1>6. SharedBansTypeOK'
    <2>1. \A h \in Gateways : flushing'[h] \in Seq(Entry) /\ Len(flushing'[h]) <= 1
      BY <1>5 DEF SharedBansTypeOK, Shapes
    <2>2. \A h \in Gateways : pending'[h] \in Seq(Entry) /\ Len(pending'[h]) <= PendingMax
      BY <1>3, <1>4 DEF SharedBansTypeOK
    <2>3. \A h \in Gateways : started'[h] \in BOOLEAN /\ overrun'[h] \in BOOLEAN
      BY <1>13 DEF Shapes
    <2> QED BY <1>2, <2>1, <2>2, <2>3 DEF SharedBansTypeOK
  <1>7. Shapes'
    BY <1>4, <1>5, <1>13 DEF Shapes
  <1>8. NoneIsSkipped'
    BY <1>4, <1>5 DEF Shapes, NoneIsSkipped
  <1>9. RedisHolds'
    BY <1>2 DEF RedisHolds
  <1>10. PendingHolds'
    BY <1>3, <1>4 DEF Promised, PendingHolds, Given
  <1>11. FlushingHolds'
    BY <1>5 DEF Shapes, Promised, FlushingHolds, Given
  <1>12. SharingNeverStretches' /\ WritingHolds' /\ AnswersHold'
    BY DEF Promised, SharingNeverStretches, WritingHolds, AnswersHold, Given
  <1> QED BY <1>6, <1>7, <1>8, <1>9, <1>10, <1>11, <1>12 DEF Promised

LEMMA AskStep ==
  ASSUME SharedBansIInv, NEW g \in Gateways, NEW k \in Ids, NEW s \in Scopes, Ask(g, k, s)
  PROVE  SharedBansIInv'
  <1> USE DEF SharedBansIInv, Ask, flushLoop
  <1>1. /\ DOMAIN asking'[g] = DOMAIN asking[g] \cup {k}
        /\ \A j \in DOMAIN asking'[g] :
             asking'[g][j] = IF j = k THEN Unanswered ELSE asking[g][j]
        /\ \A h \in Gateways \ {g} : asking'[h] = asking[h]
    BY DEF Shapes
  <1>2. Unanswered \in Answers /\ Unanswered.until = 0
    BY DEF Unanswered, Answers
  <1>3. SharedBansTypeOK'
    BY <1>1, <1>2 DEF SharedBansTypeOK, Shapes
  <1>4. Shapes'
    BY DEF Shapes
  <1>5. AnswersHold'
    BY <1>1, <1>2 DEF SharedBansTypeOK, Promised, AnswersHold
  <1>6. NoneIsSkipped'
    BY DEF NoneIsSkipped
  <1>7. /\ SharingNeverStretches' /\ RedisHolds' /\ WritingHolds' /\ PendingHolds'
        /\ FlushingHolds'
    BY DEF Promised, SharingNeverStretches, RedisHolds, WritingHolds, PendingHolds,
         FlushingHolds, Given
  <1> QED BY <1>3, <1>4, <1>5, <1>6, <1>7 DEF Promised

LEMMA AnswerStep ==
  ASSUME SharedBansIInv, NEW g \in Gateways, NEW k \in Ids, Answer(g, k)
  PROVE  SharedBansIInv'
  <1> USE DEF SharedBansIInv, Answer, flushLoop
  <1> DEFINE answer == [answered |-> TRUE, until |-> IF redisUp THEN redis[k] ELSE 0]
  <1>1. answer \in Answers /\ answer.until <= longest[k]
    BY DEF SharedBansTypeOK, Promised, RedisHolds, Answers
  <1>2. /\ DOMAIN asking'[g] = DOMAIN asking[g]
        /\ \A j \in DOMAIN asking'[g] :
             asking'[g][j] = IF j = k THEN answer ELSE asking[g][j]
        /\ \A h \in Gateways \ {g} : asking'[h] = asking[h]
    BY DEF Shapes
  <1> HIDE DEF answer
  <1>3. SharedBansTypeOK'
    <2>1. \A h \in Gateways : /\ DOMAIN asking'[h] \subseteq Ids
                             /\ \A j \in DOMAIN asking'[h] : asking'[h][j] \in Answers
      BY <1>1, <1>2 DEF SharedBansTypeOK
    <2> QED BY <2>1 DEF SharedBansTypeOK
  <1>4. Shapes'
    BY DEF Shapes
  <1>5. AnswersHold'
    BY <1>1, <1>2 DEF SharedBansTypeOK, Promised, AnswersHold
  <1>6. NoneIsSkipped'
    BY DEF NoneIsSkipped
  <1>7. /\ SharingNeverStretches' /\ RedisHolds' /\ WritingHolds' /\ PendingHolds'
        /\ FlushingHolds'
    BY DEF Promised, SharingNeverStretches, RedisHolds, WritingHolds, PendingHolds,
         FlushingHolds, Given
  <1> QED BY <1>3, <1>4, <1>5, <1>6, <1>7 DEF Promised

\* A ban found in Redis extends the local one to the end it was given.
LEMMA MergedHolds ==
  ASSUME now \in Nat, NEW old \in Nat, NEW until \in Nat
  PROVE  /\ Merged(old, until) \in Nat /\ old <= Merged(old, until)
         /\ Merged(old, until) = old \/ Merged(old, until) = until
  BY DEF Merged, Later

LEMMA ImportStep ==
  ASSUME SharedBansIInv, NEW g \in Gateways, NEW k \in Ids, Import(g, k)
  PROVE  SharedBansIInv'
  <1> USE DEF SharedBansIInv, Import, flushLoop
  <1> DEFINE until == asking[g][k].until
  <1>1. until \in Nat /\ until <= longest[k]
    BY DEF SharedBansTypeOK, Promised, AnswersHold, Answers
  <1>2. local[g][k][Global] \in Nat /\ local[g][k][Global] <= longest[k] /\ now \in Nat
    BY DEF SharedBansTypeOK, Promised, SharingNeverStretches, Scopes
  <1> DEFINE merged == Merged(local[g][k][Global], until)
  <1>3. merged \in Nat /\ merged <= longest[k]
    BY <1>1, <1>2, MergedHolds
  <1>4. local' = local \/ local' = [local EXCEPT ![g][k][Global] = merged]
    OBVIOUS
  <1>5. /\ DOMAIN asking'[g] = DOMAIN asking[g] \ {k}
        /\ \A j \in DOMAIN asking'[g] : asking'[g][j] = asking[g][j]
        /\ \A h \in Gateways \ {g} : asking'[h] = asking[h]
    BY DEF Shapes
  <1> HIDE DEF merged, until
  <1>6. local' \in [Gateways -> [Ids -> [Scopes -> Nat]]]
    <2>1. Global \in Scopes /\ local \in [Gateways -> [Ids -> [Scopes -> Nat]]]
      BY DEF Scopes, SharedBansTypeOK
    <2>2. [local[g][k] EXCEPT ![Global] = merged] \in [Scopes -> Nat]
      BY <1>3, <2>1
    <2> QED BY <1>4, <2>1, <2>2
  <1>7. SharedBansTypeOK'
    BY <1>5, <1>6 DEF SharedBansTypeOK, Shapes
  <1>8. Shapes'
    BY DEF Shapes
  <1>9. SharingNeverStretches'
    BY <1>3, <1>4 DEF SharedBansTypeOK, Promised, SharingNeverStretches
  <1>10. AnswersHold'
    BY <1>5 DEF SharedBansTypeOK, Promised, AnswersHold
  <1>11. NoneIsSkipped'
    BY DEF NoneIsSkipped
  <1>12. RedisHolds' /\ WritingHolds' /\ PendingHolds' /\ FlushingHolds'
    BY DEF Promised, RedisHolds, WritingHolds, PendingHolds, FlushingHolds, Given
  <1> QED BY <1>7, <1>8, <1>9, <1>10, <1>11, <1>12 DEF Promised

\* The steps that only let a kept end go: an unban, the clock, an outage.
LEMMA LettingGo ==
  ASSUME SharedBansIInv, Outage \/ Tick \/ \E g \in Gateways, k \in Ids : Unban(g, k)
  PROVE  SharedBansIInv'
  <1> USE DEF SharedBansIInv
  <1>1. local' \in [Gateways -> [Ids -> [Scopes -> Nat]]] /\ SharingNeverStretches'
    <2>1. CASE Outage \/ Tick
      BY <2>1 DEF Outage, Tick, SharedBansTypeOK, Promised, SharingNeverStretches
    <2>2. ASSUME NEW g \in Gateways, NEW k \in Ids, Unban(g, k)
          PROVE  local' \in [Gateways -> [Ids -> [Scopes -> Nat]]] /\ SharingNeverStretches'
      <3>1. [s \in Scopes |-> 0] \in [Scopes -> Nat]
        OBVIOUS
      <3>2. local' \in [Gateways -> [Ids -> [Scopes -> Nat]]]
        BY <2>2, <3>1 DEF Unban, SharedBansTypeOK
      <3> QED BY <2>2, <3>2 DEF Unban, SharedBansTypeOK, Promised, SharingNeverStretches
    <2> QED BY <2>1, <2>2
  <1>2. redis' \in [Ids -> Nat] /\ RedisHolds' /\ now' \in 0 .. MaxTime /\ redisUp' \in BOOLEAN
    <2>1. CASE Outage
      BY <2>1 DEF Outage, SharedBansTypeOK, Promised, RedisHolds
    <2>2. CASE Tick
      <3>1. now' \in 0 .. MaxTime /\ now \in Nat
        BY <2>2, SharedAssumption DEF Tick, SharedBansTypeOK
      <3> QED BY <2>2, <3>1 DEF Tick, SharedBansTypeOK, Promised, RedisHolds
    <2>3. CASE \E g \in Gateways, k \in Ids : Unban(g, k)
      BY <2>3 DEF Unban, SharedBansTypeOK, Promised, RedisHolds
    <2> QED BY <2>1, <2>2, <2>3
  <1>4. UNCHANGED <<writing, pending, started, flushing, overrun, asking, longest, everGlobal>>
    BY DEF Outage, Tick, Unban, flushLoop
  <1>5. SharedBansTypeOK' /\ Shapes' /\ NoneIsSkipped'
    BY <1>1, <1>2, <1>4 DEF SharedBansTypeOK, Shapes, NoneIsSkipped
  <1>6. WritingHolds' /\ PendingHolds' /\ FlushingHolds' /\ AnswersHold'
    BY <1>4 DEF Promised, WritingHolds, PendingHolds, FlushingHolds, AnswersHold, Given
  <1> QED BY <1>1, <1>2, <1>5, <1>6 DEF Promised

LEMMA RequestsAreSteps ==
  ASSUME NEW g \in Gateways, Requests(g)
  PROVE  \E k \in Ids :
           \/ \E s \in Scopes : Ask(g, k, s)
           \/ \E s \in Scopes, secs \in BanSecs : RiskBan(g, k, s, secs)
           \/ \E secs \in BanSecs : ManualBan(g, k, secs)
           \/ Unban(g, k)
  BY SharedAssumption DEF Requests, Scopes

THEOREM SharedBansNextPreserves ==
  SharedBansIInv /\ [SharedBansNext]_sharedVars => SharedBansIInv'
  <1> SUFFICES ASSUME SharedBansIInv, [SharedBansNext]_sharedVars PROVE SharedBansIInv'
    OBVIOUS
  <1>1. CASE UNCHANGED sharedVars
    BY <1>1 DEF sharedVars, flushLoop, SharedBansIInv, SharedBansTypeOK, Shapes, NoneIsSkipped, Promised, SharingNeverStretches,
         RedisHolds, WritingHolds, PendingHolds, FlushingHolds, AnswersHold, Given
  <1>2. CASE Outage \/ Tick
    BY <1>2, LettingGo
  <1>3. ASSUME NEW g \in Gateways, Completion(g) \/ FlushStart(g)
        PROVE  SharedBansIInv'
    BY <1>3, WriteDoneStep, WriteFailsStep, FlushEndStep, AnswerStep, ImportStep,
       FlushStartStep DEF Completion
  <1>4. ASSUME NEW g \in Gateways, Requests(g)
        PROVE  SharedBansIInv'
    <2>1. ASSUME NEW k \in Ids, NEW s \in Scopes, NEW secs \in BanSecs,
                 RiskBan(g, k, s, secs) \/ ManualBan(g, k, secs)
          PROVE  SharedBansIInv'
      <3>1. now + secs \in Nat /\ Global \in Scopes
        BY SharedAssumption DEF SharedBansIInv, SharedBansTypeOK, Scopes
      <3>2. \E t \in Scopes : Give(g, k, t, now + secs)
        BY <2>1, <3>1 DEF RiskBan, ManualBan
      <3> QED BY <3>1, <3>2, GiveStep
    <2>2. Global \in Scopes
      BY DEF Scopes
    <2> QED BY <1>4, <2>1, <2>2, RequestsAreSteps, AskStep, LettingGo
  <1> QED BY <1>1, <1>2, <1>3, <1>4 DEF SharedBansNext

-----------------------------------------------------------------------------
(***************************************************************************)
(* Theorems                                                                *)
(***************************************************************************)

\* The strengthened invariant of the gateways and Redis.
THEOREM SharedBansInvariance == SharedBansSpec => []SharedBansIInv
  BY SharedBansInitEstablishes, SharedBansNextPreserves, PTL DEF SharedBansSpec

\* Every variable keeps its range and the retry queues their bound, for any
\* number of gateways (_pending_redis_bans has a maxlen).
THEOREM SharedBansTypeCorrect == SharedBansSpec => []SharedBansTypeOK
  <1>1. SharedBansIInv => SharedBansTypeOK
    BY DEF SharedBansIInv
  <1> QED BY <1>1, SharedBansInvariance, PTL

\* No ban outlasts the latest end somebody gave it, whatever was retried, timed
\* out or answered late (_shared_ban_set, _redis_ban_flush_loop, is_banned).
THEOREM NobodyIsBannedLonger == SharedBansSpec => []SharingNeverStretches
  <1>1. SharedBansIInv => SharingNeverStretches
    BY DEF SharedBansIInv, Promised
  <1> QED BY <1>1, SharedBansInvariance, PTL

\* popleft() after the await of _redis_ban_flush_loop takes the entry that was
\* sent, however many SETs failed meanwhile and for any limit of the queue,
\* unless the limit had dropped that one.
THEOREM PopsTakeWhatWasSent == SharedBansSpec => []NoneIsSkipped
  <1>1. SharedBansIInv => NoneIsSkipped
    BY DEF SharedBansIInv
  <1> QED BY <1>1, SharedBansInvariance, PTL

\* The steps that write memory, for the next theorem.
LEMMA WhoShortens ==
  ASSUME SharedBansIInv, [SharedBansNext]_sharedVars, NEW g \in Gateways, NEW k \in Ids, NEW s \in Scopes,
         local[g][k][s] > now, local'[g][k][s] < local[g][k][s]
  PROVE  Unban(g, k) \/ \E secs \in BanSecs : ManualBan(g, k, secs)
  <1> USE DEF SharedBansIInv, SharedBansTypeOK
  <1>1. local[g][k][s] \in Nat /\ now \in Nat
    OBVIOUS
  <1>2. local' # local
    BY <1>1
  <1>3. ASSUME NEW h \in Gateways, NEW j \in Ids, Import(h, j)
        PROVE  FALSE
    <2> DEFINE until == asking[h][j].until
               merged == Merged(local[h][j][Global], until)
    <2>1. until \in Nat
      BY <1>3 DEF Import, Answers
    <2>2. local[h][j][Global] \in Nat
      BY DEF Scopes
    <2>3. merged \in Nat /\ local[h][j][Global] <= merged
      BY <1>1, <2>1, <2>2, MergedHolds
    <2>4. local' = local \/ local' = [local EXCEPT ![h][j][Global] = merged]
      BY <1>3 DEF Import
    <2> HIDE DEF merged
    <2>5. local' = [local EXCEPT ![h][j][Global] = merged]
      BY <1>2, <2>4
    <2>6. CASE h = g /\ j = k /\ s = Global
      <3>1. local'[g][k][s] = merged
        BY <2>5, <2>6
      <3> QED BY <1>1, <2>3, <2>6, <3>1
    <2>7. CASE ~(h = g /\ j = k /\ s = Global)
      <3>1. local'[g][k][s] = local[g][k][s]
        BY <2>5, <2>7
      <3> QED BY <1>1, <3>1
    <2> QED BY <2>6, <2>7
  <1>4. ASSUME NEW h \in Gateways, NEW j \in Ids, NEW t \in Scopes, NEW secs \in BanSecs,
               RiskBan(h, j, t, secs)
        PROVE  FALSE
    <2>1. local' = [local EXCEPT ![h][j][t] = now + secs] /\ local[h][j][t] <= now
      BY <1>4 DEF RiskBan, Give
    <2> QED BY <1>1, <2>1
  <1>5. ASSUME NEW h \in Gateways, NEW j \in Ids, NEW secs \in BanSecs,
               ManualBan(h, j, secs)
        PROVE  h = g /\ j = k
    <2>1. local' = [local EXCEPT ![h][j][Global] = now + secs]
      BY <1>5 DEF ManualBan, Give
    <2> QED BY <1>1, <2>1
  <1>6. ASSUME NEW h \in Gateways, NEW j \in Ids, Unban(h, j)
        PROVE  h = g /\ j = k
    <2>1. local' = [local EXCEPT ![h][j] = [t \in Scopes |-> 0]]
      BY <1>6 DEF Unban
    <2> QED BY <1>1, <2>1
  <1>7. PICK h \in Gateways : (\E j \in Ids : Import(h, j)) \/ Requests(h)
    BY <1>2 DEF SharedBansNext, sharedVars, flushLoop, Completion, WriteDone, WriteFails, FlushDone, FlushFails,
         Answer, FlushStart, Outage, Tick
  <1>8. CASE \E j \in Ids : Import(h, j)
    BY <1>3, <1>8
  <1>9. CASE Requests(h)
    <2>1. ASSUME NEW j \in Ids, NEW t \in Scopes, Ask(h, j, t)
          PROVE  FALSE
      BY <1>2, <2>1 DEF Ask
    <2>2. PICK j \in Ids :
            (\E secs \in BanSecs : ManualBan(h, j, secs)) \/ Unban(h, j)
      BY <1>4, <1>9, <2>1, RequestsAreSteps
    <2>3. h = g /\ j = k
      BY <1>5, <1>6, <2>2
    <2> QED BY <2>2, <2>3
  <1> QED BY <1>7, <1>8, <1>9

\* Only an operator ends a running ban early at a gateway: not an answer of
\* Redis that comes after a longer ban was given (is_banned, its max), and not
\* a risk ban (update_risk_and_maybe_ban, its guard).
THEOREM OnlyOperatorsEndBans == SharedBansSpec => OnlyOperatorsShorten
  <1> DEFINE A == \A g \in Gateways, k \in Ids, s \in Scopes :
                    local[g][k][s] > now /\ local'[g][k][s] < local[g][k][s]
                    => Unban(g, k) \/ \E secs \in BanSecs : ManualBan(g, k, secs)
  <1>1. SharedBansIInv /\ [SharedBansNext]_sharedVars => A
    BY WhoShortens
  <1>2. SharedBansSpec => [][A]_sharedVars
    BY <1>1, SharedBansInvariance, PTL DEF SharedBansSpec
  <1> QED BY <1>2 DEF OnlyOperatorsShorten

=============================================================================
