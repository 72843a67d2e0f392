---------------------------- MODULE RequestPath ----------------------------
(***************************************************************************)
(* The way of a request through the gateway: the middleware protect() and  *)
(* the handler proxy() (core/proxy_handler.py), the challenge gate and the *)
(* solver's endpoint (challenge/js_challenge.py), and the ledger of the    *)
(* challenge cookies a fingerprint was given (identity.py).                *)
(*                                                                         *)
(* A request is a coroutine: between two actions of one request those of   *)
(* the others, of the operator and of the clock take place.  What a gate   *)
(* looks at in the request, or in a switch an operator may flip per vhost  *)
(* at any moment, is a choice; what it looks at in the state is a guard.   *)
(*                                                                         *)
(* Bans and scores are kept per key of ip_state: the track key of an       *)
(* identity, the hash of a fingerprint, or a raw client address.  Scores   *)
(* do not decay here: a run lasts minutes, a half-life an hour.            *)
(***************************************************************************)
EXTENDS Integers, FiniteSets

CONSTANTS
  Requests,                 \* bound: requests in flight at a time
  Ids,                      \* track keys
  Fps, Addresses,
  FpOf, AddressOf,          \* of the client behind a track key
  Crowded,                  \* addresses with NAT_IDENTITIES_THRESHOLD neighbours
  RISK_BAN_THRESHOLD,
  RISK_BAN_THRESHOLD_NAT,
  Weights,                  \* RISK_WEIGHTS of the detectors
  ChurnWeight,              \* RISK_WEIGHTS["session-churn"]
  TurnstileScore,           \* _turnstile_active_threshold()
  ESCALATION_THRESHOLD,
  SESSION_CHURN_MAX,
  SESSION_CHURN_WINDOW_S,
  ALLOW_BYPASS_SECS,
  BanSecs                   \* the term of a ban

Keys == Ids \cup Fps \cup Addresses

ASSUME KeysAssumption ==
  /\ FpOf \in [Ids -> Fps] /\ AddressOf \in [Ids -> Addresses]
  /\ Crowded \subseteq Addresses
  /\ Ids \cap (Fps \cup Addresses) = {} /\ Fps \cap Addresses = {}
  /\ IsFiniteSet(Requests)

\* One cookie too many bans a fingerprint; at a crowded address two do.
ASSUME WeightsAssumption ==
  /\ RISK_BAN_THRESHOLD \in Nat \ {0} /\ RISK_BAN_THRESHOLD_NAT \in Nat
  /\ RISK_BAN_THRESHOLD <= RISK_BAN_THRESHOLD_NAT
  /\ Weights \subseteq Nat \ {0}
  /\ TurnstileScore \in Nat /\ ESCALATION_THRESHOLD \in Nat
  /\ ChurnWeight \in Nat /\ ChurnWeight >= RISK_BAN_THRESHOLD
  /\ 2 * ChurnWeight >= RISK_BAN_THRESHOLD_NAT

\* A ban outlives the window in which the cookies are counted.
ASSUME TimesAssumption ==
  /\ SESSION_CHURN_MAX \in Nat /\ SESSION_CHURN_WINDOW_S \in Nat \ {0}
  /\ ALLOW_BYPASS_SECS \in Nat /\ BanSecs \in Nat
  /\ BanSecs >= SESSION_CHURN_WINDOW_S

VARIABLES
  req,       \* req[r]: how far request r has come
  banLeft,   \* banLeft[k]: what is left of ip_state[k].banned_until
  score,     \* ip_state[k].risk_score, counted up to RISK_BAN_THRESHOLD_NAT
  grace,     \* grace[i]: what is left of ip_state[i].bypass_until
  minted,    \* minted[f]: the ledger _fp_session_creations[f]
  touched    \* history: fingerprints whose ban an operator changed in the window

vars == <<req, banLeft, score, grace, minted, touched>>
riskVars == <<banLeft, score>>
ledgerVars == <<minted, touched>>

-----------------------------------------------------------------------------
(***************************************************************************)
(* Requests                                                                *)
(***************************************************************************)

Stages == {"entered", "stamped", "known", "checked", "forwarded",
           "paying", "answered"}

\* What let a request through: every gate, BOT_DETECTION_ENABLED = false, or
\* an exemption granted before its identity was looked at.
Ways == {"none", "gates", "undetected", "exempt"}

Idle == [stage |-> "idle"]

\* `mint` is _auto_mint_chal; `barred` and `graced` are history: the keys whose
\* ban was running when the request arrived and has run ever since; whether it
\* was stamped within an Allow window that is still running.
Running == [stage : Stages, id : Ids, way : Ways, mint : BOOLEAN,
            barred : SUBSET Keys, graced : BOOLEAN]

At(r, stage) == req[r].stage = stage
Banned(k) == banLeft[k] > 0

Arrival(i, stage, way, mint) ==
  [stage |-> stage, id |-> i, way |-> way, mint |-> mint,
   barred |-> {k \in {i, FpOf[i], AddressOf[i]} : Banned(k)}, graced |-> FALSE]

Starts(r, i, stage, way, mint) ==
  /\ At(r, "idle")
  /\ req' = [req EXCEPT ![r] = Arrival(i, stage, way, mint)]

Moves(r, stage) == req' = [req EXCEPT ![r].stage = stage]
LetThrough(r, way) ==
  req' = [req EXCEPT ![r].stage = "forwarded", ![r].way = way]
Ends(r) == req' = [req EXCEPT ![r] = Idle]

\* Fault: the track key is used wherever the identity is known.
KeyOfIdentity(r) == req[r].id

\* request.get("_track_key") or request.remote: the track key is set after the
\* exemptions.
KeyOf(r) == IF req[r].way = "exempt" THEN AddressOf[req[r].id] ELSE req[r].id

-----------------------------------------------------------------------------
(***************************************************************************)
(* Risk (module RiskScoring has the detail)                                *)
(***************************************************************************)

ThresholdAt(a) ==
  IF a \in Crowded THEN RISK_BAN_THRESHOLD_NAT ELSE RISK_BAN_THRESHOLD

AddRisk(k, w) ==
  LET sum == score[k] + w
  IN IF sum > RISK_BAN_THRESHOLD_NAT THEN RISK_BAN_THRESHOLD_NAT ELSE sum

\* update_risk_and_maybe_ban for a client at address a.
Signal(k, w, a) ==
  /\ score' = [score EXCEPT ![k] = AddRisk(k, w)]
  /\ banLeft' = [banLeft EXCEPT ![k] =
                   IF AddRisk(k, w) >= ThresholdAt(a) /\ ~Banned(k)
                   THEN BanSecs ELSE @]

SignalOn(r, k) == \E w \in Weights : Signal(k, w, AddressOf[req[r].id])

-----------------------------------------------------------------------------
(***************************************************************************)
(* Before the identity is known                                            *)
(***************************************************************************)

\* BYPASS_MODE, a path of BYPASS_PATHS and a custom rule "allow" forward at
\* once, unscored.
ForwardExempt(r, i) ==
  /\ Starts(r, i, "forwarded", "exempt", FALSE)
  /\ UNCHANGED <<riskVars, grace, ledgerVars>>

\* A rule of AUTHORIZED_BOT_UAS says ban: the address gets the ban, whatever
\* ban it had, and the request its decoy.
BotRuleBan(i) ==
  /\ banLeft' = [banLeft EXCEPT ![AddressOf[i]] = BanSecs]
  /\ UNCHANGED <<req, score, grace, ledgerVars>>

\* The path is none of the administration's and the host is served: on to the
\* identity of the request.
Enter(r, i, mint) ==
  /\ Starts(r, i, "entered", "none", mint)
  /\ UNCHANGED <<riskVars, grace, ledgerVars>>

\* With a cookie, on an open path or on a trap the challenge gate is passed;
\* an HTML GET without a cookie is marked for one, unless its identity is in
\* the Turnstile band, where it is served the challenge; the rest is decoyed.
PassChallengeGate(r, i) ==
  \/ Enter(r, i, FALSE)
  \/ score[i] < TurnstileScore /\ Enter(r, i, TRUE)

-----------------------------------------------------------------------------
(***************************************************************************)
(* The identity                                                            *)
(***************************************************************************)

\* The stamp, under the lock: a request with an operator's session, or within
\* the identity's Allow window, is forwarded; the others go on.
Stamp(r) ==
  /\ At(r, "entered")
  /\ LET open == grace[req[r].id] > 0
         stamped == [req[r] EXCEPT !.stage = "stamped"]
         forwarded == [req[r] EXCEPT !.stage = "forwarded", !.way = "exempt",
                                     !.mint = FALSE, !.graced = open]
     IN \/ req' = [req EXCEPT ![r] = forwarded]
        \/ ~open /\ req' = [req EXCEPT ![r] = stamped]
  /\ UNCHANGED <<riskVars, grace, ledgerVars>>

\* External intelligence (AbuseIPDB, CrowdSec, ASN, coordinated probe): the
\* score moves and the request goes on.
Suspect(r) ==
  /\ At(r, "stamped")
  /\ SignalOn(r, req[r].id)
  /\ UNCHANGED <<req, grace, ledgerVars>>

\* A Tor exit or a country that is not served: scored, then the decoy.
Exclude(r) ==
  /\ At(r, "stamped")
  /\ SignalOn(r, req[r].id)
  /\ Ends(r)
  /\ UNCHANGED <<grace, ledgerVars>>

\* Too many new identities at this address in a minute: the decoy, unscored.
SessionFlood(r) ==
  /\ At(r, "stamped")
  /\ Ends(r)
  /\ UNCHANGED <<riskVars, grace, ledgerVars>>

\* Fault: without bot detection the request is forwarded before its bans are
\* looked at.
DetectionFirst(r) ==
  /\ At(r, "stamped")
  /\ \/ LetThrough(r, "undetected")
     \/ IF Banned(req[r].id) THEN Ends(r) ELSE Moves(r, "known")
  /\ UNCHANGED <<riskVars, grace, ledgerVars>>

\* is_banned(track_key): the decoy "banned-silent".
CheckIdentity(r) ==
  /\ At(r, "stamped")
  /\ IF Banned(req[r].id) THEN Ends(r) ELSE Moves(r, "known")
  /\ UNCHANGED <<riskVars, grace, ledgerVars>>

\* is_banned(fp_hash_key): the decoy "fp-banned".  Past it the endpoint's own
\* rate limit may still decoy; where bot detection is off the request is
\* forwarded.
CheckFingerprint(r) ==
  /\ At(r, "known")
  /\ \/ Ends(r)
     \/ /\ ~Banned(FpOf[req[r].id])
        /\ Moves(r, "checked") \/ LetThrough(r, "undetected")
  /\ UNCHANGED <<riskVars, grace, ledgerVars>>

-----------------------------------------------------------------------------
(***************************************************************************)
(* The detectors                                                           *)
(***************************************************************************)

\* deny: honeypot, suspicious path, canary, user agent, AI probe, incomplete
\* headers, enumeration, rate limits, behaviour, cookies, travel, proof of
\* work: scored, then the decoy (402 for the proof of work).
Deny(r) ==
  /\ At(r, "checked")
  /\ SignalOn(r, req[r].id)
  /\ Ends(r)
  /\ UNCHANGED <<grace, ledgerVars>>

\* The soft signals: scored, and the request goes on.
SoftSignal(r) ==
  /\ At(r, "checked")
  /\ SignalOn(r, req[r].id)
  /\ UNCHANGED <<req, grace, ledgerVars>>

\* Every detector has waved it through.
Forward(r) ==
  /\ At(r, "checked")
  /\ LetThrough(r, "gates")
  /\ UNCHANGED <<riskVars, grace, ledgerVars>>

\* proxy(): smuggling, verb override and header injection are scored under the
\* key at hand and meet the decoy; a method outside ALLOWED_METHODS is refused
\* unscored.
HeaderGate(r) ==
  /\ At(r, "forwarded")
  /\ SignalOn(r, KeyOf(r)) \/ UNCHANGED riskVars
  /\ Ends(r)
  /\ UNCHANGED <<grace, ledgerVars>>

\* The body is not there within BODY_TIMEOUT: scored where the identity is
\* known, then the decoy.
SlowBody(r) ==
  /\ At(r, "forwarded")
  /\ IF req[r].way = "exempt" THEN UNCHANGED riskVars
     ELSE SignalOn(r, req[r].id)
  /\ Ends(r)
  /\ UNCHANGED <<grace, ledgerVars>>

\* Critical injection, XXE, prototype pollution, GraphQL and uploads are looked
\* for in every body.
BodyScan(r) ==
  /\ At(r, "forwarded")
  /\ SignalOn(r, KeyOf(r))
  /\ Ends(r)
  /\ UNCHANGED <<grace, ledgerVars>>

\* The patterns, the echoed canaries and the trap fields only in the body of a
\* key that has a score by now.
EscalatedScan(r) ==
  /\ At(r, "forwarded") /\ score[KeyOf(r)] >= ESCALATION_THRESHOLD
  /\ BodyScan(r)

\* On the way of an HTML answer: whether the client fetched the probe of an
\* earlier page, and its sub-resources.  Scored where the identity is known, and
\* the request goes on.  (Before the scans of the body too: more orders than the
\* code has.)
PageCheck(r) ==
  /\ At(r, "forwarded") /\ req[r].way # "exempt"
  /\ SignalOn(r, req[r].id)
  /\ UNCHANGED <<req, grace, ledgerVars>>

-----------------------------------------------------------------------------
(***************************************************************************)
(* The ledger of challenge cookies                                         *)
(***************************************************************************)

Window == 1 .. SESSION_CHURN_WINDOW_S

\* Bounds: the cookies are counted as far as the comparisons can tell.
MaxPages == SESSION_CHURN_MAX + 2 * Cardinality(Requests) + 1
MaxSolved == SESSION_CHURN_MAX + 1

\* The cookies that stay in the window for as long as t, t \in Window: those
\* set by a page and those set by the solver's endpoint.
Ledger == [Window -> [page : 0 .. MaxPages, solved : 0 .. MaxSolved]]
NoCookies == [t \in Window |-> [page |-> 0, solved |-> 0]]

\* Sum over the window.
SumOf(n) ==
  LET sum[t \in 0 .. SESSION_CHURN_WINDOW_S] ==
        IF t = 0 THEN 0 ELSE sum[t - 1] + n[t]
  IN sum[SESSION_CHURN_WINDOW_S]

Pages(ledger) == SumOf([t \in Window |-> ledger[t].page])
Solved(ledger) == SumOf([t \in Window |-> ledger[t].solved])

\* Fault: as many cookies again are let pass.
ChurnsLate(ledger) == Pages(ledger) + Solved(ledger) > 2 * SESSION_CHURN_MAX + 2

\* More cookies in the window than a visitor needs.
Churns(ledger) == Pages(ledger) + Solved(ledger) > SESSION_CHURN_MAX

UpTo(n, limit) == IF n < limit THEN n + 1 ELSE limit

WithPage(ledger) ==
  [ledger EXCEPT ![SESSION_CHURN_WINDOW_S].page = UpTo(@, MaxPages)]
WithSolved(ledger) ==
  [ledger EXCEPT ![SESSION_CHURN_WINDOW_S].solved = UpTo(@, MaxSolved)]

\* _record_chal_mint, up to its await: the cookie is in the ledger; a
\* fingerprint that churns is to pay for it.
Noted(f, ledger) == IF Churns(ledger) THEN "paying" ELSE "answered"

\* js_challenge_endpoint: the solver's cookie.  No ban is looked at.
SolveChallenge(r, i) ==
  LET ledger == WithSolved(minted[FpOf[i]])
  IN /\ Starts(r, i, Noted(FpOf[i], ledger), "none", FALSE)
     /\ minted' = [minted EXCEPT ![FpOf[i]] = ledger]
     /\ UNCHANGED <<riskVars, grace, touched>>

\* The answer to an HTML GET without a cookie sets one.
Mint(r) ==
  LET f == FpOf[req[r].id]
      ledger == WithPage(minted[f])
  IN /\ At(r, "forwarded") /\ req[r].way = "gates" /\ req[r].mint
     /\ Moves(r, Noted(f, ledger))
     /\ minted' = [minted EXCEPT ![f] = ledger]
     /\ UNCHANGED <<riskVars, grace, touched>>

\* The rest of _record_chal_mint: the fingerprint is scored.
Pay(r) ==
  /\ At(r, "paying")
  /\ Signal(FpOf[req[r].id], ChurnWeight, AddressOf[req[r].id])
  /\ Moves(r, "answered")
  /\ UNCHANGED <<grace, ledgerVars>>

-----------------------------------------------------------------------------
(***************************************************************************)
(* The answer                                                              *)
(***************************************************************************)

\* The site has answered and no cookie is due any more.
Answered(r) ==
  \/ At(r, "answered")
  \/ At(r, "forwarded") /\ ~(req[r].way = "gates" /\ req[r].mint)

\* A 404 of the site is one more signal, unless the detectors were skipped.
NotFound(r) ==
  /\ Answered(r) /\ req[r].way = "gates"
  /\ SignalOn(r, req[r].id)
  /\ Ends(r)
  /\ UNCHANGED <<grace, ledgerVars>>

Finish(r) ==
  /\ Answered(r)
  /\ Ends(r)
  /\ UNCHANGED <<riskVars, grace, ledgerVars>>

-----------------------------------------------------------------------------
(***************************************************************************)
(* The operator and the clock                                              *)
(***************************************************************************)

\* History: the requests under way when bans or Allow windows come to an end.
Reviewed(bans, graces) ==
  [r \in Requests |->
     IF At(r, "idle") THEN Idle
     ELSE [req[r] EXCEPT !.barred = {k \in @ : bans[k] > 0},
                         !.graced = @ /\ graces[req[r].id] > 0]]

\* Fault: every Allow adds to the window.
AllowAdds(i) == grace[i] + ALLOW_BYPASS_SECS

\* bypass_until, from now on.
AllowedFor(i) == ALLOW_BYPASS_SECS

\* unban_endpoint: ban and score of the key are gone; an identity gets its
\* Allow window (a fingerprint would too, to no effect).
Unban(k) ==
  /\ banLeft' = [banLeft EXCEPT ![k] = 0]
  /\ score' = [score EXCEPT ![k] = 0]
  /\ grace' = [i \in Ids |-> IF i = k THEN AllowedFor(i) ELSE grace[i]]
  /\ req' = Reviewed(banLeft', grace')
  /\ touched' = touched \cup (Fps \cap {k})
  /\ UNCHANGED minted

\* ban_endpoint: the Allow window, if any, stays open.
ManualBan(k) ==
  /\ banLeft' = [banLeft EXCEPT ![k] = BanSecs]
  /\ touched' = touched \cup (Fps \cap {k})
  /\ UNCHANGED <<req, score, grace, minted>>

Less(n) == IF n > 0 THEN n - 1 ELSE 0

Aged(ledger) ==
  [t \in Window |-> IF t + 1 \in Window THEN ledger[t + 1] ELSE NoCookies[t]]

Tick ==
  /\ banLeft' = [k \in Keys |-> Less(banLeft[k])]
  /\ grace' = [i \in Ids |-> Less(grace[i])]
  /\ minted' = [f \in Fps |-> Aged(minted[f])]
  /\ touched' = {f \in touched : banLeft'[f] > 0 \/ minted'[f] # NoCookies}
  /\ req' = Reviewed(banLeft', grace')
  /\ UNCHANGED score

-----------------------------------------------------------------------------
Init ==
  /\ req = [r \in Requests |-> Idle]
  /\ banLeft = [k \in Keys |-> 0]
  /\ score = [k \in Keys |-> 0]
  /\ grace = [i \in Ids |-> 0]
  /\ minted = [f \in Fps |-> NoCookies]
  /\ touched = {}

\* A request that comes in.  The gates of layer 0 that turn one away (method,
\* liveness and load balancer probes, ip ban, throughput, host, custom rule,
\* JWT, TLS fingerprint, origin, required header) answer and leave nothing in
\* the state kept here: of them, only what they let pass is seen.
Arrive(r, i) ==
  ForwardExempt(r, i) \/ PassChallengeGate(r, i) \/ SolveChallenge(r, i)

\* protect, from the stamp to the decision.
Inspect(r) ==
  \/ Stamp(r) \/ Suspect(r) \/ Exclude(r) \/ SessionFlood(r)
  \/ CheckIdentity(r) \/ CheckFingerprint(r)
  \/ Deny(r) \/ SoftSignal(r) \/ Forward(r)

\* proxy, and what protect does with its answer.
Respond(r) ==
  \/ HeaderGate(r) \/ SlowBody(r) \/ BodyScan(r) \/ EscalatedScan(r)
  \/ PageCheck(r) \/ Mint(r) \/ Pay(r) \/ NotFound(r) \/ Finish(r)

Operate ==
  \/ \E i \in Ids : BotRuleBan(i)
  \/ \E k \in Ids \cup Fps : Unban(k) \/ ManualBan(k)

Next ==
  \/ \E r \in Requests : (\E i \in Ids : Arrive(r, i)) \/ Inspect(r) \/ Respond(r)
  \/ Operate
  \/ Tick

Spec == Init /\ [][Next]_vars

-----------------------------------------------------------------------------
(***************************************************************************)
(* Properties                                                              *)
(***************************************************************************)

TypeOK ==
  /\ req \in [Requests -> {Idle} \cup Running]
  /\ banLeft \in [Keys -> 0 .. BanSecs]
  /\ score \in [Keys -> 0 .. RISK_BAN_THRESHOLD_NAT]
  /\ grace \in [Ids -> 0 .. ALLOW_BYPASS_SECS]
  /\ minted \in [Fps -> Ledger]
  /\ touched \subseteq Fps

\* A ban on an identity or on its fingerprint holds: a request that arrived
\* under it reaches the site only through an exemption for as long as the ban
\* runs, whatever operators, the clock and other requests do meanwhile.
\* Turning bot detection off is no such exemption ("Existing bans and rate
\* limits above still apply", protect).
BannedMeetsDecoy ==
  \A r \in Requests :
    At(r, "forwarded") /\ req[r].way \in {"gates", "undetected"}
    => req[r].barred \subseteq Addresses

\* The pages in the window of which no request in flight is about to pay for:
\* the allowance, one more at a crowded address, or those that requests past the
\* fingerprint's check got while its last ban ran.
Unpaid ==
  LET allowed == SESSION_CHURN_MAX + (IF Crowded = {} THEN 0 ELSE 1)
      leftOver == Cardinality(Requests) - 1
  IN IF leftOver > allowed THEN leftOver ELSE allowed

\* Session churn is stopped (identity.py): the pages a fingerprint is served
\* in one window with a new cookie each are at most those and the cookies of
\* the requests in flight when the next ban begins, however many the solver's
\* endpoint sets.
ChurnBounded ==
  \A f \in Fps \ touched :
    Pages(minted[f]) <= Unpaid + Cardinality(Requests)

\* The operator's Allow window (protect): what a request stamped within it
\* does, the patterns in its body included, never counts against the identity.
GraceUndisturbed ==
  [][\A r \in Requests :
       ~At(r, "idle") /\ req[r].graced /\ req'[r] = Idle
       => score'[req[r].id] = score[req[r].id]]_vars

\* What the comment on AUTHORIZED_BOT_UAS says of the actions ban and
\* really-ban, "immediate ban": a request that arrives from the address while
\* the ban runs does not pass the gates.
RuleBansBite ==
  \A r \in Requests :
    At(r, "forwarded") /\ req[r].way = "gates" => req[r].barred = {}

=============================================================================
