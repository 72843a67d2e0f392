------------------------- MODULE RequestPath_proofs -------------------------
(***************************************************************************)
(* Safety of RequestPath, for any number of requests and clients.          *)
(***************************************************************************)
EXTENDS RequestPath, FiniteSetTheorems, NaturalsInduction,
        WellFoundedInduction, TLAPS

\* What is known of a request m by the place it has come to: the identity's ban
\* is looked at before "known", the fingerprint's before "checked", and an Allow
\* window leads straight to the site.
Sheltered(m) ==
  /\ m.barred \subseteq {m.id, FpOf[m.id], AddressOf[m.id]}
  /\ m.stage = "known" => m.id \notin m.barred
  /\ m.stage = "checked" => m.barred \subseteq Addresses
  /\ m.stage = "forwarded" /\ m.way \in {"gates", "undetected"}
     => m.barred \subseteq Addresses
  /\ m.graced => m.stage = "forwarded" /\ m.way = "exempt"

\* The history is true: a ban counted against a request is running.
BarredByBans ==
  \A r \in Requests :
    ~At(r, "idle") => Sheltered(req[r]) /\ \A k \in req[r].barred : Banned(k)

IInv == TypeOK /\ BarredByBans

-----------------------------------------------------------------------------
(***************************************************************************)
(* Requests and bans                                                       *)
(***************************************************************************)

\* The keys of a client.
LEMMA ClientKeys ==
  ASSUME NEW i \in Ids
  PROVE  /\ FpOf[i] \in Fps /\ AddressOf[i] \in Addresses
         /\ i \in Keys /\ FpOf[i] \in Keys /\ AddressOf[i] \in Keys
  BY KeysAssumption DEF Keys

\* A request in flight is a record of Running.
LEMMA InFlight ==
  ASSUME TypeOK, NEW r \in Requests, ~At(r, "idle")
  PROVE  req[r] \in Running
  <1>1. req[r] \in {Idle} \cup Running
    BY DEF TypeOK
  <1>2. req[r] # Idle
    BY DEF At, Idle
  <1> QED BY <1>1, <1>2

\* A request at any stage is in flight.
LEMMA StageInFlight ==
  ASSUME TypeOK, NEW r \in Requests, NEW s \in Stages, At(r, s)
  PROVE  ~At(r, "idle") /\ req[r] \in Running
  <1>1. ~At(r, "idle")
    BY DEF At, Stages
  <1> QED BY <1>1, InFlight

\* A signal scores its key and never ends a ban.
LEMMA SignalKeeps ==
  ASSUME TypeOK, NEW k \in Keys, NEW w \in Nat, NEW a, Signal(k, w, a)
  PROVE  /\ banLeft' \in [Keys -> 0 .. BanSecs]
         /\ score' \in [Keys -> 0 .. RISK_BAN_THRESHOLD_NAT]
         /\ \A l \in Keys : Banned(l) => Banned(l)'
         /\ \A l \in Keys \ {k} : score'[l] = score[l] /\ banLeft'[l] = banLeft[l]
  <1> USE WeightsAssumption, TimesAssumption
  <1>1. AddRisk(k, w) \in 0 .. RISK_BAN_THRESHOLD_NAT
    <2>1. score[k] \in Nat
      BY DEF TypeOK
    <2> QED BY <2>1 DEF AddRisk
  <1>2. BanSecs \in 0 .. BanSecs /\ BanSecs > 0
    OBVIOUS
  <1> HIDE DEF AddRisk
  <1>3. score' \in [Keys -> 0 .. RISK_BAN_THRESHOLD_NAT]
    BY <1>1 DEF TypeOK, Signal
  <1>4. banLeft' \in [Keys -> 0 .. BanSecs]
    BY <1>2 DEF TypeOK, Signal
  <1>5. \A l \in Keys : Banned(l) => Banned(l)'
    BY <1>2 DEF TypeOK, Signal, Banned
  <1>6. \A l \in Keys \ {k} : score'[l] = score[l] /\ banLeft'[l] = banLeft[l]
    BY DEF TypeOK, Signal
  <1> QED BY <1>3, <1>4, <1>5, <1>6

\* The same of the signal of a detector.
LEMMA DetectorKeeps ==
  ASSUME TypeOK, NEW r \in Requests, NEW k \in Keys,
         SignalOn(r, k) \/ UNCHANGED riskVars
  PROVE  /\ banLeft' \in [Keys -> 0 .. BanSecs]
         /\ score' \in [Keys -> 0 .. RISK_BAN_THRESHOLD_NAT]
         /\ \A l \in Keys : Banned(l) => Banned(l)'
         /\ \A l \in Keys \ {k} : score'[l] = score[l] /\ banLeft'[l] = banLeft[l]
  <1>1. CASE SignalOn(r, k)
    <2>1. PICK w \in Weights : Signal(k, w, AddressOf[req[r].id])
      BY <1>1 DEF SignalOn
    <2>2. w \in Nat
      BY WeightsAssumption
    <2> HIDE DEF Signal
    <2> QED BY <2>1, <2>2, SignalKeeps
  <1>2. CASE UNCHANGED riskVars
    BY <1>2 DEF riskVars, TypeOK, Banned
  <1> QED BY <1>1, <1>2

\* One request is served while no ban ends: it is enough to look at that one.
LEMMA OneServed ==
  ASSUME BarredByBans, NEW r \in Requests,
         \A q \in Requests \ {r} : req'[q] = req[q],
         \A q \in Requests : ~At(q, "idle") => req[q].barred \subseteq Keys,
         \A k \in Keys : Banned(k) => Banned(k)',
         \/ At(r, "idle")'
         \/ Sheltered(req'[r]) /\ \A k \in req'[r].barred : Banned(k)'
  PROVE  BarredByBans'
  <1> SUFFICES ASSUME NEW q \in Requests, ~At(q, "idle")'
               PROVE  Sheltered(req'[q]) /\ \A k \in req'[q].barred : Banned(k)'
    BY DEF BarredByBans
  <1>1. CASE q = r
    BY <1>1
  <1>2. CASE q # r
    <2>1. req'[q] = req[q] /\ ~At(q, "idle")
      BY <1>2 DEF At
    <2>2. Sheltered(req[q]) /\ (\A k \in req[q].barred : Banned(k))
      BY <2>1 DEF BarredByBans
    <2>3. req[q].barred \subseteq Keys
      BY <2>1
    <2> QED BY <2>1, <2>2, <2>3
  <1> QED BY <1>1, <1>2

\* The same of requests that are reviewed when bans end.
LEMMA ReviewKeeps ==
  ASSUME IInv, req' = Reviewed(banLeft', grace')
  PROVE  /\ req' \in [Requests -> {Idle} \cup Running]
         /\ BarredByBans'
  <1> DEFINE rev(r) == [req[r] EXCEPT !.barred = {k \in @ : banLeft'[k] > 0},
                                      !.graced = @ /\ grace'[req[r].id] > 0]
  <1>1. ASSUME NEW r \in Requests
        PROVE  req'[r] = IF At(r, "idle") THEN Idle ELSE rev(r)
    BY DEF Reviewed
  <1>2. ASSUME NEW r \in Requests, ~At(r, "idle")
        PROVE  /\ rev(r) \in Running
               /\ rev(r).barred = {k \in req[r].barred : banLeft'[k] > 0}
               /\ rev(r).graced => req[r].graced
               /\ rev(r).stage = req[r].stage /\ rev(r).way = req[r].way
               /\ rev(r).id = req[r].id
    <2>1. req[r] \in Running
      BY <1>2, InFlight DEF IInv
    <2> QED BY <2>1 DEF Running
  <1> HIDE DEF rev
  <1>3. req' \in [Requests -> {Idle} \cup Running]
    <2>1. req' = [r \in Requests |-> req'[r]]
      BY DEF Reviewed
    <2>2. ASSUME NEW r \in Requests PROVE req'[r] \in {Idle} \cup Running
      BY <1>1, <1>2
    <2> QED BY <2>1, <2>2
  <1>4. ASSUME NEW r \in Requests, ~At(r, "idle")'
        PROVE  Sheltered(req'[r]) /\ \A k \in req'[r].barred : Banned(k)'
    <2>1. ~At(r, "idle")
      BY <1>1, <1>4 DEF At, Idle
    <2>2. Sheltered(req[r])
      BY <2>1 DEF IInv, BarredByBans
    <2>3. req'[r] = rev(r)
      BY <1>1, <2>1
    <2>4. req'[r].barred \subseteq req[r].barred
      BY <1>2, <2>1, <2>3
    <2>5. Sheltered(req'[r])
      BY <1>2, <2>1, <2>2, <2>3, <2>4 DEF Sheltered
    <2>6. \A k \in req'[r].barred : banLeft'[k] > 0
      BY <1>2, <2>1, <2>3
    <2> QED BY <2>5, <2>6 DEF Banned
  <1> QED BY <1>3, <1>4 DEF BarredByBans

-----------------------------------------------------------------------------
(***************************************************************************)
(* The steps of a request                                                  *)
(***************************************************************************)

\* Only the requests, the bans and the scores take part in what follows.
Unledgered == /\ grace' \in [Ids -> 0 .. ALLOW_BYPASS_SECS]
              /\ minted' \in [Fps -> Ledger]
              /\ touched' \subseteq Fps

\* A request r that moves to m, and is not answered: what is to be shown.
LEMMA MovedTo ==
  ASSUME IInv, NEW r \in Requests, NEW m \in Running,
         req' = [req EXCEPT ![r] = m],
         Sheltered(m), \A k \in m.barred : Banned(k)',
         banLeft' \in [Keys -> 0 .. BanSecs],
         score' \in [Keys -> 0 .. RISK_BAN_THRESHOLD_NAT],
         \A k \in Keys : Banned(k) => Banned(k)',
         Unledgered
  PROVE  IInv'
  <1>1. req'[r] = m /\ \A q \in Requests \ {r} : req'[q] = req[q]
    BY DEF IInv, TypeOK
  <1>2. req' \in [Requests -> {Idle} \cup Running]
    BY DEF IInv, TypeOK
  <1>3. TypeOK'
    BY <1>2 DEF TypeOK, Unledgered
  <1>4. \A q \in Requests : ~At(q, "idle") => req[q].barred \subseteq Keys
    BY InFlight DEF IInv, Running
  <1>5. BarredByBans'
    BY <1>1, <1>4, OneServed DEF IInv
  <1> QED BY <1>3, <1>5 DEF IInv

\* The same of a request that is answered.
LEMMA EndedNow ==
  ASSUME IInv, NEW r \in Requests, Ends(r),
         banLeft' \in [Keys -> 0 .. BanSecs],
         score' \in [Keys -> 0 .. RISK_BAN_THRESHOLD_NAT],
         \A k \in Keys : Banned(k) => Banned(k)',
         Unledgered
  PROVE  IInv'
  <1>1. req'[r] = Idle /\ \A q \in Requests \ {r} : req'[q] = req[q]
    BY DEF IInv, TypeOK, Ends
  <1>2. req' \in [Requests -> {Idle} \cup Running]
    BY DEF IInv, TypeOK, Ends
  <1>3. TypeOK'
    BY <1>2 DEF TypeOK, Unledgered
  <1>4. \A q \in Requests : ~At(q, "idle") => req[q].barred \subseteq Keys
    BY InFlight DEF IInv, Running
  <1>5. At(r, "idle")'
    BY <1>1 DEF At, Idle
  <1>6. BarredByBans'
    BY <1>1, <1>4, <1>5, OneServed DEF IInv
  <1> QED BY <1>3, <1>6 DEF IInv

\* The state that a step which looks at nothing else leaves alone.
LEMMA RestTyped ==
  ASSUME IInv, UNCHANGED <<grace, ledgerVars>>
  PROVE  Unledgered
  BY DEF IInv, TypeOK, Unledgered, ledgerVars

LEMMA RiskTyped ==
  ASSUME IInv, UNCHANGED riskVars
  PROVE  /\ banLeft' \in [Keys -> 0 .. BanSecs]
         /\ score' \in [Keys -> 0 .. RISK_BAN_THRESHOLD_NAT]
         /\ \A k \in Keys : Banned(k) => Banned(k)'
  BY DEF IInv, TypeOK, riskVars, Banned

\* A request arrives under the bans of the moment.
LEMMA Arrives ==
  ASSUME IInv, NEW r \in Requests, NEW i \in Ids,
         NEW stage \in {"entered", "forwarded", "paying", "answered"},
         NEW way \in {"none", "exempt"}, NEW mint \in BOOLEAN,
         stage = "forwarded" => way = "exempt",
         Starts(r, i, stage, way, mint), UNCHANGED riskVars, Unledgered
  PROVE  IInv'
  <1> DEFINE m == Arrival(i, stage, way, mint)
  <1>1. m \in Running /\ \A k \in m.barred : Banned(k)
    BY ClientKeys DEF Arrival, Running, Stages, Ways
  <1>2. Sheltered(m)
    BY DEF Arrival, Sheltered
  <1>3. req' = [req EXCEPT ![r] = m]
    BY DEF Starts
  <1> HIDE DEF m
  <1>4. \A k \in m.barred : k \in Keys
    BY <1>1 DEF Running
  <1> QED BY <1>1, <1>2, <1>3, <1>4, RiskTyped, MovedTo

\* A request at stage s is at one of Running.
LEMMA Moving ==
  ASSUME IInv, NEW r \in Requests, NEW s \in Stages, At(r, s)
  PROVE  /\ req[r] \in Running /\ Sheltered(req[r]) /\ req[r].stage = s
         /\ req[r].id \in Ids /\ req[r].barred \subseteq Keys
         /\ \A k \in req[r].barred : Banned(k)
         /\ req[r].id \in Keys /\ KeyOf(r) \in Keys
  <1>1. ~At(r, "idle") /\ req[r] \in Running
    BY StageInFlight DEF IInv
  <1>2. req[r].id \in Ids /\ req[r].barred \subseteq Keys
    BY <1>1 DEF Running
  <1>3. Sheltered(req[r]) /\ \A k \in req[r].barred : Banned(k)
    BY <1>1 DEF IInv, BarredByBans
  <1> QED BY <1>1, <1>2, <1>3, ClientKeys DEF At, KeyOf

-----------------------------------------------------------------------------
(***************************************************************************)
(* One step, one action                                                    *)
(***************************************************************************)

THEOREM InitEstablishes == Init => IInv
  <1> SUFFICES ASSUME Init PROVE IInv
    OBVIOUS
  <1> USE WeightsAssumption, TimesAssumption
  <1>1. NoCookies \in Ledger
    <2>1. Cardinality(Requests) \in Nat
      BY KeysAssumption, FS_CardinalityType
    <2> QED BY <2>1 DEF NoCookies, Ledger, MaxPages, MaxSolved
  <1>2. TypeOK
    BY <1>1 DEF Init, TypeOK
  <1>3. BarredByBans
    BY DEF Init, BarredByBans, At, Idle
  <1> QED BY <1>2, <1>3 DEF IInv

\* A cookie more is still a ledger.
LEMMA LedgerGrows ==
  ASSUME NEW ledger \in Ledger
  PROVE  WithPage(ledger) \in Ledger /\ WithSolved(ledger) \in Ledger
  <1> USE TimesAssumption
  <1>1. MaxPages \in Nat /\ MaxSolved \in Nat
    BY KeysAssumption, FS_CardinalityType DEF MaxPages, MaxSolved
  <1>2. /\ \A n \in 0 .. MaxPages : UpTo(n, MaxPages) \in 0 .. MaxPages
        /\ \A n \in 0 .. MaxSolved : UpTo(n, MaxSolved) \in 0 .. MaxSolved
    BY <1>1 DEF UpTo
  <1>3. SESSION_CHURN_WINDOW_S \in Window
    BY DEF Window
  <1> HIDE DEF MaxPages, MaxSolved, UpTo
  <1> QED BY <1>2, <1>3 DEF WithPage, WithSolved, Ledger

LEMMA NotedStage ==
  ASSUME NEW f, NEW ledger
  PROVE  Noted(f, ledger) \in {"paying", "answered"}
  BY DEF Noted

LEMMA ArriveStep ==
  ASSUME IInv, NEW r \in Requests, NEW i \in Ids, Arrive(r, i)
  PROVE  IInv'
  <1>1. CASE ForwardExempt(r, i)
    <2>1. Unledgered
      BY <1>1, RestTyped DEF ForwardExempt
    <2>2. Starts(r, i, "forwarded", "exempt", FALSE) /\ UNCHANGED riskVars
      BY <1>1 DEF ForwardExempt
    <2> QED BY <2>1, <2>2, Arrives
  <1>2. CASE PassChallengeGate(r, i)
    <2>1. PICK mint \in BOOLEAN : Enter(r, i, mint)
      BY <1>2 DEF PassChallengeGate
    <2>2. Unledgered
      BY <2>1, RestTyped DEF Enter
    <2>3. Starts(r, i, "entered", "none", mint) /\ UNCHANGED riskVars
      BY <2>1 DEF Enter
    <2> QED BY <2>2, <2>3, Arrives
  <1>3. CASE SolveChallenge(r, i)
    <2> DEFINE f == FpOf[i]
               ledger == WithSolved(minted[f])
               stage == Noted(f, ledger)
    <2>1. /\ Starts(r, i, stage, "none", FALSE)
          /\ minted' = [minted EXCEPT ![f] = ledger]
          /\ UNCHANGED <<riskVars, grace, touched>>
      BY <1>3 DEF SolveChallenge
    <2>2. f \in Fps /\ ledger \in Ledger
      BY ClientKeys, LedgerGrows DEF IInv, TypeOK
    <2>3. stage \in {"paying", "answered"}
      BY NotedStage
    <2> HIDE DEF f, ledger, stage
    <2>4. Unledgered
      BY <2>1, <2>2 DEF IInv, TypeOK, Unledgered
    <2> QED BY <2>1, <2>3, <2>4, Arrives
  <1> QED BY <1>1, <1>2, <1>3 DEF Arrive

LEMMA StampStep ==
  ASSUME IInv, NEW r \in Requests, Stamp(r)
  PROVE  IInv'
  <1> DEFINE open == grace[req[r].id] > 0
             stamped == [req[r] EXCEPT !.stage = "stamped"]
             forwarded == [req[r] EXCEPT !.stage = "forwarded", !.way = "exempt",
                                         !.mint = FALSE, !.graced = open]
  <1>1. /\ At(r, "entered")
        /\ \/ req' = [req EXCEPT ![r] = forwarded]
           \/ req' = [req EXCEPT ![r] = stamped]
        /\ UNCHANGED riskVars /\ UNCHANGED <<grace, ledgerVars>>
    BY DEF Stamp
  <1>2. /\ req[r] \in Running /\ req[r].stage = "entered" /\ Sheltered(req[r])
        /\ req[r].barred \subseteq Keys /\ \A k \in req[r].barred : Banned(k)
    BY <1>1, Moving DEF Stages
  <1>3. /\ stamped \in Running /\ forwarded \in Running
        /\ stamped.barred = req[r].barred /\ forwarded.barred = req[r].barred
    <2>1. open \in BOOLEAN
      OBVIOUS
    <2> HIDE DEF open
    <2> QED BY <1>2, <2>1 DEF Running, Stages, Ways
  <1>4. Sheltered(stamped) /\ Sheltered(forwarded)
    BY <1>2 DEF Running, Sheltered
  <1> HIDE DEF stamped, forwarded
  <1> QED BY <1>1, <1>2, <1>3, <1>4, RiskTyped, RestTyped, MovedTo

\* A detector's score with which the request goes on.
LEMMA ScoredStep ==
  ASSUME IInv, NEW r \in Requests, NEW k \in Keys, SignalOn(r, k),
         UNCHANGED <<req, grace, ledgerVars>>
  PROVE  IInv'
  <1>1. Unledgered
    BY RestTyped
  <1>2. /\ banLeft' \in [Keys -> 0 .. BanSecs]
        /\ score' \in [Keys -> 0 .. RISK_BAN_THRESHOLD_NAT]
        /\ \A l \in Keys : Banned(l) => Banned(l)'
    BY DetectorKeeps DEF IInv
  <1>3. TypeOK'
    BY <1>1, <1>2 DEF IInv, TypeOK, Unledgered
  <1>4. \A q \in Requests : ~At(q, "idle") => req[q].barred \subseteq Keys
    BY InFlight DEF IInv, Running
  <1>5. BarredByBans'
    BY <1>2, <1>4 DEF IInv, BarredByBans, At
  <1> QED BY <1>3, <1>5 DEF IInv

\* A detector's score with which the request ends.
LEMMA DeniedStep ==
  ASSUME IInv, NEW r \in Requests, NEW k \in Keys,
         SignalOn(r, k) \/ UNCHANGED riskVars,
         Ends(r), UNCHANGED <<grace, ledgerVars>>
  PROVE  IInv'
  BY DetectorKeeps, RestTyped, EndedNow DEF IInv

LEMMA InspectStep ==
  ASSUME IInv, NEW r \in Requests, Inspect(r)
  PROVE  IInv'
  <1> USE DEF Stages, Ways
  <1>1. CASE Stamp(r)
    BY <1>1, StampStep
  <1>2. CASE Suspect(r)
    BY <1>2, Moving, ScoredStep DEF Suspect
  <1>3. CASE Exclude(r)
    BY <1>3, Moving, DeniedStep DEF Exclude
  <1>4. CASE SessionFlood(r)
    BY <1>4, Moving, DeniedStep DEF SessionFlood
  <1>5. CASE CheckIdentity(r)
    <2>1. At(r, "stamped") /\ UNCHANGED riskVars /\ UNCHANGED <<grace, ledgerVars>>
      BY <1>5 DEF CheckIdentity
    <2>2. CASE Banned(req[r].id)
      BY <1>5, <2>1, <2>2, Moving, DeniedStep DEF CheckIdentity
    <2>3. CASE ~Banned(req[r].id)
      <3> DEFINE m == [req[r] EXCEPT !.stage = "known"]
      <3>1. /\ req[r] \in Running /\ Sheltered(req[r]) /\ req[r].stage = "stamped"
            /\ req[r].barred \subseteq Keys /\ \A k \in req[r].barred : Banned(k)
        BY <2>1, Moving
      <3>2. m \in Running /\ m.barred = req[r].barred
        BY <3>1 DEF Running
      <3>3. Sheltered(m)
        BY <2>3, <3>1 DEF Running, Sheltered
      <3>4. req' = [req EXCEPT ![r] = m]
        BY <1>5, <2>3 DEF CheckIdentity, Moves, IInv, TypeOK
      <3> HIDE DEF m
      <3> QED BY <2>1, <3>1, <3>2, <3>3, <3>4, RiskTyped, RestTyped, MovedTo
    <2> QED BY <2>2, <2>3
  <1>6. CASE CheckFingerprint(r)
    <2>1. At(r, "known") /\ UNCHANGED riskVars /\ UNCHANGED <<grace, ledgerVars>>
      BY <1>6 DEF CheckFingerprint
    <2>2. CASE Ends(r)
      BY <2>1, <2>2, Moving, DeniedStep
    <2>3. ASSUME ~Banned(FpOf[req[r].id]),
                 NEW stage \in Stages, NEW way \in Ways, stage # "known",
                 req' = [req EXCEPT ![r] = [@ EXCEPT !.stage = stage, !.way = way]]
          PROVE  IInv'
      <3> DEFINE m == [req[r] EXCEPT !.stage = stage, !.way = way]
      <3>1. /\ req[r] \in Running /\ Sheltered(req[r]) /\ req[r].stage = "known"
            /\ req[r].barred \subseteq Keys /\ \A k \in req[r].barred : Banned(k)
        BY <2>1, Moving
      <3>2. /\ m \in Running /\ m.barred = req[r].barred /\ m.id = req[r].id
            /\ m.graced = req[r].graced /\ m.stage = stage /\ m.way = way
        BY <3>1 DEF Running
      <3>3. m.barred \subseteq Addresses
        <4>1. FpOf[m.id] \notin m.barred /\ m.id \notin m.barred
          BY <2>3, <3>1, <3>2 DEF Sheltered
        <4>2. AddressOf[m.id] \in Addresses
          BY <3>2, ClientKeys DEF Running
        <4> QED BY <4>1, <4>2, <3>1, <3>2 DEF Sheltered
      <3>4. Sheltered(m)
        BY <2>3, <3>1, <3>2, <3>3 DEF Sheltered
      <3>5. req' = [req EXCEPT ![r] = m]
        BY <2>3
      <3> HIDE DEF m
      <3> QED BY <2>1, <3>1, <3>2, <3>4, <3>5, RiskTyped, RestTyped, MovedTo
    <2>4. CASE ~Banned(FpOf[req[r].id]) /\ Moves(r, "checked")
      <3>1. req[r] \in Running
        BY <2>1, Moving
      <3>2. req' = [req EXCEPT ![r] = [@ EXCEPT !.stage = "checked", !.way = req[r].way]]
        BY <2>4, <3>1 DEF Moves, Running, IInv, TypeOK
      <3>3. req[r].way \in Ways
        BY <3>1 DEF Running
      <3> QED BY <2>3, <2>4, <3>2, <3>3
    <2>5. CASE ~Banned(FpOf[req[r].id]) /\ LetThrough(r, "undetected")
      <3>1. req' = [req EXCEPT ![r] = [@ EXCEPT !.stage = "forwarded", !.way = "undetected"]]
        BY <2>5 DEF LetThrough, IInv, TypeOK
      <3> QED BY <2>3, <2>5, <3>1
    <2> QED BY <1>6, <2>2, <2>4, <2>5 DEF CheckFingerprint
  <1>7. CASE Deny(r)
    BY <1>7, Moving, DeniedStep DEF Deny
  <1>8. CASE SoftSignal(r)
    BY <1>8, Moving, ScoredStep DEF SoftSignal
  <1>9. CASE Forward(r)
    <2> DEFINE m == [req[r] EXCEPT !.stage = "forwarded", !.way = "gates"]
    <2>1. At(r, "checked") /\ UNCHANGED riskVars /\ UNCHANGED <<grace, ledgerVars>>
      BY <1>9 DEF Forward
    <2>2. /\ req[r] \in Running /\ Sheltered(req[r]) /\ req[r].stage = "checked"
          /\ req[r].barred \subseteq Keys /\ \A k \in req[r].barred : Banned(k)
      BY <2>1, Moving
    <2>3. m \in Running /\ m.barred = req[r].barred
      BY <2>2 DEF Running
    <2>4. Sheltered(m)
      BY <2>2 DEF Running, Sheltered
    <2>5. req' = [req EXCEPT ![r] = m]
      BY <1>9 DEF Forward, LetThrough, IInv, TypeOK
    <2> HIDE DEF m
    <2> QED BY <2>1, <2>2, <2>3, <2>4, <2>5, RiskTyped, RestTyped, MovedTo
  <1> QED BY <1>1, <1>2, <1>3, <1>4, <1>5, <1>6, <1>7, <1>8, <1>9 DEF Inspect

LEMMA RespondStep ==
  ASSUME IInv, NEW r \in Requests, Respond(r)
  PROVE  IInv'
  <1> USE DEF Stages
  <1>1. CASE HeaderGate(r)
    BY <1>1, Moving, DeniedStep DEF HeaderGate
  <1>2. CASE SlowBody(r)
    BY <1>2, Moving, DeniedStep DEF SlowBody
  <1>3. CASE BodyScan(r)
    BY <1>3, Moving, DeniedStep DEF BodyScan
  <1>4. CASE EscalatedScan(r)
    BY <1>4, <1>3 DEF EscalatedScan
  <1>5. CASE Mint(r)
    <2> DEFINE f == FpOf[req[r].id]
               ledger == WithPage(minted[f])
               stage == Noted(f, ledger)
               m == [req[r] EXCEPT !.stage = stage]
    <2>1. /\ At(r, "forwarded") /\ req[r].way = "gates"
          /\ req' = [req EXCEPT ![r] = m]
          /\ minted' = [minted EXCEPT ![f] = ledger]
          /\ UNCHANGED <<riskVars, grace, touched>>
      BY <1>5 DEF Mint, Moves, IInv, TypeOK
    <2>2. /\ req[r] \in Running /\ Sheltered(req[r]) /\ req[r].id \in Ids
          /\ req[r].barred \subseteq Keys /\ \A k \in req[r].barred : Banned(k)
      BY <2>1, Moving
    <2>3. f \in Fps /\ ledger \in Ledger
      BY <2>2, ClientKeys, LedgerGrows DEF IInv, TypeOK
    <2>4. stage \in {"paying", "answered"}
      BY NotedStage
    <2> HIDE DEF f, ledger, stage
    <2>5. Unledgered
      BY <2>1, <2>3 DEF IInv, TypeOK, Unledgered
    <2>6. m \in Running /\ m.barred = req[r].barred
      BY <2>2, <2>4 DEF Running
    <2>7. Sheltered(m)
      BY <2>1, <2>2, <2>4 DEF Running, Sheltered
    <2> HIDE DEF m
    <2> QED BY <2>1, <2>2, <2>5, <2>6, <2>7, RiskTyped, MovedTo
  <1>6. CASE Pay(r)
    <2> DEFINE m == [req[r] EXCEPT !.stage = "answered"]
    <2>1. /\ At(r, "paying") /\ UNCHANGED <<grace, ledgerVars>>
          /\ Signal(FpOf[req[r].id], ChurnWeight, AddressOf[req[r].id])
      BY <1>6 DEF Pay
    <2>2. /\ req[r] \in Running /\ Sheltered(req[r]) /\ req[r].stage = "paying"
          /\ req[r].id \in Ids
          /\ req[r].barred \subseteq Keys /\ \A k \in req[r].barred : Banned(k)
      BY <2>1, Moving
    <2>3. /\ banLeft' \in [Keys -> 0 .. BanSecs]
          /\ score' \in [Keys -> 0 .. RISK_BAN_THRESHOLD_NAT]
          /\ \A l \in Keys : Banned(l) => Banned(l)'
      BY <2>1, <2>2, ClientKeys, SignalKeeps, WeightsAssumption DEF IInv
    <2>4. m \in Running /\ m.barred = req[r].barred
      BY <2>2 DEF Running
    <2>5. Sheltered(m)
      BY <2>2 DEF Running, Sheltered
    <2>6. req' = [req EXCEPT ![r] = m]
      BY <1>6 DEF Pay, Moves, IInv, TypeOK
    <2> HIDE DEF m
    <2> QED BY <2>1, <2>2, <2>3, <2>4, <2>5, <2>6, RestTyped, MovedTo
  <1>7. CASE NotFound(r)
    <2>1. At(r, "answered") \/ At(r, "forwarded")
      BY <1>7 DEF NotFound, Answered
    <2> QED BY <1>7, <2>1, Moving, DeniedStep DEF NotFound
  <1>8. CASE Finish(r)
    <2>1. At(r, "answered") \/ At(r, "forwarded")
      BY <1>8 DEF Finish, Answered
    <2> QED BY <1>8, <2>1, Moving, DeniedStep DEF Finish
  <1>9. CASE PageCheck(r)
    BY <1>9, Moving, ScoredStep DEF PageCheck
  <1> QED BY <1>1, <1>2, <1>3, <1>4, <1>5, <1>6, <1>7, <1>8, <1>9 DEF Respond

\* The requests stay where they are, and no ban ends.
LEMMA BansOnly ==
  ASSUME IInv, UNCHANGED req,
         banLeft' \in [Keys -> 0 .. BanSecs],
         score' \in [Keys -> 0 .. RISK_BAN_THRESHOLD_NAT],
         \A k \in Keys : Banned(k) => Banned(k)',
         Unledgered
  PROVE  IInv'
  <1>1. TypeOK'
    BY DEF IInv, TypeOK, Unledgered
  <1>2. \A q \in Requests : ~At(q, "idle") => req[q].barred \subseteq Keys
    BY InFlight DEF IInv, Running
  <1>3. BarredByBans'
    BY <1>2 DEF IInv, BarredByBans, At
  <1> QED BY <1>1, <1>3 DEF IInv

LEMMA BanStep ==
  ASSUME IInv, NEW k \in Keys, banLeft' = [banLeft EXCEPT ![k] = BanSecs],
         UNCHANGED <<req, score>>, Unledgered
  PROVE  IInv'
  <1>1. BanSecs \in 0 .. BanSecs /\ BanSecs > 0
    BY TimesAssumption
  <1>2. banLeft' \in [Keys -> 0 .. BanSecs]
    BY <1>1 DEF IInv, TypeOK
  <1>3. \A l \in Keys : Banned(l) => Banned(l)'
    BY <1>1 DEF IInv, TypeOK, Banned
  <1>4. score' \in [Keys -> 0 .. RISK_BAN_THRESHOLD_NAT]
    BY DEF IInv, TypeOK
  <1> QED BY <1>2, <1>3, <1>4, BansOnly

LEMMA OperateStep ==
  ASSUME IInv, Operate
  PROVE  IInv'
  <1> USE TimesAssumption
  <1>1. ASSUME NEW i \in Ids, BotRuleBan(i) PROVE IInv'
    BY <1>1, ClientKeys, RestTyped, BanStep DEF BotRuleBan
  <1>2. ASSUME NEW k \in Ids \cup Fps, Unban(k) PROVE IInv'
    <2>1. k \in Keys
      BY DEF Keys
    <2>2. banLeft' \in [Keys -> 0 .. BanSecs]
      BY <1>2, <2>1 DEF Unban, IInv, TypeOK
    <2>3. score' \in [Keys -> 0 .. RISK_BAN_THRESHOLD_NAT]
      BY <1>2, <2>1, WeightsAssumption DEF Unban, IInv, TypeOK
    <2>4. Unledgered
      BY <1>2 DEF Unban, IInv, TypeOK, Unledgered, AllowedFor
    <2>5. req' = Reviewed(banLeft', grace')
      BY <1>2 DEF Unban
    <2>6. req' \in [Requests -> {Idle} \cup Running] /\ BarredByBans'
      BY <2>5, ReviewKeeps
    <2> QED BY <2>2, <2>3, <2>4, <2>6 DEF IInv, TypeOK, Unledgered
  <1>3. ASSUME NEW k \in Ids \cup Fps, ManualBan(k) PROVE IInv'
    <2>1. k \in Keys
      BY DEF Keys
    <2>2. Unledgered
      BY <1>3 DEF ManualBan, IInv, TypeOK, Unledgered
    <2> QED BY <1>3, <2>1, <2>2, BanStep DEF ManualBan
  <1> QED BY <1>1, <1>2, <1>3 DEF Operate

LEMMA TickStep ==
  ASSUME IInv, Tick
  PROVE  IInv'
  <1>1. \A m, n \in Nat : n \in 0 .. m => Less(n) \in 0 .. m
    BY DEF Less
  <1>2. banLeft' \in [Keys -> 0 .. BanSecs]
    BY <1>1, TimesAssumption DEF Tick, IInv, TypeOK
  <1>3. score' \in [Keys -> 0 .. RISK_BAN_THRESHOLD_NAT]
    BY DEF Tick, IInv, TypeOK
  <1>4. \A ledger \in Ledger : Aged(ledger) \in Ledger
    <2>1. MaxPages \in Nat /\ MaxSolved \in Nat
      BY KeysAssumption, FS_CardinalityType, TimesAssumption DEF MaxPages, MaxSolved
    <2> HIDE DEF MaxPages, MaxSolved
    <2> QED BY <2>1 DEF Aged, Ledger, NoCookies
  <1>5. Unledgered
    <2>1. grace' \in [Ids -> 0 .. ALLOW_BYPASS_SECS]
      BY <1>1, TimesAssumption DEF Tick, IInv, TypeOK
    <2>2. minted' \in [Fps -> Ledger]
      BY <1>4 DEF Tick, IInv, TypeOK
    <2>3. touched' \subseteq Fps
      BY DEF Tick, IInv, TypeOK
    <2> QED BY <2>1, <2>2, <2>3 DEF Unledgered
  <1>6. req' = Reviewed(banLeft', grace')
    BY DEF Tick
  <1>7. req' \in [Requests -> {Idle} \cup Running] /\ BarredByBans'
    BY <1>6, ReviewKeeps
  <1> QED BY <1>2, <1>3, <1>5, <1>7 DEF IInv, TypeOK, Unledgered

THEOREM NextPreserves == IInv /\ [Next]_vars => IInv'
  <1> SUFFICES ASSUME IInv, [Next]_vars PROVE IInv'
    OBVIOUS
  <1>1. ASSUME NEW r \in Requests, NEW i \in Ids, Arrive(r, i) PROVE IInv'
    BY <1>1, ArriveStep
  <1>2. ASSUME NEW r \in Requests, Inspect(r) PROVE IInv'
    BY <1>2, InspectStep
  <1>3. ASSUME NEW r \in Requests, Respond(r) PROVE IInv'
    BY <1>3, RespondStep
  <1>4. CASE Operate
    BY <1>4, OperateStep
  <1>5. CASE Tick
    BY <1>5, TickStep
  <1>6. CASE UNCHANGED vars
    BY <1>6 DEF vars, riskVars, ledgerVars, IInv, TypeOK, BarredByBans, At, Banned
  <1> QED BY <1>1, <1>2, <1>3, <1>4, <1>5, <1>6 DEF Next

THEOREM Invariance == Spec => []IInv
  BY InitEstablishes, NextPreserves, PTL DEF Spec

\* The variables keep their types.
THEOREM TypeCorrect == Spec => []TypeOK
  <1>1. IInv => TypeOK
    BY DEF IInv
  <1> QED BY <1>1, Invariance, PTL

\* A request that arrived under a ban of its identity or its fingerprint is
\* never let through to the site while that ban runs, in any number of requests
\* and clients and at any setting of the thresholds.
THEOREM BansHold == Spec => []BannedMeetsDecoy
  <1>1. IInv => BannedMeetsDecoy
    <2> SUFFICES ASSUME IInv, NEW r \in Requests, At(r, "forwarded"),
                        req[r].way \in {"gates", "undetected"}
                 PROVE  req[r].barred \subseteq Addresses
      BY DEF BannedMeetsDecoy
    <2>1. Sheltered(req[r])
      BY Moving DEF Stages
    <2> QED BY <2>1 DEF Sheltered, At
  <1> QED BY <1>1, Invariance, PTL

-----------------------------------------------------------------------------
(***************************************************************************)
(* The Allow window                                                        *)
(***************************************************************************)

\* One request's step touches no other: only r can have come to its end.
LEMMA OneEnds ==
  ASSUME IInv, NEW r \in Requests, NEW m, req' = [req EXCEPT ![r] = m],
         NEW q \in Requests, ~At(q, "idle"), req'[q] = Idle
  PROVE  q = r
  BY DEF IInv, TypeOK, At, Idle

\* What a request stamped within an operator's Allow window does, up to the end,
\* never moves the score of its identity.
THEOREM AllowedAreNotScored == Spec => GraceUndisturbed
  <1> DEFINE Undisturbed ==
        \A r \in Requests :
          ~At(r, "idle") /\ req[r].graced /\ req'[r] = Idle
          => score'[req[r].id] = score[req[r].id]
  <1>1. IInv /\ [Next]_vars => Undisturbed
    <2> SUFFICES ASSUME IInv, [Next]_vars, NEW q \in Requests,
                        ~At(q, "idle"), req[q].graced, req'[q] = Idle
                 PROVE  score'[req[q].id] = score[req[q].id]
      OBVIOUS
    <2>1. /\ req[q] \in Running /\ req[q].stage = "forwarded"
          /\ req[q].way = "exempt"
      BY InFlight DEF IInv, BarredByBans, Sheltered
    <2>2. /\ req[q].id \in Ids /\ KeyOf(q) \in Addresses
          /\ KeyOf(q) # req[q].id /\ KeyOf(q) \in Keys /\ req[q].id \in Keys
      <3>1. req[q].id \in Ids
        BY <2>1 DEF Running
      <3> QED BY <2>1, <3>1, ClientKeys, KeysAssumption DEF KeyOf
    <2>3. ASSUME SignalOn(q, KeyOf(q)) \/ UNCHANGED riskVars
          PROVE  score'[req[q].id] = score[req[q].id]
      BY <2>2, <2>3, DetectorKeeps DEF IInv
    <2>4. ASSUME NEW r \in Requests, NEW i \in Ids, Arrive(r, i)
          PROVE  FALSE
      <3>1. At(r, "idle") /\ \E m : req' = [req EXCEPT ![r] = m]
        BY <2>4 DEF Arrive, ForwardExempt, PassChallengeGate, Enter,
                    SolveChallenge, Starts
      <3> QED BY <3>1, OneEnds
    <2>5. ASSUME NEW r \in Requests, Inspect(r)
          PROVE  FALSE
      <3>1. ~At(r, "forwarded")
        BY <2>5 DEF Inspect, Stamp, Suspect, Exclude, SessionFlood,
                    CheckIdentity, CheckFingerprint, Deny, SoftSignal, Forward, At
      <3>2. (\E m : req' = [req EXCEPT ![r] = m]) \/ req' = req
        <4>1. CASE Stamp(r) BY <4>1 DEF Stamp
        <4>2. CASE Suspect(r) BY <4>2 DEF Suspect
        <4>3. CASE Exclude(r) BY <4>3 DEF Exclude, Ends
        <4>4. CASE SessionFlood(r) BY <4>4 DEF SessionFlood, Ends
        <4>5. CASE CheckIdentity(r) BY <4>5 DEF CheckIdentity, Ends, Moves
        <4>6. CASE CheckFingerprint(r)
          BY <4>6 DEF CheckFingerprint, Ends, Moves, LetThrough, IInv, TypeOK
        <4>7. CASE Deny(r) BY <4>7 DEF Deny, Ends
        <4>8. CASE SoftSignal(r) BY <4>8 DEF SoftSignal
        <4>9. CASE Forward(r) BY <4>9 DEF Forward, LetThrough, IInv, TypeOK
        <4> QED BY <2>5, <4>1, <4>2, <4>3, <4>4, <4>5, <4>6, <4>7, <4>8, <4>9
                DEF Inspect
      <3> QED BY <2>1, <3>1, <3>2, OneEnds DEF At, Idle
    <2>6. ASSUME NEW r \in Requests, Respond(r)
          PROVE  score'[req[q].id] = score[req[q].id]
      <3>1. req' # req
        BY <2>1 DEF Idle
      <3>2. r = q
        <4>1. \E m : req' = [req EXCEPT ![r] = m]
          BY <2>6, <3>1 DEF Respond, HeaderGate, SlowBody, BodyScan, EscalatedScan,
                            PageCheck, Mint, Pay, NotFound, Finish, Ends, Moves
        <4> QED BY <4>1, OneEnds
      <3>3. ~PageCheck(q) /\ ~Mint(q) /\ ~Pay(q) /\ ~NotFound(q)
        BY <2>1 DEF PageCheck, Mint, Pay, NotFound, At
      <3> QED BY <2>1, <2>3, <2>6, <3>2, <3>3
              DEF Respond, HeaderGate, SlowBody, BodyScan, EscalatedScan, Finish
    <2>7. ASSUME Operate \/ Tick
          PROVE  FALSE
      <3>1. req' = req \/ req' = Reviewed(banLeft', grace')
        BY <2>7 DEF Operate, BotRuleBan, Unban, ManualBan, Tick
      <3>2. req'[q].stage # "idle"
        BY <2>1, <3>1 DEF Reviewed, At, Running
      <3> QED BY <3>2 DEF Idle
    <2>8. CASE UNCHANGED vars
      BY <2>8 DEF vars, riskVars
    <2> QED BY <2>4, <2>5, <2>6, <2>7, <2>8 DEF Next
  <1>2. GraceUndisturbed <=> [][Undisturbed]_vars
    BY DEF GraceUndisturbed
  <1> HIDE DEF Undisturbed
  <1>3. Spec => [][Undisturbed]_vars
    BY <1>1, Invariance, PTL DEF Spec
  <1> QED BY <1>2, <1>3

-----------------------------------------------------------------------------
(***************************************************************************)
(* Sums over the window                                                    *)
(***************************************************************************)

\* Of some natural numbers one is the least.  An induction below looks for the
\* least number at which its claim fails.
LEMMA LeastNatural ==
  ASSUME NEW T \in SUBSET Nat, T # {}
  PROVE  \E x \in T : \A y \in T : x <= y
  <1> DEFINE R == OpToRel(<, Nat)
  <1>1. IsWellFoundedOn(R, Nat)
    BY NatLessThanWellFounded
  <1>2. \A x, y \in Nat : <<y, x>> \in R <=> y < x
    BY DEF OpToRel
  <1> HIDE DEF R
  <1>3. PICK x \in T : \A y \in T : ~(<<y, x>> \in R)
    BY <1>1, WFMin
  <1>4. x \in Nat /\ \A y \in T : y \in Nat /\ ~(y < x)
    <2> SUFFICES ASSUME NEW y \in T PROVE x \in Nat /\ y \in Nat /\ ~(y < x)
      OBVIOUS
    <2>1. x \in Nat /\ y \in Nat
      OBVIOUS
    <2>2. ~(<<y, x>> \in R)
      BY <1>3
    <2> QED BY <1>2, <2>1, <2>2
  <1> QED BY <1>4

\* Induction over the places of the window, and the one before them, with the
\* set of those at which a claim holds.
LEMMA WindowInduction ==
  ASSUME NEW H, 0 \in H,
         \A t \in Window : t - 1 \in H => t \in H
  PROVE  \A t \in 0 .. SESSION_CHURN_WINDOW_S : t \in H
  <1> DEFINE Bad == {t \in 0 .. SESSION_CHURN_WINDOW_S : t \notin H}
  <1>1. SESSION_CHURN_WINDOW_S \in Nat
    BY TimesAssumption
  <1>2. Bad = {}
    <2> SUFFICES ASSUME Bad # {} PROVE FALSE
      OBVIOUS
    <2>1. Bad \in SUBSET Nat
      BY <1>1
    <2>2. PICK t \in Bad : \A y \in Bad : t <= y
      BY <2>1, LeastNatural
    <2>3. t \in 0 .. SESSION_CHURN_WINDOW_S /\ t \notin H /\ t # 0
      BY <2>2
    <2>4. t \in Window /\ t - 1 \in 0 .. SESSION_CHURN_WINDOW_S
      BY <1>1, <2>3 DEF Window
    <2>5. t - 1 \notin Bad
      BY <2>1, <2>2, <2>4
    <2> QED BY <2>3, <2>4, <2>5
  <1> QED BY <1>2

\* The recursive sum inside SumOf is defined at every place of the window.
LEMMA SumSteps ==
  ASSUME NEW n \in [Window -> Nat]
  PROVE  \E s \in [0 .. SESSION_CHURN_WINDOW_S -> Nat] :
           /\ s[0] = 0
           /\ \A t \in Window : s[t] = s[t - 1] + n[t]
           /\ SumOf(n) = s[SESSION_CHURN_WINDOW_S]
  <1> DEFINE W == SESSION_CHURN_WINDOW_S
             Up(s, t) == IF t = 0 THEN 0 ELSE s[t - 1] + n[t]
             Sums(w) == {s \in [0 .. w -> Nat] : \A t \in 0 .. w : s[t] = Up(s, t)}
             H == {w \in 0 .. W : Sums(w) # {}}
  <1>1. W \in Nat \ {0} /\ Window = 1 .. W
    BY TimesAssumption DEF Window
  <1>2. 0 \in H
    <2>1. [t \in 0 .. 0 |-> 0] \in Sums(0)
      OBVIOUS
    <2> QED BY <1>1, <2>1
  <1>3. ASSUME NEW w \in Window, w - 1 \in H PROVE w \in H
    <2>1. PICK s : s \in Sums(w - 1)
      BY <1>3
    <2> DEFINE e == [t \in 0 .. w |-> IF t = w THEN s[w - 1] + n[w] ELSE s[t]]
    <2>2. e \in [0 .. w -> Nat]
      BY <1>1, <2>1
    <2>3. ASSUME NEW t \in 0 .. w PROVE e[t] = Up(e, t)
      <3>1. CASE t = w
        <4>1. w - 1 \in 0 .. w /\ w - 1 # w /\ w # 0
          BY <1>1
        <4> QED BY <3>1, <4>1
      <3>2. CASE t # w /\ t = 0
        <4>1. e[t] = s[t] /\ t \in 0 .. w - 1
          BY <1>1, <3>2
        <4> QED BY <2>1, <3>2, <4>1
      <3>3. CASE t # w /\ t # 0
        <4>1. t \in 0 .. w - 1 /\ t - 1 \in 0 .. w /\ t - 1 # w
          BY <1>1, <3>3
        <4>2. e[t] = s[t] /\ e[t - 1] = s[t - 1]
          BY <3>3, <4>1
        <4>3. s[t] = s[t - 1] + n[t]
          BY <2>1, <3>3, <4>1
        <4> QED BY <3>3, <4>2, <4>3
      <3> QED BY <3>1, <3>2, <3>3
    <2> HIDE DEF e
    <2>4. e \in Sums(w)
      BY <2>2, <2>3
    <2> HIDE DEF Sums
    <2> QED BY <1>1, <2>4
  <1> HIDE DEF H
  <1>4. W \in H
    <2>1. \A t \in Window : t - 1 \in H => t \in H
      BY <1>3
    <2>2. \A t \in 0 .. W : t \in H
      BY <1>2, <2>1, WindowInduction
    <2> QED BY <1>1, <2>2
  <1>5. PICK s : s \in Sums(W)
    BY <1>4 DEF H
  <1> DEFINE IsSum(sum) == sum = [t \in 0 .. W |-> IF t = 0 THEN 0 ELSE sum[t - 1] + n[t]]
             chosen == CHOOSE sum : IsSum(sum)
  <1>6. IsSum(chosen)
    <2>1. IsSum(s)
      BY <1>5
    <2> HIDE DEF IsSum
    <2> QED BY <2>1
  <1>7. SumOf(n) = chosen[W]
    BY DEF SumOf
  <1>8. ASSUME NEW t \in 0 .. W PROVE chosen[t] = Up(chosen, t)
    <2> HIDE DEF chosen
    <2> QED BY <1>6
  <1> HIDE DEF chosen
  <1>9. chosen = [t \in 0 .. W |-> chosen[t]]
    BY <1>6
  <1> HIDE DEF IsSum
  <1>10. chosen \in [0 .. W -> Nat]
    <2> DEFINE Typed == {t \in 0 .. W : chosen[t] \in Nat}
    <2>1. 0 \in Typed
      BY <1>1, <1>8
    <2>2. \A t \in Window : t - 1 \in Typed => t \in Typed
      BY <1>1, <1>8
    <2> HIDE DEF Typed
    <2>3. \A t \in 0 .. W : t \in Typed
      BY <2>1, <2>2, WindowInduction
    <2> QED BY <1>9, <2>3 DEF Typed
  <1>11. chosen[0] = 0 /\ \A t \in Window : chosen[t] = chosen[t - 1] + n[t]
    BY <1>1, <1>8
  <1> QED BY <1>7, <1>10, <1>11

LEMMA SumNat ==
  ASSUME NEW n \in [Window -> Nat]
  PROVE  SumOf(n) \in Nat
  BY SumSteps, TimesAssumption

\* One more at the end, at most one more in sum.
LEMMA SumOneMore ==
  ASSUME NEW n \in [Window -> Nat], NEW m \in [Window -> Nat],
         \A t \in Window \ {SESSION_CHURN_WINDOW_S} : m[t] = n[t],
         m[SESSION_CHURN_WINDOW_S] <= n[SESSION_CHURN_WINDOW_S] + 1
  PROVE  SumOf(m) <= SumOf(n) + 1
  <1> DEFINE W == SESSION_CHURN_WINDOW_S
  <1>1. W \in Nat \ {0} /\ Window = 1 .. W
    BY TimesAssumption DEF Window
  <1>2. PICK sn \in [0 .. W -> Nat] :
          sn[0] = 0 /\ (\A t \in Window : sn[t] = sn[t - 1] + n[t]) /\ SumOf(n) = sn[W]
    BY SumSteps
  <1>3. PICK sm \in [0 .. W -> Nat] :
          sm[0] = 0 /\ (\A t \in Window : sm[t] = sm[t - 1] + m[t]) /\ SumOf(m) = sm[W]
    BY SumSteps
  <1> DEFINE H == {t \in 0 .. W : t = W \/ sm[t] = sn[t]}
  <1>4. 0 \in H
    BY <1>1, <1>2, <1>3
  <1>5. ASSUME NEW t \in Window, t - 1 \in H PROVE t \in H
    <2>1. t \in 0 .. W /\ t - 1 \in 0 .. W /\ t - 1 # W
      BY <1>1
    <2>2. sm[t] = sm[t - 1] + m[t] /\ sn[t] = sn[t - 1] + n[t]
      BY <1>2, <1>3
    <2> QED BY <1>5, <2>1, <2>2
  <1> HIDE DEF H
  <1>6. W - 1 \in H /\ W - 1 # W /\ W - 1 \in 0 .. W /\ W \in Window
    <2>1. \A t \in Window : t - 1 \in H => t \in H
      BY <1>5
    <2>2. \A t \in 0 .. W : t \in H
      BY <1>4, <2>1, WindowInduction
    <2> QED BY <1>1, <2>2
  <1>7. sm[W - 1] = sn[W - 1] /\ sn[W - 1] \in Nat
    BY <1>6 DEF H
  <1>8. sm[W] = sm[W - 1] + m[W] /\ sn[W] = sn[W - 1] + n[W]
        /\ m[W] \in Nat /\ n[W] \in Nat
    BY <1>2, <1>3, <1>6
  <1> QED BY <1>2, <1>3, <1>7, <1>8

\* A place earlier each, what was at the first place is gone.
LEMMA SumShifts ==
  ASSUME NEW n \in [Window -> Nat], NEW m \in [Window -> Nat],
         \A t \in Window : m[t] = IF t + 1 \in Window THEN n[t + 1] ELSE 0
  PROVE  SumOf(m) <= SumOf(n)
  <1> DEFINE W == SESSION_CHURN_WINDOW_S
  <1>1. W \in Nat \ {0} /\ Window = 1 .. W
    BY TimesAssumption DEF Window
  <1>2. PICK sn \in [0 .. W -> Nat] :
          sn[0] = 0 /\ (\A t \in Window : sn[t] = sn[t - 1] + n[t]) /\ SumOf(n) = sn[W]
    BY SumSteps
  <1>3. PICK sm \in [0 .. W -> Nat] :
          sm[0] = 0 /\ (\A t \in Window : sm[t] = sm[t - 1] + m[t]) /\ SumOf(m) = sm[W]
    BY SumSteps
  <1> DEFINE H == {t \in 0 .. W : t = W \/ sm[t] <= sn[t + 1]}
  <1>4. 0 \in H
    <2>1. 1 \in 0 .. W /\ sn[1] \in Nat /\ 0 \in 0 .. W
      BY <1>1
    <2> QED BY <1>3, <2>1
  <1>5. ASSUME NEW t \in Window, t - 1 \in H PROVE t \in H
    <2>1. t \in 0 .. W /\ t - 1 \in 0 .. W /\ t - 1 # W
      BY <1>1
    <2>2. CASE t # W
      <3>1. t + 1 \in Window /\ t + 1 \in 0 .. W /\ t + 1 - 1 = t
        BY <1>1, <2>2
      <3>2. /\ sm[t] = sm[t - 1] + n[t + 1] /\ sn[t + 1] = sn[t] + n[t + 1]
            /\ sm[t - 1] \in Nat /\ sn[t] \in Nat /\ n[t + 1] \in Nat
        BY <1>2, <1>3, <2>1, <3>1
      <3>3. sm[t - 1] <= sn[t]
        BY <1>1, <1>5, <2>1
      <3> QED BY <2>1, <3>2, <3>3
    <2> QED BY <2>1, <2>2
  <1> HIDE DEF H
  <1>6. W - 1 \in H /\ W - 1 # W /\ W - 1 \in 0 .. W /\ W \in Window /\ W + 1 \notin Window
    <2>1. \A t \in Window : t - 1 \in H => t \in H
      BY <1>5
    <2>2. \A t \in 0 .. W : t \in H
      BY <1>4, <2>1, WindowInduction
    <2> QED BY <1>1, <2>2
  <1>7. sm[W - 1] <= sn[W] /\ sm[W - 1] \in Nat
    BY <1>1, <1>6 DEF H
  <1>8. sm[W] = sm[W - 1]
    BY <1>3, <1>6, <1>7
  <1> QED BY <1>2, <1>3, <1>7, <1>8

LEMMA SumNothing ==
  ASSUME NEW n \in [Window -> Nat], \A t \in Window : n[t] = 0
  PROVE  SumOf(n) = 0
  <1> DEFINE W == SESSION_CHURN_WINDOW_S
  <1>1. W \in Nat \ {0} /\ Window = 1 .. W
    BY TimesAssumption DEF Window
  <1>2. PICK s \in [0 .. W -> Nat] :
          s[0] = 0 /\ (\A t \in Window : s[t] = s[t - 1] + n[t]) /\ SumOf(n) = s[W]
    BY SumSteps
  <1> DEFINE H == {t \in 0 .. W : s[t] = 0}
  <1>3. 0 \in H
    BY <1>1, <1>2
  <1>4. ASSUME NEW t \in Window, t - 1 \in H PROVE t \in H
    BY <1>1, <1>2, <1>4
  <1> HIDE DEF H
  <1>5. W \in H
    <2>1. \A t \in Window : t - 1 \in H => t \in H
      BY <1>4
    <2>2. \A t \in 0 .. W : t \in H
      BY <1>3, <2>1, WindowInduction
    <2> QED BY <1>1, <2>2
  <1> QED BY <1>2, <1>5 DEF H

-----------------------------------------------------------------------------
(***************************************************************************)
(* What a ledger holds                                                     *)
(***************************************************************************)

\* The pages that stay in the window for longer than b.
Recent(ledger, b) ==
  SumOf([t \in Window |-> IF t > b THEN ledger[t].page ELSE 0])

LEMMA LedgerTyped ==
  ASSUME NEW ledger \in Ledger
  PROVE  /\ \A t \in Window : ledger[t].page \in Nat
         /\ [t \in Window |-> ledger[t].page] \in [Window -> Nat]
         /\ \A b : [t \in Window |-> IF t > b THEN ledger[t].page ELSE 0] \in [Window -> Nat]
         /\ Pages(ledger) \in Nat
         /\ \A b : Recent(ledger, b) \in Nat
  <1>1. \A t \in Window : ledger[t].page \in Nat
    BY DEF Ledger
  <1>2. [t \in Window |-> ledger[t].page] \in [Window -> Nat]
    BY <1>1
  <1>3. \A b : [t \in Window |-> IF t > b THEN ledger[t].page ELSE 0] \in [Window -> Nat]
    BY <1>1
  <1>4. Pages(ledger) \in Nat
    BY <1>2, SumNat DEF Pages
  <1>5. \A b : Recent(ledger, b) \in Nat
    BY <1>3, SumNat DEF Recent
  <1> QED BY <1>1, <1>2, <1>3, <1>4, <1>5

\* The pages alone decide.
LEMMA SamePages ==
  ASSUME NEW l, NEW k, NEW b, \A t \in Window : l[t].page = k[t].page
  PROVE  Pages(l) = Pages(k) /\ Recent(l, b) = Recent(k, b)
  <1>1. [t \in Window |-> l[t].page] = [t \in Window |-> k[t].page]
    OBVIOUS
  <1>2. [t \in Window |-> IF t > b THEN l[t].page ELSE 0]
        = [t \in Window |-> IF t > b THEN k[t].page ELSE 0]
    OBVIOUS
  <1> QED BY <1>1, <1>2 DEF Pages, Recent

LEMMA SolvedAddsNoPage ==
  ASSUME NEW ledger \in Ledger, NEW t \in Window
  PROVE  WithSolved(ledger)[t].page = ledger[t].page
  BY DEF WithSolved, Ledger

\* A page more, at the far end of the window.
LEMMA PageAddsOne ==
  ASSUME NEW ledger \in Ledger, NEW b \in Nat
  PROVE  /\ Pages(WithPage(ledger)) <= Pages(ledger) + 1
         /\ Recent(WithPage(ledger), b) <= Recent(ledger, b) + 1
  <1> DEFINE W == SESSION_CHURN_WINDOW_S
             l == WithPage(ledger)
  <1>1. W \in Window
    BY TimesAssumption DEF Window
  <1>2. l \in Ledger
    BY LedgerGrows
  <1>3. \A t \in Window \ {W} : l[t].page = ledger[t].page
    BY DEF WithPage, Ledger
  <1>4. l[W].page <= ledger[W].page + 1
    <2>1. l[W].page = UpTo(ledger[W].page, MaxPages)
      BY <1>1 DEF WithPage, Ledger
    <2>2. ledger[W].page \in 0 .. MaxPages /\ MaxPages \in Nat
      BY <1>1, KeysAssumption, TimesAssumption, FS_CardinalityType DEF Ledger, MaxPages
    <2> HIDE DEF l, MaxPages
    <2> QED BY <2>1, <2>2 DEF UpTo
  <1> HIDE DEF l
  <1> DEFINE n == [t \in Window |-> ledger[t].page]
             m == [t \in Window |-> l[t].page]
             nb == [t \in Window |-> IF t > b THEN ledger[t].page ELSE 0]
             mb == [t \in Window |-> IF t > b THEN l[t].page ELSE 0]
  <1>5. /\ n \in [Window -> Nat] /\ m \in [Window -> Nat]
        /\ nb \in [Window -> Nat] /\ mb \in [Window -> Nat]
    BY <1>2, LedgerTyped
  <1>6. \A t \in Window \ {W} : m[t] = n[t] /\ mb[t] = nb[t]
    BY <1>3
  <1>7. m[W] <= n[W] + 1 /\ mb[W] <= nb[W] + 1
    <2>1. l[W].page \in Nat /\ ledger[W].page \in Nat
      BY <1>1, <1>2, LedgerTyped
    <2> QED BY <1>1, <1>4, <2>1
  <1>8. SumOf(m) = Pages(l) /\ SumOf(n) = Pages(ledger)
        /\ SumOf(mb) = Recent(l, b) /\ SumOf(nb) = Recent(ledger, b)
    BY DEF Pages, Recent
  <1> HIDE DEF n, m, nb, mb
  <1>9. SumOf(m) <= SumOf(n) + 1 /\ SumOf(mb) <= SumOf(nb) + 1
    BY <1>5, <1>6, <1>7, SumOneMore
  <1> QED BY <1>8, <1>9 DEF l

\* A second later: what the ledger still holds was recent.
LEMMA LedgerAges ==
  ASSUME NEW ledger \in Ledger, NEW b \in Nat \ {0}
  PROVE  /\ Pages(Aged(ledger)) <= Pages(ledger)
         /\ Pages(Aged(ledger)) <= Recent(ledger, 1)
         /\ Recent(Aged(ledger), b - 1) <= Recent(ledger, b)
  <1> DEFINE l == Aged(ledger)
             n == [t \in Window |-> ledger[t].page]
             n1 == [t \in Window |-> IF t > 1 THEN ledger[t].page ELSE 0]
             nb == [t \in Window |-> IF t > b THEN ledger[t].page ELSE 0]
             m == [t \in Window |-> l[t].page]
             mb == [t \in Window |-> IF t > b - 1 THEN l[t].page ELSE 0]
  <1>1. \A t \in Window :
          l[t].page = IF t + 1 \in Window THEN ledger[t + 1].page ELSE 0
    BY DEF Aged, NoCookies
  <1>2. \A t \in Window : t \in Nat /\ t >= 1
    BY DEF Window
  <1>3. l \in Ledger
    <2>1. MaxPages \in Nat /\ MaxSolved \in Nat
      BY KeysAssumption, FS_CardinalityType, TimesAssumption DEF MaxPages, MaxSolved
    <2> HIDE DEF MaxPages, MaxSolved
    <2> QED BY <2>1 DEF Aged, Ledger, NoCookies
  <1> HIDE DEF l
  <1>4. /\ n \in [Window -> Nat] /\ n1 \in [Window -> Nat] /\ nb \in [Window -> Nat]
        /\ m \in [Window -> Nat] /\ mb \in [Window -> Nat]
    BY <1>3, LedgerTyped
  <1>5. \A t \in Window : m[t] = IF t + 1 \in Window THEN n[t + 1] ELSE 0
    BY <1>1
  <1>6. \A t \in Window : m[t] = IF t + 1 \in Window THEN n1[t + 1] ELSE 0
    BY <1>1, <1>2
  <1>7. \A t \in Window : mb[t] = IF t + 1 \in Window THEN nb[t + 1] ELSE 0
    BY <1>1, <1>2
  <1>8. /\ SumOf(m) = Pages(l) /\ SumOf(n) = Pages(ledger)
        /\ SumOf(n1) = Recent(ledger, 1) /\ SumOf(nb) = Recent(ledger, b)
        /\ SumOf(mb) = Recent(l, b - 1)
    BY DEF Pages, Recent
  <1> HIDE DEF n, n1, nb, m, mb
  <1>9. SumOf(m) <= SumOf(n) /\ SumOf(m) <= SumOf(n1) /\ SumOf(mb) <= SumOf(nb)
    BY <1>4, <1>5, <1>6, <1>7, SumShifts
  <1> QED BY <1>8, <1>9 DEF l

\* Nothing stays for longer than the window.
LEMMA NothingStaysLonger ==
  ASSUME NEW ledger \in Ledger, NEW b \in Nat, b >= SESSION_CHURN_WINDOW_S
  PROVE  Recent(ledger, b) = 0 /\ Pages(NoCookies) = 0
  <1> DEFINE nb == [t \in Window |-> IF t > b THEN ledger[t].page ELSE 0]
             n == [t \in Window |-> NoCookies[t].page]
  <1>1. nb \in [Window -> Nat] /\ \A t \in Window : nb[t] = 0
    BY TimesAssumption DEF Window
  <1>2. n \in [Window -> Nat] /\ \A t \in Window : n[t] = 0
    BY DEF NoCookies
  <1>3. Recent(ledger, b) = SumOf(nb) /\ Pages(NoCookies) = SumOf(n)
    BY DEF Recent, Pages
  <1> HIDE DEF nb, n
  <1> QED BY <1>1, <1>2, <1>3, SumNothing

-----------------------------------------------------------------------------
(***************************************************************************)
(* Churn                                                                   *)
(*                                                                         *)
(* A fingerprint f is banned when the first of the requests that owe for a *)
(* cookie pays.  Until then every page beyond the allowance belongs to a   *)
(* request that owes.  From then on no request passes the fingerprint's    *)
(* check: the pages still to come are those of the requests past it, and   *)
(* what was there when the ban began is gone when it ends.                 *)
(***************************************************************************)

\* Requests that owe for a cookie of f, and that may still get one; q is req,
\* now or after a step.
Owes(m, f) == m.stage = "paying" /\ FpOf[m.id] = f
MayMint(m, f) ==
  /\ m.stage = "checked" \/ (m.stage = "forwarded" /\ m.way = "gates")
  /\ FpOf[m.id] = f

Payers(q, f) == {r \in Requests : Owes(q[r], f)}
Minters(q, f) == {r \in Requests : MayMint(q[r], f)}

Fresh(f) == Recent(minted[f], banLeft[f])

\* By the state of f: never paid for, paid for, banned.
Clean(f) ==
  score[f] = 0
  => ~Banned(f) /\ Pages(minted[f]) <= SESSION_CHURN_MAX + Cardinality(Payers(req, f))
Scored(f) ==
  score[f] > 0 /\ ~Banned(f)
  => Pages(minted[f]) <= Unpaid + Cardinality(Payers(req, f))
Barred(f) ==
  Banned(f)
  => /\ Pages(minted[f]) + Cardinality(Minters(req, f)) <= Unpaid + Cardinality(Requests)
     /\ Fresh(f) + Cardinality(Minters(req, f)) <= Cardinality(Requests) - 1

Paid(f) == Clean(f) /\ Scored(f) /\ Barred(f)

\* A fingerprint is scored by payments alone.
ScoredByPayments ==
  \A f \in Fps :
    score[f] = 0 \/ score[f] >= ChurnWeight \/ score[f] = RISK_BAN_THRESHOLD_NAT

ChurnInv == ScoredByPayments /\ \A f \in Fps \ touched : Paid(f)

\* Sizes.
LEMMA Sizes ==
  /\ Cardinality(Requests) \in Nat /\ Unpaid \in Nat
  /\ SESSION_CHURN_MAX <= Unpaid /\ Cardinality(Requests) - 1 <= Unpaid
  /\ Crowded # {} => SESSION_CHURN_MAX + 1 <= Unpaid
  <1>1. Cardinality(Requests) \in Nat
    BY KeysAssumption, FS_CardinalityType
  <1>2. SESSION_CHURN_MAX \in Nat
    BY TimesAssumption
  <1>3. CASE Crowded = {}
    BY <1>1, <1>2, <1>3 DEF Unpaid
  <1>4. CASE Crowded # {}
    BY <1>1, <1>2, <1>4 DEF Unpaid
  <1> QED BY <1>1, <1>3, <1>4

LEMMA Parties ==
  ASSUME NEW q, NEW f
  PROVE  /\ Payers(q, f) \subseteq Requests /\ Minters(q, f) \subseteq Requests
         /\ IsFiniteSet(Payers(q, f)) /\ IsFiniteSet(Minters(q, f))
         /\ Cardinality(Payers(q, f)) \in Nat /\ Cardinality(Minters(q, f)) \in Nat
         /\ Cardinality(Payers(q, f)) + Cardinality(Minters(q, f)) <= Cardinality(Requests)
         /\ Cardinality(Payers(q, f)) <= Cardinality(Requests)
  <1>1. Payers(q, f) \in SUBSET Requests /\ Minters(q, f) \in SUBSET Requests
    BY DEF Payers, Minters
  <1>2. Payers(q, f) \cap Minters(q, f) = {}
    BY DEF Payers, Minters, Owes, MayMint
  <1> HIDE DEF Payers, Minters
  <1>3. /\ IsFiniteSet(Payers(q, f)) /\ IsFiniteSet(Minters(q, f))
        /\ IsFiniteSet(Payers(q, f) \cup Minters(q, f))
        /\ Cardinality(Payers(q, f) \cup Minters(q, f)) <= Cardinality(Requests)
    <2>1. Payers(q, f) \cup Minters(q, f) \in SUBSET Requests
      BY <1>1
    <2> QED BY <1>1, <2>1, KeysAssumption, FS_Subset
  <1>4. /\ Cardinality(Payers(q, f)) \in Nat /\ Cardinality(Minters(q, f)) \in Nat
        /\ Cardinality(Requests) \in Nat
    BY <1>3, FS_CardinalityType, Sizes
  <1>5. Cardinality(Payers(q, f) \cup Minters(q, f))
        = Cardinality(Payers(q, f)) + Cardinality(Minters(q, f)) - Cardinality({})
    BY <1>2, <1>3, FS_Union
  <1>6. Cardinality({}) = 0
    BY FS_EmptySet
  <1> QED BY <1>1, <1>3, <1>4, <1>5, <1>6

\* The invariant bounds the pages.
LEMMA PaidBounds ==
  ASSUME IInv, ChurnInv
  PROVE  ChurnBounded
  <1> SUFFICES ASSUME NEW f \in Fps \ touched
               PROVE  Pages(minted[f]) <= Unpaid + Cardinality(Requests)
    BY DEF ChurnBounded
  <1>1. Clean(f) /\ Scored(f) /\ Barred(f)
    BY DEF ChurnInv, Paid
  <1>2. Pages(minted[f]) \in Nat
    BY LedgerTyped DEF IInv, TypeOK
  <1>3. score[f] \in Nat
    BY ClientKeys, WeightsAssumption DEF IInv, TypeOK, Keys
  <1>4. CASE Banned(f)
    BY <1>1, <1>2, <1>4, Parties, Sizes DEF Barred
  <1>5. CASE ~Banned(f) /\ score[f] = 0
    BY <1>1, <1>2, <1>5, Parties, Sizes, TimesAssumption DEF Clean
  <1>6. CASE ~Banned(f) /\ score[f] > 0
    BY <1>1, <1>2, <1>6, Parties, Sizes DEF Scored
  <1> QED BY <1>3, <1>4, <1>5, <1>6

\* A step that leaves the score, the ban and the pages of f alone, takes no
\* payer away and, while f is banned, adds no minter.
LEMMA PaidKept ==
  ASSUME IInv, IInv', NEW f \in Fps, Paid(f),
         score'[f] = score[f], banLeft'[f] = banLeft[f],
         \A t \in Window : minted'[f][t].page = minted[f][t].page,
         Payers(req, f) \subseteq Payers(req', f),
         Banned(f) => Minters(req', f) \subseteq Minters(req, f)
  PROVE  Paid(f)'
  <1>1. /\ minted[f] \in Ledger /\ minted'[f] \in Ledger
        /\ score[f] \in Nat /\ banLeft[f] \in Nat
    BY WeightsAssumption, TimesAssumption DEF IInv, TypeOK, Keys
  <1>2. Pages(minted'[f]) = Pages(minted[f])
        /\ Recent(minted'[f], banLeft[f]) = Recent(minted[f], banLeft[f])
    BY SamePages
  <1>3. Pages(minted[f]) \in Nat /\ Recent(minted[f], banLeft[f]) \in Nat
    BY <1>1, LedgerTyped
  <1>4. Banned(f)' <=> Banned(f)
    BY DEF Banned
  <1>5. Cardinality(Payers(req, f)) <= Cardinality(Payers(req', f))
    BY Parties, FS_Subset
  <1>6. Banned(f) => Cardinality(Minters(req', f)) <= Cardinality(Minters(req, f))
    BY Parties, FS_Subset
  <1>7. /\ Cardinality(Payers(req, f)) \in Nat /\ Cardinality(Payers(req', f)) \in Nat
        /\ Cardinality(Minters(req, f)) \in Nat /\ Cardinality(Minters(req', f)) \in Nat
        /\ Cardinality(Requests) \in Nat /\ Unpaid \in Nat /\ SESSION_CHURN_MAX \in Nat
    BY Parties, Sizes, TimesAssumption
  <1>8. Clean(f)'
    BY <1>2, <1>3, <1>4, <1>5, <1>7 DEF Paid, Clean
  <1>9. Scored(f)'
    BY <1>2, <1>3, <1>4, <1>5, <1>7 DEF Paid, Scored
  <1>10. Barred(f)'
    <2>1. Fresh(f)' = Fresh(f)
      BY <1>2 DEF Fresh
    <2>2. Fresh(f) \in Nat
      BY <1>3 DEF Fresh
    <2> QED BY <1>2, <1>3, <1>4, <1>6, <1>7, <2>1, <2>2 DEF Paid, Barred
  <1> QED BY <1>8, <1>9, <1>10 DEF Paid

\* The same of a step in which request r becomes m.
LEMMA OneMoves ==
  ASSUME IInv, IInv', NEW f \in Fps, Paid(f), NEW r \in Requests, NEW m,
         req' = [req EXCEPT ![r] = m],
         Owes(req[r], f) => Owes(m, f),
         Banned(f) /\ MayMint(m, f) => MayMint(req[r], f),
         score'[f] = score[f], banLeft'[f] = banLeft[f],
         \A t \in Window : minted'[f][t].page = minted[f][t].page
  PROVE  Paid(f)'
  <1>1. \A q \in Requests : req'[q] = IF q = r THEN m ELSE req[q]
    BY DEF IInv, TypeOK
  <1> HIDE DEF Owes, MayMint
  <1>2. Payers(req, f) \subseteq Payers(req', f)
    BY <1>1 DEF Payers
  <1>3. Banned(f) => Minters(req', f) \subseteq Minters(req, f)
    BY <1>1 DEF Minters
  <1> QED BY <1>2, <1>3, PaidKept

\* A request that arrives owes for nothing yet and may get no cookie yet.
LEMMA ArriveChurn ==
  ASSUME IInv, IInv', NEW f \in Fps, Paid(f),
         NEW r \in Requests, NEW i \in Ids, Arrive(r, i)
  PROVE  Paid(f)'
  <1>1. ASSUME NEW stage, NEW way, NEW mint, Starts(r, i, stage, way, mint),
               stage # "checked", ~(stage = "forwarded" /\ way = "gates"),
               UNCHANGED riskVars,
               \A t \in Window : minted'[f][t].page = minted[f][t].page
        PROVE  Paid(f)'
    <2> DEFINE m == Arrival(i, stage, way, mint)
    <2>1. req' = [req EXCEPT ![r] = m] /\ At(r, "idle")
      BY <1>1 DEF Starts
    <2>2. ~Owes(req[r], f) /\ ~MayMint(m, f)
      BY <1>1, <2>1 DEF Owes, MayMint, At, Arrival
    <2>3. score'[f] = score[f] /\ banLeft'[f] = banLeft[f]
      BY <1>1 DEF riskVars
    <2> HIDE DEF m
    <2> QED BY <1>1, <2>1, <2>2, <2>3, OneMoves
  <1>2. CASE ForwardExempt(r, i)
    BY <1>1, <1>2 DEF ForwardExempt, ledgerVars
  <1>3. CASE PassChallengeGate(r, i)
    BY <1>1, <1>3 DEF PassChallengeGate, Enter, ledgerVars
  <1>4. CASE SolveChallenge(r, i)
    <2>1. \A t \in Window : minted'[f][t].page = minted[f][t].page
      <3>1. minted[f] \in Ledger /\ FpOf[i] \in Fps
        BY ClientKeys DEF IInv, TypeOK
      <3>2. minted'[f] = minted[f] \/ minted'[f] = WithSolved(minted[f])
        BY <1>4, <3>1 DEF SolveChallenge, IInv, TypeOK
      <3> QED BY <3>1, <3>2, SolvedAddsNoPage
    <2>2. \E stage \in {"paying", "answered"} : Starts(r, i, stage, "none", FALSE)
      BY <1>4, NotedStage DEF SolveChallenge
    <2> QED BY <1>1, <1>4, <2>1, <2>2 DEF SolveChallenge
  <1> QED BY <1>2, <1>3, <1>4 DEF Arrive

\* A detector scores no fingerprint.
LEMMA DetectorsSpare ==
  ASSUME IInv, NEW f \in Fps, NEW r \in Requests, NEW k \in Ids \cup Addresses,
         SignalOn(r, k) \/ UNCHANGED riskVars
  PROVE  score'[f] = score[f] /\ banLeft'[f] = banLeft[f]
  <1>1. k \in Keys /\ f \in Keys \ {k}
    BY KeysAssumption DEF Keys
  <1> QED BY <1>1, DetectorKeeps DEF IInv

\* A request that ends, or goes on from a place where it owes for nothing.
LEMMA RequestEnds ==
  ASSUME IInv, IInv', NEW f \in Fps, Paid(f), NEW r \in Requests,
         Ends(r), ~At(r, "paying"),
         score'[f] = score[f] /\ banLeft'[f] = banLeft[f], UNCHANGED ledgerVars
  PROVE  Paid(f)'
  <1>1. ~Owes(req[r], f) /\ ~MayMint(Idle, f)
    BY DEF Owes, MayMint, At, Idle
  <1> QED BY <1>1, OneMoves DEF Ends, ledgerVars

LEMMA InspectChurn ==
  ASSUME IInv, IInv', NEW f \in Fps, Paid(f), NEW r \in Requests, Inspect(r)
  PROVE  Paid(f)'
  <1>1. /\ ~At(r, "paying") /\ UNCHANGED ledgerVars
        /\ req[r] \in Running
    <2>1. \E s \in {"entered", "stamped", "known", "checked"} : At(r, s)
      BY DEF Inspect, Stamp, Suspect, Exclude, SessionFlood, CheckIdentity,
             CheckFingerprint, Deny, SoftSignal, Forward
    <2>2. req[r] \in Running
      BY <2>1, Moving DEF Stages
    <2>3. UNCHANGED ledgerVars
      BY DEF Inspect, Stamp, Suspect, Exclude, SessionFlood, CheckIdentity,
             CheckFingerprint, Deny, SoftSignal, Forward
    <2> QED BY <2>1, <2>2, <2>3 DEF At
  <1>2. score'[f] = score[f] /\ banLeft'[f] = banLeft[f]
    <2>1. SignalOn(r, req[r].id) \/ UNCHANGED riskVars
      BY DEF Inspect, Stamp, Suspect, Exclude, SessionFlood, CheckIdentity,
             CheckFingerprint, Deny, SoftSignal, Forward
    <2>2. req[r].id \in Ids \cup Addresses
      BY <1>1 DEF Running
    <2> QED BY <2>1, <2>2, DetectorsSpare
  <1>3. CASE Ends(r)
    BY <1>1, <1>2, <1>3, RequestEnds
  <1>4. ASSUME NEW m, req' = [req EXCEPT ![r] = m],
               Banned(f) /\ MayMint(m, f) => MayMint(req[r], f)
        PROVE  Paid(f)'
    <2>1. ~Owes(req[r], f)
      BY <1>1 DEF Owes, At
    <2> QED BY <1>1, <1>2, <1>4, <2>1, OneMoves DEF ledgerVars
  <1>5. CASE req' = req
    <2>1. req' = [req EXCEPT ![r] = req[r]]
      BY <1>5 DEF IInv, TypeOK
    <2> QED BY <1>4, <2>1
  <1>6. CASE Stamp(r)
    <2> DEFINE stamped == [req[r] EXCEPT !.stage = "stamped"]
               forwarded(g) == [req[r] EXCEPT !.stage = "forwarded", !.way = "exempt",
                                              !.mint = FALSE, !.graced = g]
    <2>1. \/ req' = [req EXCEPT ![r] = forwarded(grace[req[r].id] > 0)]
          \/ req' = [req EXCEPT ![r] = stamped]
      BY <1>6 DEF Stamp
    <2>2. ~MayMint(stamped, f) /\ \A g : ~MayMint(forwarded(g), f)
      BY <1>1 DEF MayMint, Running
    <2> HIDE DEF stamped, forwarded
    <2> QED BY <1>4, <2>1, <2>2
  <1>7. CASE Moves(r, "known")
    <2> DEFINE m == [req[r] EXCEPT !.stage = "known"]
    <2>1. req' = [req EXCEPT ![r] = m] /\ ~MayMint(m, f)
      BY <1>1, <1>7 DEF Moves, MayMint, Running, IInv, TypeOK
    <2> HIDE DEF m
    <2> QED BY <1>4, <2>1
  <1>8. CASE LetThrough(r, "undetected")
    <2> DEFINE m == [req[r] EXCEPT !.stage = "forwarded", !.way = "undetected"]
    <2>1. req' = [req EXCEPT ![r] = m] /\ ~MayMint(m, f)
      BY <1>1, <1>8 DEF LetThrough, MayMint, Running, IInv, TypeOK
    <2> HIDE DEF m
    <2> QED BY <1>4, <2>1
  <1>9. CASE ~Banned(FpOf[req[r].id]) /\ Moves(r, "checked")
    <2> DEFINE m == [req[r] EXCEPT !.stage = "checked"]
    <2>1. req' = [req EXCEPT ![r] = m] /\ m.id = req[r].id
      BY <1>1, <1>9 DEF Moves, Running, IInv, TypeOK
    <2>2. ~(Banned(f) /\ MayMint(m, f))
      BY <1>9, <2>1 DEF MayMint
    <2> HIDE DEF m
    <2> QED BY <1>4, <2>1, <2>2
  <1>10. CASE Forward(r)
    <2> DEFINE m == [req[r] EXCEPT !.stage = "forwarded", !.way = "gates"]
    <2>1. req' = [req EXCEPT ![r] = m] /\ m.id = req[r].id /\ At(r, "checked")
      BY <1>1, <1>10 DEF Forward, LetThrough, Running, IInv, TypeOK
    <2>2. MayMint(m, f) => MayMint(req[r], f)
      BY <2>1 DEF MayMint, At
    <2> HIDE DEF m
    <2> QED BY <1>4, <2>1, <2>2
  <1> QED
    BY <1>3, <1>5, <1>6, <1>7, <1>8, <1>9, <1>10
    DEF Inspect, Suspect, Exclude, SessionFlood, CheckIdentity, CheckFingerprint,
        Deny, SoftSignal

LEMMA SolvedNat ==
  ASSUME NEW ledger \in Ledger
  PROVE  Solved(ledger) \in Nat
  <1>1. [t \in Window |-> ledger[t].solved] \in [Window -> Nat]
    BY DEF Ledger
  <1> QED BY <1>1, SumNat DEF Solved

\* The numbers of a fingerprint.
LEMMA Numbers ==
  ASSUME IInv, NEW f \in Fps
  PROVE  /\ minted[f] \in Ledger /\ Pages(minted[f]) \in Nat
         /\ score[f] \in 0 .. RISK_BAN_THRESHOLD_NAT /\ banLeft[f] \in 0 .. BanSecs
         /\ Fresh(f) \in Nat /\ f \in Keys
         /\ Cardinality(Payers(req, f)) \in Nat /\ Cardinality(Minters(req, f)) \in Nat
         /\ RISK_BAN_THRESHOLD_NAT \in Nat \ {0} /\ BanSecs \in Nat \ {0}
         /\ SESSION_CHURN_MAX \in Nat
  <1>1. minted[f] \in Ledger /\ f \in Keys
    BY DEF IInv, TypeOK, Keys
  <1>2. Pages(minted[f]) \in Nat /\ Fresh(f) \in Nat
    BY <1>1, LedgerTyped DEF Fresh
  <1> QED BY <1>1, <1>2, Parties, WeightsAssumption, TimesAssumption DEF IInv, TypeOK

\* A page is set: the request that gets it may get no other, and owes for it if
\* the window holds too many.
LEMMA MintChurn ==
  ASSUME IInv, IInv', NEW f \in Fps, Paid(f), NEW r \in Requests, Mint(r)
  PROVE  Paid(f)'
  <1> DEFINE g == FpOf[req[r].id]
             ledger == WithPage(minted[g])
             stage == Noted(g, ledger)
             m == [req[r] EXCEPT !.stage = stage]
  <1>1. /\ At(r, "forwarded") /\ req[r].way = "gates"
        /\ req' = [req EXCEPT ![r] = m]
        /\ minted' = [minted EXCEPT ![g] = ledger]
        /\ UNCHANGED <<riskVars, grace, touched>>
    BY DEF Mint, Moves, IInv, TypeOK
  <1>2. req[r] \in Running /\ req[r].id \in Ids
    BY <1>1, Moving DEF Stages
  <1>3. stage = IF Churns(ledger) THEN "paying" ELSE "answered"
    BY DEF Noted
  <1>4. score'[f] = score[f] /\ banLeft' = banLeft /\ (Banned(f)' <=> Banned(f))
    BY <1>1 DEF riskVars, Banned
  <1>5. m.stage = stage /\ m.id = req[r].id
    BY <1>2 DEF Running
  <1>6. CASE g # f
    <2>1. ~Owes(req[r], f) /\ ~MayMint(m, f)
      BY <1>5, <1>6 DEF Owes, MayMint
    <2>2. minted'[f] = minted[f]
      BY <1>1, <1>6 DEF IInv, TypeOK
    <2> HIDE DEF m
    <2> QED BY <1>1, <1>4, <2>1, <2>2, OneMoves
  <1>7. CASE g = f
    <2>1. Owes(m, f) <=> Churns(ledger)
      BY <1>3, <1>5, <1>7 DEF Owes
    <2>2. ~Owes(req[r], f) /\ MayMint(req[r], f) /\ ~MayMint(m, f)
      BY <1>1, <1>3, <1>5, <1>7 DEF Owes, MayMint, At
    <2>3. minted'[f] = ledger /\ minted[f] \in Ledger /\ ledger \in Ledger
      BY <1>1, <1>7, LedgerGrows DEF IInv, TypeOK
    <2>4. /\ Pages(ledger) <= Pages(minted[f]) + 1
          /\ Recent(ledger, banLeft[f]) <= Fresh(f) + 1
          /\ Pages(ledger) \in Nat /\ Recent(ledger, banLeft[f]) \in Nat
      BY <1>7, <2>3, Numbers, PageAddsOne, LedgerTyped DEF Fresh
    <2>5. Solved(ledger) \in Nat
      BY <2>3, SolvedNat
    <2>6. Churns(ledger) \/ Pages(ledger) <= SESSION_CHURN_MAX
      BY <2>4, <2>5, Numbers DEF Churns
    <2> HIDE DEF m, ledger, stage
    <2>7. \A q \in Requests : req'[q] = IF q = r THEN m ELSE req[q]
      BY <1>1 DEF IInv, TypeOK
    <2>8. Minters(req', f) = Minters(req, f) \ {r} /\ r \in Minters(req, f)
      <3> HIDE DEF MayMint
      <3> QED BY <2>2, <2>7 DEF Minters
    <2>9. Cardinality(Minters(req', f)) = Cardinality(Minters(req, f)) - 1
      BY <2>8, Parties, FS_RemoveElement
    <2>10. Cardinality(Payers(req', f))
           = IF Churns(ledger) THEN Cardinality(Payers(req, f)) + 1
             ELSE Cardinality(Payers(req, f))
      <3> HIDE DEF Owes
      <3>1. r \notin Payers(req, f)
        BY <2>2 DEF Payers
      <3>2. CASE Churns(ledger)
        <4>1. Payers(req', f) = Payers(req, f) \cup {r}
          BY <2>1, <2>7, <3>2 DEF Payers
        <4> QED BY <3>1, <3>2, <4>1, Parties, FS_AddElement
      <3>3. CASE ~Churns(ledger)
        <4>1. Payers(req', f) = Payers(req, f)
          BY <2>1, <2>2, <2>7, <3>3 DEF Payers
        <4> QED BY <3>3, <4>1
      <3> QED BY <3>2, <3>3
    <2>11. Pages(minted'[f]) = Pages(ledger) /\ Fresh(f)' = Recent(ledger, banLeft[f])
      BY <1>4, <2>3 DEF Fresh
    <2>12. Clean(f)'
      BY <1>4, <2>4, <2>6, <2>10, <2>11, Numbers DEF Paid, Clean
    <2>13. Scored(f)'
      BY <1>4, <2>4, <2>6, <2>10, <2>11, Numbers, Sizes DEF Paid, Scored
    <2>14. Barred(f)'
      BY <1>4, <2>4, <2>9, <2>11, Numbers, Sizes DEF Paid, Barred
    <2> QED BY <2>12, <2>13, <2>14 DEF Paid
  <1> QED BY <1>6, <1>7

\* A payment: the fingerprint is banned, or has one score at a crowded address.
LEMMA PayChurn ==
  ASSUME IInv, IInv', ScoredByPayments, NEW f \in Fps, Paid(f),
         NEW r \in Requests, Pay(r)
  PROVE  Paid(f)'
  <1> DEFINE g == FpOf[req[r].id]
             a == AddressOf[req[r].id]
             m == [req[r] EXCEPT !.stage = "answered"]
  <1>1. /\ At(r, "paying") /\ req' = [req EXCEPT ![r] = m]
        /\ Signal(g, ChurnWeight, a) /\ minted' = minted
    BY DEF Pay, Moves, IInv, TypeOK, ledgerVars
  <1>2. /\ req[r] \in Running /\ req[r].id \in Ids
        /\ g \in Fps /\ g \in Keys /\ a \in Addresses
    BY <1>1, Moving, ClientKeys DEF Stages
  <1>3. m.stage = "answered" /\ m.id = req[r].id
    BY <1>2 DEF Running
  <1>4. ~MayMint(m, f) /\ ~MayMint(req[r], f) /\ ~Owes(m, f)
    BY <1>1, <1>3 DEF MayMint, Owes, At
  <1>5. CASE g # f
    <2>1. score'[f] = score[f] /\ banLeft'[f] = banLeft[f]
      BY <1>1, <1>2, <1>5, Numbers, SignalKeeps, WeightsAssumption DEF IInv
    <2>2. ~Owes(req[r], f)
      BY <1>5 DEF Owes
    <2> HIDE DEF m
    <2> QED BY <1>1, <1>4, <2>1, <2>2, OneMoves
  <1>6. CASE g = f
    <2>1. Owes(req[r], f)
      BY <1>1, <1>6 DEF Owes, At
    <2> HIDE DEF m
    <2>2. \A q \in Requests : req'[q] = IF q = r THEN m ELSE req[q]
      BY <1>1 DEF IInv, TypeOK
    <2>3. Minters(req', f) = Minters(req, f) /\ r \notin Minters(req', f)
      <3> HIDE DEF MayMint
      <3> QED BY <1>4, <2>2 DEF Minters
    <2>4. Cardinality(Minters(req', f)) <= Cardinality(Requests) - 1
      <3>1. Minters(req', f) \in SUBSET (Requests \ {r})
        BY <2>3, Parties
      <3>2. /\ IsFiniteSet(Requests \ {r})
            /\ Cardinality(Requests \ {r}) = Cardinality(Requests) - 1
        BY KeysAssumption, FS_RemoveElement
      <3>3. Cardinality(Minters(req', f)) <= Cardinality(Requests \ {r})
        BY <3>1, <3>2, FS_Subset
      <3> QED BY <3>2, <3>3
    <2>5. Cardinality(Payers(req', f)) = Cardinality(Payers(req, f)) - 1
      <3> HIDE DEF Owes
      <3>1. Payers(req', f) = Payers(req, f) \ {r} /\ r \in Payers(req, f)
        BY <1>4, <2>1, <2>2 DEF Payers
      <3> QED BY <3>1, Parties, FS_RemoveElement
    <2> DEFINE s == AddRisk(f, ChurnWeight)
    <2>6. /\ s = IF score[f] + ChurnWeight > RISK_BAN_THRESHOLD_NAT
                 THEN RISK_BAN_THRESHOLD_NAT ELSE score[f] + ChurnWeight
          /\ ChurnWeight \in Nat
      BY WeightsAssumption DEF AddRisk
    <2>7. /\ score'[f] = s
          /\ banLeft'[f] = IF s >= ThresholdAt(a) /\ ~Banned(f)
                           THEN BanSecs ELSE banLeft[f]
      BY <1>1, <1>6, Numbers DEF Signal, IInv, TypeOK
    <2>8. s \in Nat /\ s > 0
      BY <2>6, Numbers, WeightsAssumption
    <2>9. score[f] > 0 => s = RISK_BAN_THRESHOLD_NAT
      BY <2>6, Numbers, WeightsAssumption DEF ScoredByPayments
    <2>10. s >= RISK_BAN_THRESHOLD
      BY <2>6, Numbers, WeightsAssumption
    <2> HIDE DEF s
    <2>11. Clean(f)'
      BY <2>7, <2>8 DEF Clean
    <2>12. Pages(minted'[f]) = Pages(minted[f])
      BY <1>1
    <2>13. CASE Banned(f)
      <3>1. banLeft'[f] = banLeft[f] /\ Banned(f)'
        BY <2>7, <2>13 DEF Banned
      <3>2. Fresh(f)' = Fresh(f)
        BY <1>1, <3>1 DEF Fresh
      <3>3. Barred(f)'
        BY <2>3, <2>12, <2>13, <3>1, <3>2 DEF Paid, Barred
      <3>4. Scored(f)'
        BY <3>1 DEF Scored
      <3> QED BY <2>11, <3>3, <3>4 DEF Paid
    <2>14. CASE ~Banned(f) /\ s >= ThresholdAt(a)
      <3>1. banLeft'[f] = BanSecs /\ Banned(f)'
        BY <2>7, <2>14, Numbers DEF Banned
      <3>2. Fresh(f)' = 0
        <4>1. Fresh(f)' = Recent(minted[f], BanSecs)
          BY <1>1, <3>1 DEF Fresh
        <4> QED BY <4>1, Numbers, NothingStaysLonger, TimesAssumption
      <3>3. Pages(minted[f]) <= Unpaid + Cardinality(Payers(req, f))
        BY <2>14, Numbers, Sizes DEF Paid, Clean, Scored
      <3>4. Barred(f)'
        BY <2>3, <2>4, <2>12, <3>2, <3>3, Numbers, Parties, Sizes DEF Barred
      <3>5. Scored(f)'
        BY <3>1 DEF Scored
      <3> QED BY <2>11, <3>4, <3>5 DEF Paid
    <2>15. CASE ~Banned(f) /\ ~(s >= ThresholdAt(a))
      <3>1. banLeft'[f] = banLeft[f] /\ ~Banned(f)'
        BY <2>7, <2>15 DEF Banned
      <3>2. Crowded # {}
        BY <2>8, <2>10, <2>15, WeightsAssumption DEF ThresholdAt
      <3>3. score[f] = 0
        <4>1. ThresholdAt(a) <= RISK_BAN_THRESHOLD_NAT /\ ThresholdAt(a) \in Nat
          BY WeightsAssumption DEF ThresholdAt
        <4> QED BY <2>9, <2>15, <4>1, Numbers
      <3>4. Pages(minted[f]) <= SESSION_CHURN_MAX + Cardinality(Payers(req, f))
        BY <3>3 DEF Paid, Clean
      <3>5. Scored(f)'
        BY <2>5, <2>12, <3>2, <3>4, Numbers, Sizes DEF Scored
      <3>6. Barred(f)'
        BY <3>1 DEF Barred
      <3> QED BY <2>11, <3>5, <3>6 DEF Paid
    <2> QED BY <2>13, <2>14, <2>15
  <1> QED BY <1>5, <1>6

LEMMA RespondChurn ==
  ASSUME IInv, IInv', ScoredByPayments, NEW f \in Fps, Paid(f),
         NEW r \in Requests, Respond(r)
  PROVE  Paid(f)'
  <1>1. CASE Mint(r)
    BY <1>1, MintChurn
  <1>2. CASE Pay(r)
    BY <1>2, PayChurn
  <1>3. CASE ~Mint(r) /\ ~Pay(r)
    <2>1. /\ At(r, "forwarded") \/ At(r, "answered")
          /\ Ends(r) \/ req' = req
          /\ UNCHANGED ledgerVars
          /\ \/ SignalOn(r, KeyOf(r)) \/ SignalOn(r, req[r].id)
             \/ UNCHANGED riskVars
      BY <1>3 DEF Respond, HeaderGate, SlowBody, BodyScan, EscalatedScan,
                  PageCheck, NotFound, Finish, Answered
    <2>2. req[r].id \in Ids /\ KeyOf(r) \in Ids \cup Addresses
      <3>1. req[r].id \in Ids
        BY <2>1, Moving DEF Stages
      <3> QED BY <3>1, ClientKeys DEF KeyOf
    <2>3. score'[f] = score[f] /\ banLeft'[f] = banLeft[f]
      BY <2>1, <2>2, DetectorsSpare
    <2>4. ~At(r, "paying")
      BY <2>1 DEF At
    <2>5. CASE Ends(r)
      BY <2>1, <2>3, <2>4, <2>5, RequestEnds
    <2>6. CASE req' = req
      BY <2>1, <2>3, <2>6, PaidKept DEF ledgerVars
    <2> QED BY <2>1, <2>5, <2>6
  <1> QED BY <1>1, <1>2, <1>3

\* A review of the requests moves none of them.
LEMMA ReviewedParties ==
  ASSUME IInv, req' = Reviewed(banLeft', grace'), NEW f
  PROVE  Payers(req', f) = Payers(req, f) /\ Minters(req', f) = Minters(req, f)
  <1>1. ASSUME NEW r \in Requests
        PROVE  (Owes(req'[r], f) <=> Owes(req[r], f))
               /\ (MayMint(req'[r], f) <=> MayMint(req[r], f))
    <2>1. CASE At(r, "idle")
      <3>1. req'[r] = Idle
        BY <2>1 DEF Reviewed
      <3> QED BY <2>1, <3>1 DEF Owes, MayMint, At, Idle
    <2>2. CASE ~At(r, "idle")
      <3>1. req[r] \in Running
        BY <2>2, InFlight DEF IInv
      <3>2. /\ req'[r].stage = req[r].stage /\ req'[r].way = req[r].way
            /\ req'[r].id = req[r].id
        BY <2>2, <3>1 DEF Reviewed, Running
      <3> QED BY <3>2 DEF Owes, MayMint
    <2> QED BY <2>1, <2>2
  <1> HIDE DEF Owes, MayMint
  <1> QED BY <1>1 DEF Payers, Minters

LEMMA OperateChurn ==
  ASSUME IInv, IInv', NEW f \in Fps \ touched', f \notin touched => Paid(f), Operate
  PROVE  Paid(f)'
  <1>1. ASSUME minted' = minted, f \notin touched,
               score'[f] = score[f], banLeft'[f] = banLeft[f],
               req' = req \/ req' = Reviewed(banLeft', grace')
        PROVE  Paid(f)'
    <2>1. Payers(req', f) = Payers(req, f) /\ Minters(req', f) = Minters(req, f)
      BY <1>1, ReviewedParties
    <2> QED BY <1>1, <2>1, PaidKept
  <1>2. ASSUME NEW i \in Ids, BotRuleBan(i) PROVE Paid(f)'
    <2>1. f # AddressOf[i]
      BY ClientKeys, KeysAssumption
    <2>2. banLeft'[f] = banLeft[f]
      BY <1>2, <2>1, Numbers DEF BotRuleBan, IInv, TypeOK
    <2> QED BY <1>1, <1>2, <2>2 DEF BotRuleBan, ledgerVars
  <1>3. ASSUME NEW k \in Ids \cup Fps, Unban(k) PROVE Paid(f)'
    <2>1. f # k /\ f \notin touched
      BY <1>3, KeysAssumption DEF Unban
    <2>2. banLeft'[f] = banLeft[f] /\ score'[f] = score[f]
      BY <1>3, <2>1, Numbers DEF Unban, IInv, TypeOK
    <2> QED BY <1>1, <1>3, <2>1, <2>2 DEF Unban
  <1>4. ASSUME NEW k \in Ids \cup Fps, ManualBan(k) PROVE Paid(f)'
    <2>1. f # k /\ f \notin touched
      BY <1>4, KeysAssumption DEF ManualBan
    <2>2. banLeft'[f] = banLeft[f]
      BY <1>4, <2>1, Numbers DEF ManualBan, IInv, TypeOK
    <2> QED BY <1>1, <1>4, <2>1, <2>2 DEF ManualBan
  <1> QED BY <1>2, <1>3, <1>4 DEF Operate

\* A second passes: a ban that ends leaves the pages that were set during it.
LEMMA TickChurn ==
  ASSUME IInv, IInv', NEW f \in Fps \ touched', f \notin touched => Paid(f), Tick
  PROVE  Paid(f)'
  <1>1. /\ banLeft'[f] = Less(banLeft[f]) /\ score'[f] = score[f]
        /\ minted'[f] = Aged(minted[f])
        /\ f \notin touched \/ (~(banLeft'[f] > 0) /\ minted'[f] = NoCookies)
        /\ req' = Reviewed(banLeft', grace')
    BY Numbers DEF Tick
  <1>2. Payers(req', f) = Payers(req, f) /\ Minters(req', f) = Minters(req, f)
    BY <1>1, ReviewedParties
  <1>3. Pages(minted'[f]) \in Nat /\ Recent(minted'[f], banLeft'[f]) \in Nat
    BY LedgerTyped DEF IInv, TypeOK
  <1>4. banLeft[f] \in Nat /\ SESSION_CHURN_WINDOW_S \in Nat
    BY Numbers, TimesAssumption
  <1>5. CASE ~(banLeft'[f] > 0) /\ minted'[f] = NoCookies
    <2>1. Pages(minted'[f]) = 0 /\ ~Banned(f)'
      BY <1>4, <1>5, Numbers, NothingStaysLonger DEF Banned
    <2> QED BY <1>2, <2>1, Numbers, Sizes DEF Paid, Clean, Scored, Barred
  <1>6. CASE f \notin touched /\ ~Banned(f)
    <2>1. ~Banned(f)'
      BY <1>1, <1>4, <1>6 DEF Banned, Less
    <2>2. Pages(minted'[f]) <= Pages(minted[f])
      BY <1>1, Numbers, LedgerAges
    <2>3. Clean(f) /\ Scored(f)
      BY <1>6 DEF Paid
    <2>4. Clean(f)' /\ Scored(f)'
      BY <1>1, <1>2, <1>3, <1>6, <2>1, <2>2, <2>3, Numbers, Sizes DEF Clean, Scored
    <2> QED BY <2>1, <2>4 DEF Paid, Barred
  <1>7. CASE f \notin touched /\ Banned(f)
    <2>1. Barred(f) /\ score[f] > 0 /\ banLeft[f] > 0
      BY <1>7, Numbers DEF Paid, Clean, Banned
    <2>2. banLeft'[f] = banLeft[f] - 1
      BY <1>1, <1>4, <2>1 DEF Less
    <2>3. /\ Pages(minted'[f]) <= Pages(minted[f])
          /\ Pages(minted'[f]) <= Recent(minted[f], 1)
          /\ Recent(minted'[f], banLeft[f] - 1) <= Recent(minted[f], banLeft[f])
      BY <1>1, <1>4, <2>1, Numbers, LedgerAges
    <2>4. Clean(f)'
      BY <1>1, <2>1, Numbers DEF Clean
    <2>5. Scored(f)'
      <3>1. CASE banLeft[f] = 1
        <4>1. Fresh(f) = Recent(minted[f], 1)
          BY <3>1 DEF Fresh
        <4>2. Pages(minted'[f]) <= Fresh(f) /\ Fresh(f) \in Nat
          BY <2>3, <4>1, Numbers
        <4>3. Fresh(f) + Cardinality(Minters(req, f)) <= Cardinality(Requests) - 1
          BY <1>7, <2>1 DEF Barred
        <4> HIDE DEF Fresh
        <4> QED BY <1>2, <1>3, <4>2, <4>3, Numbers, Sizes DEF Scored
      <3>2. CASE banLeft[f] # 1
        BY <1>4, <2>1, <2>2, <3>2 DEF Scored, Banned
      <3> QED BY <3>1, <3>2
    <2>6. Barred(f)'
      <3>1. Fresh(f)' <= Fresh(f) /\ Fresh(f)' \in Nat
        BY <1>3, <2>2, <2>3 DEF Fresh
      <3> HIDE DEF Fresh
      <3> QED BY <1>2, <1>3, <1>7, <2>1, <2>3, <3>1, Numbers, Sizes DEF Barred
    <2> QED BY <2>4, <2>5, <2>6 DEF Paid
  <1> QED BY <1>1, <1>5, <1>6, <1>7

LEMMA PaymentsStep ==
  ASSUME IInv, ScoredByPayments, [Next]_vars
  PROVE  ScoredByPayments'
  <1> SUFFICES ASSUME NEW f \in Fps
               PROVE  \/ score'[f] = 0 \/ score'[f] >= ChurnWeight
                      \/ score'[f] = RISK_BAN_THRESHOLD_NAT
    BY DEF ScoredByPayments
  <1>1. CASE score'[f] = score[f]
    BY <1>1 DEF ScoredByPayments
  <1>2. ASSUME NEW r \in Requests, Pay(r)
        PROVE  score'[f] = score[f] \/ score'[f] = AddRisk(f, ChurnWeight)
    BY <1>2, Numbers DEF Pay, Signal, IInv, TypeOK
  <1>3. AddRisk(f, ChurnWeight) >= ChurnWeight
        \/ AddRisk(f, ChurnWeight) = RISK_BAN_THRESHOLD_NAT
    BY Numbers, WeightsAssumption DEF AddRisk
  <1>4. ASSUME NEW r \in Requests, ~Pay(r),
               (\E i \in Ids : Arrive(r, i)) \/ Inspect(r) \/ Respond(r)
        PROVE  score'[f] = score[f]
    <2>1. CASE \E i \in Ids : Arrive(r, i)
      BY <2>1 DEF Arrive, ForwardExempt, PassChallengeGate, Enter, SolveChallenge,
                  riskVars
    <2>2. CASE Inspect(r)
      <3>1. \E s \in {"entered", "stamped", "known", "checked"} : At(r, s)
        BY <2>2 DEF Inspect, Stamp, Suspect, Exclude, SessionFlood, CheckIdentity,
             CheckFingerprint, Deny, SoftSignal, Forward
      <3>2. req[r].id \in Ids
        BY <3>1, Moving DEF Stages
      <3>3. SignalOn(r, req[r].id) \/ UNCHANGED riskVars
        BY <2>2 DEF Inspect, Stamp, Suspect, Exclude, SessionFlood, CheckIdentity,
             CheckFingerprint, Deny, SoftSignal, Forward
      <3> QED BY <3>2, <3>3, DetectorsSpare
    <2>3. CASE Respond(r)
      <3>1. /\ At(r, "forwarded") \/ At(r, "answered")
            /\ \/ SignalOn(r, KeyOf(r)) \/ SignalOn(r, req[r].id)
               \/ UNCHANGED riskVars
        BY <1>4, <2>3 DEF Respond, HeaderGate, SlowBody, BodyScan, EscalatedScan,
                    PageCheck, Mint, NotFound, Finish, Answered
      <3>2. req[r].id \in Ids
        BY <3>1, Moving DEF Stages
      <3>3. KeyOf(r) \in Ids \cup Addresses
        BY <3>2, ClientKeys DEF KeyOf
      <3> QED BY <3>1, <3>2, <3>3, DetectorsSpare
    <2> QED BY <1>4, <2>1, <2>2, <2>3
  <1>5. CASE Operate
    <2>1. score' = score \/ \E k \in Keys : score' = [score EXCEPT ![k] = 0]
      BY <1>5 DEF Operate, BotRuleBan, Unban, ManualBan, Keys
    <2>2. score'[f] = score[f] \/ score'[f] = 0
      BY <2>1, Numbers DEF IInv, TypeOK
    <2> QED BY <1>1, <2>2
  <1>6. CASE Tick \/ UNCHANGED vars
    BY <1>1, <1>6 DEF Tick, vars, riskVars
  <1> QED BY <1>1, <1>2, <1>3, <1>4, <1>5, <1>6 DEF Next

LEMMA ChurnInit == Init => ChurnInv
  <1> SUFFICES ASSUME Init, NEW f \in Fps PROVE Paid(f) /\ score[f] = 0
    BY DEF ChurnInv, ScoredByPayments
  <1>1. IInv
    BY InitEstablishes
  <1>2. score[f] = 0 /\ ~Banned(f) /\ minted[f] = NoCookies
    BY <1>1, Numbers DEF Init, Banned
  <1>3. Pages(minted[f]) = 0
    BY <1>1, <1>2, Numbers, NothingStaysLonger, TimesAssumption
  <1> QED BY <1>1, <1>2, <1>3, Numbers DEF Paid, Clean, Scored, Barred

LEMMA ChurnNext ==
  ASSUME IInv, IInv', ChurnInv, [Next]_vars
  PROVE  ChurnInv'
  <1>1. ScoredByPayments'
    BY PaymentsStep DEF ChurnInv
  <1>2. ASSUME NEW f \in Fps \ touched' PROVE Paid(f)'
    <2>1. f \notin touched => Paid(f)
      BY DEF ChurnInv
    <2>2. ASSUME NEW r \in Requests,
                 (\E i \in Ids : Arrive(r, i)) \/ Inspect(r) \/ Respond(r)
          PROVE  Paid(f)'
      <3>1. touched' = touched
        BY <2>2 DEF Arrive, ForwardExempt, PassChallengeGate, Enter, SolveChallenge,
             Inspect, Stamp, Suspect, Exclude, SessionFlood, CheckIdentity,
             CheckFingerprint, Deny, SoftSignal, Forward, Respond, HeaderGate,
             SlowBody, BodyScan, EscalatedScan, PageCheck, Mint, Pay, NotFound,
             Finish, ledgerVars
      <3> QED BY <2>1, <2>2, <3>1, ArriveChurn, InspectChurn, RespondChurn DEF ChurnInv
    <2>3. CASE Operate
      BY <2>1, <2>3, OperateChurn
    <2>4. CASE Tick
      BY <2>1, <2>4, TickChurn
    <2>5. CASE UNCHANGED vars
      <3>1. touched' = touched /\ minted' = minted /\ score' = score
            /\ banLeft' = banLeft /\ req' = req
        BY <2>5 DEF vars, riskVars, ledgerVars
      <3> QED BY <2>1, <3>1, PaidKept
    <2> QED BY <2>2, <2>3, <2>4, <2>5 DEF Next
  <1> QED BY <1>1, <1>2 DEF ChurnInv

\* Session churn is bounded: the pages with a new cookie in one window are no
\* more than the allowance, or what the last ban left over, and one for each
\* request in flight.
THEOREM ChurnIsBounded == Spec => []ChurnBounded
  <1>1. IInv /\ ChurnInv => ChurnBounded
    BY PaidBounds
  <1>2. IInv /\ IInv' /\ ChurnInv /\ [Next]_vars => ChurnInv'
    BY ChurnNext
  <1>3. Spec => []ChurnInv
    BY <1>2, ChurnInit, Invariance, PTL DEF Spec
  <1> QED BY <1>1, <1>3, Invariance, PTL

=============================================================================
