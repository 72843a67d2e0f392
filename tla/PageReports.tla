---------------------------- MODULE PageReports -----------------------------
(***************************************************************************)
(* The reports that the scripts of a page send back: what a visitor did on *)
(* the challenge page (detection/interaction.py), BotD's verdict           *)
(* (detection/canary.py), signs of automation (detection/automation.py)    *)
(* and the canvas fingerprint (detection/fp_enrichment.py).  Each carries  *)
(* a token, an HMAC of the identity and the whole second the page was made *)
(* for: pages of one identity and second share it.                         *)
(*                                                                         *)
(* A tick is half a second.  The limiter of these endpoints is in          *)
(* CanaryProbe.                                                            *)
(***************************************************************************)
EXTENDS Integers, FiniteSets

CONSTANTS
  Persons,             \* identities
  TOKEN_TTL,           \* _TOKEN_TTL and its likes, in seconds
  CANVAS_STORE_MAX,
  LastMoment           \* bound on the clock

ASSUME ReportsAssumption == {TOKEN_TTL, CANVAS_STORE_MAX, LastMoment} \subseteq Nat

VARIABLES
  moment,      \* time.time()
  sheets,      \* the tokens that pages were given
  replayed,    \* _interaction_seen: replayed[token], when it was accepted
  canvases,    \* _fp_canvas_store: the identities it has an entry of
  accused,     \* the identities a report was held against
  acceptedAt   \* history: acceptedAt[token], when this process accepted it last

reportVars == <<moment, sheets, replayed, canvases, accused, acceptedAt>>

WholeSecond(ticks) == ticks \div 2
HalfSeconds(seconds) == 2 * seconds

-----------------------------------------------------------------------------

\* _inject_interaction_probe and its likes.
PutIn(p) ==
  /\ sheets' = sheets \cup {<<p, WholeSecond(moment)>>}
  /\ UNCHANGED <<moment, replayed, canvases, accused, acceptedAt>>

\* Tokens are never from the future here: one clock makes and checks them.
Live(token) == WholeSecond(moment) - token[2] <= TOKEN_TTL
OwnToken(p, token) == token[1] = p

\* Fault: an entry is kept for the TTL of the page.
SinceIssue(token) == HalfSeconds(token[2])

\* _interaction_seen[provided] = _now
SinceAccepted(token) == moment

\* Entries older than the TTL are dropped first.
StillSeen == {t \in DOMAIN replayed : replayed[t] >= moment - HalfSeconds(TOKEN_TTL)}

\* interaction_report_endpoint; the analysis finds fault with what it reports
\* or does not.
ReportInteraction(p, token) ==
  /\ Live(token) /\ OwnToken(p, token)
  /\ IF token \in StillSeen
     THEN /\ replayed' = [t \in StillSeen |-> replayed[t]]
          /\ UNCHANGED <<accused, acceptedAt>>
     ELSE /\ replayed' = [t \in StillSeen \cup {token} |->
                            IF t = token THEN SinceAccepted(token) ELSE replayed[t]]
          /\ acceptedAt' = [t \in DOMAIN acceptedAt \cup {token} |->
                              IF t = token THEN moment ELSE acceptedAt[t]]
          /\ accused' \in {accused, accused \cup {p}}
  /\ UNCHANGED <<moment, sheets, canvases>>

\* botd_report_endpoint: a token that is somebody else's, or of the identity
\* the visitor had before, is held against the sender.
ReportBotd(p, token) ==
  /\ Live(token)
  /\ accused' \in IF OwnToken(p, token) THEN {accused, accused \cup {p}}
                  ELSE {accused \cup {p}}
  /\ UNCHANGED <<moment, sheets, replayed, canvases, acceptedAt>>

\* automation_report_endpoint
ReportAutomation(p, token) ==
  /\ Live(token) /\ OwnToken(p, token)
  /\ accused' \in {accused, accused \cup {p}}
  /\ UNCHANGED <<moment, sheets, replayed, canvases, acceptedAt>>

\* fp_report_endpoint: a full store takes no fingerprint, not even of an
\* identity it knows.
ReportCanvas(p, token) ==
  /\ Live(token) /\ OwnToken(p, token)
  /\ canvases' = IF Cardinality(canvases) < CANVAS_STORE_MAX
                 THEN canvases \cup {p} ELSE canvases
  /\ accused' \in {accused, accused \cup {p}}
  /\ UNCHANGED <<moment, sheets, replayed, acceptedAt>>

-----------------------------------------------------------------------------

HalfASecond ==
  /\ moment < LastMoment
  /\ moment' = moment + 1
  /\ UNCHANGED <<sheets, replayed, canvases, accused, acceptedAt>>

ReportsRestart ==
  /\ replayed' = << >> /\ canvases' = {} /\ acceptedAt' = << >>
  /\ UNCHANGED <<moment, sheets, accused>>

ReportsInit ==
  /\ moment = 0 /\ sheets = {}
  /\ replayed = << >> /\ canvases = {} /\ accused = {} /\ acceptedAt = << >>

ReportsNext ==
  \/ \E p \in Persons :
       \/ PutIn(p)
       \/ \E token \in sheets :
            \/ ReportInteraction(p, token) \/ ReportBotd(p, token)
            \/ ReportAutomation(p, token) \/ ReportCanvas(p, token)
  \/ HalfASecond \/ ReportsRestart

-----------------------------------------------------------------------------

ReportsTypeOK ==
  /\ moment \in 0 .. LastMoment
  /\ sheets \subseteq Persons \X (0 .. WholeSecond(LastMoment))
  /\ DOMAIN replayed \subseteq sheets /\ DOMAIN acceptedAt \subseteq sheets
  /\ canvases \subseteq Persons /\ accused \subseteq Persons

\* "Reject replayed tokens": in a step a process accepts the token of a page again only
\* when the TTL has passed since, although entries are dropped while whole
\* seconds still count the token as live.
ReportSpentOnce ==
  \A t \in DOMAIN acceptedAt \cap DOMAIN acceptedAt' :
    acceptedAt'[t] # acceptedAt[t]
      => acceptedAt'[t] - acceptedAt[t] > HalfSeconds(TOKEN_TTL)

=============================================================================
