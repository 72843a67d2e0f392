------------------------------ MODULE Visitors ------------------------------
(* What a visitor may do how often: the token buckets (TokenBuckets), the    *)
(* challenges (PowTokens), the execution probe (CanaryProbe) and the reports *)
(* of a page (PageReports).  The four share no state: a behaviour is about   *)
(* one of them, its topic, and the others stay where they began.             *)
EXTENDS TokenBuckets, PowTokens, CanaryProbe, PageReports

VARIABLE topic

visitorVars == <<vars, powVars, probeVars, reportVars, topic>>

VisitorInit ==
  /\ topic \in {"buckets", "work", "probe", "reports"}
  /\ Init /\ PowInit /\ ProbeInit /\ ReportsInit
  /\ topic # "buckets" => layer = "socket"

VisitorNext ==
  /\ topic' = topic
  /\ \/ topic = "buckets" /\ Next
        /\ UNCHANGED <<powVars, probeVars, reportVars>>
     \/ topic = "work" /\ PowNext
        /\ UNCHANGED <<vars, probeVars, reportVars>>
     \/ topic = "probe" /\ ProbeNext
        /\ UNCHANGED <<vars, powVars, reportVars>>
     \/ topic = "reports" /\ ReportsNext
        /\ UNCHANGED <<vars, powVars, probeVars>>

VisitorSpec == VisitorInit /\ [][VisitorNext]_visitorVars

-----------------------------------------------------------------------------

\* What is accepted once stays spent for as long as it is valid: the solution
\* of a challenge and the report of a page are not accepted a second time
\* within their TTL, though the tables that remember them are pruned while
\* whole seconds still count them as live.
SpentOnce == [][TokenSpentOnce /\ ReportSpentOnce]_visitorVars

=============================================================================
