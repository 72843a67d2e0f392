--------------------------- MODULE MCRiskScoring ---------------------------
(* A small instance of RiskScoring for TLC. *)
EXTENDS RiskScoring, TLC

McSeverities == {"risk", "hostile"}
McBanSecs == [s \in McSeverities |-> IF s = "risk" THEN 1 ELSE 2]
McOneHour == [s \in Severities |-> 1]
McSymmetry == Permutations(Ids) \cup Permutations(IPs)
McVhostSymmetry == Permutations(Vhosts)

=============================================================================
