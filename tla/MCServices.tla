----------------------------- MODULE MCServices -----------------------------
(* What a gateway does while others do not answer, on small instances:       *)
(* Upstream, the breaker of the sites and the decoy pages; and SharedBans    *)
(* with one gateway, whose retry queue can hold more than one ban.  The two  *)
(* share no state: a behaviour is about one of them, its topic, and the      *)
(* other stays where it began.                                               *)
EXTENDS Upstream, SharedBans

VARIABLE topic

servicesVars == <<upstreamVars, sharedVars, topic>>

ServicesInit ==
  /\ topic \in {"sites", "redis"}
  /\ UpstreamInit /\ SharedBansInit
  /\ topic = "sites" => \A g \in Gateways : started[g]

ServicesNext ==
  /\ topic' = topic
  /\ \/ topic = "sites" /\ UpstreamNext /\ UNCHANGED sharedVars
     \/ topic = "redis" /\ SharedBansNext /\ UNCHANGED upstreamVars

ServicesSpec ==
  /\ ServicesInit /\ [][ServicesNext]_servicesVars
  /\ UpstreamFairness /\ SharedBansFairness
=============================================================================
