------------------------------ MODULE MCStores ------------------------------
(* What a gateway keeps outside its own process, on small instances:         *)
(* Backends, the log of events and the database that is in charge of it; and *)
(* SharedBans, the bans that two gateways share through Redis.  The two      *)
(* share no state: a behaviour is about one of them, its topic, and the      *)
(* other stays where it began.                                               *)
EXTENDS Backends, SharedBans

VARIABLE topic

storesVars == <<backendsVars, sharedVars, topic>>

StoresInit ==
  /\ topic \in {"log", "redis"}
  /\ BackendsInit /\ SharedBansInit
  /\ topic = "log" => \A g \in Gateways : started[g]
  /\ topic = "redis" => env /\ liteDsn = NoDsn

StoresNext ==
  /\ topic' = topic
  /\ \/ topic = "log" /\ BackendsNext /\ UNCHANGED sharedVars
     \/ topic = "redis" /\ SharedBansNext /\ UNCHANGED backendsVars

StoresSpec == StoresInit /\ [][StoresNext]_storesVars
=============================================================================
