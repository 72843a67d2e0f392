------------------------------ MODULE MCSettings ------------------------------
(* What operators set and what the gateway hears from and tells the outside, *)
(* on small instances: Settings, with four deployments and two exports;      *)
(* Delivery, the events posted to the operators' receiver; and Lookups, what *)
(* other services say of an address.  The three share no state: a behaviour  *)
(* is about one of them, its topic, and the others stay where they began.    *)
EXTENDS Settings, Delivery, Lookups, TLC

Bare == [pinned |-> {}, secrets |-> {}, optOut |-> FALSE, seed |-> {},
         hosts |-> << >>]

MCEnvironments ==
  {Bare,
   [Bare EXCEPT !.pinned = {"ja4"}, !.seed = {"home"}],
   [Bare EXCEPT !.secrets = {"abuse"}, !.optOut = TRUE,
                !.hosts = "h1" :> {"UPSTREAM"}],
   [Bare EXCEPT !.pinned = {"plain", "ja4"}, !.secrets = {"turnstile"}]}

MCArchives ==
  {[knobs |-> ("ja4" :> TRUE) @@ ("turnstile" :> TRUE), cidrs |-> <<"office">>,
    hosts |-> << >>, secrets |-> {}],
   [knobs |-> ("plain" :> TRUE), cidrs |-> <<"office", "home">>,
    hosts |-> ("h1" :> {"KNOB"}), secrets |-> {"turnstile"}]}

-----------------------------------------------------------------------------

VARIABLE topic

operatorVars == <<vars, deliveryVars, lookupVars, topic>>

OperatorInit ==
  /\ topic \in {"settings", "webhook", "lookups"}
  /\ Init /\ DeliveryInit /\ LookupsInit
  /\ topic # "settings" => env = Bare
  /\ topic # "lookups" => service = "tor" /\ ~listed

OperatorNext ==
  /\ topic' = topic
  /\ \/ topic = "settings" /\ Next
        /\ UNCHANGED <<deliveryVars, lookupVars>>
     \/ topic = "webhook" /\ DeliveryNext
        /\ UNCHANGED <<vars, lookupVars>>
     \/ topic = "lookups" /\ LookupsNext
        /\ UNCHANGED <<vars, deliveryVars>>

OperatorSpec ==
  OperatorInit /\ [][OperatorNext]_operatorVars /\ DeliveryFairness
=============================================================================
