----------------------------- MODULE MCReplicas -----------------------------
(* A small instance of Replicas for TLC: tables that start empty, or with   *)
(* an account and gateways that know each other; archives made elsewhere,    *)
(* with and without secrets.                                                 *)
EXTENDS Replicas, TLC

Remote(keys) == [public |-> keys, private |-> Nothing, local |-> FALSE,
                 status |-> "active", auto_apply |-> FALSE]
McKeys == CHOOSE k \in KeyPairs : TRUE
McPassword == CHOOSE v \in Values : TRUE
Local(keys) == [Remote(keys) EXCEPT !.private = keys, !.local = TRUE]

McUsed ==
  [Empty EXCEPT !.accounts = [u \in Users |-> [password |-> McPassword, totp |-> FALSE]],
                !.gateways = [g \in Gateways |-> Remote(McKeys)],
                !.rules = Rules]
McEnrolled ==
  [Empty EXCEPT !.gateways = [g \in Gateways |-> Local(McKeys)]]
McStarts ==
  [f \in Families |-> CASE f \in {"accounts", "mesh"} -> {Empty, McUsed}
                       [] f = "orders"               -> {Empty, McEnrolled}
                       [] OTHER                      -> {Empty}]
McOther ==
  [Empty EXCEPT !.accounts = [u \in Users |-> [password |-> McPassword, totp |-> TRUE]],
                !.settings = [k \in Keys |-> McPassword],
                !.gateways = [g \in Gateways |-> Local(McKeys)],
                !.rules = Rules,
                !.orders = [r \in Names \X Signals |-> 3]]
McArchives == {Archived(McOther, TRUE), Archived(McOther, FALSE)}
McMaxOps == [f \in Families |-> IF f \in {"mesh", "orders"} THEN 2
                             ELSE IF f \in {"settings", "accounts"} THEN 3 ELSE 4]

McSymmetry ==
  Permutations(Gateways) \cup Permutations(Keys) \cup Permutations(Sids)
=============================================================================
