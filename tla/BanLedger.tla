----------------------------- MODULE BanLedger -----------------------------
(***************************************************************************)
(* What the table of hostile address bans promises, whatever writes,       *)
(* caches, prunes, fails or restarts around it: the expiry of a row only   *)
(* ever grows, and a row goes away only because it has expired or because  *)
(* an operator asked for it.                                               *)
(***************************************************************************)
EXTENDS Naturals

CONSTANT Keys

VARIABLES
  wall,     \* time.time()
  ledger,   \* ledger[k]: the epoch until which k is banned, 0 for no row
  lifting   \* the keys an operator has asked to clear

lvars == <<wall, ledger, lifting>>

Init ==
  /\ wall \in Nat
  /\ ledger = [k \in Keys |-> 0]
  /\ lifting = {}

\* Rows appear or are extended.
Raise ==
  /\ ledger' \in [Keys -> Nat]
  /\ \A k \in Keys : ledger'[k] >= ledger[k]
  /\ UNCHANGED <<wall, lifting>>

\* The rows of some of the keys `among` are removed.
RemoveAmong(among) ==
  \E gone \in SUBSET among :
    ledger' = [k \in Keys |-> IF k \in gone THEN 0 ELSE ledger[k]]

\* Expired rows are pruned.
Expire ==
  /\ RemoveAmong({k \in Keys : ledger[k] <= wall})
  /\ UNCHANGED <<wall, lifting>>

\* An operator asks for some keys to be cleared ...
Ask ==
  /\ lifting = {}
  /\ lifting' \in SUBSET Keys
  /\ UNCHANGED <<wall, ledger>>

\* ... and the request ends, its rows removed or not.
Answer ==
  /\ RemoveAmong(lifting)
  /\ lifting' = {}
  /\ UNCHANGED wall

Pass ==
  /\ wall' \in Nat /\ wall' > wall
  /\ UNCHANGED <<ledger, lifting>>

Next == Raise \/ Expire \/ Ask \/ Answer \/ Pass

Spec == Init /\ [][Next]_lvars

=============================================================================
