---------------------------- MODULE MCRequestPath ----------------------------
(* Constants of RequestPath for model checking: the clients share an address *)
(* and a fingerprint.                                                        *)
EXTENDS RequestPath, TLC

FpOfAll == [i \in Ids |-> CHOOSE f \in Fps : TRUE]
AddressOfAll == [i \in Ids |-> CHOOSE a \in Addresses : TRUE]

Symmetry == Permutations(Requests)
=============================================================================
