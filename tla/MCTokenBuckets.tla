--------------------------- MODULE MCTokenBuckets ---------------------------
(* Visitors on small instances: the second host is the stricter one for      *)
(* identities.                                                               *)
EXTENDS Visitors, TLC

CONSTANTS v, w

McBurst ==
  [l \in Layers |-> [h \in Hosts |-> IF l = "identity" /\ h = w THEN 2 ELSE 4]]
McRefill ==
  [l \in Layers |-> [h \in Hosts |-> IF l = "identity" /\ h = w THEN 1 ELSE 2]]
McFresh == [l \in Layers |-> 4]
McSymmetry == Permutations(Keys)

=============================================================================
