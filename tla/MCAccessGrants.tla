--------------------------- MODULE MCAccessGrants ---------------------------
(* Instances of AccessGrants for TLC.                                      *)
EXTENDS AccessGrants, TLC

CONSTANT e1

(* All requests ask for the same entitlement.                              *)
SameEntitlement == [r \in Requests |-> e1]

Interchange == Permutations(Requests) \cup Permutations(Grants) \cup Permutations(Callers)
=============================================================================
