--------------------------- MODULE MCPolicyRollout ---------------------------
(* An instance of PolicyRollout for TLC.                                   *)
EXTENDS PolicyRollout, TLC

CONSTANTS p1, p2, f1, c1, c2, alice, db

(* A grant, the wildcard deny it contradicts.                              *)
Grant == [action |-> "grant", subjects |-> {alice}, resources |-> {db}]
Deny  == [action |-> "deny", subjects |-> {alice}, resources |-> {Star}]

TwoDefs == {Grant, Deny}

Symmetry == Permutations(Policies) \cup Permutations(Callers)
=============================================================================
