---------------------------- MODULE MCPamAccess ----------------------------
(* Instances of PamAccess for TLC.                                         *)
EXTENDS PamAccess, TLC

CONSTANTS l1, t1, t2, c1, c2, g1, a1

(* Both connections land on the one gateway.                               *)
OneGateway == [c \in Conns |-> g1]

(* Connections interchange, tokens interchange: the specification treats   *)
(* the members of each set alike.                                          *)
Interchange == Permutations(Tokens) \cup Permutations(Conns)
=============================================================================
