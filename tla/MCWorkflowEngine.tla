--------------------------- MODULE MCWorkflowEngine ---------------------------
(* Instances of WorkflowEngine for TLC.                                    *)
EXTENDS WorkflowEngine, TLC

CONSTANTS r1, a1, a2, j1, j2

(* Approvers and jobs are interchangeable; no liveness is checked.         *)
Symmetry == Permutations(Approvers) \cup Permutations(Jobs)
=============================================================================
