----------------------------- MODULE MCJobQueue -----------------------------
(* Instances of JobQueue for TLC.                                          *)
EXTENDS JobQueue

CONSTANTS j1, j2, j3, w1, w2, workflow, connector

(* j3 is a connector job, which only the second worker handles; both drain *)
(* the workflow jobs.                                                      *)
MixedTypes == [j \in Jobs |-> IF j = j3 THEN connector ELSE workflow]

MixedFilters == [w \in Workers |-> IF w = w1 THEN {workflow} ELSE {}]
=============================================================================
