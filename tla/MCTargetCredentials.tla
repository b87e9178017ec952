------------------------- MODULE MCTargetCredentials -------------------------
(* Instances of TargetCredentials for TLC.                                 *)
EXTENDS TargetCredentials

CONSTANTS s1, m1, l1, c1

(* Bound: in one behaviour somebody rotates by hand or a dynamic           *)
(* credential is minted, not both.  Either meets the scheduler's rotations *)
(* and sweeps.  Only steps that nobody is obliged to take are left out, so *)
(* fairness means what it does in FairSpec.                                *)
MCNext == Next /\ (count'.manual = 0 \/ \A c \in Creds : mint'[c] = "idle")

MCFairSpec == Init /\ [][MCNext]_vars /\ Fairness
=============================================================================
