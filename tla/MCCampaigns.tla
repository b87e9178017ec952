----------------------------- MODULE MCCampaigns -----------------------------
(* Instances of Campaigns for TLC.                                         *)
EXTENDS Campaigns

CONSTANTS g1, g2, k1, c1, c2
=============================================================================
