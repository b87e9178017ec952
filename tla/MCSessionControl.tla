--------------------------- MODULE MCSessionControl ---------------------------
(* Instances of SessionControl for TLC.                                    *)
EXTENDS SessionControl

CONSTANTS pg, ssh1, ssh2, gw, api
=============================================================================
