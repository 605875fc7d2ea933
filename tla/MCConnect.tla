------------------------------ MODULE MCConnect ------------------------------
(***************************************************************************)
(* Connect with a cluster c that is connected and disconnected, a          *)
(* cluster d that stays connected, and a cluster e without a secret.       *)
(***************************************************************************)
EXTENDS Connect

CONSTANTS c, d, e
=============================================================================
