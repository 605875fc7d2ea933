------------------------------- MODULE MCHelm -------------------------------
(***************************************************************************)
(* Helm with one cluster and two charts, of which the version of y cannot  *)
(* be parsed.                                                              *)
(***************************************************************************)
EXTENDS Helm

CONSTANTS c1, x, y
=============================================================================
