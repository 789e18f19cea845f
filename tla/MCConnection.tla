---------------------------- MODULE MCConnection ----------------------------
(***************************************************************************)
(* Connection for TLC: threads as model values.                            *)
(***************************************************************************)
EXTENDS Connection
=============================================================================
