------------------------------- MODULE MCAuth -------------------------------
(* Auth with clients and nonces as model values. *)
EXTENDS Auth
=============================================================================
