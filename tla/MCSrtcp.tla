------------------------------ MODULE MCSrtcp ------------------------------
(***************************************************************************)
(* Srtcp with an 8-value index on the wire: more reports than that, so     *)
(* that the index wraps, and a window of 3.                                *)
(***************************************************************************)
EXTENDS Srtcp
=============================================================================
