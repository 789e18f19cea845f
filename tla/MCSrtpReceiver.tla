--------------------------- MODULE MCSrtpReceiver ---------------------------
(***************************************************************************)
(* SrtpReceiver against every peer: all packets of a 3-value rollover      *)
(* counter, a 4-value sequence number and an index that wraps after two    *)
(* rollovers.                                                              *)
(***************************************************************************)
EXTENDS SrtpReceiver
=============================================================================
