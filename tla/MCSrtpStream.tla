---------------------------- MODULE MCSrtpStream ----------------------------
(***************************************************************************)
(* SrtpStream with an 8-value sequence number, every first number, and     *)
(* enough packets to wrap it and, from the later first numbers, to wrap    *)
(* the 16-value index as well.                                             *)
(***************************************************************************)
EXTENDS SrtpStream
=============================================================================
