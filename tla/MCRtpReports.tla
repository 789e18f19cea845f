---------------------------- MODULE MCRtpReports ----------------------------
(* RtpReports with scaled-down clocks and counters. *)
EXTENDS RtpReports

\* On time, late, and ahead of the clock (a packet sent before its time).
MCLags == {-2, 0, 5}
=============================================================================
