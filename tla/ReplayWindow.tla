---------------------------- MODULE ReplayWindow ----------------------------
(***************************************************************************)
(* The replay window of src/transport/srtp.c (RFC 3711 Section 3.3.2),     *)
(* which the SRTP and the SRTCP half of Compy_SrtpRecvCtx both keep.       *)
(*                                                                         *)
(* The 64-bit mask is the set of its one bits: bit d stands for the packet *)
(* d below the highest index seen.                                         *)
(***************************************************************************)
EXTENDS Integers

CONSTANT Window     \* SRTP_REPLAY_WINDOW_SIZE, the bits of the mask

ASSUME WindowAssumption == Window \in Nat \ {0}

Bits == 0 .. Window - 1

\* `replay_window <<= shift`, or 0 when the shift clears all the bits.
ShiftWindow(win, shift) == { d + shift : d \in win } \cap Bits

\* Mutant: the age test is dropped; a shift by 64 or more wraps to bit 0.
Fresh_NoAgeLimit(win, highest, index) ==
    index > highest \/ (highest - index) \notin win

\* What a window answers about index when `highest` is the highest index seen.
Fresh(win, highest, index) ==
    \/ index > highest
    \/ /\ highest - index < Window
       /\ highest - index \notin win

\* Mutant: the bits move one place too few.
Slide_OffByOne(win, highest, index) ==
    IF index > highest
    THEN ShiftWindow(win, index - highest - 1) \cup {0}
    ELSE win \cup {highest - index}

\* The window after index has been accepted.
Slide(win, highest, index) ==
    IF index > highest
    THEN ShiftWindow(win, index - highest) \cup {0}
    ELSE win \cup {highest - index}
=============================================================================
