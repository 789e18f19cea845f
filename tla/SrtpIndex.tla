----------------------------- MODULE SrtpIndex -----------------------------
(***************************************************************************)
(* The packet-index arithmetic of src/transport/srtp.c: the 48-bit index   *)
(* of RFC 3711 kept in a uint32_t and the receiver's estimate of the       *)
(* rollover counter (ROC).                                                 *)
(*                                                                         *)
(* The widths are constants so that TLC can reach a rollover of each of    *)
(* them; the code has SeqMod = 2^16, Half = 0x8000, RocMod = 2^32,         *)
(* and IdxMod = 2^32.                                                      *)
(***************************************************************************)
EXTENDS ReplayWindow

CONSTANTS
    SeqMod,     \* 2^width of an RTP sequence number (uint16_t)
    Half,       \* the 0x8000 of estimate_roc and of the rollover test
    RocMod,     \* 2^width of the rollover counter (uint32_t)
    IdxMod      \* 2^width of a packet index (uint32_t)

ASSUME WidthAssumption ==
    /\ Half \in Nat \ {0}
    /\ SeqMod = 2 * Half
    /\ RocMod \in Nat \ {0}
    /\ \E k \in 1 .. RocMod : IdxMod = k * SeqMod
    /\ Window <= Half

SeqNum == 0 .. SeqMod - 1
Roc    == 0 .. RocMod - 1
Index  == 0 .. IdxMod - 1

\* `v * 65536 + seq` in uint32_t arithmetic.
PacketIndex(v, seq) == (v * SeqMod + seq) % IdxMod

\* The rollover test of the sender, before seq becomes prev_seq.
RolledOver(prev_seq, seq) == seq < prev_seq /\ prev_seq - seq > Half - 1

\* Mutant: the distance test is dropped and a retry of the same number counts.
SenderRoc_CountsRetry(roc, prev_seq, seq) ==
    IF seq <= prev_seq /\ prev_seq > 0 THEN (roc + 1) % RocMod ELSE roc

SenderRoc(roc, prev_seq, seq) ==
    IF RolledOver(prev_seq, seq) THEN (roc + 1) % RocMod ELSE roc

\* Mutant: the backward case is forgotten, so a late packet gets the new ROC.
EstimateRoc_NoBackward(initialized, roc, s_l, seq) ==
    IF ~initialized THEN 0
    ELSE IF s_l >= Half /\ s_l - Half > seq THEN (roc + 1) % RocMod ELSE roc

(***************************************************************************)
(* estimate_roc.  seq - s_l is computed in int, so it is negative for a    *)
(* packet behind s_l and the test fails.                                   *)
(***************************************************************************)
EstimateRoc(initialized, roc, s_l, seq) ==
    IF ~initialized THEN 0
    ELSE IF s_l < Half
         THEN IF seq - s_l > Half
              THEN IF roc = 0 THEN 0 ELSE roc - 1
              ELSE roc
         ELSE IF s_l - Half > seq
              THEN (roc + 1) % RocMod
              ELSE roc
=============================================================================
