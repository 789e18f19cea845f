---------------------------- MODULE SrtpReceiver ----------------------------
(***************************************************************************)
(* Compy_SrtpRecvCtx of src/transport/srtp.c, SRTP half: what              *)
(* compy_srtp_recv_unprotect does with a packet, whoever sent it.          *)
(*                                                                         *)
(* A packet is its sequence number, the ROC that its authentication tag    *)
(* was computed over (Forged for a tag that matches none) and the shape    *)
(* its lengths give it.  HMAC-SHA1 is ideal: a tag verifies only for the   *)
(* packet and the ROC it was computed over.                                *)
(***************************************************************************)
EXTENDS SrtpIndex, FiniteSets

Forged == -1

\* "short": *len < 12 + auth_tag_len; "bad": the CSRC list or the extension
\* does not fit in the packet; "ok": the header fits.
Shape == {"short", "bad", "ok"}

Packet == [seq : SeqNum, tag : Roc \cup {Forged}, shape : Shape]

VARIABLES
    recv_roc,       \* ctx->roc
    s_l,            \* ctx->s_l, the highest sequence number seen
    initialized,    \* ctx->initialized
    replay_window,  \* ctx->replay_window, as the set of its one bits
    consumed,       \* history: <<roc, seq>> of the packets marked in the window
    delivered,      \* history: <<roc, seq>> of the packets unprotect returned 0 for
    deliveries      \* history: how many times unprotect returned 0

recvVars == <<recv_roc, s_l, initialized, replay_window,
              consumed, delivered, deliveries>>

Id(p) == <<p.tag, p.seq>>

Highest == PacketIndex(recv_roc, s_l)

Estimate(seq) == EstimateRoc(initialized, recv_roc, s_l, seq)

ReplayCheck(index) == ~initialized \/ Fresh(replay_window, Highest, index)

\* Mutant: a late packet moves roc and s_l too.
ReplayUpdate_FollowsLate(seq, v) ==
    /\ initialized' = TRUE
    /\ replay_window' = IF ~initialized THEN {0}
                        ELSE Slide(replay_window, Highest, PacketIndex(v, seq))
    /\ recv_roc' = v
    /\ s_l' = seq

ReplayUpdate(seq, v) ==
    LET index == PacketIndex(v, seq)
        ahead == ~initialized \/ index > Highest
    IN  /\ initialized' = TRUE
        /\ replay_window' = IF ~initialized THEN {0}
                            ELSE Slide(replay_window, Highest, index)
        /\ recv_roc' = IF ahead THEN v ELSE recv_roc
        /\ s_l' = IF ahead THEN seq ELSE s_l

\* The checks of unprotect in front of replay_update.
Verifies(p) ==
    /\ p.shape # "short"
    /\ ReplayCheck(PacketIndex(Estimate(p.seq), p.seq))
    /\ p.tag = Estimate(p.seq)

Unprotect_Reject(p) == ~Verifies(p) /\ UNCHANGED recvVars

Unprotect_Accept(p) ==
    /\ Verifies(p)
    /\ ReplayUpdate(p.seq, Estimate(p.seq))
    /\ consumed' = consumed \cup {Id(p)}
    /\ IF p.shape = "ok"
       THEN /\ delivered' = delivered \cup {Id(p)}
            /\ deliveries' = deliveries + 1
       ELSE UNCHANGED <<delivered, deliveries>>

\* compy_srtp_recv_unprotect.
Unprotect(p) == Unprotect_Reject(p) \/ Unprotect_Accept(p)

\* compy_srtp_recv_new.
RecvInit ==
    /\ recv_roc = 0
    /\ s_l = 0
    /\ initialized = FALSE
    /\ replay_window = {}
    /\ consumed = {}
    /\ delivered = {}
    /\ deliveries = 0

\* Any packet may arrive, in any order, any number of times.
RecvNext == \E p \in Packet : Unprotect(p)

RecvSpec == RecvInit /\ [][RecvNext]_recvVars
-----------------------------------------------------------------------------
\* The context keeps within the widths of its fields.
RecvTypeOK ==
    /\ recv_roc \in Roc
    /\ s_l \in SeqNum
    /\ initialized \in BOOLEAN
    /\ replay_window \subseteq Bits
    /\ consumed \subseteq Roc \X SeqNum
    /\ delivered \subseteq consumed
    /\ deliveries \in Nat

\* compy_srtp_recv_unprotect never returns 0 twice for one packet index,
\* whatever a peer sends and whatever order, loss and duplication the network
\* adds: as many deliveries as different packets delivered.
NoReplay == deliveries = Cardinality(delivered)

\* No packet index ever seen lies above `highest`, whatever the wrap of the
\* 32-bit index does.
IndexesBelow == \A c \in consumed : PacketIndex(c[1], c[2]) <= Highest

\* The bitmask says exactly which of the last Window indexes were consumed:
\* replay_update forgets none (a replay would pass) and invents none (a late
\* packet would be refused).
WindowExact ==
    initialized =>
        replay_window = { d \in Bits :
            \E c \in consumed : PacketIndex(c[1], c[2]) = Highest - d }

\* The packet index the context stands at never moves back, and a packet that
\* fails its tag, its replay test or its length moves nothing.
HighestMonotonic ==
    [][initialized => Highest' >= Highest]_recvVars
=============================================================================
