----------------------------- MODULE SrtpSender -----------------------------
(***************************************************************************)
(* Compy_RtpTransport over Compy_SrtpTransport: who numbers the packets    *)
(* (src/rtp_transport.c) and who counts the rollovers of that number       *)
(* (src/transport/srtp.c).  The two disagree about a packet that fails:    *)
(* the RTP transport keeps its sequence number, the SRTP transport has     *)
(* already taken note of it.                                               *)
(***************************************************************************)
EXTENDS SrtpIndex

CONSTANT MaxPackets     \* bound: packets sent in one behaviour

\* The extended number does not wrap: fewer than about 2^48 packets per key.
ASSUME MaxPacketsAssumption ==
    MaxPackets \in Nat /\ MaxPackets <= (RocMod - 1) * SeqMod

VARIABLES
    seq_num,        \* RtpTransport: the number of the next packet
    packet_count,   \* RtpTransport: packets sent
    roc,            \* SrtpTransport: rollover counter
    prev_seq,       \* SrtpTransport: the last number transmit was given
    first_seq,      \* history: the random first sequence number
    sent            \* history: <<roc, seq>> of the packets the inner transport took

sendVars == <<seq_num, packet_count, roc, prev_seq, first_seq, sent>>

\* Compy_RtpTransport_new with its random seq_num, compy_transport_srtp.
SendInit ==
    /\ first_seq \in SeqNum
    /\ seq_num = first_seq
    /\ packet_count = 0
    /\ roc = 0
    /\ prev_seq = 0
    /\ sent = {}

\* The size checks of transmit refuse the packet before it touches the counter.
SendPacket_Refused == UNCHANGED sendVars

\* transmit counts the rollover and fails afterwards: a header longer than the
\* packet, or an error of the inner transport.  seq_num stays where it is.
SendPacket_Failed ==
    /\ roc' = SenderRoc(roc, prev_seq, seq_num)
    /\ prev_seq' = seq_num
    /\ UNCHANGED <<seq_num, packet_count, first_seq, sent>>

SendPacket_Sent ==
    /\ packet_count < MaxPackets
    /\ roc' = SenderRoc(roc, prev_seq, seq_num)
    /\ prev_seq' = seq_num
    /\ sent' = sent \cup {<<roc', seq_num>>}
    /\ seq_num' = (seq_num + 1) % SeqMod
    /\ packet_count' = packet_count + 1
    /\ UNCHANGED first_seq

\* Compy_RtpTransport_send_packet over Compy_SrtpTransport_transmit.
SendPacket == SendPacket_Refused \/ SendPacket_Failed \/ SendPacket_Sent

SendSpec == SendInit /\ [][SendPacket]_sendVars
-----------------------------------------------------------------------------
\* The extended number of a packet.
Ext(m) == m[1] * SeqMod + m[2]

SendTypeOK ==
    /\ seq_num \in SeqNum
    /\ packet_count \in Nat
    /\ roc \in Roc
    /\ prev_seq \in SeqNum
    /\ first_seq \in SeqNum
    /\ sent \subseteq Roc \X SeqNum

\* The ROC that goes into the tags counts the wraps of the sequence number
\* exactly: the extended numbers of the packets sent are consecutive from the
\* random first one, however many attempts fail and wherever they fail.
SentConsecutive ==
    { Ext(m) : m \in sent } = first_seq .. first_seq + packet_count - 1
=============================================================================
