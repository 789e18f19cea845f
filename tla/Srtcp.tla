-------------------------------- MODULE Srtcp --------------------------------
(***************************************************************************)
(* Compy_SrtcpTransport and the SRTCP half of Compy_SrtpRecvCtx            *)
(* (src/transport/srtp.c), joined by a network that loses, repeats,        *)
(* reorders and damages packets.                                           *)
(*                                                                         *)
(* The sender numbers its packets with a uint32_t; bit 31 of the word on   *)
(* the wire is the E-flag, so the receiver sees the index modulo WireMod.  *)
(* The code has WireMod = 2^31 and Window = 64.                            *)
(***************************************************************************)
EXTENDS ReplayWindow, FiniteSets

CONSTANTS
    WireMod,    \* 2^width of the index on the wire (31 bits)
    MaxReports  \* bound: packets encrypted in one behaviour

ASSUME SrtcpAssumption == WireMod \in Nat \ {0} /\ MaxReports \in Nat

WireIndex   == 0 .. WireMod - 1
SenderIndex == 0 .. 2 * WireMod - 1     \* uint32_t srtcp_index

VARIABLES
    srtcp_index,            \* SrtcpTransport: the index of the next packet
    srtcp_highest_index,    \* ctx->srtcp_highest_index
    srtcp_replay_window,    \* ctx->srtcp_replay_window, the set of its one bits
    encrypted,              \* history: how many packets were encrypted
    used,                   \* history: the indexes they were encrypted with
    wire,                   \* history: the index fields the network got
    accepted,               \* history: the indexes unprotect returned 0 for
    acceptances             \* history: how many times it did

sendVars == <<srtcp_index, encrypted, used, wire>>
recvVars == <<srtcp_highest_index, srtcp_replay_window,
              accepted, acceptances>>
vars == <<sendVars, recvVars>>

\* compy_transport_srtcp, compy_srtp_recv_new.
Init ==
    /\ srtcp_index = 0
    /\ srtcp_highest_index = 0
    /\ srtcp_replay_window = {}
    /\ encrypted = 0
    /\ used = {}
    /\ wire = {}
    /\ accepted = {}
    /\ acceptances = 0
-----------------------------------------------------------------------------
\* The size checks refuse the packet before it is encrypted.
Transmit_Refused == UNCHANGED vars

\* Mutant: the index advances only if the inner transport took the packet.
Transmit_Advance_OnSuccess(taken) ==
    srtcp_index' = IF taken THEN (srtcp_index + 1) % (2 * WireMod) ELSE srtcp_index

\* srtcp_index++ comes before the inner transport is called.
Transmit_Advance(taken) == srtcp_index' = (srtcp_index + 1) % (2 * WireMod)

\* The packet is encrypted; the inner transport takes it or fails.
Transmit_Encrypt(taken) ==
    /\ encrypted < MaxReports
    /\ encrypted' = encrypted + 1
    /\ used' = used \cup {srtcp_index}
    /\ Transmit_Advance(taken)
    /\ wire' = IF taken THEN wire \cup {srtcp_index % WireMod} ELSE wire
    /\ UNCHANGED recvVars

\* Compy_SrtcpTransport_transmit.
Transmit == Transmit_Refused \/ \E taken \in BOOLEAN : Transmit_Encrypt(taken)
-----------------------------------------------------------------------------
\* Too short, or the tag does not verify.
Unprotect_Damaged == UNCHANGED vars

\* An authentic packet whose index is too old or already seen.
Unprotect_Replay(i) ==
    /\ ~Fresh(srtcp_replay_window, srtcp_highest_index, i)
    /\ UNCHANGED vars

Unprotect_Accept(i) ==
    /\ Fresh(srtcp_replay_window, srtcp_highest_index, i)
    /\ srtcp_replay_window' = Slide(srtcp_replay_window, srtcp_highest_index, i)
    /\ srtcp_highest_index' = IF i > srtcp_highest_index THEN i ELSE srtcp_highest_index
    /\ accepted' = accepted \cup {i}
    /\ acceptances' = acceptances + 1
    /\ UNCHANGED sendVars

\* compy_srtcp_recv_unprotect on an authentic packet of index i.
Unprotect(i) == Unprotect_Replay(i) \/ Unprotect_Accept(i)

Next ==
    \/ Transmit
    \/ Unprotect_Damaged
    \/ \E i \in wire : Unprotect(i)

Spec == Init /\ [][Next]_vars
-----------------------------------------------------------------------------
TypeOK ==
    /\ srtcp_index \in SenderIndex
    /\ srtcp_highest_index \in WireIndex
    /\ srtcp_replay_window \subseteq Bits
    /\ encrypted \in 0 .. MaxReports
    /\ used \subseteq SenderIndex
    /\ wire \subseteq WireIndex
    /\ accepted \subseteq wire
    /\ acceptances \in Nat

\* No two packets are encrypted with one index (one keystream), also when the
\* inner transport fails in between, until the uint32_t is exhausted.
IndexNeverReused ==
    encrypted <= 2 * WireMod => Cardinality(used) = encrypted

\* The receiver returns 0 at most once for an index and only for an index some
\* holder of the key sent.
Promise == INSTANCE AtMostOnce WITH
    Message <- WireIndex,
    offered <- wire,
    accepted <- accepted,
    count <- acceptances

KeepsPromise == Promise!Spec

\* The mask is the exact picture of what was accepted: a packet that comes late
\* but inside the window is refused only if it was accepted before.  There is no
\* `initialized` flag here, so this covers the first packet, whose index 0 is
\* the initial srtcp_highest_index.
WindowExact ==
    /\ \A i \in accepted : i <= srtcp_highest_index
    /\ srtcp_replay_window = { d \in Bits : srtcp_highest_index - d \in accepted }
=============================================================================
