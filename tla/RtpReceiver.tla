---------------------------- MODULE RtpReceiver ----------------------------
(***************************************************************************)
(* The RTP header (src/types/rtp.c), Compy_RtpReceiver (src/receiver.c)    *)
(* which reads it, and the length that the SRTP transport takes it to have *)
(* (src/transport/srtp.c).                                                 *)
(*                                                                         *)
(* A packet is a sequence of octets.  The fields that the code copies as   *)
(* they lie in memory are sequences of octets here as well.                *)
(***************************************************************************)
EXTENDS Integers, SequencesExt

CONSTANTS
    RtpHeaders,     \* headers of the packets that the peer sends
    Payloads,       \* their payloads
    MaxFeeds        \* bound: packets fed

RtpOctet == 0 .. 255
Octets(n) == [1 .. n -> RtpOctet]
Words16 == {n \in Nat : 4 * n < 256 * 256}

\* What the fields of Compy_RtpHeader have room for; an extension has the words
\* that it announces.  Compy_RtpHeader_serialize counts their octets in a uint16_t
\* and does not come to an end with 2^14 words or more, so they are fewer: the
\* transport writes at most 3, and no more fit in a datagram or an interleaved frame.
BitsFit(h) == h.padding \in BOOLEAN /\ h.extension \in BOOLEAN /\ h.marker \in BOOLEAN
NumbersFit(h) == h.version \in 0 .. 3 /\ h.payload_ty \in 0 .. 127
WordsFit(h) ==
    /\ h.sequence_number \in Octets(2) /\ h.timestamp \in Octets(4) /\ h.ssrc \in Octets(4)
    /\ h.csrc \in Seq(Octets(4)) /\ Len(h.csrc) <= 15
ExtensionFits(h) ==
    /\ h.extension_profile \in Octets(2) /\ h.extension_payload_len \in Words16
    /\ h.extension_payload \in Seq(RtpOctet)
    /\ Len(h.extension_payload) >= 4 * h.extension_payload_len
HeaderFits(h) ==
    BitsFit(h) /\ NumbersFit(h) /\ WordsFit(h) /\ (h.extension => ExtensionFits(h))

ASSUME FeedAssumption ==
    /\ \A h \in RtpHeaders : HeaderFits(h)
    /\ Payloads \subseteq Seq(RtpOctet)

VARIABLES
    f_sent,         \* history: header, payload and length on arrival of each packet
    f_results,      \* history: what Compy_RtpReceiver_feed returned for each
    f_audio,        \* history: calls of on_audio, with the packet they were for
    f_rtcp          \* history: packets that were handed to the RTCP session

feedVars == <<f_sent, f_results, f_audio, f_rtcp>>

Failure == -1
Bit(b) == IF b THEN 1 ELSE 0

\* Compy_RtpHeader_size.
HeaderSize(h) ==
    12 + 4 * Len(h.csrc) + (IF h.extension THEN 4 + 4 * h.extension_payload_len ELSE 0)

\* Compy_RtpHeader_serialize, with htons for the length of the extension.  The
\* loops have ended: see ExtensionFits.
Serialize(h) ==
    <<64 * h.version + 32 * Bit(h.padding) + 16 * Bit(h.extension) + Len(h.csrc),
      128 * Bit(h.marker) + h.payload_ty>>
    \o h.sequence_number \o h.timestamp \o h.ssrc \o FlattenSeq(h.csrc)
    \o IF h.extension
       THEN h.extension_profile
            \o <<h.extension_payload_len \div 256, h.extension_payload_len % 256>>
            \o SubSeq(h.extension_payload, 1, 4 * h.extension_payload_len)
       ELSE <<>>

\* ntohs of two octets of the packet.
Words(data, at) == data[at + 1] * 256 + data[at + 2]

\* Mutant: the words of the extension are counted without its own header.
ExtensionEnd_Short(data, at) == at + 4 * Words(data, at + 2)

\* The end of the extension that begins at `at`.
ExtensionEnd(data, at) == at + 4 + 4 * Words(data, at + 2)

HasExtension(data) == (data[1] \div 16) % 2 = 1

\* Compy_RtpHeader_deserialize: the number of octets read, or -1.
Deserialize(data) ==
    IF Len(data) < 12 \/ data[1] \div 64 # 2 THEN Failure
    ELSE LET csrc_end == 12 + 4 * (data[1] % 16)
         IN  IF Len(data) < csrc_end THEN Failure
             ELSE IF ~HasExtension(data) THEN csrc_end
             ELSE IF Len(data) < csrc_end + 4 THEN Failure
             ELSE IF Len(data) < ExtensionEnd(data, csrc_end) THEN Failure
             ELSE ExtensionEnd(data, csrc_end)

\* header_len of the SRTP transport and the receive context: an extension
\* that is cut short is taken for payload.
SrtpHeaderLen(data) ==
    LET csrc_end == 12 + 4 * (data[1] % 16)
        end == IF HasExtension(data) /\ csrc_end + 4 <= Len(data)
               THEN csrc_end + 4 + 4 * Words(data, csrc_end + 2) ELSE csrc_end
    IN  IF csrc_end > Len(data) \/ end > Len(data) THEN Failure ELSE end

FeedInit == f_sent = <<>> /\ f_results = <<>> /\ f_audio = <<>> /\ f_rtcp = <<>>

\* Compy_Rtcp_handle_incoming, as far as its result: too short, another
\* version, or a Receiver Report (201) without the block that it announces.
HandleRtcp(data) ==
    IF \/ Len(data) < 4 \/ data[1] \div 64 # 2
       \/ data[2] = 201 /\ data[1] % 32 > 0 /\ Len(data) < 32
    THEN -1 ELSE 0

\* The callback: what it is told of the packet.
OnAudio(data, size) ==
    [nth |-> Len(f_sent) + 1, payload_ty |-> data[2] % 128,
     timestamp |-> SubSeq(data, 5, 8), ssrc |-> SubSeq(data, 9, 12),
     payload |-> SubSeq(data, size + 1, Len(data))]

\* Compy_RtpReceiver_feed.  Channel 0 is RTCP, channel 1 RTP; without an
\* audio receiver, or an RTCP session (Compy_Backchannel has none), the packet
\* is passed over.
Feed(channel, data, listens, has_rtcp) ==
    LET size == Deserialize(data)
    IN  CASE channel = 0 ->
             /\ f_results' = Append(f_results, IF has_rtcp THEN HandleRtcp(data) ELSE 0)
             /\ f_rtcp' = IF has_rtcp THEN Append(f_rtcp, Len(f_sent) + 1) ELSE f_rtcp
             /\ UNCHANGED f_audio
          [] channel = 1 /\ ~listens ->
             f_results' = Append(f_results, 0) /\ UNCHANGED <<f_audio, f_rtcp>>
          [] channel = 1 /\ listens /\ size = Failure ->
             f_results' = Append(f_results, -1) /\ UNCHANGED <<f_audio, f_rtcp>>
          [] channel = 1 /\ listens /\ size # Failure ->
             /\ f_results' = Append(f_results, 0)
             /\ f_audio' = Append(f_audio, OnAudio(data, size))
             /\ UNCHANGED f_rtcp
          [] OTHER -> f_results' = Append(f_results, -1) /\ UNCHANGED <<f_audio, f_rtcp>>

\* The peer (external) sends a packet, of which the first n octets arrive at
\* one of the receivers.
FeedNext ==
    /\ Len(f_sent) < MaxFeeds
    /\ \E h \in RtpHeaders, p \in Payloads, channel \in 0 .. 2, listens, has_rtcp \in BOOLEAN :
       \E n \in {0, HeaderSize(h), HeaderSize(h) + Len(p)} \cup
                {HeaderSize(h) - k : k \in {1, 3, 4, 5}} :
           /\ f_sent' = Append(f_sent, [hdr |-> h, payload |-> p, len |-> n, channel |-> channel,
                                        listens |-> listens, has_rtcp |-> has_rtcp])
           /\ Feed(channel, SubSeq(Serialize(h) \o p, 1, n), listens, has_rtcp)

FeedSpec == FeedInit /\ [][FeedNext]_feedVars

\* A packet whose header arrived whole is heard once, with the payload type,
\* the times and the payload that were sent; one that was cut in its header is
\* refused and not heard; nothing is heard on another channel.  The three ways
\* to find the end of the header agree: the size that is computed to write it,
\* the one that is read, and the one of the SRTP layer, which must not encrypt
\* more or less.
FeedExact ==
    /\ \A n \in DOMAIN f_sent :
           LET s == f_sent[n]
               heard == {i \in DOMAIN f_audio : f_audio[i].nth = n}
               whole == s.len >= HeaderSize(s.hdr) /\ s.hdr.version = 2
           IN  /\ heard # {} <=> s.channel = 1 /\ s.listens /\ whole
               /\ \A i \in heard :
                      f_audio[i] = [nth |-> n, payload_ty |-> s.hdr.payload_ty,
                                    timestamp |-> s.hdr.timestamp, ssrc |-> s.hdr.ssrc,
                                    payload |-> SubSeq(s.payload, 1, s.len - HeaderSize(s.hdr))]
               /\ s.channel # 0 =>
                      (f_results[n] = -1 <=> s.channel = 2 \/ (s.listens /\ ~whole))
               /\ (\E i \in DOMAIN f_rtcp : f_rtcp[i] = n) <=> s.channel = 0 /\ s.has_rtcp
               /\ HeaderSize(s.hdr) = Len(Serialize(s.hdr))
               /\ HeaderSize(s.hdr) = SrtpHeaderLen(Serialize(s.hdr) \o s.payload)
    /\ IsInjective([i \in DOMAIN f_audio |-> f_audio[i].nth])
=============================================================================
