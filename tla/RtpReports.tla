----------------------------- MODULE RtpReports -----------------------------
(***************************************************************************)
(* Compy_RtpTransport (src/rtp_transport.c) and the Compy_Rtcp that        *)
(* reports on it (src/rtcp.c): the counters and clocks behind the Sender   *)
(* Reports, while sends fail, counters and timestamps wrap, and somebody   *)
(* sets the wall clock.                                                    *)
(*                                                                         *)
(* Time is in units of the code's microsecond.  The code has Kilo = 1000,  *)
(* TsMod = CountMod = 2^32 and TimeMod = 2^64.                             *)
(***************************************************************************)
EXTENDS Integers

CONSTANTS
    Kilo,           \* microseconds per millisecond, milliseconds per second
    clock_rate,     \* RTP ticks per second
    TsMod,          \* 2^width of an RTP timestamp
    CountMod,       \* 2^width of packet_count and octet_count
    TimeMod,        \* 2^width of last_send_time_us
    Kinds,          \* the kinds of timestamp the application uses
    Sizes,          \* payload sizes, header included
    Junk,           \* what malloc may leave in last_send_time_us
    WallOffsets,    \* how far the wall clock may be from the monotonic one
    Lags,           \* how far a packet's media time may lie behind the clock
    MaxTime,        \* bound: the monotonic clock stops here
    MaxPackets      \* bound: packets sent in one behaviour

ASSUME RtpReportsAssumption ==
    /\ Kilo \in Nat \ {0} /\ clock_rate \in Nat
    /\ TsMod \in Nat \ {0} /\ CountMod \in Nat \ {0} /\ TimeMod \in Nat \ {0}
    /\ Kinds \subseteq {"Raw", "SysClockUs"}
    /\ Sizes \subseteq Nat /\ WallOffsets \subseteq Nat
    /\ Lags \subseteq Int
    /\ Junk \subseteq 0 .. TimeMod - 1
    /\ MaxTime \in Nat \ {0} /\ MaxPackets \in Nat

None == [none |-> TRUE]     \* no report yet

VARIABLES
    now,                \* CLOCK_MONOTONIC
    wall,               \* CLOCK_REALTIME - CLOCK_MONOTONIC
    packet_count,       \* RtpTransport
    octet_count,        \* RtpTransport
    last_rtp_timestamp, \* RtpTransport
    last_send_time_us,  \* RtpTransport
    ntp_once,           \* ntp_init_once has run (pthread_once)
    mono_to_ntp,        \* g_mono_to_ntp_sec
    has_rr,             \* Rtcp: a report block is kept in last_rr
    packets,            \* history: packets the transport took
    octets,             \* history: their payload octets
    lag,                \* history: by how much the last one was late
    sr                  \* history: the last Sender Report that left

rtpVars == <<packet_count, octet_count, last_rtp_timestamp,
             last_send_time_us, packets, octets, lag>>
rtcpVars == <<ntp_once, mono_to_ntp, has_rr, sr>>
vars == <<now, wall, rtpVars, rtcpVars>>

\* Compy_RtpTransport_new leaves last_send_time_us as malloc returned it.  The
\* monotonic clock has left 0 before any process runs.
Init ==
    /\ now = 1
    /\ wall \in WallOffsets
    /\ packet_count = 0 /\ octet_count = 0
    /\ last_rtp_timestamp = 0
    /\ last_send_time_us \in Junk
    /\ ntp_once = FALSE /\ mono_to_ntp = 0
    /\ has_rr = FALSE
    /\ packets = 0 /\ octets = 0 /\ lag = 0
    /\ sr = None
-----------------------------------------------------------------------------
Tick ==
    /\ now < MaxTime
    /\ now' = now + 1
    /\ UNCHANGED <<wall, rtpVars, rtcpVars>>

\* Somebody (NTP, the user) sets CLOCK_REALTIME.
SetWallClock ==
    /\ wall' \in WallOffsets
    /\ UNCHANGED <<now, rtpVars, rtcpVars>>

\* The RTP clock of the media: clock_rate ticks per second.
Ticks(time) == (time * clock_rate) \div (Kilo * Kilo)

\* compute_timestamp of Compy_RtpTimestamp_SysClockUs.  The rate is cut to
\* whole kHz first.
SysClockTimestamp(time) ==
    LET us_rem == time % Kilo
        ms     == time \div Kilo
        kHz    == clock_rate \div Kilo
    IN  (ms * kHz + ((us_rem * kHz) \div Kilo)) % TsMod

\* What the application passes for a packet whose media time is `time`: a Raw
\* timestamp it has computed itself, since it knows the rate, or the time.
Argument(kind, time) == IF kind = "SysClockUs" THEN time ELSE Ticks(time) % TsMod

\* compute_timestamp.
ComputeTimestamp(kind, arg) ==
    IF kind = "SysClockUs" THEN SysClockTimestamp(arg) ELSE arg

\* Mutant: the packet is counted before transmit has taken it.
SendPacket_Failed_Counts ==
    /\ packet_count' = (packet_count + 1) % CountMod
    /\ UNCHANGED <<now, wall, octet_count, last_rtp_timestamp,
                   last_send_time_us, packets, octets, lag, rtcpVars>>

SendPacket_Failed == UNCHANGED vars

\* The clock is read behind transmit, which may block, and the media time of the
\* packet is whatever the application says: it lies `late` before the reading,
\* or behind it.
SendPacket_Sent(kind, size, late) ==
    /\ packets < MaxPackets
    /\ now - late >= 0
    /\ packet_count' = (packet_count + 1) % CountMod
    /\ octet_count' = (octet_count + size) % CountMod
    /\ last_rtp_timestamp' = ComputeTimestamp(kind, Argument(kind, now - late))
    /\ last_send_time_us' = now
    /\ packets' = packets + 1
    /\ octets' = octets + size
    /\ lag' = late
    /\ UNCHANGED <<now, wall, rtcpVars>>

\* Compy_RtpTransport_send_packet.
SendPacket ==
    \/ SendPacket_Failed
    \/ \E kind \in Kinds, size \in Sizes, late \in Lags : SendPacket_Sent(kind, size, late)

\* Compy_RtpTransport_get_rtp_timestamp_now.
RtpTimestampNow ==
    IF last_send_time_us = 0 THEN last_rtp_timestamp
    ELSE LET elapsed == (now - last_send_time_us) % TimeMod
             ticks   == ((elapsed * clock_rate) % TimeMod) \div (Kilo * Kilo)
         IN  (last_rtp_timestamp + ticks) % TsMod

\* ntp_init_once: the two clocks are subtracted in whole seconds.
WallOffset ==
    LET second == Kilo * Kilo
    IN  second * ((now + wall) \div second - now \div second)

\* Mutant: the wall clock is read for every report.
NtpOffset_EveryTime == WallOffset

\* get_ntp_timestamp: the offset to the wall clock is read once per process.
NtpOffset == IF ntp_once THEN mono_to_ntp ELSE WallOffset

NtpInitOnce == ntp_once' = TRUE /\ mono_to_ntp' = NtpOffset

SendSr_Failed ==
    /\ NtpInitOnce
    /\ UNCHANGED <<now, wall, rtpVars, has_rr, sr>>

SendSr_Sent ==
    /\ NtpInitOnce
    /\ sr' = [ntp |-> now + NtpOffset, rtp |-> RtpTimestampNow,
              packets |-> packet_count, octets |-> octet_count,
              started |-> packets > 0, lag |-> lag]
    /\ UNCHANGED <<now, wall, rtpVars, has_rr>>

\* Compy_Rtcp_send_sr.
SendSr == SendSr_Failed \/ SendSr_Sent

\* Compy_Rtcp_send_bye, whether it leaves or not.
SendBye == UNCHANGED vars

\* Compy_Rtcp_handle_incoming: the first report block of a Receiver Report is
\* kept; a short or foreign packet, and one without a block, changes nothing.
HandleIncoming ==
    \/ UNCHANGED vars
    \/ /\ has_rr' = TRUE
       /\ UNCHANGED <<now, wall, rtpVars, ntp_once, mono_to_ntp, sr>>

Next == Tick \/ SetWallClock \/ SendPacket \/ SendSr \/ SendBye \/ HandleIncoming

Spec == Init /\ [][Next]_vars
-----------------------------------------------------------------------------
\* a and b are at most n ticks apart on the clock that wraps at TsMod.
Near(a, b, n) == (a - b) % TsMod <= n \/ (b - a) % TsMod <= n

\* The NTP time at which the medium is where a report's RTP timestamp says: the
\* report's own, less the lateness of the packet it extrapolates from.
MediaTime(report) == report.ntp - report.lag

\* What a receiver does with two Sender Reports: between them the RTP clock has
\* run at clock_rate against the NTP clock, and is off by just as much as the last
\* packet before the one was later, when get_rtp_timestamp_now's clock was read,
\* than the last packet before the other: a report takes over the lateness of one
\* packet and none of the earlier ones.  It holds also if the wall clock was set
\* in between, sends failed, or a timestamp wrapped.  Rounding costs two ticks.
SrConsistent ==
    [][sr # None /\ sr' # sr /\ sr.started =>
         Near(sr'.rtp - sr.rtp, Ticks(MediaTime(sr') - MediaTime(sr)), 2)]_vars

\* A report counts the packets and octets the transport took, and no failed
\* ones, modulo the width of the fields.
SrCountsWire ==
    [][sr' # sr => /\ sr'.packets = packets % CountMod
                   /\ sr'.octets = octets % CountMod]_vars

\* compy/rtp_transport.h: the timestamp of a report is the one of the last packet
\* sent plus the time elapsed since.  Before the first packet nothing has been
\* sent and nothing has elapsed, so it is the initial last_rtp_timestamp.
ReportBeforeFirst == sr # None /\ ~sr.started => sr.rtp = 0
=============================================================================
