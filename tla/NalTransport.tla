---------------------------- MODULE NalTransport ----------------------------
(***************************************************************************)
(* Compy_NalTransport (src/nal_transport.c): NAL units cut into RTP        *)
(* packets, over a Compy_RtpTransport that may refuse or fail any of them, *)
(* a network that loses them, and a receiver that puts them together again *)
(* the way RFC 6184 and RFC 7798 tell it to.                               *)
(*                                                                         *)
(* A unit is the length of its payload; an octet is its position in it.    *)
(* H.264 has NalHeader = 1 and FuHeader = 2, H.265 2 and 3.                *)
(***************************************************************************)
EXTENDS Integers, Sequences

CONSTANTS
    NalHeader,      \* Compy_NalHeader_size
    FuHeader,       \* Compy_NalHeader_fu_size
    MaxNalu,        \* config.max_h264_nalu_size, config.max_h265_nalu_size
    Limit,          \* largest RTP payload the transport below takes
    Lengths,        \* payload lengths of the units the application sends
    MaxUnits        \* bound: units sent in one behaviour

ASSUME NalTransportAssumption ==
    /\ NalHeader \in Nat \ {0} /\ FuHeader = NalHeader + 1
    /\ MaxNalu \in Nat /\ MaxNalu > FuHeader
    /\ Limit \in Nat
    /\ Lengths \subseteq Nat
    /\ MaxUnits \in Nat

NoFragments == [none |-> TRUE]

VARIABLES
    units,      \* history: lengths of the units given to send_packet, in order
    packet_idx, \* the packet of the last unit that is sent next
    results,    \* history: what send_packet returned for each unit so far
    seq_num,    \* RtpTransport: number of the next packet
    lost,       \* history: the units the network lost a packet of
    last_seq,   \* receiver: number of the last packet that arrived
    partial,    \* receiver: the fragments it is collecting, or NoFragments
    rebuilt     \* receiver: the units it has passed on

sendVars == <<units, packet_idx, results, seq_num, lost>>
recvVars == <<last_seq, partial, rebuilt>>
nalTransportVars == <<sendVars, recvVars>>

\* The packet that stands for a whole unit, and its size.
Whole(len) == [unit |-> Len(units), fu |-> FALSE, start |-> TRUE, end |-> TRUE,
               from |-> 0, to |-> len]

Size(p) == p.to - p.from + (IF p.fu THEN FuHeader ELSE NalHeader)

\* The size test of Compy_NalTransport_send_packet.
FitsOne(len) == NalHeader + len < MaxNalu

\* Mutant: the FU header is not accounted for.
FragmentSize_NoOverhead == MaxNalu

\* max_packet_size of send_fragmentized_nal_data, the overhead taken off.
FragmentSize == IF MaxNalu > FuHeader THEN MaxNalu - FuHeader ELSE MaxNalu

FullFragments(len) == (len - (len % FragmentSize)) \div FragmentSize

\* How many packets send_packet makes of a unit.
PacketCount(len) ==
    IF FitsOne(len) THEN 1
    ELSE FullFragments(len) + (IF len % FragmentSize # 0 THEN 1 ELSE 0)

\* Mutant: the end bit is set on the rest only, also when there is none.
Fragment_EndOnRest(len, i) ==
    [unit |-> Len(units), fu |-> TRUE, start |-> i = 0, end |-> i = FullFragments(len),
     from |-> i * FragmentSize,
     to |-> IF i = FullFragments(len) THEN len ELSE (i + 1) * FragmentSize]

\* Fragment i of a unit: one round of the loop, or the rest after it.
Fragment(len, i) ==
    LET count == FullFragments(len)
        rest  == i = count
        end   == rest \/ (len % FragmentSize = 0 /\ count - 1 = i)
    IN  [unit |-> Len(units), fu |-> TRUE, start |-> i = 0, end |-> end,
         from |-> i * FragmentSize,
         to |-> IF end THEN len ELSE (i + 1) * FragmentSize]

Packet(len, i) == IF FitsOne(len) THEN Whole(len) ELSE Fragment(len, i)

Busy == Len(results) < Len(units)
Unit == units[Len(units)]

NalTransportInit ==
    /\ units = <<>>
    /\ packet_idx = 0
    /\ results = <<>>
    /\ seq_num = 0
    /\ lost = {}
    /\ last_seq = -1
    /\ partial = NoFragments
    /\ rebuilt = <<>>
-----------------------------------------------------------------------------
\* The application hands over the next unit.
Begin(len) ==
    /\ ~Busy
    /\ Len(units) < MaxUnits
    /\ units' = Append(units, len)
    /\ packet_idx' = 0
    /\ UNCHANGED <<results, seq_num, lost, recvVars>>

\* A conforming receiver gets packet p with number n.
Receive(p, n) ==
    LET sound == partial # NoFragments /\ n = last_seq + 1
        have  == IF p.start THEN <<p>> ELSE IF sound THEN Append(partial.got, p) ELSE <<>>
    IN  /\ last_seq' = n
        /\ IF p.end /\ have # <<>>
           THEN partial' = NoFragments /\ rebuilt' = Append(rebuilt, have)
           ELSE /\ partial' = IF have = <<>> THEN NoFragments ELSE [got |-> have]
                /\ UNCHANGED rebuilt

\* RtpTransport counts a packet that has left.
NextSeq == seq_num + 1

\* The packet leaves; the network loses it or the receiver gets it.
SendOne ==
    LET p == Packet(Unit, packet_idx)
    IN  /\ Busy
        /\ packet_idx < PacketCount(Unit)
        /\ Size(p) <= Limit
        /\ seq_num' = NextSeq
        /\ packet_idx' = packet_idx + 1
        /\ results' = IF packet_idx + 1 = PacketCount(Unit)
                      THEN Append(results, 0) ELSE results
        /\ \/ Receive(p, seq_num) /\ UNCHANGED lost
           \/ lost' = lost \cup {Len(units)} /\ UNCHANGED recvVars
        /\ UNCHANGED units

\* Mutant: the error is noted and the loop goes on.
Abandon_GoesOn ==
    /\ packet_idx' = packet_idx + 1
    /\ results' = IF packet_idx + 1 = PacketCount(Unit)
                  THEN Append(results, -1) ELSE results

\* send_fu failed: -1, and no further packet of the unit.
Abandon ==
    /\ results' = Append(results, -1)
    /\ UNCHANGED packet_idx

\* The transport below fails, or refuses a packet that is too large for it;
\* RtpTransport does not use up the number.
FailOne ==
    /\ Busy
    /\ packet_idx < PacketCount(Unit)
    /\ Abandon
    /\ UNCHANGED <<units, seq_num, lost, recvVars>>

\* Compy_NalTransport_send_packet, one RTP packet at a time.
SendNalPacket == SendOne \/ FailOne

NalTransportNext == (\E len \in Lengths : Begin(len)) \/ SendNalPacket

NalTransportSpec == NalTransportInit /\ [][NalTransportNext]_nalTransportVars
-----------------------------------------------------------------------------
\* got is a unit as it was sent: its octets from the first to the last, in
\* order, of one unit, and nothing else.
IsUnit(got) ==
    /\ \A i \in 1 .. Len(got) : got[i].unit = got[1].unit
    /\ got[1].from = 0
    /\ \A i \in 1 .. Len(got) - 1 : got[i + 1].from = got[i].to
    /\ got[Len(got)].to = units[got[1].unit]

\* Whatever the receiver passes on is a unit that was sent.  The sender keeps
\* the sequence number of a packet that failed, so the receiver sees no gap
\* there and only the start and end bits protect it.
RebuiltWhole == \A i \in 1 .. Len(rebuilt) : IsUnit(rebuilt[i])

\* The result is true: unless the network loses a packet of it, the receiver
\* gets a unit iff send_packet returned 0, whatever happened to earlier units.
ResultTruthful ==
    \A u \in (1 .. Len(results)) \ lost :
        results[u] = 0 <=> \E i \in 1 .. Len(rebuilt) : rebuilt[i][1].unit = u

\* CHANGELOG.md, "FU fragmentation bug": no fragment has both the start and the
\* end bit; and the packets of a unit keep within the configured size.
PacketsWellFormed ==
    Busy => \A i \in 0 .. PacketCount(Unit) - 1 :
        LET p == Packet(Unit, i)
        IN  /\ p.fu => ~(p.start /\ p.end)
            /\ Size(p) <= MaxNalu
=============================================================================
