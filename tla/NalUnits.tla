------------------------------ MODULE NalUnits ------------------------------
(***************************************************************************)
(* From a video file to the headers on the wire: the start codes           *)
(* (src/nal.c), the index that examples/server.c builds with them, and the *)
(* NAL and FU headers (src/nal/h264.c, src/nal/h265.c), put together again *)
(* by a receiver.  A file is a sequence of octets.                         *)
(***************************************************************************)
EXTENDS Integers, SequencesExt

CONSTANTS
    Files,          \* files, as the sequence of their units: start code and octets
    H265Headers     \* pairs of octets

NalOctet == 0 .. 255

\* What H.264 says of a unit: it has a header with a zero in front, emulation
\* prevention keeps start codes out of it, and it does not end in a zero.
UnitFits(u) ==
    /\ u.octets # <<>> /\ u.octets[1] < 128 /\ u.octets[Len(u.octets)] # 0
    /\ \A i \in 3 .. Len(u.octets) :
           ~(u.octets[i - 2] = 0 /\ u.octets[i - 1] = 0 /\ u.octets[i] = 1)

ASSUME NalUnitsAssumption ==
    /\ \A f \in Files :
           /\ f \in Seq([code : {3, 4}, octets : Seq(NalOctet)])
           /\ \A i \in DOMAIN f : UnitFits(f[i])
    /\ H265Headers \subseteq NalOctet \X NalOctet

VARIABLES
    n_units,        \* the units of the file, <<>> before it is opened
    n_scan,         \* `scan`, as the number of octets passed
    n_table,        \* g_nal_table: where each unit begins, and its length
    n_wire          \* the last header sent: what it was, and its octets

nalVars == <<n_units, n_scan, n_table, n_wire>>

StartCode(size) == IF size = 3 THEN <<0, 0, 1>> ELSE <<0, 0, 0, 1>>
File(units) == FlattenSeq([i \in DOMAIN units |-> StartCode(units[i].code) \o units[i].octets])

\* compy_test_start_code_3b and _4b: the length of the start code at p, or 0.
TestStartCode(size, data, p) ==
    IF p + size <= Len(data) /\ SubSeq(data, p + 1, p + size) = StartCode(size) THEN size ELSE 0

\* compy_determine_start_code: what the file begins with, 0 if with neither.
DetermineStartCode(data) ==
    IF TestStartCode(3, data, 0) # 0 THEN 3
    ELSE IF TestStartCode(4, data, 0) # 0 THEN 4 ELSE 0
-----------------------------------------------------------------------------
NoWire == [octets |-> <<>>, header |-> <<>>, fu |-> FALSE, first |-> FALSE, last |-> FALSE]

NalInit == n_units = <<>> /\ n_scan = 0 /\ n_table = <<>> /\ n_wire = NoWire

\* main maps the file, build_nal_index looks how it begins.
Open ==
    /\ n_units = <<>>
    /\ \E f \in Files : n_units' = f /\ DetermineStartCode(File(f)) # 0
    /\ UNCHANGED <<n_scan, n_table, n_wire>>

\* The length of the last unit is set when the next one, or the end, is found.
Close(table, end) ==
    IF table = <<>> THEN table
    ELSE [table EXCEPT ![Len(table)].len = end - table[Len(table)].data]

\* One round of the second pass of build_nal_index, and what follows it at the
\* end.  The first pass, which counts, takes the same rounds.
Scan ==
    LET data == File(n_units)
        code == TestStartCode(DetermineStartCode(data), data, n_scan)
        found == IF code = 0 THEN n_table
                 ELSE Append(Close(n_table, n_scan), [data |-> n_scan + code, len |-> 0])
    IN  /\ n_scan < Len(data)
        /\ n_scan' = n_scan + (IF code = 0 THEN 1 ELSE code)
        /\ n_table' = IF n_scan' = Len(data) THEN Close(found, Len(data)) ELSE found
        /\ UNCHANGED <<n_units, n_wire>>

\* The units that the table holds.
Indexed == [i \in DOMAIN n_table |->
               SubSeq(File(n_units), n_table[i].data + 1, n_table[i].data + n_table[i].len)]
-----------------------------------------------------------------------------
\* Compy_H264NalHeader_parse and _serialize.
ParseH264(octet) ==
    [forbidden_zero_bit |-> octet \div 128, ref_idc |-> (octet \div 32) % 4, unit_type |-> octet % 32]
SerializeH264(h) == <<128 * h.forbidden_zero_bit + 32 * h.ref_idc + h.unit_type>>

\* Compy_H265NalHeader_parse and _serialize.
ParseH265(octets) ==
    [forbidden_zero_bit |-> octets[1] \div 128, unit_type |-> (octets[1] \div 2) % 64,
     nuh_layer_id |-> 32 * (octets[1] % 2) + octets[2] \div 8,
     nuh_temporal_id_plus1 |-> octets[2] % 8]
SerializeH265(h) ==
    <<128 * (h.forbidden_zero_bit % 2) + 2 * (h.unit_type % 64) + ((h.nuh_layer_id \div 32) % 2),
      8 * (h.nuh_layer_id % 32) + (h.nuh_temporal_id_plus1 % 8)>>

\* compy_nal_fu_header.
FuHeaderOctet(first, last, unit_type) ==
    (IF first THEN 128 ELSE 0) + (IF last THEN 64 ELSE 0) + unit_type

\* Mutant: every fragment claims the highest importance.
WriteFuHeaderH264_Fixed(h, first, last) ==
    <<124, FuHeaderOctet(first, last, h.unit_type)>>

\* Compy_H264NalHeader_write_fu_header: a mask with two bits to clear.
WriteFuHeaderH264(h, first, last) ==
    <<124 - (IF h.ref_idc \div 2 = 0 THEN 64 ELSE 0) - (IF h.ref_idc % 2 = 0 THEN 32 ELSE 0),
      FuHeaderOctet(first, last, h.unit_type)>>

\* Compy_H265NalHeader_write_fu_header.
WriteFuHeaderH265(h, first, last) ==
    SerializeH265([h EXCEPT !.unit_type = 49]) \o <<FuHeaderOctet(first, last, h.unit_type)>>

\* Compy_NalTransport_send_packet with the header of a unit: whole, or on a
\* fragment.  The server sends H.264, other applications both.
SendHeader(header) ==
    \E fu, first, last \in BOOLEAN :
        LET h264 == ParseH264(header[1])
            h265 == ParseH265(header)
            octets == IF Len(header) = 1
                      THEN IF fu THEN WriteFuHeaderH264(h264, first, last) ELSE SerializeH264(h264)
                      ELSE IF fu THEN WriteFuHeaderH265(h265, first, last) ELSE SerializeH265(h265)
        IN  /\ ~(first /\ last)
            /\ n_wire = NoWire
            /\ n_wire' = [octets |-> octets, header |-> header, fu |-> fu,
                          first |-> first, last |-> last]
            /\ UNCHANGED <<n_units, n_scan, n_table>>

NalUnitsNext ==
    \/ Open
    \/ Scan
    \/ n_scan = Len(File(n_units)) /\ \E i \in DOMAIN n_table : SendHeader(SubSeq(Indexed[i], 1, 1))
    \/ n_units = <<>> /\ \E header \in H265Headers : SendHeader(header)

NalUnitsSpec == NalInit /\ [][NalUnitsNext]_nalVars
-----------------------------------------------------------------------------
\* What a receiver makes of the header of a packet (RFC 6184, RFC 7798).
Rebuild(w) ==
    IF ~w.fu THEN w.octets
    ELSE IF Len(w.octets) = 2 THEN <<(w.octets[1] \div 32) * 32 + (w.octets[2] % 32)>>
    ELSE <<(w.octets[1] \div 128) * 128 + 2 * (w.octets[3] % 64) + (w.octets[1] % 2), w.octets[2]>>

\* The type and the bits of a packet: 28 and 49 are the fragmentation units.
FragmentMarked(w) ==
    LET fu == Last(w.octets)
    IN  /\ IF Len(w.octets) = 2 THEN w.octets[1] % 32 = 28 ELSE (w.octets[1] \div 2) % 64 = 49
        /\ fu \div 128 = (IF w.first THEN 1 ELSE 0) /\ (fu \div 64) % 2 = (IF w.last THEN 1 ELSE 0)

\* In a file with one kind of start code, or one that begins with the short
\* one, the index has every unit once, in order and whole; where a long code
\* follows in such a file, its first octet is counted as the end of the unit
\* before.  And the receiver gets the header of the unit from each packet of it.
UnitsExact ==
    /\ n_units # <<>> /\ n_scan = Len(File(n_units)) =>
           LET codes == {n_units[i].code : i \in DOMAIN n_units}
               zero(i) == IF codes = {3, 4} /\ i < Len(n_units) /\ n_units[i + 1].code = 4
                          THEN <<0>> ELSE <<>>
           IN  \/ n_units[1].code = 4 /\ codes = {3, 4}
               \/ Indexed = [i \in DOMAIN n_units |-> n_units[i].octets \o zero(i)]
    /\ n_wire # NoWire => Rebuild(n_wire) = n_wire.header /\ (n_wire.fu => FragmentMarked(n_wire))
=============================================================================
