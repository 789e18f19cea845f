--------------------------- MODULE JpegTransport ---------------------------
(***************************************************************************)
(* Compy_JpegTransport (src/jpeg_transport.c): JPEG frames read, stripped  *)
(* of their headers and cut into RTP packets, over a transport that may    *)
(* fail and a network that loses packets, to a receiver of RFC 2435.       *)
(*                                                                         *)
(* A frame is the sequence of its segments between SOI and the scan, the   *)
(* length of the scan, and whether SOI and EOI are there.  A segment is    *)
(* its marker, whether it is well formed (ok), and what the transport      *)
(* reads in it.  An octet of the scan is its position.                     *)
(***************************************************************************)
EXTENDS Integers, FiniteSets, SequencesExt

CONSTANTS
    JpegFrames,     \* the frames that the application may send
    MaxFrag,        \* config.max_fragment_size
    MaxScan,        \* 0xFFFFFF, what a 24-bit offset can address
    MaxJpegs        \* bound: frames sent in one behaviour

\* What the octets of a segment have room for, if they are all there.
SegmentFits(seg) ==
    /\ seg.marker \in {"DQT", "SOF0", "DRI", "SOS", "other", "alone"} /\ seg.ok \in BOOLEAN
    /\ seg.ok /\ seg.marker = "DQT" => seg.tables \in Seq([id : 0 .. 15, wide : BOOLEAN])
    /\ seg.ok /\ seg.marker = "SOF0" => seg.width \in Nat /\ seg.height \in Nat
    /\ seg.ok /\ seg.marker = "DRI" => seg.interval \in Nat
FrameFits(frame) ==
    /\ frame.soi \in BOOLEAN /\ frame.eoi \in BOOLEAN /\ frame.scan \in Nat
    /\ frame.segs \in Seq(ToSet(frame.segs))
    /\ \A i \in DOMAIN frame.segs : SegmentFits(frame.segs[i])

ASSUME JpegAssumption ==
    /\ MaxFrag \in Nat /\ MaxScan \in Nat /\ MaxJpegs \in Nat
    /\ \A frame \in JpegFrames : FrameFits(frame)

VARIABLES
    jpegs,      \* history: the frames given to send_frame
    j_offset,   \* `offset` of the frame that is being sent
    j_results,  \* history: what send_frame returned
    j_errors,   \* history: the frames that met an I/O error
    j_lost,     \* history: the frames that the network lost a packet of
    j_partial,  \* receiver: the packets of the frame it is collecting
    j_rebuilt   \* receiver: the frames it has passed on

jpegRecvVars == <<j_partial, j_rebuilt>>
jpegVars == <<jpegs, j_offset, j_results, j_errors, j_lost, jpegRecvVars>>

JPEG_RTP_HDR_SIZE == 8
QT_HDR_SIZE == 4
RST_HDR_SIZE == 4
MAX_QT_DATA == 512

\* qt_len: 64 octets for each table, 128 for those with entries of 16 bits.
WideOnes(tables) == {i \in DOMAIN tables : tables[i].wide}
QtLen(tables) == 64 * (Len(tables) + Cardinality(WideOnes(tables)))
-----------------------------------------------------------------------------
\* JpegFrameInfo, full of zeros, and the outcome -1.
NoInfo == [is_jpeg |-> TRUE, type |-> 0, width_8 |-> 0, height_8 |-> 0, restart_interval |-> 0,
           qt_data |-> <<>>, qt_precision |-> {}, scan_len |-> 0,
           found_sof |-> FALSE, found_sos |-> FALSE]
NotJpeg == [NoInfo EXCEPT !.is_jpeg = FALSE]

\* parse_dqt: the tables are collected in the order of the file, with a bit for
\* each one of 16 bits.
ParseDqt(info, tables) ==
    IF QtLen(info.qt_data \o tables) > MAX_QT_DATA THEN NotJpeg
    ELSE [info EXCEPT !.qt_data = @ \o tables,
                      !.qt_precision = @ \cup {t.id : t \in {x \in ToSet(tables) :
                                                              x.wide /\ x.id < 8}}]

\* parse_sof0: dimensions in units of 8, 0 for those above 2040.
Eighths(pixels) == IF pixels > 2040 THEN 0 ELSE pixels \div 8

ParseSof0(info, seg) ==
    [info EXCEPT !.width_8 = Eighths(seg.width), !.height_8 = Eighths(seg.height),
                 !.type = IF seg.sampling = "420" THEN 1 ELSE 0,
                 !.found_sof = TRUE]

\* One round of the loop in parse_jpeg_frame.  A segment that is not ok has no
\* 0xFF in front, a length beyond the end, or too little in it.  "alone" is a
\* marker without a length.
ParseSegment(frame, info, seg) ==
    IF ~seg.ok THEN NotJpeg
    ELSE CASE seg.marker = "DQT" -> ParseDqt(info, seg.tables)
           [] seg.marker = "SOF0" -> ParseSof0(info, seg)
           [] seg.marker = "DRI" -> [info EXCEPT !.restart_interval = seg.interval]
           [] seg.marker = "SOS" -> IF ~frame.eoi THEN NotJpeg
                                    ELSE [info EXCEPT !.scan_len = frame.scan, !.found_sos = TRUE]
           [] seg.marker \in {"other", "alone"} -> info

\* parse_jpeg_frame: the loop, which reads nothing behind an error or a SOS.
ReadSegment(frame, info, seg) ==
    IF ~info.is_jpeg \/ info.found_sos THEN info ELSE ParseSegment(frame, info, seg)

\* Behind the loop: what has to be there, and the types of RFC 2435 with restart
\* markers.
Accept(frame, info) ==
    IF \/ ~frame.soi \/ ~info.is_jpeg
       \/ ~info.found_sof \/ ~info.found_sos \/ info.qt_data = <<>> THEN NotJpeg
    ELSE IF info.restart_interval > 0 THEN [info EXCEPT !.type = @ + 64] ELSE info

ParseJpegFrame(frame) ==
    LET infos[n \in 0 .. Len(frame.segs)] ==
            IF n = 0 THEN NoInfo ELSE ReadSegment(frame, infos[n - 1], frame.segs[n])
    IN  Accept(frame, infos[Len(frame.segs)])

\* base_hdr and first_hdr of send_frame.
BaseHdr(info) == JPEG_RTP_HDR_SIZE + (IF info.restart_interval > 0 THEN RST_HDR_SIZE ELSE 0)
FirstHdr(info) == BaseHdr(info) + QT_HDR_SIZE + QtLen(info.qt_data)

\* The early returns of send_frame.
Refuses(frame) ==
    LET info == ParseJpegFrame(frame)
    IN  \/ ~info.is_jpeg
        \/ info.scan_len = 0 \/ info.scan_len > MaxScan
        \/ FirstHdr(info) >= MaxFrag

\* Mutant: the tables are not counted in the first packet.
Chunk_NoTables(info, offset) ==
    LET avail == MaxFrag - BaseHdr(info)
    IN  IF info.scan_len - offset < avail THEN info.scan_len - offset ELSE avail

\* chunk: what is left, or what the packet has room for.
Chunk(info, offset) ==
    LET avail == MaxFrag - (IF offset = 0 THEN FirstHdr(info) ELSE BaseHdr(info))
    IN  IF info.scan_len - offset < avail THEN info.scan_len - offset ELSE avail

\* The packet at this offset: write_jpeg_rtp_header, with 24 bits for the
\* offset, write_restart_header, write_qt_header, and the marker bit.
JpegPacket(ts, info, offset) ==
    [ts |-> ts, offset |-> offset % (MaxScan + 1), type |-> info.type,
     width_8 |-> info.width_8, height_8 |-> info.height_8,
     restart |-> info.restart_interval,
     tables |-> IF offset = 0 THEN info.qt_data ELSE <<>>,
     precision |-> IF offset = 0 THEN info.qt_precision ELSE {},
     size |-> (IF offset = 0 THEN FirstHdr(info) ELSE BaseHdr(info)) + Chunk(info, offset),
     octets |-> <<offset, offset + Chunk(info, offset)>>,
     marker |-> offset + Chunk(info, offset) >= info.scan_len]
-----------------------------------------------------------------------------
JpegInit ==
    /\ jpegs = <<>>
    /\ j_offset = 0
    /\ j_results = <<>>
    /\ j_errors = {} /\ j_lost = {}
    /\ j_partial = <<>> /\ j_rebuilt = <<>>

JpegBusy == Len(j_results) < Len(jpegs)

\* The head of Compy_JpegTransport_send_frame.
SendFrame(frame) ==
    /\ ~JpegBusy
    /\ Len(jpegs) < MaxJpegs
    /\ jpegs' = Append(jpegs, frame)
    /\ j_offset' = 0
    /\ j_results' = IF Refuses(frame) THEN Append(j_results, -1) ELSE j_results
    /\ UNCHANGED <<j_errors, j_lost, jpegRecvVars>>

\* The receiver (external) collects the packets of one timestamp, in order,
\* and passes the frame on at the marker.
JpegReceive(p) ==
    LET got == IF p.offset = 0 THEN <<p>>
               ELSE IF /\ j_partial # <<>>
                       /\ Last(j_partial).ts = p.ts
                       /\ Last(j_partial).octets[2] = p.offset
               THEN Append(j_partial, p) ELSE <<>>
    IN  IF p.marker /\ got # <<>>
        THEN j_rebuilt' = Append(j_rebuilt, got) /\ j_partial' = <<>>
        ELSE j_partial' = got /\ UNCHANGED j_rebuilt

\* Mutant: an I/O error ends the loop like the last packet.
JpegResult_Dropped == 0

\* What send_frame returns when a packet could not be sent.
JpegResult == -1

\* One round of the loop in send_frame.
SendFragment ==
    LET info == ParseJpegFrame(Last(jpegs))
        p == JpegPacket(Len(jpegs), info, j_offset)
    IN  /\ JpegBusy
        /\ UNCHANGED jpegs
        /\ \/ /\ j_offset' = j_offset + Chunk(info, j_offset)
              /\ j_results' = IF j_offset' < info.scan_len THEN j_results
                              ELSE Append(j_results, 0)
              /\ \/ JpegReceive(p) /\ UNCHANGED j_lost
                 \/ j_lost' = j_lost \cup {Len(jpegs)} /\ UNCHANGED jpegRecvVars
              /\ UNCHANGED j_errors
           \/ /\ j_results' = Append(j_results, JpegResult)
              /\ j_errors' = j_errors \cup {Len(jpegs)}
              /\ UNCHANGED <<j_offset, j_lost, jpegRecvVars>>

JpegNext == (\E frame \in JpegFrames : SendFrame(frame)) \/ SendFragment

JpegSpec == JpegInit /\ [][JpegNext]_jpegVars
-----------------------------------------------------------------------------
(* What a frame means, read as a whole. *)

\* The last segment that counts, and those with a marker among the first n.
Reach(frame) ==
    Min({i \in DOMAIN frame.segs : frame.segs[i].marker = "SOS"} \cup {Len(frame.segs)})
Marked(frame, marker, n) == {i \in 1 .. n : frame.segs[i].marker = marker}
Named(frame, marker) == Marked(frame, marker, Reach(frame))
Latest(frame, marker) == frame.segs[Max(Named(frame, marker))]

TablesIn(seg) == IF seg.ok /\ seg.marker = "DQT" THEN seg.tables ELSE <<>>
TablesUpto(frame, n) == FlattenSeq([i \in 1 .. n |-> TablesIn(frame.segs[i])])
Tables(frame) == TablesUpto(frame, Reach(frame))
Interval(frame) == IF Named(frame, "DRI") = {} THEN 0 ELSE Latest(frame, "DRI").interval

IsJpeg(frame) ==
    /\ frame.soi /\ frame.eoi
    /\ \A i \in 1 .. Reach(frame) : frame.segs[i].ok
    /\ \A marker \in {"SOF0", "DQT", "SOS"} : Named(frame, marker) # {}
    /\ Tables(frame) # <<>>

\* Can RFC 2435 say what the frame is?
Carried(frame) ==
    LET sof == Latest(frame, "SOF0")
    IN  /\ sof.sampling \in {"420", "422"}
        /\ \A pixels \in {sof.width, sof.height} : pixels > 2040 \/ pixels % 8 = 0
        /\ \A i \in DOMAIN Tables(frame) : Tables(frame)[i].id = i - 1

\* What RFC 2435 lets a receiver read from the packets of a frame.
Picture(got) ==
    [sampling |-> IF got[1].type % 64 = 1 THEN "420" ELSE "422",
     interval |-> IF got[1].type >= 64 THEN got[1].restart ELSE 0,
     width |-> 8 * got[1].width_8, height |-> 8 * got[1].height_8,
     tables |-> [i \in DOMAIN got[1].tables |-> i - 1 \in got[1].precision],
     scan |-> Last(got).octets[2]]

\* The picture that the segments describe, with 0 for dimensions above 2040.
Described(frame) ==
    LET sof == Latest(frame, "SOF0")
    IN  [sampling |-> sof.sampling, interval |-> Interval(frame),
         width |-> IF sof.width > 2040 THEN 0 ELSE sof.width,
         height |-> IF sof.height > 2040 THEN 0 ELSE sof.height,
         tables |-> [i \in DOMAIN Tables(frame) |-> Tables(frame)[i].wide],
         scan |-> frame.scan]

\* A frame that the receiver puts together is one that was sent: its octets from
\* the first to the last and the picture that its headers describe, wherever
\* the segments stood in the file and whatever was abandoned before it; and
\* every packet keeps to the configured size.
JpegRebuilt ==
    \A g \in DOMAIN j_rebuilt :
        LET got == j_rebuilt[g]
            frame == jpegs[got[1].ts]
        IN  /\ got[1].octets[1] = 0
            /\ \A i \in 1 .. Len(got) - 1 :
                   /\ got[i].octets[2] = got[i + 1].octets[1]
                   /\ ~got[i].marker
                   /\ got[i + 1].type = got[1].type
            /\ \A i \in DOMAIN got : got[i].size <= MaxFrag
            /\ Last(got).octets[2] = frame.scan
            /\ Carried(frame) => Picture(got) = Described(frame)

\* The result of send_frame is true: 0 iff the receiver has the frame, unless
\* the network lost part of it; and -1 without an I/O error only for what is no
\* JPEG frame or does not fit.
JpegTruthful ==
    \A n \in DOMAIN j_results :
        /\ n \notin j_lost =>
               (j_results[n] = 0 <=> \E g \in DOMAIN j_rebuilt : j_rebuilt[g][1].ts = n)
        /\ j_results[n] = -1 /\ n \notin j_errors =>
               \/ ~IsJpeg(jpegs[n])
               \/ jpegs[n].scan \notin 1 .. MaxScan
               \/ QtLen(Tables(jpegs[n])) > MAX_QT_DATA
               \/ JPEG_RTP_HDR_SIZE + QT_HDR_SIZE + QtLen(Tables(jpegs[n]))
                    + (IF Interval(jpegs[n]) > 0 THEN RST_HDR_SIZE ELSE 0) >= MaxFrag
=============================================================================
