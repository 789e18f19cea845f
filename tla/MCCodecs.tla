------------------------------ MODULE MCCodecs ------------------------------
(* The media and key formats, each by itself: a behaviour exercises one of
   them, `job`. *)
EXTENDS NalTransport, JpegTransport, SdpCrypto, Md5, RtpReceiver, NalUnits, Writers, TlsBackend

VARIABLE job

Jobs == {"nal", "jpeg", "crypto", "md5", "rtp", "units", "io", "tls"}

codecVars == <<nalTransportVars, jpegVars, cryptoVars, md5Vars, feedVars, nalVars, ioVars, tlsVars, job>>

MCInit ==
    /\ job \in Jobs
    /\ NalTransportInit /\ JpegInit /\ CryptoInit /\ Md5Init /\ FeedInit /\ NalInit /\ IoInit /\ TlsInit
    /\ job # "io" => w_kind = "fd"
    /\ job # "tls" => t_backend = "openssl"

NalJob == job = "nal" /\ NalTransportNext
          /\ UNCHANGED <<jpegVars, cryptoVars, md5Vars, feedVars, nalVars, ioVars, tlsVars, job>>
JpegJob == job = "jpeg" /\ JpegNext
           /\ UNCHANGED <<nalTransportVars, cryptoVars, md5Vars, feedVars, nalVars, ioVars, tlsVars, job>>
CryptoJob == job = "crypto" /\ CryptoNext
             /\ UNCHANGED <<nalTransportVars, jpegVars, md5Vars, feedVars, nalVars, ioVars, tlsVars, job>>
Md5Job == job = "md5" /\ Md5Next
          /\ UNCHANGED <<nalTransportVars, jpegVars, cryptoVars, feedVars, nalVars, ioVars, tlsVars, job>>
RtpJob == job = "rtp" /\ FeedNext
          /\ UNCHANGED <<nalTransportVars, jpegVars, cryptoVars, md5Vars, nalVars, ioVars, tlsVars, job>>
UnitsJob == job = "units" /\ NalUnitsNext
            /\ UNCHANGED <<nalTransportVars, jpegVars, cryptoVars, md5Vars, feedVars, ioVars, tlsVars, job>>
IoJob == job = "io" /\ IoNext
         /\ UNCHANGED <<nalTransportVars, jpegVars, cryptoVars, md5Vars, feedVars, nalVars, tlsVars, job>>
TlsJob == job = "tls" /\ TlsNext
          /\ UNCHANGED <<nalTransportVars, jpegVars, cryptoVars, md5Vars, feedVars, nalVars, ioVars, job>>

MCNext == NalJob \/ JpegJob \/ CryptoJob \/ Md5Job \/ RtpJob \/ UnitsJob \/ IoJob \/ TlsJob

MCSpec == MCInit /\ [][MCNext]_codecVars
-----------------------------------------------------------------------------
\* JPEG frames: segments in several orders, restart intervals, tables of both
\* widths, dimensions at 2040, scans around the sizes where the cut changes, one
\* that RFC 2435 cannot describe, and every way to be refused.
Table(id, wide) == [id |-> id, wide |-> wide]
DQT(tables) == [marker |-> "DQT", ok |-> TRUE, tables |-> tables]
SOF0(width, height, sampling) ==
    [marker |-> "SOF0", ok |-> TRUE, width |-> width, height |-> height, sampling |-> sampling]
DRI(interval) == [marker |-> "DRI", ok |-> TRUE, interval |-> interval]
Other(marker, ok) == [marker |-> marker, ok |-> ok]
SOS == Other("SOS", TRUE)
Frame(segs, scan) == [soi |-> TRUE, segs |-> segs, scan |-> scan, eoi |-> TRUE]

Narrow == Table(0, FALSE)
Plain == <<DQT(<<Narrow>>), SOF0(640, 480, "420"), SOS>>
Restarts == <<SOF0(2040, 2048, "422"), DRI(4), Other("other", TRUE), DQT(<<Narrow>>), SOS>>
RestartsFirst == <<DRI(4), DQT(<<Narrow>>), Other("alone", TRUE), SOF0(64, 64, "420"), SOS, DRI(9)>>
Odd == <<DQT(<<Table(1, TRUE), Table(0, FALSE)>>), SOF0(63, 65, "444"), SOS>>
TwoTables == <<DQT(<<Table(0, FALSE), Table(1, TRUE)>>), SOF0(64, 64, "422"), DRI(0), SOS>>
Wide == [i \in 1 .. 5 |-> Table(i - 1, TRUE)]

MCJpegFrames ==
    {Frame(Plain, n) : n \in {0, 1, 144, 145, 356, 357, 400, 401}}
    \cup {Frame(Restarts, n) : n \in {140, 141, 348, 349}}
    \cup {Frame(RestartsFirst, 50), Frame(TwoTables, 17), Frame(Odd, 8), Frame(<<DQT(Wide)>> \o Plain, 5),
          Frame(<<Other("other", FALSE)>> \o Plain, 5), Frame(Tail(Plain), 5),
          Frame(SubSeq(Plain, 1, 2), 5), [Frame(Plain, 5) EXCEPT !.eoi = FALSE],
          [Frame(Plain, 5) EXCEPT !.soi = FALSE]}

\* Keys with all bits clear or set, and with octets of every kind; texts of
\* other implementations.
MCRandoms == {[i \in 1 .. 30 |-> 0], [i \in 1 .. 30 |-> 255],
              [i \in 1 .. 30 |-> (i * i * 37 + 11) % 256]}

Foreigner(suite, text) == [suite |-> suite, text |-> text]
Text(n) == [i \in 1 .. n |-> (i * 13) % 64]
MCForeign ==
    {Foreigner("AES_CM_128_HMAC_SHA1_32", Text(n)) : n \in {0, 39, 40, 44, 64}}
    \cup {Foreigner("AES_256_CM_HMAC_SHA1_80", Text(40)),
          Foreigner("AES_CM_128_HMAC_SHA1_80", Text(39) \o <<Pad>>),
          Foreigner("AES_CM_128_HMAC_SHA1_80", Text(42) \o <<Pad, Pad>>),
          Foreigner("AES_CM_128_HMAC_SHA1_80", Text(40) \o <<Stranger, 1, 2, 3>>)}

\* RTP headers with and without sources and an extension.
Hdr(version, csrc, words) ==
    [version |-> version, padding |-> FALSE, extension |-> words >= 0,
     marker |-> words = 1, payload_ty |-> 96, csrc |-> csrc, sequence_number |-> <<1, 2>>,
     timestamp |-> <<3, 4, 5, 6>>, ssrc |-> <<7, 8, 9, 10>>, extension_profile |-> <<190, 222>>,
     extension_payload_len |-> IF words < 0 THEN 0 ELSE words,
     extension_payload |-> [i \in 1 .. 12 |-> 200 + i]]
MCRtpHeaders ==
    {Hdr(2, csrc, words) : csrc \in {<<>>, <<<<11, 12, 13, 14>>, <<15, 16, 17, 18>>>>},
                           words \in {-1, 0, 1, 2}}
    \cup {Hdr(1, <<>>, -1)}
MCPayloads == {<<>>, <<50, 51, 52>>}

\* Files with one kind of start code and with both.
U(code, octets) == [code |-> code, octets |-> octets]
Sps == <<103, 66>>
Idr == <<101, 136, 0, 1>>
Aud == <<9>>
MCFiles == {<<U(4, Sps), U(4, Idr), U(4, <<65, 0, 0, 2>>)>>, <<U(3, Aud), U(3, Sps), U(3, Idr)>>,
            <<U(3, Aud), U(4, Sps), U(3, Idr)>>, <<U(4, Sps), U(3, Idr), U(4, Aud)>>}
MCH265Headers == {<<64, 1>>, <<2, 1>>, <<39, 250>>, <<129, 255>>}
MCSlices == <<2, 0, 3>>
=============================================================================
