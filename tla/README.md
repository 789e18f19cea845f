# TLA+ models of compy

compy is a C library for RTSP servers: it parses requests and dispatches them to
a controller, serialises responses, and sends media as RTP over UDP or over the
interleaved channels of the RTSP connection, in the clear or as SRTP/SRTCP, with
RTSPS (TLS) and Digest authentication. This directory models the parts of it that
keep state, checks them with TLC on small instances, and proves the central
properties for every instance with TLAPS. Paths below are relative to the
repository.

## Inventory

| Component | State | Operations | What is hard about it | Model |
|---|---|---|---|---|
| SRTP sender, `src/transport/srtp.c` | `roc`, `prev_seq` | `transmit` | a rollover must be counted once although failed packets are numbered again; 48-bit index in 32 bits | `SrtpIndex`, `SrtpSender` |
| SRTP receiver, `src/transport/srtp.c` | `roc`, `s_l`, `initialized`, `replay_window` | `compy_srtp_recv_unprotect` | reordering around the wrap, duplicates at the edge of the mask, authentic packets with bad headers | `ReplayWindow`, `SrtpReceiver`, `SrtpStream` |
| SRTCP, `src/transport/srtp.c` | `srtcp_index`; `srtcp_highest_index`, `srtcp_replay_window` | `transmit`, `compy_srtcp_recv_unprotect` | the index must advance when a send fails; the first packet has the initial "highest" index | `Srtcp` |
| RTP transport, `src/rtp_transport.c` | sequence number, counters, last timestamp and send time | `send_packet`, getters | failed sends, wraps, two roundings of one clock | `RtpReports`, `SrtpSender` |
| RTCP session, `src/rtcp.c` | last report block, process-wide NTP offset | `send_sr`, `send_bye`, `handle_incoming` | wall clock steps; a report before the first packet | `RtpReports` |
| TLS connection, `src/tls.c` | mutex, `dead` | read, write, writef, shutdown | threads; the flag is tested outside the mutex; nested locking; torn frames | `Connection` |
| TCP interleaved transport, `src/transport/tcp.c`; responses, `src/context.c`, `src/types/response.c` | none of their own | `transmit`, `compy_respond` | many writes make one response; errors in the middle of it | `Connection` |
| Digest authentication, `src/auth.c` | one nonce for all clients | `compy_auth_check` | clients interleave; every challenge replaces the nonce | `Auth` |
| NAL transport, `src/nal_transport.c`, `src/nal.c`, `src/nal/` | configuration | `send_packet`, start codes, headers | sizes at the boundary; a unit abandoned halfway; sequence numbers used again; files that mix start codes | `NalTransport`, `NalUnits` |
| JPEG transport, `src/jpeg_transport.c` | configuration | `send_frame` | segments in any order, tables that take room in the first packet only, abandoned frames | `JpegTransport` |
| RTP header, receiver and backchannel, `src/types/rtp.c`, `src/receiver.c`, `src/backchannel.c` | none | `serialize`, `deserialize`, `feed` | packets cut anywhere; three computations of where the header ends | `RtpReceiver` |
| SDP crypto attributes, `src/transport/srtp.c`, `src/base64.c` | none | generate, format, parse | a key that is cut still looks like a key | `SdpCrypto`, `Base64` |
| MD5, `src/md5.c` | `state`, `count`, `buffer` | init, update, final | pieces and padding at the edges of a block | `Md5` |
| Writers and UDP, `src/writer.c`, `src/writer/`, `src/transport/udp.c` | descriptor | `write`, `compy_write_slices`, `transmit` | short and interrupted writes, retries | `Writers` |
| TLS backends, `src/crypto/`, `src/tls.c` | context, connection, socket timeout | new, accept, free | any call of a chain may fail, in three implementations | `TlsBackend` |
| Transport header, `src/util.c` | none | `compy_parse_transport` | parameters that are missing, malformed or unknown | `TransportHeader` |
| Parser and receive loop, `src/types/request.c`, `examples/compy-libevent.c` | receive buffer | parse, dispatch | requests in pieces or several at a time, interleaved frames between them, full buffer | `Ingest` |
| Controller, sessions, `src/controller.c`, `examples/server.c` | streams, timers, transports, RTCP sessions of a client | SETUP, PLAY, PAUSE, TEARDOWN, timers, disconnect | long sequences of legal calls, timers against teardown, a SETUP that fails halfway | `Session` |
| URI, header and SDP types, utilities | none | | pure functions | not modelled |

They interact through calls only. A controller answers through `Compy_Context`,
which writes to a `Compy_Writer`; a `Compy_NalTransport` owns a
`Compy_RtpTransport`, which owns a `Compy_Transport` (TCP, UDP, or SRTP around one
of them); `Compy_Rtcp` reads the counters of an RTP transport and owns a transport
of its own. What threads share is the writer of a connection: INTEGRATION.md asks
the application to serialise the use of one RTP transport and its RTCP session.

The properties that make the parts correct, in a word each: SRTP and SRTCP
deliver what was sent and never twice, and refuse nothing fresh inside the window;
a Sender Report tells the receiver one consistent clock and the true counters; a
connection carries whole frames, is used by one thread at a time and never blocks
for good; requests are handed to the controller in order and once; a client with
the right password gets in; a receiver never assembles a
NAL unit or a JPEG frame that was not sent, and the sender's result is the truth; a
client that goes, whenever it goes, leaves no timer behind that uses what was freed.

## Modules

- `ReplayWindow`: the 64-bit replay mask as a set of bits, with its test and its
  update. The SRTP half (`replay_check`, `replay_update`) and the SRTCP half of the
  code, which inlines the same window, use the same three operators.
- `SrtpIndex`: packet index, rollover test of the sender, `estimate_roc` of the
  receiver. The widths are constants, the wraps and the int arithmetic of the code
  are kept.
- `SrtpReceiver`: `Compy_SrtpRecvCtx` and `compy_srtp_recv_unprotect` against packets
  of any kind: short, with any tag, with a bad header, in any order. They are no
  longer than `SRTP_MAX_PACKET_SIZE` and the tag: the function copies what it is given
  into a buffer of that size (`srtp.c:659`) and leaves the limit to its caller.
  `consumed`, `delivered` and `deliveries` are history.
- `SrtpSender`: `Compy_RtpTransport_send_packet` over
  `Compy_SrtpTransport_transmit`, one action for each way a send may end: refused
  before the counter is touched, failed after it, sent.
- `SrtpStream`: both, with a network that loses, repeats, reorders and damages.
  `AtMostOnce` is what it promises: a message is accepted only if it was offered,
  and once. `KeepsPromise` is the refinement, with `sent`, `delivered` and
  `deliveries` as the abstract variables.
- `Srtcp`: sender, network and receiver of SRTCP, with the same promise.
- `Connection`: threads on one TLS connection. A call is a program of observable
  steps (lock, unlock, test of `dead`, I/O in chunks, setting `dead`), put together
  the way the code nests its functions: `compy_respond` locks around the serializer,
  whose `writef` locks again. A step may fail wherever the code can see an error.
  A response is cut into the status line and one further write. Where a serializer
  goes on after an error is in `Bail`, from `CHK_WRITE_ERR`.
- `RtpReports`: counters, timestamps and clocks of `Compy_RtpTransport` and the
  reports of `Compy_Rtcp`, with the monotonic clock, a wall clock that somebody may
  set, failing sends, and the uninitialised `last_send_time_us` as a choice among
  the values `Junk`. The timestamp of a packet is an argument of the application, and the
  clock is read behind a `transmit` that may block, so the media time of a packet and the
  time at which it is recorded as sent are different things: they lie any of `Lags` apart, in
  either direction (`lag`). Floating point in `compute_timestamp` is integer division.
- `NalTransport`: one action per RTP packet; the transport fails any of them, the
  network loses any of them, a receiver reassembles as RFC 6184 Section 5.8 says.
  An octet is its position in the unit.
- `Auth`: `compy_auth_check` with several clients and one nonce. MD5 is ideal. A response
  is bound to the nonce and the method; it is bound to no connection, and the URI it
  covers is the one in the header itself, which nobody compares with the request's. So a client may
  also send what another one has sent before (`Repeat`), in a request of any method.
  Nonces nobody remembers any more are used again, which keeps the model finite
  without bounding the behaviours, so liveness can be checked.
- `Ingest`: `compy_libevent_cb` over `Compy_Request_parse`. The client sends requests
  and interleaved frames, libevent delivers the stream in any pieces. The parse buffer
  always holds one stretch of the stream, so it is a pair of positions; a message is
  the offsets at which the parser's answer changes if the buffer ends there (behind
  "RTSP/", behind the header that fills the map, behind a "\r", at the end). One action
  is one iteration of the loop: discard if full, read, parse, dispatch, shift. From
  the middle of a message on the bytes may look like anything, so the parser may
  answer anything. Of malformed requests there are two kinds, one that fails in its first line
  behind "RTSP/" and one that fails when all of it has come (CSeq). A fault in front of
  "RTSP/", a malformed header name, more than 32 headers and a Content-Length that is no
  number (which fails at the end of the headers, before any body, `request.c:93`) end the same way, in a
  failure and a discarded buffer, at other offsets, and have no kind of their own.
- `Session`: one client of `examples/server.c`, from `listener_cb` to `Client_drop`. The
  server has one thread, so a handler or a timer callback is one step, and the order
  of steps is what is explored: any request at any time, timers in between, the
  disconnect at any moment. Objects (RTP transports, RTCP sessions, stream contexts)
  have a number and a count of how often they were freed; the slots of the client
  point to them, and what a slot no longer points to, `Client_drop` does not reach.
  `sockets` are the UDP sockets that are open: `setup_udp` opens two and closes one if the other
  fails, and the drop of a UDP transport closes none. `udp` counts the pairs of UDP transports
  made, `lost` the pairs that a SETUP with a malformed Session header has made for nothing. A
  Session header may hold no number or any number: one that was given out, 0 (which every slot has
  that was not set up), or another (`Other`). A send of a timer callback may fail, which the
  callback only prints: `out` is what has gone out, by its place in the file, and
  `failed` the places that have not.
  `TransportHeader` is the parser of the Transport header, which decides how a SETUP
  ends. Where the code would run into an assertion or a null pointer, `conn` becomes
  "aborted".
- `JpegTransport`: `send_frame` over frames given as their segments; one action per
  packet, with a failing transport, a lossy network and a receiver of RFC 2435.
- `NalUnits`: start codes, the index of the server, and the NAL and FU headers as
  octets, with the receiver's way back.
- `RtpReceiver`: the RTP header as octets, written and read, `Compy_RtpReceiver_feed`
  on packets cut at any interesting length, and the header length of the SRTP layer. An
  extension has less than 2^14 words (`Words16`), see below.
- `SdpCrypto` over `Base64`: keys as octets, the attribute as its three fields.
- `Md5`: what `md5_transform` is given; the function itself is abstract.
- `Writers`: `compy_write_slices` over a kernel that takes what it likes, for three
  writers, and the datagram loop of the UDP transport.
- `TlsBackend`: each function as the sequence of its fallible calls with what the
  error path of each frees; the same checks for OpenSSL, wolfSSL and mbedTLS. wolfSSL counts
  its users: `t_inits` are the calls of `wolfSSL_Init` that no `wolfSSL_Cleanup` has undone.
- `MC*`: the instances for TLC. `*Proofs`: theorems. Definitions whose name ends in
  an underscore and a word (`Fresh_NoAgeLimit`) after a comment "Mutant" are wrong
  versions of the definition that follows; PROJECT.json says which property each
  one breaks.

## Runs

| Run | Instance | What it shows |
|---|---|---|
| `srtp_receiver` | 4 sequence numbers, 3 ROCs, index wraps at 8, window 2, all packets | `NoReplay`: nothing is delivered twice. `WindowExact`: the mask has a bit for exactly the indexes consumed. `HighestMonotonic`: the context never moves back |
| `srtp_stream` | 8 sequence numbers, every first number, 12 packets, window 3 | `SentConsecutive`: the ROC counts wraps exactly whatever fails. `AcceptsInRange`: an unseen packet in the window or less than half the space ahead is accepted, across the wrap in both directions. `KeepsPromise`: refinement of `AtMostOnce` |
| `srtcp` | index of 8 on the wire, 10 reports, window 3 | `IndexNeverReused`, `WindowExact`, `KeepsPromise` |
| `connection` | 3 threads, 3 calls of any kind, 2 chunks per write | `CryptoExclusive`: one thread in the TLS library at a time. `FramesWhole`: nothing is mixed into a frame or follows a torn one. `TransmitTruthful`. `AtMostOneLateIo`: what the `dead` flag guarantees. `CallsReturn`: every call returns |
| `rtp_reports` | timestamps of 4 bits, counters of 2, time to 14, 3 packets, on time, 5 late or 2 ahead | `SrConsistent`: two reports differ by the clock rate, but for the difference in lateness of the packets they extrapolate from and two ticks of rounding, across failed sends, wraps and wall clock steps. `SrCountsWire`: they count what was sent |
| `codecs` | one of eight jobs per behaviour, see below | NAL: `RebuiltWhole`, `ResultTruthful`, `PacketsWellFormed`. JPEG: `JpegRebuilt`, `JpegTruthful`. `KeyRoundTrip`: what is formatted is parsed as the same key. `Md5Blocks`: the blocks are those of RFC 1321 however the message is cut. `FeedExact`: a packet is heard once and exactly, or refused. `UnitsExact`: index and headers. `WriteTruthful`: no count above what has left. `TlsReleased`: every failure is undone, but for the references to wolfSSL |
| `session` | 3 set-ups over UDP, or 2 over TCP with failing sends; 2 timers, 5 Transport headers, any session id, files of 2 or 3 samples and 4 units | `NoCallbackOnFreed`: a running timer finds its objects. `ReleasedOnce`: nothing is freed twice, the open sockets are those of the UDP transports made, an orderly session leaves no transport, RTCP session or context behind. `RefusedChangesNothing`: neither slots nor timers nor objects. `MediaWhole`: each packet and each unit goes out once, in order and with its own timestamp, unless its own send fails. `MediaEnds`: the timers stop |
| `auth` | 2 clients, one without the password, which may repeat what the other sends; 2 methods | `OnlyLastChallenged`: whoever is let in, the answer was made with the password by the client challenged last. `RefusedOnlyIfOvertaken`, `GetsInUndisturbed` |
| `ingest` | 3 messages of 6 kinds (frames, requests with 32 headers, malformed ones), buffer of 7 units | `InOrder`: requests are dispatched in order and once, also after a loss. `NothingSkipped`: before the first loss no request is missing. `LossExplained`: the causes of a first loss. `Served`: a client that waits for its answers is served |
| `connection_respond` | 2 threads, 3 calls | violated: `compy_respond` returns a count >= 0 for a response that was cut short |
| `rtp_reports_first` | as `rtp_reports` | violated: a report before the first packet extrapolates from an uninitialised time |
| `session_resume` | as `session`, the client may PLAY what is playing | violated: a second PLAY leaves the first timer running on the freed client |

The violations are disagreements between the code and what its comments or headers
say; PROJECT.json quotes the lines. Others that the models showed and that have no
run of their own:

- `replay_check` compares indexes as 32-bit numbers: after 65536 rollovers fresh packets
  lie below `highest` and are refused for good (`AcceptsInRange` without its bound on
  `Ext(m)` is violated). `index >> 16` in `srtp_encrypt_payload` is the low half of the
  ROC, not the 32-bit ROC its comment names, for the same reason. A receiver that
  joins after a rollover takes the ROC to be 0 and accepts nothing; the API has no way
  to hand it over. The SRTCP index has 32 bits at the sender and 31 on the wire.
- `compy_auth_check`: one nonce serves all clients and every challenge replaces it, so
  two clients that connect at the same time can keep refusing each other's valid
  answers; `GetsInUndisturbed` says what is left. "Fresh nonce on every challenge to prevent
  replay attacks" (`src/auth.c:275`) is true of challenges only: a success keeps the nonce, so
  the same header is accepted again, from any connection and for any URI with the same method,
  until somebody is challenged. `OnlyLastChallenged` says that much and no more.
- A Sender Report extrapolates from the last packet with the time at which `transmit` had
  returned, so a packet that left late moves the RTP clock of the reports behind by its lateness,
  until the next packet. `SrConsistent` allows exactly this.
- `Compy_RtpHeader_serialize` counts the octets of an extension in a `uint16_t`
  (`src/types/rtp.c:92`): with `extension_payload_len` of 16384 or more, which its field has room
  for, the loop does not end. `Compy_RtpTransport` writes at most three words, and such a header fits neither
  a datagram nor an interleaved frame; `FeedAssumption` leaves these headers out.
- CHANGELOG.md speaks of "monotonic SRTCP index validation"; the code keeps a window
  and accepts late packets (as RFC 3711 wants).
- `dead` "stops further I/O" (`src/tls.c:60`), but a thread that waits for the mutex
  has already passed the test: one more operation may begin (`AtMostOneLateIo`).
- `FdWriter_lock` does nothing, so the descriptor writer does not protect the
  interleaved channels from two threads.
- The default H.265 limit (4096) is above `SRTP_MAX_PACKET_SIZE` (2048): large units
  over SRTP fail with -1 and no I/O error. In `codecs` the transport takes fragments of
  the configured size (`Limit` >= `MaxNalu`), and `PacketsWellFormed` says that this
  is enough.
- For a clock rate that is no whole number of kHz (44100 Hz) `compute_timestamp` cuts
  the rate to kHz while the reports use all of it, so consecutive reports disagree;
  `SrConsistent` holds for whole kHz and is violated with `clock_rate` = 7, `Kilo` = 2.
- `tests/types/test_util.h:29` expects `partial` for every proper prefix of a request.
  In the receive loop a prefix that ends behind "RTSP/" is a failure unless the byte
  left behind it in the buffer is a digit (it is 0 on a new connection), and one
  that ends behind the 32nd header always is; the loop then discards the buffer and
  the rest of the request is garbage.
- The loop of `compy_libevent_cb` parses once per piece: a second complete request in
  the buffer waits until the client sends more. Interleaved frames leave the buffer
  only together with a request, so a client that streams (a backchannel) fills it
  and loses its place in the stream.
- A NAL unit of exactly the limit is fragmented, the header says "larger than".
- The example server. PLAY of a session that holds the backchannel, or of session 0
  (the id of every slot that was not set up), runs into `assert(t)` of
  `Compy_NalTransport_new`; audio is played without a transport first and would run into
  the assertion of `send_packet`, or of `Compy_RtpTransport_drop` at the disconnect; TEARDOWN before PLAY
  calls `event_del(NULL)`. A Transport header without `interleaved` or `client_port`
  is answered twice (400, then 500). A malformed Session header in SETUP (`server.c:688`, behind
  `setup_transport`), a slot that is
  set up again, and a SETUP that is never played leak their transports. The UDP
  transport never closes its socket (`udp.c:35`), so every UDP SETUP costs two descriptors, whether it is
  played or dropped at once as for the backchannel. A send that fails in a timer callback is
  printed and not repeated. TEARDOWN leaves the report timer running and sends
  no BYE; on TCP the BYE of a disconnect goes to a bufferevent that is already freed.
  `RTP/SAVP` is refused, also with SRTP enabled.
- `build_nal_index`: in a file that begins with a four-octet start code, three-octet
  codes are not seen and units are merged; in one that begins with a three-octet code,
  a following four-octet code leaves a zero at the end of the unit before
  (`UnitsExact` says exactly when). A start code at the very end of a file gives a unit
  of length 0, whose payload length is then -1.
- `compy_base64_decode` reads '=' in the middle of a text as 'A'; a crypto attribute
  with a lifetime or an MKI is refused.
- JPEG: every sampling but 4:2:0 is announced as 4:2:2, dimensions are cut to multiples
  of 8, and the tables are sent in the order of the file, not of their ids. `Carried`
  are the frames that lose nothing by this, and `JpegRebuilt` compares the picture for
  those; `codecs` has one (`Odd`) that is not.
- `compy_write_slices` goes on after the short count of a descriptor writer, so the
  stream may have a hole although the count is right; the stdio and TLS writers have
  no short counts. `TlsWriter_filled` reports input bytes where `is_full` of the TCP
  transport expects output bytes.
- `Compy_RtpHeader_deserialize` leaves the length of the extension in network order and
  padding in the payload; the SRTP layer takes an extension that is cut short for
  payload, where the parser refuses the packet.
- `wolf_ctx_new` does not undo `wolfSSL_Init` when it fails, so each failure keeps one reference
  to the library for good (`t_stuck`; `TlsReleased` says that no other one remains). With mbedTLS, going back to
  the default cipher preference keeps the server's order.

### Bounds

Widths are scaled down so that every wrap happens several times within the bound:
the code compares, adds and wraps, and never uses a width in another way, so the
cases are those of the order of the values around the wrap, half the space and the
edge of the window. The proofs remove these bounds wherever
a theorem states the property. `MaxPackets`,
`MaxReports`, `MaxCalls`, `MaxUnits`, `MaxJpegs`, `MaxPieces`, `MaxFeeds`, `MaxSetups`,
`MaxPlays`, `MaxMessages`, `MaxInits` and `MaxTime` bound the length of a behaviour;
they are large enough for two wraps, or for an error in every position of one call
with another in front of and behind it. `Capacity` is less than a request and two
frames, so the buffer overflows within three messages. `Auth` has no bound.

In `codecs` a behaviour does one job of `MCCodecs`, and the parts share no state; the
run is one because each is a small question. The inputs are chosen around the points
where the code changes its mind: NAL lengths around the limit and its multiples; JPEG
scans that fill the first packet exactly, one octet more, and the same for the second,
with and without restart intervals; attribute buffers of 72 to 74 octets, where 74 is
the least that holds one; MD5 pieces of 0, 1, 55, 56, 63, 64 and 65 octets; packets cut
in front of, inside and behind every part of the RTP header. `MaxFeeds` is 1 since
the receiver keeps no state. In `session` two timers and three set-ups are enough for
two streams, for a stream that is set up again while the other plays, and for a
second PLAY. Failing sends multiply the states, so `Scope` cuts the run in two by the length of the
audio file: with one packet of audio all transports are made over UDP and no send fails; with
one and a half of them any send may fail, and there are two set-ups over TCP. The video has a
delimiter in front of its picture and a unit behind it. `Lags` are so far apart that
the difference of two is far above the rounding.

CHECK_DEADLOCK is FALSE for `Connection`, `MCCodecs`, `Session` and `Ingest` only: there
the application makes a bounded number of calls, or the client sends a bounded number of
messages, and may then stop. That threads do not
block each other is `CallsReturn`.

### Fairness

`Connection`: a thread in a call keeps running (weak fairness of its steps), and the
mutex goes to a thread that keeps asking (strong fairness; pthread promises no
order, but here every holder lets go). Weak fairness of the I/O step of
`compy_tls_read` is an assumption about the peer and not about the code: the read
waits with the mutex held, so while the peer is silent the writers wait too.
`Auth`: the server's event loop handles every request (weak fairness), and a client
that knows its password keeps answering challenges, while the others may fall silent.
`Ingest`: the event loop reads what has arrived and runs the callback to its end; the
client need not send anything. `Session`: libevent runs a timer that is due (weak
fairness of its callback); nothing is assumed of the client. The other specifications have no fairness; their
properties are safety properties.

## Proofs

`tlapm` checks every proof, from the assumptions named in the modules (`WindowAssumption`,
`WidthAssumption`, `MaxPacketsAssumption`, `SrtcpAssumption`, `IngestAssumption`,
`AuthAssumption`, `ConnectionAssumption`, `BackendsAssumption`, `SessionAssumption`,
`NalTransportAssumption`, `RtpReportsAssumption`, `CryptoAssumption`, `Md5Assumption`,
`WritersAssumption`, `FeedAssumption`, `JpegAssumption`, `NalUnitsAssumption`), which say of what
kind the constants are, and from no others. `JpegAssumption` says it of the segments of a frame, and only of
those that are well formed. Three of them say a little more: `FeedAssumption`, that a header fits the fields of
`Compy_RtpHeader` (at most 15 CSRCs, counts that are true of their arrays) and its extension has
less than 2^14 words;
`Md5Assumption`, that a message is shorter than 2^13 octets, since `src/auth.c` hashes what
it has put into buffers of 1024; `NalUnitsAssumption`, that the units of a file are those of an
H.264 stream: not empty, `forbidden_zero_bit` 0, no zero at the end, and emulation prevention keeps
the octets 0 0 1 out of them. Nothing is assumed of which start codes a file has. Two theorems have a hypothesis of their own, given below. Each
inductive invariant was first checked by TLC on the instance of the run.

- `DataLemmas`: what several proofs need of data. Division and remainder by a constant. The least and
  the greatest of a bounded set of numbers (`LeastOf`, `GreatestOf`). An
  induction over numbers that takes a set in place of an operator (`Least`, `Induction`,
  from the well-founded order of the library), and with it `Continued`: a recursive function
  on the naturals has the values its equation says. Sequences laid end to end
  (`Joined`, `BehindPlaces`, `CutOut`, `Longer`), and what `FlattenSeq` makes of a
  sequence of sequences (`FlatIs`, `FlatNext`).

- `ReplayWindowProofs`: `SlideExact`, the lemma about the mask. If the mask is the
  exact picture of a set of indexes below `highest`, then after `Slide` it is the
  exact picture of the set with the new index below the new highest. Both halves of
  the receive context use it.
- `SrtpProofs`, the receiver: `RecvTypeCorrect`, `RecvNoReplay`, `RecvWindowExact`,
  `RecvMonotonic`, for every window, width and packet. `NoReplay` alone is not
  inductive: a packet is refused because its bit is set or because it is too old, so
  the invariant `RecvInv` adds `WindowExact` and `IndexesBelow` (no index consumed is
  above the highest one). The wrap of the 32-bit index does not hurt: it loses fresh
  packets, it delivers none twice.
- `SrtpProofs`, the stream: `SenderExact`, with an invariant that ties `seq_num`, `roc` and
  `prev_seq` to the extended number of the next packet and distinguishes the state
  before the first attempt, after a failed attempt and after a sent packet;
  `StreamNoReplay`; `StreamKeepsPromise`, the refinement; `StreamAcceptsInRange`.
  The last one needs `NoIndexWrap`: nothing past the wrap of the index is ever accepted, so
  the index of the highest packet is its extended number. From there `estimate_roc` is a
  case distinction on how far a packet lies from the highest one, and the exact window
  says that its bit is clear.
- `SrtcpProofs`: `SrtcpWindowExact`, `SrtcpKeepsPromise` and `SrtcpIndexNeverReused`.
  The last one needs `SenderCounts`: until the `uint32_t` wraps, the index is the
  number of packets encrypted and those used are exactly the ones below it.
- `IngestProofs`: `IngestTypeCorrect`, `IngestInOrder`, `IngestNothingSkipped`,
  `IngestLossExplained`, for every capacity and all messages. The invariant `IngestInv`
  adds that messages lie
  one behind the other (`WireOK`) and that what was dispatched lies in front of the
  buffer (`LogBehind`), which is why order survives a loss. `ParseResult` says what
  the parser may answer, `FirstIsNext` that the first request in the buffer is the
  next one in the stream. `LossExplained` needs `LossInv`: the
  buffer is thrown away one round after it was parsed, so a full buffer for which the
  parser has asked for more carries its explanation with it, and later arrivals do not
  change it (`ExplainedStays`).
- `IngestProofs`, NAL units: `NalUnitsExact`, for every file of units and every pair of octets as an
  H.265 header. First where things lie: `Ends` and `Laid` place each start code and each unit in the
  file, by induction over the units. `TestIs` is the lemma that matters: the test of the server
  answers yes exactly where a start code ends that is at least as long as the one it looks for. That is where
  emulation prevention and the last octet are needed (`Within`, `HitIsCode`): without them a
  code could begin in one unit and end in the next. The invariant `UnitsInv` has two halves. For every file, each entry
  of the table is some unit and not empty once it is closed (`Indexes`), so that there is a header
  to send. Where every start code is seen (`AllSeen`), entry m is unit m and ends where
  the next code does minus what the test matched (`Upto`), and the scan has not gone past the next
  code (`Between`). `H264Right` and `H265Right` read the headers back.
- `ConnectionProofs`, the threads: `ConnCryptoExclusive`, `ConnFramesWhole`,
  `ConnTransmitTruthful`, `ConnAtMostOneLateIo`, for any threads and any number of chunks
  per write. The programs are tabulated once (which step of which call is a lock, an I/O),
  and `ConnInv` is stated over program positions: `LockInv` (a thread holds the mutex as
  often as its position says, and nobody else is at a position inside it), `StepInv` (what
  is known of the call at each position), `WireInv` (the wire ends where the
  next chunk of the writer belongs, and a frame is cut short only if `dead` is set or is
  about to be set by the thread that has the mutex), `ResultInv` (what a transmit will
  return) and `LateInv` (a thread that has begun an operation late comes to no other one).
- `ConnectionProofs`, the backends: `TlsAlwaysReleased`, for each set of backends. `TlsInv`
  knows from the position in a function what exists and whether the timeout is set;
  `SoundCalls` is what has to hold of a list of calls for that (every error path frees
  what was made so far, all of it), and is proved of each list in `TlsBackend`. The references to
  wolfSSL are those of failed calls, of the context that exists and of the one in the making.
- `SessionProofs`: `SessionRefusedChangesNothing`, `SessionReleasedOnce` and
  `SessionNoCallbackOnFreed`, for all media and all numbers of set-ups and plays. `SessInv`
  says that a slot points to objects of its own stream (`Links`) and, by the state of the
  connection, exactly which objects were freed (`FreedInv`: none while it is open; behind
  `Client_drop` those that a slot pointed to, once each). `SocketInv` is the count of the sockets,
  step by step. `TimerInv` says that a running timer
  can be found from the slot of its stream, so that `Client_drop` stops it. It is kept only
  if the client does not PLAY what is playing, so `SessionNoCallbackOnFreed` has the
  hypothesis `PlaysAgain = FALSE`; that it cannot go without is the run
  `session_resume`.
- `SessionProofs`, media: `SessionMediaWhole`, for every file, also one that ends within a
  packet, and whichever sends fail. `MediaInv` ties what a stream has sent to where its timer stands
  in the file: the packets, or the units, that are out are those in front of the timer that
  are no delimiters and not in `failed`, each once and in order (`Fills`, over the set of their
  places); a packet has as many samples as the file has at its place, and the timestamp of a unit counts
  the pictures in front of it, those that failed included.
- `SessionProofs`, Digest: `AuthOnlyLastChallenged` and `AuthRefusedOnlyIfOvertaken`, for any
  number of clients. The invariant `AuthInv` adds `Exclusive`
  (every answer over the nonce, on the way or overheard, was made by the client challenged last),
  from which `Deserved` follows at each grant, `HeardNow` (what is worth repeating is over the nonce in
  force), `Honest` (a client with the password answers for itself and for the method it asks)
  and `Informed` (the client challenged last was told the nonce in force, also if it could not be
  replaced), which together say that its answer is not refused.
- `SessionProofs`, keys: `CryptoKeyRoundTrip`. Four characters of Base64 carry three octets: 40
  stand for the 30 octets of key and salt, whatever these are, and the decoder of the code
  gives them back. `CryptoInv` says that what is on its way is the whole text of the sender's own
  key (`Written`), a refusal, or somebody else's attribute.
- `SessionProofs`, MD5: `Md5BlocksRight`. `Md5Inv` says with `Holds` that the context is the
  exact image of a message: its blocks are the first ones of the message, its buffer the
  rest, its count the length. `UpdateHolds`: an update by any piece keeps this, whether it
  fills a block, several or none. `md5_final` is three more updates, with padding of
  1 to 64 octets (`ClosedIs`) and the length as eight octets (`BitsAre`).
- `RtpProofs`, NAL units: `NalRebuiltWhole`, `NalResultTruthful` and
  `NalPacketsWellFormed`, for all header sizes, limits and lengths. `FragmentArith` is the
  arithmetic of the cut and `PacketShape` what it means for a packet. A receiver that sees
  no gap in the sequence numbers may still have fragments of an abandoned unit, so `NalInv`
  says what the fragments it collects are (`PartialInv`: the first packets of one unit, and of
  the unit in hand if no number is missing and the sender is inside of it), that the
  receiver follows as long as nothing is lost (`FollowInv`), and what was passed on
  (`RebuiltInv`, `ArrivedInv`).
- `RtpProofs`, reports: `ReportsCountWire` and `ReportsConsistent`, for all widths. The
  counters are the true numbers modulo their width (`CountsInv`); the last packet is on
  the RTP clock at its media time, `lag` before the time it was sent (`ClockInv`), every report is
  on that clock up to one tick, and its NTP time less the lag of its packet is a monotonic time plus an
  offset that is read once (`SrInv`). Rounding enters three times, so two
  ticks are what can be promised. `ReportsConsistent` has the hypotheses `WholeKHz` (a rate
  of 44100 Hz breaks it, see above) and `NoOverflow` (`elapsed * clock_rate` fits 64 bits: six
  years at 90 kHz).
- `RtpProofs`, writers: `IoWriteTruthful`. `WriteInv` ties what the kernel took to the slice in
  hand (`Over`, `Partly`): everything in front of it left in order, each octet once, and
  nothing is counted ahead; the descriptor writer is the one that may leave a hole.
  `UdpInv`: a datagram that left is the last thing `transmit` did.
- `RtpProofs`, receiver: `FeedsExact`. The header that `Serialize` writes is read back
  field by field whatever it holds (`Reads`: version, flags, CSRCs, extension), all three
  computations of its length agree, and a packet cut in front of the payload is refused.
  `FeedInv` relates each arrival to what was heard of it (`RightAudio`, `RightResult`,
  `RightRtcp`); `HeardOnce` keeps earlier calls from counting for later packets.
- `RtpProofs`, JPEG: `JpegsRebuilt` and `JpegsTruthful`, for all frames and packet sizes. The parser goes
  through the segments one by one, while the properties speak of the frame as a whole (the last SOF0 and
  the last DRI in front of the scan, all tables together). `ReadUpto` is the induction between the
  two: after n segments the info holds exactly what the first n say, or one of them is at
  fault; behind SOS nothing changes (`RoundsRead`). `ParseKnows` and `ParseRefuses` are what it comes
  to. For the packets, `Chain` says that a sequence of them begins a frame without a gap, and
  `JpegInv` that the frame in hand can be sent (`JpegSending`), that what the receiver collects is
  a `Chain` (`JpegPartialInv`), of the frame in hand if nothing of it was lost
  (`JpegFollowInv`), and that it passes on whole frames and those that returned 0
  (`JpegWholeInv`, `JpegResultInv`).

Only model-checked:

- liveness (`CallsReturn`, `Served`, `GetsInUndisturbed`, `MediaEnds`): fairness and ENABLED are
  outside what the prover handles.

Every invariant and every action property that a run checks is a theorem.

## Not modelled

AES, HMAC, `md5_transform`, key derivation and what the TLS libraries do inside
(taken as ideal); the grammar of RTSP and SDP beyond what the receive loop, SETUP and
the crypto attribute depend on; response parsing; allocation failure outside of the
TLS backends, where the code asserts; the `writef` functions and the string writer;
`Compy_RtpTransport_set_extension` and `set_ssrc`; `is_full` and `filled`, which no
code of the repository but an application asks for; `compy_recv_dgram_socket`; the
command line of the server. What is left of the headers under `include/` is
declarations and documentation.

## Plan

1. `Backpressure`: `is_full` and `filled` with a drop policy of the sender.
2. `Ingest` composed with `Session` and `Compy_RtpReceiver_feed`, and an abstract
   specification of the in-order queue of requests that it implements as long as
   nothing is lost.
