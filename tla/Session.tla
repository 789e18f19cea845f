------------------------------ MODULE Session ------------------------------
(***************************************************************************)
(* The life of one client of examples/server.c: the handlers behind        *)
(* compy_dispatch, the timers they start, the objects they make, and the   *)
(* disconnect that takes everything down.  Everything runs in one event    *)
(* loop, so a handler or a callback is one step.                           *)
(*                                                                         *)
(* An object is its number in the order of creation, NULL is 0.  The       *)
(* timer of a playing stream and the context it is given (AudioCtx,        *)
(* VideoCtx) are made, stored and dropped together and share a number.     *)
(***************************************************************************)
EXTENDS Integers, FiniteSets, SequencesExt, TransportHeader

CONSTANTS
    PlaysAgain,     \* does the client PLAY what is playing?
    Headers,        \* values of the Transport header that it uses
    AudioLens,      \* possible lengths of the audio file, in samples
    PerPacket,      \* AUDIO_SAMPLES_PER_PACKET
    NalTable,       \* kinds of the units of the video file, in order
    MaxSetups,      \* bound: SETUP requests that get a transport
    MaxPlays        \* bound: timers started

ASSUME SessionAssumption ==
    /\ PlaysAgain \in BOOLEAN
    /\ PerPacket \in Nat \ {0}
    /\ AudioLens \subseteq Nat \ {0}
    /\ NalTable \in Seq({"sps", "sei", "aud", "vcl"})
    /\ MaxSetups \in Nat /\ MaxPlays \in Nat

Streams == {"audio", "video", "audioback"}
NULL == 0

\* What the Session header of a SETUP may be, besides an id that the server has
\* given out, or 0: absent, no number, another number.
New == -1
Bad == -2
Other == -3

VARIABLES
    conn,               \* "none", "open", "gone"; "aborted": the process died
    streams,            \* Client.streams
    next_id,            \* the session id that /dev/urandom yields next
    rtps,               \* RTP transports, with how often each was freed
    rtcps,              \* RTCP sessions, the same
    ctxs,               \* AudioCtx and VideoCtx with their timers
    sr_timers,          \* the RTCP sessions whose report timer is running
    streams_playing,    \* Client.streams_playing
    backchannels,       \* Compy_Backchannel objects made and not freed
    sockets,            \* UDP sockets that are open
    udp,                \* history: how often setup_udp has made two transports
    lost,               \* history: how often two transports were made for nothing
    media_audio_len,    \* length of the audio file
    answers             \* the responses to the request of the last step, if it was one

media == <<ctxs, streams_playing>>
objects == <<rtps, rtcps, backchannels, sockets, udp, lost>>
session == <<streams, next_id, sr_timers, media, objects>>
vars == <<conn, session, media_audio_len, answers>>

NewStream == [session_id |-> 0, transport |-> NULL, rtcp |-> NULL,
              rtcp_ev |-> NULL, ctx |-> NULL]

Init ==
    /\ conn = "none"
    /\ streams = [s \in Streams |-> NewStream]
    /\ next_id = 1
    /\ rtps = <<>> /\ rtcps = <<>> /\ ctxs = <<>>
    /\ sr_timers = {}
    /\ streams_playing = 0
    /\ backchannels = 0
    /\ sockets = 0 /\ udp = 0 /\ lost = 0
    /\ media_audio_len \in AudioLens
    /\ answers = <<>>

\* A response, by what its status code says: 200, or one of the others (400,
\* 401, 454, 500, 501).
Ok == "ok"
No == "no"

Respond(codes) == answers' = codes

\* listener_cb: a Client full of zeros.
Accept ==
    /\ conn = "none"
    /\ conn' = "open"
    /\ Respond(<<>>)
    /\ UNCHANGED <<session, media_audio_len>>

Members(id) == {s \in Streams : streams[s].session_id = id}
Playing(s) == streams[s].ctx # NULL /\ ctxs[streams[s].ctx].armed

\* The client (external) may PLAY a session again when its streams have ended
\* or, with PlaysAgain, while they run, as after a PAUSE.
MayPlay(id) == PlaysAgain \/ \A s \in Members(id) : ~Playing(s)
-----------------------------------------------------------------------------
\* A handler that answers and leaves the session alone.
Answers(code) == Respond(<<code>>) /\ UNCHANGED <<conn, session>>

\* Client_before: Digest authentication says no, and no handler is called.
Unauthorized == Answers(No)

\* Client_options, Client_describe (its SDP has no effect on later requests),
\* Client_pause_method and Client_get_parameter, Client_unknown.
Options == Answers(Ok)
Describe == Answers(Ok)
Pause == Answers(Ok)
Unknown == Answers(No)

\* compy_dgram_socket, in setup_udp for RTP and again for RTCP: how many
\* sockets there are if the first, the second or neither call fails.
DgramSockets == 0 .. 2

\* Mutant: the first socket is forgotten when the second one fails.
Unclosed_Kept(opened) == opened % 2

\* What stays open of the sockets that are not made into transports.
Unclosed(opened) == 0

\* setup_transport, setup_tcp, setup_udp: what may come of a header value, with
\* the sockets that stay open.  A missing parameter is answered by the callee and
\* again by the caller.
Absent == [absent |-> TRUE]
Got(opened) == [codes |-> <<>>, sockets |-> opened]
Refused(codes, left) == [codes |-> codes, sockets |-> left]

SetupTransport(header) ==
    LET config == IF header = Absent THEN Malformed ELSE ParseTransport(header)
    IN  IF config = Malformed THEN {Refused(<<No>>, 0)}
        ELSE IF config.lower = "TCP"
        THEN {IF config.interleaved THEN Got(0) ELSE Refused(<<No, No>>, 0)}
        ELSE IF ~config.client_port THEN {Refused(<<No, No>>, 0)}
        ELSE {IF n = 2 THEN Got(2) ELSE Refused(<<No>>, Unclosed(n)) : n \in DgramSockets}

\* The sockets and transports of a SETUP.
Make(t) ==
    /\ sockets' = sockets + t.sockets
    /\ udp' = IF t = Got(2) THEN udp + 1 ELSE udp

\* The session id of a SETUP: the one the header names, or a new one.
SessionId(id) == IF id = New THEN next_id ELSE id

\* Mutant: the slot is given its session before the header is looked at.
RefuseSetup_Touched(s, id, codes) ==
    /\ Respond(codes)
    /\ streams' = [streams EXCEPT ![s].session_id = SessionId(id)]
    /\ UNCHANGED <<conn, next_id, sr_timers, media, rtps, rtcps, backchannels>>

\* The early returns of Client_setup.
RefuseSetup(s, id, codes) ==
    /\ Respond(codes)
    /\ UNCHANGED <<conn, streams, next_id, sr_timers, media, rtps, rtcps, backchannels>>

\* The rest of Client_setup for a media stream.  What the slot held before is
\* overwritten, not dropped.
GrantMedia(s, id) ==
    LET n == Len(rtps) + 1
    IN  /\ rtps' = Append(rtps, [stream |-> s, freed |-> 0])
        /\ rtcps' = Append(rtcps, [rtp |-> n, freed |-> 0])
        /\ streams' = [streams EXCEPT ![s].session_id = SessionId(id),
                                      ![s].transport = n, ![s].rtcp = n]
        /\ UNCHANGED backchannels

\* The same for the backchannel: both transports are dropped at once, which closes
\* no socket.
GrantBackchannel(s, id) ==
    /\ streams' = [streams EXCEPT ![s].session_id = SessionId(id), ![s].transport = NULL]
    /\ backchannels' = backchannels + 1
    /\ UNCHANGED <<rtps, rtcps>>

\* Client_setup.  A malformed Session header is found when the transports
\* have been made; they are not dropped, and nothing points to them.
Setup(s, header, id) ==
    \E t \in SetupTransport(header) :
        /\ Make(t)
        /\ \/ /\ t.codes # <<>>
              /\ RefuseSetup(s, id, t.codes)
              /\ UNCHANGED lost
           \/ /\ t.codes = <<>> /\ id = Bad
              /\ RefuseSetup(s, id, <<No>>)
              /\ lost' = lost + 1
           \/ /\ t.codes = <<>> /\ id # Bad
              /\ Respond(<<Ok>>)
              /\ next_id' = IF id = New THEN next_id + 1 ELSE next_id
              /\ IF s = "audioback" THEN GrantBackchannel(s, id) ELSE GrantMedia(s, id)
              /\ UNCHANGED <<conn, sr_timers, media, lost>>

Crash == conn' = "aborted" /\ Respond(<<>>) /\ UNCHANGED session

\* VideoCtx.nal_idx at first: the first SPS, or the first unit.
StartIdx ==
    LET sps == {i \in DOMAIN NalTable : NalTable[i] = "sps"}
    IN  IF sps = {} THEN 1 ELSE Min(sps)

\* play_audio and play_video.
NewCtx(s) ==
    [stream |-> s, rtp |-> streams[s].transport, armed |-> TRUE, freed |-> 0,
     pos |-> IF s = "audio" THEN 0 ELSE StartIdx, timestamp |-> 0, out |-> <<>>, failed |-> {}]

\* The streams of a session in the order of the loops over MAX_STREAMS.
InOrder(S) ==
    LET one(s) == IF s \in S THEN <<s>> ELSE <<>>
    IN  one("audio") \o one("video") \o one("audioback")

\* Does PLAY start the report timer of this stream?
StartReports(s, played) ==
    s \in played /\ streams[s].rtcp # NULL /\ streams[s].rtcp_ev = NULL

\* Client_play.  Compy_NalTransport_new asserts that there is a transport;
\* play_audio does not.
Play(id) ==
    LET M == Members(id)
        order == InOrder(M)
        number(s) == Len(ctxs) + CHOOSE i \in 1 .. Len(order) : order[i] = s
    IN  /\ MayPlay(id)
        /\ CASE M = {} -> Answers(No)
             [] \E s \in M \ {"audio"} : streams[s].transport = NULL -> Crash
             [] OTHER ->
                /\ Len(ctxs) + Len(order) <= MaxPlays
                /\ Respond(<<Ok>>)
                /\ ctxs' = ctxs \o [i \in 1 .. Len(order) |-> NewCtx(order[i])]
                /\ streams_playing' = streams_playing + Len(order)
                /\ sr_timers' = sr_timers \cup
                       {streams[s].rtcp : s \in {x \in M : StartReports(x, M)}}
                /\ streams' = [s \in Streams |->
                       [streams[s] EXCEPT
                           !.ctx = IF s \in M THEN number(s) ELSE @,
                           !.rtcp_ev = IF StartReports(s, M) THEN streams[s].rtcp ELSE @]]
                /\ UNCHANGED <<conn, next_id, objects>>

\* event_del of the streams' timers.
StopTimers(M) ==
    ctxs' = [k \in DOMAIN ctxs |->
                IF \E s \in M : streams[s].ctx = k THEN [ctxs[k] EXCEPT !.armed = FALSE]
                ELSE ctxs[k]]

\* Client_teardown: the timers stop, and that is all.  event_del of a stream
\* that was never played takes a null pointer.
Teardown(id) ==
    LET M == Members(id)
    IN  CASE M = {} -> Answers(No)
          [] \E s \in M : streams[s].ctx = NULL -> Crash
          [] OTHER ->
             /\ Respond(<<Ok>>)
             /\ StopTimers(M)
             /\ UNCHANGED <<conn, streams, next_id, sr_timers, streams_playing, objects>>

\* PLAY or TEARDOWN with a Session header that holds no number.
BadSession == Answers(No)

\* compy_dispatch: before, then the handler of the method.  A Session header
\* may name any number: also 0, the id of every slot that was not set up.
Request ==
    /\ conn = "open"
    /\ \/ Unauthorized
       \/ Options \/ Describe \/ Pause \/ Unknown
       \/ BadSession
       \/ \E s \in Streams, header \in Headers, id \in {New, Bad, Other} \cup 0 .. next_id - 1 :
              /\ Len(rtps) + backchannels + lost < MaxSetups
              /\ Setup(s, header, id)
       \/ \E id \in {Other} \cup 0 .. next_id - 1 : Play(id) \/ Teardown(id)
    /\ UNCHANGED <<media_audio_len>>
-----------------------------------------------------------------------------
\* Mutant: the timer is left to libevent, which repeats it.
Finish_Persists(k) == UNCHANGED media

\* The media have ended.
Finish(k) ==
    /\ ctxs' = [ctxs EXCEPT ![k].armed = FALSE]
    /\ streams_playing' = streams_playing - 1

\* Mutant: the last packet is as long as the others.
Samples_Full(from) == PerPacket

\* samples_count: the rest of the file if it is shorter than a packet.
Samples(from) ==
    IF media_audio_len < from + PerPacket THEN media_audio_len % PerPacket ELSE PerPacket

\* What a context has sent is kept in `out` by its place in the file; the places
\* where send_packet returned -1, which is only printed, are in `failed`.

\* send_audio_packet_cb: packet number pos, with its count of samples.
AudioTick(k) ==
    LET c == ctxs[k]
        from == c.pos * PerPacket
    IN  /\ c.stream = "audio" /\ c.armed
        /\ IF from >= media_audio_len THEN Finish(k) /\ UNCHANGED conn
           ELSE IF c.rtp = NULL THEN conn' = "aborted" /\ UNCHANGED media
           ELSE /\ \/ ctxs' = [ctxs EXCEPT
                                  ![k].pos = @ + 1,
                                  ![k].out = Append(@, <<c.pos, Samples(from)>>)]
                   \/ ctxs' = [ctxs EXCEPT
                                  ![k].pos = @ + 1,
                                  ![k].failed = @ \cup {c.pos}]
                /\ UNCHANGED <<conn, streams_playing>>

\* The units that go out, by their places in the file: access unit delimiters are
\* passed over.
Units(from, to, lost_units) ==
    LET sent[i \in from - 1 .. to] ==
            IF i = from - 1 THEN <<>>
            ELSE IF NalTable[i] = "aud" \/ i \in lost_units THEN sent[i - 1]
            ELSE Append(sent[i - 1], i)
    IN  sent[to]

Stamp(units, timestamp) == [i \in DOMAIN units |-> <<units[i], timestamp>>]

\* send_video_packet_cb: the units before the next picture, the picture.  The
\* sends of some of them fail; the timestamp moves on all the same.
VideoTick(k) ==
    LET c == ctxs[k]
        pictures == {i \in c.pos .. Len(NalTable) : NalTable[i] = "vcl"}
        to == IF pictures = {} THEN Len(NalTable) ELSE Min(pictures)
    IN  /\ c.stream # "audio" /\ c.armed
        /\ \E lost_units \in SUBSET {i \in c.pos .. to : NalTable[i] # "aud"} :
               ctxs' = [ctxs EXCEPT
                           ![k].pos = to + 1,
                           ![k].timestamp = IF pictures = {} THEN @ ELSE @ + 1,
                           ![k].out = @ \o Stamp(Units(c.pos, to, lost_units), c.timestamp),
                           ![k].failed = @ \cup lost_units,
                           ![k].armed = to < Len(NalTable)]
        /\ streams_playing' = IF to < Len(NalTable) THEN streams_playing
                              ELSE streams_playing - 1
        /\ UNCHANGED conn

\* A stream timer fires.  The callback does not look whether its client is
\* still there.
Tick(k) ==
    /\ conn # "aborted"
    /\ k \in DOMAIN ctxs
    /\ AudioTick(k) \/ VideoTick(k)
    /\ answers' = <<>>
    /\ UNCHANGED <<streams, next_id, sr_timers, objects, media_audio_len>>

\* The RTP transports that Client_drop frees: those of the contexts.
FreedRtps == {ctxs[streams[s].ctx].rtp : s \in {x \in Streams : streams[x].ctx # NULL}}

\* Mutant: the report timer is left to run when the stream has been played.
StoppedReports_Unplayed == {streams[s].rtcp_ev : s \in {x \in Streams : streams[x].ctx = NULL}}

\* The report timers that Client_drop stops.  Their callback, send_rtcp_sr_cb,
\* only reads what is modelled here.
StoppedReports == {streams[s].rtcp_ev : s \in Streams}

\* Client_drop: timers off, BYE, RTCP session, context with its RTP transport,
\* backchannel.  What an overwritten slot pointed to is not reached, and the drop
\* of a UDP transport does not close its socket.
Drop ==
    LET dropped == {streams[s].rtcp : s \in Streams}
        held == {streams[s].ctx : s \in Streams}
        free(x, yes) == IF yes THEN [x EXCEPT !.freed = @ + 1] ELSE x
    IN  /\ conn' = "gone"
        /\ sr_timers' = sr_timers \ StoppedReports
        /\ rtcps' = [r \in DOMAIN rtcps |-> free(rtcps[r], r \in dropped)]
        /\ ctxs' = [k \in DOMAIN ctxs |->
                       free([ctxs[k] EXCEPT !.armed = @ /\ k \notin held], k \in held)]
        /\ rtps' = [n \in DOMAIN rtps |-> free(rtps[n], n \in FreedRtps)]
        /\ backchannels' = IF backchannels > 0 THEN backchannels - 1 ELSE 0
        /\ answers' = <<>>
        /\ UNCHANGED <<streams, next_id, streams_playing, sockets, udp, lost>>

\* on_event_cb, compy_libevent_ctx_free.  Compy_RtpTransport_drop asserts that
\* there is a transport, which AudioCtx_drop passes to it.
Disconnect ==
    /\ conn = "open"
    /\ IF NULL \in FreedRtps THEN Crash ELSE Drop
    /\ UNCHANGED media_audio_len

Next ==
    \/ Accept
    \/ Request
    \/ \E k \in 1 .. MaxPlays : Tick(k)
    \/ Disconnect

\* libevent runs the timers that are due.
Fairness == \A k \in 1 .. MaxPlays : WF_vars(Tick(k))

Spec == Init /\ [][Next]_vars /\ Fairness
-----------------------------------------------------------------------------
\* Client_drop, "Stop stream timer first to prevent callbacks on freed
\* memory": whatever timer is running finds its client, its context, its
\* transport and its RTCP session.
NoCallbackOnFreed ==
    /\ \A k \in DOMAIN ctxs : ctxs[k].armed =>
           /\ conn # "gone"
           /\ ctxs[k].freed = 0
           /\ ctxs[k].rtp # NULL => rtps[ctxs[k].rtp].freed = 0
    /\ \A r \in sr_timers :
           /\ rtcps[r].freed = 0
           /\ rtps[rtcps[r].rtp].freed = 0

\* Nothing is freed twice.  The open UDP sockets are those of the transports that
\* setup_udp has made, two each time: a SETUP that fails halfway closes what it
\* opened, and nothing else ever closes one.  A connection whose streams were each
\* set up and played once leaves no RTP transport, RTCP session, context or timer
\* behind when it goes.
ReleasedOnce ==
    LET all == {rtps[n].freed : n \in DOMAIN rtps} \cup {rtcps[r].freed : r \in DOMAIN rtcps}
               \cup {ctxs[k].freed : k \in DOMAIN ctxs}
        once == /\ IsInjective([n \in DOMAIN rtps |-> rtps[n].stream])
                /\ IsInjective([k \in DOMAIN ctxs |-> ctxs[k].rtp])
                /\ {ctxs[k].rtp : k \in DOMAIN ctxs} = DOMAIN rtps
    IN  /\ all \subseteq {0, 1}
        /\ sockets = 2 * udp
        /\ conn = "gone" /\ once => 0 \notin all

\* A request that is refused changes nothing of the session, and one that is
\* answered more than once is refused each time.  What a SETUP with a malformed
\* Session header has made by then (`lost`, `sockets`) belongs to no session.
RefusedChangesNothing ==
    [][answers' # <<>> =>
          \/ answers' = <<Ok>>
          \/ /\ Ok \notin ToSet(answers')
             /\ UNCHANGED <<streams, next_id, sr_timers, media, rtps, rtcps, backchannels>>]_vars

\* The places before pos, each once and in order, but those whose send failed.
Complete(out, places, failed) ==
    /\ {out[i][1] : i \in DOMAIN out} = places \ failed
    /\ failed \subseteq places
    /\ \A i \in 1 .. Len(out) - 1 : out[i][1] < out[i + 1][1]

\* Every packet of samples goes out once, in order, at its place and with the
\* samples the file has there, unless its own send fails; none lies behind the end
\* of the file.
AudioWhole(c) ==
    /\ Complete(c.out, 0 .. c.pos - 1, c.failed)
    /\ \A n \in 0 .. c.pos - 1 : n * PerPacket < media_audio_len
    /\ \A i \in DOMAIN c.out :
           c.out[i][2] = Min({PerPacket, media_audio_len - c.out[i][1] * PerPacket})

\* Of the video every unit but the delimiters, in order, unless its own send
\* fails; and a unit's timestamp tells how many pictures lie in front of it,
\* whether they have gone out or not.
PicturesBefore(n) == Cardinality({i \in StartIdx .. n - 1 : NalTable[i] = "vcl"})

VideoWhole(c) ==
    /\ Complete(c.out,
                {i \in DOMAIN NalTable : StartIdx <= i /\ i < c.pos /\ NalTable[i] # "aud"},
                c.failed)
    /\ \A i \in DOMAIN c.out : c.out[i][2] = PicturesBefore(c.out[i][1])

\* A send that fails costs its own packet and nothing else.
MediaWhole ==
    \A k \in DOMAIN ctxs :
        IF ctxs[k].stream = "audio" THEN AudioWhole(ctxs[k]) ELSE VideoWhole(ctxs[k])

Armed(k) == k \in DOMAIN ctxs /\ ctxs[k].armed

\* The timer of a stream does not run for ever: the media end, if nobody stops
\* them before.
MediaEnds ==
    \A k \in 1 .. MaxPlays : Armed(k) ~> ~Armed(k) \/ conn = "aborted"
=============================================================================
