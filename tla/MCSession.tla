----------------------------- MODULE MCSession -----------------------------
(* Session with short files and every kind of Transport header. *)
EXTENDS Session

MCNalTable == <<"sps", "aud", "vcl", "sei">>

Param(name, pair) == [name |-> name, pair |-> pair]

MCHeaders == {
    [protocol |-> "RTP/AVP/TCP", params |-> <<Param("unicast", FALSE), Param("interleaved", TRUE)>>],
    [protocol |-> "RTP/AVP", params |-> <<Param("client_port", TRUE)>>],
    [protocol |-> "RTP/AVP/TCP", params |-> <<Param("client_port", TRUE)>>],
    Absent,
    [protocol |-> "RTP/AVP/UDP", params |-> <<Param("client_port", FALSE), Param("unicast", FALSE)>>]}

\* Two questions share the run.  With an audio file of one packet it is the life of
\* the objects: all transports are made over UDP, and no send fails.  With a longer
\* one it is what goes out: two set-ups over TCP are enough.
Scope ==
    LET made == Len(rtps') + backchannels' + lost'
    IN  IF media_audio_len <= PerPacket
        THEN /\ conn' = "open" => udp' = made
             /\ \A k \in DOMAIN ctxs' : ctxs'[k].failed = {}
        ELSE udp' = 0 /\ lost' = 0 /\ made <= 2
=============================================================================
