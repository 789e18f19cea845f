-------------------------- MODULE TransportHeader --------------------------
(***************************************************************************)
(* compy_parse_transport (src/util.c): what a SETUP request's Transport    *)
(* header asks for.  A header value is its protocol and its parameters; of *)
(* a parameter the parser sees what its text begins with and, for a range, *)
(* whether sscanf reads two numbers from it.                               *)
(***************************************************************************)
EXTENDS Integers, Sequences

Malformed == [malformed |-> TRUE]
NoConfig == [lower |-> "UDP", interleaved |-> FALSE, client_port |-> FALSE]

\* parse_lower_transport looks at what the value begins with: behind RTP/AVP the
\* suffix decides, and without one it is UDP.  "RTP/SAVP" is not understood.
LowerTransport(protocol) ==
    CASE protocol = "RTP/AVP/TCP" -> "TCP"
      [] protocol \in {"RTP/AVP", "RTP/AVP/UDP"} -> "UDP"
      [] OTHER -> "unknown"

\* The parameters that carry a range; it must be well formed, also the one of
\* server_port, which nobody uses.
Ranges == {"interleaved", "client_port", "server_port"}

\* parse_transport_param, parse_channel_pair, parse_port_pair: one parameter
\* is added to the configuration.  An unknown one is ignored.
ParseParam(config, param) ==
    IF param.name \in Ranges /\ ~param.pair THEN Malformed
    ELSE CASE param.name = "interleaved" -> [config EXCEPT !.interleaved = TRUE]
           [] param.name = "client_port" -> [config EXCEPT !.client_port = TRUE]
           [] OTHER -> config

\* compy_parse_transport: from the left, up to the first malformed parameter.
ParseTransport(header) ==
    LET parsed[i \in 0 .. Len(header.params)] ==
            IF i = 0 THEN [NoConfig EXCEPT !.lower = LowerTransport(header.protocol)]
            ELSE IF parsed[i - 1] = Malformed THEN Malformed
            ELSE ParseParam(parsed[i - 1], header.params[i])
    IN  IF LowerTransport(header.protocol) = "unknown" THEN Malformed
        ELSE parsed[Len(header.params)]
=============================================================================
