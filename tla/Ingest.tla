------------------------------- MODULE Ingest -------------------------------
(***************************************************************************)
(* The receiving side of an RTSP connection: compy_libevent_cb             *)
(* (examples/compy-libevent.c) over Compy_Request_parse                    *)
(* (src/types/request.c).                                                  *)
(*                                                                         *)
(* A client sends requests and interleaved frames, and they arrive in      *)
(* pieces.  What the parse buffer holds is always one stretch of the       *)
(* client's byte stream, so the buffer is the pair of stream positions     *)
(* head and tail, and the text of a message is reduced to the offsets at   *)
(* which the parser's answer changes if the buffer ends there.  Positions  *)
(* are counted in units, of one or more bytes, that no piece divides.      *)
(***************************************************************************)
EXTENDS Integers, Sequences

CONSTANTS
    Kinds,          \* the messages a client may send
    Capacity,       \* PARSE_BUF_SIZE
    MaxMessages,    \* bound: messages sent on a connection
    None

\* A message is a record with the fields
\*   request  a request, and not an interleaved frame;
\*   size     its length;
\*   slash    a request's length up to and with the text "RTSP/";
\*   full     if it has COMPY_HEADER_MAP_CAPACITY headers, its length up to and
\*            with the last one; 0 otherwise;
\*   fault    "line" if the request line is malformed behind "RTSP/"; "late" if
\*            Content-Length or CSeq are (or CSeq is missing); "none";
\*   cr       the offsets at the end of a "\r".
ASSUME IngestAssumption ==
    /\ Capacity \in Nat \ {0}
    /\ MaxMessages \in Nat
    /\ None \notin [head : Nat, tail : Nat]
    /\ \A k \in Kinds :
        /\ k.request \in BOOLEAN
        /\ k.size \in Nat \ {0}
        /\ k.slash \in 0 .. k.size /\ k.full \in 0 .. k.size - 1
        /\ k.fault \in {"none", "line", "late"}
        /\ k.cr \subseteq 1 .. k.size

VARIABLES
    wire,       \* the messages sent so far, with the positions of their ends
    arrived,    \* position up to which evbuffer has been filled
    head, tail, \* ctx->buf holds the positions from head to tail
    log,        \* history: the requests dispatched as they were sent
    loss,       \* history: the first stretch of the stream thrown away, or None
    pipelined   \* history: the client once sent a request while another waited

vars == <<wire, arrived, head, tail, log, loss, pipelined>>

End(i) == IF i = 0 THEN 0 ELSE wire[i].end
Begin(i) == End(i - 1)
Sent == End(Len(wire))

Requests == { i \in 1 .. Len(wire) : wire[i].kind.request }
Dispatched == { log[n] : n \in 1 .. Len(log) }

\* A message begins at position h.
Aligned(h) == \E i \in 0 .. Len(wire) : h = End(i)

\* The requests that have not begun before position h.
Ahead(h) == { i \in Requests : Begin(i) >= h }
Firsts(S) == { i \in S : \A j \in S : i <= j }

\* The byte in front of position t is a "\r".
CrAt(t) == \E i \in 1 .. Len(wire) : Begin(i) < t /\ t <= End(i) /\ t - Begin(i) \in wire[i].kind.cr

\* compy_libevent_ctx
Init ==
    /\ wire = << >>
    /\ arrived = 0 /\ head = 0 /\ tail = 0
    /\ log = << >>
    /\ loss = None
    /\ pipelined = FALSE
-----------------------------------------------------------------------------
\* What comes of a parse: the next head of the buffer, the request to dispatch
\* (0 if none, or if it is put together from the remains of several messages),
\* and whether the buffer is thrown away.  A matcher that meets the end of its
\* input asks for more; MATCH hands this, and a failure, up; a complete request is
\* shifted out of the buffer.
Partial(h) == [head |-> h, request |-> 0, lost |-> FALSE]
Failure(t) == [head |-> t, request |-> 0, lost |-> TRUE]
Complete(to, i) == [head |-> to, request |-> i, lost |-> FALSE]

\* Mutant: a request is only seen with data behind it.
Whole_More(k, p) == p > k.size

\* The input reaches to the end of the headers and of the body.
Whole(k, p) == p >= k.size

\* Mutant: the bytes consumed are counted from the request line on.
Consumed_NoFrames(i, h) == h + wire[i].kind.size

\* Mutant: the buffer is not shifted.
Consumed_Nothing(i, h) == h

\* The position behind request i: the bytes consumed are counted from `backup`,
\* in front of the frames.
Consumed(i, h) == h + (End(i) - h)

\* The input ends behind "RTSP/": compy_match_numeric looks at the next byte all
\* the same, and it is a digit or not, whatever earlier input left in the buffer.
AtVersion(k, p) == p = k.slash

\* Compy_RequestLine_parse has seen what is wrong with the request line.
BadLine(k, p) == k.fault = "line" /\ p > k.slash

\* The input ends behind the header that fills the map: Compy_HeaderMap_parse asks
\* for room before it asks for more input.
MapFull(k, p) == p = k.full

\* The value of CSeq does not parse, or CSeq is missing; the same for Content-Length,
\* whose request then has no body.
BadHeaders(k) == k.fault = "late"

\* Compy_Request_parse on the first request i, behind the frames.
\* Compy_HeaderMap_parse wants more if the input, whatever is in it, ends in "\r".
ParseRequest(i, h, t) ==
    LET k == wire[i].kind
        p == t - Begin(i)
    IN IF AtVersion(k, p) THEN {Partial(h), Failure(t)}
       ELSE IF BadLine(k, p) \/ MapFull(k, p) THEN {Failure(t)}
       ELSE IF CrAt(t) \/ ~Whole(k, p) THEN {Partial(h)}
       ELSE IF BadHeaders(k) THEN {Failure(t)}
       ELSE {Complete(Consumed(i, h), i)}

\* Compy_Request_parse on the buffer from h to t.  Frames are skipped, and what
\* ends inside a frame or in front of a request needs more input.  From the middle
\* of a message the bytes may look like anything.
Parse(h, t) ==
    IF Aligned(h)
    THEN LET begun == { i \in Ahead(h) : Begin(i) < t }
         IN IF begun = {} THEN {Partial(h)}
            ELSE UNION { ParseRequest(i, h, t) : i \in Firsts(begun) }
    ELSE {Partial(h), Failure(t)} \cup { Complete(to, 0) : to \in h + 1 .. t }
-----------------------------------------------------------------------------
\* The client sends a message.
Send(k) ==
    /\ Len(wire) < MaxMessages
    /\ wire' = Append(wire, [kind |-> k, end |-> Sent + k.size])
    /\ pipelined' = (pipelined \/ (k.request /\ Requests \ Dispatched # {}))
    /\ UNCHANGED <<arrived, head, tail, log, loss>>

\* libevent reads what has arrived, and then calls compy_libevent_cb, which is
\* done when the input is empty.
Deliver ==
    /\ arrived = tail
    /\ arrived' \in arrived + 1 .. Sent
    /\ UNCHANGED <<wire, head, tail, log, loss, pipelined>>

\* Mutant: the buffer is taken to be full with room for one more unit.
Room_Less == tail - head < Capacity - 1

\* There is space in the buffer.
Room == tail - head < Capacity

\* Mutant: as much is read as would fit into an empty buffer.
Fits_Empty(h) == tail + Capacity

\* The buffer, from h, can hold the stream up to this position.
Fits(h) == h + Capacity

\* compy_dispatch, before and after which nothing else is called for the request.
Dispatch(i) == log' = IF i = 0 THEN log ELSE Append(log, i)

\* An iteration of the loop of compy_libevent_cb: a full buffer is thrown away;
\* the buffer is filled up and parsed; a complete request is dispatched and shifted
\* out, and a parse error throws the buffer away.
Iterate ==
    LET h == IF Room THEN head ELSE tail
        t == IF arrived < Fits(h) THEN arrived ELSE Fits(h)
    IN
    /\ tail < arrived
    /\ tail' = t
    /\ \E r \in Parse(h, t) :
        /\ head' = r.head
        /\ Dispatch(r.request)
        /\ loss' = IF loss # None THEN loss
                   ELSE IF ~Room THEN [head |-> head, tail |-> tail]
                   ELSE IF r.lost THEN [head |-> h, tail |-> t]
                   ELSE None
    /\ UNCHANGED <<wire, arrived, pipelined>>

Next == (\E k \in Kinds : Send(k)) \/ Deliver \/ Iterate

Spec == Init /\ [][Next]_vars

\* The event loop runs the callback to its end and reads what has arrived; the
\* client may fall silent.
FairSpec == Spec /\ WF_vars(Deliver) /\ WF_vars(Iterate)
-----------------------------------------------------------------------------
TypeOK ==
    /\ 0 <= head /\ head <= tail /\ tail <= arrived /\ arrived <= Sent
    /\ tail - head <= Capacity
    /\ \A i \in 1 .. Len(wire) : wire[i].kind \in Kinds /\ End(i) = Begin(i) + wire[i].kind.size
    /\ Dispatched \subseteq Requests
    /\ pipelined \in BOOLEAN

\* Requests are dispatched in the order they were sent and at most once, also
\* after the parser has lost its place in the stream.
InOrder == \A m, n \in 1 .. Len(log) : m < n => log[m] < log[n]

\* As long as nothing was thrown away, the buffer begins with a message, and of
\* the requests in front of it none is missing, however the stream was cut and
\* whatever frames there are between them.
NothingSkipped ==
    loss = None =>
        /\ Aligned(head)
        /\ Dispatched = { i \in Requests : End(i) <= head }

\* What the server throws away first is a full buffer without a whole request in
\* front (or one that ends in "\r"), or a request that is malformed or that was
\* cut where the parser cannot tell: behind "RTSP/" or behind the last of 32
\* headers.
LossExplained ==
    loss # None =>
        \/ /\ loss.tail - loss.head = Capacity
           /\ \/ CrAt(loss.tail)
              \/ \A i \in Firsts(Ahead(loss.head)) : End(i) > loss.tail
        \/ \E i \in Firsts(Ahead(loss.head)) :
            /\ Begin(i) < loss.tail
            /\ \/ wire[i].kind.fault # "none"
               \/ loss.tail - Begin(i) \in {wire[i].kind.slash, wire[i].kind.full}

\* A client that waits for each answer is served: its request is dispatched unless
\* something was thrown away, or the last byte it sent is a "\r".
Served ==
    \A i \in 1 .. MaxMessages :
        i \in Requests ~> (i \in Dispatched \/ pipelined \/ loss # None \/ CrAt(Sent))
=============================================================================
