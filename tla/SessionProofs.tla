--------------------------- MODULE SessionProofs ---------------------------
(***************************************************************************)
(* Proofs about the server.  Session, for any headers, files and bounds:   *)
(* what a disconnect frees, what the timers that are left then would       *)
(* touch, what a refused request leaves alone, and what the media timers   *)
(* send.  Auth, for any clients, passwords and interleaving of their       *)
(* requests: who is let in.  SdpCrypto, for any keys and attributes of     *)
(* other implementations: which key the other side reads.  Md5, for any    *)
(* cut of a message into pieces: which blocks are transformed.             *)
(***************************************************************************)
EXTENDS Session, Auth, SdpCrypto, Md5, DataLemmas, FiniteSetTheorems

-----------------------------------------------------------------------------
(* The invariant.                                                          *)

Rtp == [stream : Streams, freed : Nat]
Rtcp == [rtp : Nat, freed : Nat]

\* A context, whatever it has sent.
Ctx(c) == [stream : Streams, rtp : Nat, armed : BOOLEAN, freed : Nat,
           pos : {c.pos}, timestamp : {c.timestamp}, out : {c.out}, failed : {c.failed}]

Slot == [session_id : Int, transport : Nat, rtcp : Nat, rtcp_ev : Nat, ctx : Nat]

IsList(q) == q \in Seq({q[k] : k \in DOMAIN q})

SessTypes ==
    /\ conn \in {"none", "open", "gone", "aborted"}
    /\ streams \in [Streams -> Slot]
    /\ next_id \in Int
    /\ rtps \in Seq(Rtp)
    /\ rtcps \in Seq(Rtcp)
    /\ IsList(ctxs)
    /\ \A k \in 1 .. Len(ctxs) : ctxs[k] \in Ctx(ctxs[k])
    /\ backchannels \in Nat

\* An RTCP session is made with its RTP transport.  A slot points to objects of
\* its own stream, and once it has pointed to one it always points to one.
Links ==
    /\ Len(rtcps) = Len(rtps)
    /\ \A r \in 1 .. Len(rtps) : rtcps[r].rtp = r /\ streams[rtps[r].stream].rtcp # NULL
    /\ \A s \in Streams :
           /\ streams[s].transport # NULL =>
                  streams[s].transport \in 1 .. Len(rtps) /\ rtps[streams[s].transport].stream = s
           /\ streams[s].rtcp # NULL =>
                  streams[s].rtcp \in 1 .. Len(rtps) /\ rtps[streams[s].rtcp].stream = s
           /\ streams[s].ctx # NULL =>
                  streams[s].ctx \in 1 .. Len(ctxs) /\ ctxs[streams[s].ctx].stream = s
    /\ \A k \in 1 .. Len(ctxs) :
           /\ streams[ctxs[k].stream].ctx # NULL
           /\ ctxs[k].rtp # NULL =>
                  ctxs[k].rtp \in 1 .. Len(rtps) /\ rtps[ctxs[k].rtp].stream = ctxs[k].stream

Untouched ==
    /\ \A n \in 1 .. Len(rtps) : rtps[n].freed = 0 /\ rtcps[n].freed = 0
    /\ \A k \in 1 .. Len(ctxs) : ctxs[k].freed = 0

\* What Client_drop has freed: what the slots pointed to.
Dropped ==
    /\ \A n \in 1 .. Len(rtps) :
           /\ rtps[n].freed = IF n \in FreedRtps THEN 1 ELSE 0
           /\ rtcps[n].freed = IF \E s \in Streams : streams[s].rtcp = n THEN 1 ELSE 0
    /\ \A k \in 1 .. Len(ctxs) :
           ctxs[k].freed = IF \E s \in Streams : streams[s].ctx = k THEN 1 ELSE 0

FreedInv ==
    /\ conn \in {"none", "open"} => Untouched
    /\ conn = "gone" => Dropped
    /\ \A n \in 1 .. Len(rtps) : rtps[n].freed \in {0, 1} /\ rtcps[n].freed \in {0, 1}
    /\ \A k \in 1 .. Len(ctxs) : ctxs[k].freed \in {0, 1}

SessInv == SessTypes /\ Links /\ FreedInv

\* A timer that runs can be found from the slot of its stream, so Client_drop
\* stops it.  This is what a PLAY of a stream that is playing breaks.
TimerInv ==
    /\ \A k \in 1 .. Len(ctxs) : ctxs[k].armed => streams[ctxs[k].stream].ctx = k
    /\ \A r \in sr_timers : r \in 1 .. Len(rtps) /\ streams[rtps[r].stream].rtcp_ev = r
    /\ conn = "gone" => sr_timers = {} /\ \A k \in 1 .. Len(ctxs) : ~ctxs[k].armed
    /\ conn = "aborted" => Untouched
-----------------------------------------------------------------------------
(* Helpers of Session.                                                     *)

\* o lists the streams of S, each once.
Lists(o, S) ==
    /\ o \in Seq(Streams)
    /\ \A i \in 1 .. Len(o) : o[i] \in S
    /\ \A s \in S : \E i \in 1 .. Len(o) : o[i] = s
    /\ \A i, j \in 1 .. Len(o) : o[i] = o[j] => i = j

\* One list behind another.
LEMMA ListsJoined ==
    ASSUME NEW A, NEW B, NEW p, NEW q, Lists(p, A), Lists(q, B), A \cap B = {}
    PROVE  Lists(p \o q, A \cup B)
<1> DEFINE o == p \o q
<1>1. /\ p \in Seq(Streams) /\ q \in Seq(Streams) /\ Len(p) \in Nat /\ Len(q) \in Nat
      /\ o \in Seq(Streams) /\ Len(o) = Len(p) + Len(q)
      /\ \A i \in 1 .. Len(o) : o[i] = IF i <= Len(p) THEN p[i] ELSE q[i - Len(p)]
  BY ConcatProperties DEF Lists
<1> HIDE DEF o
<1>2. ASSUME NEW i \in 1 .. Len(o)
      PROVE  /\ i <= Len(p) => i \in 1 .. Len(p) /\ o[i] = p[i] /\ o[i] \in A
             /\ i > Len(p) => i - Len(p) \in 1 .. Len(q) /\ o[i] = q[i - Len(p)] /\ o[i] \in B
  <2>1. CASE i <= Len(p)
    <3>1. i \in 1 .. Len(p) /\ o[i] = p[i]
      BY <1>1, <2>1
    <3>2. QED
      BY <1>1, <2>1, <3>1 DEF Lists
  <2>2. CASE i > Len(p)
    <3>1. i - Len(p) \in 1 .. Len(q) /\ o[i] = q[i - Len(p)]
      BY <1>1, <2>2
    <3>2. QED
      BY <1>1, <2>2, <3>1 DEF Lists
  <2>3. QED
    BY <1>1, <2>1, <2>2
<1>3. \A i \in 1 .. Len(o) : o[i] \in A \cup B
  BY <1>1, <1>2
<1>4. ASSUME NEW s \in A \cup B
      PROVE  \E i \in 1 .. Len(o) : o[i] = s
  <2>1. CASE s \in A
    <3>1. PICK i \in 1 .. Len(p) : p[i] = s
      BY <2>1 DEF Lists
    <3>2. i \in 1 .. Len(o) /\ o[i] = s
      BY <1>1, <3>1
    <3>3. QED
      BY <3>2
  <2>2. CASE s \in B
    <3>1. PICK i \in 1 .. Len(q) : q[i] = s
      BY <2>2 DEF Lists
    <3>2. Len(p) + i \in 1 .. Len(o) /\ o[Len(p) + i] = q[(Len(p) + i) - Len(p)]
      BY <1>1
    <3>3. (Len(p) + i) - Len(p) = i
      BY <1>1
    <3>4. QED
      BY <3>1, <3>2, <3>3
  <2>3. QED
    BY <2>1, <2>2
<1>5. ASSUME NEW i \in 1 .. Len(o), NEW j \in 1 .. Len(o), o[i] = o[j]
      PROVE  i = j
  <2>1. CASE i <= Len(p) /\ j <= Len(p)
    BY <1>2, <1>5, <2>1 DEF Lists
  <2>2. CASE i > Len(p) /\ j > Len(p)
    <3>1. i - Len(p) = j - Len(p)
      BY <1>2, <1>5, <2>2 DEF Lists
    <3>2. QED
      BY <1>1, <3>1
  <2>3. CASE i <= Len(p) /\ j > Len(p)
    BY <1>2, <1>5, <2>3
  <2>4. CASE i > Len(p) /\ j <= Len(p)
    BY <1>2, <1>5, <2>4
  <2>5. QED
    BY <1>1, <2>1, <2>2, <2>3, <2>4
<1>6. QED
  BY <1>1, <1>3, <1>4, <1>5 DEF Lists, o

\* The streams of a session, in the order of the loop, each once.
LEMMA InOrderLists ==
    ASSUME NEW M \in SUBSET Streams
    PROVE  Lists(InOrder(M), M)
<1> DEFINE one(s) == IF s \in M THEN <<s>> ELSE <<>>
           only(s) == M \cap {s}
<1>1. ASSUME NEW s \in Streams
      PROVE  Lists(one(s), only(s))
  <2>1. CASE s \in M
    BY <2>1 DEF Lists
  <2>2. CASE s \notin M
    BY <2>2 DEF Lists
  <2>3. QED
    BY <2>1, <2>2
<1>2. Lists(one("audio"), only("audio")) /\ Lists(one("video"), only("video"))
      /\ Lists(one("audioback"), only("audioback"))
  BY <1>1 DEF Streams
<1>3. InOrder(M) = (one("audio") \o one("video")) \o one("audioback")
  BY DEF InOrder
<1>4. /\ only("audio") \cap only("video") = {}
      /\ (only("audio") \cup only("video")) \cap only("audioback") = {}
      /\ (only("audio") \cup only("video")) \cup only("audioback") = M
  BY DEF Streams
<1> HIDE DEF one, only
<1>5. Lists(one("audio") \o one("video"), only("audio") \cup only("video"))
  BY <1>2, <1>4, ListsJoined, Zenon
<1>6. Lists((one("audio") \o one("video")) \o one("audioback"),
            (only("audio") \cup only("video")) \cup only("audioback"))
  BY <1>2, <1>4, <1>5, ListsJoined, Zenon
<1>7. QED
  BY <1>3, <1>4, <1>6, Zenon

\* A transport is refused with one answer or two, none of them a success, and
\* then no socket stays open.
LEMMA TransportAnswers ==
    ASSUME NEW header, NEW t \in SetupTransport(header)
    PROVE  /\ t.codes \in {<<>>, <<No>>, <<No, No>>}
           /\ t = Got(2) \/ t.sockets = 0
BY DEF SetupTransport, Refused, Got, Unclosed
-----------------------------------------------------------------------------
(* A refused request.                                                      *)

LEMMA RefusedStep ==
    ASSUME Request, answers' # <<>>
    PROVE  \/ answers' = <<Ok>>
           \/ /\ Ok \notin ToSet(answers')
              /\ UNCHANGED <<streams, next_id, sr_timers, media, rtps, rtcps, backchannels>>
<1>1. Ok \notin ToSet(<<No>>) /\ Ok \notin ToSet(<<No, No>>)
  BY DEF ToSet, Ok, No
<1>2. ASSUME NEW code, Answers(code), code \in {Ok, No}
      PROVE  \/ answers' = <<Ok>>
             \/ /\ Ok \notin ToSet(answers')
                /\ UNCHANGED <<streams, next_id, sr_timers, media, rtps, rtcps, backchannels>>
  BY <1>1, <1>2 DEF Answers, Respond, session, objects
<1>3. CASE Unauthorized \/ Options \/ Describe \/ Pause \/ Unknown \/ BadSession
  BY <1>2, <1>3 DEF Unauthorized, Options, Describe, Pause, Unknown, BadSession
<1>4. ASSUME NEW s \in Streams, NEW header \in Headers, NEW id, Setup(s, header, id)
      PROVE  \/ answers' = <<Ok>>
             \/ /\ Ok \notin ToSet(answers')
                /\ UNCHANGED <<streams, next_id, sr_timers, media, rtps, rtcps, backchannels>>
  <2>1. PICK t \in SetupTransport(header) :
            \/ t.codes # <<>> /\ RefuseSetup(s, id, t.codes)
            \/ RefuseSetup(s, id, <<No>>)
            \/ Respond(<<Ok>>)
    BY <1>4 DEF Setup
  <2>2. t.codes \in {<<>>, <<No>>, <<No, No>>}
    BY TransportAnswers
  <2>3. QED
    BY <1>1, <2>1, <2>2 DEF RefuseSetup, Respond
<1>5. ASSUME NEW id, Play(id)
      PROVE  \/ answers' = <<Ok>>
             \/ /\ Ok \notin ToSet(answers')
                /\ UNCHANGED <<streams, next_id, sr_timers, media, rtps, rtcps, backchannels>>
  <2>1. Answers(No) \/ Crash \/ Respond(<<Ok>>)
    BY <1>5 DEF Play
  <2>2. QED
    BY <1>2, <2>1 DEF Crash, Respond
<1>6. ASSUME NEW id, Teardown(id)
      PROVE  \/ answers' = <<Ok>>
             \/ /\ Ok \notin ToSet(answers')
                /\ UNCHANGED <<streams, next_id, sr_timers, media, rtps, rtcps, backchannels>>
  <2>1. Answers(No) \/ Crash \/ Respond(<<Ok>>)
    BY <1>6 DEF Teardown
  <2>2. QED
    BY <1>2, <2>1 DEF Crash, Respond
<1>7. QED
  BY <1>3, <1>4, <1>5, <1>6 DEF Request

\* A request that is answered with anything but one 200 has no effect on the
\* session, though Client_setup finds some of its errors only when it has made
\* transports, and answers some of them twice.
THEOREM SessionRefusedChangesNothing == Spec => RefusedChangesNothing
<1>1. ASSUME Accept \/ (\E k \in 1 .. MaxPlays : Tick(k)) \/ Disconnect
      PROVE  answers' = <<>>
  BY <1>1 DEF Accept, Tick, Disconnect, Crash, Drop, Respond
<1>2. [Next]_vars =>
         [answers' # <<>> =>
            \/ answers' = <<Ok>>
            \/ /\ Ok \notin ToSet(answers')
               /\ UNCHANGED <<streams, next_id, sr_timers, media, rtps, rtcps, backchannels>>]_vars
  BY <1>1, RefusedStep DEF Next
<1>3. QED
  BY <1>2, PTL DEF Spec, RefusedChangesNothing
-----------------------------------------------------------------------------
(* Lists of contexts.                                                      *)

LEMMA ListFacts ==
    ASSUME NEW q, IsList(q)
    PROVE  /\ Len(q) \in Nat /\ DOMAIN q = 1 .. Len(q)
           /\ q = [k \in 1 .. Len(q) |-> q[k]]
BY DEF IsList

LEMMA FunctionIsList ==
    ASSUME NEW q, NEW n \in Nat, DOMAIN q = 1 .. n, q = [k \in 1 .. n |-> q[k]]
    PROVE  IsList(q) /\ Len(q) = n
<1> DEFINE S == {q[k] : k \in DOMAIN q}
<1>1. q \in [1 .. n -> S]
  OBVIOUS
<1>2. QED
  BY <1>1 DEF IsList

LEMMA ListsConcat ==
    ASSUME NEW p, NEW q, IsList(p), IsList(q)
    PROVE  /\ IsList(p \o q) /\ Len(p \o q) = Len(p) + Len(q)
           /\ \A k \in 1 .. Len(p) : (p \o q)[k] = p[k]
           /\ \A k \in 1 .. Len(q) : (p \o q)[Len(p) + k] = q[k]
<1> DEFINE S == {p[k] : k \in DOMAIN p} \cup {q[k] : k \in DOMAIN q}
<1>1. p \in Seq(S) /\ q \in Seq(S)
  BY DEF IsList
<1> HIDE DEF S
<1>2. /\ p \o q \in Seq(S) /\ Len(p \o q) = Len(p) + Len(q)
      /\ \A k \in 1 .. Len(p) : (p \o q)[k] = p[k]
      /\ \A k \in 1 .. Len(q) : (p \o q)[Len(p) + k] = q[k]
  BY <1>1, ConcatProperties
<1> DEFINE r == p \o q
<1>3. r \in Seq(S)
  BY <1>2
<1> HIDE DEF r
<1>4. IsList(r)
  <2>1. Len(r) \in Nat /\ DOMAIN r = 1 .. Len(r) /\ r = [k \in 1 .. Len(r) |-> r[k]]
    BY <1>3
  <2>2. QED
    BY <2>1, FunctionIsList
<1>5. QED
  BY <1>2, <1>4 DEF r

\* d is the context c as a callback or a TEARDOWN leaves it.
Kept(c, d) ==
    /\ d \in Ctx(d)
    /\ d.stream = c.stream /\ d.rtp = c.rtp /\ d.freed = c.freed
    /\ d.armed => c.armed

LEMMA CtxChanged ==
    ASSUME NEW c, c \in Ctx(c), NEW p, NEW x, NEW o, NEW f, NEW a \in BOOLEAN, a => c.armed
    PROVE  /\ Kept(c, [c EXCEPT !.armed = a])
           /\ Kept(c, [c EXCEPT !.pos = p, !.out = o])
           /\ Kept(c, [c EXCEPT !.pos = p, !.failed = f])
           /\ Kept(c, [c EXCEPT !.pos = p, !.timestamp = x, !.out = o, !.failed = f, !.armed = a])
BY DEF Ctx, Kept

\* A step that changes contexts only.
CtxsKept ==
    /\ IsList(ctxs') /\ Len(ctxs') = Len(ctxs)
    /\ \A k \in 1 .. Len(ctxs) : Kept(ctxs[k], ctxs'[k])
    /\ UNCHANGED <<streams, next_id, sr_timers, rtps, rtcps, backchannels>>

\* The links do not depend on what is armed, freed or sent.
LEMMA LinksStay ==
    ASSUME Links, streams' = streams, Len(rtps') = Len(rtps), Len(rtcps') = Len(rtcps),
           Len(ctxs') = Len(ctxs),
           \A n \in 1 .. Len(rtps) : rtps'[n].stream = rtps[n].stream /\ rtcps'[n].rtp = rtcps[n].rtp,
           \A k \in 1 .. Len(ctxs) : ctxs'[k].stream = ctxs[k].stream /\ ctxs'[k].rtp = ctxs[k].rtp
    PROVE  Links'
<1>1. /\ Len(rtcps') = Len(rtps')
      /\ \A r \in 1 .. Len(rtps') : rtcps'[r].rtp = r /\ streams'[rtps'[r].stream].rtcp # NULL
  BY DEF Links
<1>2. ASSUME NEW s \in Streams
      PROVE  /\ streams'[s].transport # NULL =>
                    /\ streams'[s].transport \in 1 .. Len(rtps')
                    /\ rtps'[streams'[s].transport].stream = s
             /\ streams'[s].rtcp # NULL =>
                    streams'[s].rtcp \in 1 .. Len(rtps') /\ rtps'[streams'[s].rtcp].stream = s
             /\ streams'[s].ctx # NULL =>
                    streams'[s].ctx \in 1 .. Len(ctxs') /\ ctxs'[streams'[s].ctx].stream = s
  <2>1. /\ streams[s].transport # NULL =>
               streams[s].transport \in 1 .. Len(rtps) /\ rtps[streams[s].transport].stream = s
        /\ streams[s].rtcp # NULL =>
               streams[s].rtcp \in 1 .. Len(rtps) /\ rtps[streams[s].rtcp].stream = s
        /\ streams[s].ctx # NULL =>
               streams[s].ctx \in 1 .. Len(ctxs) /\ ctxs[streams[s].ctx].stream = s
    BY DEF Links
  <2>2. QED
    BY <2>1
<1>3. ASSUME NEW k \in 1 .. Len(ctxs')
      PROVE  /\ streams'[ctxs'[k].stream].ctx # NULL
             /\ ctxs'[k].rtp # NULL =>
                    ctxs'[k].rtp \in 1 .. Len(rtps') /\ rtps'[ctxs'[k].rtp].stream = ctxs'[k].stream
  <2>1. /\ streams[ctxs[k].stream].ctx # NULL
        /\ ctxs[k].rtp # NULL =>
               ctxs[k].rtp \in 1 .. Len(rtps) /\ rtps[ctxs[k].rtp].stream = ctxs[k].stream
    BY DEF Links
  <2>2. QED
    BY <2>1
<1>4. QED
  BY <1>1, <1>2, <1>3 DEF Links

LEMMA CtxsKeptStep ==
    ASSUME SessInv, CtxsKept, conn' = conn \/ (conn' = "open" /\ conn = "none") \/ conn' = "aborted"
    PROVE  SessInv'
<1>1. SessTypes'
  BY DEF SessInv, SessTypes, CtxsKept, Kept
<1>2. Links'
  BY LinksStay DEF SessInv, CtxsKept, Kept
<1>3. FreedRtps' = FreedRtps
  <2>1. streams' = streams
    BY DEF CtxsKept
  <2>2. \A s \in Streams : streams[s].ctx # NULL =>
            ctxs'[streams[s].ctx].rtp = ctxs[streams[s].ctx].rtp
    BY DEF SessInv, Links, CtxsKept, Kept
  <2>3. QED
    BY <2>1, <2>2 DEF FreedRtps
<1>4. FreedInv'
  <2>1. /\ rtps' = rtps /\ rtcps' = rtcps /\ streams' = streams
        /\ Len(ctxs') = Len(ctxs)
        /\ \A k \in 1 .. Len(ctxs) : ctxs'[k].freed = ctxs[k].freed
    BY DEF CtxsKept, Kept
  <2>2. Untouched => Untouched'
    BY <2>1 DEF Untouched
  <2>3. Dropped => Dropped'
    BY <1>3, <2>1 DEF Dropped
  <2>4. QED
    BY <2>1, <2>2, <2>3 DEF SessInv, FreedInv
<1>5. QED
  BY <1>1, <1>2, <1>4 DEF SessInv

LEMMA CtxsKeptTimers ==
    ASSUME SessInv, TimerInv, CtxsKept,
           conn' = conn \/ (conn' = "open" /\ conn = "none") \/ (conn' = "aborted" /\ conn # "gone")
    PROVE  TimerInv'
<1>1. Untouched => Untouched'
  BY DEF SessInv, SessTypes, Untouched, CtxsKept, Kept
<1>2. conn' = "aborted" => Untouched
  BY DEF SessInv, SessTypes, FreedInv, TimerInv
<1>3. QED
  BY <1>1, <1>2 DEF TimerInv, CtxsKept, Kept, SessInv, SessTypes

LEMMA SameCtxs ==
    ASSUME SessInv, UNCHANGED <<streams, next_id, sr_timers, ctxs, rtps, rtcps, backchannels>>
    PROVE  CtxsKept
BY DEF SessInv, SessTypes, CtxsKept, Kept

\* Accept, and the requests that change nothing.
LEMMA AcceptKeeps ==
    ASSUME SessInv, Accept
    PROVE  CtxsKept /\ conn = "none" /\ conn' = "open"
BY SameCtxs DEF Accept, session, media, objects

LEMMA AnswersKeeps ==
    ASSUME SessInv, NEW code, Answers(code)
    PROVE  CtxsKept /\ conn' = conn
BY SameCtxs DEF Answers, session, media, objects

LEMMA CrashKeeps ==
    ASSUME SessInv, Crash
    PROVE  CtxsKept /\ conn' = "aborted"
BY SameCtxs DEF Crash, session, media, objects

LEMMA RefuseKeeps ==
    ASSUME SessInv, NEW s, NEW id, NEW codes, RefuseSetup(s, id, codes)
    PROVE  CtxsKept /\ conn' = conn
BY SameCtxs DEF RefuseSetup, media

LEMMA StopTimersKeeps ==
    ASSUME SessInv, NEW M, StopTimers(M),
           UNCHANGED <<conn, streams, next_id, sr_timers, rtps, rtcps, backchannels>>
    PROVE  CtxsKept
<1> DEFINE stop(k) == \E s \in M : streams[s].ctx = k
<1>1. ctxs' = [k \in DOMAIN ctxs |->
                  IF stop(k) THEN [ctxs[k] EXCEPT !.armed = FALSE] ELSE ctxs[k]]
  BY DEF StopTimers
<1> HIDE DEF stop
<1>2. IsList(ctxs) /\ Len(ctxs) \in Nat /\ DOMAIN ctxs = 1 .. Len(ctxs)
  BY ListFacts DEF SessInv, SessTypes
<1>3. IsList(ctxs') /\ Len(ctxs') = Len(ctxs)
  <2>1. DOMAIN ctxs' = 1 .. Len(ctxs) /\ ctxs' = [k \in 1 .. Len(ctxs) |-> ctxs'[k]]
    BY <1>1, <1>2
  <2>2. QED
    BY <1>2, <2>1, FunctionIsList
<1>4. ASSUME NEW k \in 1 .. Len(ctxs)
      PROVE  Kept(ctxs[k], ctxs'[k])
  <2>1. ctxs[k] \in Ctx(ctxs[k])
    BY DEF SessInv, SessTypes
  <2>2. ctxs'[k] = IF stop(k) THEN [ctxs[k] EXCEPT !.armed = FALSE] ELSE ctxs[k]
    BY <1>1, <1>2
  <2>3. Kept(ctxs[k], [ctxs[k] EXCEPT !.armed = FALSE])
    BY <2>1, CtxChanged
  <2>4. Kept(ctxs[k], ctxs[k])
    BY <2>1 DEF Kept
  <2>5. QED
    BY <2>2, <2>3, <2>4
<1>5. QED
  BY <1>3, <1>4 DEF CtxsKept

\* One context changed by its callback.
LEMMA OneCtxKeeps ==
    ASSUME SessInv, NEW k \in DOMAIN ctxs, NEW d, Kept(ctxs[k], d), ctxs' = [ctxs EXCEPT ![k] = d],
           UNCHANGED <<streams, next_id, sr_timers, rtps, rtcps, backchannels>>
    PROVE  CtxsKept
<1>1. IsList(ctxs) /\ Len(ctxs) \in Nat /\ DOMAIN ctxs = 1 .. Len(ctxs)
  BY ListFacts DEF SessInv, SessTypes
<1>2. IsList(ctxs') /\ Len(ctxs') = Len(ctxs)
  <2>1. DOMAIN ctxs' = 1 .. Len(ctxs) /\ ctxs' = [m \in 1 .. Len(ctxs) |-> ctxs'[m]]
    BY <1>1
  <2>2. QED
    BY <1>1, <2>1, FunctionIsList
<1>3. ASSUME NEW m \in 1 .. Len(ctxs)
      PROVE  Kept(ctxs[m], ctxs'[m])
  <2>1. ctxs[m] \in Ctx(ctxs[m])
    BY DEF SessInv, SessTypes
  <2>2. Kept(ctxs[m], ctxs[m])
    BY <2>1 DEF Kept
  <2>3. QED
    BY <1>1, <2>2
<1>4. QED
  BY <1>2, <1>3 DEF CtxsKept

LEMMA TickKeeps ==
    ASSUME SessInv, NEW k, Tick(k)
    PROVE  /\ CtxsKept
           /\ ctxs[k].armed /\ k \in 1 .. Len(ctxs)
           /\ conn' = conn \/ conn' = "aborted"
<1> DEFINE c == ctxs[k]
<1>1. /\ k \in DOMAIN ctxs /\ DOMAIN ctxs = 1 .. Len(ctxs)
      /\ c \in Ctx(c) /\ c.armed
      /\ UNCHANGED <<streams, next_id, sr_timers, rtps, rtcps, backchannels>>
  <2>1. k \in DOMAIN ctxs /\ (AudioTick(k) \/ VideoTick(k))
        /\ UNCHANGED <<streams, next_id, sr_timers, rtps, rtcps, backchannels>>
    BY DEF Tick, objects
  <2>2. DOMAIN ctxs = 1 .. Len(ctxs) /\ \A m \in 1 .. Len(ctxs) : ctxs[m] \in Ctx(ctxs[m])
    BY ListFacts DEF SessInv, SessTypes
  <2>3. c.armed
    BY <2>1, Zenon DEF AudioTick, VideoTick
  <2>4. QED
    BY <2>1, <2>2, <2>3
<1>2. CASE AudioTick(k)
  <2>1. CASE Finish(k) /\ UNCHANGED conn
    <3>1. ctxs' = [ctxs EXCEPT ![k] = [c EXCEPT !.armed = FALSE]]
      BY <2>1 DEF Finish
    <3>2. Kept(c, [c EXCEPT !.armed = FALSE])
      BY <1>1, CtxChanged
    <3>3. QED
      BY <1>1, <2>1, <3>1, <3>2, OneCtxKeeps
  <2>2. CASE conn' = "aborted" /\ UNCHANGED media
    BY <1>1, <2>2, SameCtxs DEF media
  <2>3. ASSUME NEW p, NEW o,
               ctxs' = [ctxs EXCEPT ![k].pos = p, ![k].out = o] /\ UNCHANGED conn
        PROVE  CtxsKept /\ conn' = conn
    <3> DEFINE d == [c EXCEPT !.pos = p, !.out = o]
    <3>1. ctxs' = [ctxs EXCEPT ![k] = d]
      BY <1>1, <2>3 DEF Ctx
    <3>2. Kept(c, d)
      BY <1>1, CtxChanged
    <3>3. QED
      BY <1>1, <2>3, <3>1, <3>2, OneCtxKeeps
  <2>4. ASSUME NEW p, NEW f,
               ctxs' = [ctxs EXCEPT ![k].pos = p, ![k].failed = f] /\ UNCHANGED conn
        PROVE  CtxsKept /\ conn' = conn
    <3> DEFINE d == [c EXCEPT !.pos = p, !.failed = f]
    <3>1. ctxs' = [ctxs EXCEPT ![k] = d]
      BY <1>1, <2>4 DEF Ctx
    <3>2. Kept(c, d)
      BY <1>1, CtxChanged
    <3>3. QED
      BY <1>1, <2>4, <3>1, <3>2, OneCtxKeeps
  <2>5. CASE /\ \/ ctxs' = [ctxs EXCEPT ![k].pos = @ + 1,
                               ![k].out = Append(@, <<c.pos, Samples(c.pos * PerPacket)>>)]
                \/ ctxs' = [ctxs EXCEPT ![k].pos = @ + 1, ![k].failed = @ \cup {c.pos}]
             /\ UNCHANGED <<conn, streams_playing>>
    <3> DEFINE p == c.pos + 1
               o == Append(c.out, <<c.pos, Samples(c.pos * PerPacket)>>)
               f == c.failed \cup {c.pos}
    <3>1. \/ ctxs' = [ctxs EXCEPT ![k].pos = p, ![k].out = o]
          \/ ctxs' = [ctxs EXCEPT ![k].pos = p, ![k].failed = f]
      BY <1>1, <2>5 DEF Ctx
    <3>2. UNCHANGED conn
      BY <2>5
    <3> HIDE DEF p, o, f
    <3>3. QED
      BY <1>1, <2>3, <2>4, <3>1, <3>2
  <2>6. QED
    BY <1>2, <2>1, <2>2, <2>5 DEF AudioTick
<1>3. CASE VideoTick(k)
  <2> DEFINE pictures == {i \in c.pos .. Len(NalTable) : NalTable[i] = "vcl"}
             to == IF pictures = {} THEN Len(NalTable) ELSE Min(pictures)
             p == to + 1
             x == IF pictures = {} THEN c.timestamp ELSE c.timestamp + 1
             a == to < Len(NalTable)
  <2>1. PICK U \in SUBSET {i \in c.pos .. to : NalTable[i] # "aud"} :
            ctxs' = [ctxs EXCEPT ![k].pos = p, ![k].timestamp = x,
                                 ![k].out = c.out \o Stamp(Units(c.pos, to, U), c.timestamp),
                                 ![k].failed = c.failed \cup U, ![k].armed = a]
    BY <1>3, Zenon DEF VideoTick
  <2>2. UNCHANGED conn
    BY <1>3 DEF VideoTick
  <2> DEFINE o == c.out \o Stamp(Units(c.pos, to, U), c.timestamp)
             f == c.failed \cup U
             d == [c EXCEPT !.pos = p, !.timestamp = x, !.out = o, !.failed = f, !.armed = a]
  <2>3. a \in BOOLEAN
    OBVIOUS
  <2> HIDE DEF p, x, o, f, a
  <2>4. ctxs' = [ctxs EXCEPT ![k].pos = p, ![k].timestamp = x, ![k].out = o, ![k].failed = f,
                             ![k].armed = a]
    BY <2>1 DEF o, f
  <2>5. ctxs' = [ctxs EXCEPT ![k] = d]
    BY <1>1, <2>4 DEF Ctx
  <2>6. Kept(c, d)
    BY <1>1, <2>3, CtxChanged
  <2>7. QED
    BY <1>1, <2>2, <2>5, <2>6, OneCtxKeeps
<1>4. QED
  BY <1>2, <1>3 DEF Tick
-----------------------------------------------------------------------------
(* The steps that make or free objects.                                    *)

LEMMA StreamsOf ==
    ASSUME SessTypes
    PROVE  /\ \A n \in 1 .. Len(rtps) : rtps[n].stream \in Streams
           /\ \A k \in 1 .. Len(ctxs) : ctxs[k].stream \in Streams
<1>1. \A n \in 1 .. Len(rtps) : rtps[n] \in Rtp
  BY DEF SessTypes
<1>2. \A x \in Rtp : x.stream \in Streams
  BY DEF Rtp
<1>3. \A k \in 1 .. Len(ctxs) : ctxs[k].stream \in Streams
  BY DEF SessTypes, Ctx
<1>4. QED
  BY <1>1, <1>2, <1>3

\* A SETUP that is granted.
LEMMA GrantMediaStep ==
    ASSUME SessInv, NEW s \in Streams, NEW id, SessionId(id) \in Int, GrantMedia(s, id),
           next_id' \in Int, conn = "open", UNCHANGED <<conn, ctxs, sr_timers>>
    PROVE  SessInv' /\ (TimerInv => TimerInv')
<1> DEFINE n == Len(rtps) + 1
           a == [stream |-> s, freed |-> 0]
           b == [rtp |-> n, freed |-> 0]
           x == SessionId(id)
<1>1. /\ rtps' = Append(rtps, a) /\ rtcps' = Append(rtcps, b) /\ backchannels' = backchannels
      /\ streams' = [streams EXCEPT ![s].session_id = x, ![s].transport = n, ![s].rtcp = n]
      /\ x \in Int
  BY DEF GrantMedia
<1>2. /\ rtps \in Seq(Rtp) /\ rtcps \in Seq(Rtcp) /\ Len(rtps) \in Nat /\ n \in Nat
      /\ a \in Rtp /\ b \in Rtcp /\ Len(rtcps) = Len(rtps)
  BY DEF SessInv, SessTypes, Links, Rtp, Rtcp
<1>3. /\ a.stream = s /\ a.freed = 0 /\ b.rtp = n /\ b.freed = 0
  OBVIOUS
<1> HIDE DEF a, b, x
<1>4. /\ rtps' \in Seq(Rtp) /\ Len(rtps') = n /\ rtps'[n] = a
      /\ rtcps' \in Seq(Rtcp) /\ Len(rtcps') = n /\ rtcps'[n] = b
      /\ \A m \in 1 .. Len(rtps) : rtps'[m] = rtps[m] /\ rtcps'[m] = rtcps[m]
  BY <1>1, <1>2
<1>5. /\ streams' \in [Streams -> Slot]
      /\ streams'[s].transport = n /\ streams'[s].rtcp = n
      /\ streams'[s].rtcp_ev = streams[s].rtcp_ev /\ streams'[s].ctx = streams[s].ctx
      /\ \A u \in Streams : u # s => streams'[u] = streams[u]
  BY <1>1, <1>2 DEF SessInv, SessTypes, Slot
<1>6. \A m \in 1 .. n : m = n \/ m \in 1 .. Len(rtps)
  BY <1>2
<1>7. \A m \in 1 .. Len(rtps) : m \in 1 .. n /\ m # n
  BY <1>2
<1>8. n \in 1 .. n /\ n # NULL
  BY <1>2 DEF NULL
<1> HIDE DEF n
<1>9. \A m \in 1 .. Len(rtps) : rtps[m].stream \in Streams
  BY StreamsOf DEF SessInv
<1>10. SessTypes'
  BY <1>1, <1>4, <1>5 DEF SessInv, SessTypes
<1>11. Links'
  <2>1. \A r \in 1 .. n : rtcps'[r].rtp = r /\ streams'[rtps'[r].stream].rtcp # NULL
    <3>1. rtcps'[n].rtp = n /\ streams'[rtps'[n].stream].rtcp # NULL
      BY <1>3, <1>4, <1>5, <1>8
    <3>2. ASSUME NEW r \in 1 .. Len(rtps)
          PROVE  rtcps'[r].rtp = r /\ streams'[rtps'[r].stream].rtcp # NULL
      <4>1. rtcps'[r] = rtcps[r] /\ rtps'[r] = rtps[r] /\ rtps[r].stream \in Streams
        BY <1>4, <1>9
      <4>2. rtcps[r].rtp = r /\ streams[rtps[r].stream].rtcp # NULL
        BY DEF SessInv, Links
      <4>3. QED
        BY <1>5, <1>8, <4>1, <4>2
    <3>3. QED
      BY <1>6, <3>1, <3>2
  <2>2. ASSUME NEW u \in Streams
        PROVE  /\ streams'[u].transport # NULL =>
                      streams'[u].transport \in 1 .. n /\ rtps'[streams'[u].transport].stream = u
               /\ streams'[u].rtcp # NULL =>
                      streams'[u].rtcp \in 1 .. n /\ rtps'[streams'[u].rtcp].stream = u
               /\ streams'[u].ctx # NULL =>
                      streams'[u].ctx \in 1 .. Len(ctxs) /\ ctxs[streams'[u].ctx].stream = u
    <3>1. CASE u = s
      BY <1>3, <1>4, <1>5, <1>8, <3>1 DEF SessInv, Links
    <3>2. CASE u # s
      BY <1>4, <1>5, <1>7, <3>2 DEF SessInv, Links
    <3>3. QED
      BY <3>1, <3>2
  <2>3. ASSUME NEW k \in 1 .. Len(ctxs)
        PROVE  /\ streams'[ctxs[k].stream].ctx # NULL
               /\ ctxs[k].rtp # NULL =>
                      ctxs[k].rtp \in 1 .. n /\ rtps'[ctxs[k].rtp].stream = ctxs[k].stream
    <3>1. ctxs[k].stream \in Streams
      BY DEF SessInv, SessTypes, Ctx
    <3>2. QED
      BY <1>4, <1>5, <1>7, <3>1 DEF SessInv, Links
  <2>4. QED
    BY <1>4, <2>1, <2>2, <2>3 DEF Links
<1>12. Untouched'
  BY <1>3, <1>4, <1>6 DEF SessInv, FreedInv, Untouched
<1>13. FreedInv'
  BY <1>12 DEF FreedInv, Untouched, SessInv
<1>14. TimerInv => TimerInv'
  <2> SUFFICES ASSUME TimerInv PROVE TimerInv'
    OBVIOUS
  <2>1. \A u \in Streams : streams'[u].ctx = streams[u].ctx /\ streams'[u].rtcp_ev = streams[u].rtcp_ev
    BY <1>5
  <2>2. \A k \in 1 .. Len(ctxs) : ctxs[k].stream \in Streams
    BY DEF SessInv, SessTypes, Ctx
  <2>3. \A k \in 1 .. Len(ctxs) : ctxs[k].armed => streams'[ctxs[k].stream].ctx = k
    BY <2>1, <2>2 DEF TimerInv
  <2>4. \A r \in sr_timers : r \in 1 .. n /\ streams'[rtps'[r].stream].rtcp_ev = r
    BY <1>4, <1>7, <1>9, <2>1 DEF TimerInv
  <2>5. QED
    BY <1>4, <2>3, <2>4 DEF TimerInv
<1>15. QED
  BY <1>10, <1>11, <1>13, <1>14 DEF SessInv

LEMMA GrantBackchannelStep ==
    ASSUME SessInv, NEW s \in Streams, NEW id, SessionId(id) \in Int, GrantBackchannel(s, id),
           next_id' \in Int, conn = "open", UNCHANGED <<conn, ctxs, sr_timers>>
    PROVE  SessInv' /\ (TimerInv => TimerInv')
<1> DEFINE x == SessionId(id)
<1>1. /\ streams' = [streams EXCEPT ![s].session_id = x, ![s].transport = NULL]
      /\ backchannels' = backchannels + 1
      /\ UNCHANGED <<rtps, rtcps>>
      /\ x \in Int
  BY DEF GrantBackchannel
<1> HIDE DEF x
<1>2. /\ streams' \in [Streams -> Slot]
      /\ streams'[s].transport = NULL
      /\ \A u \in Streams : u # s => streams'[u].transport = streams[u].transport
      /\ \A u \in Streams : /\ streams'[u].rtcp = streams[u].rtcp /\ streams'[u].ctx = streams[u].ctx
                            /\ streams'[u].rtcp_ev = streams[u].rtcp_ev
  BY <1>1 DEF SessInv, SessTypes, Slot, NULL
<1>3. \A m \in 1 .. Len(rtps) : rtps[m].stream \in Streams
  BY StreamsOf DEF SessInv
<1>4. \A k \in 1 .. Len(ctxs) : ctxs[k].stream \in Streams
  BY DEF SessInv, SessTypes, Ctx
<1>5. SessTypes'
  BY <1>1, <1>2 DEF SessInv, SessTypes
<1>6. Links'
  BY <1>1, <1>2, <1>3, <1>4 DEF SessInv, Links
<1>7. FreedInv'
  BY <1>1 DEF FreedInv, Untouched, SessInv
<1>8. TimerInv => TimerInv'
  BY <1>1, <1>2, <1>3, <1>4 DEF TimerInv
<1>9. QED
  BY <1>5, <1>6, <1>7, <1>8 DEF SessInv

LEMMA SetupStep ==
    ASSUME SessInv, NEW s \in Streams, NEW header,
           NEW id \in {New, Bad, Other} \cup 0 .. next_id - 1,
           Setup(s, header, id), conn = "open"
    PROVE  SessInv' /\ (TimerInv => TimerInv')
<1>1. PICK t \in SetupTransport(header) :
          \/ RefuseSetup(s, id, t.codes)
          \/ RefuseSetup(s, id, <<No>>)
          \/ /\ next_id' = IF id = New THEN next_id + 1 ELSE next_id
             /\ IF s = "audioback" THEN GrantBackchannel(s, id) ELSE GrantMedia(s, id)
             /\ UNCHANGED <<conn, sr_timers, media, lost>>
  BY Zenon DEF Setup
<1>2. CASE RefuseSetup(s, id, t.codes) \/ RefuseSetup(s, id, <<No>>)
  BY <1>2, RefuseKeeps, CtxsKeptStep, CtxsKeptTimers
<1>3. CASE /\ next_id' = IF id = New THEN next_id + 1 ELSE next_id
           /\ IF s = "audioback" THEN GrantBackchannel(s, id) ELSE GrantMedia(s, id)
           /\ UNCHANGED <<conn, sr_timers, media, lost>>
  <2>1. next_id \in Int /\ id \in Int
    BY DEF SessInv, SessTypes, New, Bad, Other
  <2>2. SessionId(id) \in Int /\ next_id' \in Int
    BY <1>3, <2>1 DEF SessionId
  <2>3. QED
    BY <1>3, <2>2, GrantMediaStep, GrantBackchannelStep DEF media
<1>4. QED
  BY <1>1, <1>2, <1>3

\* A PLAY that is granted: one new context per stream of the session, found
\* from its slot, and the report timers that do not run yet.
LEMMA PlayStep ==
    ASSUME SessInv, NEW id, Play(id), conn = "open"
    PROVE  SessInv' /\ (TimerInv /\ PlaysAgain = FALSE => TimerInv')
<1> DEFINE M == Members(id)
           o == InOrder(M)
           L == Len(ctxs)
           at(s) == CHOOSE i \in 1 .. Len(o) : o[i] = s
           new == [i \in 1 .. Len(o) |-> NewCtx(o[i])]
           start(s) == StartReports(s, M)
<1>1. CASE Answers(No)
  BY <1>1, AnswersKeeps, CtxsKeptStep, CtxsKeptTimers
<1>2. CASE Crash
  BY <1>2, CrashKeeps, CtxsKeptStep, CtxsKeptTimers
<1>3. CASE /\ ctxs' = ctxs \o new
           /\ sr_timers' = sr_timers \cup {streams[s].rtcp : s \in {x \in M : start(x)}}
           /\ streams' = [s \in Streams |->
                  [streams[s] EXCEPT
                      !.ctx = IF s \in M THEN L + at(s) ELSE @,
                      !.rtcp_ev = IF start(s) THEN streams[s].rtcp ELSE @]]
           /\ UNCHANGED <<conn, next_id, objects>>
  <2>1. /\ o \in Seq(Streams) /\ Len(o) \in Nat
        /\ \A i \in 1 .. Len(o) : o[i] \in M
        /\ \A s \in M : at(s) \in 1 .. Len(o) /\ o[at(s)] = s
        /\ \A i \in 1 .. Len(o) : at(o[i]) = i
    <3>1. M \in SUBSET Streams
      BY DEF Members
    <3>2. Lists(o, M)
      BY <3>1, InOrderLists
    <3>3. \A s \in M : at(s) \in 1 .. Len(o) /\ o[at(s)] = s
      BY <3>2 DEF Lists
    <3>4. QED
      BY <3>2, <3>3 DEF Lists
  <2>2. \A s \in M : s \in Streams
    BY DEF Members
  <2>3. \A s \in Streams : start(s) => s \in M /\ streams[s].rtcp # NULL /\ streams[s].rtcp_ev = NULL
    BY DEF StartReports
  <2>4. /\ IsList(ctxs) /\ L \in Nat /\ IsList(new) /\ Len(new) = Len(o)
        /\ \A i \in 1 .. Len(o) : new[i] = NewCtx(o[i])
    <3>1. DOMAIN new = 1 .. Len(o) /\ new = [i \in 1 .. Len(o) |-> new[i]]
      OBVIOUS
    <3>2. IsList(new) /\ Len(new) = Len(o)
      BY <2>1, <3>1, FunctionIsList
    <3>3. QED
      BY <3>2, ListFacts DEF SessInv, SessTypes
  <2> HIDE DEF new
  <2>5. /\ IsList(ctxs') /\ Len(ctxs') = L + Len(o)
        /\ \A k \in 1 .. L : ctxs'[k] = ctxs[k]
        /\ \A i \in 1 .. Len(o) : ctxs'[L + i] = NewCtx(o[i])
    <3>1. /\ IsList(ctxs \o new) /\ Len(ctxs \o new) = L + Len(new)
          /\ \A k \in 1 .. L : (ctxs \o new)[k] = ctxs[k]
          /\ \A i \in 1 .. Len(new) : (ctxs \o new)[L + i] = new[i]
      BY <2>4, ListsConcat
    <3>2. ctxs' = ctxs \o new
      BY <1>3
    <3>3. QED
      BY <2>4, <3>1, <3>2
  <2> HIDE DEF M, o, at, start, L
  <2>6. /\ streams' \in [Streams -> Slot]
        /\ \A s \in Streams :
               /\ streams'[s].transport = streams[s].transport
               /\ streams'[s].rtcp = streams[s].rtcp
               /\ streams'[s].ctx = IF s \in M THEN L + at(s) ELSE streams[s].ctx
               /\ streams'[s].rtcp_ev = IF start(s) THEN streams[s].rtcp ELSE streams[s].rtcp_ev
    <3>1. \A s \in M : L + at(s) \in Nat
      BY <2>1, <2>4
    <3>2. QED
      BY <1>3, <3>1 DEF SessInv, SessTypes, Slot
  <2>7. ASSUME NEW s \in Streams
        PROVE  /\ NewCtx(s) \in Ctx(NewCtx(s)) /\ NewCtx(s).stream = s /\ NewCtx(s).freed = 0
               /\ NewCtx(s).rtp = streams[s].transport
    <3>1. streams[s].transport \in Nat
      BY DEF SessInv, SessTypes, Slot
    <3> DEFINE p == IF s = "audio" THEN 0 ELSE StartIdx
    <3>2. NewCtx(s) = [stream |-> s, rtp |-> streams[s].transport, armed |-> TRUE, freed |-> 0,
                       pos |-> p, timestamp |-> 0, out |-> <<>>, failed |-> {}]
      BY DEF NewCtx
    <3> HIDE DEF p
    <3>3. QED
      BY <3>1, <3>2 DEF Ctx
  <2>8. ASSUME NEW k \in 1 .. Len(ctxs')
        PROVE  \/ k \in 1 .. L /\ ctxs'[k] = ctxs[k]
               \/ \E i \in 1 .. Len(o) : k = L + i /\ ctxs'[k] = NewCtx(o[i]) /\ o[i] \in M
    <3>1. CASE k <= L
      BY <2>1, <2>4, <2>5, <3>1
    <3>2. CASE k > L
      <4>1. k - L \in 1 .. Len(o) /\ k = L + (k - L)
        BY <2>1, <2>4, <2>5, <3>2
      <4>2. QED
        BY <2>1, <2>5, <4>1
    <3>3. QED
      BY <2>1, <2>4, <2>5, <3>1, <3>2
  <2>9. UNCHANGED <<conn, next_id, rtps, rtcps, backchannels>>
    BY <1>3 DEF objects
  <2>10. SessTypes'
    <3>1. \A k \in 1 .. Len(ctxs') : ctxs'[k] \in Ctx(ctxs'[k])
      BY <2>2, <2>7, <2>8 DEF SessInv, SessTypes, L
    <3>2. QED
      BY <2>5, <2>6, <2>9, <3>1 DEF SessInv, SessTypes
  <2>11. \A s \in M : L + at(s) # NULL /\ L + at(s) \in 1 .. Len(ctxs')
    BY <2>1, <2>4, <2>5 DEF NULL
  <2>12. \A k \in 1 .. L : k \in 1 .. Len(ctxs')
    BY <2>1, <2>4, <2>5
  <2>13. /\ \A n \in 1 .. Len(rtps) : rtps[n].stream \in Streams
         /\ \A k \in 1 .. L : ctxs[k].stream \in Streams
    BY StreamsOf DEF SessInv, L
  <2>14. Links'
    <3>1. ASSUME NEW s \in Streams, streams'[s].ctx # NULL
          PROVE  streams'[s].ctx \in 1 .. Len(ctxs') /\ ctxs'[streams'[s].ctx].stream = s
      <4>1. CASE s \in M
        <5>1. streams'[s].ctx = L + at(s) /\ ctxs'[L + at(s)] = NewCtx(s)
          BY <2>1, <2>5, <2>6, <4>1
        <5>2. QED
          BY <2>7, <2>11, <4>1, <5>1
      <4>2. CASE s \notin M
        <5>1. streams'[s].ctx = streams[s].ctx
          BY <2>6, <4>2
        <5>2. streams[s].ctx \in 1 .. L /\ ctxs[streams[s].ctx].stream = s
          BY <3>1, <5>1 DEF SessInv, Links, L
        <5>3. QED
          BY <2>5, <2>12, <5>1, <5>2
      <4>3. QED
        BY <4>1, <4>2
    <3>2. ASSUME NEW k \in 1 .. Len(ctxs')
          PROVE  /\ streams'[ctxs'[k].stream].ctx # NULL
                 /\ ctxs'[k].rtp # NULL =>
                        ctxs'[k].rtp \in 1 .. Len(rtps) /\ rtps[ctxs'[k].rtp].stream = ctxs'[k].stream
      <4>1. CASE k \in 1 .. L /\ ctxs'[k] = ctxs[k]
        <5>1. /\ streams[ctxs[k].stream].ctx # NULL /\ ctxs[k].stream \in Streams
              /\ ctxs[k].rtp # NULL =>
                     ctxs[k].rtp \in 1 .. Len(rtps) /\ rtps[ctxs[k].rtp].stream = ctxs[k].stream
          BY <2>13, <4>1 DEF SessInv, Links, L
        <5>2. QED
          BY <2>6, <2>11, <4>1, <5>1
      <4>2. ASSUME NEW s \in M, ctxs'[k] = NewCtx(s)
            PROVE  /\ streams'[ctxs'[k].stream].ctx # NULL
                   /\ ctxs'[k].rtp # NULL =>
                          ctxs'[k].rtp \in 1 .. Len(rtps) /\ rtps[ctxs'[k].rtp].stream = ctxs'[k].stream
        <5>1. s \in Streams /\ ctxs'[k].stream = s /\ ctxs'[k].rtp = streams[s].transport
          BY <2>2, <2>7, <4>2
        <5>2. streams'[s].ctx # NULL
          BY <2>6, <2>11, <5>1
        <5>3. streams[s].transport # NULL =>
                  streams[s].transport \in 1 .. Len(rtps) /\ rtps[streams[s].transport].stream = s
          BY <5>1 DEF SessInv, Links
        <5>4. QED
          BY <5>1, <5>2, <5>3
      <4>3. QED
        BY <2>8, <4>1, <4>2
    <3>3. \A s \in Streams :
             /\ streams'[s].transport # NULL =>
                    streams'[s].transport \in 1 .. Len(rtps) /\ rtps[streams'[s].transport].stream = s
             /\ streams'[s].rtcp # NULL =>
                    streams'[s].rtcp \in 1 .. Len(rtps) /\ rtps[streams'[s].rtcp].stream = s
      BY <2>6 DEF SessInv, Links
    <3>4. \A r \in 1 .. Len(rtps) : rtcps[r].rtp = r /\ streams'[rtps[r].stream].rtcp # NULL
      BY <2>6, <2>13 DEF SessInv, Links
    <3>5. Len(rtcps) = Len(rtps)
      BY DEF SessInv, Links
    <3>6. QED
      BY <2>9, <3>1, <3>2, <3>3, <3>4, <3>5 DEF Links
  <2>15. Untouched'
    <3>1. Untouched
      BY DEF SessInv, FreedInv
    <3>2. ASSUME NEW k \in 1 .. Len(ctxs')
          PROVE  ctxs'[k].freed = 0
      <4>1. CASE k \in 1 .. L /\ ctxs'[k] = ctxs[k]
        BY <3>1, <4>1 DEF Untouched, L
      <4>2. ASSUME NEW s \in M, ctxs'[k] = NewCtx(s)
            PROVE  ctxs'[k].freed = 0
        BY <2>2, <2>7, <4>2
      <4>3. QED
        BY <2>8, <4>1, <4>2
    <3>3. QED
      BY <2>9, <3>1, <3>2 DEF Untouched
  <2>16. FreedInv'
    BY <2>9, <2>15 DEF SessInv, FreedInv, Untouched
  <2>17. ASSUME TimerInv, PlaysAgain = FALSE
         PROVE  TimerInv'
    <3>1. ASSUME NEW k \in 1 .. Len(ctxs'), ctxs'[k].armed
          PROVE  streams'[ctxs'[k].stream].ctx = k
      <4>1. CASE k \in 1 .. L /\ ctxs'[k] = ctxs[k]
        <5> DEFINE s == ctxs[k].stream
        <5>1. s \in Streams /\ streams[s].ctx = k /\ k # NULL /\ ctxs[k].armed
          BY <2>13, <2>17, <3>1, <4>1 DEF TimerInv, NULL, L
        <5>2. Playing(s)
          BY <5>1 DEF Playing
        <5>3. s \notin M
          BY <2>17, <5>2 DEF Play, MayPlay, M
        <5>4. QED
          BY <2>6, <4>1, <5>1, <5>3
      <4>2. ASSUME NEW i \in 1 .. Len(o), k = L + i, ctxs'[k] = NewCtx(o[i])
            PROVE  streams'[ctxs'[k].stream].ctx = k
        <5>1. o[i] \in M /\ o[i] \in Streams /\ at(o[i]) = i
          BY <2>1, <2>2
        <5>2. ctxs'[k].stream = o[i]
          BY <2>7, <4>2, <5>1
        <5>3. QED
          BY <2>6, <4>2, <5>1, <5>2
      <4>3. QED
        BY <2>8, <4>1, <4>2
    <3>2. ASSUME NEW r \in sr_timers'
          PROVE  r \in 1 .. Len(rtps) /\ streams'[rtps[r].stream].rtcp_ev = r
      <4>1. CASE r \in sr_timers
        <5>1. r \in 1 .. Len(rtps) /\ streams[rtps[r].stream].rtcp_ev = r /\ rtps[r].stream \in Streams
          BY <2>13, <2>17, <4>1 DEF TimerInv
        <5>2. r # NULL
          BY <5>1 DEF NULL
        <5>3. QED
          BY <2>3, <2>6, <5>1, <5>2
      <4>2. ASSUME NEW s \in M, start(s), r = streams[s].rtcp
            PROVE  r \in 1 .. Len(rtps) /\ streams'[rtps[r].stream].rtcp_ev = r
        <5>1. s \in Streams /\ streams[s].rtcp # NULL
          BY <2>2, <2>3, <4>2
        <5>2. r \in 1 .. Len(rtps) /\ rtps[r].stream = s
          BY <4>2, <5>1 DEF SessInv, Links
        <5>3. QED
          BY <2>6, <4>2, <5>1, <5>2
      <4>3. QED
        BY <1>3, <3>2, <4>1, <4>2
    <3>3. conn' = "open"
      BY <2>9
    <3>4. QED
      BY <2>9, <3>1, <3>2, <3>3 DEF TimerInv
  <2>18. QED
    BY <2>10, <2>14, <2>16, <2>17 DEF SessInv
<1>4. QED
  BY <1>1, <1>2, <1>3 DEF Play

LEMMA TeardownStep ==
    ASSUME SessInv, NEW id, Teardown(id), conn = "open"
    PROVE  SessInv' /\ (TimerInv => TimerInv')
<1>1. CASE Answers(No)
  BY <1>1, AnswersKeeps, CtxsKeptStep, CtxsKeptTimers
<1>2. CASE Crash
  BY <1>2, CrashKeeps, CtxsKeptStep, CtxsKeptTimers
<1>3. CASE /\ StopTimers(Members(id))
           /\ UNCHANGED <<conn, streams, next_id, sr_timers, streams_playing, objects>>
  <2>1. CtxsKept /\ conn' = conn
    BY <1>3, StopTimersKeeps DEF objects
  <2>2. QED
    BY <2>1, CtxsKeptStep, CtxsKeptTimers
<1>4. QED
  BY <1>1, <1>2, <1>3 DEF Teardown

LEMMA RequestStep ==
    ASSUME SessInv, Request
    PROVE  SessInv' /\ (TimerInv /\ PlaysAgain = FALSE => TimerInv')
<1>1. conn = "open"
  BY DEF Request
<1>2. ASSUME NEW code, Answers(code)
      PROVE  SessInv' /\ (TimerInv => TimerInv')
  BY <1>2, AnswersKeeps, CtxsKeptStep, CtxsKeptTimers
<1>3. CASE Unauthorized \/ Options \/ Describe \/ Pause \/ Unknown \/ BadSession
  BY <1>2, <1>3 DEF Unauthorized, Options, Describe, Pause, Unknown, BadSession
<1>4. ASSUME NEW s \in Streams, NEW header \in Headers,
             NEW id \in {New, Bad, Other} \cup 0 .. next_id - 1, Setup(s, header, id)
      PROVE  SessInv' /\ (TimerInv => TimerInv')
  BY <1>1, <1>4, SetupStep
<1>5. ASSUME NEW id, Play(id) \/ Teardown(id)
      PROVE  SessInv' /\ (TimerInv /\ PlaysAgain = FALSE => TimerInv')
  BY <1>1, <1>5, PlayStep, TeardownStep
<1>6. QED
  BY <1>3, <1>4, <1>5 DEF Request

\* A callback runs only while its timer does, so never behind a disconnect.
LEMMA TickStep ==
    ASSUME SessInv, NEW k, Tick(k)
    PROVE  SessInv' /\ (TimerInv => TimerInv')
<1>1. /\ CtxsKept /\ ctxs[k].armed /\ k \in 1 .. Len(ctxs)
      /\ conn' = conn \/ conn' = "aborted"
  BY TickKeeps
<1>2. TimerInv => conn # "gone"
  BY <1>1 DEF TimerInv
<1>3. QED
  BY <1>1, <1>2, CtxsKeptStep, CtxsKeptTimers

LEMMA DropStep ==
    ASSUME SessInv, conn = "open", Drop
    PROVE  SessInv' /\ (TimerInv => TimerInv')
<1> DEFINE dropped == {streams[s].rtcp : s \in Streams}
           held == {streams[s].ctx : s \in Streams}
           free(x, yes) == IF yes THEN [x EXCEPT !.freed = @ + 1] ELSE x
<1>1. /\ conn = "open" /\ conn' = "gone"
      /\ sr_timers' = sr_timers \ StoppedReports
      /\ rtcps' = [r \in DOMAIN rtcps |-> free(rtcps[r], r \in dropped)]
      /\ ctxs' = [k \in DOMAIN ctxs |->
                     free([ctxs[k] EXCEPT !.armed = @ /\ k \notin held], k \in held)]
      /\ rtps' = [n \in DOMAIN rtps |-> free(rtps[n], n \in FreedRtps)]
      /\ backchannels' = IF backchannels > 0 THEN backchannels - 1 ELSE 0
      /\ UNCHANGED <<streams, next_id>>
  BY DEF Drop
<1>2. Untouched
  BY <1>1 DEF SessInv, FreedInv
<1>3. /\ rtps \in Seq(Rtp) /\ rtcps \in Seq(Rtcp) /\ Len(rtcps) = Len(rtps) /\ Len(rtps) \in Nat
      /\ DOMAIN rtps = 1 .. Len(rtps) /\ DOMAIN rtcps = 1 .. Len(rtps)
      /\ Len(ctxs) \in Nat /\ DOMAIN ctxs = 1 .. Len(ctxs)
  BY ListFacts DEF SessInv, SessTypes, Links
<1>4. /\ \A x \in Rtp : x.freed = 0 => /\ [x EXCEPT !.freed = @ + 1] \in Rtp
                                        /\ [x EXCEPT !.freed = @ + 1].freed = 1
                                        /\ [x EXCEPT !.freed = @ + 1].stream = x.stream
      /\ \A x \in Rtcp : x.freed = 0 => /\ [x EXCEPT !.freed = @ + 1] \in Rtcp
                                         /\ [x EXCEPT !.freed = @ + 1].freed = 1
                                         /\ [x EXCEPT !.freed = @ + 1].rtp = x.rtp
  BY DEF Rtp, Rtcp
<1> HIDE DEF dropped, held
<1>5. /\ rtps' \in Seq(Rtp) /\ Len(rtps') = Len(rtps)
      /\ \A n \in 1 .. Len(rtps) : /\ rtps'[n].stream = rtps[n].stream
                                   /\ rtps'[n].freed = IF n \in FreedRtps THEN 1 ELSE 0
  <2>1. \A n \in 1 .. Len(rtps) : rtps[n] \in Rtp /\ rtps[n].freed = 0
    BY <1>2, <1>3 DEF Untouched
  <2>2. ASSUME NEW n \in 1 .. Len(rtps)
        PROVE  /\ rtps'[n] \in Rtp /\ rtps'[n].stream = rtps[n].stream
               /\ rtps'[n].freed = IF n \in FreedRtps THEN 1 ELSE 0
    <3>1. rtps'[n] = free(rtps[n], n \in FreedRtps)
      BY <1>1, <1>3
    <3>2. QED
      BY <1>4, <2>1, <3>1
  <2>3. rtps' = [n \in 1 .. Len(rtps) |-> rtps'[n]]
    BY <1>1, <1>3
  <2>4. rtps' \in [1 .. Len(rtps) -> Rtp]
    BY <2>2, <2>3
  <2>5. QED
    BY <1>3, <2>2, <2>4
<1>6. /\ rtcps' \in Seq(Rtcp) /\ Len(rtcps') = Len(rtps)
      /\ \A n \in 1 .. Len(rtps) : /\ rtcps'[n].rtp = rtcps[n].rtp
                                   /\ rtcps'[n].freed = IF n \in dropped THEN 1 ELSE 0
  <2>1. \A n \in 1 .. Len(rtps) : rtcps[n] \in Rtcp /\ rtcps[n].freed = 0
    BY <1>2, <1>3 DEF Untouched
  <2>2. ASSUME NEW n \in 1 .. Len(rtps)
        PROVE  /\ rtcps'[n] \in Rtcp /\ rtcps'[n].rtp = rtcps[n].rtp
               /\ rtcps'[n].freed = IF n \in dropped THEN 1 ELSE 0
    <3>1. rtcps'[n] = free(rtcps[n], n \in dropped)
      BY <1>1, <1>3
    <3>2. QED
      BY <1>4, <2>1, <3>1
  <2>3. rtcps' = [n \in 1 .. Len(rtps) |-> rtcps'[n]]
    BY <1>1, <1>3
  <2>4. rtcps' \in [1 .. Len(rtps) -> Rtcp]
    BY <2>2, <2>3
  <2>5. QED
    BY <1>3, <2>2, <2>4
<1>7. /\ IsList(ctxs') /\ Len(ctxs') = Len(ctxs)
      /\ \A k \in 1 .. Len(ctxs) :
             /\ ctxs'[k] \in Ctx(ctxs'[k])
             /\ ctxs'[k].stream = ctxs[k].stream /\ ctxs'[k].rtp = ctxs[k].rtp
             /\ ctxs'[k].freed = IF k \in held THEN 1 ELSE 0
             /\ ctxs'[k].armed => ctxs[k].armed /\ k \notin held
  <2>1. DOMAIN ctxs' = 1 .. Len(ctxs) /\ ctxs' = [k \in 1 .. Len(ctxs) |-> ctxs'[k]]
    BY <1>1, <1>3
  <2>2. IsList(ctxs') /\ Len(ctxs') = Len(ctxs)
    BY <1>3, <2>1, FunctionIsList
  <2>3. ASSUME NEW e, e \in Ctx(e), e.freed = 0
        PROVE  LET d == [e EXCEPT !.freed = @ + 1]
               IN  /\ d \in Ctx(d) /\ d.stream = e.stream /\ d.rtp = e.rtp
                   /\ d.freed = 1 /\ d.armed = e.armed
    BY <2>3 DEF Ctx
  <2>4. ASSUME NEW k \in 1 .. Len(ctxs)
        PROVE  /\ ctxs'[k] \in Ctx(ctxs'[k])
               /\ ctxs'[k].stream = ctxs[k].stream /\ ctxs'[k].rtp = ctxs[k].rtp
               /\ ctxs'[k].freed = IF k \in held THEN 1 ELSE 0
               /\ ctxs'[k].armed => ctxs[k].armed /\ k \notin held
    <3>1. ctxs[k] \in Ctx(ctxs[k]) /\ ctxs[k].freed = 0
      BY <1>2 DEF Untouched, SessInv, SessTypes
    <3> DEFINE a == ctxs[k].armed /\ k \notin held
               e == [ctxs[k] EXCEPT !.armed = a]
    <3>2. ctxs'[k] = IF k \in held THEN [e EXCEPT !.freed = @ + 1] ELSE e
      BY <1>1, <1>3
    <3>3. a \in BOOLEAN /\ (a => ctxs[k].armed /\ k \notin held)
      OBVIOUS
    <3> HIDE DEF a
    <3>4. Kept(ctxs[k], e)
      BY <3>1, <3>3, CtxChanged
    <3>5. e.armed = a
      BY <3>1 DEF Ctx
    <3> HIDE DEF e
    <3>6. CASE k \in held
      <4> DEFINE d == [e EXCEPT !.freed = @ + 1]
      <4>1. /\ d \in Ctx(d) /\ d.stream = e.stream /\ d.rtp = e.rtp
            /\ d.freed = 1 /\ d.armed = e.armed
        BY <2>3, <3>1, <3>4 DEF Kept
      <4>2. ctxs'[k] = d
        BY <3>2, <3>6
      <4> HIDE DEF d
      <4>3. QED
        BY <3>3, <3>4, <3>5, <3>6, <4>1, <4>2 DEF Kept
    <3>7. CASE k \notin held
      BY <3>1, <3>2, <3>3, <3>4, <3>5, <3>7 DEF Kept
    <3>8. QED
      BY <3>6, <3>7
  <2>5. QED
    BY <2>2, <2>4
<1> HIDE DEF free
<1>8. streams' = streams /\ next_id' = next_id
  BY <1>1
<1>9. SessTypes'
  <2>1. backchannels' \in Nat
    BY <1>1 DEF SessInv, SessTypes
  <2>2. QED
    BY <1>1, <1>5, <1>6, <1>7, <2>1 DEF SessInv, SessTypes
<1>10. Links'
  <2>1. Len(rtcps) = Len(rtps)
    BY DEF SessInv, Links
  <2>2. QED
    BY <1>5, <1>6, <1>7, <1>8, <2>1, LinksStay DEF SessInv
<1>11. FreedRtps' = FreedRtps
  <2>1. \A s \in Streams : streams[s].ctx # NULL =>
            ctxs'[streams[s].ctx].rtp = ctxs[streams[s].ctx].rtp
    BY <1>7 DEF SessInv, Links
  <2>2. QED
    BY <1>8, <2>1 DEF FreedRtps
<1>12. FreedInv'
  <2>1. Dropped'
    <3>1. ASSUME NEW n \in 1 .. Len(rtps')
          PROVE  /\ rtps'[n].freed = IF n \in FreedRtps' THEN 1 ELSE 0
                 /\ rtcps'[n].freed = IF \E s \in Streams : streams'[s].rtcp = n THEN 1 ELSE 0
      <4>1. n \in 1 .. Len(rtps)
        BY <1>5
      <4>2. rtps'[n].freed = IF n \in FreedRtps THEN 1 ELSE 0
        BY <1>5, <4>1
      <4>3. rtcps'[n].freed = IF n \in dropped THEN 1 ELSE 0
        BY <1>6, <4>1
      <4>4. n \in dropped <=> \E s \in Streams : streams'[s].rtcp = n
        BY <1>8 DEF dropped
      <4> HIDE DEF dropped
      <4>5. QED
        BY <1>11, <4>2, <4>3, <4>4
    <3>2. ASSUME NEW k \in 1 .. Len(ctxs')
          PROVE  ctxs'[k].freed = IF \E s \in Streams : streams'[s].ctx = k THEN 1 ELSE 0
      <4>1. ctxs'[k].freed = IF k \in held THEN 1 ELSE 0
        BY <1>7
      <4>2. k \in held <=> \E s \in Streams : streams'[s].ctx = k
        BY <1>8 DEF held
      <4> HIDE DEF held
      <4>3. QED
        BY <4>1, <4>2
    <3>3. QED
      BY <3>1, <3>2 DEF Dropped
  <2>2. /\ \A n \in 1 .. Len(rtps') : rtps'[n].freed \in {0, 1} /\ rtcps'[n].freed \in {0, 1}
        /\ \A k \in 1 .. Len(ctxs') : ctxs'[k].freed \in {0, 1}
    BY <1>5, <1>6, <1>7
  <2>3. QED
    BY <1>1, <2>1, <2>2 DEF FreedInv
<1>13. ASSUME TimerInv
       PROVE  TimerInv'
  <2>1. ASSUME NEW k \in 1 .. Len(ctxs')
        PROVE  ~ctxs'[k].armed
    <3>1. k \in 1 .. Len(ctxs) /\ ctxs[k].stream \in Streams
      BY <1>7, StreamsOf DEF SessInv
    <3>2. ctxs[k].armed => k \in held
      BY <1>13, <3>1 DEF TimerInv, held
    <3>3. QED
      BY <1>7, <3>1, <3>2
  <2>2. sr_timers' = {}
    <3>1. ASSUME NEW r \in sr_timers
          PROVE  r \in StoppedReports
      <4>1. r \in 1 .. Len(rtps) /\ streams[rtps[r].stream].rtcp_ev = r
        BY <1>13 DEF TimerInv
      <4>2. rtps[r].stream \in Streams
        BY <4>1, StreamsOf DEF SessInv
      <4>3. QED
        BY <4>1, <4>2 DEF StoppedReports
    <3>2. QED
      BY <1>1, <3>1
  <2>3. QED
    BY <1>1, <2>1, <2>2 DEF TimerInv
<1>14. QED
  BY <1>9, <1>10, <1>12, <1>13 DEF SessInv

LEMMA DisconnectStep ==
    ASSUME SessInv, Disconnect
    PROVE  SessInv' /\ (TimerInv => TimerInv')
<1>1. conn = "open" /\ (Crash \/ Drop)
  BY DEF Disconnect
<1>2. CASE Crash
  BY <1>1, <1>2, CrashKeeps, CtxsKeptStep, CtxsKeptTimers
<1>3. QED
  BY <1>1, <1>2, DropStep

LEMMA SessInit == Init => SessInv /\ TimerInv
<1> SUFFICES ASSUME Init PROVE SessInv /\ TimerInv
  OBVIOUS
<1>1. /\ rtps = <<>> /\ rtcps = <<>> /\ ctxs = <<>> /\ conn = "none" /\ sr_timers = {}
      /\ \A s \in Streams : streams[s] = NewStream
      /\ next_id = 1 /\ backchannels = 0
      /\ streams \in [Streams -> {NewStream}]
  BY DEF Init
<1>2. NewStream \in Slot /\ NewStream.transport = NULL /\ NewStream.rtcp = NULL /\ NewStream.ctx = NULL
  BY DEF NewStream, Slot, NULL
<1>3. IsList(ctxs)
  BY <1>1 DEF IsList
<1>4. Len(rtps) = 0 /\ Len(rtcps) = 0 /\ Len(ctxs) = 0
  BY <1>1
<1>5. SessTypes
  <2>1. streams \in [Streams -> Slot]
    BY <1>1, <1>2
  <2>2. QED
    BY <1>1, <1>3, <1>4, <2>1 DEF SessTypes
<1>6. Links
  BY <1>1, <1>2, <1>4 DEF Links
<1>7. FreedInv
  BY <1>1, <1>4 DEF FreedInv, Untouched
<1>8. TimerInv
  BY <1>1, <1>4 DEF TimerInv
<1>9. QED
  BY <1>5, <1>6, <1>7, <1>8 DEF SessInv

LEMMA SessStep ==
    ASSUME SessInv, [Next]_vars
    PROVE  SessInv' /\ (TimerInv /\ PlaysAgain = FALSE => TimerInv')
<1>1. CASE Accept
  BY <1>1, AcceptKeeps, CtxsKeptStep, CtxsKeptTimers
<1>2. CASE Request
  BY <1>2, RequestStep
<1>3. ASSUME NEW k, Tick(k)
      PROVE  SessInv' /\ (TimerInv => TimerInv')
  BY <1>3, TickStep
<1>4. CASE Disconnect
  BY <1>4, DisconnectStep
<1>5. CASE UNCHANGED vars
  <2>1. CtxsKept /\ conn' = conn
    BY <1>5, SameCtxs DEF vars, session, media, objects
  <2>2. QED
    BY <2>1, CtxsKeptStep, CtxsKeptTimers
<1>6. QED
  BY <1>1, <1>2, <1>3, <1>4, <1>5 DEF Next

LEMMA SessInvariant == Spec => []SessInv
<1>1. SessInv /\ [Next]_vars => SessInv'
  BY SessStep
<1>2. QED
  BY <1>1, SessInit, PTL DEF Spec
-----------------------------------------------------------------------------
(* The sockets.                                                            *)

SocketInv == udp \in Nat /\ sockets = 2 * udp

LEMMA SocketStep ==
    ASSUME SocketInv, [Next]_vars
    PROVE  SocketInv'
<1>1. CASE UNCHANGED <<sockets, udp>>
  BY <1>1 DEF SocketInv
<1>2. ASSUME NEW s, NEW header, NEW id, Setup(s, header, id)
      PROVE  SocketInv'
  <2>1. PICK t \in SetupTransport(header) : Make(t)
    BY <1>2 DEF Setup
  <2>2. t = Got(2) \/ t.sockets = 0
    BY TransportAnswers
  <2>3. CASE t = Got(2)
    <3>1. t.sockets = 2
      BY <2>3 DEF Got
    <3>2. sockets' = sockets + 2 /\ udp' = udp + 1
      BY <2>1, <2>3, <3>1 DEF Make
    <3>3. QED
      BY <3>2 DEF SocketInv
  <2>4. CASE t # Got(2)
    <3>1. sockets' = sockets + 0 /\ udp' = udp
      BY <2>1, <2>2, <2>4 DEF Make
    <3>2. QED
      BY <3>1 DEF SocketInv
  <2>5. QED
    BY <2>3, <2>4
<1>3. ASSUME NEW code, Answers(code)
      PROVE  UNCHANGED <<sockets, udp>>
  BY <1>3 DEF Answers, session, objects
<1>4. Crash => UNCHANGED <<sockets, udp>>
  BY DEF Crash, session, objects
<1>5. ASSUME NEW id, Play(id) \/ Teardown(id)
      PROVE  UNCHANGED <<sockets, udp>>
  BY <1>3, <1>4, <1>5 DEF Play, Teardown, objects
<1>6. CASE Request
  <2>1. CASE Unauthorized \/ Options \/ Describe \/ Pause \/ Unknown \/ BadSession
    BY <1>1, <1>3, <2>1 DEF Unauthorized, Options, Describe, Pause, Unknown, BadSession
  <2>2. QED
    BY <1>1, <1>2, <1>5, <1>6, <2>1 DEF Request
<1>7. CASE Accept
  BY <1>1, <1>7 DEF Accept, session, objects
<1>8. ASSUME NEW k, Tick(k)
      PROVE  SocketInv'
  BY <1>1, <1>8 DEF Tick, objects
<1>9. CASE Disconnect
  BY <1>1, <1>4, <1>9 DEF Disconnect, Drop
<1>10. CASE UNCHANGED vars
  BY <1>1, <1>10 DEF vars, session, objects
<1>11. QED
  BY <1>6, <1>7, <1>8, <1>9, <1>10 DEF Next

LEMMA SocketInvariant == Spec => []SocketInv
<1>1. Init => SocketInv
  BY DEF Init, SocketInv
<1>2. SocketInv /\ [Next]_vars => SocketInv'
  BY SocketStep
<1>3. QED
  BY <1>1, <1>2, PTL DEF Spec
-----------------------------------------------------------------------------
(* What follows.                                                           *)

\* Client_drop frees nothing twice.  The sockets that are open are those that
\* setup_udp made into transports: a SETUP that gets only one closes it, and
\* whatever else happens, a malformed Session header and the disconnect
\* included, closes none.  And a session whose streams were each set up and played
\* once has its transports, RTCP sessions and contexts freed entirely, whatever
\* the client requests besides, a second PLAY included.
THEOREM SessionReleasedOnce == Spec => []ReleasedOnce
<1>1. ASSUME SessInv, SocketInv PROVE ReleasedOnce
  <2> DEFINE all == {rtps[n].freed : n \in DOMAIN rtps} \cup {rtcps[r].freed : r \in DOMAIN rtcps}
                    \cup {ctxs[k].freed : k \in DOMAIN ctxs}
             once == /\ IsInjective([n \in DOMAIN rtps |-> rtps[n].stream])
                     /\ IsInjective([k \in DOMAIN ctxs |-> ctxs[k].rtp])
                     /\ {ctxs[k].rtp : k \in DOMAIN ctxs} = DOMAIN rtps
  <2>1. /\ DOMAIN rtps = 1 .. Len(rtps) /\ DOMAIN rtcps = 1 .. Len(rtps)
        /\ DOMAIN ctxs = 1 .. Len(ctxs)
    BY <1>1, ListFacts DEF SessInv, SessTypes, Links
  <2>2. all \subseteq {0, 1} /\ sockets = 2 * udp
    BY <1>1, <2>1 DEF SessInv, FreedInv, SocketInv
  <2>3. ASSUME conn = "gone", once
        PROVE  0 \notin all
    <3>1. \A m, n \in 1 .. Len(rtps) : rtps[m].stream = rtps[n].stream => m = n
      BY <2>1, <2>3 DEF IsInjective
    <3>2. \A k, m \in 1 .. Len(ctxs) : ctxs[k].rtp = ctxs[m].rtp => k = m
      BY <2>1, <2>3 DEF IsInjective
    <3>3. /\ \A k \in 1 .. Len(ctxs) : ctxs[k].rtp \in 1 .. Len(rtps)
          /\ \A n \in 1 .. Len(rtps) : \E k \in 1 .. Len(ctxs) : ctxs[k].rtp = n
      BY <2>1, <2>3
    <3>4. Dropped /\ Links
      BY <1>1, <2>3 DEF SessInv, FreedInv
    <3>5. /\ \A n \in 1 .. Len(rtps) : rtps[n].stream \in Streams
          /\ \A k \in 1 .. Len(ctxs) : ctxs[k].stream \in Streams
      BY <1>1, StreamsOf DEF SessInv
    <3>6. \A k \in 1 .. Len(ctxs) : ctxs[k].rtp # NULL
      BY <3>3 DEF NULL
    <3>7. ASSUME NEW k \in 1 .. Len(ctxs)
          PROVE  streams[ctxs[k].stream].ctx = k
      <4> DEFINE s == ctxs[k].stream
                 m == streams[s].ctx
      <4>1. s \in Streams /\ m # NULL /\ m \in 1 .. Len(ctxs) /\ ctxs[m].stream = s
        BY <3>4, <3>5 DEF Links
      <4>2. rtps[ctxs[k].rtp].stream = s /\ rtps[ctxs[m].rtp].stream = s
        BY <3>4, <3>6, <4>1 DEF Links
      <4>3. ctxs[m].rtp = ctxs[k].rtp
        <5>1. ctxs[m].rtp \in 1 .. Len(rtps) /\ ctxs[k].rtp \in 1 .. Len(rtps)
          BY <3>3, <4>1
        <5>2. QED
          BY <3>1, <4>2, <5>1
      <4>4. QED
        BY <3>2, <4>1, <4>3
    <3>8. ASSUME NEW r \in 1 .. Len(rtps)
          PROVE  streams[rtps[r].stream].rtcp = r
      <4> DEFINE s == rtps[r].stream
      <4>1. s \in Streams /\ streams[s].rtcp # NULL
        BY <3>4, <3>5 DEF Links
      <4>2. streams[s].rtcp \in 1 .. Len(rtps) /\ rtps[streams[s].rtcp].stream = s
        BY <3>4, <4>1 DEF Links
      <4>3. QED
        BY <3>1, <4>2
    <3>9. \A k \in 1 .. Len(ctxs) : ctxs[k].freed = 1
      BY <3>4, <3>5, <3>7 DEF Dropped
    <3>10. \A r \in 1 .. Len(rtps) : rtcps[r].freed = 1
      BY <3>4, <3>5, <3>8 DEF Dropped
    <3>11. ASSUME NEW n \in 1 .. Len(rtps)
           PROVE  rtps[n].freed = 1
      <4>1. PICK k \in 1 .. Len(ctxs) : ctxs[k].rtp = n
        BY <3>3
      <4>2. ctxs[k].stream \in Streams /\ streams[ctxs[k].stream].ctx = k /\ k # NULL
        BY <3>5, <3>7 DEF NULL
      <4>3. n \in FreedRtps
        BY <4>1, <4>2 DEF FreedRtps
      <4>4. QED
        BY <3>4, <4>3 DEF Dropped
    <3>12. QED
      BY <2>1, <3>9, <3>10, <3>11
  <2>4. QED
    BY <2>2, <2>3 DEF ReleasedOnce
<1>2. QED
  BY <1>1, SessInvariant, SocketInvariant, PTL

\* As Client_drop intends: when a client that does not PLAY a stream that is
\* playing is gone, no stream or report timer is left that would call back
\* into freed memory, at whatever moment it disconnects.
THEOREM SessionNoCallbackOnFreed ==
    ASSUME PlaysAgain = FALSE
    PROVE  Spec => []NoCallbackOnFreed
<1> DEFINE Both == SessInv /\ TimerInv
<1>1. Init => Both
  BY SessInit
<1>2. Both /\ [Next]_vars => Both'
  BY SessStep
<1>3. Both => NoCallbackOnFreed
  <2> SUFFICES ASSUME SessInv, TimerInv PROVE NoCallbackOnFreed
    OBVIOUS
  <2>1. DOMAIN ctxs = 1 .. Len(ctxs)
    BY ListFacts DEF SessInv, SessTypes
  <2>2. conn # "gone" => Untouched
    BY DEF SessInv, SessTypes, FreedInv, TimerInv
  <2>3. ASSUME NEW k \in DOMAIN ctxs, ctxs[k].armed
        PROVE  /\ conn # "gone" /\ ctxs[k].freed = 0
               /\ ctxs[k].rtp # NULL => rtps[ctxs[k].rtp].freed = 0
    <3>1. conn # "gone"
      BY <2>1, <2>3 DEF TimerInv
    <3>2. QED
      BY <2>1, <2>2, <3>1 DEF Untouched, SessInv, Links
  <2>4. ASSUME NEW r \in sr_timers
        PROVE  rtcps[r].freed = 0 /\ rtps[rtcps[r].rtp].freed = 0
    <3>1. conn # "gone" /\ r \in 1 .. Len(rtps)
      BY DEF TimerInv
    <3>2. rtcps[r].rtp = r
      BY <3>1 DEF SessInv, Links
    <3>3. QED
      BY <2>2, <3>1, <3>2 DEF Untouched
  <2>5. QED
    BY <2>3, <2>4 DEF NoCallbackOnFreed
<1>4. QED
  BY <1>1, <1>2, <1>3, PTL DEF Spec

-----------------------------------------------------------------------------
(* What the timers send.                                                   *)

\* u lists the numbers of S in order.
Fills(u, S) ==
    /\ u \in Seq(Nat)
    /\ \A i \in 1 .. Len(u) : u[i] \in S
    /\ \A i, j \in 1 .. Len(u) : i < j => u[i] < u[j]
    /\ \A x \in S : \E i \in 1 .. Len(u) : u[i] = x

LEMMA FillsOn ==
    ASSUME NEW u, NEW S \in SUBSET Nat, Fills(u, S), NEW n \in Nat, \A x \in S : x < n
    PROVE  Fills(Append(u, n), S \cup {n})
<1> DEFINE v == Append(u, n)
<1>1. /\ u \in Seq(Nat)
      /\ \A i \in 1 .. Len(u) : u[i] \in S
      /\ \A i, j \in 1 .. Len(u) : i < j => u[i] < u[j]
      /\ \A x \in S : \E i \in 1 .. Len(u) : u[i] = x
  BY DEF Fills
<1>2. v \in Seq(Nat) /\ Longer(v, u, n)
  BY <1>1, AppendLonger
<1> HIDE DEF v
<1>3. \A i \in 1 .. Len(v) : (i \in 1 .. Len(u) /\ v[i] = u[i]) \/ (i = Len(u) + 1 /\ v[i] = n)
  BY <1>2, LongerPlaces
<1>4. Len(u) \in Nat /\ Len(v) = Len(u) + 1
  BY <1>2 DEF Longer
<1>5. \A i \in 1 .. Len(v) : v[i] \in S \cup {n}
  BY <1>1, <1>3
<1>6. ASSUME NEW i \in 1 .. Len(v), NEW j \in 1 .. Len(v), i < j
      PROVE  v[i] < v[j]
  <2>1. i \in 1 .. Len(u) /\ v[i] = u[i] /\ u[i] \in S
    BY <1>1, <1>3, <1>4, <1>6
  <2>2. CASE j \in 1 .. Len(u) /\ v[j] = u[j]
    BY <1>1, <1>6, <2>1, <2>2
  <2>3. CASE v[j] = n
    BY <2>1, <2>3
  <2>4. QED
    BY <1>3, <2>2, <2>3
<1>7. ASSUME NEW x \in S \cup {n}
      PROVE  \E i \in 1 .. Len(v) : v[i] = x
  <2>1. /\ Len(u) + 1 \in 1 .. Len(v) /\ v[Len(u) + 1] = n
        /\ \A i \in 1 .. Len(u) : i \in 1 .. Len(v) /\ v[i] = u[i]
    BY <1>2, LongerHas
  <2>2. CASE x \in S
    <3>1. PICK i \in 1 .. Len(u) : u[i] = x
      BY <1>1, <2>2
    <3>2. QED
      BY <2>1, <3>1
  <2>3. CASE x = n
    BY <2>1, <2>3
  <2>4. QED
    BY <2>2, <2>3
<1>8. Fills(v, S \cup {n})
  BY <1>2, <1>5, <1>6, <1>7 DEF Fills
<1>9. QED
  BY <1>8 DEF v

\* The places of from .. to that go out when the sends of U fail.
Left(from, to, U) == {i \in from .. to : NalTable[i] # "aud" /\ i \notin U}

LEMMA LeftNext ==
    ASSUME NEW from \in Nat, NEW to \in Nat, from <= to + 1, NEW U
    PROVE  /\ NalTable[to + 1] = "aud" \/ to + 1 \in U => Left(from, to + 1, U) = Left(from, to, U)
           /\ ~(NalTable[to + 1] = "aud" \/ to + 1 \in U) =>
                  Left(from, to + 1, U) = Left(from, to, U) \cup {to + 1}
           /\ Left(from, to, U) \in SUBSET Nat /\ \A x \in Left(from, to, U) : x < to + 1
<1>1. \A x : x \in from .. (to + 1) <=> x \in from .. to \/ x = to + 1
  OBVIOUS
<1>2. \A x \in from .. to : x \in Nat /\ x < to + 1
  OBVIOUS
<1>3. QED
  BY <1>1, <1>2 DEF Left

\* The loop of send_video_packet_cb misses nothing but the delimiters and the units
\* whose own send fails.
LEMMA UnitsFill ==
    ASSUME NEW from \in Nat \ {0}, NEW to \in Nat, from <= to + 1, NEW U
    PROVE  Fills(Units(from, to, U), Left(from, to, U))
<1> DEFINE m == from - 1
           n == to - m
           A == Seq(Nat)
           pass(i) == NalTable[i] = "aud" \/ i \in U
           step == [y \in Nat \X A |-> IF pass(y[1]) THEN y[2] ELSE Append(y[2], y[1])]
           Def(g) == [i \in from - 1 .. to |->
                         IF i = from - 1 THEN <<>>
                         ELSE IF NalTable[i] = "aud" \/ i \in U THEN g[i - 1]
                         ELSE Append(g[i - 1], i)]
           sent == CHOOSE g : g = Def(g)
<1>1. m \in Nat /\ n \in Nat /\ m + n = to /\ <<>> \in A
  OBVIOUS
<1>2. step \in [Nat \X A -> A]
  OBVIOUS
<1>3. PICK f : Continues(f, A, m, n, <<>>, step)
  <2> HIDE DEF m, n, step, A
  <2>1. QED
    BY <1>1, <1>2, Continued
<1>4. f = Def(f)
  <2>1. ASSUME NEW i \in m + 1 .. m + n
        PROVE  f[i] = IF pass(i) THEN f[i - 1] ELSE Append(f[i - 1], i)
    <3>1. i \in Nat /\ i - 1 \in m .. m + n /\ f[i - 1] \in A
      BY <1>1, <1>3 DEF Continues
    <3>2. <<i, f[i - 1]>> \in Nat \X A
      BY <3>1
    <3> HIDE DEF pass
    <3>3. QED
      BY <1>3, <3>2 DEF Continues
  <2>2. \A i \in m .. m + n : i = m \/ i \in m + 1 .. m + n
    BY <1>1
  <2> HIDE DEF pass
  <2>3. f = [i \in m .. m + n |-> IF i = m THEN <<>>
                 ELSE IF pass(i) THEN f[i - 1] ELSE Append(f[i - 1], i)]
    BY <1>3, <2>1, <2>2 DEF Continues
  <2>4. QED
    BY <1>1, <2>3 DEF pass
<1>5. sent = Def(sent)
  <2> HIDE DEF Def
  <2>1. \E g : g = Def(g)
    BY <1>4
  <2>2. QED
    BY <2>1
<1>6. Units(from, to, U) = sent[to]
  BY DEF Units
<1> HIDE DEF sent
<1> DEFINE T == {k \in Nat : k <= n => Fills(sent[m + k], Left(from, m + k, U))}
<1>7. 0 \in T
  <2>1. sent[m + 0] = <<>>
    BY <1>1, <1>5
  <2>2. Left(from, m + 0, U) = {}
    BY <1>1 DEF Left
  <2>3. Fills(<<>>, {})
    BY DEF Fills
  <2>4. QED
    BY <2>1, <2>2, <2>3
<1>8. ASSUME NEW k \in T
      PROVE  k + 1 \in T
  <2> SUFFICES ASSUME k + 1 <= n
               PROVE  Fills(sent[m + (k + 1)], Left(from, m + (k + 1), U))
    OBVIOUS
  <2> DEFINE x == m + k
  <2>1. k \in Nat /\ x \in Nat /\ Fills(sent[x], Left(from, x, U)) /\ m + (k + 1) = x + 1
        /\ from <= x + 1
    BY <1>1
  <2>2. sent[x + 1] = IF pass(x + 1) THEN sent[x] ELSE Append(sent[x], x + 1)
    <3>1. x + 1 \in from - 1 .. to /\ x + 1 # from - 1 /\ (x + 1) - 1 = x
      BY <1>1, <2>1
    <3> HIDE DEF x
    <3>2. QED
      BY <1>5, <3>1
  <2> HIDE DEF x, m
  <2>3. /\ pass(x + 1) => Left(from, x + 1, U) = Left(from, x, U)
        /\ ~pass(x + 1) => Left(from, x + 1, U) = Left(from, x, U) \cup {x + 1}
        /\ Left(from, x, U) \in SUBSET Nat /\ \A y \in Left(from, x, U) : y < x + 1
    BY <2>1, LeftNext
  <2> HIDE DEF pass
  <2>4. Fills(Append(sent[x], x + 1), Left(from, x, U) \cup {x + 1})
    BY <2>1, <2>3, FillsOn
  <2>5. QED
    BY <2>1, <2>2, <2>3, <2>4
<1>9. T = Nat
  <2> HIDE DEF T
  <2>1. T \in SUBSET Nat
    BY DEF T
  <2>2. QED
    BY <1>7, <1>8, <2>1, Induction
<1>10. Fills(sent[m + n], Left(from, m + n, U))
  <2> HIDE DEF m, n
  <2>1. n \in T
    BY <1>1, <1>9
  <2>2. QED
    BY <1>1, <2>1
<1>11. QED
  BY <1>1, <1>6, <1>10

LEMMA FillsJoined ==
    ASSUME NEW u, NEW v, NEW S \in SUBSET Nat, NEW T \in SUBSET Nat, Fills(u, S), Fills(v, T),
           \A x \in S, y \in T : x < y
    PROVE  Fills(u \o v, S \cup T)
<1> DEFINE w == u \o v
<1>1. /\ u \in Seq(Nat) /\ \A i \in 1 .. Len(u) : u[i] \in S
      /\ \A i, j \in 1 .. Len(u) : i < j => u[i] < u[j]
      /\ \A x \in S : \E i \in 1 .. Len(u) : u[i] = x
  BY DEF Fills
<1>2. /\ v \in Seq(Nat) /\ \A i \in 1 .. Len(v) : v[i] \in T
      /\ \A i, j \in 1 .. Len(v) : i < j => v[i] < v[j]
      /\ \A x \in T : \E i \in 1 .. Len(v) : v[i] = x
  BY DEF Fills
<1>3. w \in Seq(Nat) /\ Behind(w, u, v)
  BY <1>1, <1>2, Joined
<1> HIDE DEF w
<1>4. /\ Len(u) \in Nat /\ Len(v) \in Nat /\ Len(w) = Len(u) + Len(v)
      /\ \A i \in 1 .. Len(u) : w[i] = u[i]
      /\ \A i \in 1 .. Len(v) : w[Len(u) + i] = v[i]
  BY <1>1, <1>2, <1>3 DEF Behind
<1>5. ASSUME NEW i \in 1 .. Len(w)
      PROVE  \/ i \in 1 .. Len(u) /\ w[i] = u[i]
             \/ i - Len(u) \in 1 .. Len(v) /\ w[i] = v[i - Len(u)]
  BY <1>3, BehindPlaces
<1>6. \A i \in 1 .. Len(w) : w[i] \in S \cup T
  BY <1>1, <1>2, <1>5
<1>7. ASSUME NEW i \in 1 .. Len(w), NEW j \in 1 .. Len(w), i < j
      PROVE  w[i] < w[j]
  <2>1. CASE j \in 1 .. Len(u) /\ w[j] = u[j]
    <3>1. i \in 1 .. Len(u)
      BY <1>4, <1>7, <2>1
    <3>2. QED
      BY <1>1, <1>4, <1>7, <2>1, <3>1
  <2>2. CASE j - Len(u) \in 1 .. Len(v) /\ w[j] = v[j - Len(u)]
    <3>1. CASE i \in 1 .. Len(u) /\ w[i] = u[i]
      BY <1>1, <1>2, <2>2, <3>1
    <3>2. CASE i - Len(u) \in 1 .. Len(v) /\ w[i] = v[i - Len(u)]
      <4>1. i - Len(u) < j - Len(u)
        BY <1>4, <1>7
      <4>2. QED
        BY <1>2, <2>2, <3>2, <4>1
    <3>3. QED
      BY <1>5, <3>1, <3>2
  <2>3. QED
    BY <1>5, <2>1, <2>2
<1>8. ASSUME NEW x \in S \cup T
      PROVE  \E i \in 1 .. Len(w) : w[i] = x
  <2>1. CASE x \in S
    <3>1. PICK i \in 1 .. Len(u) : u[i] = x
      BY <1>1, <2>1
    <3>2. i \in 1 .. Len(w)
      BY <1>4
    <3>3. QED
      BY <1>4, <3>1, <3>2
  <2>2. CASE x \in T
    <3>1. PICK i \in 1 .. Len(v) : v[i] = x
      BY <1>2, <2>2
    <3>2. Len(u) + i \in 1 .. Len(w)
      BY <1>4
    <3>3. QED
      BY <1>4, <3>1, <3>2
  <2>3. QED
    BY <2>1, <2>2
<1>9. Fills(w, S \cup T)
  BY <1>3, <1>6, <1>7, <1>8 DEF Fills
<1>10. QED
  BY <1>9 DEF w

Places(out) == [i \in 1 .. Len(out) |-> out[i][1]]

\* The samples that the file has for packet n.
Rest(n) == IF media_audio_len < (n + 1) * PerPacket THEN media_audio_len - n * PerPacket
           ELSE PerPacket

\* A context has sent the packets before pos, but those that failed.
AudioInv(c) ==
    /\ c.pos \in Nat /\ c.out \in Seq(Nat \X Nat)
    /\ c.failed \subseteq 0 .. c.pos - 1
    /\ Fills(Places(c.out), (0 .. c.pos - 1) \ c.failed)
    /\ \A n \in 0 .. c.pos - 1 : n * PerPacket < media_audio_len
    /\ \A i \in 1 .. Len(c.out) : c.out[i][2] = Rest(c.out[i][1])

\* The units before pos are out, but those that failed, and each timestamp, the
\* next one too, is the number of pictures in front of it.
VideoOut(pos, timestamp, out, misses) ==
    /\ pos \in Nat /\ StartIdx <= pos /\ pos <= Len(NalTable) + 1
    /\ timestamp = PicturesBefore(pos) /\ out \in Seq(Nat \X Nat)
    /\ misses \subseteq Left(StartIdx, pos - 1, {})
    /\ Fills(Places(out), Left(StartIdx, pos - 1, misses))
    /\ \A i \in 1 .. Len(out) : out[i][2] = PicturesBefore(out[i][1])

VideoInv(c) == VideoOut(c.pos, c.timestamp, c.out, c.failed)

MediaInv ==
    /\ media_audio_len \in AudioLens
    /\ \A k \in 1 .. Len(ctxs) :
           IF ctxs[k].stream = "audio" THEN AudioInv(ctxs[k]) ELSE VideoInv(ctxs[k])

LEMMA StartFacts ==
    StartIdx \in Nat \ {0} /\ StartIdx <= Len(NalTable) + 1 /\ Len(NalTable) \in Nat
<1> DEFINE T == {i \in DOMAIN NalTable : NalTable[i] = "sps"}
<1>1. Len(NalTable) \in Nat /\ DOMAIN NalTable = 1 .. Len(NalTable)
  BY SessionAssumption
<1>2. T \in SUBSET Nat /\ \A i \in T : i \in 1 .. Len(NalTable)
  BY <1>1
<1> HIDE DEF T
<1>3. CASE T = {}
  BY <1>1, <1>3 DEF StartIdx, T
<1>4. CASE T # {}
  <2>1. StartIdx = Min(T)
    BY <1>4 DEF StartIdx, T
  <2>2. Min(T) \in 1 .. Len(NalTable)
    BY <1>2, <1>4, LeastOf
  <2>3. QED
    BY <1>1, <2>1, <2>2
<1>5. QED
  BY <1>3, <1>4

\* The next packet of samples.
LEMMA SamplesRest ==
    ASSUME NEW p \in Nat, media_audio_len \in Nat, p * PerPacket < media_audio_len
    PROVE  Samples(p * PerPacket) = Rest(p) /\ Rest(p) \in Nat
<1> DEFINE P == PerPacket
           from == p * P
           len == media_audio_len
<1>1. P \in Nat \ {0} /\ from \in Nat /\ (p + 1) * P = from + P
  BY SessionAssumption
<1>2. CASE len < from + P
  <2>1. len % P = len - from
    <3>1. P * p = from /\ P * p <= len /\ len < P * p + P
      BY <1>1, <1>2
    <3>2. len % P = len - P * p
      BY <1>1, <3>1, RemainderIs
    <3>3. QED
      BY <3>1, <3>2
  <2>2. QED
    BY <1>1, <1>2, <2>1 DEF Samples, Rest
<1>3. CASE ~(len < from + P)
  BY <1>1, <1>3 DEF Samples, Rest
<1>4. QED
  BY <1>2, <1>3

LEMMA PlacesAre ==
    ASSUME NEW out \in Seq(Nat \X Nat)
    PROVE  /\ Places(out) \in Seq(Nat) /\ Len(Places(out)) = Len(out) /\ Len(out) \in Nat
           /\ \A i \in 1 .. Len(out) : Places(out)[i] = out[i][1]
<1> DEFINE v == Places(out)
           L == Len(out)
<1>1. L \in Nat /\ \A i \in 1 .. L : out[i] \in Nat \X Nat
  OBVIOUS
<1>2. \A i \in 1 .. L : out[i][1] \in Nat
  BY <1>1
<1>3. v \in [1 .. L -> Nat] /\ \A i \in 1 .. L : v[i] = out[i][1]
  BY <1>2 DEF Places
<1> HIDE DEF v, L
<1>4. v \in Seq(Nat) /\ Len(v) = L
  BY <1>1, <1>3
<1>5. QED
  BY <1>1, <1>3, <1>4 DEF v, L

\* Sequences that agree everywhere.
LEMMA SameSeq ==
    ASSUME NEW S, NEW a \in Seq(S), NEW b \in Seq(S), Len(a) = Len(b),
           \A i \in 1 .. Len(a) : a[i] = b[i]
    PROVE  a = b
OBVIOUS

LEMMA PlacesAppended ==
    ASSUME NEW out \in Seq(Nat \X Nat), NEW n \in Nat, NEW y \in Nat
    PROVE  Places(Append(out, <<n, y>>)) = Append(Places(out), n)
<1> DEFINE o == Append(out, <<n, y>>)
           v == Places(out)
           a == Places(o)
           b == Append(v, n)
           e == <<n, y>>
<1>1. v \in Seq(Nat) /\ Len(v) = Len(out) /\ \A i \in 1 .. Len(out) : v[i] = out[i][1]
  BY PlacesAre
<1>2. o \in Seq(Nat \X Nat) /\ Longer(o, out, e)
  <2>1. e \in Nat \X Nat
    OBVIOUS
  <2>2. QED
    BY <2>1, AppendLonger
<1>3. e[1] = n
  OBVIOUS
<1> HIDE DEF o, e
<1>4. a \in Seq(Nat) /\ Len(a) = Len(o) /\ \A i \in 1 .. Len(o) : a[i] = o[i][1]
  BY <1>2, PlacesAre
<1> HIDE DEF v
<1>5. b \in Seq(Nat) /\ Longer(b, v, n)
  BY <1>1, AppendLonger
<1> HIDE DEF a, b
<1>6. Len(a) = Len(b) /\ Len(a) = Len(out) + 1 /\ Len(out) \in Nat
  BY <1>1, <1>2, <1>4, <1>5 DEF Longer
<1>7. ASSUME NEW i \in 1 .. Len(a)
      PROVE  a[i] = b[i]
  <2>1. i \in 1 .. Len(o) /\ i \in 1 .. Len(b)
    BY <1>4, <1>6
  <2>2. (i \in 1 .. Len(out) /\ o[i] = out[i]) \/ (i = Len(out) + 1 /\ o[i] = e)
    BY <1>2, <2>1, LongerPlaces
  <2>3. (i \in 1 .. Len(v) /\ b[i] = v[i]) \/ (i = Len(v) + 1 /\ b[i] = n)
    BY <1>5, <2>1, LongerPlaces
  <2>4. CASE i \in 1 .. Len(out)
    <3>1. i # Len(out) + 1
      BY <1>6, <2>4
    <3>2. QED
      BY <1>1, <1>4, <2>1, <2>2, <2>3, <2>4, <3>1
  <2>5. CASE i = Len(out) + 1
    <3>1. ~(i \in 1 .. Len(out))
      BY <1>6, <2>5
    <3>2. QED
      BY <1>1, <1>3, <1>4, <2>1, <2>2, <2>3, <3>1
  <2>6. QED
    BY <2>2, <2>4, <2>5
<1>8. a = b
  BY <1>4, <1>5, <1>6, <1>7, SameSeq
<1>9. QED
  BY <1>8 DEF a, b, v, o, e

\* The number behind an interval.
LEMMA NextNumber ==
    ASSUME NEW p \in Nat
    PROVE  0 .. (p + 1) - 1 = (0 .. p - 1) \cup {p} /\ p \notin 0 .. p - 1
           /\ \A x \in 0 .. p - 1 : x \in Nat /\ x < p
OBVIOUS

\* One tick of the audio timer, whose send may fail.
LEMMA AudioSent ==
    ASSUME NEW c, AudioInv(c), media_audio_len \in Nat, c.pos * PerPacket < media_audio_len,
           NEW d, d.pos = c.pos + 1,
           \/ /\ d.out = Append(c.out, <<c.pos, Samples(c.pos * PerPacket)>>)
              /\ d.failed = c.failed
           \/ /\ d.out = c.out
              /\ d.failed = c.failed \cup {c.pos}
    PROVE  AudioInv(d)
<1> DEFINE p == c.pos
           y == Samples(p * PerPacket)
           N == 0 .. p - 1
<1>1. /\ p \in Nat /\ c.out \in Seq(Nat \X Nat) /\ c.failed \subseteq N
      /\ Fills(Places(c.out), N \ c.failed)
      /\ \A n \in N : n * PerPacket < media_audio_len
      /\ \A i \in 1 .. Len(c.out) : c.out[i][2] = Rest(c.out[i][1])
  BY DEF AudioInv
<1>2. 0 .. d.pos - 1 = N \cup {p} /\ p \notin N /\ \A x \in N : x \in Nat /\ x < p
  BY <1>1, NextNumber
<1>3. y = Rest(p) /\ y \in Nat
  BY <1>1, SamplesRest
<1>4. \A n \in N \cup {p} : n * PerPacket < media_audio_len
  BY <1>1
<1>5. d.pos \in Nat
  BY <1>1
<1>6. CASE d.out = Append(c.out, <<p, y>>) /\ d.failed = c.failed
  <2> HIDE DEF y, N, p
  <2>1. (N \cup {p}) \ d.failed = (N \ c.failed) \cup {p}
    BY <1>1, <1>2, <1>6
  <2>2. Places(d.out) = Append(Places(c.out), p)
    BY <1>1, <1>3, <1>6, PlacesAppended
  <2>3. Fills(Places(d.out), (N \ c.failed) \cup {p})
    <3>1. N \ c.failed \in SUBSET Nat /\ \A x \in N \ c.failed : x < p
      BY <1>2
    <3>2. QED
      BY <1>1, <2>2, <3>1, FillsOn
  <2>4. d.out \in Seq(Nat \X Nat) /\ Longer(d.out, c.out, <<p, y>>)
    <3>1. <<p, y>> \in Nat \X Nat
      BY <1>1, <1>3
    <3>2. QED
      BY <1>1, <1>6, <3>1, AppendLonger
  <2>5. ASSUME NEW i \in 1 .. Len(d.out)
        PROVE  d.out[i][2] = Rest(d.out[i][1])
    <3> DEFINE e == <<p, y>>
               q == d.out
    <3> HIDE DEF e, q
    <3>0. Longer(q, c.out, e) /\ i \in 1 .. Len(q)
      BY <2>4 DEF e, q
    <3>1. (i \in 1 .. Len(c.out) /\ d.out[i] = c.out[i]) \/ d.out[i] = <<p, y>>
      BY <3>0, LongerPlaces DEF e, q
    <3>2. CASE d.out[i] = <<p, y>>
      <4>1. d.out[i][1] = p /\ d.out[i][2] = y
        BY <3>2
      <4>2. QED
        BY <1>3, <4>1
    <3>3. QED
      BY <1>1, <3>1, <3>2
  <2>6. d.failed \subseteq N \cup {p}
    BY <1>1, <1>6
  <2>7. QED
    BY <1>2, <1>4, <1>5, <2>1, <2>3, <2>4, <2>5, <2>6 DEF AudioInv
<1>7. CASE d.out = c.out /\ d.failed = c.failed \cup {p}
  <2> HIDE DEF y, N, p
  <2>1. (N \cup {p}) \ d.failed = N \ c.failed
    BY <1>1, <1>2, <1>7
  <2>2. d.failed \subseteq N \cup {p}
    BY <1>1, <1>7
  <2>3. QED
    BY <1>1, <1>2, <1>4, <1>5, <1>7, <2>1, <2>2 DEF AudioInv
<1>8. QED
  BY <1>6, <1>7

\* The loop that begins at p stops at to: at the next picture, or at the end.
Stops(p, to, found) ==
    /\ to \in Nat /\ to <= Len(NalTable) /\ p <= to + 1
    /\ \A x \in p .. to : NalTable[x] = "vcl" => x = to
    /\ found => p <= to /\ NalTable[to] = "vcl"
    /\ ~found => \A x \in p .. to : NalTable[x] # "vcl"

LEMMA NextPicture ==
    ASSUME NEW p \in Nat \ {0}, p <= Len(NalTable) + 1, NEW pictures, NEW to,
           pictures = {i \in p .. Len(NalTable) : NalTable[i] = "vcl"},
           to = IF pictures = {} THEN Len(NalTable) ELSE Min(pictures)
    PROVE  Stops(p, to, pictures # {})
<1>1. Len(NalTable) \in Nat
  BY StartFacts
<1>2. CASE pictures = {}
  <2>1. to = Len(NalTable)
    BY <1>2
  <2>2. \A x \in p .. to : NalTable[x] # "vcl"
    BY <1>2, <2>1
  <2>3. QED
    BY <1>1, <1>2, <2>1, <2>2 DEF Stops
<1>3. CASE pictures # {}
  <2>1. pictures \in SUBSET Nat
    OBVIOUS
  <2>2. to \in pictures /\ \A y \in pictures : to <= y
    BY <1>3, <2>1, LeastOf
  <2>3. to \in p .. Len(NalTable) /\ NalTable[to] = "vcl"
    BY <2>2
  <2>4. ASSUME NEW x \in p .. to, NalTable[x] = "vcl"
        PROVE  x = to
    <3>1. x \in p .. Len(NalTable)
      BY <1>1, <2>3
    <3>2. x \in pictures
      BY <2>4, <3>1
    <3>3. to <= x
      BY <2>2, <3>2
    <3>4. QED
      BY <2>3, <3>3
  <2>5. to \in Nat /\ to <= Len(NalTable) /\ p <= to + 1 /\ p <= to
    BY <1>1, <2>3
  <2>6. QED
    BY <1>3, <2>3, <2>4, <2>5 DEF Stops
<1>4. QED
  BY <1>2, <1>3

\* Each unit with the timestamp.
LEMMA Stamped ==
    ASSUME NEW u \in Seq(Nat), NEW t \in Nat
    PROVE  /\ Stamp(u, t) \in Seq(Nat \X Nat) /\ Len(Stamp(u, t)) = Len(u)
           /\ \A i \in 1 .. Len(u) : Stamp(u, t)[i][1] = u[i] /\ Stamp(u, t)[i][2] = t
<1> DEFINE w == Stamp(u, t)
<1>1. Len(u) \in Nat /\ DOMAIN u = 1 .. Len(u) /\ \A i \in 1 .. Len(u) : u[i] \in Nat
  OBVIOUS
<1>2. w = [i \in 1 .. Len(u) |-> <<u[i], t>>]
  BY <1>1 DEF Stamp
<1>3. w \in [1 .. Len(u) -> Nat \X Nat]
  BY <1>1, <1>2
<1>4. w \in Seq(Nat \X Nat) /\ Len(w) = Len(u)
  <2> HIDE DEF w
  <2>1. QED
    BY <1>1, <1>3
<1>5. QED
  BY <1>2, <1>4

\* The places of units that follow others.
LEMMA PlacesJoined ==
    ASSUME NEW out \in Seq(Nat \X Nat), NEW u \in Seq(Nat), NEW t \in Nat
    PROVE  Places(out \o Stamp(u, t)) = Places(out) \o u
<1> DEFINE w == Stamp(u, t)
           o == out \o w
           L == Len(out)
           n == Len(u)
           a == Places(o)
           v == Places(out)
           b == v \o u
<1>1. /\ w \in Seq(Nat \X Nat) /\ Len(w) = n
      /\ \A i \in 1 .. n : w[i][1] = u[i]
  BY Stamped
<1> HIDE DEF w
<1>2. /\ o \in Seq(Nat \X Nat) /\ L \in Nat /\ n \in Nat /\ Len(o) = L + n
      /\ \A i \in 1 .. L : o[i] = out[i]
      /\ \A i \in 1 .. n : o[L + i] = w[i]
  <2> DEFINE S == Nat \X Nat
  <2>1. out \in Seq(S) /\ w \in Seq(S) /\ Len(w) = n
    BY <1>1
  <2> HIDE DEF S
  <2>2. o \in Seq(S) /\ Behind(o, out, w)
    BY <2>1, Joined
  <2> HIDE DEF o
  <2>3. QED
    BY <2>1, <2>2 DEF S, Behind
<1>3. v \in Seq(Nat) /\ Len(v) = L /\ \A i \in 1 .. L : v[i] = out[i][1]
  BY PlacesAre
<1> HIDE DEF v
<1>4. /\ b \in Seq(Nat) /\ Len(b) = L + n
      /\ \A i \in 1 .. L : b[i] = v[i]
      /\ \A i \in 1 .. n : b[L + i] = u[i]
  <2>1. v \in Seq(Nat)
    BY <1>3
  <2>2. b \in Seq(Nat) /\ Behind(b, v, u)
    BY <2>1, Joined
  <2> HIDE DEF b
  <2>3. QED
    BY <1>3, <2>2 DEF Behind
<1> HIDE DEF b, o
<1>5. DOMAIN a = 1 .. L + n /\ a = [i \in 1 .. L + n |-> a[i]]
      /\ \A i \in 1 .. L + n : a[i] = o[i][1]
  BY <1>2 DEF Places
<1> HIDE DEF a, L, n
<1>6. ASSUME NEW i \in 1 .. L + n
      PROVE  a[i] = b[i]
  <2>1. CASE i \in 1 .. L
    <3>1. o[i] = out[i] /\ b[i] = v[i] /\ v[i] = out[i][1]
      BY <1>2, <1>3, <1>4, <2>1
    <3>2. QED
      BY <1>5, <3>1
  <2>2. CASE i \notin 1 .. L
    <3>1. i - L \in 1 .. n /\ L + (i - L) = i
      BY <1>2, <2>2
    <3>2. o[i] = w[i - L] /\ b[i] = u[i - L]
      BY <1>2, <1>4, <3>1
    <3>3. QED
      BY <1>1, <1>5, <3>1, <3>2
  <2>3. QED
    BY <2>1, <2>2
<1>7. DOMAIN b = 1 .. L + n /\ b = [i \in 1 .. L + n |-> b[i]]
  BY <1>4
<1>8. a = b
  BY <1>5, <1>6, <1>7
<1>9. QED
  BY <1>8 DEF a, b, v, o, w

\* The pictures before a unit of the same tick, and before the next tick.
LEMMA PicturesOn ==
    ASSUME NEW p \in Nat, StartIdx <= p, NEW to, NEW found \in BOOLEAN, Stops(p, to, found)
    PROVE  /\ \A x \in p .. to : PicturesBefore(x) = PicturesBefore(p)
           /\ PicturesBefore(to + 1) = PicturesBefore(p) + (IF found THEN 1 ELSE 0)
           /\ PicturesBefore(p) \in Nat
<1> DEFINE pictures(n) == {i \in StartIdx .. n - 1 : NalTable[i] = "vcl"}
<1>1. StartIdx \in Nat \ {0} /\ to \in Nat /\ p <= to + 1
  BY StartFacts DEF Stops
<1>2. \A n : PicturesBefore(n) = Cardinality(pictures(n))
  BY DEF PicturesBefore
<1>3. ASSUME NEW x \in p .. to
      PROVE  pictures(x) = pictures(p)
  <2>1. ASSUME NEW i \in StartIdx .. x - 1, NalTable[i] = "vcl"
        PROVE  i \in StartIdx .. p - 1
    <3>1. CASE i < p
      BY <1>1, <3>1
    <3>2. CASE i >= p
      <4>1. i \in p .. to /\ i # to
        BY <1>1, <3>2
      <4>2. QED
        BY <2>1, <4>1 DEF Stops
    <3>3. QED
      BY <1>1, <3>1, <3>2
  <2>2. \A i \in StartIdx .. p - 1 : i \in StartIdx .. x - 1
    BY <1>1
  <2>3. QED
    BY <2>1, <2>2
<1>4. pictures(to + 1) = IF found THEN pictures(p) \cup {to} ELSE pictures(p)
  <2>1. \A i \in StartIdx .. p - 1 : i \in StartIdx .. (to + 1) - 1
    BY <1>1
  <2>2. ASSUME NEW i \in StartIdx .. (to + 1) - 1, NalTable[i] = "vcl"
        PROVE  i \in StartIdx .. p - 1 \/ (found /\ i = to)
    <3>1. CASE i < p
      BY <1>1, <3>1
    <3>2. CASE i >= p
      <4>1. i \in p .. to
        BY <1>1, <3>2
      <4>2. QED
        BY <2>2, <4>1 DEF Stops
    <3>3. QED
      BY <1>1, <3>1, <3>2
  <2>3. found => to \in StartIdx .. (to + 1) - 1 /\ NalTable[to] = "vcl"
    BY <1>1 DEF Stops
  <2>4. QED
    BY <2>1, <2>2, <2>3
<1>5. found => to \notin pictures(p)
  BY <1>1 DEF Stops
<1>6. IsFiniteSet(pictures(p))
  <2>1. IsFiniteSet(StartIdx .. p - 1)
    BY <1>1, FS_Interval
  <2>2. pictures(p) \in SUBSET (StartIdx .. p - 1)
    OBVIOUS
  <2> HIDE DEF pictures
  <2>3. QED
    BY <2>1, <2>2, FS_Subset
<1> HIDE DEF pictures
<1>7. Cardinality(pictures(p)) \in Nat
  BY <1>6, FS_CardinalityType
<1>8. found => Cardinality(pictures(p) \cup {to}) = Cardinality(pictures(p)) + 1
  BY <1>5, <1>6, FS_AddElement
<1>9. PicturesBefore(to + 1) = PicturesBefore(p) + (IF found THEN 1 ELSE 0)
  BY <1>2, <1>4, <1>7, <1>8
<1>10. QED
  BY <1>2, <1>3, <1>7, <1>9

\* The places before the next tick: those before p and those of this tick.
Parts(A, B, C) ==
    /\ A \cup B = C
    /\ A \in SUBSET Nat /\ B \in SUBSET Nat
    /\ \A x \in A, y \in B : x < y

LEMMA LeftJoined ==
    ASSUME NEW s \in Nat, NEW p \in Nat, NEW to \in Nat, s <= p, p <= to + 1,
           NEW F, F \subseteq Left(s, p - 1, {}), NEW U, U \subseteq Left(p, to, {})
    PROVE  /\ Parts(Left(s, p - 1, F), Left(p, to, U), Left(s, to, F \cup U))
           /\ F \cup U \subseteq Left(s, to, {})
<1>1. \A x : x \in s .. to <=> x \in s .. p - 1 \/ x \in p .. to
  OBVIOUS
<1>2. \A x \in s .. p - 1, y \in p .. to : x < y
  OBVIOUS
<1>3. \A x \in s .. p - 1 : x \notin p .. to
  OBVIOUS
<1>4. \A x \in s .. to : x \in Nat
  OBVIOUS
<1>5. (\A x \in F : x \in s .. p - 1) /\ (\A x \in U : x \in p .. to)
  BY DEF Left
<1>6. Left(s, p - 1, F) \cup Left(p, to, U) = Left(s, to, F \cup U)
  BY <1>1, <1>3, <1>5, Zenon DEF Left
<1>7. F \cup U \subseteq Left(s, to, {})
  BY <1>1 DEF Left
<1>8. QED
  BY <1>1, <1>2, <1>4, <1>6, <1>7 DEF Left, Parts

\* One tick of the video timer, where the sends of U fail.
LEMMA VideoSent ==
    ASSUME NEW p, NEW t, NEW out, NEW misses, VideoOut(p, t, out, misses),
           NEW to, NEW found \in BOOLEAN, Stops(p, to, found), NEW U, U \subseteq Left(p, to, {})
    PROVE  VideoOut(to + 1, IF found THEN t + 1 ELSE t, out \o Stamp(Units(p, to, U), t),
                    misses \cup U)
<1> DEFINE u == Units(p, to, U)
           w == Stamp(u, t)
           o == out \o w
           L == Len(out)
           n == Len(u)
<1>1. /\ p \in Nat \ {0} /\ StartIdx <= p /\ p <= Len(NalTable) + 1 /\ Len(NalTable) \in Nat
      /\ t = PicturesBefore(p) /\ out \in Seq(Nat \X Nat) /\ L \in Nat
      /\ StartIdx \in Nat \ {0}
  BY StartFacts DEF VideoOut
<1>2. to \in Nat /\ to <= Len(NalTable) /\ p <= to + 1
  BY DEF Stops
<1>3. /\ \A x \in p .. to : PicturesBefore(x) = t
      /\ PicturesBefore(to + 1) = IF found THEN t + 1 ELSE t
      /\ t \in Nat
  BY <1>1, PicturesOn
<1>4. Fills(u, Left(p, to, U))
  BY <1>1, <1>2, UnitsFill
<1> HIDE DEF u
<1>5. u \in Seq(Nat) /\ n \in Nat /\ \A i \in 1 .. n : u[i] \in p .. to
  BY <1>4 DEF Fills, Left
<1>6. /\ w \in Seq(Nat \X Nat) /\ Len(w) = n
      /\ \A i \in 1 .. n : w[i][1] = u[i] /\ w[i][2] = t
  BY <1>3, <1>5, Stamped
<1>7. Places(o) = Places(out) \o u
  BY <1>1, <1>3, <1>5, PlacesJoined
<1> HIDE DEF w
<1>8. o \in Seq(Nat \X Nat) /\ Behind(o, out, w)
  <2> DEFINE S == Nat \X Nat
  <2>1. out \in Seq(S) /\ w \in Seq(S)
    BY <1>1, <1>6
  <2> HIDE DEF S
  <2>2. o \in Seq(S) /\ Behind(o, out, w)
    BY <2>1, Joined
  <2>3. QED
    BY <2>2 DEF S
<1> HIDE DEF o, n
<1>9. (to + 1) - 1 = to
  BY <1>2
<1>10. /\ Left(StartIdx, p - 1, misses) \cup Left(p, to, U) = Left(StartIdx, to, misses \cup U)
       /\ misses \cup U \subseteq Left(StartIdx, to, {})
       /\ \A x \in Left(StartIdx, p - 1, misses), y \in Left(p, to, U) : x < y
       /\ Left(StartIdx, p - 1, misses) \in SUBSET Nat /\ Left(p, to, U) \in SUBSET Nat
  <2>1. misses \subseteq Left(StartIdx, p - 1, {})
    BY DEF VideoOut
  <2>2. PICK s \in Nat : s = StartIdx /\ s <= p
    BY <1>1
  <2>3. p \in Nat /\ to \in Nat /\ p <= to + 1
    BY <1>1, <1>2
  <2>4. misses \subseteq Left(s, p - 1, {}) /\ U \subseteq Left(p, to, {})
    BY <2>1, <2>2
  <2>5. /\ Parts(Left(s, p - 1, misses), Left(p, to, U), Left(s, to, misses \cup U))
        /\ misses \cup U \subseteq Left(s, to, {})
    BY <2>2, <2>3, <2>4, LeftJoined
  <2>6. QED
    BY <2>2, <2>5, Zenon DEF Parts
<1>11. Fills(Places(o), Left(StartIdx, to, misses \cup U))
  <2>1. Fills(Places(out), Left(StartIdx, p - 1, misses))
    BY DEF VideoOut
  <2>2. Fills(Places(out) \o u, Left(StartIdx, p - 1, misses) \cup Left(p, to, U))
    BY <1>4, <1>10, <2>1, FillsJoined
  <2>3. QED
    BY <1>7, <1>10, <2>2
<1>12. ASSUME NEW i \in 1 .. Len(o)
       PROVE  o[i][2] = PicturesBefore(o[i][1])
  <2>1. \/ i \in 1 .. Len(out) /\ o[i] = out[i]
        \/ i - Len(out) \in 1 .. Len(w) /\ o[i] = w[i - Len(out)]
    BY <1>8, BehindPlaces
  <2>2. CASE i \in 1 .. Len(out) /\ o[i] = out[i]
    BY <2>2 DEF VideoOut
  <2>3. CASE i - Len(out) \in 1 .. Len(w) /\ o[i] = w[i - Len(out)]
    <3>1. PICK j \in 1 .. n : o[i] = w[j]
      BY <1>6, <2>3
    <3>2. o[i][1] = u[j] /\ o[i][2] = t /\ u[j] \in p .. to
      BY <1>5, <1>6, <3>1 DEF n
    <3>3. QED
      BY <1>3, <3>2
  <2>4. QED
    BY <2>1, <2>2, <2>3
<1>13. to + 1 \in Nat /\ StartIdx <= to + 1 /\ to + 1 <= Len(NalTable) + 1
  BY <1>1, <1>2
<1>14. VideoOut(to + 1, IF found THEN t + 1 ELSE t, o, misses \cup U)
  BY <1>3, <1>8, <1>9, <1>10, <1>11, <1>12, <1>13 DEF VideoOut
<1>15. QED
  BY <1>14 DEF o, w, u

\* A step that leaves alone what the contexts have sent.
SentKept ==
    /\ Len(ctxs') = Len(ctxs) /\ media_audio_len' = media_audio_len
    /\ \A k \in 1 .. Len(ctxs) :
           /\ ctxs'[k].stream = ctxs[k].stream /\ ctxs'[k].pos = ctxs[k].pos
           /\ ctxs'[k].timestamp = ctxs[k].timestamp /\ ctxs'[k].out = ctxs[k].out
           /\ ctxs'[k].failed = ctxs[k].failed

\* The invariant of one context.
Media(c) == IF c.stream = "audio" THEN AudioInv(c) ELSE VideoInv(c)

LEMMA SentKeptStep ==
    ASSUME MediaInv, SentKept
    PROVE  MediaInv'
<1>1. ASSUME NEW k \in 1 .. Len(ctxs)
      PROVE  Media(ctxs[k])'
  <2> DEFINE c == ctxs[k]
             d == ctxs'[k]
  <2>1. /\ d.stream = c.stream /\ d.pos = c.pos /\ d.timestamp = c.timestamp /\ d.out = c.out
        /\ d.failed = c.failed /\ media_audio_len' = media_audio_len
    BY DEF SentKept
  <2>2. IF c.stream = "audio" THEN AudioInv(c) ELSE VideoInv(c)
    BY DEF MediaInv
  <2>3. CASE c.stream = "audio"
    <3>1. AudioInv(c)
      BY <2>2, <2>3
    <3>2. AudioInv(c)'
      BY <2>1, <3>1 DEF AudioInv, Rest
    <3>3. QED
      BY <2>1, <2>3, <3>2 DEF Media
  <2>4. CASE c.stream # "audio"
    <3>1. VideoInv(c)
      BY <2>2, <2>4
    <3>2. VideoInv(c)'
      BY <2>1, <3>1 DEF VideoInv
    <3>3. QED
      BY <2>1, <2>4, <3>2 DEF Media
  <2>5. QED
    BY <2>3, <2>4
<1>2. QED
  BY <1>1 DEF MediaInv, SentKept, Media

LEMMA SentSame ==
    ASSUME UNCHANGED <<ctxs, media_audio_len>>
    PROVE  SentKept
BY DEF SentKept

LEMMA StopTimersSent ==
    ASSUME SessInv, NEW M, StopTimers(M), media_audio_len' = media_audio_len
    PROVE  SentKept
<1> DEFINE stop(k) == \E s \in M : streams[s].ctx = k
<1>1. ctxs' = [k \in DOMAIN ctxs |->
                  IF stop(k) THEN [ctxs[k] EXCEPT !.armed = FALSE] ELSE ctxs[k]]
  BY DEF StopTimers
<1> HIDE DEF stop
<1>2. IsList(ctxs) /\ Len(ctxs) \in Nat /\ DOMAIN ctxs = 1 .. Len(ctxs)
  BY ListFacts DEF SessInv, SessTypes
<1>3. Len(ctxs') = Len(ctxs)
  <2>1. DOMAIN ctxs' = 1 .. Len(ctxs) /\ ctxs' = [k \in 1 .. Len(ctxs) |-> ctxs'[k]]
    BY <1>1, <1>2
  <2>2. QED
    BY <1>2, <2>1, FunctionIsList
<1>4. ASSUME NEW k \in 1 .. Len(ctxs)
      PROVE  /\ ctxs'[k].stream = ctxs[k].stream /\ ctxs'[k].pos = ctxs[k].pos
             /\ ctxs'[k].timestamp = ctxs[k].timestamp /\ ctxs'[k].out = ctxs[k].out
             /\ ctxs'[k].failed = ctxs[k].failed
  <2>1. ctxs[k] \in Ctx(ctxs[k])
    BY DEF SessInv, SessTypes
  <2>2. ctxs'[k] = IF stop(k) THEN [ctxs[k] EXCEPT !.armed = FALSE] ELSE ctxs[k]
    BY <1>1, <1>2
  <2>3. QED
    BY <2>1, <2>2 DEF Ctx
<1>5. QED
  BY <1>3, <1>4 DEF SentKept

LEMMA DropSent ==
    ASSUME SessInv, Drop, media_audio_len' = media_audio_len
    PROVE  SentKept
<1> DEFINE held == {streams[s].ctx : s \in Streams}
           free(x, yes) == IF yes THEN [x EXCEPT !.freed = @ + 1] ELSE x
<1>1. /\ ctxs' = [k \in DOMAIN ctxs |->
                     free([ctxs[k] EXCEPT !.armed = @ /\ k \notin held], k \in held)]
      /\ media_audio_len' = media_audio_len
  BY DEF Drop
<1> HIDE DEF held
<1>2. IsList(ctxs) /\ Len(ctxs) \in Nat /\ DOMAIN ctxs = 1 .. Len(ctxs)
  BY ListFacts DEF SessInv, SessTypes
<1>3. Len(ctxs') = Len(ctxs)
  <2>1. DOMAIN ctxs' = 1 .. Len(ctxs) /\ ctxs' = [k \in 1 .. Len(ctxs) |-> ctxs'[k]]
    BY <1>1, <1>2
  <2>2. QED
    BY <1>2, <2>1, FunctionIsList
<1>4. ASSUME NEW k \in 1 .. Len(ctxs)
      PROVE  /\ ctxs'[k].stream = ctxs[k].stream /\ ctxs'[k].pos = ctxs[k].pos
             /\ ctxs'[k].timestamp = ctxs[k].timestamp /\ ctxs'[k].out = ctxs[k].out
             /\ ctxs'[k].failed = ctxs[k].failed
  <2> DEFINE c == ctxs[k]
             d == [c EXCEPT !.armed = @ /\ k \notin held]
  <2>1. c \in Ctx(c)
    BY DEF SessInv, SessTypes
  <2>2. ctxs'[k] = IF k \in held THEN [d EXCEPT !.freed = @ + 1] ELSE d
    BY <1>1, <1>2
  <2>3. /\ d.stream = c.stream /\ d.pos = c.pos /\ d.timestamp = c.timestamp /\ d.out = c.out
        /\ d.failed = c.failed /\ DOMAIN d = DOMAIN c
    BY <2>1 DEF Ctx
  <2>4. DOMAIN c = {"stream", "rtp", "armed", "freed", "pos", "timestamp", "out", "failed"}
    BY <2>1 DEF Ctx
  <2> HIDE DEF d
  <2>5. [d EXCEPT !.freed = @ + 1].stream = d.stream /\ [d EXCEPT !.freed = @ + 1].pos = d.pos
        /\ [d EXCEPT !.freed = @ + 1].timestamp = d.timestamp /\ [d EXCEPT !.freed = @ + 1].out = d.out
        /\ [d EXCEPT !.freed = @ + 1].failed = d.failed
    BY <2>3, <2>4
  <2>6. QED
    BY <2>2, <2>3, <2>5
<1>5. QED
  BY <1>1, <1>3, <1>4 DEF SentKept

\* A context that play_audio or play_video has made.
LEMMA NewMedia ==
    ASSUME NEW s \in Streams
    PROVE  Media(NewCtx(s))
<1> DEFINE c == NewCtx(s)
<1>1. /\ c.stream = s /\ c.timestamp = 0 /\ c.out = <<>> /\ c.failed = {}
      /\ c.pos = IF s = "audio" THEN 0 ELSE StartIdx
  BY DEF NewCtx
<1> HIDE DEF c
<1>2. CASE s = "audio"
  <2>1. c.pos = 0 /\ c.out = <<>> /\ c.failed = {}
    BY <1>1, <1>2
  <2>2. 0 .. 0 - 1 = {} /\ Places(<<>>) = <<>> /\ Fills(<<>>, {})
    BY DEF Places, Fills
  <2>3. AudioInv(c)
    BY <2>1, <2>2 DEF AudioInv
  <2>4. QED
    BY <1>1, <1>2, <2>3 DEF Media, c
<1>3. CASE s # "audio"
  <2>1. StartIdx \in Nat \ {0} /\ StartIdx <= Len(NalTable) + 1
    BY StartFacts
  <2>2. Places(<<>>) = <<>> /\ Fills(<<>>, {})
    BY DEF Places, Fills
  <2>3. StartIdx .. StartIdx - 1 = {}
    BY <2>1
  <2>4. Left(StartIdx, StartIdx - 1, {}) = {}
    BY <2>3 DEF Left
  <2>5. PicturesBefore(StartIdx) = 0
    <3>1. {i \in StartIdx .. StartIdx - 1 : NalTable[i] = "vcl"} = {}
      BY <2>3
    <3>2. QED
      BY <3>1, FS_EmptySet DEF PicturesBefore
  <2>6. VideoOut(StartIdx, 0, <<>>, {})
    <3>1. <<>> \in Seq(Nat \X Nat) /\ 1 .. Len(<<>>) = {}
      OBVIOUS
    <3>2. StartIdx \in Nat /\ StartIdx <= StartIdx /\ \A i \in 1 .. Len(<<>>) : FALSE
      BY <2>1, <3>1
    <3>3. QED
      BY <2>1, <2>2, <2>4, <2>5, <3>1, <3>2 DEF VideoOut
  <2>7. QED
    BY <1>1, <1>3, <2>6 DEF Media, VideoInv, c
<1>4. QED
  BY <1>2, <1>3

LEMMA PlaySent ==
    ASSUME SessInv, MediaInv, NEW id, Play(id), media_audio_len' = media_audio_len
    PROVE  MediaInv'
<1> DEFINE M == Members(id)
           o == InOrder(M)
           new == [i \in 1 .. Len(o) |-> NewCtx(o[i])]
<1>1. CASE Answers(No)
  BY <1>1, SentSame, SentKeptStep DEF Answers, session, media
<1>2. CASE Crash
  BY <1>2, SentSame, SentKeptStep DEF Crash, session, media
<1>3. CASE ctxs' = ctxs \o new
  <2>1. M \in SUBSET Streams
    BY DEF Members
  <2>2. o \in Seq(Streams) /\ Len(o) \in Nat /\ \A i \in 1 .. Len(o) : o[i] \in Streams
    BY <2>1, InOrderLists DEF Lists
  <2> HIDE DEF o
  <2>3. /\ IsList(ctxs) /\ Len(ctxs) \in Nat /\ IsList(new) /\ Len(new) = Len(o)
        /\ \A i \in 1 .. Len(o) : new[i] = NewCtx(o[i])
    <3>1. DOMAIN new = 1 .. Len(o) /\ new = [i \in 1 .. Len(o) |-> new[i]]
      OBVIOUS
    <3>2. IsList(new) /\ Len(new) = Len(o)
      BY <2>2, <3>1, FunctionIsList
    <3>3. QED
      BY <3>2, ListFacts DEF SessInv, SessTypes
  <2> HIDE DEF new
  <2>4. /\ Len(ctxs') = Len(ctxs) + Len(o)
        /\ \A k \in 1 .. Len(ctxs) : ctxs'[k] = ctxs[k]
        /\ \A i \in 1 .. Len(o) : ctxs'[Len(ctxs) + i] = NewCtx(o[i])
    <3>1. /\ Len(ctxs \o new) = Len(ctxs) + Len(new)
          /\ \A k \in 1 .. Len(ctxs) : (ctxs \o new)[k] = ctxs[k]
          /\ \A k \in 1 .. Len(new) : (ctxs \o new)[Len(ctxs) + k] = new[k]
      BY <2>3, ListsConcat
    <3>2. /\ Len(ctxs') = Len(ctxs) + Len(new)
          /\ \A k \in 1 .. Len(ctxs) : ctxs'[k] = ctxs[k]
          /\ \A k \in 1 .. Len(new) : ctxs'[Len(ctxs) + k] = new[k]
      BY <1>3, <3>1
    <3>3. QED
      BY <2>3, <3>2
  <2>5. ASSUME NEW k \in 1 .. Len(ctxs')
        PROVE  Media(ctxs[k])'
    <3>1. CASE k \in 1 .. Len(ctxs)
      <4>1. ctxs'[k] = ctxs[k] /\ media_audio_len' = media_audio_len
        BY <2>4, <3>1
      <4>2. Media(ctxs[k])
        BY <3>1 DEF MediaInv, Media
      <4>3. QED
        BY <4>1, <4>2 DEF Media, AudioInv, Rest, VideoInv
    <3>2. CASE k \notin 1 .. Len(ctxs)
      <4> DEFINE i == k - Len(ctxs)
      <4>1. i \in 1 .. Len(o) /\ Len(ctxs) + i = k
        BY <2>2, <2>3, <2>4, <3>2
      <4>2. PICK s \in Streams : s = o[i]
        BY <2>2, <4>1
      <4> HIDE DEF i
      <4>3. ctxs'[k] = NewCtx(s)
        BY <2>4, <4>1, <4>2
      <4>4. PICK c : c = NewCtx(s)
        OBVIOUS
      <4>5. Media(c)
        BY <4>4, NewMedia
      <4>6. Media(c)'
        BY <4>5 DEF Media, AudioInv, Rest, VideoInv
      <4>7. QED
        BY <4>3, <4>4, <4>6
    <3>3. QED
      BY <3>1, <3>2
  <2>6. QED
    BY <2>5 DEF MediaInv, Media
<1>4. QED
  BY <1>1, <1>2, <1>3 DEF Play

\* One context goes from c to d.
LEMMA OneMedia ==
    ASSUME SessInv, MediaInv, NEW k \in DOMAIN ctxs, NEW d, Media(d),
           ctxs' = [ctxs EXCEPT ![k] = d], media_audio_len' = media_audio_len
    PROVE  MediaInv'
<1>1. IsList(ctxs) /\ Len(ctxs) \in Nat /\ DOMAIN ctxs = 1 .. Len(ctxs)
  BY ListFacts DEF SessInv, SessTypes
<1>2. Len(ctxs') = Len(ctxs)
  <2>1. DOMAIN ctxs' = 1 .. Len(ctxs) /\ ctxs' = [m \in 1 .. Len(ctxs) |-> ctxs'[m]]
    BY <1>1
  <2>2. QED
    BY <1>1, <2>1, FunctionIsList
<1>3. ASSUME NEW m \in 1 .. Len(ctxs)
      PROVE  Media(ctxs[m])'
  <2>1. PICK e : e = ctxs'[m]
    OBVIOUS
  <2>2. e = IF m = k THEN d ELSE ctxs[m]
    BY <1>1, <2>1
  <2>3. Media(ctxs[m])
    BY DEF MediaInv, Media
  <2>4. Media(e)
    BY <2>2, <2>3
  <2>5. Media(e)'
    BY <2>4 DEF Media, AudioInv, Rest, VideoInv
  <2>6. QED
    BY <2>1, <2>5
<1>4. QED
  BY <1>2, <1>3 DEF MediaInv, Media

LEMMA TickSent ==
    ASSUME SessInv, MediaInv, NEW k, Tick(k)
    PROVE  MediaInv'
<1> DEFINE c == ctxs[k]
<1>1. /\ k \in DOMAIN ctxs /\ DOMAIN ctxs = 1 .. Len(ctxs)
      /\ c \in Ctx(c) /\ media_audio_len' = media_audio_len
  BY ListFacts DEF SessInv, SessTypes, Tick
<1>2. Media(c) /\ media_audio_len \in Nat
  BY <1>1, SessionAssumption DEF MediaInv, Media
<1>3. CASE AudioTick(k)
  <2> DEFINE from == c.pos * PerPacket
             p == c.pos + 1
             o == Append(c.out, <<c.pos, Samples(from)>>)
             f == c.failed \cup {c.pos}
  <2>0. c.stream = "audio" /\ AudioInv(c)
    BY <1>2, <1>3 DEF AudioTick, Media
  <2>1. CASE from >= media_audio_len /\ Finish(k)
    <3> DEFINE d == [c EXCEPT !.armed = FALSE]
    <3>1. ctxs' = [ctxs EXCEPT ![k] = d]
      BY <2>1 DEF Finish
    <3>2. /\ d.stream = c.stream /\ d.pos = c.pos /\ d.timestamp = c.timestamp /\ d.out = c.out
          /\ d.failed = c.failed
      BY <1>1 DEF Ctx
    <3> HIDE DEF d
    <3>3. Media(d)
      BY <2>0, <3>2 DEF Media, AudioInv
    <3>4. QED
      BY <1>1, <3>1, <3>3, OneMedia
  <2>2. CASE UNCHANGED media
    BY <1>1, <2>2, SentSame, SentKeptStep DEF media
  <2>3. ASSUME ~(from >= media_audio_len), NEW d, d.stream = "audio", d.pos = p,
               (d.out = o /\ d.failed = c.failed) \/ (d.out = c.out /\ d.failed = f),
               ctxs' = [ctxs EXCEPT ![k] = d]
        PROVE  MediaInv'
    <3>1. from < media_audio_len
      <4>1. c.pos \in Nat
        BY <2>0 DEF AudioInv
      <4>2. from \in Nat
        BY <4>1, SessionAssumption, Product
      <4> HIDE DEF from
      <4>3. QED
        BY <1>2, <2>3, <4>2
    <3>2. AudioInv(d)
      BY <1>2, <2>0, <2>3, <3>1, AudioSent
    <3>3. Media(d)
      BY <2>3, <3>2 DEF Media
    <3>4. QED
      BY <1>1, <2>3, <3>3, OneMedia
  <2>4. CASE ~(from >= media_audio_len)
             /\ ctxs' = [ctxs EXCEPT ![k].pos = @ + 1, ![k].out = Append(@, <<c.pos, Samples(from)>>)]
    <3> DEFINE d == [c EXCEPT !.pos = p, !.out = o]
    <3>1. ctxs' = [ctxs EXCEPT ![k] = d]
      BY <1>1, <2>4 DEF Ctx
    <3>2. d.stream = c.stream /\ d.pos = p /\ d.out = o /\ d.failed = c.failed
      BY <1>1 DEF Ctx
    <3> HIDE DEF d, p, o, f, from
    <3>3. QED
      BY <2>0, <2>3, <2>4, <3>1, <3>2
  <2>5. CASE ~(from >= media_audio_len)
             /\ ctxs' = [ctxs EXCEPT ![k].pos = @ + 1, ![k].failed = @ \cup {c.pos}]
    <3> DEFINE d == [c EXCEPT !.pos = p, !.failed = f]
    <3>1. ctxs' = [ctxs EXCEPT ![k] = d]
      BY <1>1, <2>5 DEF Ctx
    <3>2. d.stream = c.stream /\ d.pos = p /\ d.out = c.out /\ d.failed = f
      BY <1>1 DEF Ctx
    <3> HIDE DEF d, p, o, f, from
    <3>3. QED
      BY <2>0, <2>3, <2>5, <3>1, <3>2
  <2>6. QED
    BY <1>3, <2>1, <2>2, <2>4, <2>5 DEF AudioTick
<1>4. CASE VideoTick(k)
  <2> DEFINE pictures == {i \in c.pos .. Len(NalTable) : NalTable[i] = "vcl"}
             to == IF pictures = {} THEN Len(NalTable) ELSE Min(pictures)
             p == to + 1
             x == IF pictures = {} THEN c.timestamp ELSE c.timestamp + 1
             a == to < Len(NalTable)
  <2>1. PICK U \in SUBSET {i \in c.pos .. to : NalTable[i] # "aud"} :
            ctxs' = [ctxs EXCEPT ![k].pos = p, ![k].timestamp = x,
                                 ![k].out = c.out \o Stamp(Units(c.pos, to, U), c.timestamp),
                                 ![k].failed = c.failed \cup U, ![k].armed = a]
    BY <1>4, Zenon DEF VideoTick
  <2> DEFINE o == c.out \o Stamp(Units(c.pos, to, U), c.timestamp)
             f == c.failed \cup U
             d == [c EXCEPT !.pos = p, !.timestamp = x, !.out = o, !.failed = f, !.armed = a]
  <2>2. c.stream # "audio"
    BY <1>4 DEF VideoTick
  <2>3. VideoOut(c.pos, c.timestamp, c.out, c.failed)
    BY <1>2, <2>2 DEF Media, VideoInv
  <2>4. Stops(c.pos, to, pictures # {})
    <3>1. c.pos \in Nat \ {0} /\ c.pos <= Len(NalTable) + 1
      BY <2>3, StartFacts DEF VideoOut
    <3>2. QED
      BY <3>1, NextPicture
  <2>5. U \subseteq Left(c.pos, to, {})
    BY <2>1, Zenon DEF Left
  <2> DEFINE found == pictures # {}
             y == IF found THEN c.timestamp + 1 ELSE c.timestamp
  <2>6. x = y /\ found \in BOOLEAN
    OBVIOUS
  <2> HIDE DEF pictures, to
  <2>7. VideoOut(to + 1, y, o, f)
    <3>1. Stops(c.pos, to, found)
      BY <2>4
    <3> HIDE DEF found
    <3>2. QED
      BY <2>3, <2>5, <2>6, <3>1, VideoSent
  <2>8. VideoOut(p, x, o, f)
    BY <2>6, <2>7
  <2> HIDE DEF p, x, o, f, a
  <2>9. ctxs' = [ctxs EXCEPT ![k].pos = p, ![k].timestamp = x, ![k].out = o, ![k].failed = f,
                             ![k].armed = a]
    BY <2>1 DEF o, f
  <2>10. ctxs' = [ctxs EXCEPT ![k] = d]
    BY <1>1, <2>9 DEF Ctx
  <2>11. d.stream = c.stream /\ d.pos = p /\ d.timestamp = x /\ d.out = o /\ d.failed = f
    BY <1>1 DEF Ctx
  <2> HIDE DEF d
  <2>12. Media(d)
    BY <2>2, <2>8, <2>11 DEF Media, VideoInv
  <2>13. QED
    BY <1>1, <2>10, <2>12, OneMedia
<1>5. QED
  BY <1>3, <1>4 DEF Tick

LEMMA MediaStep ==
    ASSUME SessInv, MediaInv, [Next]_vars
    PROVE  MediaInv'
<1>1. CASE Accept
  BY <1>1, SentSame, SentKeptStep DEF Accept, session, media
<1>2. CASE Request
  <2>1. media_audio_len' = media_audio_len
    BY <1>2 DEF Request
  <2>2. ASSUME NEW code, Answers(code)
        PROVE  MediaInv'
    BY <2>1, <2>2, SentSame, SentKeptStep DEF Answers, session, media
  <2>3. CASE Unauthorized \/ Options \/ Describe \/ Pause \/ Unknown \/ BadSession
    BY <2>2, <2>3 DEF Unauthorized, Options, Describe, Pause, Unknown, BadSession
  <2>4. ASSUME NEW s, NEW header, NEW id, Setup(s, header, id)
        PROVE  MediaInv'
    <3>1. UNCHANGED ctxs
      BY <2>4 DEF Setup, RefuseSetup, media
    <3>2. QED
      BY <2>1, <3>1, SentSame, SentKeptStep
  <2>5. ASSUME NEW id, Play(id)
        PROVE  MediaInv'
    BY <2>1, <2>5, PlaySent
  <2>6. ASSUME NEW id, Teardown(id)
        PROVE  MediaInv'
    <3>1. CASE Answers(No)
      BY <2>2, <3>1
    <3>2. CASE Crash
      BY <2>1, <3>2, SentSame, SentKeptStep DEF Crash, session, media
    <3>3. CASE StopTimers(Members(id))
      BY <2>1, <3>3, StopTimersSent, SentKeptStep
    <3>4. QED
      BY <2>6, <3>1, <3>2, <3>3 DEF Teardown
  <2>7. QED
    BY <1>2, <2>3, <2>4, <2>5, <2>6 DEF Request
<1>3. ASSUME NEW k, Tick(k)
      PROVE  MediaInv'
  BY <1>3, TickSent
<1>4. CASE Disconnect
  <2>1. media_audio_len' = media_audio_len /\ (Crash \/ Drop)
    BY <1>4 DEF Disconnect
  <2>2. CASE Crash
    BY <2>1, <2>2, SentSame, SentKeptStep DEF Crash, session, media
  <2>3. QED
    BY <2>1, <2>2, DropSent, SentKeptStep
<1>5. CASE UNCHANGED vars
  BY <1>5, SentSame, SentKeptStep DEF vars, session, media
<1>6. QED
  BY <1>1, <1>2, <1>3, <1>4, <1>5 DEF Next

\* A list of places is complete.
LEMMA FillsComplete ==
    ASSUME NEW out \in Seq(Nat \X Nat), NEW S, NEW F, F \subseteq S, Fills(Places(out), S \ F)
    PROVE  Complete(out, S, F)
<1> DEFINE v == Places(out)
<1>1. /\ Len(out) \in Nat /\ DOMAIN out = 1 .. Len(out) /\ Len(v) = Len(out)
      /\ \A i \in 1 .. Len(out) : v[i] = out[i][1]
  BY PlacesAre
<1> HIDE DEF v
<1>2. /\ \A i \in 1 .. Len(v) : v[i] \in S \ F
      /\ \A i, j \in 1 .. Len(v) : i < j => v[i] < v[j]
      /\ \A x \in S \ F : \E i \in 1 .. Len(v) : v[i] = x
  BY DEF Fills, v
<1>3. {out[i][1] : i \in DOMAIN out} = S \ F
  <2>1. \A i \in DOMAIN out : out[i][1] \in S \ F
    BY <1>1, <1>2
  <2>2. \A x \in S \ F : \E i \in DOMAIN out : out[i][1] = x
    BY <1>1, <1>2
  <2>3. QED
    BY <2>1, <2>2, Zenon
<1>4. ASSUME NEW i \in 1 .. Len(out) - 1
      PROVE  out[i][1] < out[i + 1][1]
  <2>1. i \in 1 .. Len(out) /\ i + 1 \in 1 .. Len(out) /\ i < i + 1
    BY <1>1
  <2>2. v[i] < v[i + 1]
    BY <1>1, <1>2, <2>1
  <2>3. QED
    BY <1>1, <2>1, <2>2
<1>5. QED
  BY <1>3, <1>4 DEF Complete

\* What one context has sent is whole.
LEMMA AudioIsWhole ==
    ASSUME NEW c, AudioInv(c), media_audio_len \in Nat \ {0}
    PROVE  AudioWhole(c)
<1> DEFINE len == media_audio_len
<1>1. /\ c.pos \in Nat /\ c.out \in Seq(Nat \X Nat) /\ DOMAIN c.out = 1 .. Len(c.out)
      /\ c.failed \subseteq 0 .. c.pos - 1
      /\ Fills(Places(c.out), (0 .. c.pos - 1) \ c.failed)
      /\ \A n \in 0 .. c.pos - 1 : n * PerPacket < len
      /\ \A i \in 1 .. Len(c.out) : c.out[i][2] = Rest(c.out[i][1])
  BY DEF AudioInv
<1>2. Complete(c.out, 0 .. c.pos - 1, c.failed)
  <2> DEFINE S == 0 .. c.pos - 1
  <2> HIDE DEF S
  <2>1. c.failed \subseteq S /\ Fills(Places(c.out), S \ c.failed)
    BY <1>1 DEF S
  <2>2. Complete(c.out, S, c.failed)
    BY <1>1, <2>1, FillsComplete
  <2>3. QED
    BY <2>2 DEF S
<1>3. ASSUME NEW n \in Nat, n * PerPacket < len
      PROVE  Rest(n) = Min({PerPacket, len - n * PerPacket})
  <2> DEFINE a == n * PerPacket
             T == {PerPacket, len - a}
  <2>1. PerPacket \in Nat /\ a \in Nat /\ (n + 1) * PerPacket = a + PerPacket
    BY SessionAssumption
  <2>2. Rest(n) = IF len < a + PerPacket THEN len - a ELSE PerPacket
    BY <2>1 DEF Rest
  <2>3. a < len
    BY <1>3
  <2> HIDE DEF a
  <2>4. T \in SUBSET Nat /\ T # {}
    BY <2>1, <2>3
  <2>5. Min(T) \in T /\ \A y \in T : Min(T) <= y
    BY <2>4, LeastOf
  <2> DEFINE m == Min(T)
  <2>6. (m = PerPacket \/ m = len - a) /\ m <= PerPacket /\ m <= len - a
    BY <2>5
  <2> HIDE DEF m
  <2>7. Rest(n) = m
    BY <2>1, <2>2, <2>3, <2>6
  <2>8. QED
    BY <2>7 DEF m, a
<1>4. ASSUME NEW i \in 1 .. Len(c.out)
      PROVE  c.out[i][2] = Min({PerPacket, len - c.out[i][1] * PerPacket})
  <2> DEFINE n == c.out[i][1]
  <2>1. n \in 0 .. c.pos - 1
    BY <1>1, <1>2 DEF Complete
  <2>2. n \in Nat /\ n * PerPacket < len
    BY <1>1, <2>1
  <2> HIDE DEF n
  <2>3. c.out[i][2] = Rest(n)
    BY <1>1 DEF n
  <2>4. QED
    BY <1>3, <2>2, <2>3 DEF n
<1>5. QED
  BY <1>1, <1>2, <1>4 DEF AudioWhole

LEMMA VideoIsWhole ==
    ASSUME NEW c, VideoInv(c)
    PROVE  VideoWhole(c)
<1> DEFINE S == {i \in DOMAIN NalTable : StartIdx <= i /\ i < c.pos /\ NalTable[i] # "aud"}
<1>1. /\ c.pos \in Nat /\ StartIdx <= c.pos /\ c.pos <= Len(NalTable) + 1
      /\ c.out \in Seq(Nat \X Nat) /\ DOMAIN c.out = 1 .. Len(c.out)
      /\ c.failed \subseteq Left(StartIdx, c.pos - 1, {})
      /\ Fills(Places(c.out), Left(StartIdx, c.pos - 1, c.failed))
      /\ \A i \in 1 .. Len(c.out) : c.out[i][2] = PicturesBefore(c.out[i][1])
  BY DEF VideoInv, VideoOut
<1>2. StartIdx \in Nat \ {0} /\ DOMAIN NalTable = 1 .. Len(NalTable) /\ Len(NalTable) \in Nat
  BY StartFacts, SessionAssumption
<1>3. \A x : x \in StartIdx .. c.pos - 1 <=> x \in DOMAIN NalTable /\ StartIdx <= x /\ x < c.pos
  BY <1>1, <1>2
<1>4. Left(StartIdx, c.pos - 1, {}) = S
  BY <1>3, Zenon DEF Left
<1>5. Left(StartIdx, c.pos - 1, c.failed) = S \ c.failed
  BY <1>3, Zenon DEF Left
<1> HIDE DEF S
<1>6. Complete(c.out, S, c.failed)
  BY <1>1, <1>4, <1>5, FillsComplete
<1>7. QED
  BY <1>1, <1>6 DEF VideoWhole, S

\* Whatever the client does and whichever sends fail, each playing stream sends
\* every packet of its file once and in order but those whose own send failed, with
\* the samples or the timestamp of its place, for every file, packet size and
\* table of units.
THEOREM SessionMediaWhole == Spec => []MediaWhole
<1>1. Init => MediaInv
  <2>1. ctxs = <<>> => 1 .. Len(ctxs) = {}
    OBVIOUS
  <2>2. QED
    BY <2>1 DEF Init, MediaInv
<1>2. SessInv /\ MediaInv /\ [Next]_vars => MediaInv'
  BY MediaStep
<1>3. SessInv /\ MediaInv => MediaWhole
  <2> SUFFICES ASSUME SessInv, MediaInv, NEW k \in DOMAIN ctxs
               PROVE  IF ctxs[k].stream = "audio" THEN AudioWhole(ctxs[k]) ELSE VideoWhole(ctxs[k])
    BY DEF MediaWhole
  <2>1. k \in 1 .. Len(ctxs)
    BY ListFacts DEF SessInv, SessTypes
  <2>2. media_audio_len \in Nat \ {0}
    BY SessionAssumption DEF MediaInv
  <2>3. QED
    BY <2>1, <2>2, AudioIsWhole, VideoIsWhole DEF MediaInv
<1>4. QED
  BY <1>1, <1>2, <1>3, SessInvariant, PTL DEF Spec

-----------------------------------------------------------------------------
(* Auth: who is let in.                                                    *)

Asked == [kind : {"plain", "unfit", "digest"}, nonce : Nonces \cup {None},
          maker : Clients \cup {None}, made : Methods \cup {None}, method : Methods \cup {None}]
Grants == [maker : Clients \cup {None}, last : Clients \cup {None}, failed : BOOLEAN]
Refusals == [kind : {"plain", "unfit", "digest"}, last : Clients \cup {None}]

AuthTypes ==
    /\ nonce \in Nonces
    /\ failed \in BOOLEAN
    /\ known \in [Clients -> Nonces \cup {None}]
    /\ request \in [Clients -> Asked \cup {None}]
    /\ heard \subseteq Asked
    /\ granted \in [Clients -> Grants \cup {None}]
    /\ refused \in [Clients -> Refusals \cup {None}]
    /\ last \in Clients \cup {None}

\* A client that knows the password sends its own answers, for the method of the
\* request they come with.
Honest ==
    \A c \in Right : request[c] # None /\ request[c].kind = "digest" =>
        request[c].maker = c /\ request[c].made = request[c].method

\* Nobody else holds the nonce or an answer over it, unless it could not be
\* replaced.
Exclusive ==
    ~failed => /\ \A c \in Clients : known[c] = nonce => c = last
               /\ \A c \in Clients : request[c] # None /\ request[c].nonce = nonce =>
                      request[c].maker = last
               /\ \A d \in heard : d.nonce = nonce => d.maker = last

\* Answers over other nonces are forgotten.
HeardNow == \A d \in heard : d.nonce = nonce

\* Whose answers have let somebody in.
Deserved ==
    \A c \in Clients : granted[c] # None =>
        /\ granted[c].maker \in Right
        /\ granted[c].failed \/ granted[c].maker = granted[c].last

\* The client that was challenged last was told the nonce in force, and what it
\* answers, if it has the password, is an answer to it.
Informed ==
    last # None =>
        /\ known[last] = nonce
        /\ last \in Right /\ request[last] # None /\ request[last].kind = "digest" =>
               request[last].nonce = nonce

\* The inductive invariant.  What a grant rests on is what Exclusive says of the
\* requests, and RefusedOnlyIfOvertaken needs Honest and Informed.
AuthInv ==
    /\ AuthTypes /\ Honest /\ Exclusive /\ HeardNow /\ Deserved /\ Informed
    /\ RefusedOnlyIfOvertaken

LEMMA AuthInvInit == AuthInit => AuthInv
<1> SUFFICES ASSUME AuthInit PROVE AuthInv
  OBVIOUS
<1>1. None \notin Nonces
  BY AuthAssumption
<1>2. AuthTypes
  BY DEF AuthInit, AuthTypes
<1>3. Honest /\ HeardNow /\ Deserved /\ Informed /\ RefusedOnlyIfOvertaken
  BY AuthAssumption DEF AuthInit, Honest, HeardNow, Deserved, Informed, RefusedOnlyIfOvertaken
<1>4. Exclusive
  BY <1>1 DEF AuthInit, Exclusive
<1>5. QED
  BY <1>2, <1>3, <1>4 DEF AuthInv

\* What a request that a client puts on its way may be.
LEMMA RequestInv ==
    ASSUME AuthInv, NEW c \in Clients, NEW r \in Asked,
           request' = [request EXCEPT ![c] = r],
           UNCHANGED <<nonce, failed, known, granted, refused, last>>,
           c \in Right /\ r.kind = "digest" =>
               r.maker = c /\ r.made = r.method /\ r.nonce = known[c],
           r.nonce = nonce /\ ~failed => r.maker = last,
           heard' = heard \/ (r.nonce = nonce /\ heard' = heard \cup {r})
    PROVE  AuthInv'
<1>1. \A d \in Clients : request'[d] = (IF d = c THEN r ELSE request[d])
  BY DEF AuthInv, AuthTypes
<1>2. AuthTypes'
  BY DEF AuthInv, AuthTypes
<1>3. Honest'
  BY <1>1, AuthAssumption DEF AuthInv, Honest
<1>4. Exclusive'
  BY <1>1 DEF AuthInv, Exclusive
<1>5. Informed'
  BY <1>1 DEF AuthInv, AuthTypes, Informed
<1>6. HeardNow' /\ Deserved' /\ RefusedOnlyIfOvertaken'
  BY DEF AuthInv, HeardNow, Deserved, RefusedOnlyIfOvertaken
<1>7. QED
  BY <1>2, <1>3, <1>4, <1>5, <1>6 DEF AuthInv

LEMMA DigestIs ==
    ASSUME NEW n \in Nonces, NEW a \in Clients \cup {None}, NEW k \in Methods \cup {None},
           NEW m \in Methods
    PROVE  /\ Digest(n, a, k, m) \in Asked
           /\ Digest(n, a, k, m).kind = "digest" /\ Digest(n, a, k, m).nonce = n
           /\ Digest(n, a, k, m).maker = a
           /\ Digest(n, a, k, m).made = k /\ Digest(n, a, k, m).method = m
BY DEF Digest, Asked

\* A client sends what it knows.
LEMMA SendInv ==
    ASSUME AuthInv, NEW c \in Clients, Send(c)
    PROVE  AuthInv'
<1>1. UNCHANGED <<nonce, failed, known, granted, refused, last>>
  BY DEF Send
<1>2. ASSUME NEW r \in {Plain, Unfit}, request' = [request EXCEPT ![c] = r], heard' = heard
      PROVE  AuthInv'
  <2>1. r \in Asked /\ r.kind # "digest" /\ r.nonce = None
    BY DEF Plain, Unfit, Asked
  <2>2. r.nonce # nonce
    BY <2>1, AuthAssumption DEF AuthInv, AuthTypes
  <2>3. QED
    BY <1>1, <1>2, <2>1, <2>2, RequestInv
<1>3. ASSUME Answer(c) PROVE AuthInv'
  <2>1. PICK m \in Methods :
            /\ request' = [request EXCEPT ![c] = Digest(known[c], c, m, m)]
            /\ \/ heard' = heard
               \/ /\ Digest(known[c], c, m, m).nonce = nonce
                  /\ heard' = heard \cup {Digest(known[c], c, m, m)}
    BY <1>3 DEF Answer
  <2> DEFINE r == Digest(known[c], c, m, m)
  <2>2. known[c] \in Nonces
    BY <1>3 DEF Answer, AuthInv, AuthTypes
  <2>3. /\ r \in Asked /\ r.kind = "digest" /\ r.nonce = known[c]
        /\ r.maker = c /\ r.made = m /\ r.method = m
    BY <2>2, DigestIs
  <2> HIDE DEF r
  <2>4. r.nonce = nonce /\ ~failed => r.maker = last
    BY <2>3 DEF AuthInv, Exclusive
  <2>5. request' = [request EXCEPT ![c] = r] /\ (heard' = heard \/ (r.nonce = nonce /\ heard' = heard \cup {r}))
    BY <2>1 DEF r
  <2>6. QED
    BY <1>1, <2>3, <2>4, <2>5, RequestInv
<1>4. QED
  BY <1>2, <1>3 DEF Send

\* A client sends what another one has sent.
LEMMA RepeatInv ==
    ASSUME AuthInv, NEW c \in Clients, Repeat(c)
    PROVE  AuthInv'
<1>1. c \notin Right /\ UNCHANGED <<nonce, failed, known, heard, granted, refused, last>>
  BY DEF Repeat
<1>2. PICK d \in heard, m \in Methods :
          request' = [request EXCEPT ![c] = Digest(d.nonce, d.maker, d.made, m)]
  BY DEF Repeat
<1>3. /\ d.nonce \in Nonces \cup {None} /\ d.maker \in Clients \cup {None}
      /\ d.made \in Methods \cup {None}
  BY DEF AuthInv, AuthTypes, Asked
<1> DEFINE r == Digest(d.nonce, d.maker, d.made, m)
<1>4. r \in Asked /\ r.nonce = d.nonce /\ r.maker = d.maker
  BY <1>3 DEF Digest, Asked
<1> HIDE DEF r
<1>5. r.nonce = nonce /\ ~failed => r.maker = last
  BY <1>4 DEF AuthInv, Exclusive
<1>6. request' = [request EXCEPT ![c] = r]
  BY <1>2 DEF r
<1>7. QED
  BY <1>1, <1>4, <1>5, <1>6, RequestInv

\* What a step leaves alone of the requests that were waiting.
LEMMA Handled ==
    ASSUME AuthInv, NEW c \in Clients, Check(c)
    PROVE  /\ request'[c] = None
           /\ \A d \in Clients : request'[d] \in {None, request[d]}
           /\ request' \in [Clients -> Asked \cup {None}]
           /\ request[c] \in Asked /\ request[c] # None
BY DEF Check, AuthInv, AuthTypes

LEMMA GrantInv ==
    ASSUME AuthInv, NEW c \in Clients, Check(c), Check_Grant(c)
    PROVE  AuthInv'
<1> DEFINE g == [maker |-> request[c].maker, last |-> last, failed |-> failed]
<1>1. /\ request[c].nonce = nonce /\ request[c].maker \in Right
      /\ granted' = [granted EXCEPT ![c] = g]
      /\ refused' = [refused EXCEPT ![c] = None]
      /\ UNCHANGED <<nonce, failed, known, heard, last>>
  BY DEF Check_Grant, Grant, Valid
<1>2. g \in Grants
  BY Handled DEF AuthInv, AuthTypes, Asked, Grants
<1>3. AuthTypes'
  BY <1>1, <1>2, Handled DEF AuthInv, AuthTypes
<1>4. Honest'
  BY Handled, AuthAssumption DEF AuthInv, Honest
<1>5. Exclusive'
  BY <1>1, Handled DEF AuthInv, Exclusive
<1>6. Informed'
  BY <1>1, Handled DEF AuthInv, AuthTypes, Informed
<1>7. Deserved'
  <2>1. g.maker \in Right
    BY <1>1
  <2>2. g.failed \/ g.maker = g.last
    BY <1>1, Handled DEF AuthInv, AuthTypes, Exclusive
  <2> HIDE DEF g
  <2>3. \A d \in Clients : granted'[d] = (IF d = c THEN g ELSE granted[d])
    BY <1>1 DEF AuthInv, AuthTypes
  <2>4. QED
    BY <2>1, <2>2, <2>3 DEF AuthInv, Deserved
<1>8. HeardNow' /\ RefusedOnlyIfOvertaken'
  BY <1>1, AuthAssumption DEF AuthInv, AuthTypes, HeardNow, RefusedOnlyIfOvertaken
<1>9. QED
  BY <1>3, <1>4, <1>5, <1>6, <1>7, <1>8 DEF AuthInv

LEMMA ChallengeInv ==
    ASSUME AuthInv, NEW c \in Clients, Check(c), Check_Challenge(c)
    PROVE  AuthInv'
<1> DEFINE refusal == [kind |-> request[c].kind, last |-> last]
<1>1. /\ ~Valid(request[c])
      /\ known' = [known EXCEPT ![c] = nonce']
      /\ refused' = [refused EXCEPT ![c] = refusal]
      /\ last' = c
      /\ UNCHANGED granted
  BY DEF Check_Challenge, Told
<1>2. \/ nonce' \in Nonces \ Remembered /\ failed' = failed
      \/ failed' = TRUE /\ nonce' = nonce
  BY DEF Check_Challenge, GenerateNonce
<1>3. nonce' \in Nonces /\ failed' \in BOOLEAN
  BY <1>2 DEF AuthInv, AuthTypes
<1>4. refusal \in Refusals
  BY Handled DEF AuthInv, AuthTypes, Refusals, Asked
<1>h. heard' \subseteq heard /\ \A d \in heard' : d.nonce = nonce'
  BY DEF Check_Challenge, Forget
<1>5. AuthTypes'
  <2>1. refused' \in [Clients -> Refusals \cup {None}]
    BY <1>1, <1>4 DEF AuthInv, AuthTypes
  <2>2. known' \in [Clients -> Nonces \cup {None}]
    BY <1>1, <1>3 DEF AuthInv, AuthTypes
  <2>3. QED
    BY <1>1, <1>3, <1>h, <2>1, <2>2, Handled DEF AuthInv, AuthTypes
<1>6. Honest'
  BY Handled, AuthAssumption DEF AuthInv, Honest
<1>7. Exclusive'
  <2> SUFFICES ASSUME failed' = FALSE
               PROVE  /\ \A d \in Clients : d # c => known'[d] # nonce'
                      /\ \A d \in Clients : request'[d] # None => request'[d].nonce # nonce'
                      /\ heard' = {}
    BY <1>1, <1>3 DEF Exclusive
  <2>1. nonce' \notin Remembered /\ failed = FALSE
    BY <1>2
  <2>2. ASSUME NEW d \in Clients, d # c PROVE known'[d] # nonce'
    BY <1>1, <2>1, <2>2 DEF AuthInv, AuthTypes, Remembered
  <2>3. ASSUME NEW d \in Clients, request'[d] # None PROVE request'[d].nonce # nonce'
    BY <2>1, <2>3, Handled DEF Remembered
  <2>4. heard' = {}
    <3>1. \A d \in heard : d.nonce \in Remembered
      BY DEF AuthInv, HeardNow, Remembered
    <3>2. QED
      BY <1>h, <2>1, <3>1
  <2>5. QED
    BY <2>2, <2>3, <2>4
<1>8. Informed'
  BY <1>1, Handled DEF AuthInv, AuthTypes, Informed
<1>9. HeardNow' /\ Deserved'
  BY <1>1, <1>h DEF AuthInv, HeardNow, Deserved
<1>10. RefusedOnlyIfOvertaken'
  <2> SUFFICES ASSUME NEW d \in Right, refused'[d] # None, refused'[d].kind = "digest"
               PROVE  refused'[d].last # d
    BY DEF RefusedOnlyIfOvertaken
  <2>1. CASE d # c
    BY <1>1, <2>1, AuthAssumption DEF AuthInv, AuthTypes, RefusedOnlyIfOvertaken
  <2>2. CASE d = c
    <3>1. refused'[c] = refusal
      BY <1>1 DEF AuthInv, AuthTypes
    <3>2. /\ request[c] # None /\ request[c].kind = "digest"
          /\ request[c].maker = c /\ request[c].made = request[c].method
      BY <2>2, <3>1, Handled DEF AuthInv, Honest
    <3>3. request[c].nonce # nonce
      BY <1>1, <2>2, <3>2 DEF Valid
    <3>4. last # c
      BY <2>2, <3>2, <3>3, AuthAssumption DEF AuthInv, Informed
    <3>5. QED
      BY <2>2, <3>1, <3>4
  <2>3. QED
    BY <2>1, <2>2
<1>11. QED
  BY <1>5, <1>6, <1>7, <1>8, <1>9, <1>10 DEF AuthInv

LEMMA AuthInvariant == AuthSpec => []AuthInv
<1>1. AuthInit => AuthInv
  BY AuthInvInit
<1>2. AuthInv /\ [AuthNext]_authVars => AuthInv'
  <2> SUFFICES ASSUME AuthInv, [AuthNext]_authVars PROVE AuthInv'
    OBVIOUS
  <2>1. CASE UNCHANGED authVars
    BY <2>1 DEF authVars, AuthInv, AuthTypes, Honest, Exclusive, HeardNow, Deserved, Informed, RefusedOnlyIfOvertaken
  <2>2. ASSUME NEW c \in Clients, Check(c)
        PROVE  AuthInv'
    BY <2>2, GrantInv, ChallengeInv DEF Check
  <2>3. QED
    BY <2>1, <2>2, SendInv, RepeatInv DEF AuthNext
<1>3. QED
  BY <1>1, <1>2, PTL DEF AuthSpec

\* For any number of clients: whoever compy_auth_check lets in, also with a header
\* that somebody else has sent before, the answer was computed with the password,
\* and while there is entropy by the client that was challenged last; every
\* other answer, sent, heard or still to be made, is over a nonce that is gone.
THEOREM AuthOnlyLastChallenged == AuthSpec => []OnlyLastChallenged
<1>1. AuthInv => OnlyLastChallenged
  BY DEF AuthInv, Exclusive, Deserved, OnlyLastChallenged, Sendable
<1>2. QED
  BY <1>1, AuthInvariant, PTL

\* For any number of clients: a right answer to the last challenge is refused
\* only if another client was challenged in between, entropy or not.
THEOREM AuthRefusedOnlyIfOvertaken == AuthSpec => []RefusedOnlyIfOvertaken
<1>1. AuthInv => RefusedOnlyIfOvertaken
  BY DEF AuthInv
<1>2. QED
  BY <1>1, AuthInvariant, PTL

-----------------------------------------------------------------------------
(* SdpCrypto: the key on its way through Base64.                           *)

Byte == 0 .. 255
Six == 0 .. 63
Key == [1 .. KEY + SALT -> Byte]

\* The numbers that stand for a group: three octets, four sextets.
Three(a, b, c) == a * 65536 + b * 256 + c
Four(s, u, v, w) == s * 262144 + u * 4096 + v * 64 + w

\* Three octets are four sextets, and back.
LEMMA OctetsToSextets ==
    ASSUME NEW a \in Byte, NEW b \in Byte, NEW c \in Byte
    PROVE  \E s, u, v, w \in Six :
               Four(s, u, v, w) = Three(a, b, c)
<1> USE DEF Byte, Six
<1>1. PICK p \in 0 .. 63, q \in 0 .. 3 : a = p * 4 + q
  <2>1. a = 4 * (a \div 4) + (a % 4) /\ a \div 4 \in 0 .. 63 /\ a % 4 \in 0 .. 3
    BY SMT
  <2>2. QED
    BY <2>1, SMT
<1>2. PICK x \in 0 .. 15, y \in 0 .. 15 : b = x * 16 + y
  <2>1. b = 16 * (b \div 16) + (b % 16) /\ b \div 16 \in 0 .. 15 /\ b % 16 \in 0 .. 15
    BY SMT
  <2>2. QED
    BY <2>1, SMT
<1>3. PICK z \in 0 .. 3, w \in 0 .. 63 : c = z * 64 + w
  <2>1. c = 64 * (c \div 64) + (c % 64) /\ c \div 64 \in 0 .. 3 /\ c % 64 \in 0 .. 63
    BY SMT
  <2>2. QED
    BY <2>1, SMT
<1> DEFINE u == q * 16 + x
           v == y * 4 + z
<1>4. u \in 0 .. 63 /\ v \in 0 .. 63
  BY SMT
<1>5. Four(p, u, v, w) = Three(a, b, c)
  BY <1>1, <1>2, <1>3, SMT DEF Four, Three
<1> HIDE DEF u, v
<1>6. QED
  BY <1>4, <1>5

IsTriplet(t) == \E a, b, c \in Byte : t = Three(a, b, c)

LEMMA SextetsToOctets ==
    ASSUME NEW s \in Six, NEW u \in Six, NEW v \in Six, NEW w \in Six
    PROVE  IsTriplet(Four(s, u, v, w))
<1> USE DEF Byte, Six
<1>1. PICK p \in 0 .. 3, q \in 0 .. 15 : u = p * 16 + q
  <2>1. u = 16 * (u \div 16) + (u % 16) /\ u \div 16 \in 0 .. 3 /\ u % 16 \in 0 .. 15
    BY SMT
  <2>2. QED
    BY <2>1, SMT
<1>2. PICK x \in 0 .. 15, y \in 0 .. 3 : v = x * 4 + y
  <2>1. v = 4 * (v \div 4) + (v % 4) /\ v \div 4 \in 0 .. 15 /\ v % 4 \in 0 .. 3
    BY SMT
  <2>2. QED
    BY <2>1, SMT
<1> DEFINE a == s * 4 + p
           b == q * 16 + x
           c == y * 64 + w
<1>3. a \in 0 .. 255 /\ b \in 0 .. 255 /\ c \in 0 .. 255
  BY SMT
<1>4. Four(s, u, v, w) = Three(a, b, c)
  BY <1>1, <1>2, SMT DEF Four, Three
<1> HIDE DEF a, b, c
<1>5. QED
  BY <1>3, <1>4 DEF IsTriplet

\* The digits of such a number.
Digit64(t, j) == (t \div <<262144, 4096, 64, 1>>[j]) % 64
Digit256(t, j) == (t \div <<65536, 256, 1>>[j]) % 256

LEMMA SextetDigits ==
    ASSUME NEW s \in Six, NEW u \in Six, NEW v \in Six, NEW w \in Six, NEW t,
           t = Four(s, u, v, w)
    PROVE  Digit64(t, 1) = s /\ Digit64(t, 2) = u /\ Digit64(t, 3) = v /\ Digit64(t, 4) = w
<1> USE DEF Byte, Six
<1> DEFINE n == s * 262144 + u * 4096 + v * 64 + w
<1>1. t = n /\ n \in Nat
  BY SMT DEF Four
<1>2. t \div 262144 = s /\ s % 64 = s
  BY <1>1, SMT
<1>3. t \div 4096 = s * 64 + u /\ (s * 64 + u) % 64 = u
  <2>1. t \div 4096 = s * 64 + u
    BY <1>1, SMT
  <2>2. (s * 64 + u) % 64 = u
    BY SMT
  <2>3. QED
    BY <2>1, <2>2, SMT
<1>4. t \div 64 = s * 4096 + u * 64 + v /\ (s * 4096 + u * 64 + v) % 64 = v
  <2>1. t \div 64 = s * 4096 + u * 64 + v
    BY <1>1, SMT
  <2>2. (s * 4096 + u * 64 + v) % 64 = v
    BY SMT
  <2>3. QED
    BY <2>1, <2>2, SMT
<1>5. t \div 1 = t /\ t % 64 = w
  <2>1. t \div 1 = t
    BY <1>1, SMT
  <2>2. t % 64 = w
    BY <1>1, SMT
  <2>3. QED
    BY <2>1, <2>2, SMT
<1> DEFINE base == <<262144, 4096, 64, 1>>
<1>6. base[1] = 262144 /\ base[2] = 4096 /\ base[3] = 64 /\ base[4] = 1
  BY SMT
<1> HIDE DEF base
<1>7. \A j : Digit64(t, j) = (t \div base[j]) % 64
  BY SMT DEF Digit64, base
<1>8. QED
  BY <1>2, <1>3, <1>4, <1>5, <1>6, <1>7, SMT

LEMMA OctetDigits ==
    ASSUME NEW a \in Byte, NEW b \in Byte, NEW c \in Byte, NEW t,
           t = Three(a, b, c)
    PROVE  Digit256(t, 1) = a /\ Digit256(t, 2) = b /\ Digit256(t, 3) = c
<1> USE DEF Byte, Six
<1>1. (t \div 65536) % 256 = a /\ (t \div 256) % 256 = b /\ (t \div 1) % 256 = c
  BY SMT DEF Three
<1> DEFINE base == <<65536, 256, 1>>
<1>2. base[1] = 65536 /\ base[2] = 256 /\ base[3] = 1
  BY SMT
<1> HIDE DEF base
<1>3. \A j : Digit256(t, j) = (t \div base[j]) % 256
  BY SMT DEF Digit256, base
<1>4. QED
  BY <1>1, <1>2, <1>3, SMT

\* The places of a text of 40 characters, and of a key of 30 octets.
LEMMA CharPlace ==
    ASSUME NEW i \in 1 .. 40
    PROVE  \E m \in 0 .. 9, j \in 1 .. 4 : i = 4 * m + j
<1> DEFINE m == (i - 1) \div 4
           j == ((i - 1) % 4) + 1
<1>1. m \in 0 .. 9 /\ j \in 1 .. 4 /\ i = 4 * m + j
  BY SMT
<1> HIDE DEF m, j
<1>2. QED
  BY <1>1, SMT

LEMMA OctetPlace ==
    ASSUME NEW i \in 1 .. 30
    PROVE  \E m \in 0 .. 9, j \in 1 .. 3 : i = 3 * m + j
<1> DEFINE m == (i - 1) \div 3
           j == ((i - 1) % 3) + 1
<1>1. m \in 0 .. 9 /\ j \in 1 .. 3 /\ i = 3 * m + j
  BY SMT
<1> HIDE DEF m, j
<1>2. QED
  BY <1>1, SMT

\* Group m of a key and of a text.
KeyGroup(data, m) == Three(data[3 * m + 1], data[3 * m + 2], data[3 * m + 3])
TextGroup(text, m) ==
    Four(Sextet(text[4 * m + 1]), Sextet(text[4 * m + 2]), Sextet(text[4 * m + 3]), Sextet(text[4 * m + 4]))

LEMMA EncodedGroup ==
    ASSUME NEW data \in Key, NEW m \in 0 .. 9, NEW j \in 1 .. 4
    PROVE  EncodedChar(data, 4 * m + j) = Digit64(KeyGroup(data, m), j)
<1> DEFINE i == 4 * m + j
           g == 3 * ((i - 1) \div 4)
           k == (i - 1) % 4
           triplet == Octet(data, g + 1) * 65536 + Octet(data, g + 2) * 256 + Octet(data, g + 3)
<1>1. (i - 1) \div 4 = m /\ k = j - 1
  BY SMT
<1>2. g = 3 * m /\ g \in 0 .. 27
  BY <1>1, SMT
<1>3. k + 1 = j /\ ~(k >= 2 /\ g + k > 30)
  BY <1>1, <1>2, SMT
<1>4. Len(data) = 30
  BY SMT DEF Key, KEY, SALT
<1>5. EncodedChar(data, i) = (triplet \div <<262144, 4096, 64, 1>>[k + 1]) % 64
  BY <1>3, <1>4, SMT DEF EncodedChar, Pad
<1>6. triplet = KeyGroup(data, m)
  <2>1. Octet(data, g + 1) = data[g + 1] /\ Octet(data, g + 2) = data[g + 2] /\ Octet(data, g + 3) = data[g + 3]
    <3> HIDE DEF g
    <3>1. QED
      BY <1>2, <1>4, SMT DEF Octet
  <2>2. QED
    BY <1>2, <2>1, SMT DEF KeyGroup, Three
<1> HIDE DEF i, g, k, triplet
<1>7. EncodedChar(data, i) = Digit64(KeyGroup(data, m), j)
  BY <1>3, <1>5, <1>6, SMT DEF Digit64
<1>8. QED
  BY <1>7, SMT DEF i

LEMMA DecodedGroup ==
    ASSUME NEW text, NEW m \in 0 .. 9, NEW j \in 1 .. 3
    PROVE  DecodedOctet(text, 3 * m + j) = Digit256(TextGroup(text, m), j)
<1> DEFINE i == 3 * m + j
           g == 4 * ((i - 1) \div 3)
           k == (i - 1) % 3
           triple == Sextet(text[g + 1]) * 262144 + Sextet(text[g + 2]) * 4096
                     + Sextet(text[g + 3]) * 64 + Sextet(text[g + 4])
<1>1. (i - 1) \div 3 = m /\ k = j - 1
  BY SMT
<1>2. g = 4 * m
  BY <1>1, SMT
<1>3. k + 1 = j
  BY <1>1, SMT
<1>5. DecodedOctet(text, i) = (triple \div <<65536, 256, 1>>[k + 1]) % 256
  BY SMT DEF DecodedOctet
<1>6. triple = TextGroup(text, m)
  BY <1>2, SMT DEF TextGroup, Four
<1> HIDE DEF i, g, k, triple
<1>7. DecodedOctet(text, i) = Digit256(TextGroup(text, m), j)
  BY <1>3, <1>5, <1>6, SMT DEF Digit256
<1>8. QED
  BY <1>7, SMT DEF i

\* The text of a key.
KeyText(data) == [i \in 1 .. 40 |-> EncodedChar(data, i)]

LEMMA KeyEncoded ==
    ASSUME NEW data \in Key
    PROVE  /\ Encode(data, 44) = KeyText(data)
           /\ KeyText(data) \in Seq(Six) /\ Len(KeyText(data)) = 40
           /\ KeyText(data) # NoText
           /\ \A m \in 0 .. 9 : TextGroup(KeyText(data), m) = KeyGroup(data, m)
<1>1. Len(data) = 30
  BY SMT DEF Key, KEY, SALT
<1>2. ((Len(data) + 2) \div 3) * 4 = 40
  BY <1>1, SMT
<1>3. Encode(data, 44) = KeyText(data)
  <2> DEFINE len == ((Len(data) + 2) \div 3) * 4
  <2>1. Encode(data, 44) = IF 44 < len + 1 THEN NoText ELSE [j \in 1 .. len |-> EncodedChar(data, j)]
    BY DEF Encode
  <2>2. len = 40
    BY <1>2
  <2> HIDE DEF len
  <2>3. ~(44 < len + 1)
    BY <2>2, SMT
  <2>4. QED
    BY <2>1, <2>2, <2>3 DEF KeyText
<1>4. ASSUME NEW m \in 0 .. 9
      PROVE  /\ \A j \in 1 .. 4 : EncodedChar(data, 4 * m + j) \in Six
             /\ TextGroup(KeyText(data), m) = KeyGroup(data, m)
  <2> DEFINE a == data[3 * m + 1]
             b == data[3 * m + 2]
             c == data[3 * m + 3]
  <2>1. a \in Byte /\ b \in Byte /\ c \in Byte
    BY SMT DEF Key, KEY, SALT
  <2> HIDE DEF a, b, c
  <2>2. PICK s, u, v, w \in Six : Four(s, u, v, w) = Three(a, b, c)
    BY <2>1, OctetsToSextets
  <2>3. KeyGroup(data, m) = Four(s, u, v, w)
    BY <2>2 DEF KeyGroup, a, b, c
  <2> DEFINE e == [j \in 1 .. 4 |-> EncodedChar(data, 4 * m + j)]
  <2>4. e[1] = s /\ e[2] = u /\ e[3] = v /\ e[4] = w
    <3> DEFINE t == KeyGroup(data, m)
    <3>1. \A j \in 1 .. 4 : e[j] = Digit64(t, j)
      BY EncodedGroup
    <3> HIDE DEF e, t
    <3>2. t = Four(s, u, v, w)
      BY <2>3 DEF t
    <3>3. Digit64(t, 1) = s /\ Digit64(t, 2) = u /\ Digit64(t, 3) = v /\ Digit64(t, 4) = w
      BY <3>2, SextetDigits
    <3>4. 1 \in 1 .. 4 /\ 2 \in 1 .. 4 /\ 3 \in 1 .. 4 /\ 4 \in 1 .. 4
      BY SMT
    <3>5. QED
      BY <3>1, <3>3, <3>4
  <2>5. \A j \in 1 .. 4 : e[j] \in Six /\ e[j] = KeyText(data)[4 * m + j]
    BY <2>4, SMT DEF KeyText
  <2> HIDE DEF e
  <2>6. /\ Sextet(KeyText(data)[4 * m + 1]) = s /\ Sextet(KeyText(data)[4 * m + 2]) = u
        /\ Sextet(KeyText(data)[4 * m + 3]) = v /\ Sextet(KeyText(data)[4 * m + 4]) = w
    <3>1. \A x \in Six : Sextet(x) = x
      BY SMT DEF Sextet, Pad, Six
    <3>2. 1 \in 1 .. 4 /\ 2 \in 1 .. 4 /\ 3 \in 1 .. 4 /\ 4 \in 1 .. 4
      BY SMT
    <3>3. QED
      BY <2>4, <2>5, <3>1, <3>2
  <2>7. TextGroup(KeyText(data), m) = Four(s, u, v, w)
    BY <2>6 DEF TextGroup
  <2>8. \A j \in 1 .. 4 : EncodedChar(data, 4 * m + j) \in Six
    BY <2>5 DEF e
  <2>9. QED
    BY <2>3, <2>7, <2>8
<1>5. \A i \in 1 .. 40 : EncodedChar(data, i) \in Six
  BY <1>4, CharPlace, SMT
<1>6. KeyText(data) \in Seq(Six) /\ Len(KeyText(data)) = 40
  BY <1>5, SMT DEF KeyText
<1>7. KeyText(data) # NoText
  <2>1. Len(NoText) = 1
    BY SMT DEF NoText
  <2>2. Len(NoText) # Len(KeyText(data))
    BY <1>6, <2>1, SMT
  <2>3. QED
    BY <2>2
<1>8. QED
  BY <1>3, <1>4, <1>6, <1>7

LEMMA KeyDecoded ==
    ASSUME NEW data \in Key
    PROVE  Decode(KeyText(data), KEY + SALT) = data
<1> DEFINE text == KeyText(data)
<1>1. text \in Seq(Six) /\ Len(text) = 40
  BY KeyEncoded
<1> HIDE DEF text
<1>2. DOMAIN text = 1 .. 40 /\ \A i \in 1 .. 40 : text[i] \in Six
  BY <1>1, SeqFacts
<1>3. text # <<>> /\ Len(text) % 4 = 0 /\ ~ \E i \in DOMAIN text : text[i] = Stranger
  <2>1. text # <<>>
    BY <1>1, SMT
  <2>2. Len(text) % 4 = 0
    BY <1>1, SMT
  <2>3. \A i \in 1 .. 40 : text[i] # Stranger
    BY <1>2, SMT DEF Stranger, Six
  <2>4. QED
    BY <1>2, <2>1, <2>2, <2>3
<1>4. DecodedLen(text) = 30
  <2>1. text[40] # Pad /\ text[39] # Pad
    BY <1>2, SMT DEF Pad, Six
  <2>2. (40 \div 4) * 3 = 30
    BY SMT
  <2>3. QED
    BY <1>1, <2>1, <2>2, SMT DEF DecodedLen
<1>5. Decode(text, KEY + SALT) = [i \in 1 .. 30 |-> DecodedOctet(text, i)]
  BY <1>3, <1>4, SMT DEF Decode, KEY, SALT
<1>6. ASSUME NEW m \in 0 .. 9, NEW j \in 1 .. 3
      PROVE  DecodedOctet(text, 3 * m + j) = data[3 * m + j]
  <2> DEFINE a == data[3 * m + 1]
             b == data[3 * m + 2]
             c == data[3 * m + 3]
  <2>1. a \in Byte /\ b \in Byte /\ c \in Byte
    BY SMT DEF Key, KEY, SALT
  <2>2. TextGroup(text, m) = Three(a, b, c)
    BY KeyEncoded DEF text, KeyGroup
  <2> DEFINE t == TextGroup(text, m)
  <2>4. DecodedOctet(text, 3 * m + j) = Digit256(t, j)
    BY DecodedGroup
  <2> HIDE DEF a, b, c, t
  <2>3. Digit256(t, 1) = a /\ Digit256(t, 2) = b /\ Digit256(t, 3) = c
    <3>1. t = Three(a, b, c)
      BY <2>2 DEF t
    <3>2. QED
      BY <2>1, <3>1, OctetDigits
  <2>5. j = 1 \/ j = 2 \/ j = 3
    BY SMT
  <2>6. QED
    BY <2>3, <2>4, <2>5, SMT DEF a, b, c
<1>7. \A i \in 1 .. 30 : DecodedOctet(text, i) = data[i]
  BY <1>6, OctetPlace, SMT
<1>8. data = [i \in 1 .. 30 |-> data[i]]
  BY SMT DEF Key, KEY, SALT
<1>9. QED
  BY <1>5, <1>7, <1>8 DEF text

\* A text that stands for 30 octets has 40 characters, and all of them count.
LEMMA TextDecoded ==
    ASSUME NEW text \in Seq(0 .. Stranger), text # <<>>, Len(text) <= 63,
           Len(Decode(text, KEY + SALT)) = KEY + SALT
    PROVE  /\ Decode(text, KEY + SALT) \in Key
           /\ Encode(Decode(text, KEY + SALT), 44) = [i \in DOMAIN text |-> Sextet(text[i])]
<1> DEFINE n == Len(text)
           data == Decode(text, KEY + SALT)
<1>1. n \in 1 .. 63 /\ DOMAIN text = 1 .. n
  <2>1. n \in Nat /\ DOMAIN text = 1 .. n /\ n >= 1
    BY SeqFacts
  <2>2. n \in 1 .. 63
    <3>1. n <= 63
      OBVIOUS
    <3> HIDE DEF n
    <3>2. QED
      BY <2>1, <3>1, SMT
  <2>3. QED
    BY <2>1, <2>2
<1>2. \A i \in 1 .. n : text[i] \in 0 .. 65
  <2>1. \A i \in 1 .. n : text[i] \in 0 .. Stranger
    BY SeqFacts
  <2>2. QED
    BY <2>1 DEF Stranger
<1>3. Len(NoText) = 1 /\ KEY + SALT = 30
  BY SMT DEF NoText, KEY, SALT
<1>4. n % 4 = 0 /\ data = [i \in 1 .. DecodedLen(text) |-> DecodedOctet(text, i)]
  <2> DEFINE len == DecodedLen(text)
             stranger == \E i \in DOMAIN text : text[i] = Stranger
  <2>1. data = IF n % 4 # 0 \/ stranger THEN NoText
               ELSE IF KEY + SALT < len THEN NoText
               ELSE [i \in 1 .. len |-> DecodedOctet(text, i)]
    BY DEF Decode
  <2> HIDE DEF len, stranger, n
  <2>2. Len(data) = 30
    BY <1>3
  <2> HIDE DEF data
  <2>3. data # NoText
    <3>1. Len(data) # Len(NoText)
      BY <1>3, <2>2, SMT
    <3>2. QED
      BY <3>1
  <2>4. QED
    BY <2>1, <2>3 DEF len
<1>5. DecodedLen(text) = (n \div 4) * 3 - (IF text[n] = Pad THEN 1 ELSE 0) - (IF text[n - 1] = Pad THEN 1 ELSE 0)
  BY SMT DEF DecodedLen
<1> HIDE DEF n
<1>6. DecodedLen(text) = 30 /\ n = 40
  <2>1. PICK q \in 1 .. 15 : n = 4 * q /\ n \div 4 = q
    <3> DEFINE q == n \div 4
    <3>1. q \in 1 .. 15 /\ n = 4 * q
      BY <1>1, <1>4, SMT
    <3> HIDE DEF q
    <3>2. QED
      BY <3>1 DEF q
  <2>2. PICK p \in 0 .. 2 : DecodedLen(text) = q * 3 - p
    <3>1. PICK x \in 0 .. 1 : x = IF text[n] = Pad THEN 1 ELSE 0
      BY SMT
    <3>2. PICK y \in 0 .. 1 : y = IF text[n - 1] = Pad THEN 1 ELSE 0
      BY SMT
    <3>3. DecodedLen(text) = q * 3 - x - y
      BY <1>5, <2>1, <3>1, <3>2
    <3>4. q * 3 - x - y = q * 3 - (x + y) /\ x + y \in 0 .. 2
      BY SMT
    <3>5. QED
      BY <3>3, <3>4
  <2>3. DecodedLen(text) \in Nat
    BY <2>2, SMT
  <2>4. Len(data) = DecodedLen(text)
    BY <1>4, <2>3, SMT
  <2>5. QED
    BY <1>3, <2>1, <2>2, <2>4, SMT
<1>7. data = [i \in 1 .. 30 |-> DecodedOctet(text, i)]
  BY <1>4, <1>6
<1>8. \A i \in 1 .. 40 : Sextet(text[i]) \in Six
  <2>1. \A y \in 0 .. 65 : Sextet(y) \in Six
    BY SMT DEF Sextet, Pad, Six
  <2>2. QED
    BY <1>2, <1>6, <2>1
<1> HIDE DEF data
<1>9. ASSUME NEW m \in 0 .. 9
      PROVE  /\ \A j \in 1 .. 3 : DecodedOctet(text, 3 * m + j) \in Byte
             /\ KeyGroup(data, m) = TextGroup(text, m)
  <2> DEFINE s == Sextet(text[4 * m + 1])
             u == Sextet(text[4 * m + 2])
             v == Sextet(text[4 * m + 3])
             w == Sextet(text[4 * m + 4])
  <2>1. s \in Six /\ u \in Six /\ v \in Six /\ w \in Six
    <3>1. \A k \in 1 .. 4 : 4 * m + k \in 1 .. 40
      BY SMT
    <3>2. \A k \in 1 .. 4 : Sextet(text[4 * m + k]) \in Six
      BY <1>8, <3>1
    <3>3. QED
      BY <3>2, SMT
  <2> HIDE DEF s, u, v, w
  <2>2. PICK a, b, c \in Byte : Four(s, u, v, w) = Three(a, b, c)
    <3>1. IsTriplet(Four(s, u, v, w))
      BY <2>1, SextetsToOctets
    <3>2. QED
      BY <3>1 DEF IsTriplet
  <2>3. TextGroup(text, m) = Three(a, b, c)
    BY <2>2 DEF TextGroup, s, u, v, w
  <2> DEFINE d == [j \in 1 .. 3 |-> DecodedOctet(text, 3 * m + j)]
  <2>4. d[1] = a /\ d[2] = b /\ d[3] = c
    <3> DEFINE t == TextGroup(text, m)
    <3>1. \A j \in 1 .. 3 : d[j] = Digit256(t, j)
      BY DecodedGroup
    <3> HIDE DEF d, t
    <3>2. t = Three(a, b, c)
      BY <2>3 DEF t
    <3>3. Digit256(t, 1) = a /\ Digit256(t, 2) = b /\ Digit256(t, 3) = c
      BY <3>2, OctetDigits
    <3>4. 1 \in 1 .. 3 /\ 2 \in 1 .. 3 /\ 3 \in 1 .. 3
      BY SMT
    <3>5. QED
      BY <3>1, <3>3, <3>4
  <2>5. \A j \in 1 .. 3 : d[j] \in Byte /\ d[j] = data[3 * m + j]
    <3>1. \A j \in 1 .. 3 : 3 * m + j \in 1 .. 30 /\ (j = 1 \/ j = 2 \/ j = 3)
      BY SMT
    <3>2. \A j \in 1 .. 3 : d[j] = data[3 * m + j]
      BY <1>7, <3>1
    <3> HIDE DEF d
    <3>3. QED
      BY <2>4, <3>1, <3>2
  <2>6. \A j \in 1 .. 3 : DecodedOctet(text, 3 * m + j) \in Byte
    BY <2>5
  <2> HIDE DEF d
  <2>7. data[3 * m + 1] = a /\ data[3 * m + 2] = b /\ data[3 * m + 3] = c
    BY <2>4, <2>5, SMT
  <2>8. KeyGroup(data, m) = Three(a, b, c)
    BY <2>7 DEF KeyGroup
  <2>9. QED
    BY <2>3, <2>6, <2>8
<1>10. ASSUME NEW i \in 1 .. 30 PROVE DecodedOctet(text, i) \in Byte
  <2>1. PICK m \in 0 .. 9, j \in 1 .. 3 : i = 3 * m + j
    BY OctetPlace
  <2>2. QED
    BY <1>9, <2>1, Zenon
<1>11. data \in Key
  BY <1>7, <1>10, SMT DEF Key, KEY, SALT
<1>12. ASSUME NEW m \in 0 .. 9, NEW j \in 1 .. 4
       PROVE  EncodedChar(data, 4 * m + j) = Sextet(text[4 * m + j])
  <2> DEFINE s == Sextet(text[4 * m + 1])
             u == Sextet(text[4 * m + 2])
             v == Sextet(text[4 * m + 3])
             w == Sextet(text[4 * m + 4])
  <2>1. s \in Six /\ u \in Six /\ v \in Six /\ w \in Six
    <3>1. \A k \in 1 .. 4 : 4 * m + k \in 1 .. 40
      BY SMT
    <3>2. \A k \in 1 .. 4 : Sextet(text[4 * m + k]) \in Six
      BY <1>8, <3>1
    <3>3. QED
      BY <3>2, SMT
  <2> DEFINE t == KeyGroup(data, m)
  <2>2. t = Four(s, u, v, w)
    BY <1>9 DEF TextGroup
  <2>3. EncodedChar(data, 4 * m + j) = Digit64(t, j)
    BY <1>11, EncodedGroup
  <2> HIDE DEF s, u, v, w, t
  <2>4. Digit64(t, 1) = s /\ Digit64(t, 2) = u /\ Digit64(t, 3) = v /\ Digit64(t, 4) = w
    BY <2>1, <2>2, SextetDigits
  <2>5. j = 1 \/ j = 2 \/ j = 3 \/ j = 4
    BY SMT
  <2> DEFINE e == EncodedChar(data, 4 * m + j)
  <2>6. e = Digit64(t, j)
    BY <2>3
  <2> HIDE DEF e
  <2>7. j = 1 => e = Sextet(text[4 * m + j])
    <3>1. j = 1 => e = s
      BY <2>4, <2>6
    <3>2. QED
      BY <3>1 DEF s
  <2>8. j = 2 => e = Sextet(text[4 * m + j])
    <3>1. j = 2 => e = u
      BY <2>4, <2>6
    <3>2. QED
      BY <3>1 DEF u
  <2>9. j = 3 => e = Sextet(text[4 * m + j])
    <3>1. j = 3 => e = v
      BY <2>4, <2>6
    <3>2. QED
      BY <3>1 DEF v
  <2>10. j = 4 => e = Sextet(text[4 * m + j])
    <3>1. j = 4 => e = w
      BY <2>4, <2>6
    <3>2. QED
      BY <3>1 DEF w
  <2>11. QED
    BY <2>5, <2>7, <2>8, <2>9, <2>10 DEF e
<1>13. ASSUME NEW i \in 1 .. 40 PROVE EncodedChar(data, i) = Sextet(text[i])
  <2>1. PICK m \in 0 .. 9, j \in 1 .. 4 : i = 4 * m + j
    BY CharPlace
  <2>2. QED
    BY <1>12, <2>1, Zenon
<1>14. Encode(data, 44) = KeyText(data)
  BY <1>11, KeyEncoded
<1>15. KeyText(data) = [i \in 1 .. 40 |-> Sextet(text[i])]
  BY <1>13 DEF KeyText
<1>16. DOMAIN text = 1 .. 40
  BY <1>1, <1>6
<1>17. QED
  BY <1>11, <1>14, <1>15, <1>16 DEF data

\* The attribute is the sender's own key, whole.
Written == /\ k_key \in Key /\ k_suite \in Suites
           /\ k_attr = [suite |-> k_suite, text |-> KeyText(k_key)]

\* The inductive invariant: what is on its way is our key or nothing, and once
\* an attribute was read nothing changes.
CryptoInv ==
    /\ k_key = <<>> \/ k_key \in Key
    /\ k_attr.text \in Seq(0 .. Stranger)
    /\ k_own \in BOOLEAN
    /\ k_own => k_attr \in {NoAttr, RefusedAttr} \/ Written
    /\ k_got # NoAttr => k_attr # NoAttr
    /\ KeyRoundTrip

LEMMA CryptoInvInit == CryptoInit => CryptoInv
<1> SUFFICES ASSUME CryptoInit PROVE CryptoInv
  OBVIOUS
<1>1. NoAttr.text \in Seq(0 .. Stranger)
  BY DEF NoAttr
<1>2. QED
  BY <1>1 DEF CryptoInit, CryptoInv, KeyRoundTrip

LEMMA FormatInv ==
    ASSUME CryptoInv, NEW suite \in Suites \cup {"unknown"}, NEW n \in BufLens,
           FormatCryptoAttr(suite, n)
    PROVE  CryptoInv'
<1> DEFINE b64 == Encode(k_key, 44)
           cut == AttrLen(b64) - n + 1
           kept == IF cut > 0 THEN SubSeq(b64, 1, Len(b64) - cut) ELSE b64
<1>1. /\ k_key # <<>> /\ k_attr = NoAttr /\ k_got = NoAttr
      /\ k_suite' = suite
      /\ IF b64 = NoText \/ suite \notin Suites \/ Truncated(AttrLen(b64), n)
         THEN k_attr' = RefusedAttr
         ELSE k_attr' = [suite |-> suite, text |-> kept]
      /\ UNCHANGED <<k_key, k_own, k_got>>
  BY DEF FormatCryptoAttr
<1>2. k_key \in Key
  BY <1>1 DEF CryptoInv
<1>3. b64 = KeyText(k_key) /\ b64 \in Seq(Six) /\ Len(b64) = 40
  BY <1>2, KeyEncoded
<1> HIDE DEF b64
<1>4. Seq(Six) \subseteq Seq(0 .. Stranger)
  <2>1. Six \subseteq 0 .. Stranger
    BY SMT DEF Six, Stranger
  <2>2. ASSUME NEW q \in Seq(Six) PROVE q \in Seq(0 .. Stranger)
    <3>1. Len(q) \in Nat /\ q = [i \in 1 .. Len(q) |-> q[i]] /\ \A i \in 1 .. Len(q) : q[i] \in Six
      OBVIOUS
    <3>2. \A i \in 1 .. Len(q) : q[i] \in 0 .. Stranger
      BY <2>1, <3>1
    <3>3. [i \in 1 .. Len(q) |-> q[i]] \in Seq(0 .. Stranger)
      BY <3>1, <3>2, IsASeq
    <3>4. QED
      BY <3>1, <3>3
  <2>3. QED
    BY <2>2
<1>5. CASE k_attr' = RefusedAttr
  <2>1. RefusedAttr.text \in Seq(0 .. Stranger) /\ RefusedAttr # NoAttr
    <3>1. RefusedAttr.suite = "refused" /\ NoAttr.suite = "none" /\ RefusedAttr.text = <<>>
      BY DEF RefusedAttr, NoAttr
    <3>2. QED
      BY <3>1
  <2>2. KeyRoundTrip'
    BY <1>1 DEF KeyRoundTrip, NoAttr
  <2>3. QED
    BY <1>1, <1>5, <2>1, <2>2 DEF CryptoInv
<1>6. CASE /\ suite \in Suites /\ ~Truncated(AttrLen(b64), n)
           /\ k_attr' = [suite |-> suite, text |-> kept]
  <2>1. AttrLen(b64) = 73
    BY <1>3, SMT DEF AttrLen
  <2>2. n \in Nat
    BY CryptoAssumption
  <2>3. ~(cut > 0)
    BY <1>6, <2>1, <2>2, SMT DEF Truncated
  <2>4. kept = b64
    BY <2>3
  <2>5. k_attr' = [suite |-> suite, text |-> b64]
    BY <1>6, <2>4
  <2> HIDE DEF kept, cut
  <2>6. Written'
    BY <1>1, <1>2, <1>3, <1>6, <2>5 DEF Written
  <2>7. k_attr'.text \in Seq(0 .. Stranger) /\ k_attr'.text = b64
    BY <1>3, <1>4, <2>5
  <2>8. KeyRoundTrip'
    BY <1>1 DEF KeyRoundTrip, NoAttr
  <2>9. QED
    BY <1>1, <1>2, <2>6, <2>7, <2>8 DEF CryptoInv
<1>7. QED
  BY <1>1, <1>5, <1>6

LEMMA ParseInv ==
    ASSUME CryptoInv, ParseCryptoAttr
    PROVE  CryptoInv'
<1> DEFINE text == SubSeq(k_attr.text, 1, IF Len(k_attr.text) < 63 THEN Len(k_attr.text) ELSE 63)
           key == Decode(text, KEY + SALT)
<1>1. /\ k_attr \notin {NoAttr, RefusedAttr} /\ k_got = NoAttr
      /\ k_got' = IF text = <<>> \/ k_attr.suite \notin Suites \/ Len(key) # KEY + SALT
                  THEN RefusedAttr ELSE [suite |-> k_attr.suite, text |-> key]
      /\ UNCHANGED <<k_key, k_suite, k_attr, k_own>>
  BY DEF ParseCryptoAttr
<1>2. k_attr.text \in Seq(0 .. Stranger)
  BY DEF CryptoInv
<1> DEFINE sent == k_attr.text
<1>3. Len(sent) \in Nat
  BY <1>2
<1>4. Len(sent) < 63 => text = sent
  <2>1. SubSeq(sent, 1, Len(sent)) = sent
    BY <1>2, <1>3
  <2>2. QED
    BY <2>1
<1>5. Len(sent) >= 63 => Len(text) = 63
  <2> SUFFICES ASSUME Len(sent) >= 63 PROVE Len(text) = 63
    OBVIOUS
  <2>1. text = SubSeq(sent, 1, 63)
    <3>1. ~(Len(sent) < 63)
      BY <1>3, SMT
    <3>2. QED
      BY <3>1
  <2> HIDE DEF text
  <2>2. sent \in Seq(0 .. Stranger) /\ 1 \in 1 .. Len(sent) + 1 /\ 63 \in 0 .. Len(sent)
    BY <1>2, <1>3, SMT
  <2> HIDE DEF sent
  <2>3. Len(text) = IF 1 <= 63 THEN (63 - 1) + 1 ELSE 0
    BY <2>1, <2>2, SubSeqProperties
  <2>4. QED
    BY <2>3
<1> HIDE DEF text, sent
<1>6. CASE k_own
  <2>1. Written
    BY <1>1, <1>6 DEF CryptoInv
  <2>2. sent = KeyText(k_key) /\ k_key \in Key /\ k_suite \in Suites /\ k_attr.suite = k_suite
    BY <2>1 DEF Written, sent
  <2>3. Len(sent) = 40 /\ sent # <<>>
    <3>1. Len(sent) = 40
      BY <2>2, KeyEncoded
    <3>2. Len(<<>>) = 0
      OBVIOUS
    <3>3. QED
      BY <3>1, <3>2, SMT
  <2>4. text = sent
    BY <1>4, <2>3, SMT
  <2>5. key = k_key
    BY <2>2, <2>4, KeyDecoded
  <2>6. Len(k_key) = KEY + SALT
    BY <2>2, SMT DEF Key, KEY, SALT
  <2> HIDE DEF key
  <2>7. k_got' = [suite |-> k_suite, text |-> k_key]
    BY <1>1, <2>2, <2>3, <2>4, <2>5, <2>6
  <2>8. KeyRoundTrip'
    BY <1>1, <1>6, <2>7 DEF KeyRoundTrip
  <2>9. Written'
    BY <1>1, <2>1 DEF Written
  <2>10. QED
    BY <1>1, <1>2, <1>6, <2>2, <2>8, <2>9 DEF CryptoInv
<1>7. CASE ~k_own
  <2>1. KeyRoundTrip'
    <3> SUFFICES ASSUME k_got' \notin {NoAttr, RefusedAttr}
                 PROVE  Encode(k_got'.text, 44) = [i \in DOMAIN k_attr.text |-> Sextet(k_attr.text[i])]
      BY <1>1, <1>7 DEF KeyRoundTrip
    <3>1. text # <<>> /\ Len(key) = KEY + SALT /\ k_got'.text = key
      BY <1>1
    <3>2. Len(sent) < 63
      <4> SUFFICES ASSUME ~(Len(sent) < 63) PROVE FALSE
        OBVIOUS
      <4>1. Len(text) = 63
        BY <1>3, <1>5, SMT
      <4>2. Len(text) % 4 # 0
        BY <4>1, SMT
      <4>3. key = NoText
        BY <3>1, <4>2 DEF Decode
      <4>4. Len(NoText) = 1 /\ KEY + SALT = 30
        BY SMT DEF NoText, KEY, SALT
      <4> HIDE DEF key
      <4>5. Len(key) = 1 /\ Len(key) = 30
        BY <3>1, <4>3, <4>4, Zenon
      <4>6. 1 # 30
        BY SMT
      <4>7. QED
        BY <4>5, <4>6, Zenon
    <3>3. text = sent
      BY <1>4, <3>2
    <3>4. Len(text) <= 63
      BY <1>3, <3>2, <3>3, SMT
    <3>5. text \in Seq(0 .. Stranger)
      BY <1>2, <3>3 DEF sent
    <3>6. Encode(key, 44) = [i \in DOMAIN text |-> Sextet(text[i])]
      BY <3>1, <3>4, <3>5, TextDecoded
    <3> HIDE DEF key
    <3>7. QED
      BY <3>1, <3>3, <3>6 DEF sent
  <2>2. QED
    BY <1>1, <1>2, <1>7, <2>1 DEF CryptoInv
<1>8. QED
  BY <1>6, <1>7 DEF CryptoInv

LEMMA CryptoStep == CryptoInv /\ [CryptoNext]_cryptoVars => CryptoInv'
<1> SUFFICES ASSUME CryptoInv, [CryptoNext]_cryptoVars PROVE CryptoInv'
  OBVIOUS
<1>1. CASE UNCHANGED cryptoVars
  BY <1>1 DEF cryptoVars, CryptoInv, KeyRoundTrip, Written
<1>2. CASE GenerateKey
  <2>1. k_attr = NoAttr /\ k_got = NoAttr /\ UNCHANGED <<k_suite, k_attr, k_own, k_got>>
    BY <1>2 DEF GenerateKey, CryptoInv
  <2>2. k_key' \in Key
    BY <1>2, CryptoAssumption DEF GenerateKey, Key, Byte
  <2>3. KeyRoundTrip'
    BY <2>1 DEF KeyRoundTrip
  <2>4. QED
    BY <2>1, <2>2, <2>3 DEF CryptoInv
<1>3. CASE ForeignAttr
  <2>1. k_got = NoAttr /\ k_own' = FALSE /\ UNCHANGED <<k_key, k_suite, k_got>>
    BY <1>3 DEF ForeignAttr, CryptoInv
  <2>2. k_attr'.text \in Seq(0 .. Stranger)
    BY <1>3, CryptoAssumption DEF ForeignAttr
  <2>3. KeyRoundTrip'
    BY <2>1 DEF KeyRoundTrip
  <2>4. QED
    BY <2>1, <2>2, <2>3 DEF CryptoInv
<1>4. QED
  BY <1>1, <1>2, <1>3, FormatInv, ParseInv DEF CryptoNext

\* For every key, every size of the buffer and every attribute of another
\* implementation: what compy_srtp_format_crypto_attr wrote is read as the same
\* suite and key, and of an attribute that is accepted every character counts.
THEOREM CryptoKeyRoundTrip == CryptoSpec => []KeyRoundTrip
<1>1. CryptoInv => KeyRoundTrip
  BY DEF CryptoInv
<1>2. QED
  BY <1>1, CryptoInvInit, CryptoStep, PTL DEF CryptoSpec
-----------------------------------------------------------------------------
(* Md5: the blocks of a message.                                           *)

Cell == {"data", "value", "unset"} \X Nat

\* b is the block of msg behind its first `from` octets.
BlockAt(b, msg, from) == Len(b) = 64 /\ \A j \in 1 .. 64 : b[j] = msg[from + j]

\* state is the first n blocks of msg, and the next r octets wait in the buffer.
Blocks(state, msg, n) ==
    /\ state \in Seq(Seq(Cell)) /\ Len(state) = n
    /\ \A i \in 1 .. n : BlockAt(state[i], msg, 64 * (i - 1))
Waits(buffer, msg, n, r) ==
    /\ buffer \in [1 .. 64 -> Cell]
    /\ \A j \in 1 .. r : buffer[j] = msg[64 * n + j]
Holds(ctx, msg) ==
    /\ msg \in Seq(Cell) /\ ctx.count = Len(msg)
    /\ Blocks(ctx.state, msg, Len(msg) \div 64)
    /\ Waits(ctx.buffer, msg, Len(msg) \div 64, Len(msg) % 64)

\* The octets of a piece.
Piece(data, from, len) == SubSeq(data, from + 1, from + len)

LEMMA PieceIs ==
    ASSUME NEW data \in Seq(Cell), NEW from \in Nat, NEW len \in Nat, from + len <= Len(data)
    PROVE  /\ Piece(data, from, len) \in Seq(Cell) /\ Len(Piece(data, from, len)) = len
           /\ \A j \in 1 .. len : Piece(data, from, len)[j] = data[from + j]
<1> DEFINE b == from + 1
           e == from + len
           r == SubSeq(data, b, e)
<1>1. Len(data) \in Nat
  BY SeqFacts
<1>2. b \in Int /\ e \in Int /\ e - b + 1 = len /\ (b <= e <=> len > 0) /\ \A i \in b .. e : i \in 1 .. Len(data)
  BY <1>1
<1>3. \A i \in b .. e : data[i] \in Cell
  BY <1>2, SeqFacts
<1> HIDE DEF b, e
<1>4. /\ r \in Seq(Cell) /\ Len(r) = IF b <= e THEN e - b + 1 ELSE 0
      /\ \A i \in 1 .. e - b + 1 : r[i] = data[b + i - 1]
  BY <1>2, <1>3, SubSeqProperties
<1> HIDE DEF r
<1>5. Len(r) = len
  BY <1>2, <1>4
<1>6. ASSUME NEW j \in 1 .. len PROVE r[j] = data[from + j]
  <2>1. b + j - 1 = from + j
    BY DEF b
  <2>2. QED
    BY <1>2, <1>4, <2>1
<1>7. r = Piece(data, from, len)
  BY DEF r, b, e, Piece
<1>8. QED
  BY <1>4, <1>5, <1>6, <1>7

\* Fill writes v behind the first `at` octets and leaves the others.
LEMMA FillIs ==
    ASSUME NEW b \in [1 .. 64 -> Cell], NEW at \in Nat, NEW v \in Seq(Cell), at + Len(v) <= 64
    PROVE  /\ Fill(b, at, v) \in [1 .. 64 -> Cell]
           /\ \A i \in 1 .. at : Fill(b, at, v)[i] = b[i]
           /\ \A i \in 1 .. Len(v) : Fill(b, at, v)[at + i] = v[i]
<1> DEFINE n == Len(v)
           f == [i \in 1 .. 64 |-> IF i \in at + 1 .. at + n THEN v[i - at] ELSE b[i]]
<1>1. n \in Nat /\ \A i \in 1 .. n : v[i] \in Cell
  BY SeqFacts
<1>2. Fill(b, at, v) = f
  BY SMT DEF Fill, BLOCK
<1> HIDE DEF n
<1>3. at + n <= 64
  BY DEF n
<1>4. ASSUME NEW i \in 1 .. 64 PROVE f[i] \in Cell
  <2>1. CASE i \in at + 1 .. at + n
    <3> DEFINE k == i - at
    <3>1. k \in 1 .. n
      BY <1>1, <2>1, SMT
    <3> HIDE DEF k
    <3>2. v[k] \in Cell
      BY <1>1, <3>1
    <3>3. QED
      BY <2>1, <3>2 DEF k
  <2>2. CASE i \notin at + 1 .. at + n
    BY <2>2
  <2>3. QED
    BY <2>1, <2>2
<1>5. ASSUME NEW i \in 1 .. at PROVE f[i] = b[i]
  <2>1. i \in 1 .. 64
    BY <1>1, <1>3, SMT
  <2>2. i \notin at + 1 .. at + n
    BY <1>1, SMT
  <2>3. QED
    BY <2>1, <2>2
<1>6. ASSUME NEW i \in 1 .. n PROVE f[at + i] = v[i]
  <2> DEFINE k == at + i
  <2>1. k \in 1 .. 64 /\ k \in at + 1 .. at + n /\ k - at = i
    BY <1>1, <1>3, SMT
  <2> HIDE DEF k
  <2>2. f[k] = v[i]
    BY <2>1
  <2>3. QED
    BY <2>2 DEF k
<1>7. f \in [1 .. 64 -> Cell]
  BY <1>4
<1> HIDE DEF f
<1>8. QED
  BY <1>2, <1>5, <1>6, <1>7 DEF n

\* The same, of named parts.
Buffer == [1 .. 64 -> Cell]
Room(at, len) == at + len <= 64
Wrote(f, b, at, v) ==
    /\ f \in Buffer
    /\ \A i \in 1 .. at : f[i] = b[i]
    /\ \A i \in 1 .. Len(v) : f[at + i] = v[i]

LEMMA FillWrote ==
    ASSUME NEW b \in Buffer, NEW at \in Nat, NEW v \in Seq(Cell), Room(at, Len(v))
    PROVE  Wrote(Fill(b, at, v), b, at, v)
<1>1. b \in [1 .. 64 -> Cell] /\ at + Len(v) <= 64
  BY DEF Buffer, Room
<1>2. QED
  BY <1>1, FillIs DEF Wrote, Buffer

LEMMA PartIs == ASSUME NEW s \in 0 .. 63 PROVE s \in Nat /\ s <= 64
BY SMT

\* Where the octets of a message lie: q whole blocks and r more.
LEMMA Places64 ==
    ASSUME NEW c \in Nat
    PROVE  /\ c \div 64 \in Nat /\ c % 64 \in 0 .. 63 /\ c = 64 * (c \div 64) + (c % 64)
BY SMT

LEMMA Divided64 ==
    ASSUME NEW q \in Nat, NEW r \in 0 .. 63, NEW c, c = 64 * q + r
    PROVE  c \div 64 = q /\ c % 64 = r
BY SMT

LEMMA InBlock ==
    ASSUME NEW n \in Nat, NEW l \in Nat, 64 * n <= l, NEW i \in 1 .. n, NEW j \in 1 .. 64
    PROVE  64 * (i - 1) + j \in 1 .. l
BY SMT

\* The block i of a message is the same when the message goes on.
LEMMA BlocksOn ==
    ASSUME NEW state, NEW msg \in Seq(Cell), NEW more \in Seq(Cell), NEW n \in Nat,
           64 * n <= Len(msg), Blocks(state, msg, n)
    PROVE  Blocks(state, msg \o more, n)
<1> DEFINE w == msg \o more
<1>1. Behind(w, msg, more)
  BY Joined
<1>2. Len(msg) \in Nat /\ \A i \in 1 .. Len(msg) : w[i] = msg[i]
  BY <1>1 DEF Behind
<1> HIDE DEF w
<1>3. ASSUME NEW i \in 1 .. n PROVE BlockAt(state[i], w, 64 * (i - 1))
  <2>1. BlockAt(state[i], msg, 64 * (i - 1))
    BY DEF Blocks
  <2>2. \A j \in 1 .. 64 : 64 * (i - 1) + j \in 1 .. Len(msg)
    BY <1>2, InBlock
  <2>3. QED
    BY <1>2, <2>1, <2>2 DEF BlockAt
<1>4. QED
  BY <1>3 DEF Blocks, w

\* One block more.
LEMMA BlocksNext ==
    ASSUME NEW state, NEW msg, NEW n \in Nat, Blocks(state, msg, n),
           NEW block \in Seq(Cell), BlockAt(block, msg, 64 * n)
    PROVE  Blocks(Append(state, block), msg, n + 1)
<1> DEFINE t == Append(state, block)
           A == Seq(Cell)
<1>1. state \in Seq(A) /\ Len(state) = n /\ block \in A
  BY DEF Blocks
<1> HIDE DEF A
<1>2. t \in Seq(A) /\ Longer(t, state, block)
  BY <1>1, AppendLonger
<1> HIDE DEF t
<1>3. ASSUME NEW i \in 1 .. n + 1 PROVE BlockAt(t[i], msg, 64 * (i - 1))
  <2>1. (i \in 1 .. n /\ t[i] = state[i]) \/ (i = n + 1 /\ t[i] = block)
    BY <1>1, <1>2 DEF Longer
  <2>2. CASE i \in 1 .. n /\ t[i] = state[i]
    BY <2>2 DEF Blocks
  <2>3. CASE i = n + 1 /\ t[i] = block
    <3>1. i - 1 = n
      BY <2>3
    <3>2. QED
      BY <2>3, <3>1
  <2>4. QED
    BY <2>1, <2>2, <2>3
<1>4. Len(t) = n + 1
  BY <1>1, <1>2 DEF Longer
<1>5. QED
  BY <1>2, <1>3, <1>4 DEF Blocks, t, A

\* The buffer waits still when the message goes on behind it.
LEMMA WaitsOn ==
    ASSUME NEW buffer, NEW msg \in Seq(Cell), NEW more \in Seq(Cell), NEW n \in Nat, NEW r \in Nat,
           64 * n + r <= Len(msg), Waits(buffer, msg, n, r)
    PROVE  Waits(buffer, msg \o more, n, r)
<1> DEFINE w == msg \o more
<1>1. Behind(w, msg, more)
  BY Joined
<1>2. Len(msg) \in Nat /\ \A i \in 1 .. Len(msg) : w[i] = msg[i]
  BY <1>1 DEF Behind
<1> HIDE DEF w
<1>3. ASSUME NEW j \in 1 .. r PROVE buffer[j] = w[64 * n + j]
  <2>1. 64 * n + j \in 1 .. Len(msg)
    BY <1>2, SMT
  <2>2. buffer[j] = msg[64 * n + j]
    BY DEF Waits
  <2>3. QED
    BY <1>2, <2>1, <2>2
<1>4. QED
  BY <1>3 DEF Waits, w

\* Blocks one after the other, from block n + 1 on.
Goes(block, msg, n, k) ==
    /\ block \in Seq(Seq(Cell)) /\ Len(block) = k
    /\ \A i \in 1 .. k : BlockAt(block[i], msg, 64 * (n + i - 1))

LEMMA BlocksConcat ==
    ASSUME NEW state, NEW msg, NEW n \in Nat, Blocks(state, msg, n), NEW k \in Nat,
           NEW block, Goes(block, msg, n, k)
    PROVE  Blocks(state \o block, msg, n + k)
<1> DEFINE A == Seq(Cell)
           t == state \o block
<1>1. state \in Seq(A) /\ Len(state) = n
  BY DEF Blocks
<1>2. block \in Seq(A) /\ Len(block) = k
  BY DEF Goes
<1> HIDE DEF A
<1>3. t \in Seq(A) /\ Behind(t, state, block)
  BY <1>1, <1>2, Joined
<1> HIDE DEF t
<1>4. Len(t) = n + k
  BY <1>1, <1>2, <1>3 DEF Behind
<1>5. ASSUME NEW i \in 1 .. n + k PROVE BlockAt(t[i], msg, 64 * (i - 1))
  <2>1. i \in 1 .. Len(t)
    BY <1>4
  <2>2. \/ i \in 1 .. Len(state) /\ t[i] = state[i]
        \/ i - Len(state) \in 1 .. Len(block) /\ t[i] = block[i - Len(state)]
    BY <1>3, <2>1, BehindPlaces
  <2>3. CASE i \in 1 .. Len(state) /\ t[i] = state[i]
    BY <1>1, <2>3 DEF Blocks
  <2>4. CASE i - Len(state) \in 1 .. Len(block) /\ t[i] = block[i - Len(state)]
    <3> DEFINE d == i - n
    <3>1. d \in 1 .. k /\ t[i] = block[d]
      BY <1>1, <1>2, <2>4
    <3>2. n + d - 1 = i - 1
      OBVIOUS
    <3> HIDE DEF d
    <3>3. BlockAt(block[d], msg, 64 * (n + d - 1))
      BY <3>1 DEF Goes
    <3>4. QED
      BY <3>1, <3>2, <3>3
  <2>5. QED
    BY <2>2, <2>3, <2>4
<1>6. QED
  BY <1>3, <1>4, <1>5 DEF Blocks, t, A

\* A context is a record.
Context(state, count, buffer) == [state |-> state, count |-> count, buffer |-> buffer]

LEMMA HoldsIs ==
    ASSUME NEW state, NEW buffer, NEW w \in Seq(Cell), NEW q \in Nat, NEW r \in 0 .. 63,
           Len(w) = 64 * q + r, Blocks(state, w, q), Waits(buffer, w, q, r)
    PROVE  Holds(Context(state, Len(w), buffer), w)
<1>1. Len(w) \div 64 = q /\ Len(w) % 64 = r
  BY Divided64
<1>2. QED
  BY <1>1 DEF Holds, Context

\* The piece does not complete the block that was begun.
LEMMA ShortHolds ==
    ASSUME NEW msg \in Seq(Cell), NEW data \in Seq(Cell), NEW q \in Nat, NEW r \in 0 .. 63,
           Len(msg) = 64 * q + r, r + Len(data) < 64,
           NEW state, Blocks(state, msg, q), NEW b, Waits(b, msg, q, r)
    PROVE  Holds(Context(state, Len(msg) + Len(data), Fill(b, r, data)), msg \o data)
<1> DEFINE w == msg \o data
           n == Len(data)
           c == Len(msg)
           f == Fill(b, r, data)
<1>1. w \in Seq(Cell) /\ Behind(w, msg, data)
  BY Joined
<1>2. n \in Nat /\ c \in Nat
  BY SeqFacts
<1>3. Len(w) = c + n /\ \A i \in 1 .. n : w[c + i] = data[i]
  BY <1>1 DEF Behind
<1>4. c = 64 * q + r /\ r + n < 64 /\ r \in Nat
  BY SMT
<1>5. Blocks(state, w, q)
  <2>1. 64 * q <= Len(msg)
    BY <1>2, <1>4, SMT
  <2>2. QED
    BY <2>1, BlocksOn
<1>6. Waits(b, w, q, r)
  <2>1. 64 * q + r <= Len(msg)
    BY <1>2, <1>4, SMT
  <2>2. QED
    BY <1>4, <2>1, WaitsOn
<1>7. b \in [1 .. 64 -> Cell] /\ \A j \in 1 .. r : b[j] = w[64 * q + j]
  BY <1>6 DEF Waits
<1> HIDE DEF w, c
<1>8. f \in [1 .. 64 -> Cell] /\ (\A i \in 1 .. r : f[i] = b[i]) /\ \A i \in 1 .. n : f[r + i] = data[i]
  <2>1. r + Len(data) <= 64
    BY <1>2, <1>4, SMT
  <2>2. QED
    BY <1>4, <1>7, <2>1, FillIs, ZenonT(30)
<1> HIDE DEF f, n
<1>9. ASSUME NEW j \in 1 .. r + n PROVE f[j] = w[64 * q + j]
  <2>1. CASE j <= r
    <3>1. j \in 1 .. r
      BY <1>2, <1>4, <2>1
    <3>2. QED
      BY <1>7, <1>8, <3>1
  <2>2. CASE ~(j <= r)
    <3> DEFINE i == j - r
    <3>1. i \in 1 .. n /\ r + i = j /\ c + i = 64 * q + j
      BY <1>2, <1>4, <2>2
    <3> HIDE DEF i
    <3>2. QED
      BY <1>3, <1>8, <3>1
  <2>3. QED
    BY <2>1, <2>2
<1>10. Waits(f, w, q, r + n)
  BY <1>8, <1>9 DEF Waits
<1>11. Len(w) = 64 * q + (r + n) /\ r + n \in 0 .. 63
  BY <1>2, <1>3, <1>4, SMT
<1>12. Holds(Context(state, Len(w), f), w)
  BY <1>1, <1>5, <1>10, <1>11, HoldsIs
<1>13. QED
  BY <1>3, <1>12 DEF w, c, n, f

\* A block is a sequence.
LEMMA BlockSeq ==
    ASSUME NEW f \in [1 .. 64 -> Cell]
    PROVE  f \in Seq(Cell) /\ Len(f) = 64
<1> DEFINE n == 64
<1>1. n \in Nat
  OBVIOUS
<1> HIDE DEF n
<1>2. f \in [1 .. n -> Cell]
  BY DEF n
<1>3. f \in Seq(Cell)
  BY <1>1, <1>2, SeqDef, ZenonT(30)
<1> DEFINE g == [i \in 1 .. n |-> f[i]]
<1>4. Len(g) = n
  BY <1>1
<1>5. Len(f) = n
  <2>1. f = g
    BY <1>2, Zenon
  <2> HIDE DEF g
  <2>2. QED
    BY <1>4, <2>1
<1>6. QED
  BY <1>3, <1>5 DEF n

\* data lies in w behind its first c octets; block are k whole blocks of it.
Carries(w, c, data) == \A i \in 1 .. Len(data) : w[c + i] = data[i]
Cut(block, data, from, k) ==
    /\ block \in Seq(Seq(Cell)) /\ Len(block) = k
    /\ \A i \in 1 .. k : block[i] = Piece(data, from + 64 * (i - 1), 64)

\* c octets end in a block that `part` more complete.
Begun(c, q, r, part) == c = 64 * q + r /\ r + part = 64
Completed(f, w, q) == f \in [1 .. 64 -> Cell] /\ BlockAt(f, w, 64 * q)

\* The block that was begun, completed.
LEMMA FilledIs ==
    ASSUME NEW w, NEW data \in Seq(Cell), NEW q \in Nat, NEW r \in Nat, NEW b, Waits(b, w, q, r),
           NEW c, NEW part \in Nat, Begun(c, q, r, part), Carries(w, c, data), part <= Len(data)
    PROVE  Completed(Fill(b, r, Piece(data, 0, part)), w, q)
<1> DEFINE filled == Fill(b, r, Piece(data, 0, part))
           p == Piece(data, 0, part)
           n == Len(data)
<1>1. n \in Nat /\ 0 \in Nat /\ 0 + part <= Len(data)
  BY SeqFacts
<1>2. p \in Seq(Cell) /\ Len(p) = part /\ \A j \in 1 .. part : p[j] = data[0 + j]
  BY <1>1, PieceIs
<1>3. b \in [1 .. 64 -> Cell] /\ \A j \in 1 .. r : b[j] = w[64 * q + j]
  BY DEF Waits
<1>4. r \in Nat /\ r + part = 64 /\ part <= n /\ c = 64 * q + r
  BY DEF Begun
<1> HIDE DEF p, n, filled
<1>5. Room(r, Len(p)) /\ b \in Buffer
  BY <1>2, <1>3, <1>4 DEF Room, Buffer
<1>6. /\ filled \in [1 .. 64 -> Cell] /\ (\A i \in 1 .. r : filled[i] = b[i])
      /\ \A i \in 1 .. part : filled[r + i] = p[i]
  <2> DEFINE g == Fill(b, r, p)
  <2>1. /\ g \in [1 .. 64 -> Cell] /\ (\A i \in 1 .. r : g[i] = b[i])
        /\ \A i \in 1 .. Len(p) : g[r + i] = p[i]
    <3>1. Wrote(g, b, r, p)
      BY <1>2, <1>4, <1>5, FillWrote
    <3>2. QED
      BY <3>1 DEF Wrote, Buffer
  <2> HIDE DEF g
  <2>2. filled = g
    BY DEF g, p, filled
  <2>3. QED
    BY <1>2, <2>1, <2>2
<1>7. ASSUME NEW j \in 1 .. 64 PROVE filled[j] = w[64 * q + j]
  <2>1. CASE j <= r
    <3>1. j \in 1 .. r
      BY <1>4, <2>1
    <3>2. QED
      BY <1>3, <1>6, <3>1
  <2>2. CASE ~(j <= r)
    <3> DEFINE i == j - r
    <3>1. i \in 1 .. part /\ i \in 1 .. n /\ r + i = j /\ c + i = 64 * q + j /\ 0 + i = i
      BY <1>1, <1>4, <2>2
    <3> HIDE DEF i
    <3>2. filled[r + i] = data[i]
      BY <1>2, <1>6, <3>1
    <3>3. w[c + i] = data[i]
      BY <3>1 DEF n, Carries
    <3>4. QED
      BY <3>1, <3>2, <3>3
  <2>3. QED
    BY <2>1, <2>2
<1>8. Len(filled) = 64
  BY <1>6, BlockSeq
<1>9. QED
  BY <1>6, <1>7, <1>8 DEF BlockAt, Completed, filled

\* The whole blocks of the piece.
LEMMA WholeGoes ==
    ASSUME NEW w, NEW data \in Seq(Cell), NEW c \in Nat, Carries(w, c, data),
           NEW m \in Nat, NEW part \in Nat, 64 * m = c + part, NEW k \in Nat, part + 64 * k <= Len(data),
           NEW block, Cut(block, data, part, k)
    PROVE  Goes(block, w, m, k)
<1> DEFINE n == Len(data)
<1>1. n \in Nat /\ part + 64 * k <= n
  BY SeqFacts
<1> HIDE DEF n
<1>2. ASSUME NEW i \in 1 .. k PROVE BlockAt(block[i], w, 64 * (m + i - 1))
  <2> DEFINE from == part + 64 * (i - 1)
             to == 64 * (m + i - 1)
             x == Piece(data, from, 64)
  <2>1. block[i] = x
    BY DEF Cut
  <2>2. from \in Nat /\ from + 64 <= n /\ to = c + from /\ to \in Nat
    BY <1>1, SMT
  <2> HIDE DEF from, to
  <2>3. from + 64 <= Len(data) /\ 64 \in Nat
    BY <2>2 DEF n
  <2>4. x \in Seq(Cell) /\ Len(x) = 64 /\ \A j \in 1 .. 64 : x[j] = data[from + j]
    BY <2>2, <2>3, PieceIs, ZenonT(30)
  <2> HIDE DEF x
  <2>5. ASSUME NEW j \in 1 .. 64 PROVE x[j] = w[to + j]
    <3> DEFINE d == from + j
    <3>1. d \in 1 .. n /\ c + d = to + j
      BY <1>1, <2>2, SMT
    <3>2. x[j] = data[d]
      BY <2>4
    <3> HIDE DEF d
    <3>3. w[c + d] = data[d]
      BY <3>1 DEF n, Carries
    <3>4. QED
      BY <3>1, <3>2, <3>3
  <2>6. QED
    BY <2>1, <2>4, <2>5 DEF BlockAt, to
<1>3. QED
  BY <1>2 DEF Goes, Cut

\* The octets behind the last whole block.
LEMMA RestWaits ==
    ASSUME NEW w, NEW data \in Seq(Cell), NEW c \in Nat, Carries(w, c, data),
           NEW m \in Nat, NEW from \in Nat, 64 * m = c + from, NEW s \in 0 .. 63, from + s = Len(data),
           NEW b \in [1 .. 64 -> Cell]
    PROVE  Waits(Fill(b, 0, Piece(data, from, s)), w, m, s)
<1> DEFINE n == Len(data)
           x == Piece(data, from, s)
           f == Fill(b, 0, x)
<1>0. Len(data) \in Nat
  BY SeqFacts
<1>1. s \in Nat /\ s <= 64 /\ 0 \in Nat /\ n \in Nat /\ from + s <= Len(data)
  <2>1. s \in Nat /\ s <= 64
    BY PartIs
  <2>2. from + s <= Len(data)
    BY <1>0
  <2>3. QED
    BY <1>0, <2>1, <2>2
<1>2. x \in Seq(Cell) /\ Len(x) = s /\ \A j \in 1 .. s : x[j] = data[from + j]
  BY <1>1, PieceIs
<1> HIDE DEF x
<1>3. Room(0, Len(x)) /\ b \in Buffer
  <2>1. Len(x) = s /\ s <= 64 /\ s \in Nat
    BY <1>1, <1>2
  <2> DEFINE l == Len(x)
  <2> HIDE DEF l
  <2>2. l = s
    BY <2>1 DEF l
  <2>3. 0 + l <= 64
    BY <2>1, <2>2
  <2>4. QED
    BY <2>3 DEF l, Room, Buffer
<1>4. f \in [1 .. 64 -> Cell] /\ \A i \in 1 .. s : f[0 + i] = x[i]
  <2>1. Wrote(f, b, 0, x)
    BY <1>1, <1>2, <1>3, FillWrote
  <2>2. QED
    BY <1>2, <2>1 DEF Wrote, Buffer
<1> HIDE DEF f
<1>5. n = from + s
  OBVIOUS
<1> HIDE DEF n
<1>6. ASSUME NEW j \in 1 .. s PROVE f[j] = w[64 * m + j]
  <2> DEFINE d == from + j
  <2>1. d \in 1 .. n /\ c + d = 64 * m + j /\ 0 + j = j
    BY <1>1, <1>5, SMT
  <2>2. f[j] = data[d]
    BY <1>2, <1>4, <2>1
  <2> HIDE DEF d
  <2>3. w[c + d] = data[d]
    BY <2>1 DEF n, Carries
  <2>4. QED
    BY <2>1, <2>2, <2>3
<1>7. QED
  BY <1>4, <1>6 DEF Waits, f, x

\* It does, or none was begun: after `part` octets come k whole blocks and rest.
Splits(c, n, q, r, part, k, s) ==
    /\ q \in Nat /\ r \in 0 .. 63 /\ c = 64 * q + r
    /\ part \in Nat /\ k \in Nat /\ s \in 0 .. 63 /\ n = (part + 64 * k) + s
    /\ (part = 0 /\ r = 0) \/ (part > 0 /\ r + part = 64)
Put(state, b, block, msg, data, r, part, k, s) ==
    LET filled == Fill(b, r, Piece(data, 0, part))
    IN  Context((IF part > 0 THEN Append(state, filled) ELSE state) \o block, Len(msg) + Len(data),
                Fill(IF part > 0 THEN filled ELSE b, 0, Piece(data, part + 64 * k, s)))

LEMMA LongHolds ==
    ASSUME NEW msg \in Seq(Cell), NEW data \in Seq(Cell), NEW q, NEW r, NEW part, NEW k, NEW s,
           Splits(Len(msg), Len(data), q, r, part, k, s),
           NEW state, Blocks(state, msg, q), NEW b, Waits(b, msg, q, r),
           NEW block, Cut(block, data, part, k)
    PROVE  Holds(Put(state, b, block, msg, data, r, part, k, s), msg \o data)
<1>0. /\ q \in Nat /\ r \in 0 .. 63 /\ Len(msg) = 64 * q + r
      /\ part \in Nat /\ k \in Nat /\ s \in 0 .. 63 /\ Len(data) = (part + 64 * k) + s
      /\ (part = 0 /\ r = 0) \/ (part > 0 /\ r + part = 64)
  BY DEF Splits
<1> DEFINE w == msg \o data
           n == Len(data)
           c == Len(msg)
           filled == Fill(b, r, Piece(data, 0, part))
           b2 == IF part > 0 THEN filled ELSE b
           first == IF part > 0 THEN Append(state, filled) ELSE state
           m == IF part > 0 THEN q + 1 ELSE q
           from == part + 64 * k
           f == Fill(b2, 0, Piece(data, from, s))
<1>1. w \in Seq(Cell) /\ Behind(w, msg, data)
  BY Joined
<1>2. n \in Nat /\ c \in Nat
  BY SeqFacts
<1>3. Len(w) = c + n /\ Carries(w, c, data)
  BY <1>1 DEF Behind, Carries
<1>4. c = 64 * q + r /\ n = from + s /\ r \in Nat /\ s \in Nat
  BY <1>0, SMT
<1>5. m \in Nat /\ 64 * m = c + part /\ from \in Nat /\ 64 * (m + k) = c + from /\ from <= n
  BY <1>0, <1>2, <1>4, SMT
<1>6. Blocks(state, w, q)
  <2>1. 64 * q <= Len(msg)
    BY <1>0, <1>2, <1>4, SMT
  <2>2. QED
    BY <1>0, <2>1, BlocksOn
<1>7. Waits(b, w, q, r)
  <2>1. 64 * q + r <= Len(msg)
    BY <1>0, <1>2, <1>4, SMT
  <2>2. QED
    BY <1>0, <1>4, <2>1, WaitsOn
<1> HIDE DEF w, c, filled
<1>8. Blocks(first, w, m) /\ b2 \in [1 .. 64 -> Cell]
  <2>1. CASE part = 0
    <3>1. first = state /\ m = q /\ b2 = b
      BY <2>1
    <3>2. QED
      BY <1>6, <1>7, <3>1 DEF Waits
  <2>2. CASE part > 0
    <3>1. Begun(c, q, r, part) /\ part <= Len(data)
      BY <1>0, <1>2, <1>4, <2>2, SMT DEF Begun
    <3>2. filled \in [1 .. 64 -> Cell] /\ BlockAt(filled, w, 64 * q)
      <4>1. r \in Nat /\ Carries(w, c, data)
        BY <1>3, <1>4
      <4>2. Completed(Fill(b, r, Piece(data, 0, part)), w, q)
        BY <1>0, <1>7, <3>1, <4>1, FilledIs
      <4>3. QED
        BY <4>2 DEF Completed, filled
    <3>3. filled \in Seq(Cell)
      BY <3>2, BlockSeq
    <3>4. Blocks(Append(state, filled), w, q + 1)
      BY <1>0, <1>6, <3>2, <3>3, BlocksNext
    <3>5. QED
      BY <2>2, <3>2, <3>4
  <2>3. QED
    BY <1>0, <2>1, <2>2
<1> HIDE DEF first, m, b2
<1>9. Goes(block, w, m, k)
  <2>1. part + 64 * k <= Len(data)
    BY <1>5
  <2>2. QED
    BY <1>0, <1>2, <1>3, <1>5, <2>1, WholeGoes
<1>10. Blocks(first \o block, w, m + k)
  BY <1>0, <1>5, <1>8, <1>9, BlocksConcat
<1> HIDE DEF from
<1>11. Waits(f, w, m + k, s)
  <2>1. m + k \in Nat /\ from + s = Len(data)
    BY <1>0, <1>4, <1>5
  <2>2. QED
    BY <1>0, <1>2, <1>3, <1>5, <1>8, <2>1, RestWaits
<1> HIDE DEF f, n
<1>12. m + k \in Nat /\ Len(w) = 64 * (m + k) + s
  BY <1>0, <1>2, <1>3, <1>4, <1>5, SMT
<1>13. Holds(Context(first \o block, Len(w), f), w)
  BY <1>0, <1>1, <1>10, <1>11, <1>12, HoldsIs
<1>14. QED
  BY <1>3, <1>13, Zenon DEF w, c, n, f, first, from, b2, filled, Put

\* How Md5Update cuts a piece of n octets behind r waiting ones.
Part(r, n) == IF Completes(r, n) THEN 64 - r ELSE 0
Cuts(data, from, k) == [i \in 1 .. k |-> SubSeq(data, from + 64 * (i - 1) + 1, from + 64 * i)]

LEMMA UpdateShort ==
    ASSUME NEW ctx, NEW data, ctx.count % 64 > 0, Part(ctx.count % 64, Len(data)) = 0
    PROVE  Md5Update(ctx, data) = Context(ctx.state, ctx.count + Len(data),
                                          Fill(ctx.buffer, ctx.count % 64, data))
BY Zenon DEF Md5Update, Context, Part, BLOCK

Long(ctx, data, r, part, k, filled) ==
    Context((IF part > 0 THEN Append(ctx.state, filled) ELSE ctx.state) \o Cuts(data, part, k),
            ctx.count + Len(data),
            Fill(IF part > 0 THEN filled ELSE ctx.buffer, 0,
                 SubSeq(data, part + 64 * k + 1, Len(data))))

LEMMA UpdateLong ==
    ASSUME NEW ctx, NEW data, ~(ctx.count % 64 > 0 /\ Part(ctx.count % 64, Len(data)) = 0)
    PROVE  LET r == ctx.count % 64
               part == Part(r, Len(data))
           IN  Md5Update(ctx, data) =
                   Long(ctx, data, r, part, (Len(data) - part) \div 64,
                        Fill(ctx.buffer, r, SubSeq(data, 1, part)))
BY Zenon DEF Md5Update, Context, Part, BLOCK, Transform, Cuts, Long

\* The pieces Md5Update cuts out are those of LongHolds.
LEMMA CutsCut ==
    ASSUME NEW data \in Seq(Cell), NEW from \in Nat, NEW k \in Nat, from + 64 * k <= Len(data)
    PROVE  Cut(Cuts(data, from, k), data, from, k)
<1> DEFINE c == Cuts(data, from, k)
           A == Seq(Cell)
           n == Len(data)
<1>1. n \in Nat /\ from + 64 * k <= n
  BY SeqFacts
<1> HIDE DEF n
<1>2. ASSUME NEW i \in 1 .. k
      PROVE  /\ SubSeq(data, from + 64 * (i - 1) + 1, from + 64 * i) = Piece(data, from + 64 * (i - 1), 64)
             /\ Piece(data, from + 64 * (i - 1), 64) \in A
  <2> DEFINE f == from + 64 * (i - 1)
             g == from + 64 * i
  <2>1. f \in Nat /\ f + 64 = g /\ f + 64 <= n
    BY <1>1, SMT
  <2> HIDE DEF f, g
  <2>2. f + 64 <= Len(data) /\ 64 \in Nat
    BY <2>1 DEF n
  <2>3. Piece(data, f, 64) \in Seq(Cell)
    BY <2>1, <2>2, PieceIs
  <2>4. SubSeq(data, f + 1, g) = Piece(data, f, 64)
    BY <2>1 DEF Piece
  <2>5. QED
    BY <2>3, <2>4 DEF f, g
<1> HIDE DEF A
<1>3. c = [i \in 1 .. k |-> SubSeq(data, from + 64 * (i - 1) + 1, from + 64 * i)]
  BY Zenon DEF Cuts
<1> HIDE DEF c
<1>4. \A i \in 1 .. k : c[i] = Piece(data, from + 64 * (i - 1), 64)
  BY <1>2, <1>3, Zenon
<1>5. DOMAIN c = 1 .. k /\ c = [i \in 1 .. k |-> c[i]] /\ \A i \in 1 .. k : c[i] \in A
  BY <1>2, <1>3, <1>4, Zenon
<1>6. c \in [1 .. k -> A]
  BY <1>5, Zenon
<1>7. c \in Seq(A)
  BY <1>6, SeqDef, Zenon
<1>8. Len(c) = k
  <2> DEFINE g == [i \in 1 .. k |-> c[i]]
  <2>1. Len(g) = k
    OBVIOUS
  <2>2. c = g
    BY <1>5
  <2> HIDE DEF g
  <2>3. QED
    BY <2>1, <2>2
<1>9. QED
  BY <1>4, <1>7, <1>8 DEF Cut, c, A

\* What compy_md5_update keeps: the context holds the message, then the
\* message and the new octets behind it.
LEMMA UpdateHolds ==
    ASSUME NEW ctx, NEW msg, Holds(ctx, msg), NEW data \in Seq(Cell)
    PROVE  Holds(Md5Update(ctx, data), msg \o data)
<1> DEFINE c == Len(msg)
           q == c \div 64
           r == c % 64
           n == Len(data)
           part == Part(r, n)
           k == (n - part) \div 64
           s == (n - part) % 64
           filled == Fill(ctx.buffer, r, SubSeq(data, 1, part))
<1>1. /\ msg \in Seq(Cell) /\ ctx.count = c
      /\ Blocks(ctx.state, msg, q) /\ Waits(ctx.buffer, msg, q, r)
  BY DEF Holds
<1>2. c \in Nat /\ n \in Nat
  BY <1>1, SeqFacts
<1>3. q \in Nat /\ r \in 0 .. 63 /\ c = 64 * q + r
  BY <1>2, Places64
<1> HIDE DEF q, r
<1>4. CASE r > 0 /\ part = 0
  <2>1. r + n < 64
    BY <1>2, <1>3, <1>4, SMT DEF Part, Completes, BLOCK
  <2>2. Md5Update(ctx, data) = Context(ctx.state, c + n, Fill(ctx.buffer, r, data))
    BY <1>1, <1>4, UpdateShort DEF r
  <2>3. Holds(Context(ctx.state, c + n, Fill(ctx.buffer, r, data)), msg \o data)
    BY <1>1, <1>3, <2>1, ShortHolds
  <2>4. QED
    BY <2>2, <2>3
<1>5. CASE ~(r > 0 /\ part = 0)
  <2>1. part \in Nat /\ part <= n /\ ((part = 0 /\ r = 0) \/ (part > 0 /\ r + part = 64))
    BY <1>2, <1>3, <1>5, SMT DEF Part, Completes, BLOCK
  <2>2. Md5Update(ctx, data) = Long(ctx, data, r, part, k, filled)
    BY <1>1, <1>5, UpdateLong DEF r
  <2> HIDE DEF part
  <2>3. k \in Nat /\ s \in 0 .. 63 /\ n - part = 64 * k + s
    <3>1. n - part \in Nat
      BY <1>2, <2>1
    <3>2. QED
      BY <3>1, Places64
  <2> HIDE DEF k, s, c
  <2>4. n = (part + 64 * k) + s /\ part + 64 * k <= n
    BY <1>2, <2>1, <2>3, SMT
  <2>5. Cut(Cuts(data, part, k), data, part, k)
    BY <2>1, <2>3, <2>4, CutsCut
  <2>6. SubSeq(data, part + 64 * k + 1, n) = Piece(data, part + 64 * k, s)
    BY <2>4 DEF Piece
  <2>7. SubSeq(data, 1, part) = Piece(data, 0, part)
    <3>1. 0 + 1 = 1 /\ 0 + part = part
      BY <2>1
    <3>2. QED
      BY <3>1 DEF Piece
  <2>8. Splits(Len(msg), Len(data), q, r, part, k, s)
    BY <1>3, <2>1, <2>3, <2>4 DEF Splits, c
  <2> DEFINE st == ctx.state
             bf == ctx.buffer
             cut == Cuts(data, part, k)
             put == Put(st, bf, cut, msg, data, r, part, k, s)
  <2>9. Holds(put, msg \o data)
    <3> HIDE DEF st, bf, cut
    <3>1. Blocks(st, msg, q) /\ Waits(bf, msg, q, r) /\ Cut(cut, data, part, k)
      BY <1>1, <2>5 DEF st, bf, cut
    <3>2. QED
      BY <1>1, <2>8, <3>1, LongHolds
  <2>10. Long(ctx, data, r, part, k, filled) = put
    BY <1>1, <2>6, <2>7, Zenon DEF Long, Put, c
  <2>11. QED
    BY <2>2, <2>9, <2>10, Zenon
<1>6. QED
  BY <1>4, <1>5

\* v is the first l octets of msg.
Starts(v, msg, l) == v \in Seq(Cell) /\ Len(v) = l /\ \A i \in 1 .. l : v[i] = msg[i]

\* The blocks put together are the beginning of the message.
LEMMA FlatBlocks ==
    ASSUME NEW state, NEW msg, NEW n \in Nat, Blocks(state, msg, n)
    PROVE  Starts(FlattenSeq(state), msg, 64 * n)
<1> DEFINE T == {k \in Nat : k <= n => Starts(Flat(state, k), msg, 64 * k)}
           A == Seq(Cell)
<1>1. state \in Seq(A) /\ Len(state) = n /\ \A i \in 1 .. n : BlockAt(state[i], msg, 64 * (i - 1))
  BY DEF Blocks
<1>2. \A i \in 1 .. n : state[i] \in Seq(Cell)
  BY <1>1, ElementOfSeq
<1>3. 0 \in T
  <2>1. Flat(state, 0) = <<>>
    BY FlatNone
  <2>2. <<>> \in Seq(Cell) /\ Len(<<>>) = 0 /\ 64 * 0 = 0 /\ \A i \in 1 .. 0 : FALSE
    OBVIOUS
  <2>3. Starts(Flat(state, 0), msg, 64 * 0)
    BY <2>1, <2>2, Zenon DEF Starts
  <2>4. QED
    BY <2>3
<1>4. ASSUME NEW k \in T PROVE k + 1 \in T
  <2>1. k \in Nat
    OBVIOUS
  <2> SUFFICES ASSUME k + 1 <= n PROVE Starts(Flat(state, k + 1), msg, 64 * (k + 1))
    BY <2>1
  <2> DEFINE u == Flat(state, k)
             v == state[k + 1]
             w == u \o v
             l == 64 * k
  <2>2. k <= n /\ k + 1 \in 1 .. n /\ (k + 1) - 1 = k /\ l \in Nat /\ 64 * (k + 1) = l + 64
    BY <2>1
  <2>3. Starts(u, msg, l)
    BY <2>2
  <2>4. v \in Seq(Cell) /\ Len(v) = 64 /\ \A j \in 1 .. 64 : v[j] = msg[l + j]
    <3>1. BlockAt(v, msg, l)
      BY <1>1, <2>2
    <3>2. QED
      BY <1>2, <2>2, <3>1 DEF BlockAt
  <2>5. Flat(state, k + 1) = w
    <3>1. \A i \in 1 .. k + 1 : state[i] \in Seq(Cell)
      BY <1>2, <2>1
    <3>2. QED
      BY <2>1, <3>1, FlatNext
  <2> HIDE DEF u, v, l
  <2>6. u \in Seq(Cell) /\ Len(u) = l /\ \A i \in 1 .. l : u[i] = msg[i]
    BY <2>3 DEF Starts
  <2>7. w \in Seq(Cell) /\ Behind(w, u, v)
    BY <2>4, <2>6, Joined
  <2> HIDE DEF w
  <2>8. Len(w) = l + 64
    BY <2>4, <2>6, <2>7 DEF Behind
  <2>9. ASSUME NEW i \in 1 .. l + 64 PROVE w[i] = msg[i]
    <3>1. \/ i \in 1 .. Len(u) /\ w[i] = u[i]
          \/ i - Len(u) \in 1 .. Len(v) /\ i = Len(u) + (i - Len(u)) /\ w[i] = v[i - Len(u)]
      BY <2>7, <2>8, BehindPlaces
    <3>2. CASE i \in 1 .. Len(u) /\ w[i] = u[i]
      BY <2>6, <3>2
    <3>3. CASE i - Len(u) \in 1 .. Len(v) /\ i = Len(u) + (i - Len(u)) /\ w[i] = v[i - Len(u)]
      <4> DEFINE d == i - l
      <4>1. d \in 1 .. 64 /\ i = l + d /\ w[i] = v[d]
        BY <2>4, <2>6, <3>3
      <4> HIDE DEF d
      <4>2. QED
        BY <2>4, <4>1
    <3>4. QED
      BY <3>1, <3>2, <3>3
  <2>10. Starts(w, msg, l + 64)
    BY <2>7, <2>8, <2>9 DEF Starts
  <2>11. QED
    BY <2>2, <2>5, <2>10
<1>5. T = Nat
  <2>1. T \in SUBSET Nat
    OBVIOUS
  <2> HIDE DEF T
  <2>2. QED
    BY <1>3, <1>4, <2>1, Induction
<1>6. Starts(Flat(state, n), msg, 64 * n)
  BY <1>5
<1>7. state = [i \in 1 .. n |-> state[i]]
  BY <1>1
<1>8. QED
  BY <1>6, <1>7 DEF Flat

\* What is transformed and what waits are the message.
LEMMA HoldsMessage ==
    ASSUME NEW ctx, NEW msg, Holds(ctx, msg)
    PROVE  FlattenSeq(ctx.state) \o SubSeq(ctx.buffer, 1, Len(msg) % 64) = msg
<1> DEFINE c == Len(msg)
           q == c \div 64
           r == c % 64
           b == ctx.buffer
           u == FlattenSeq(ctx.state)
           l == 64 * q
           v == SubSeq(b, 1, r)
           w == u \o v
<1>1. msg \in Seq(Cell) /\ Blocks(ctx.state, msg, q) /\ Waits(b, msg, q, r)
  BY DEF Holds
<1>2. c \in Nat
  BY <1>1, SeqFacts
<1>3. q \in Nat /\ r \in 0 .. 63 /\ c = 64 * q + r
  BY <1>2, Places64
<1> HIDE DEF q, r
<1>4. l \in Nat /\ c = l + r
  BY <1>3, SMT
<1>5. Starts(u, msg, l)
  BY <1>1, <1>3, FlatBlocks
<1>6. b \in [1 .. 64 -> Cell] /\ \A j \in 1 .. r : b[j] = msg[l + j]
  BY <1>1 DEF Waits
<1> HIDE DEF l, u, b, c
<1>7. r \in Nat /\ r <= 64
  BY <1>3, PartIs
<1>8. v \in Seq(Cell) /\ Len(v) = r /\ \A j \in 1 .. r : v[j] = msg[l + j]
  <2>1. b \in Seq(Cell) /\ Len(b) = 64
    BY <1>6, BlockSeq
  <2>2. 0 \in Nat /\ 0 + r <= Len(b) /\ 0 + 1 = 1 /\ 0 + r = r
    BY <1>7, <2>1
  <2>3. /\ Piece(b, 0, r) \in Seq(Cell) /\ Len(Piece(b, 0, r)) = r
        /\ \A j \in 1 .. r : Piece(b, 0, r)[j] = b[0 + j]
    BY <1>7, <2>1, <2>2, PieceIs, ZenonT(30)
  <2>4. Piece(b, 0, r) = v
    BY <2>2 DEF Piece
  <2> HIDE DEF v
  <2>5. ASSUME NEW j \in 1 .. r PROVE v[j] = msg[l + j]
    <3>1. 0 + j = j
      BY <1>7
    <3>2. QED
      BY <1>6, <2>3, <2>4, <3>1
  <2>6. QED
    BY <2>3, <2>4, <2>5
<1> HIDE DEF v
<1>9. u \in Seq(Cell) /\ Len(u) = l /\ \A i \in 1 .. l : u[i] = msg[i]
  BY <1>5 DEF Starts
<1>10. w \in Seq(Cell) /\ Behind(w, u, v)
  BY <1>8, <1>9, Joined
<1> HIDE DEF w
<1>11. Len(w) = c
  BY <1>4, <1>8, <1>9, <1>10 DEF Behind
<1>12. ASSUME NEW i \in 1 .. Len(w) PROVE w[i] = msg[i]
  <2>1. \/ i \in 1 .. Len(u) /\ w[i] = u[i]
        \/ i - Len(u) \in 1 .. Len(v) /\ i = Len(u) + (i - Len(u)) /\ w[i] = v[i - Len(u)]
    BY <1>10, BehindPlaces
  <2>2. CASE i \in 1 .. Len(u) /\ w[i] = u[i]
    BY <1>9, <2>2
  <2>3. CASE i - Len(u) \in 1 .. Len(v) /\ i = Len(u) + (i - Len(u)) /\ w[i] = v[i - Len(u)]
    <3> DEFINE d == i - l
    <3>1. d \in 1 .. r /\ i = l + d /\ w[i] = v[d]
      BY <1>8, <1>9, <2>3
    <3> HIDE DEF d
    <3>2. QED
      BY <1>8, <3>1
  <2>4. QED
    BY <2>1, <2>2, <2>3
<1>13. w = msg
  BY <1>1, <1>10, <1>11, <1>12, SeqEqual DEF c
<1>14. QED
  BY <1>13, Zenon DEF w, u, v, b, r, c

\* The message of n octets, and what the call with len more brings.
Message(n) == [i \in 1 .. n |-> <<"data", i>>]
Given(n, len) == [i \in 1 .. len |-> <<"data", n + i>>]

\* A sequence given by its octets.
LEMMA FunSeq ==
    ASSUME NEW S, NEW n \in Nat, NEW f \in [1 .. n -> S]
    PROVE  f \in Seq(S) /\ Len(f) = n
<1> DEFINE g == [i \in 1 .. n |-> f[i]]
<1>1. f \in Seq(S)
  BY SeqDef, Zenon
<1>2. Len(g) = n
  OBVIOUS
<1>3. f = g
  BY Zenon
<1> HIDE DEF g
<1>4. QED
  BY <1>1, <1>2, <1>3

LEMMA GivenSeq ==
    ASSUME NEW n \in Nat, NEW len \in Nat
    PROVE  Given(n, len) \in Seq(Cell) /\ Len(Given(n, len)) = len
           /\ \A i \in 1 .. len : Given(n, len)[i] = <<"data", n + i>>
<1>1. \A i \in 1 .. len : <<"data", n + i>> \in Cell
  BY DEF Cell
<1>2. Given(n, len) \in [1 .. len -> Cell]
  BY <1>1, Zenon DEF Given
<1>3. QED
  BY <1>2, FunSeq DEF Given

LEMMA MessageSeq ==
    ASSUME NEW n \in Nat
    PROVE  Message(n) \in Seq(Cell) /\ Len(Message(n)) = n
           /\ \A i \in 1 .. n : Message(n)[i] = <<"data", i>>
<1>1. \A i \in 1 .. n : <<"data", i>> \in Cell
  BY DEF Cell
<1>2. Message(n) \in [1 .. n -> Cell]
  BY <1>1, Zenon DEF Message
<1>3. QED
  BY <1>2, FunSeq DEF Message

LEMMA MessageNext ==
    ASSUME NEW n \in Nat, NEW len \in Nat
    PROVE  Message(n) \o Given(n, len) = Message(n + len)
<1> DEFINE u == Message(n)
           v == Given(n, len)
           w == u \o v
           m == Message(n + len)
<1>1. u \in Seq(Cell) /\ Len(u) = n /\ \A i \in 1 .. n : u[i] = <<"data", i>>
  BY MessageSeq
<1>2. v \in Seq(Cell) /\ Len(v) = len /\ \A i \in 1 .. len : v[i] = <<"data", n + i>>
  BY GivenSeq
<1>3. m \in Seq(Cell) /\ Len(m) = n + len /\ \A i \in 1 .. n + len : m[i] = <<"data", i>>
  BY MessageSeq, n + len \in Nat
<1> HIDE DEF u, v, m
<1>4. w \in Seq(Cell) /\ Behind(w, u, v)
  BY <1>1, <1>2, Joined
<1> HIDE DEF w
<1>5. Len(w) = n + len
  BY <1>1, <1>2, <1>4 DEF Behind
<1>6. ASSUME NEW i \in 1 .. Len(w) PROVE w[i] = m[i]
  <2>1. m[i] = <<"data", i>>
    BY <1>3, <1>5
  <2>2. \/ i \in 1 .. Len(u) /\ w[i] = u[i]
        \/ i - Len(u) \in 1 .. Len(v) /\ i = Len(u) + (i - Len(u)) /\ w[i] = v[i - Len(u)]
    BY <1>4, BehindPlaces
  <2>3. CASE i \in 1 .. Len(u) /\ w[i] = u[i]
    BY <1>1, <2>1, <2>3
  <2>4. CASE i - Len(u) \in 1 .. Len(v) /\ i = Len(u) + (i - Len(u)) /\ w[i] = v[i - Len(u)]
    <3> DEFINE d == i - n
    <3>1. d \in 1 .. len /\ i = n + d /\ w[i] = v[d]
      BY <1>1, <1>2, <2>4
    <3> HIDE DEF d
    <3>2. QED
      BY <1>2, <2>1, <3>1
  <2>5. QED
    BY <2>2, <2>3, <2>4
<1>7. w = m
  BY <1>3, <1>4, <1>5, <1>6, SeqEqual
<1>8. QED
  BY <1>7 DEF w, u, v, m

\* The padding: one bit and zeros, as few as leave room for the length.
Zeros(n) == [i \in 1 .. n |-> Value(0)]

LEMMA ZerosSeq ==
    ASSUME NEW n \in Nat
    PROVE  Zeros(n) \in Seq(Cell) /\ Len(Zeros(n)) = n /\ \A i \in 1 .. n : Zeros(n)[i] = Value(0)
<1>1. Value(0) \in Cell
  BY DEF Cell, Value
<1>2. Zeros(n) \in [1 .. n -> Cell]
  BY <1>1, Zenon DEF Zeros
<1>3. QED
  BY <1>2, FunSeq DEF Zeros

LEMMA ValueSeq ==
    ASSUME NEW v \in Nat
    PROVE  Value(v) \in Cell /\ <<Value(v)>> \in Seq(Cell) /\ Len(<<Value(v)>>) = 1 /\ <<Value(v)>>[1] = Value(v)
<1>1. Value(v) \in Cell
  BY DEF Cell, Value
<1>2. QED
  BY <1>1

LEMMA PaddingIs ==
    ASSUME NEW z \in Nat
    PROVE  /\ Padding(z + 1) \in Seq(Cell) /\ Len(Padding(z + 1)) = z + 1
           /\ Padding(z + 1) = <<Value(128)>> \o Zeros(z)
<1> DEFINE n == z + 1
           p == Padding(n)
           u == <<Value(128)>>
           v == Zeros(z)
           w == u \o v
<1>1. n \in Nat /\ 128 \in Nat /\ 0 \in Nat
  OBVIOUS
<1>2. \A i \in 1 .. n : Value(IF i = 1 THEN 128 ELSE 0) \in Cell
  BY DEF Value, Cell
<1>3. p = [i \in 1 .. n |-> Value(IF i = 1 THEN 128 ELSE 0)]
  BY Zenon DEF Padding
<1> HIDE DEF p
<1>4. p \in [1 .. n -> Cell]
  BY <1>2, <1>3, Zenon
<1>5. p \in Seq(Cell) /\ Len(p) = n
  BY <1>1, <1>4, FunSeq
<1>6. u \in Seq(Cell) /\ Len(u) = 1 /\ u[1] = Value(128)
  BY <1>1, ValueSeq
<1>7. v \in Seq(Cell) /\ Len(v) = z /\ \A i \in 1 .. z : v[i] = Value(0)
  BY ZerosSeq
<1> HIDE DEF u, v
<1>8. w \in Seq(Cell) /\ Behind(w, u, v)
  BY <1>6, <1>7, Joined
<1> HIDE DEF w
<1>9. Len(w) = n
  BY <1>6, <1>7, <1>8 DEF Behind
<1>10. ASSUME NEW i \in 1 .. Len(w) PROVE w[i] = p[i]
  <2>1. i \in 1 .. n
    BY <1>9
  <2>2. p[i] = Value(IF i = 1 THEN 128 ELSE 0)
    BY <1>3, <2>1, Zenon
  <2>3. \/ i \in 1 .. Len(u) /\ w[i] = u[i]
        \/ i - Len(u) \in 1 .. Len(v) /\ i = Len(u) + (i - Len(u)) /\ w[i] = v[i - Len(u)]
    BY <1>8, BehindPlaces
  <2>4. CASE i \in 1 .. Len(u) /\ w[i] = u[i]
    <3>1. i = 1
      BY <1>6, <2>4
    <3>2. QED
      BY <1>6, <2>2, <2>4, <3>1, Zenon
  <2>5. CASE i - Len(u) \in 1 .. Len(v) /\ i = Len(u) + (i - Len(u)) /\ w[i] = v[i - Len(u)]
    <3>1. i # 1 /\ w[i] = Value(0)
      BY <1>6, <1>7, <2>5
    <3>2. QED
      BY <2>2, <3>1, Zenon
  <2>6. QED
    BY <2>3, <2>4, <2>5
<1>11. w = p
  BY <1>5, <1>8, <1>9, <1>10, SeqEqual
<1>12. QED
  BY <1>5, <1>11 DEF p, w, u, v

\* pad_len leaves 8 octets of a block.
LEMMA PadLenIs ==
    ASSUME NEW c \in Nat
    PROVE  /\ (55 - c) % 64 \in Nat
           /\ PadLen(c % 64) = ((55 - c) % 64) + 1
BY SMT DEF PadLen

\* The length: shifted[i] of Bits, for a message of less than 2^13 octets.
Shifts(f, v) == f[1] = v /\ \A i \in 2 .. 8 : f[i] = f[i - 1] \div 256

LEMMA ShiftsExist ==
    ASSUME NEW v \in Nat
    PROVE  \E f \in [1 .. 8 -> Nat] : Shifts(f, v)
<1> DEFINE step == [y \in Nat \X Nat |-> y[2] \div 256]
           k == 7
<1>1. step \in [Nat \X Nat -> Nat]
  BY SMT
<1>2. 1 \in Nat /\ k \in Nat
  OBVIOUS
<1> HIDE DEF step, k
<1>3. PICK f : Continues(f, Nat, 1, k, v, step)
  BY <1>1, <1>2, Continued
<1>4. 1 + k = 8 /\ 1 + 1 = 2
  BY DEF k
<1>5. f \in [1 .. 8 -> Nat] /\ f[1] = v /\ \A i \in 2 .. 8 : f[i] = step[<<i, f[i - 1]>>]
  BY <1>3, <1>4 DEF Continues
<1>6. ASSUME NEW i \in 2 .. 8 PROVE f[i] = f[i - 1] \div 256
  <2>1. f[i - 1] \in Nat /\ i \in Nat
    BY <1>5
  <2> DEFINE x == f[i - 1]
  <2> HIDE DEF x
  <2>2. step[<<i, x>>] = x \div 256
    BY <2>1 DEF step, x
  <2>3. QED
    BY <1>5, <2>2 DEF x
<1>7. QED
  BY <1>5, <1>6 DEF Shifts

LEMMA BitsShift ==
    ASSUME NEW count \in Nat
    PROVE  \E f : Shifts(f, count * 8) /\ Bits(count) = [i \in 1 .. 8 |-> Value(f[i] % 256)]
<1> DEFINE v == count * 8
           Def(g) == [i \in 1 .. 8 |-> IF i = 1 THEN v ELSE g[i - 1] \div 256]
           f == CHOOSE g : g = Def(g)
<1>1. v \in Nat
  OBVIOUS
<1>2. PICK g \in [1 .. 8 -> Nat] : Shifts(g, v)
  <2> HIDE DEF v
  <2> QED
    BY <1>1, ShiftsExist
<1>3. g = Def(g)
  <2>1. \A i \in 1 .. 8 : i = 1 \/ i \in 2 .. 8
    OBVIOUS
  <2> HIDE DEF v
  <2>2. \A i \in 1 .. 8 : g[i] = IF i = 1 THEN v ELSE g[i - 1] \div 256
    BY <1>2, <2>1 DEF Shifts
  <2>3. QED
    BY <2>2
<1>4. f = Def(f)
  BY <1>3, ZenonT(60)
<1>5. Bits(count) = [i \in 1 .. 8 |-> Value(f[i] % 256)]
  BY Zenon DEF Bits
<1> HIDE DEF f, v
<1>6. f[1] = v /\ \A i \in 2 .. 8 : f[i] = f[i - 1] \div 256
  <2>1. f[1] = v
    BY <1>4
  <2>2. \A i \in 2 .. 8 : i \in 1 .. 8 /\ i # 1
    OBVIOUS
  <2>3. QED
    BY <1>4, <2>1, <2>2
<1>7. QED
  BY <1>5, <1>6 DEF Shifts, v

Small(n) == n < 8192
Length(v) == <<Value(v % 256), Value(v \div 256)>>

LEMMA BitsAre ==
    ASSUME NEW count \in Nat, Small(count)
    PROVE  /\ Length(8 * count) \in Seq(Cell)
           /\ Bits(count) \in Seq(Cell) /\ Len(Bits(count)) = 8
           /\ Bits(count) = Length(8 * count) \o Zeros(6)
<1> DEFINE v == count * 8
           l == v % 256
           h == v \div 256
<1>1. v \in Nat /\ 8 * count = v /\ l \in Nat /\ h \in Nat /\ h % 256 = h /\ h \div 256 = 0
  BY SMT DEF Small
<1>2. PICK f : Shifts(f, v) /\ Bits(count) = [i \in 1 .. 8 |-> Value(f[i] % 256)]
  BY BitsShift
<1> HIDE DEF v, l, h
<1>3. f[1] = v /\ f[2] = h /\ f[3] = 0 /\ f[4] = 0 /\ f[5] = 0 /\ f[6] = 0 /\ f[7] = 0 /\ f[8] = 0
  <2>1. f[1] = v /\ \A i \in 2 .. 8 : f[i] = f[i - 1] \div 256
    BY <1>2 DEF Shifts
  <2>2. f[2] = f[1] \div 256 /\ f[3] = f[2] \div 256 /\ f[4] = f[3] \div 256 /\ f[5] = f[4] \div 256
    BY <2>1
  <2>3. f[6] = f[5] \div 256 /\ f[7] = f[6] \div 256 /\ f[8] = f[7] \div 256
    BY <2>1
  <2>4. 0 \div 256 = 0
    BY SMT
  <2>5. f[2] = h /\ f[3] = 0
    BY <1>1, <2>1, <2>2, SMT DEF h
  <2>6. f[4] = 0 /\ f[5] = 0
    BY <2>2, <2>4, <2>5
  <2>7. f[6] = 0 /\ f[7] = 0 /\ f[8] = 0
    BY <2>3, <2>4, <2>6
  <2>8. QED
    BY <2>1, <2>5, <2>6, <2>7
<1> DEFINE b == Bits(count)
           u == <<Value(l), Value(h)>>
           z == Zeros(6)
           w == u \o z
<1>4. /\ b[1] = Value(f[1] % 256) /\ b[2] = Value(f[2] % 256) /\ b[3] = Value(f[3] % 256)
      /\ b[4] = Value(f[4] % 256) /\ b[5] = Value(f[5] % 256) /\ b[6] = Value(f[6] % 256)
      /\ b[7] = Value(f[7] % 256) /\ b[8] = Value(f[8] % 256) /\ DOMAIN b = 1 .. 8
  BY <1>2
<1>5. 0 % 256 = 0
  BY SMT
<1>6. /\ b[1] = Value(l) /\ b[2] = Value(h) /\ b[3] = Value(0) /\ b[4] = Value(0)
      /\ b[5] = Value(0) /\ b[6] = Value(0) /\ b[7] = Value(0) /\ b[8] = Value(0)
  <2> HIDE DEF b
  <2>1. f[1] % 256 = l /\ f[2] % 256 = h
    BY <1>1, <1>3 DEF l
  <2>2. QED
    BY <1>3, <1>4, <1>5, <2>1, SMT
<1>7. Value(l) \in Cell /\ Value(h) \in Cell /\ Value(0) \in Cell
  BY <1>1, ValueSeq, 0 \in Nat
<1>8. b \in [1 .. 8 -> Cell]
  <2> DEFINE g == [i \in 1 .. 8 |-> Value(f[i] % 256)]
  <2>1. b = g
    BY <1>2
  <2>2. b = [i \in 1 .. 8 |-> b[i]]
    BY <1>2
  <2> HIDE DEF b
  <2>3. \A i \in 1 .. 8 : i = 1 \/ i = 2 \/ i = 3 \/ i = 4 \/ i = 5 \/ i = 6 \/ i = 7 \/ i = 8
    OBVIOUS
  <2>4. \A i \in 1 .. 8 : b[i] \in Cell
    BY <1>6, <1>7, <2>3
  <2>5. QED
    BY <2>2, <2>4
<1>9. b \in Seq(Cell) /\ Len(b) = 8
  <2> HIDE DEF b
  <2> QED
    BY <1>8, FunSeq, 8 \in Nat
<1>10. u \in Seq(Cell) /\ Len(u) = 2 /\ u[1] = Value(l) /\ u[2] = Value(h)
  BY <1>7
<1>11. z \in Seq(Cell) /\ Len(z) = 6 /\ \A i \in 1 .. 6 : z[i] = Value(0)
  BY ZerosSeq, 6 \in Nat
<1> HIDE DEF u, z, b
<1>12. w \in Seq(Cell) /\ Behind(w, u, z)
  BY <1>10, <1>11, Joined
<1> HIDE DEF w
<1>13. Len(w) = 8 /\ w[1] = Value(l) /\ w[2] = Value(h) /\ \A i \in 1 .. 6 : w[2 + i] = Value(0)
  BY <1>10, <1>11, <1>12 DEF Behind
<1>14. w[3] = Value(0) /\ w[4] = Value(0) /\ w[5] = Value(0) /\ w[6] = Value(0) /\ w[7] = Value(0) /\ w[8] = Value(0)
  <2>1. \A i \in 3 .. 8 : i - 2 \in 1 .. 6 /\ 2 + (i - 2) = i
    OBVIOUS
  <2>2. \A i \in 3 .. 8 : w[i] = Value(0)
    BY <1>13, <2>1
  <2>3. QED
    BY <2>2
<1>15. \A i \in 1 .. Len(w) : w[i] = b[i]
  <2>1. \A i \in 1 .. Len(w) : i = 1 \/ i = 2 \/ i = 3 \/ i = 4 \/ i = 5 \/ i = 6 \/ i = 7 \/ i = 8
    BY <1>13
  <2>2. QED
    BY <1>6, <1>13, <1>14, <2>1
<1>16. w = b
  BY <1>9, <1>12, <1>13, <1>15, SeqEqual
<1>17. u = Length(8 * count)
  BY <1>1 DEF u, Length, l, h
<1>18. QED
  BY <1>9, <1>10, <1>16, <1>17 DEF b, w, z

\* What compy_md5_final transforms for a message of n octets.
Closed(n) == (Message(n) \o Padding(PadLen(n % 64))) \o Bits(n)

LEMMA ClosedIs ==
    ASSUME NEW n \in Nat, Small(n)
    PROVE  /\ Closed(n) \in Seq(Cell) /\ Len(Closed(n)) % 64 = 0
           /\ Closed(n) = Message(n) \o <<Value(128)>> \o Zeros((55 - n) % 64)
                          \o Length(8 * n) \o Zeros(6)
<1> DEFINE z == (55 - n) % 64
           p == Padding(z + 1)
           m == Message(n)
           a == <<Value(128)>>
           s == Zeros(z)
           l == Length(8 * n)
           o == Zeros(6)
           b == Bits(n)
<1>1. z \in Nat /\ PadLen(n % 64) = z + 1
  BY PadLenIs
<1>2. (n + (z + 1) + 8) % 64 = 0
  BY SMT
<1> HIDE DEF z
<1>3. p \in Seq(Cell) /\ Len(p) = z + 1 /\ p = a \o s
  BY <1>1, PaddingIs
<1>4. m \in Seq(Cell) /\ Len(m) = n
  BY MessageSeq
<1>5. s \in Seq(Cell)
  BY <1>1, ZerosSeq
<1>6. o \in Seq(Cell)
  BY ZerosSeq, 6 \in Nat
<1>7. a \in Seq(Cell)
  BY ValueSeq, 128 \in Nat
<1>8. l \in Seq(Cell) /\ b \in Seq(Cell) /\ Len(b) = 8 /\ b = l \o o
  BY BitsAre
<1>9. Closed(n) = (m \o p) \o b
  BY <1>1 DEF Closed
<1> HIDE DEF p, m, a, s, l, o, b
<1> DEFINE x == m \o p
           y == x \o b
<1>10. x \in Seq(Cell) /\ Len(x) = n + (z + 1)
  <2>1. p \in Seq(Cell) /\ Len(p) = z + 1
    BY <1>3
  <2>2. QED
    <3>1. x \in Seq(Cell) /\ Len(x) = Len(m) + Len(p)
      BY <1>4, <2>1, ConcatProperties, Zenon
    <3> HIDE DEF x
    <3>2. QED
      BY <1>4, <2>1, <3>1
<1>12. x = (m \o a) \o s
  <2>1. (m \o a) \o s = m \o (a \o s)
    BY <1>4, <1>5, <1>7, ConcatAssociative, SMTT(30)
  <2>2. QED
    BY <1>3, <2>1, Zenon
<1> HIDE DEF x
<1>11. y \in Seq(Cell) /\ Len(y) = n + (z + 1) + 8
  <2>1. b \in Seq(Cell) /\ Len(b) = 8
    BY <1>8
  <2>2. QED
    <3>1. y \in Seq(Cell) /\ Len(y) = Len(x) + Len(b)
      BY <1>10, <2>1, ConcatProperties, Zenon
    <3> HIDE DEF y
    <3>2. QED
      BY <1>10, <2>1, <3>1
<1>13. y = (x \o l) \o o
  <2>1. (x \o l) \o o = x \o (l \o o)
    <3>1. x \in Seq(Cell) /\ l \in Seq(Cell) /\ o \in Seq(Cell)
      BY <1>6, <1>8, <1>10
    <3>2. QED
      BY <3>1, ConcatAssociative
  <2>2. QED
    BY <1>8, <2>1, Zenon
<1> HIDE DEF y
<1>14. Closed(n) = y
  BY <1>9 DEF x, y
<1>15. y = (((m \o a) \o s) \o l) \o o
  BY <1>12, <1>13
<1>16. QED
  BY <1>2, <1>11, <1>14, <1>15 DEF m, a, s, l, o, z

\* A message of whole blocks is all transformed.
LEMMA HoldsWhole ==
    ASSUME NEW ctx, NEW msg, Holds(ctx, msg), Len(msg) % 64 = 0
    PROVE  FlattenSeq(ctx.state) = msg
<1> DEFINE u == FlattenSeq(ctx.state)
           q == Len(msg) \div 64
<1>1. u \o SubSeq(ctx.buffer, 1, 0) = msg
  BY HoldsMessage
<1>2. msg \in Seq(Cell) /\ Blocks(ctx.state, msg, q)
  BY DEF Holds
<1>3. q \in Nat
  BY <1>2, SeqFacts, Places64
<1> HIDE DEF q
<1>4. u \in Seq(Cell)
  BY <1>2, <1>3, FlatBlocks DEF Starts
<1>5. SubSeq(ctx.buffer, 1, 0) = <<>>
  OBVIOUS
<1> HIDE DEF u
<1>6. u \o <<>> = u
  BY <1>4, ConcatEmptySeq
<1>7. QED
  BY <1>1, <1>5, <1>6 DEF u

\* The longest piece.
Longest == CHOOSE n : n \in Nat /\ PieceBound(n)

LEMMA LongestIs ==
    /\ Longest \in Nat /\ MaxPieces \in Nat /\ Longest * MaxPieces < 8192
    /\ \A len \in Pieces : len \in Nat /\ len <= Longest
<1>1. Pieces \subseteq Nat /\ MaxPieces \in Nat
  BY Md5Assumption
<1>2. \E n : n \in Nat /\ PieceBound(n)
  <2>1. PICK n \in MessageLengths : PieceBound(n)
    BY Md5Assumption, Zenon
  <2>2. n \in Nat
    BY SMT DEF MessageLengths
  <2>3. QED
    BY <2>1, <2>2, Zenon
<1>3. Longest \in Nat /\ PieceBound(Longest)
  BY <1>2, Zenon DEF Longest
<1>4. QED
  BY <1>1, <1>3, SMT DEF PieceBound, MessageLengths

LEMMA Multiplied ==
    ASSUME NEW a \in Nat, NEW p \in Nat
    PROVE  a * p \in Nat /\ a * (p + 1) = a * p + a
BY SMTT(30)

LEMMA SmallFed ==
    ASSUME NEW n \in Nat, NEW p \in Nat, p <= MaxPieces, n <= Longest * p
    PROVE  Small(n)
<1> DEFINE a == Longest
           m == MaxPieces
           x == a * p
           d == m - p
<1>1. a \in Nat /\ m \in Nat /\ a * m < 8192
  BY LongestIs
<1>2. d \in Nat /\ m = p + d
  BY <1>1
<1> HIDE DEF d, a, m
<1>3. a * m = x + a * d /\ x \in Nat /\ a * d \in Nat
  BY <1>1, <1>2, SMTT(30)
<1>4. n <= x
  BY DEF a
<1> DEFINE y == a * d
           z == a * m
<1> HIDE DEF x, y, z
<1>5. z = x + y /\ x \in Nat /\ y \in Nat /\ z < 8192
  BY <1>1, <1>3 DEF x, y, z
<1>6. QED
  BY <1>4, <1>5, SMT DEF Small
-----------------------------------------------------------------------------
(* The context of a digest.                                                *)

Md5Inv ==
    /\ m_fed \in Nat /\ m_pieces \in Nat /\ m_pieces <= MaxPieces /\ m_fed <= Longest * m_pieces
    /\ m_final \in BOOLEAN
    /\ Holds(md5, IF m_final THEN Closed(m_fed) ELSE Message(m_fed))

\* What the invariant says: all of it is Md5Blocks.
LEMMA Md5InvBlocks == Md5Inv => Md5Blocks
<1> SUFFICES ASSUME Md5Inv PROVE Md5Blocks
  OBVIOUS
<1>1. m_fed \in Nat /\ m_pieces \in Nat /\ m_pieces <= MaxPieces /\ m_fed <= Longest * m_pieces /\ m_final \in BOOLEAN
  BY DEF Md5Inv
<1>2. Small(m_fed)
  BY <1>1, SmallFed
<1>3. CASE m_final
  <2>1. Holds(md5, Closed(m_fed))
    BY <1>3 DEF Md5Inv
  <2>2. FlattenSeq(md5.state) = Closed(m_fed)
    BY <1>1, <1>2, <2>1, ClosedIs, HoldsWhole
  <2>3. FlattenSeq(md5.state) = Message(m_fed) \o <<Value(128)>> \o Zeros((55 - m_fed) % 64)
                                \o Length(8 * m_fed) \o Zeros(6)
    BY <1>1, <1>2, <2>2, ClosedIs
  <2>4. QED
    BY <1>3, <2>3 DEF Md5Blocks, Message, Zeros, Length, BLOCK
<1>4. CASE ~m_final
  <2>1. Holds(md5, Message(m_fed))
    BY <1>4 DEF Md5Inv
  <2>2. FlattenSeq(md5.state) \o SubSeq(md5.buffer, 1, m_fed % 64) = Message(m_fed)
    BY <1>1, <2>1, MessageSeq, HoldsMessage
  <2>3. QED
    BY <1>4, <2>2 DEF Md5Blocks, Message, BLOCK
<1>5. QED
  BY <1>1, <1>3, <1>4

LEMMA Md5Start == Md5Init => Md5Inv
<1> SUFFICES ASSUME Md5Init PROVE Md5Inv
  OBVIOUS
<1> DEFINE b == [i \in 1 .. 64 |-> Unset]
           e == <<>>
<1>1. md5 = Context(e, 0, b) /\ m_fed = 0 /\ m_pieces = 0 /\ m_final = FALSE
  BY Zenon DEF Md5Init, Context, BLOCK
<1>2. Message(0) \in Seq(Cell) /\ Len(Message(0)) = 0 /\ 0 \in Nat
  BY MessageSeq, 0 \in Nat
<1>3. b \in [1 .. 64 -> Cell]
  <2>1. Unset \in Cell
    BY DEF Unset, Cell
  <2>2. QED
    BY <2>1
<1> DEFINE w == Message(0)
<1>4. Blocks(e, w, 0) /\ Waits(b, w, 0, 0)
  <2>1. e \in Seq(Seq(Cell)) /\ Len(e) = 0 /\ \A i \in 1 .. 0 : FALSE
    OBVIOUS
  <2>2. QED
    BY <1>3, <2>1, Zenon DEF Blocks, Waits
<1> HIDE DEF b, e, w
<1>5. w \in Seq(Cell) /\ Len(w) = 64 * 0 + 0 /\ 0 \in 0 .. 63
  BY <1>2 DEF w
<1>6. Holds(Context(e, Len(w), b), w)
  BY <1>2, <1>4, <1>5, HoldsIs
<1>7. Holds(md5, Message(0))
  BY <1>1, <1>2, <1>6 DEF w
<1>8. 0 <= MaxPieces /\ 0 <= Longest * 0
  BY LongestIs
<1>9. QED
  BY <1>1, <1>7, <1>8, 0 \in Nat DEF Md5Inv

LEMMA UpdateStep ==
    ASSUME Md5Inv, NEW len \in Pieces, Update(len)
    PROVE  Md5Inv'
<1>1. /\ m_fed \in Nat /\ m_pieces \in Nat /\ m_pieces <= MaxPieces /\ m_fed <= Longest * m_pieces
      /\ ~m_final /\ Holds(md5, Message(m_fed))
  BY DEF Md5Inv, Update
<1>2. /\ m_pieces < MaxPieces /\ md5' = Md5Update(md5, Given(m_fed, len))
      /\ m_fed' = m_fed + len /\ m_pieces' = m_pieces + 1 /\ m_final' = m_final
  BY Zenon DEF Update, Given
<1>3. len \in Nat /\ len <= Longest /\ Longest \in Nat /\ MaxPieces \in Nat
  BY LongestIs
<1>4. Given(m_fed, len) \in Seq(Cell)
  BY <1>1, <1>3, GivenSeq
<1>5. Holds(md5', Message(m_fed) \o Given(m_fed, len))
  BY <1>1, <1>2, <1>4, UpdateHolds
<1>6. Holds(md5', Message(m_fed'))
  BY <1>1, <1>2, <1>3, <1>5, MessageNext
<1>7. m_fed' \in Nat /\ m_pieces' \in Nat /\ m_pieces' <= MaxPieces
  BY <1>1, <1>2, <1>3
<1>8. m_fed' <= Longest * m_pieces'
  <2> DEFINE x == Longest * m_pieces
             y == Longest * (m_pieces + 1)
  <2>1. x \in Nat /\ y = x + Longest
    BY <1>1, <1>3, Multiplied
  <2> HIDE DEF x, y
  <2>2. m_fed <= x
    BY <1>1 DEF x
  <2>3. m_fed + len <= y
    BY <1>1, <1>3, <2>1, <2>2
  <2>4. QED
    BY <1>2, <2>3 DEF y
<1>9. QED
  BY <1>1, <1>2, <1>6, <1>7, <1>8 DEF Md5Inv

LEMMA FinalStep ==
    ASSUME Md5Inv, Final
    PROVE  Md5Inv'
<1>1. /\ m_fed \in Nat /\ m_pieces \in Nat /\ m_pieces <= MaxPieces /\ m_fed <= Longest * m_pieces
      /\ ~m_final /\ Holds(md5, Message(m_fed))
  BY DEF Md5Inv, Final
<1> DEFINE n == m_fed
           p == Padding(PadLen(n % 64))
           b == Bits(n)
<1>2. md5.count = n
  BY <1>1, MessageSeq DEF Holds
<1>3. md5' = Md5Update(Md5Update(md5, p), b) /\ m_final' = TRUE /\ m_fed' = m_fed /\ m_pieces' = m_pieces
  BY <1>2, Zenon DEF Final, BLOCK
<1>4. Small(n)
  BY <1>1, SmallFed
<1>5. p \in Seq(Cell)
  BY <1>1, PadLenIs, PaddingIs
<1>6. b \in Seq(Cell)
  BY <1>1, <1>4, BitsAre
<1> HIDE DEF p, b
<1>7. Holds(Md5Update(md5, p), Message(n) \o p)
  BY <1>1, <1>5, UpdateHolds
<1>8. Holds(md5', (Message(n) \o p) \o b)
  BY <1>3, <1>6, <1>7, UpdateHolds
<1>9. Holds(md5', Closed(n))
  BY <1>8, Zenon DEF Closed, p, b
<1>10. QED
  BY <1>1, <1>3, <1>9 DEF Md5Inv

\* However a message is cut into the calls of compy_md5_update, md5_transform
\* is given exactly its octets and its padding and length, in order.
THEOREM Md5BlocksRight == Md5Spec => []Md5Blocks
<1>1. Md5Inv /\ [Md5Next]_md5Vars => Md5Inv'
  <2> SUFFICES ASSUME Md5Inv, [Md5Next]_md5Vars PROVE Md5Inv'
    OBVIOUS
  <2>1. CASE \E len \in Pieces : Update(len)
    BY <2>1, UpdateStep
  <2>2. CASE Final
    BY <2>2, FinalStep
  <2>3. CASE UNCHANGED md5Vars
    BY <2>3 DEF md5Vars, Md5Inv
  <2>4. QED
    BY <2>1, <2>2, <2>3 DEF Md5Next
<1>2. QED
  BY <1>1, Md5Start, Md5InvBlocks, PTL DEF Md5Spec
=============================================================================
