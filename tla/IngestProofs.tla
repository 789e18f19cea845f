---------------------------- MODULE IngestProofs ----------------------------
(***************************************************************************)
(* Proofs about what the server reads.  Ingest dispatches in order and     *)
(* skips nothing before its first loss, for every set of messages and      *)
(* every capacity.  NalUnits, for any file: which units of it the server   *)
(* finds, and what becomes of their headers on the wire.                   *)
(***************************************************************************)
EXTENDS Ingest, NalUnits, DataLemmas

-----------------------------------------------------------------------------
(* Ingest.                                                                 *)

\* The messages lie one behind the other.
WireOK ==
    /\ wire \in Seq([kind : Kinds, end : Nat])
    /\ \A i \in 1 .. Len(wire) : End(i) = Begin(i) + wire[i].kind.size
    /\ \A i, j \in 0 .. Len(wire) : i < j => End(i) < End(j)

\* The buffer is a stretch of what has arrived.
PositionsOK ==
    /\ head \in Nat /\ tail \in Nat /\ arrived \in Nat
    /\ head <= tail /\ tail <= arrived /\ arrived <= Sent
    /\ tail - head <= Capacity

\* What was dispatched lies in front of the buffer.
LogBehind ==
    /\ log \in Seq(Nat)
    /\ \A n \in 1 .. Len(log) : log[n] \in Requests /\ End(log[n]) <= head

IngestInv ==
    /\ WireOK
    /\ PositionsOK
    /\ pipelined \in BOOLEAN
    /\ LogBehind
    /\ InOrder
    /\ NothingSkipped

-----------------------------------------------------------------------------
\* A message of the wire is a message with a position.
LEMMA MessageType ==
    ASSUME WireOK, NEW i \in 1 .. Len(wire)
    PROVE  wire[i] \in [kind : Kinds, end : Nat]
<1> DEFINE S == [kind : Kinds, end : Nat]
<1>1. wire \in Seq(S)
  BY DEF WireOK
<1> HIDE DEF S
<1>2. wire[i] \in S
  BY <1>1
<1> QED
  BY <1>2 DEF S

\* Positions are numbers.
LEMMA EndIsNat ==
    ASSUME WireOK
    PROVE  Len(wire) \in Nat /\ \A i \in 0 .. Len(wire) : End(i) \in Nat
<1>0. wire \in Seq([kind : Kinds, end : Nat])
  BY DEF WireOK
<1>a. Len(wire) \in Nat
  BY <1>0
<1> SUFFICES ASSUME NEW i \in 0 .. Len(wire)
             PROVE  End(i) \in Nat
  BY <1>a
<1>1. CASE i = 0
  BY <1>1 DEF End
<1>2. CASE i # 0
  <2>1. wire[i] \in [kind : Kinds, end : Nat]
    <3>1. i \in 1 .. Len(wire)
      BY <1>2
    <3> QED
      BY <3>1, MessageType
  <2> QED
    BY <1>2, <2>1 DEF End
<1> QED
  BY <1>1, <1>2

\* What Compy_Request_parse may answer on the buffer from h to t: the new head is
\* inside the buffer; a request that is dispatched begins in the buffer and ends
\* at the new head; and from the beginning of a message on, if nothing is lost,
\* the head stays or moves behind the first request.
LEMMA ParseResult ==
    ASSUME WireOK, NEW h \in Nat, NEW t \in Nat, h <= t, NEW r \in Parse(h, t)
    PROVE  /\ r.head \in Nat /\ h <= r.head /\ r.head <= t
           /\ r.request # 0 =>
                /\ r.request \in Requests
                /\ h <= Begin(r.request) /\ r.head = End(r.request)
           /\ Aligned(h) /\ ~r.lost =>
                \/ r.request = 0 /\ r.head = h
                \/ r.request \in Firsts({ i \in Ahead(h) : Begin(i) < t })
<1> DEFINE begun == { i \in Ahead(h) : Begin(i) < t }
<1>0. Len(wire) \in Nat
  BY EndIsNat
<1>1. CASE ~Aligned(h)
  BY <1>1 DEF Parse, Partial, Failure, Complete
<1>2. CASE Aligned(h) /\ begun = {}
  BY <1>2 DEF Parse, Partial
<1>3. CASE Aligned(h) /\ begun # {}
  <2>1. PICK i \in Firsts(begun) : r \in ParseRequest(i, h, t)
    BY <1>3 DEF Parse
  <2>2. i \in Requests /\ h <= Begin(i) /\ Begin(i) < t /\ i \in 1 .. Len(wire)
    BY <2>1 DEF Firsts, Ahead, Requests
  <2>3. /\ i # 0 /\ End(i) \in Nat /\ Begin(i) \in Nat /\ wire[i].kind.size \in Nat
        /\ End(i) = Begin(i) + wire[i].kind.size
    <3>1. wire[i] \in [kind : Kinds, end : Nat]
      BY <2>2, MessageType
    <3>2. wire[i].kind.size \in Nat
      BY <3>1, IngestAssumption
    <3>3. i \in 0 .. Len(wire) /\ i - 1 \in 0 .. Len(wire)
      BY <1>0, <2>2
    <3>4. End(i) \in Nat /\ Begin(i) \in Nat
      BY <3>3, EndIsNat DEF Begin
    <3> QED
      BY <2>2, <3>2, <3>4 DEF WireOK
  <2>4. CASE r = Partial(h)
    BY <2>4 DEF Partial
  <2>5. CASE r = Failure(t)
    BY <2>5 DEF Failure
  <2>6. CASE r = Complete(Consumed(i, h), i) /\ Whole(wire[i].kind, t - Begin(i))
    <3>1. Consumed(i, h) = End(i)
      BY <2>3 DEF Consumed
    <3>2. End(i) <= t /\ h <= End(i)
      BY <2>2, <2>3, <2>6 DEF Whole
    <3>3. r.head = End(i) /\ r.request = i
      BY <2>6, <3>1 DEF Complete
    <3> QED
      BY <2>1, <2>2, <2>3, <3>2, <3>3
  <2> QED
    BY <2>1, <2>4, <2>5, <2>6 DEF ParseRequest
<1> QED
  BY <1>1, <1>2, <1>3

\* If the first request behind an aligned head h is i, then the requests that end
\* at the end of i or before are those that end at h or before, and i.
LEMMA FirstIsNext ==
    ASSUME WireOK, NEW h \in Nat, NEW t \in Nat, Aligned(h),
           NEW i \in Firsts({ j \in Ahead(h) : Begin(j) < t })
    PROVE  { j \in Requests : End(j) <= End(i) } = { j \in Requests : End(j) <= h } \cup {i}
<1>0. Len(wire) \in Nat /\ \A j \in 0 .. Len(wire) : End(j) \in Nat
  BY EndIsNat
<1>1. PICK m \in 0 .. Len(wire) : h = End(m)
  BY DEF Aligned
<1>2. i \in Requests /\ i \in 1 .. Len(wire) /\ h <= Begin(i) /\ Begin(i) < t
  BY DEF Firsts, Ahead, Requests
<1>a. i - 1 \in 0 .. Len(wire) /\ i \in 0 .. Len(wire) /\ i - 1 < i
  BY <1>0, <1>2
<1>3. Begin(i) < End(i)
  BY <1>a DEF WireOK, Begin
<1>4. ASSUME NEW j \in Requests, End(j) <= End(i), j # i
      PROVE  End(j) <= h
  <2>1. j \in 1 .. Len(wire) /\ j \in 0 .. Len(wire) /\ j - 1 \in 0 .. Len(wire)
    BY <1>0 DEF Requests
  <2>2. j < i
    <3>1. End(i) \in Nat /\ End(j) \in Nat /\ ~(End(i) < End(j))
      BY <1>0, <1>a, <1>4, <2>1
    <3>2. ~(i < j)
      BY <1>a, <2>1, <3>1 DEF WireOK
    <3> QED
      BY <1>0, <1>2, <1>4, <2>1, <3>2
  <2>3. Begin(j) < Begin(i)
    <3>1. j - 1 < i - 1
      BY <1>0, <1>2, <2>1, <2>2
    <3> QED
      BY <1>a, <2>1, <3>1 DEF WireOK, Begin
  <2>4. ~(h <= Begin(j))
    <3> SUFFICES ASSUME h <= Begin(j) PROVE FALSE
      OBVIOUS
    <3>1. Begin(j) \in Nat /\ Begin(i) \in Nat
      BY <1>0, <1>a, <2>1 DEF Begin
    <3>2. j \in Ahead(h) /\ Begin(j) < t
      BY <1>2, <2>3, <3>1 DEF Ahead
    <3>3. i <= j
      BY <3>2 DEF Firsts
    <3> QED
      BY <1>2, <2>1, <2>2, <3>3
  <2>5. j - 1 < m
    <3>1. m < j - 1 => End(m) < End(j - 1)
      BY <2>1 DEF WireOK
    <3>2. End(m) \in Nat /\ End(j - 1) \in Nat /\ ~(End(m) <= End(j - 1))
      BY <1>0, <1>1, <2>1, <2>4 DEF Begin
    <3>3. m # j - 1
      BY <3>2
    <3> QED
      BY <1>0, <2>1, <3>1, <3>2, <3>3
  <2>6. j = m \/ j < m
    BY <1>0, <2>1, <2>5
  <2>7. j < m => End(j) < End(m)
    BY <2>1 DEF WireOK
  <2> QED
    BY <1>0, <1>1, <2>1, <2>6, <2>7
<1>5. ASSUME NEW j \in Requests, End(j) <= h
      PROVE  End(j) <= End(i)
  <2>1. End(i) \in Nat /\ Begin(i) \in Nat /\ End(j) \in Nat
    BY <1>0, <1>a DEF Requests, Begin
  <2> QED
    BY <1>2, <1>3, <1>5, <2>1
<1>6. End(i) <= End(i)
  BY <1>0, <1>a
<1> QED
  BY <1>2, <1>4, <1>5, <1>6, Zenon
-----------------------------------------------------------------------------
\* A message more changes nothing about the messages there are.
LEMMA SendExtends ==
    ASSUME WireOK, NEW k \in Kinds, Send(k)
    PROVE  /\ Len(wire') = Len(wire) + 1
           /\ \A i \in 0 .. Len(wire) : End(i)' = End(i)
           /\ \A i \in 1 .. Len(wire) : wire'[i] = wire[i]
           /\ wire'[Len(wire) + 1].kind = k
           /\ \A i \in Nat : i = Len(wire) + 1 => End(i)' = Sent + k.size
           /\ Sent' = Sent + k.size
           /\ WireOK'
<1> DEFINE m == [kind |-> k, end |-> Sent + k.size]
<1>0. Len(wire) \in Nat /\ \A i \in 0 .. Len(wire) : End(i) \in Nat
  BY EndIsNat
<1>1. Sent \in Nat /\ k.size \in Nat /\ k.size > 0
  BY <1>0, IngestAssumption DEF Sent
<1>2. m \in [kind : Kinds, end : Nat]
  BY <1>1
<1>3. wire \in Seq([kind : Kinds, end : Nat])
  BY DEF WireOK
<1>4. wire' = Append(wire, m)
  BY DEF Send
<1>5. wire' \in Seq([kind : Kinds, end : Nat]) /\ Len(wire') = Len(wire) + 1
  BY <1>2, <1>3, <1>4
<1>6. /\ \A i \in 1 .. Len(wire) : wire'[i] = wire[i]
      /\ wire'[Len(wire) + 1] = m
  BY <1>2, <1>3, <1>4
<1>7. \A i \in 0 .. Len(wire) : End(i)' = End(i)
  BY <1>0, <1>6 DEF End
<1>8. \A i \in Nat : i = Len(wire) + 1 => End(i)' = Sent + k.size
  BY <1>0, <1>6 DEF End
<1>8a. Sent' = Sent + k.size
  <2>1. Len(wire') # 0 /\ wire'[Len(wire')].end = Sent + k.size
    BY <1>0, <1>5, <1>6
  <2> QED
    BY <2>1 DEF Sent, End
<1>9. \A i \in 1 .. Len(wire') : End(i)' = Begin(i)' + wire'[i].kind.size
  <2> SUFFICES ASSUME NEW i \in 1 .. Len(wire')
               PROVE  End(i)' = End(i - 1)' + wire'[i].kind.size
    BY DEF Begin
  <2>1. CASE i = Len(wire) + 1
    <3>1. End(i - 1)' = Sent
      BY <1>0, <1>7, <2>1 DEF Sent
    <3> QED
      BY <1>0, <1>6, <1>8, <2>1, <3>1
  <2>2. CASE i # Len(wire) + 1
    <3>1. i \in 1 .. Len(wire) /\ i \in 0 .. Len(wire) /\ i - 1 \in 0 .. Len(wire)
      BY <1>0, <1>5, <2>2
    <3>2. End(i) = End(i - 1) + wire[i].kind.size
      BY <3>1 DEF WireOK, Begin
    <3> QED
      BY <1>6, <1>7, <3>1, <3>2
  <2> QED
    BY <2>1, <2>2
<1>10. \A i, j \in 0 .. Len(wire') : i < j => End(i)' < End(j)'
  <2> SUFFICES ASSUME NEW i \in 0 .. Len(wire'), NEW j \in 0 .. Len(wire'), i < j
               PROVE  End(i)' < End(j)'
    OBVIOUS
  <2>1. i \in 0 .. Len(wire)
    BY <1>0, <1>5
  <2>2. CASE j = Len(wire) + 1
    <3>1. End(i) <= Sent
      <4>1. CASE i = Len(wire)
        BY <1>1, <4>1 DEF Sent
      <4>2. CASE i < Len(wire)
        <5>1. End(i) < End(Len(wire))
          BY <1>0, <2>1, <4>2 DEF WireOK
        <5> QED
          BY <1>0, <2>1, <5>1 DEF Sent
      <4> QED
        BY <1>0, <2>1, <4>1, <4>2
    <3> QED
      BY <1>0, <1>1, <1>7, <1>8, <2>1, <2>2, <3>1
  <2>3. CASE j # Len(wire) + 1
    <3>1. j \in 0 .. Len(wire)
      BY <1>0, <1>5, <2>3
    <3> QED
      BY <1>7, <2>1, <3>1 DEF WireOK
  <2> QED
    BY <2>2, <2>3
<1>11. WireOK'
  BY <1>5, <1>9, <1>10 DEF WireOK
<1> QED
  BY <1>5, <1>6, <1>7, <1>8, <1>8a, <1>11

\* A client that sends does not disturb the invariant.
LEMMA SendKeeps ==
    ASSUME IngestInv, NEW k \in Kinds, Send(k)
    PROVE  IngestInv'
<1>0. WireOK /\ Len(wire) \in Nat /\ \A i \in 0 .. Len(wire) : End(i) \in Nat
  <2>1. WireOK
    BY DEF IngestInv
  <2> QED
    BY <2>1, EndIsNat
<1>1. /\ Len(wire') = Len(wire) + 1
      /\ \A i \in 0 .. Len(wire) : End(i)' = End(i)
      /\ \A i \in 1 .. Len(wire) : wire'[i] = wire[i]
      /\ wire'[Len(wire) + 1].kind = k
      /\ \A i \in Nat : i = Len(wire) + 1 => End(i)' = Sent + k.size
      /\ Sent' = Sent + k.size
      /\ WireOK'
  BY <1>0, SendExtends
<1>2. arrived' = arrived /\ head' = head /\ tail' = tail /\ log' = log /\ loss' = loss
  BY DEF Send
<1>3. Sent \in Nat /\ k.size \in Nat /\ k.size > 0 /\ Sent' = Sent + k.size
  BY <1>0, <1>1, IngestAssumption DEF Sent
<1>4. PositionsOK'
  BY <1>2, <1>3 DEF IngestInv, PositionsOK
<1>5. pipelined' \in BOOLEAN
  BY DEF Send, IngestInv
<1>6. /\ Requests \subseteq Requests'
      /\ Requests' \subseteq Requests \cup {Len(wire) + 1}
  BY <1>0, <1>1 DEF Requests
<1>7. \A i \in Requests : End(i)' = End(i)
  BY <1>0, <1>1 DEF Requests
<1>8. LogBehind'
  BY <1>2, <1>6, <1>7 DEF IngestInv, LogBehind
<1>9. InOrder'
  BY <1>2 DEF IngestInv, InOrder
<1>10. NothingSkipped'
  <2> SUFFICES ASSUME loss = None
               PROVE  /\ Aligned(head)'
                      /\ Dispatched' = { i \in Requests : End(i) <= head }'
    BY <1>2 DEF NothingSkipped
  <2>1. Aligned(head) /\ Dispatched = { i \in Requests : End(i) <= head }
    BY DEF IngestInv, NothingSkipped
  <2>2. PICK i \in 0 .. Len(wire) : head = End(i)
    BY <2>1 DEF Aligned
  <2>3. Aligned(head)'
    <3>1. i \in 0 .. Len(wire') /\ head' = End(i)'
      BY <1>0, <1>1, <1>2, <2>2
    <3> QED
      BY <3>1 DEF Aligned
  <2>4. ASSUME NEW j \in Requests', End(j)' <= head'
        PROVE  j \in Requests
    <3>1. CASE j = Len(wire) + 1
      <4>1. End(j)' = Sent + k.size
        BY <1>0, <1>1, <3>1
      <4> QED
        BY <1>2, <1>3, <2>4, <4>1 DEF IngestInv, PositionsOK
    <3> QED
      BY <1>6, <3>1
  <2>5. { j \in Requests : End(j) <= head }' = { j \in Requests : End(j) <= head }
    BY <1>2, <1>6, <1>7, <2>4
  <2>6. Dispatched' = Dispatched
    BY <1>2 DEF Dispatched
  <2> QED
    BY <2>1, <2>3, <2>5, <2>6
<1> QED
  BY <1>1, <1>4, <1>5, <1>8, <1>9, <1>10 DEF IngestInv

\* An iteration of the receive loop keeps the invariant.
LEMMA IterateKeeps ==
    ASSUME IngestInv, Iterate
    PROVE  IngestInv'
<1> DEFINE h == IF Room THEN head ELSE tail
           t == IF arrived < Fits(h) THEN arrived ELSE Fits(h)
<1>0. WireOK /\ Len(wire) \in Nat /\ \A i \in 0 .. Len(wire) : End(i) \in Nat
  <2>1. WireOK
    BY DEF IngestInv
  <2> QED
    BY <2>1, EndIsNat
<1>1. PICK r \in Parse(h, t) :
        /\ head' = r.head
        /\ Dispatch(r.request)
        /\ loss' = IF loss # None THEN loss
                   ELSE IF ~Room THEN [head |-> head, tail |-> tail]
                   ELSE IF r.lost THEN [head |-> h, tail |-> t]
                   ELSE None
  BY DEF Iterate
<1>2. tail' = t /\ tail < arrived /\ wire' = wire /\ arrived' = arrived /\ pipelined' = pipelined
  BY DEF Iterate
<1>3. h \in Nat /\ t \in Nat /\ head <= h /\ h <= t /\ t <= arrived /\ t - h <= Capacity
  BY <1>2, IngestAssumption DEF IngestInv, PositionsOK, Fits
<1> HIDE DEF h, t
<1>4. /\ r.head \in Nat /\ h <= r.head /\ r.head <= t
      /\ r.request # 0 =>
            /\ r.request \in Requests
            /\ h <= Begin(r.request) /\ r.head = End(r.request)
      /\ Aligned(h) /\ ~r.lost =>
            \/ r.request = 0 /\ r.head = h
            \/ r.request \in Firsts({ i \in Ahead(h) : Begin(i) < t })
  BY <1>0, <1>3, ParseResult
<1>5. WireOK' /\ Requests' = Requests /\ Sent' = Sent /\ \A i : End(i)' = End(i)
  BY <1>0, <1>2 DEF WireOK, Requests, Sent, Begin, End
<1>6. PositionsOK'
  BY <1>1, <1>2, <1>3, <1>4, <1>5, IngestAssumption DEF IngestInv, PositionsOK
<1>7. pipelined' \in BOOLEAN
  BY <1>2 DEF IngestInv
<1>8. Requests \subseteq Nat /\ \A i \in Requests : End(i) \in Nat
  BY <1>0 DEF Requests
<1>9. head \in Nat /\ head <= head' /\ log \in Seq(Nat) /\ Len(log) \in Nat
  BY <1>1, <1>3, <1>4 DEF IngestInv, PositionsOK, LogBehind
<1>10. CASE r.request = 0
  <2>1. log' = log
    BY <1>1, <1>10 DEF Dispatch
  <2>2. LogBehind'
    BY <1>1, <1>4, <1>5, <1>8, <1>9, <2>1 DEF IngestInv, LogBehind
  <2>3. InOrder'
    BY <2>1 DEF IngestInv, InOrder
  <2>4. NothingSkipped'
    <3> SUFFICES ASSUME loss' = None
                 PROVE  /\ Aligned(head)'
                        /\ Dispatched' = { i \in Requests : End(i) <= head }'
      BY DEF NothingSkipped
    <3>1. loss = None /\ Room /\ ~r.lost
      BY <1>1, <1>3, IngestAssumption DEF IngestInv, PositionsOK
    <3>2. h = head
      BY <3>1 DEF h
    <3>3. Aligned(head) /\ Dispatched = { i \in Requests : End(i) <= head }
      BY <3>1 DEF IngestInv, NothingSkipped
    <3>4. head' = head
      BY <1>1, <1>4, <1>8, <1>10, <3>1, <3>2, <3>3 DEF Firsts, Ahead, Requests
    <3>5. Dispatched' = Dispatched
      BY <2>1 DEF Dispatched
    <3> QED
      BY <1>2, <1>5, <3>3, <3>4, <3>5 DEF Aligned
  <2> QED
    BY <1>5, <1>6, <1>7, <2>2, <2>3, <2>4 DEF IngestInv
<1>11. CASE r.request # 0
  <2> DEFINE i == r.request
  <2>0. i \in Requests /\ i \in Nat /\ i \in 1 .. Len(wire)
    BY <1>4, <1>8, <1>11 DEF Requests
  <2>1. log' = Append(log, i)
    BY <1>1, <1>11 DEF Dispatch
  <2>2. head' = End(i) /\ head <= Begin(i) /\ Begin(i) < End(i)
    <3>1. i \in 0 .. Len(wire) /\ i - 1 \in 0 .. Len(wire) /\ i - 1 < i
      BY <1>0, <2>0
    <3>2. Begin(i) < End(i) /\ Begin(i) \in Nat
      BY <1>0, <3>1 DEF WireOK, Begin
    <3> QED
      BY <1>1, <1>3, <1>4, <1>9, <1>11, <3>2
  <2> HIDE DEF i
  <2>3. /\ log' \in Seq(Nat) /\ Len(log') = Len(log) + 1
        /\ \A n \in 1 .. Len(log) : log'[n] = log[n]
        /\ log'[Len(log) + 1] = i
    BY <1>9, <2>0, <2>1
  <2>4. \A n \in 1 .. Len(log) : log[n] \in Requests /\ End(log[n]) <= head
    BY DEF IngestInv, LogBehind
  <2>5. LogBehind'
    <3> SUFFICES ASSUME NEW n \in 1 .. Len(log')
                 PROVE  log'[n] \in Requests /\ End(log'[n]) <= head'
      BY <1>5, <2>3 DEF LogBehind
    <3>1. CASE n = Len(log) + 1
      BY <1>8, <2>0, <2>2, <2>3, <3>1
    <3>2. CASE n # Len(log) + 1
      <4>1. n \in 1 .. Len(log)
        BY <1>9, <2>3, <3>2
      <4>2. log'[n] = log[n] /\ log[n] \in Requests /\ End(log[n]) <= head /\ End(log[n]) \in Nat
        BY <1>8, <2>3, <2>4, <4>1
      <4> QED
        BY <1>1, <1>4, <1>9, <4>2
    <3> QED
      BY <3>1, <3>2
  <2>6. \A n \in 1 .. Len(log) : log[n] < i
    <3> SUFFICES ASSUME NEW n \in 1 .. Len(log)
                 PROVE  log[n] < i
      OBVIOUS
    <3>1. log[n] \in Requests /\ log[n] \in Nat /\ log[n] \in 1 .. Len(wire)
      BY <1>8, <2>4 DEF Requests
    <3>2. End(log[n]) <= head /\ End(log[n]) \in Nat /\ End(i) \in Nat /\ head < End(i)
      <4>1. i - 1 \in 0 .. Len(wire)
        BY <1>0, <2>0
      <4>2. Begin(i) \in Nat
        BY <1>0, <4>1 DEF Begin
      <4> QED
        BY <1>8, <1>9, <2>0, <2>2, <2>4, <3>1, <4>2
    <3>3. ~(i < log[n]) /\ i # log[n]
      <4>1. i \in 0 .. Len(wire) /\ log[n] \in 0 .. Len(wire)
        BY <1>0, <2>0, <3>1
      <4>2. i < log[n] => End(i) < End(log[n])
        BY <1>0, <4>1 DEF WireOK
      <4>3. End(log[n]) < End(i)
        BY <1>9, <3>2
      <4>4. i # log[n]
        BY <3>2, <4>3
      <4> QED
        BY <3>2, <4>2, <4>3, <4>4
    <3> QED
      BY <2>0, <3>1, <3>3
  <2>7. InOrder'
    <3> SUFFICES ASSUME NEW m \in 1 .. Len(log'), NEW n \in 1 .. Len(log'), m < n
                 PROVE  log'[m] < log'[n]
      BY DEF InOrder
    <3>1. m \in 1 .. Len(log)
      BY <1>9, <2>3
    <3>2. CASE n = Len(log) + 1
      BY <2>3, <2>6, <3>1, <3>2
    <3>3. CASE n # Len(log) + 1
      <4>1. n \in 1 .. Len(log)
        BY <1>9, <2>3, <3>3
      <4> QED
        BY <2>3, <3>1, <4>1 DEF IngestInv, InOrder
    <3> QED
      BY <3>2, <3>3
  <2>8. NothingSkipped'
    <3> SUFFICES ASSUME loss' = None
                 PROVE  /\ Aligned(head)'
                        /\ Dispatched' = { j \in Requests : End(j) <= head }'
      BY DEF NothingSkipped
    <3>1. loss = None /\ Room /\ ~r.lost
      BY <1>1, <1>3, IngestAssumption DEF IngestInv, PositionsOK
    <3>2. h = head
      BY <3>1 DEF h
    <3>3. Aligned(head) /\ Dispatched = { j \in Requests : End(j) <= head }
      BY <3>1 DEF IngestInv, NothingSkipped
    <3>4. i \in Firsts({ j \in Ahead(head) : Begin(j) < t })
      BY <1>4, <1>11, <3>1, <3>2, <3>3 DEF i
    <3>5. { j \in Requests : End(j) <= End(i) } = { j \in Requests : End(j) <= head } \cup {i}
      BY <1>0, <1>3, <1>9, <3>3, <3>4, FirstIsNext
    <3>6. Dispatched' = Dispatched \cup {i}
      <4>1. 1 .. Len(log') = (1 .. Len(log)) \cup {Len(log) + 1}
        BY <1>9, <2>3
      <4> QED
        BY <2>3, <4>1 DEF Dispatched
    <3>7. Aligned(head)'
      <4>1. i \in 0 .. Len(wire)
        BY <1>0, <2>0
      <4> QED
        BY <1>2, <1>5, <2>2, <4>1 DEF Aligned
    <3>8. { j \in Requests : End(j) <= head }' = { j \in Requests : End(j) <= End(i) }
      BY <1>5, <2>2
    <3> QED
      BY <3>3, <3>5, <3>6, <3>7, <3>8
  <2> QED
    BY <1>5, <1>6, <1>7, <2>5, <2>7, <2>8 DEF IngestInv
<1> QED
  BY <1>10, <1>11

\* The invariant holds in every state of the receive loop.
LEMMA IngestInvariant == Spec => []IngestInv
<1>1. Init => IngestInv
  <2> SUFFICES ASSUME Init PROVE IngestInv
    OBVIOUS
  <2>1. wire = << >> /\ log = << >> /\ head = 0 /\ tail = 0 /\ arrived = 0 /\ pipelined = FALSE
    BY DEF Init
  <2>2. wire \in Seq([kind : Kinds, end : Nat]) /\ Len(wire) = 0 /\ log \in Seq(Nat) /\ Len(log) = 0
    BY <2>1
  <2>3. Requests = {} /\ Dispatched = {} /\ Sent = 0 /\ End(0) = 0
    BY <2>2 DEF Requests, Dispatched, Sent, End
  <2>4. WireOK
    BY <2>2 DEF WireOK
  <2>5. PositionsOK
    BY <2>1, <2>3, IngestAssumption DEF PositionsOK
  <2>6. LogBehind /\ InOrder
    BY <2>2 DEF LogBehind, InOrder
  <2>7. Aligned(head)
    BY <2>1, <2>2, <2>3 DEF Aligned
  <2>8. NothingSkipped
    BY <2>3, <2>7 DEF NothingSkipped
  <2> QED
    BY <2>1, <2>4, <2>5, <2>6, <2>8 DEF IngestInv
<1>2. IngestInv /\ [Next]_vars => IngestInv'
  <2> SUFFICES ASSUME IngestInv, [Next]_vars PROVE IngestInv'
    OBVIOUS
  <2>1. ASSUME NEW k \in Kinds, Send(k) PROVE IngestInv'
    BY <2>1, SendKeeps
  <2>2. CASE Deliver
    <3>1. /\ wire' = wire /\ head' = head /\ tail' = tail /\ log' = log /\ loss' = loss
          /\ pipelined' = pipelined /\ arrived' \in arrived + 1 .. Sent /\ Sent' = Sent
      BY <2>2 DEF Deliver, Sent, End
    <3>2. PositionsOK'
      <4>1. WireOK
        BY DEF IngestInv
      <4>2. Len(wire) \in Nat /\ \A i \in 0 .. Len(wire) : End(i) \in Nat
        BY <4>1, EndIsNat
      <4>3. Sent \in Nat
        BY <4>2 DEF Sent
      <4> QED
        BY <3>1, <4>3 DEF IngestInv, PositionsOK
    <3> QED
      BY <3>1, <3>2 DEF IngestInv, WireOK, LogBehind, InOrder, NothingSkipped, Aligned,
                        Requests, Dispatched, Begin, End
  <2>3. CASE Iterate
    BY <2>3, IterateKeeps
  <2>4. CASE UNCHANGED vars
    BY <2>4 DEF vars, IngestInv, WireOK, PositionsOK, LogBehind, InOrder, NothingSkipped,
                Aligned, Requests, Dispatched, Sent, Begin, End
  <2> QED
    BY <2>1, <2>2, <2>3, <2>4 DEF Next
<1> QED
  BY <1>1, <1>2, PTL DEF Spec

\* The type invariant: compy_libevent_cb never writes behind its buffer.
THEOREM IngestTypeCorrect == Spec => []TypeOK
<1>1. IngestInv => TypeOK
  <2> SUFFICES ASSUME IngestInv PROVE TypeOK
    OBVIOUS
  <2>1. \A i \in 1 .. Len(wire) : wire[i].kind \in Kinds /\ End(i) = Begin(i) + wire[i].kind.size
    <3> SUFFICES ASSUME NEW i \in 1 .. Len(wire)
                 PROVE  wire[i].kind \in Kinds /\ End(i) = Begin(i) + wire[i].kind.size
      OBVIOUS
    <3>1. wire[i] \in [kind : Kinds, end : Nat]
      BY MessageType DEF IngestInv
    <3> QED
      BY <3>1 DEF IngestInv, WireOK
  <2>2. Dispatched \subseteq Requests
    BY DEF IngestInv, LogBehind, Dispatched
  <2> QED
    BY <2>1, <2>2 DEF IngestInv, PositionsOK, TypeOK
<1> QED
  BY <1>1, IngestInvariant, PTL

\* compy_libevent_cb dispatches requests in the order they were sent and never one
\* of them twice, whatever the messages, the pieces and the losses.
THEOREM IngestInOrder == Spec => []InOrder
<1>1. IngestInv => InOrder
  BY DEF IngestInv
<1> QED
  BY <1>1, IngestInvariant, PTL

\* Until compy_libevent_cb throws something away, no request is skipped and the
\* buffer begins with a message, for every capacity and all messages.
THEOREM IngestNothingSkipped == Spec => []NothingSkipped
<1>1. IngestInv => NothingSkipped
  BY DEF IngestInv
<1> QED
  BY <1>1, IngestInvariant, PTL
-----------------------------------------------------------------------------
(* Why something was thrown away.                                          *)

\* What LossExplained says of a stretch of the stream.
Explained(h, t) ==
    \/ /\ t - h = Capacity
       /\ \/ CrAt(t)
          \/ \A i \in Firsts(Ahead(h)) : End(i) > t
    \/ \E i \in Firsts(Ahead(h)) :
        /\ Begin(i) < t
        /\ \/ wire[i].kind.fault # "none"
           \/ t - Begin(i) \in {wire[i].kind.slash, wire[i].kind.full}

\* A full buffer has been parsed, and the parser has asked for more: if the buffer
\* is thrown away next, there is a reason.
LossInv ==
    /\ loss # None => /\ loss \in [head : Nat, tail : Nat] /\ loss.tail <= Sent
                      /\ Explained(loss.head, loss.tail)
    /\ loss = None /\ tail - head = Capacity => Explained(head, tail)

\* Where a request begins and ends.
LEMMA RequestPlace ==
    ASSUME WireOK, NEW i \in Requests
    PROVE  /\ i \in 1 .. Len(wire) /\ i \in Nat
           /\ Begin(i) \in Nat /\ End(i) \in Nat /\ Begin(i) < End(i)
           /\ End(i) = Begin(i) + wire[i].kind.size
<1>0. Len(wire) \in Nat /\ \A j \in 0 .. Len(wire) : End(j) \in Nat
  BY EndIsNat
<1>1. i \in 1 .. Len(wire) /\ i \in Nat
  BY <1>0 DEF Requests
<1>2. i \in 0 .. Len(wire) /\ i - 1 \in 0 .. Len(wire) /\ i - 1 < i
  BY <1>0, <1>1
<1>3. Begin(i) \in Nat /\ End(i) \in Nat /\ Begin(i) < End(i)
  BY <1>0, <1>2 DEF Begin, WireOK
<1> QED
  BY <1>1, <1>3 DEF WireOK

\* Requests lie in the order of their numbers.
LEMMA LaterBegins ==
    ASSUME WireOK, NEW i \in Requests, NEW j \in Requests, Begin(i) < Begin(j)
    PROVE  i <= j
<1>0. Len(wire) \in Nat
  BY EndIsNat
<1>1. /\ i \in 1 .. Len(wire) /\ j \in 1 .. Len(wire) /\ i \in Nat /\ j \in Nat
      /\ Begin(i) \in Nat /\ Begin(j) \in Nat
  BY RequestPlace
<1>2. ASSUME j < i PROVE FALSE
  <2>1. j - 1 \in 0 .. Len(wire) /\ i - 1 \in 0 .. Len(wire) /\ j - 1 < i - 1
    BY <1>0, <1>1, <1>2
  <2>2. Begin(j) < Begin(i)
    BY <2>1 DEF WireOK, Begin
  <2> QED
    BY <1>1, <2>2
<1> QED
  BY <1>1, <1>2

\* A parse that fails, or that asks for more with a full buffer, has a reason.
LEMMA ParseExplained ==
    ASSUME WireOK, NEW h \in Nat, NEW t \in Nat, h <= t, Aligned(h), NEW r \in Parse(h, t),
           r.lost \/ (r.head = h /\ t - h = Capacity)
    PROVE  Explained(h, t)
<1> DEFINE begun == { i \in Ahead(h) : Begin(i) < t }
<1>1. CASE begun = {}
  <2>1. t - h = Capacity
    BY <1>1 DEF Parse, Partial
  <2>2. ASSUME NEW i \in Firsts(Ahead(h)) PROVE End(i) > t
    <3>1. i \in Ahead(h) /\ i \in Requests
      BY DEF Firsts, Ahead
    <3>2. ~(Begin(i) < t)
      BY <1>1, <3>1
    <3> QED
      BY <3>1, <3>2, RequestPlace
  <2> QED
    BY <2>1, <2>2 DEF Explained
<1>2. CASE begun # {}
  <2>1. PICK i \in Firsts(begun) : r \in ParseRequest(i, h, t)
    BY <1>2 DEF Parse
  <2> DEFINE k == wire[i].kind
             p == t - Begin(i)
  <2>2. i \in Requests /\ i \in Ahead(h) /\ Begin(i) < t /\ Begin(i) >= h
    BY <2>1 DEF Firsts, Ahead
  <2>3. /\ i \in Nat /\ Begin(i) \in Nat /\ End(i) \in Nat /\ Begin(i) < End(i)
        /\ End(i) = Begin(i) + k.size
    BY <2>2, RequestPlace
  <2>4. i \in Firsts(Ahead(h)) /\ \A j \in Firsts(Ahead(h)) : j = i
    <3>1. ASSUME NEW j \in Ahead(h) PROVE i <= j
      <4>1. j \in Requests /\ j \in Nat /\ Begin(j) \in Nat
        BY RequestPlace DEF Ahead
      <4>2. CASE Begin(j) < t
        BY <2>1, <4>2 DEF Firsts
      <4>3. CASE ~(Begin(j) < t)
        <5>1. Begin(i) < Begin(j)
          BY <2>2, <2>3, <4>1, <4>3
        <5> QED
          BY <2>2, <4>1, <5>1, LaterBegins
      <4> QED
        BY <4>2, <4>3
    <3>2. i \in Firsts(Ahead(h))
      BY <2>2, <3>1 DEF Firsts
    <3>3. ASSUME NEW j \in Firsts(Ahead(h)) PROVE j = i
      <4>1. j \in Requests /\ j \in Nat /\ j <= i /\ i <= j
        BY <2>2, <3>1, RequestPlace DEF Firsts, Ahead
      <4> QED
        BY <2>3, <4>1
    <3> QED
      BY <3>2, <3>3
  <2>5. CASE AtVersion(k, p)
    BY <2>2, <2>4, <2>5 DEF AtVersion, Explained
  <2>6. CASE BadLine(k, p) \/ MapFull(k, p) \/ BadHeaders(k)
    BY <2>2, <2>4, <2>6 DEF BadLine, MapFull, BadHeaders, Explained
  <2>7. CASE r = Partial(h) /\ (CrAt(t) \/ ~Whole(k, p))
    <3>1. t - h = Capacity
      BY <2>7 DEF Partial
    <3>2. ~Whole(k, p) => End(i) > t
      <4>1. k.size \in Nat
        <5>1. wire[i] \in [kind : Kinds, end : Nat]
          BY <2>2, RequestPlace, MessageType
        <5> QED
          BY <5>1, IngestAssumption
      <4> QED
        BY <2>3, <4>1 DEF Whole
    <3> QED
      BY <2>4, <2>7, <3>1, <3>2 DEF Explained
  <2>8. CASE r = Complete(Consumed(i, h), i)
    <3>1. r.head = End(i) /\ ~r.lost
      BY <2>3, <2>8 DEF Complete, Consumed
    <3> QED
      BY <2>2, <2>3, <3>1
  <2> QED
    BY <2>1, <2>5, <2>6, <2>7, <2>8 DEF ParseRequest
<1> QED
  BY <1>1, <1>2

\* What the client sends later does not make a loss inexplicable.
LEMMA ExplainedStays ==
    ASSUME WireOK, NEW k \in Kinds, Send(k), NEW h \in Nat, NEW t \in Nat, t <= Sent, Explained(h, t)
    PROVE  Explained(h, t)'
<1> DEFINE n == Len(wire) + 1
<1>0. /\ Len(wire) \in Nat /\ n \in Nat /\ \A i \in 0 .. Len(wire) : End(i) \in Nat
      /\ Sent \in Nat /\ k.size \in Nat /\ k.size > 0
  BY EndIsNat, IngestAssumption DEF Sent
<1>1. /\ Len(wire') = n /\ Sent' = Sent + k.size
      /\ \A i \in 0 .. Len(wire) : End(i)' = End(i)
      /\ \A i \in 1 .. Len(wire) : wire'[i] = wire[i]
      /\ \A i \in Nat : i = n => End(i)' = Sent + k.size
  BY SendExtends
<1>2. \A i \in 1 .. Len(wire) : Begin(i)' = Begin(i) /\ End(i)' = End(i)
  <2>1. \A i \in 1 .. Len(wire) : i \in 0 .. Len(wire) /\ i - 1 \in 0 .. Len(wire)
    BY <1>0
  <2> QED
    BY <1>1, <2>1 DEF Begin
<1>3. /\ \A i \in 1 .. n : i = n \/ i \in 1 .. Len(wire)
      /\ \A i \in 1 .. Len(wire) : i \in 1 .. n /\ i < n
  BY <1>0
<1>4. /\ \A i \in Ahead(h) : i \in Ahead(h)' /\ i \in 1 .. Len(wire) /\ i < n
      /\ \A i \in Ahead(h)' : i = n \/ i \in Ahead(h)
  BY <1>1, <1>2, <1>3 DEF Ahead, Requests
<1> HIDE DEF n
<1>5. \A i \in Firsts(Ahead(h)) : i \in Firsts(Ahead(h))' /\ i \in 1 .. Len(wire)
  <2> SUFFICES ASSUME NEW i \in Firsts(Ahead(h))
               PROVE  i \in Firsts(Ahead(h))' /\ i \in 1 .. Len(wire)
    OBVIOUS
  <2>1. i \in Ahead(h) /\ i \in Ahead(h)' /\ i \in 1 .. Len(wire) /\ i < n /\ i \in Nat
    BY <1>0, <1>4 DEF Firsts
  <2>2. \A j \in Ahead(h)' : i <= j
    BY <1>0, <1>4, <2>1 DEF Firsts
  <2> QED
    BY <2>1, <2>2 DEF Firsts
<1>6. \A i \in Firsts(Ahead(h))' : i = n \/ i \in Firsts(Ahead(h))
  BY <1>4 DEF Firsts
<1>7. CASE t - h = Capacity /\ CrAt(t)
  <2>1. PICK i \in 1 .. Len(wire) : /\ Begin(i) < t /\ t <= End(i)
                                    /\ t - Begin(i) \in wire[i].kind.cr
    BY <1>7 DEF CrAt
  <2>2. i \in 1 .. Len(wire') /\ Begin(i)' = Begin(i) /\ End(i)' = End(i) /\ wire'[i] = wire[i]
    BY <1>1, <1>2, <1>3
  <2>3. CrAt(t)'
    BY <2>1, <2>2 DEF CrAt
  <2> QED
    BY <1>7, <2>3 DEF Explained
<1>8. CASE t - h = Capacity /\ \A i \in Firsts(Ahead(h)) : End(i) > t
  <2>1. ASSUME NEW i \in Firsts(Ahead(h))' PROVE End(i)' > t
    <3>1. CASE i = n
      BY <1>0, <1>1, <3>1
    <3>2. CASE i \in Firsts(Ahead(h))
      <4>1. i \in 1 .. Len(wire) /\ End(i)' = End(i)
        BY <1>2, <1>5, <3>2
      <4> QED
        BY <1>8, <3>2, <4>1
    <3> QED
      BY <1>6, <3>1, <3>2
  <2> QED
    BY <1>8, <2>1 DEF Explained
<1>9. ASSUME NEW i \in Firsts(Ahead(h)), Begin(i) < t,
             \/ wire[i].kind.fault # "none"
             \/ t - Begin(i) \in {wire[i].kind.slash, wire[i].kind.full}
      PROVE  Explained(h, t)'
  <2>1. i \in Firsts(Ahead(h))' /\ Begin(i)' = Begin(i) /\ wire'[i] = wire[i]
    BY <1>1, <1>2, <1>5
  <2> QED
    BY <1>9, <2>1 DEF Explained
<1> QED
  BY <1>7, <1>8, <1>9 DEF Explained

\* Explained speaks of the wire only.
LEMMA ExplainedSame ==
    ASSUME wire' = wire
    PROVE  \A h, t : Explained(h, t)' <=> Explained(h, t)
BY DEF Explained, CrAt, Firsts, Ahead, Requests, Begin, End

LEMMA LossStep ==
    ASSUME IngestInv, LossInv, [Next]_vars
    PROVE  LossInv'
<1>0. /\ WireOK /\ PositionsOK
      /\ head \in Nat /\ tail \in Nat /\ arrived \in Nat /\ Sent \in Nat
      /\ head <= tail /\ tail <= arrived /\ arrived <= Sent /\ tail - head <= Capacity
      /\ Capacity \in Nat /\ Capacity > 0
  <2>1. WireOK /\ PositionsOK
    BY DEF IngestInv
  <2>2. Sent \in Nat
    BY <2>1, EndIsNat DEF Sent
  <2> QED
    BY <2>1, <2>2, IngestAssumption DEF PositionsOK
<1>1. ASSUME NEW k \in Kinds, Send(k) PROVE LossInv'
  <2>1. head' = head /\ tail' = tail /\ loss' = loss
    BY <1>1 DEF Send
  <2>2. Sent' = Sent + k.size /\ k.size \in Nat
    BY <1>0, <1>1, SendExtends, IngestAssumption
  <2>3. ASSUME loss # None
        PROVE  /\ loss \in [head : Nat, tail : Nat] /\ loss.tail <= Sent'
               /\ Explained(loss.head, loss.tail)'
    <3>1. loss \in [head : Nat, tail : Nat] /\ loss.tail <= Sent /\ Explained(loss.head, loss.tail)
      BY <2>3 DEF LossInv
    <3>2. loss.head \in Nat /\ loss.tail \in Nat
      BY <3>1
    <3> DEFINE a == loss.head
               b == loss.tail
    <3>3. a \in Nat /\ b \in Nat /\ b <= Sent /\ Explained(a, b) /\ a' = a /\ b' = b
      BY <2>1, <3>1, <3>2
    <3>4. \A x, y \in Nat : y <= Sent /\ Explained(x, y) => Explained(x, y)'
      BY <1>0, <1>1, ExplainedStays
    <3> QED
      BY <1>0, <2>1, <2>2, <3>1, <3>2, <3>4
  <2>4. ASSUME loss = None, tail - head = Capacity
        PROVE  Explained(head, tail)'
    BY <1>0, <1>1, <2>1, <2>4, ExplainedStays DEF LossInv
  <2> QED
    BY <2>1, <2>3, <2>4 DEF LossInv
<1>2. CASE Deliver \/ UNCHANGED vars
  <2>1. wire' = wire /\ head' = head /\ tail' = tail /\ loss' = loss /\ Sent' = Sent
    BY <1>2 DEF Deliver, vars, Sent, End
  <2> QED
    BY <2>1, ExplainedSame DEF LossInv
<1>3. CASE Iterate
  <2> DEFINE h == IF Room THEN head ELSE tail
             t == IF arrived < Fits(h) THEN arrived ELSE Fits(h)
  <2>1. PICK r \in Parse(h, t) :
          /\ head' = r.head
          /\ loss' = IF loss # None THEN loss
                     ELSE IF ~Room THEN [head |-> head, tail |-> tail]
                     ELSE IF r.lost THEN [head |-> h, tail |-> t]
                     ELSE None
    BY <1>3 DEF Iterate
  <2>2. tail' = t /\ tail < arrived /\ wire' = wire /\ Sent' = Sent
    BY <1>3 DEF Iterate, Sent, End
  <2>3. h \in Nat /\ t \in Nat /\ h <= t /\ t <= arrived /\ t - h <= Capacity /\ (Room => h = head)
    BY <1>0, <2>2 DEF Fits
  <2> HIDE DEF h, t
  <2>4. r.head \in Nat /\ h <= r.head /\ r.head <= t
    BY <1>0, <2>3, ParseResult
  <2>5. CASE loss # None
    <3>1. loss' = loss
      BY <2>1, <2>5
    <3> QED
      BY <2>2, <2>5, <3>1, ExplainedSame DEF LossInv
  <2>6. CASE loss = None /\ ~Room
    <3>1. tail - head = Capacity
      BY <1>0, <2>6 DEF Room
    <3>2. Explained(head, tail)
      BY <2>6, <3>1 DEF LossInv
    <3>3. loss' = [head |-> head, tail |-> tail]
      BY <2>1, <2>6
    <3>4. loss' # None /\ loss' \in [head : Nat, tail : Nat] /\ loss'.head = head /\ loss'.tail = tail
      BY <1>0, <3>3, IngestAssumption
    <3> QED
      BY <1>0, <2>2, <3>2, <3>4, ExplainedSame DEF LossInv
  <2>7. CASE loss = None /\ Room /\ r.lost
    <3>1. Aligned(h)
      BY <2>3, <2>7 DEF IngestInv, NothingSkipped
    <3>2. Explained(h, t)
      BY <1>0, <2>3, <2>7, <3>1, ParseExplained
    <3>3. loss' = [head |-> h, tail |-> t]
      BY <2>1, <2>7
    <3>4. loss' # None /\ loss' \in [head : Nat, tail : Nat] /\ loss'.head = h /\ loss'.tail = t
      BY <2>3, <3>3, IngestAssumption
    <3> QED
      BY <1>0, <2>2, <2>3, <3>2, <3>4, ExplainedSame DEF LossInv
  <2>8. CASE loss = None /\ Room /\ ~r.lost
    <3>1. loss' = None
      BY <2>1, <2>8
    <3>2. ASSUME tail' - head' = Capacity
          PROVE  Explained(head', tail')
      <4>1. r.head = h /\ t - h = Capacity
        BY <1>0, <2>1, <2>2, <2>3, <2>4, <3>2
      <4>2. Aligned(h)
        BY <2>3, <2>8 DEF IngestInv, NothingSkipped
      <4>3. Explained(h, t)
        BY <1>0, <2>3, <4>1, <4>2, ParseExplained
      <4> QED
        BY <2>1, <2>2, <4>1, <4>3
    <3> QED
      BY <2>2, <3>1, <3>2, ExplainedSame DEF LossInv
  <2> QED
    BY <2>5, <2>6, <2>7, <2>8
<1> QED
  BY <1>1, <1>2, <1>3 DEF Next

\* What compy_libevent_cb throws away first has one of four causes, for every
\* capacity and all messages: a full buffer that its parse could not finish, a
\* malformed request, or a piece that ends behind "RTSP/" or behind the header that
\* fills the map.
THEOREM IngestLossExplained == Spec => []LossExplained
<1>1. Init => LossInv
  <2> SUFFICES ASSUME Init PROVE LossInv
    OBVIOUS
  <2>1. loss = None /\ tail - head = 0
    BY DEF Init
  <2> QED
    BY <2>1, IngestAssumption DEF LossInv
<1>2. IngestInv /\ LossInv /\ [Next]_vars => LossInv'
  BY LossStep
<1>3. LossInv => LossExplained
  BY DEF LossInv, Explained, LossExplained
<1> QED
  BY <1>1, <1>2, <1>3, IngestInvariant, PTL DEF Spec
-----------------------------------------------------------------------------
(* NalUnits: where the units lie in a file.                                *)

IsFile(us) ==
    /\ us \in Seq([code : {3, 4}, octets : Seq(NalOctet)])
    /\ \A i \in 1 .. Len(us) : UnitFits(us[i])

Coded(us) == [i \in DOMAIN us |-> StartCode(us[i].code) \o us[i].octets]

\* Unit i ends here, and its octets begin here.
EndOf(us, i) == Len(Flat(Coded(us), i))
Body(us, i) == EndOf(us, i - 1) + us[i].code

LEMMA StartCodeIs ==
    ASSUME NEW c \in {3, 4}
    PROVE  /\ StartCode(c) \in Seq(NalOctet) /\ Len(StartCode(c)) = c
           /\ \A j \in 1 .. c - 1 : StartCode(c)[j] = 0
           /\ StartCode(c)[c] = 1
<1>1. CASE c = 3
  BY <1>1, SMT DEF StartCode, NalOctet
<1>2. CASE c = 4
  BY <1>2, SMT DEF StartCode, NalOctet
<1>3. QED
  BY <1>1, <1>2

\* A unit with its start code.
Unit(u, w) ==
    /\ w \in Seq(NalOctet) /\ Len(w) = u.code + Len(u.octets)
    /\ \A j \in 1 .. u.code - 1 : w[j] = 0
    /\ w[u.code] = 1
    /\ \A j \in 1 .. Len(u.octets) : w[u.code + j] = u.octets[j]

LEMMA FileFacts ==
    ASSUME NEW us, IsFile(us), NEW i \in 1 .. Len(us)
    PROVE  /\ us[i].code \in {3, 4} /\ us[i].octets \in Seq(NalOctet)
           /\ Len(us[i].octets) \in Nat /\ Len(us[i].octets) >= 1
           /\ UnitFits(us[i])
<1>1. us[i] \in [code : {3, 4}, octets : Seq(NalOctet)]
  BY SeqFacts, Zenon DEF IsFile
<1>2. us[i].code \in {3, 4} /\ us[i].octets \in Seq(NalOctet)
  BY <1>1
<1>3. UnitFits(us[i])
  BY DEF IsFile
<1>4. QED
  BY <1>2, <1>3, SeqFacts DEF UnitFits

LEMMA CodedIs ==
    ASSUME NEW us, IsFile(us), NEW i \in 1 .. Len(us)
    PROVE  Unit(us[i], Coded(us)[i])
<1> DEFINE c == us[i].code
           o == us[i].octets
           w == StartCode(c) \o o
<1>1. c \in {3, 4} /\ o \in Seq(NalOctet) /\ Len(o) \in Nat
  BY FileFacts
<1>2. Coded(us)[i] = w
  <2>1. DOMAIN us = 1 .. Len(us)
    BY DEF IsFile
  <2>2. QED
    BY <2>1 DEF Coded
<1> HIDE DEF c, o
<1>3. /\ StartCode(c) \in Seq(NalOctet) /\ Len(StartCode(c)) = c
      /\ \A j \in 1 .. c - 1 : StartCode(c)[j] = 0
      /\ StartCode(c)[c] = 1
  BY <1>1, StartCodeIs
<1>4. w \in Seq(NalOctet) /\ Behind(w, StartCode(c), o)
  BY <1>1, <1>3, Joined
<1> HIDE DEF w
<1>5. /\ Len(w) = c + Len(o)
      /\ \A j \in 1 .. c : w[j] = StartCode(c)[j]
      /\ \A j \in 1 .. Len(o) : w[c + j] = o[j]
  BY <1>3, <1>4 DEF Behind
<1>6. /\ \A j \in 1 .. c - 1 : w[j] = 0
      /\ w[c] = 1
  BY <1>1, <1>3, <1>5
<1>7. QED
  BY <1>2, <1>4, <1>5, <1>6 DEF Unit, c, o

LEMMA Ends ==
    ASSUME NEW us, IsFile(us)
    PROVE  /\ EndOf(us, 0) = 0
           /\ \A i \in 0 .. Len(us) : EndOf(us, i) \in Nat /\ Flat(Coded(us), i) \in Seq(NalOctet)
           /\ \A i \in 1 .. Len(us) :
                  /\ EndOf(us, i) = Body(us, i) + Len(us[i].octets)
                  /\ Behind(Flat(Coded(us), i), Flat(Coded(us), i - 1), Coded(us)[i])
<1> DEFINE f == Coded(us)
           n == Len(us)
<1>1. n \in Nat /\ \A i \in 1 .. n : Unit(us[i], f[i])
  BY CodedIs, SeqFacts DEF IsFile
<1>2. \A i \in 1 .. n : f[i] \in Seq(NalOctet) /\ Len(f[i]) = us[i].code + Len(us[i].octets)
  BY <1>1 DEF Unit
<1>3. \A i \in 1 .. n : us[i].code \in Nat /\ Len(us[i].octets) \in Nat
  BY FileFacts
<1> HIDE DEF f, n
<1>4. Flat(f, 0) = <<>>
  BY FlatNone
<1>5. ASSUME NEW i \in 1 .. n
      PROVE  /\ Flat(f, i - 1) \in Seq(NalOctet) /\ Flat(f, i) \in Seq(NalOctet)
             /\ Behind(Flat(f, i), Flat(f, i - 1), f[i])
  <2> DEFINE k == i - 1
  <2>1. k \in Nat /\ i = k + 1 /\ \A j \in 1 .. k + 1 : f[j] \in Seq(NalOctet)
    BY <1>1, <1>2
  <2> HIDE DEF k
  <2>2. Flat(f, k) \in Seq(NalOctet) /\ Flat(f, k + 1) = Flat(f, k) \o f[k + 1]
    BY <2>1, FlatNext
  <2>3. /\ Flat(f, k) \o f[k + 1] \in Seq(NalOctet)
        /\ Behind(Flat(f, k) \o f[k + 1], Flat(f, k), f[k + 1])
    BY <1>2, <2>1, <2>2, Joined
  <2>4. QED
    BY <2>1, <2>2, <2>3 DEF k
<1>6. ASSUME NEW i \in 0 .. n PROVE Flat(f, i) \in Seq(NalOctet)
  <2>1. CASE i = 0
    <3>1. <<>> \in Seq(NalOctet)
      OBVIOUS
    <3>2. QED
      BY <1>4, <2>1, <3>1
  <2>2. CASE i # 0
    BY <1>1, <1>5, <2>2
  <2>3. QED
    BY <2>1, <2>2
<1>7. ASSUME NEW i \in 0 .. n PROVE EndOf(us, i) = Len(Flat(f, i)) /\ EndOf(us, i) \in Nat
  BY <1>6, <1>7, SeqFacts DEF EndOf, f
<1>8. ASSUME NEW i \in 1 .. n PROVE EndOf(us, i) = Body(us, i) + Len(us[i].octets)
  <2>1. i \in 0 .. n /\ i - 1 \in 0 .. n
    BY <1>1
  <2>2. EndOf(us, i) = EndOf(us, i - 1) + Len(f[i])
    BY <1>5, <1>7, <2>1 DEF Behind
  <2>3. Len(f[i]) = us[i].code + Len(us[i].octets) /\ us[i].code \in Nat /\ Len(us[i].octets) \in Nat
    BY <1>2, <1>3
  <2>4. EndOf(us, i - 1) \in Nat
    BY <1>7, <2>1
  <2>5. QED
    BY <2>2, <2>3, <2>4 DEF Body
<1>9. EndOf(us, 0) = 0
  BY <1>4 DEF EndOf, f
<1>10. QED
  BY <1>5, <1>6, <1>7, <1>8, <1>9 DEF f, n

\* Later units lie further behind.
LEMMA Ordered ==
    ASSUME NEW us, IsFile(us), NEW i \in 0 .. Len(us), NEW k \in i .. Len(us)
    PROVE  EndOf(us, i) \in Nat /\ EndOf(us, k) \in Nat /\ EndOf(us, i) <= EndOf(us, k)
<1> DEFINE n == Len(us)
           T == {x \in Nat : i + x <= n => EndOf(us, i) <= EndOf(us, i + x)}
<1>1. n \in Nat /\ \A j \in 0 .. n : EndOf(us, j) \in Nat
  BY Ends, SeqFacts DEF IsFile
<1>2. ASSUME NEW j \in 1 .. n PROVE EndOf(us, j - 1) <= EndOf(us, j)
  <2>1. us[j].code \in Nat /\ Len(us[j].octets) \in Nat
    BY FileFacts
  <2>2. EndOf(us, j) = EndOf(us, j - 1) + us[j].code + Len(us[j].octets)
    BY Ends DEF Body
  <2>3. EndOf(us, j - 1) \in Nat
    <3>1. j - 1 \in 0 .. n
      BY <1>1
    <3>2. QED
      BY <1>1, <3>1
  <2>4. QED
    BY <2>1, <2>2, <2>3
<1> HIDE DEF n
<1>3. i \in Nat /\ i <= n /\ 0 \in T
  BY <1>1 DEF n
<1>4. ASSUME NEW x \in T PROVE x + 1 \in T
  <2> SUFFICES ASSUME i + (x + 1) <= n PROVE EndOf(us, i) <= EndOf(us, i + (x + 1))
    OBVIOUS
  <2> DEFINE j == i + (x + 1)
  <2>1. x \in Nat /\ j \in 1 .. n /\ j - 1 = i + x /\ i + x <= n
    BY <1>1, <1>3
  <2>2. EndOf(us, i) <= EndOf(us, i + x)
    BY <2>1
  <2>3. EndOf(us, i + x) <= EndOf(us, j)
    BY <1>2, <2>1
  <2>4. j \in 0 .. n /\ i + x \in 0 .. n /\ i \in 0 .. n
    BY <1>1, <1>3, <2>1
  <2> HIDE DEF j, T
  <2>5. EndOf(us, i) <= EndOf(us, j)
    BY <1>1, <2>2, <2>3, <2>4
  <2>6. QED
    BY <2>5 DEF j
<1>5. T = Nat
  <2> HIDE DEF T
  <2>1. T \in SUBSET Nat
    BY DEF T
  <2>2. QED
    BY <1>3, <1>4, <2>1, Induction
<1>6. k - i \in Nat /\ i + (k - i) = k /\ k <= n /\ k \in 0 .. n /\ i \in 0 .. n
  BY <1>1, <1>3 DEF n
<1>7. QED
  BY <1>1, <1>5, <1>6

LEMMA FileIs == ASSUME NEW us, IsFile(us) PROVE File(us) = Flat(Coded(us), Len(us))
<1>1. DOMAIN us = 1 .. Len(us)
  BY SeqFacts DEF IsFile
<1>2. [i \in 1 .. Len(us) |-> Coded(us)[i]] = [i \in DOMAIN us |-> StartCode(us[i].code) \o us[i].octets]
  BY <1>1 DEF Coded
<1>3. QED
  BY <1>2 DEF Flat, File

LEMMA FileType ==
    ASSUME NEW us, IsFile(us)
    PROVE  /\ Len(us) \in Nat /\ File(us) \in Seq(NalOctet) /\ Len(File(us)) \in Nat
           /\ Len(File(us)) = EndOf(us, Len(us))
<1>1. Len(us) \in Nat
  BY SeqFacts DEF IsFile
<1>2. Len(us) \in 0 .. Len(us)
  BY <1>1
<1>3. File(us) \in Seq(NalOctet)
  BY <1>2, Ends, FileIs
<1>4. QED
  BY <1>1, <1>3, FileIs, SeqFacts DEF EndOf

\* A unit lies where it begins, in the file and in everything in front of its end.
LEMMA Laid ==
    ASSUME NEW us, IsFile(us), NEW i \in 1 .. Len(us), NEW j \in 1 .. Len(Coded(us)[i])
    PROVE  File(us)[EndOf(us, i - 1) + j] = Coded(us)[i][j]
<1> DEFINE n == Len(us)
           f == Coded(us)
           q == EndOf(us, i - 1) + j
           T == {x \in Nat : i + x <= n => Flat(f, i + x)[q] = f[i][j]}
<1>1. n \in Nat /\ \A m \in 0 .. n : EndOf(us, m) \in Nat
  BY Ends, SeqFacts DEF IsFile
<1>2. \A m \in 1 .. n : Behind(Flat(f, m), Flat(f, m - 1), f[m])
  BY Ends
<1>3. \A m \in 0 .. n : EndOf(us, m) = Len(Flat(f, m))
  BY DEF EndOf
<1>4. i \in 0 .. n /\ i - 1 \in 0 .. n
  BY <1>1
<1>5. Len(f[i]) \in Nat /\ EndOf(us, i) = EndOf(us, i - 1) + Len(f[i]) /\ j \in Nat
  <2>1. Behind(Flat(f, i), Flat(f, i - 1), f[i])
    BY <1>2
  <2>2. Len(f[i]) \in Nat /\ Len(Flat(f, i)) = Len(Flat(f, i - 1)) + Len(f[i])
    BY <2>1 DEF Behind
  <2>3. QED
    BY <2>2 DEF EndOf
<1>6. q \in 1 .. EndOf(us, i)
  <2>1. EndOf(us, i - 1) \in Nat /\ j \in 1 .. Len(f[i])
    BY <1>1, <1>4
  <2> HIDE DEF f
  <2>2. QED
    BY <1>5, <2>1
<1>7. Flat(f, i)[q] = f[i][j]
  BY <1>2, <1>3, <1>4 DEF Behind
<1> HIDE DEF n, f, q
<1>8. i \in Nat /\ i <= n
  BY <1>1 DEF n
<1>9. 0 \in T
  BY <1>7, <1>8
<1>10. ASSUME NEW x \in T PROVE x + 1 \in T
  <2> SUFFICES ASSUME i + (x + 1) <= n PROVE Flat(f, i + (x + 1))[q] = f[i][j]
    OBVIOUS
  <2> DEFINE m == i + (x + 1)
  <2>1. x \in Nat /\ m \in 1 .. n /\ m - 1 = i + x /\ i + x <= n /\ i + x \in i .. n /\ i + x \in 0 .. n
    BY <1>1, <1>8, <1>4
  <2>2. Flat(f, i + x)[q] = f[i][j]
    BY <2>1
  <2>3. EndOf(us, i) \in Nat /\ EndOf(us, i + x) \in Nat /\ EndOf(us, i) <= EndOf(us, i + x)
    BY <1>4, <2>1, Ordered DEF n
  <2> HIDE DEF m, T
  <2>4. q \in 1 .. EndOf(us, i + x)
    BY <1>6, <2>3
  <2>5. Flat(f, m)[q] = Flat(f, i + x)[q]
    <3>1. Behind(Flat(f, m), Flat(f, i + x), f[m]) /\ EndOf(us, i + x) = Len(Flat(f, i + x))
      BY <1>2, <1>3, <2>1
    <3>2. QED
      BY <2>4, <3>1 DEF Behind
  <2>6. QED
    BY <2>2, <2>5 DEF m
<1>11. T = Nat
  <2> HIDE DEF T
  <2>1. T \in SUBSET Nat
    BY DEF T
  <2>2. QED
    BY <1>9, <1>10, <2>1, Induction
<1>12. n - i \in Nat /\ i + (n - i) = n
  BY <1>1, <1>8
<1>13. Flat(f, n)[q] = f[i][j]
  BY <1>11, <1>12
<1>14. QED
  BY <1>13, FileIs DEF n, f, q

\* The same, octet by octet.
LEMMA InFile ==
    ASSUME NEW us, IsFile(us), NEW i \in 1 .. Len(us)
    PROVE  /\ EndOf(us, i - 1) \in Nat /\ Body(us, i) \in Nat /\ EndOf(us, i) \in Nat
           /\ EndOf(us, i) = Body(us, i) + Len(us[i].octets) /\ EndOf(us, i) <= Len(File(us))
           /\ \A j \in 1 .. us[i].code - 1 : File(us)[EndOf(us, i - 1) + j] = 0
           /\ File(us)[Body(us, i)] = 1
           /\ \A j \in 1 .. Len(us[i].octets) : File(us)[Body(us, i) + j] = us[i].octets[j]
<1> DEFINE n == Len(us)
           w == Coded(us)[i]
           c == us[i].code
           l == Len(us[i].octets)
           a == EndOf(us, i - 1)
<1>1. n \in Nat /\ \A m \in 0 .. n : EndOf(us, m) \in Nat
  BY Ends, SeqFacts DEF IsFile
<1>2. c \in {3, 4} /\ l \in Nat
  BY FileFacts
<1>3. Unit(us[i], w)
  BY CodedIs
<1>4. /\ Len(w) = c + l /\ w[c] = 1
      /\ \A j \in 1 .. c - 1 : w[j] = 0
      /\ \A j \in 1 .. l : w[c + j] = us[i].octets[j]
  BY <1>3 DEF Unit
<1>5. \A j \in 1 .. Len(w) : File(us)[a + j] = w[j]
  BY Laid
<1>6. a \in Nat /\ EndOf(us, i) \in Nat /\ n \in i .. n /\ i \in 0 .. n
  BY <1>1
<1>7. EndOf(us, i) <= EndOf(us, n)
  BY <1>6, Ordered
<1>8. EndOf(us, n) = Len(File(us))
  BY FileIs DEF EndOf
<1>9. EndOf(us, i) = Body(us, i) + l
  BY Ends
<1>10. Body(us, i) = a + c
  BY DEF Body
<1> HIDE DEF n, w, c, l, a
<1>11. \A j \in 1 .. c - 1 : File(us)[a + j] = 0
  BY <1>2, <1>4, <1>5
<1>12. File(us)[a + c] = 1
  BY <1>2, <1>4, <1>5
<1>13. ASSUME NEW j \in 1 .. l PROVE File(us)[(a + c) + j] = us[i].octets[j]
  <2>1. c + j \in 1 .. Len(w) /\ a + (c + j) = (a + c) + j
    BY <1>2, <1>4, <1>6
  <2>2. QED
    BY <1>4, <1>5, <2>1
<1>14. a + c \in Nat
  BY <1>2, <1>6
<1>15. QED
  BY <1>6, <1>7, <1>8, <1>9, <1>10, <1>11, <1>12, <1>13, <1>14 DEF c, l, a

\* Every octet belongs to a unit.
LEMMA Within ==
    ASSUME NEW us, IsFile(us), NEW q \in 1 .. Len(File(us))
    PROVE  \E i \in 1 .. Len(us) : EndOf(us, i - 1) < q /\ q <= EndOf(us, i)
<1> DEFINE n == Len(us)
           T == {i \in 0 .. n : q <= EndOf(us, i)}
<1>1. n \in Nat /\ EndOf(us, 0) = 0 /\ \A m \in 0 .. n : EndOf(us, m) \in Nat
  BY Ends, SeqFacts DEF IsFile
<1>2. EndOf(us, n) = Len(File(us))
  BY FileIs DEF EndOf
<1> HIDE DEF n
<1>3. n \in T /\ T \in SUBSET Nat /\ T # {}
  BY <1>1, <1>2
<1>4. PICK i \in T : \A m \in T : i <= m
  <2> HIDE DEF T
  <2>1. QED
    BY <1>3, Least
<1>5. i \in 0 .. n /\ q <= EndOf(us, i) /\ i # 0
  BY <1>1
<1>6. i \in 1 .. n /\ i - 1 \in 0 .. n /\ i - 1 \notin T
  BY <1>1, <1>4, <1>5
<1>7. EndOf(us, i - 1) < q
  BY <1>1, <1>6
<1>8. QED
  BY <1>5, <1>6, <1>7 DEF n
-----------------------------------------------------------------------------
(* NalUnits: what the search for start codes finds.                        *)

IsCode(d, p, k) == (\A j \in 1 .. k - 1 : d[p + j] = 0) /\ d[p + k] = 1

LEMMA CodeAt ==
    ASSUME NEW d \in Seq(NalOctet), NEW k \in {3, 4}, NEW p \in Nat, p + k <= Len(d)
    PROVE  SubSeq(d, p + 1, p + k) = StartCode(k) <=> IsCode(d, p, k)
<1> DEFINE c == StartCode(k)
           r == SubSeq(d, p + 1, p + k)
<1>1. c \in Seq(NalOctet) /\ Len(c) = k /\ (\A j \in 1 .. k - 1 : c[j] = 0) /\ c[k] = 1
  BY StartCodeIs
<1>2. Len(d) \in Nat /\ k \in Nat
  BY SeqFacts
<1> HIDE DEF c
<1>3. ASSUME IsCode(d, p, k) PROVE r = c
  <2>1. ASSUME NEW i \in 1 .. Len(c) PROVE d[p + i] = c[i]
    <3>1. i \in 1 .. k - 1 \/ i = k
      BY <1>1, <1>2
    <3>2. QED
      BY <1>1, <1>3, <3>1 DEF IsCode
  <2>2. SubSeq(d, p + 1, p + Len(c)) = c
    BY <1>1, <2>1, CutOut
  <2>3. QED
    BY <1>1, <2>2
<1>4. ASSUME r = c PROVE IsCode(d, p, k)
  <2> DEFINE a == p + 1
             b == p + k
  <2>1. ASSUME NEW i \in a .. b PROVE d[i] \in NalOctet
    <3>1. i \in 1 .. Len(d)
      BY <1>2
    <3>2. QED
      BY <3>1, SeqFacts
  <2>2. a \in Int /\ b \in Int /\ b - a + 1 = k
    BY <1>2
  <2> HIDE DEF a, b
  <2>3. \A i \in 1 .. b - a + 1 : SubSeq(d, a, b)[i] = d[a + i - 1]
    BY <2>1, <2>2, SubSeqProperties
  <2>4. ASSUME NEW i \in 1 .. k PROVE d[p + i] = c[i]
    <3>1. a + i - 1 = p + i
      BY <1>2 DEF a
    <3>2. r[i] = d[p + i]
      BY <2>2, <2>3, <3>1 DEF a, b
    <3>3. QED
      BY <1>4, <3>2
  <2>5. k \in 1 .. k /\ \A j \in 1 .. k - 1 : j \in 1 .. k
    BY <1>2
  <2>6. QED
    BY <1>1, <2>4, <2>5, Zenon DEF IsCode
<1>5. QED
  BY <1>3, <1>4 DEF c

\* At p there is a start code of k octets: the end of that of a unit.
Hit(us, k, p, i) == us[i].code >= k /\ p + k = Body(us, i)

LEMMA HitIsCode ==
    ASSUME NEW us, IsFile(us), NEW k \in {3, 4}, NEW p \in Nat, NEW i \in 1 .. Len(us), Hit(us, k, p, i)
    PROVE  IsCode(File(us), p, k) /\ p + k < Len(File(us))
<1> DEFINE a == EndOf(us, i - 1)
           b == Body(us, i)
           c == us[i].code
           l == Len(us[i].octets)
           d == File(us)
<1>1. /\ a \in Nat /\ b \in Nat
      /\ b + l <= Len(d) /\ d[b] = 1
      /\ \A j \in 1 .. c - 1 : d[a + j] = 0
  BY InFile
<1>2. c \in {3, 4} /\ l \in Nat /\ l >= 1
  BY FileFacts
<1>3. b = a + c /\ p + k = b /\ c >= k
  BY DEF Body, Hit
<1>4. Len(d) \in Nat
  BY FileType
<1> HIDE DEF a, b, c, l, d
<1>5. ASSUME NEW j \in 1 .. k - 1 PROVE d[p + j] = 0
  <2> DEFINE m == c - k + j
  <2>1. m \in 1 .. c - 1 /\ a + m = p + j
    BY <1>1, <1>2, <1>3
  <2> HIDE DEF m
  <2>2. QED
    BY <1>1, <2>1
<1>6. p + k < Len(d)
  BY <1>1, <1>2, <1>3, <1>4
<1>7. IsCode(d, p, k)
  BY <1>1, <1>3, <1>5 DEF IsCode
<1>8. QED
  BY <1>6, <1>7 DEF d

LEMMA CodeIsHit ==
    ASSUME NEW us, IsFile(us), NEW k \in {3, 4}, NEW p \in Nat, p + k <= Len(File(us)), IsCode(File(us), p, k)
    PROVE  \E i \in 1 .. Len(us) : Hit(us, k, p, i)
<1> DEFINE d == File(us)
           q == p + k
<1>1. Len(us) \in Nat
  BY FileType
<1>2. Len(d) \in Nat
  BY FileType
<1>3. q \in 1 .. Len(d)
  BY <1>2
<1>4. PICK i \in 1 .. Len(us) : EndOf(us, i - 1) < q /\ q <= EndOf(us, i)
  BY <1>3, Within
<1> DEFINE a == EndOf(us, i - 1)
           b == Body(us, i)
           c == us[i].code
           o == us[i].octets
<1>5. /\ a \in Nat /\ b \in Nat
      /\ EndOf(us, i) = b + Len(o) /\ d[b] = 1
      /\ \A j \in 1 .. c - 1 : d[a + j] = 0
      /\ \A j \in 1 .. Len(o) : d[b + j] = o[j]
  BY InFile
<1>6. c \in {3, 4} /\ Len(o) \in Nat /\ Len(o) >= 1 /\ UnitFits(us[i])
  BY FileFacts
<1>7. b = a + c
  BY DEF Body
<1>8. a < q /\ q <= b + Len(o)
  BY <1>4, <1>5
<1>9. d[q] = 1 /\ d[q - 1] = 0 /\ d[q - 2] = 0
  <2>1. d[q] = 1 /\ \A j \in 1 .. k - 1 : d[p + j] = 0
    BY DEF IsCode
  <2>2. k - 1 \in 1 .. k - 1 /\ k - 2 \in 1 .. k - 1 /\ q - 1 = p + (k - 1) /\ q - 2 = p + (k - 2)
    OBVIOUS
  <2> HIDE DEF d, q
  <2>3. QED
    BY <2>1, <2>2
<1>10. k = 4 => d[q - 3] = 0
  <2>1. k = 4 => 1 \in 1 .. k - 1 /\ q - 3 = p + 1
    OBVIOUS
  <2> HIDE DEF d, q
  <2>2. QED
    BY <2>1 DEF IsCode, d
<1>11. q \in Nat /\ q > 2 /\ (k = 4 => q > 3)
  OBVIOUS
<1> HIDE DEF a, b, c, o, d, q
<1>12. CASE q < b
  <2> DEFINE j == q - a
  <2>1. j \in 1 .. c - 1 /\ a + j = q
    BY <1>5, <1>6, <1>7, <1>8, <1>11, <1>12
  <2> HIDE DEF j
  <2>2. d[q] = 0
    BY <1>5, <2>1
  <2>3. QED
    BY <1>9, <2>2
<1>13. CASE q = b
  <2>1. CASE c >= k
    BY <1>13, <2>1 DEF Hit, b, c, q
  <2>2. CASE c < k
    <3>1. c = 3 /\ k = 4
      BY <1>6, <2>2
    <3>2. a = q - 3 /\ a > 0
      BY <1>5, <1>7, <1>11, <1>13, <3>1
    <3> DEFINE m == i - 1
    <3>3. m # 0
      BY <3>2, Ends DEF a
    <3>4. m \in 1 .. Len(us)
      BY <1>1, <3>3
    <3>5. a = EndOf(us, m)
      BY DEF a
    <3> HIDE DEF m
    <3>6. /\ a = Body(us, m) + Len(us[m].octets)
          /\ \A j \in 1 .. Len(us[m].octets) : d[Body(us, m) + j] = us[m].octets[j]
      BY <3>4, <3>5, InFile DEF d
    <3>7. Len(us[m].octets) \in Nat /\ Len(us[m].octets) >= 1 /\ UnitFits(us[m])
      BY <3>4, FileFacts
    <3>8. Len(us[m].octets) \in 1 .. Len(us[m].octets)
      BY <3>7
    <3>9. d[a] = us[m].octets[Len(us[m].octets)]
      BY <3>6, <3>8
    <3>10. d[a] # 0
      BY <3>7, <3>9 DEF UnitFits
    <3>11. QED
      BY <1>10, <3>1, <3>2, <3>10
  <2>3. QED
    BY <1>6, <2>1, <2>2
<1>14. CASE q > b
  <2> DEFINE j == q - b
  <2>1. j \in 1 .. Len(o) /\ q = b + j
    BY <1>5, <1>6, <1>8, <1>11, <1>14
  <2>2. CASE j = 1
    <3>1. q - 1 = b
      BY <1>5, <1>11, <2>1, <2>2
    <3>2. QED
      BY <1>5, <1>9, <3>1
  <2>3. CASE j = 2
    <3>1. q - 2 = b
      BY <1>5, <1>11, <2>1, <2>3
    <3>2. QED
      BY <1>5, <1>9, <3>1
  <2>4. CASE j > 2
    <3>1. /\ j \in 3 .. Len(o) /\ j - 1 \in 1 .. Len(o) /\ j - 2 \in 1 .. Len(o)
          /\ q - 1 = b + (j - 1) /\ q - 2 = b + (j - 2)
      BY <1>5, <1>6, <1>11, <2>1, <2>4
    <3> HIDE DEF j
    <3>2. o[j] = 1 /\ o[j - 1] = 0 /\ o[j - 2] = 0
      BY <1>5, <1>9, <2>1, <3>1
    <3>3. QED
      BY <1>6, <3>1, <3>2 DEF UnitFits, o
  <2> HIDE DEF j
  <2>5. QED
    BY <2>1, <2>2, <2>3, <2>4, <1>6
<1>15. QED
  BY <1>5, <1>11, <1>12, <1>13, <1>14

LEMMA TestIs ==
    ASSUME NEW us, IsFile(us), NEW k \in {3, 4}, NEW p \in Nat
    PROVE  TestStartCode(k, File(us), p) =
               IF \E i \in 1 .. Len(us) : Hit(us, k, p, i) THEN k ELSE 0
<1> DEFINE d == File(us)
<1>1. d \in Seq(NalOctet)
  BY FileType
<1>2. Len(d) \in Nat
  BY FileType
<1>3. CASE \E i \in 1 .. Len(us) : Hit(us, k, p, i)
  <2>1. IsCode(d, p, k) /\ p + k < Len(d)
    BY <1>3, HitIsCode
  <2>2. p + k <= Len(d)
    BY <1>2, <2>1
  <2> HIDE DEF d
  <2>3. SubSeq(d, p + 1, p + k) = StartCode(k)
    BY <1>1, <2>1, <2>2, CodeAt
  <2>4. QED
    BY <1>3, <2>2, <2>3 DEF TestStartCode, d
<1>4. CASE ~\E i \in 1 .. Len(us) : Hit(us, k, p, i)
  <2>1. ~(p + k <= Len(d) /\ IsCode(d, p, k))
    BY <1>4, CodeIsHit
  <2> HIDE DEF d
  <2>2. ~(p + k <= Len(d) /\ SubSeq(d, p + 1, p + k) = StartCode(k))
    BY <1>1, <2>1, CodeAt
  <2>3. QED
    BY <1>4, <2>2 DEF TestStartCode, d
<1>5. QED
  BY <1>3, <1>4

LEMMA Apart ==
    ASSUME NEW us, IsFile(us), NEW i \in 1 .. Len(us), NEW k \in 1 .. Len(us), i < k
    PROVE  Body(us, i) < EndOf(us, i) /\ EndOf(us, i) <= EndOf(us, k - 1) /\ EndOf(us, k - 1) < Body(us, k)
<1>1. Len(us) \in Nat
  BY FileType
<1>2. i \in 0 .. Len(us) /\ k - 1 \in i .. Len(us)
  BY <1>1
<1>3. EndOf(us, i) <= EndOf(us, k - 1) /\ EndOf(us, k - 1) \in Nat
  BY <1>2, Ordered
<1>4. us[k].code \in {3, 4} /\ Len(us[i].octets) \in Nat /\ Len(us[i].octets) >= 1
  BY FileFacts
<1>5. Body(us, i) \in Nat /\ EndOf(us, i) = Body(us, i) + Len(us[i].octets)
  BY InFile
<1>6. Body(us, k) = EndOf(us, k - 1) + us[k].code
  BY DEF Body
<1>7. QED
  BY <1>3, <1>4, <1>5, <1>6

LEMMA DetermineIs ==
    ASSUME NEW us, IsFile(us), us # <<>>
    PROVE  /\ 1 \in 1 .. Len(us) /\ us[1].code \in {3, 4} /\ Body(us, 1) = us[1].code
           /\ DetermineStartCode(File(us)) = us[1].code
<1> DEFINE c == us[1].code
<1>1. 1 \in 1 .. Len(us)
  BY SeqFacts DEF IsFile
<1>2. c \in {3, 4} /\ Body(us, 1) = c
  BY <1>1, FileFacts, Ends DEF Body
<1>3. ASSUME NEW i \in 1 .. Len(us), NEW k \in {3, 4}, Hit(us, k, 0, i) PROVE c = k
  <2>1. Body(us, i) = k
    BY <1>3 DEF Hit
  <2>2. CASE i = 1
    BY <1>2, <2>1, <2>2
  <2>3. CASE i # 1
    <3>1. 1 < i
      BY <1>1, <2>3
    <3>2. Body(us, 1) < EndOf(us, 1) /\ EndOf(us, 1) <= EndOf(us, i - 1) /\ EndOf(us, i - 1) \in Nat /\ EndOf(us, 1) \in Nat
      BY <1>1, <3>1, Apart, InFile
    <3>3. us[i].code \in {3, 4} /\ Body(us, i) = EndOf(us, i - 1) + us[i].code
      BY FileFacts DEF Body
    <3>4. QED
      BY <1>2, <2>1, <3>2, <3>3
  <2>4. QED
    BY <2>2, <2>3
<1>4. Hit(us, c, 0, 1)
  BY <1>2 DEF Hit
<1> HIDE DEF c
<1>5. ASSUME NEW k \in {3, 4} PROVE TestStartCode(k, File(us), 0) = IF c = k THEN k ELSE 0
  BY <1>1, <1>3, <1>4, TestIs
<1>6. TestStartCode(3, File(us), 0) = (IF c = 3 THEN 3 ELSE 0) /\ TestStartCode(4, File(us), 0) = (IF c = 4 THEN 4 ELSE 0)
  BY <1>5
<1>7. DetermineStartCode(File(us)) = c
  BY <1>2, <1>6 DEF DetermineStartCode
<1>8. QED
  BY <1>1, <1>2, <1>7 DEF c

LEMMA NoFile == DetermineStartCode(File(<<>>)) = 0 /\ Len(File(<<>>)) = 0
<1>1. IsFile(<<>>)
  BY DEF IsFile
<1>2. File(<<>>) = Flat(Coded(<<>>), 0)
  BY <1>1, FileIs
<1>3. File(<<>>) = <<>>
  BY <1>2, FlatNone
<1>4. QED
  BY <1>3 DEF DetermineStartCode, TestStartCode
-----------------------------------------------------------------------------
(* NalUnits: the index.                                                    *)

Entries == [data : Nat, len : Nat]

\* r is the table t, its last unit closed at e.
Closes(r, t, e) ==
    /\ r \in Seq(Entries) /\ Len(r) = Len(t)
    /\ \A m \in 1 .. Len(t) : r[m].data = t[m].data /\ (m # Len(t) => r[m].len = t[m].len)
    /\ Len(t) \in 1 .. Len(t) => r[Len(t)].len = e - t[Len(t)].data

LEMMA CloseIs ==
    ASSUME NEW t \in Seq(Entries), NEW e \in Nat, \A m \in 1 .. Len(t) : t[m].data <= e
    PROVE  Closes(Close(t, e), t, e)
<1> DEFINE n == Len(t)
<1>1. n \in Nat /\ DOMAIN t = 1 .. n /\ \A m \in 1 .. n : t[m] \in Entries
  BY SeqFacts
<1>2. CASE t = <<>>
  <2>1. Close(t, e) = t /\ n = 0
    BY <1>2 DEF Close
  <2>2. QED
    BY <2>1 DEF Closes
<1>3. CASE t # <<>>
  <2> DEFINE x == [t[n] EXCEPT !.len = e - t[n].data]
             r == [t EXCEPT ![n] = x]
  <2>1. n >= 1 /\ n \in 1 .. n
    BY <1>1, <1>3, SeqFacts
  <2>2. t[n] \in Entries /\ t[n].data <= e
    BY <1>1, <2>1
  <2>3. x \in Entries /\ x.data = t[n].data /\ x.len = e - t[n].data
    BY <2>2 DEF Entries
  <2>4. Close(t, e) = r
    BY <1>3 DEF Close
  <2> HIDE DEF x, n
  <2>5. DOMAIN r = 1 .. n /\ r[n] = x /\ \A m \in 1 .. n : m # n => r[m] = t[m]
    BY <1>1, <2>1
  <2>6. r \in Seq(Entries) /\ Len(r) = n
    BY <1>1, <2>3, <2>1
  <2> HIDE DEF r
  <2>7. QED
    BY <2>1, <2>3, <2>4, <2>5, <2>6 DEF Closes, n
<1>4. QED
  BY <1>2, <1>3

\* A round that finds the start code of unit i, and one that finds none.
Finds(us, s, t, s1, t1, i) ==
    /\ Hit(us, us[1].code, s, i) /\ s1 = s + us[1].code /\ s1 < Len(File(us))
    /\ t1 = Append(Close(t, s), [data |-> s1, len |-> 0])
Passes(us, s, t, s1, t1) ==
    /\ \A i \in 1 .. Len(us) : ~Hit(us, us[1].code, s, i)
    /\ s1 = s + 1
    /\ t1 = IF s1 = Len(File(us)) THEN Close(t, Len(File(us))) ELSE t

LEMMA ScanIs ==
    ASSUME IsFile(n_units), n_units # <<>>, n_scan \in Nat, Scan
    PROVE  /\ n_units' = n_units /\ n_wire' = n_wire /\ n_scan < Len(File(n_units))
           /\ \/ \E i \in 1 .. Len(n_units) : Finds(n_units, n_scan, n_table, n_scan', n_table', i)
              \/ Passes(n_units, n_scan, n_table, n_scan', n_table')
<1> DEFINE k == n_units[1].code
           d == File(n_units)
           c == TestStartCode(k, d, n_scan)
<1>1. k \in {3, 4} /\ DetermineStartCode(d) = k
  BY DetermineIs
<1>2. c = IF \E i \in 1 .. Len(n_units) : Hit(n_units, k, n_scan, i) THEN k ELSE 0
  BY <1>1, TestIs
<1>3. Len(d) \in Nat
  BY FileType
<1> DEFINE found == IF c = 0 THEN n_table
                    ELSE Append(Close(n_table, n_scan), [data |-> n_scan + c, len |-> 0])
<1>4. /\ n_scan < Len(d) /\ n_scan' = n_scan + (IF c = 0 THEN 1 ELSE c)
      /\ n_table' = IF n_scan' = Len(d) THEN Close(found, Len(d)) ELSE found
      /\ UNCHANGED <<n_units, n_wire>>
  BY <1>1 DEF Scan
<1>5. CASE \E i \in 1 .. Len(n_units) : Hit(n_units, k, n_scan, i)
  <2>1. PICK i \in 1 .. Len(n_units) : Hit(n_units, k, n_scan, i)
    BY <1>5
  <2>2. n_scan + k < Len(d)
    BY <1>1, <2>1, HitIsCode
  <2>3. c = k /\ c # 0
    BY <1>1, <1>2, <1>5
  <2>4. n_scan' = n_scan + k /\ n_scan' # Len(d)
    BY <1>1, <1>3, <1>4, <2>2, <2>3
  <2>5. n_table' = Append(Close(n_table, n_scan), [data |-> n_scan + k, len |-> 0])
    BY <1>4, <2>3, <2>4, Zenon
  <2>6. Finds(n_units, n_scan, n_table, n_scan', n_table', i)
    BY <2>1, <2>2, <2>4, <2>5, Zenon DEF Finds
  <2>7. QED
    BY <1>4, <2>6
<1>6. CASE ~\E i \in 1 .. Len(n_units) : Hit(n_units, k, n_scan, i)
  <2>1. c = 0
    BY <1>2, <1>6
  <2>2. n_scan' = n_scan + 1 /\ n_table' = IF n_scan' = Len(d) THEN Close(n_table, Len(d)) ELSE n_table
    BY <1>4, <2>1, Zenon
  <2>3. Passes(n_units, n_scan, n_table, n_scan', n_table')
    BY <1>6, <2>2, Zenon DEF Passes
  <2>4. QED
    BY <1>4, <2>3
<1>7. QED
  BY <1>5, <1>6

\* In every file, entry m of the table is unit i, and not empty once it is closed.
Entry(us, s, t, m, i) ==
    /\ t[m].data = Body(us, i) /\ Body(us, i) <= s /\ t[m].data + t[m].len <= Len(File(us))
    /\ m < Len(t) \/ s = Len(File(us)) => t[m].len >= 1
Indexes(us, s, t) ==
    /\ t \in Seq(Entries) /\ s \in 0 .. Len(File(us))
    /\ \A m \in 1 .. Len(t) : \E i \in 1 .. Len(us) : Entry(us, s, t, m, i)

\* How the table is closed: at s, a place from where nothing belongs to the last unit.
LEMMA EntriesClosed ==
    ASSUME NEW us, IsFile(us), NEW s, NEW t, Indexes(us, s, t),
           NEW e \in Nat, s <= e, e <= Len(File(us)),
           \A i \in 1 .. Len(us) : Body(us, i) <= s => Body(us, i) < e
    PROVE  /\ Closes(Close(t, e), t, e)
           /\ \A m \in 1 .. Len(t) : \E i \in 1 .. Len(us) :
                  /\ Close(t, e)[m].data = Body(us, i) /\ Body(us, i) < e
                  /\ Close(t, e)[m].data + Close(t, e)[m].len <= Len(File(us))
                  /\ Close(t, e)[m].len >= 1
<1> DEFINE r == Close(t, e)
           n == Len(t)
           D == Len(File(us))
<1>1. t \in Seq(Entries) /\ s \in Nat /\ D \in Nat /\ n \in Nat
  BY FileType, SeqFacts DEF Indexes
<1>2. ASSUME NEW m \in 1 .. n PROVE \E i \in 1 .. Len(us) : Entry(us, s, t, m, i)
  BY DEF Indexes
<1>3. ASSUME NEW m \in 1 .. n PROVE t[m].data <= e
  <2>1. PICK i \in 1 .. Len(us) : Entry(us, s, t, m, i)
    BY <1>2
  <2>2. t[m].data = Body(us, i) /\ Body(us, i) <= s /\ Body(us, i) \in Nat
    BY <2>1, InFile DEF Entry
  <2>3. QED
    BY <1>1, <2>2
<1>4. Closes(r, t, e)
  BY <1>1, <1>3, CloseIs
<1>5. ASSUME NEW m \in 1 .. n
      PROVE  \E i \in 1 .. Len(us) : /\ r[m].data = Body(us, i) /\ Body(us, i) < e
                                      /\ r[m].data + r[m].len <= D /\ r[m].len >= 1
  <2>1. PICK i \in 1 .. Len(us) : Entry(us, s, t, m, i)
    BY <1>2
  <2>2. /\ t[m].data = Body(us, i) /\ Body(us, i) <= s /\ Body(us, i) \in Nat
        /\ t[m].data + t[m].len <= D /\ (m < n => t[m].len >= 1)
    BY <2>1, InFile DEF Entry
  <2>3. Body(us, i) < e
    BY <2>2
  <2> HIDE DEF r, n, D
  <2>4. CASE m = n
    <3>1. n \in 1 .. n
      BY <2>4
    <3>2. r[m].data = t[m].data /\ r[m].len = e - t[m].data
      BY <1>4, <2>4, <3>1 DEF Closes, n
    <3>3. r[m].data + r[m].len = e /\ r[m].len >= 1 /\ e <= D
      BY <2>2, <2>3, <3>2 DEF D
    <3>4. QED
      BY <2>2, <2>3, <3>2, <3>3
  <2>5. CASE m # n
    <3>1. r[m].data = t[m].data /\ r[m].len = t[m].len /\ m < n
      BY <1>1, <1>4, <2>5 DEF Closes, n
    <3>2. QED
      BY <2>2, <2>3, <3>1
  <2>6. QED
    BY <2>4, <2>5
<1>6. QED
  BY <1>4, <1>5

LEMMA IndexesFinds ==
    ASSUME NEW us, IsFile(us), us # <<>>, NEW s, NEW t, Indexes(us, s, t),
           NEW i \in 1 .. Len(us), NEW s1, NEW t1, Finds(us, s, t, s1, t1, i)
    PROVE  Indexes(us, s1, t1) /\ Closes(Close(t, s), t, s)
           /\ Longer(t1, Close(t, s), [data |-> Body(us, i), len |-> 0])
<1> DEFINE k == us[1].code
           r == Close(t, s)
           D == Len(File(us))
           new == [data |-> s1, len |-> 0]
<1>1. s \in Nat /\ s <= D /\ D \in Nat /\ k \in {3, 4}
  BY FileType, DetermineIs DEF Indexes
<1> DEFINE c == us[i].code
<1>2. c >= k /\ s + k = Body(us, i) /\ s1 = Body(us, i) /\ s1 < D
  BY DEF Finds, Hit
<1>3. Body(us, i) = EndOf(us, i - 1) + c /\ EndOf(us, i - 1) \in Nat /\ c \in {3, 4}
  BY InFile, FileFacts DEF Body
<1>15. t \in Seq(Entries) /\ Len(t) \in Nat /\ t1 = Append(r, new)
  BY SeqFacts DEF Indexes, Finds
<1> HIDE DEF c
<1>4. ASSUME NEW j \in 1 .. Len(us), Body(us, j) <= s PROVE Body(us, j) < s
  <2>1. Body(us, j) \in Nat /\ EndOf(us, j) \in Nat /\ Body(us, j) < Body(us, i)
    <3>1. Body(us, j) \in Nat /\ EndOf(us, j) \in Nat
      BY InFile
    <3> HIDE DEF k
    <3>2. QED
      BY <1>1, <1>2, <1>4, <3>1
  <2>2. CASE j < i
    <3>1. Body(us, j) < EndOf(us, j) /\ EndOf(us, j) <= EndOf(us, i - 1)
      BY <2>2, Apart
    <3> HIDE DEF k
    <3>2. EndOf(us, i - 1) <= s
      BY <1>1, <1>2, <1>3
    <3>3. QED
      BY <1>1, <1>3, <2>1, <3>1, <3>2
  <2>3. CASE j = i
    BY <2>1, <2>3
  <2>4. CASE j > i
    <3>1. Body(us, i) < EndOf(us, i) /\ EndOf(us, i) <= EndOf(us, j - 1) /\ EndOf(us, j - 1) < Body(us, j)
      BY <2>4, Apart
    <3>2. Body(us, i) \in Nat /\ EndOf(us, i) \in Nat /\ EndOf(us, j - 1) \in Nat
      BY InFile
    <3>3. QED
      BY <2>1, <3>1, <3>2
  <2>5. QED
    BY <2>2, <2>3, <2>4
<1>5. /\ Closes(r, t, s)
      /\ \A m \in 1 .. Len(t) : \E j \in 1 .. Len(us) :
             r[m].data = Body(us, j) /\ Body(us, j) < s /\ r[m].data + r[m].len <= D /\ r[m].len >= 1
  BY <1>1, <1>4, EntriesClosed
<1>6. r \in Seq(Entries) /\ Len(r) = Len(t)
  BY <1>5 DEF Closes
<1>7. Body(us, i) \in Nat /\ s1 \in Nat /\ s <= s1
  <2> HIDE DEF k
  <2>1. QED
    BY <1>1, <1>2, <1>3
<1>8. new \in Entries
  BY <1>7 DEF Entries
<1> HIDE DEF new, r, D, k
<1>9. t1 \in Seq(Entries) /\ Longer(t1, r, new)
  BY <1>15, <1>6, <1>8, AppendLonger
<1>10. Len(t1) = Len(t) + 1
  BY <1>6, <1>9 DEF Longer
<1>11. ASSUME NEW m \in 1 .. Len(t1) PROVE \E j \in 1 .. Len(us) : Entry(us, s1, t1, m, j)
  <2>1. (m \in 1 .. Len(r) /\ t1[m] = r[m]) \/ (m = Len(r) + 1 /\ t1[m] = new)
    BY <1>9, LongerPlaces
  <2>2. CASE m \in 1 .. Len(r) /\ t1[m] = r[m]
    <3>1. PICK j \in 1 .. Len(us) : r[m].data = Body(us, j) /\ Body(us, j) < s /\ r[m].data + r[m].len <= D /\ r[m].len >= 1
      BY <1>5, <1>6, <2>2
    <3>2. Body(us, j) <= s1
      <4>1. Body(us, j) \in Nat
        BY InFile
      <4>2. QED
        BY <1>1, <1>7, <3>1, <4>1
    <3>3. QED
      BY <2>2, <3>1, <3>2 DEF Entry, D
  <2>3. CASE m = Len(r) + 1 /\ t1[m] = new
    <3>1. t1[m].data = s1 /\ t1[m].len = 0
      BY <2>3 DEF new
    <3>2. ~(m < Len(t1)) /\ s1 # D
      BY <1>15, <1>1, <1>2, <1>6, <1>7, <1>10, <2>3
    <3>3. t1[m].data + t1[m].len <= D /\ Body(us, i) <= s1
      BY <1>1, <1>2, <1>7, <3>1
    <3>4. Entry(us, s1, t1, m, i)
      BY <1>2, <3>1, <3>2, <3>3 DEF Entry, D
    <3>5. QED
      BY <3>4
  <2>4. QED
    BY <2>1, <2>2, <2>3
<1>12. s1 \in 0 .. D
  BY <1>1, <1>2, <1>7
<1>13. new = [data |-> Body(us, i), len |-> 0]
  BY <1>2 DEF new
<1>14. QED
  BY <1>5, <1>9, <1>11, <1>12, <1>13 DEF Indexes, D, r

LEMMA IndexesPasses ==
    ASSUME NEW us, IsFile(us), NEW s, NEW t, Indexes(us, s, t), s < Len(File(us)),
           NEW s1, NEW t1, Passes(us, s, t, s1, t1)
    PROVE  Indexes(us, s1, t1)
           /\ (s1 = Len(File(us)) => Closes(t1, t, s1)) /\ (s1 # Len(File(us)) => t1 = t)
<1> DEFINE D == Len(File(us))
<1>1. s \in Nat /\ D \in Nat /\ t \in Seq(Entries) /\ Len(t) \in Nat /\ s1 = s + 1
  BY FileType, SeqFacts DEF Indexes, Passes
<1>2. s1 \in Nat /\ s <= s1 /\ s1 \in 0 .. D
  BY <1>1
<1>3. CASE s1 = D
  <2>1. t1 = Close(t, s1)
    BY <1>3 DEF Passes
  <2>2. ASSUME NEW j \in 1 .. Len(us), Body(us, j) <= s PROVE Body(us, j) < s1
    BY <1>1, <2>2, InFile
  <2>3. /\ Closes(t1, t, s1)
        /\ \A m \in 1 .. Len(t) : \E j \in 1 .. Len(us) :
               t1[m].data = Body(us, j) /\ Body(us, j) < s1 /\ t1[m].data + t1[m].len <= D /\ t1[m].len >= 1
    <3>1. s1 \in Nat /\ s <= s1 /\ s1 <= D
      BY <1>2
    <3> DEFINE r == Close(t, s1)
    <3>2. /\ Closes(r, t, s1)
          /\ \A m \in 1 .. Len(t) : \E j \in 1 .. Len(us) :
                 r[m].data = Body(us, j) /\ Body(us, j) < s1 /\ r[m].data + r[m].len <= D /\ r[m].len >= 1
      BY <2>2, <3>1, EntriesClosed
    <3> HIDE DEF r
    <3>3. QED
      BY <2>1, <3>2 DEF r
  <2>4. t1 \in Seq(Entries) /\ Len(t1) = Len(t)
    BY <2>3 DEF Closes
  <2>5. ASSUME NEW m \in 1 .. Len(t1) PROVE \E j \in 1 .. Len(us) : Entry(us, s1, t1, m, j)
    <3>1. PICK j \in 1 .. Len(us) : t1[m].data = Body(us, j) /\ Body(us, j) < s1 /\ t1[m].data + t1[m].len <= D /\ t1[m].len >= 1
      BY <2>3, <2>4
    <3>2. Body(us, j) <= s1
      BY <1>2, <3>1, InFile
    <3>3. QED
      BY <3>1, <3>2 DEF Entry
  <2>6. QED
    BY <1>2, <1>3, <2>3, <2>4, <2>5 DEF Indexes
<1>4. CASE s1 # D
  <2>1. t1 = t
    BY <1>4 DEF Passes
  <2>2. ASSUME NEW m \in 1 .. Len(t1) PROVE \E j \in 1 .. Len(us) : Entry(us, s1, t1, m, j)
    <3>1. PICK j \in 1 .. Len(us) : Entry(us, s, t, m, j)
      BY <2>1 DEF Indexes
    <3>2. /\ t[m].data = Body(us, j) /\ Body(us, j) <= s /\ t[m].data + t[m].len <= D
          /\ (m < Len(t) => t[m].len >= 1)
      BY <3>1 DEF Entry
    <3>3. Body(us, j) <= s1
      BY <1>1, <3>2, InFile
    <3>4. QED
      BY <1>4, <2>1, <3>2, <3>3 DEF Entry
  <2>3. QED
    BY <1>1, <1>2, <1>4, <2>1, <2>2 DEF Indexes
<1>5. QED
  BY <1>3, <1>4

\* Every start code of the file contains one of the kind that is searched for.
AllSeen(us) == \A i \in 1 .. Len(us) : us[i].code >= us[1].code

\* Where entry m ends once the next one is found, and that the scan has not gone
\* past the next start code.
Upto(us, t) ==
    /\ Len(t) <= Len(us)
    /\ \A m \in 1 .. Len(t) :
           /\ t[m].data = Body(us, m)
           /\ m < Len(t) => t[m].len = Body(us, m + 1) - us[1].code - Body(us, m)
Between(us, s, t) ==
    /\ Len(t) >= 1 => /\ Body(us, Len(t)) <= s
                      /\ s = Len(File(us)) => t[Len(t)].len = Len(File(us)) - Body(us, Len(t))
    /\ Len(t) < Len(us) => s + us[1].code <= Body(us, Len(t) + 1)

LEMMA AllFinds ==
    ASSUME NEW us, IsFile(us), us # <<>>, AllSeen(us), NEW s, NEW t, Indexes(us, s, t),
           Upto(us, t), Between(us, s, t),
           NEW i \in 1 .. Len(us), NEW s1, NEW t1, Finds(us, s, t, s1, t1, i)
    PROVE  Upto(us, t1) /\ Between(us, s1, t1)
<1> DEFINE k == us[1].code
           r == Close(t, s)
           new == [data |-> Body(us, i), len |-> 0]
           n == Len(t)
           N == Len(us)
<1>1. Closes(r, t, s) /\ Longer(t1, r, new)
  BY IndexesFinds
<1>2. s \in Nat /\ k \in {3, 4} /\ n \in Nat /\ N \in Nat /\ n <= N /\ Len(File(us)) \in Nat
  BY FileType, DetermineIs, SeqFacts DEF Indexes, Upto
<1>3. s + k = Body(us, i) /\ s1 = Body(us, i) /\ s1 < Len(File(us))
  BY DEF Finds, Hit
<1>4. \A j \in 1 .. N : Body(us, j) \in Nat
  BY InFile
<1>5. i = n + 1
  <2>1. i > n
    <3>1. CASE n = 0
      BY <1>2, <3>1
    <3>2. CASE n # 0
      <4>1. n \in 1 .. N /\ Body(us, n) <= s
        BY <1>2, <3>2 DEF Between
      <4>2. Body(us, n) < Body(us, i)
        <5> HIDE DEF k, n, N
        <5>1. QED
          BY <1>2, <1>3, <1>4, <4>1
      <4>3. ~(i = n) /\ ~(i < n)
        <5>1. CASE i < n
          <6>1. Body(us, i) < EndOf(us, i) /\ EndOf(us, i) <= EndOf(us, n - 1) /\ EndOf(us, n - 1) < Body(us, n)
            BY <4>1, <5>1, Apart
          <6>2. EndOf(us, i) \in Nat /\ EndOf(us, n - 1) \in Nat
            BY <4>1, InFile
          <6>3. QED
            BY <1>4, <4>1, <4>2, <6>1, <6>2
        <5>2. CASE i = n
          BY <1>4, <4>2, <5>2
        <5>3. QED
          BY <5>1, <5>2
      <4>4. QED
        BY <1>2, <4>3
    <3>3. QED
      BY <3>1, <3>2
  <2>2. n < N
    BY <1>2, <2>1
  <2>3. Body(us, i) <= Body(us, n + 1) /\ n + 1 \in 1 .. N
    <3>1. s + k <= Body(us, n + 1)
      BY <2>2 DEF Between
    <3>2. QED
      BY <1>2, <1>3, <2>2, <3>1
  <2>4. ~(n + 1 < i)
    <3>1. SUFFICES ASSUME n + 1 < i PROVE FALSE
      OBVIOUS
    <3>2. /\ Body(us, n + 1) < EndOf(us, n + 1) /\ EndOf(us, n + 1) <= EndOf(us, i - 1)
          /\ EndOf(us, i - 1) < Body(us, i)
      BY <2>3, <3>1, Apart
    <3>3. EndOf(us, n + 1) \in Nat /\ EndOf(us, i - 1) \in Nat
      BY <2>3, InFile
    <3>4. QED
      BY <1>4, <2>3, <3>2, <3>3
  <2>5. QED
    BY <1>2, <2>1, <2>4
<1>6. /\ Len(r) = n
      /\ \A m \in 1 .. n : r[m].data = t[m].data /\ (m # n => r[m].len = t[m].len)
      /\ n \in 1 .. n => r[n].len = s - t[n].data
  BY <1>1 DEF Closes
<1>7. \A m \in 1 .. n : /\ t[m].data = Body(us, m)
                        /\ m < n => t[m].len = Body(us, m + 1) - k - Body(us, m)
  BY DEF Upto
<1>8. Len(t1) = n + 1
  BY <1>1, <1>6 DEF Longer
<1> HIDE DEF new, r, n, N, k
<1>9. ASSUME NEW m \in 1 .. Len(t1)
      PROVE  /\ t1[m].data = Body(us, m)
             /\ m < Len(t1) => t1[m].len = Body(us, m + 1) - k - Body(us, m)
  <2>1. (m \in 1 .. n /\ t1[m] = r[m]) \/ (m = n + 1 /\ t1[m] = new)
    BY <1>1, <1>6, LongerPlaces
  <2>2. CASE m = n + 1 /\ t1[m] = new
    BY <1>2, <1>5, <1>8, <2>2 DEF new
  <2>3. CASE m \in 1 .. n /\ t1[m] = r[m]
    <3>1. t1[m].data = Body(us, m) /\ r[m].data = t[m].data /\ t[m].data = Body(us, m)
      BY <1>6, <1>7, <2>3, Zenon
    <3>2. CASE m = n
      <4>1. t1[m].len = s - Body(us, m)
        BY <1>6, <2>3, <3>1, <3>2, Zenon
      <4>2. m \in 1 .. N /\ s = Body(us, m + 1) - k /\ Body(us, m) \in Nat /\ Body(us, m + 1) \in Nat
        BY <1>2, <1>3, <1>4, <1>5, <2>3, <3>2 DEF N
      <4>3. QED
        BY <3>1, <4>1, <4>2
    <3>3. CASE m # n
      BY <1>2, <1>6, <1>7, <2>3, <3>1, <3>3
    <3>4. QED
      BY <3>2, <3>3
  <2>4. QED
    BY <2>1, <2>2, <2>3
<1>10. Len(t1) <= N
  BY <1>2, <1>5, <1>8 DEF N
<1>11. Upto(us, t1)
  BY <1>9, <1>10 DEF Upto, k, N
<1>12. Body(us, Len(t1)) <= s1 /\ s1 # Len(File(us))
  BY <1>2, <1>3, <1>4, <1>5, <1>8 DEF N
<1>13. ASSUME Len(t1) < N PROVE s1 + k <= Body(us, Len(t1) + 1)
  <2> DEFINE j == Len(t1) + 1
  <2>1. j \in 1 .. N /\ i < j /\ j - 1 = i
    BY <1>2, <1>5, <1>8, <1>13
  <2> HIDE DEF j
  <2>2. Body(us, i) < EndOf(us, i)
    BY <2>1, Apart DEF N
  <2>3. Body(us, j) = EndOf(us, i) + us[j].code /\ us[j].code \in {3, 4} /\ us[j].code >= k
    BY <2>1, FileFacts DEF Body, AllSeen, N, k
  <2>4. EndOf(us, i) \in Nat
    BY InFile
  <2>5. s1 + k <= Body(us, j)
    <3> DEFINE c == us[j].code
               b == Body(us, i)
    <3>1. b \in Nat
      BY <1>4 DEF N
    <3>2. Body(us, j) = EndOf(us, i) + c /\ c \in {3, 4} /\ c >= k /\ b < EndOf(us, i) /\ s1 = b
      BY <1>3, <2>2, <2>3
    <3> HIDE DEF c, b
    <3>3. QED
      BY <1>2, <2>4, <3>1, <3>2
  <2>6. QED
    BY <2>5 DEF j
<1>14. Between(us, s1, t1)
  BY <1>12, <1>13 DEF Between, k, N
<1>15. QED
  BY <1>11, <1>14

LEMMA AllPasses ==
    ASSUME NEW us, IsFile(us), us # <<>>, AllSeen(us), NEW s, NEW t, Indexes(us, s, t), s < Len(File(us)),
           Upto(us, t), Between(us, s, t),
           NEW s1, NEW t1, Passes(us, s, t, s1, t1)
    PROVE  Upto(us, t1) /\ Between(us, s1, t1)
<1> DEFINE k == us[1].code
           n == Len(t)
           N == Len(us)
           D == Len(File(us))
<1>1. s \in Nat /\ k \in {3, 4} /\ n \in Nat /\ N \in Nat /\ n <= N /\ D \in Nat
  BY FileType, DetermineIs, SeqFacts DEF Indexes, Upto
<1>2. s1 = s + 1 /\ (s1 = D => Closes(t1, t, s1)) /\ (s1 # D => t1 = t)
  BY IndexesPasses DEF Passes
<1>3. /\ Len(t1) = n
      /\ \A m \in 1 .. n : t1[m].data = t[m].data /\ (m # n => t1[m].len = t[m].len)
      /\ s1 = D /\ n \in 1 .. n => t1[n].len = D - t[n].data
  BY <1>2 DEF Closes
<1>4. \A m \in 1 .. n : /\ t[m].data = Body(us, m)
                        /\ m < n => t[m].len = Body(us, m + 1) - k - Body(us, m)
  BY DEF Upto
<1>5. \A j \in 1 .. N : Body(us, j) \in Nat
  BY InFile
<1>6. /\ n >= 1 => Body(us, n) <= s
      /\ n < N => s + k <= Body(us, n + 1)
  BY DEF Between
<1>7. n < N => s + k # Body(us, n + 1)
  <2>1. SUFFICES ASSUME n < N PROVE s + k # Body(us, n + 1)
    OBVIOUS
  <2>2. n + 1 \in 1 .. N
    BY <1>1, <2>1
  <2>3. ~Hit(us, k, s, n + 1) /\ us[n + 1].code >= k
    BY <2>2 DEF Passes, AllSeen
  <2>4. QED
    BY <2>3 DEF Hit
<1> HIDE DEF k, n, N, D
<1>8. Upto(us, t1)
  <2>1. \A m \in 1 .. n : /\ t1[m].data = Body(us, m)
                          /\ m < n => t1[m].len = Body(us, m + 1) - k - Body(us, m)
    BY <1>1, <1>3, <1>4
  <2>2. Len(t1) <= N
    BY <1>1, <1>3
  <2>3. QED
    BY <1>3, <2>1, <2>2, Zenon DEF Upto, k, N
<1>9. n < N => s1 + k <= Body(us, n + 1)
  <2>1. SUFFICES ASSUME n < N PROVE s1 + k <= Body(us, n + 1)
    OBVIOUS
  <2>2. Body(us, n + 1) \in Nat
    BY <1>1, <1>5, <2>1
  <2>3. QED
    BY <1>1, <1>2, <1>6, <1>7, <2>1, <2>2
<1>10. ASSUME n >= 1
       PROVE  Body(us, n) <= s1 /\ (s1 = D => t1[n].len = D - Body(us, n))
  <2>1. n \in 1 .. n /\ n \in 1 .. N
    BY <1>1, <1>10
  <2>2. Body(us, n) <= s1
    BY <1>1, <1>2, <1>5, <1>6, <1>10, <2>1
  <2>3. t[n].data = Body(us, n)
    BY <1>4, <2>1, Zenon
  <2>4. QED
    BY <1>3, <2>1, <2>2, <2>3, Zenon
<1>11. Between(us, s1, t1)
  BY <1>3, <1>9, <1>10 DEF Between, k, N, D
<1>12. QED
  BY <1>8, <1>11

\* The first octet of an entry is the header of a unit.
LEMMA IndexedHeader ==
    ASSUME NEW us, IsFile(us), NEW t, Indexes(us, Len(File(us)), t), NEW m \in 1 .. Len(t)
    PROVE  \E x \in 0 .. 127 :
               SubSeq(SubSeq(File(us), t[m].data + 1, t[m].data + t[m].len), 1, 1) = <<x>>
<1> DEFINE d == File(us)
           l == t[m].len
<1>1. d \in Seq(NalOctet) /\ Len(d) \in Nat
  BY FileType
<1>2. t[m] \in Entries
  BY SeqFacts DEF Indexes
<1>3. PICK i \in 1 .. Len(us) : Entry(us, Len(d), t, m, i)
  BY DEF Indexes
<1> DEFINE b == Body(us, i)
           o == us[i].octets
<1>4. t[m].data = b /\ b + l <= Len(d) /\ l >= 1
  BY <1>3 DEF Entry
<1>5. b \in Nat /\ l \in Nat
  BY <1>2, <1>4 DEF Entries
<1>6. d[b + 1] = o[1] /\ o[1] \in 0 .. 127
  <2>1. o \in Seq(NalOctet) /\ 1 \in 1 .. Len(o) /\ UnitFits(us[i])
    BY FileFacts
  <2>2. o[1] \in NalOctet /\ o[1] < 128
    BY <2>1, SeqFacts, Zenon DEF UnitFits
  <2>3. d[b + 1] = o[1]
    <3>1. \A j \in 1 .. Len(o) : d[b + j] = o[j]
      BY InFile
    <3>2. QED
      BY <2>1, <3>1, Zenon
  <2> HIDE DEF d, b, o
  <2>4. o[1] \in 0 .. 127
    <3> DEFINE y == o[1]
    <3>1. y \in NalOctet /\ y < 128
      BY <2>2, Zenon
    <3> HIDE DEF y
    <3>2. y \in 0 .. 127
      BY <3>1, SMT DEF NalOctet
    <3>3. QED
      BY <3>2, Zenon DEF y
  <2>5. QED
    BY <2>3, <2>4, Zenon
<1> HIDE DEF d, l, b, o
<1> DEFINE a == b + 1
           e == b + l
           x == SubSeq(d, a, e)
<1>7. ASSUME NEW j \in a .. e PROVE d[j] \in NalOctet
  <2>1. j \in 1 .. Len(d)
    BY <1>1, <1>4, <1>5
  <2>2. QED
    BY <1>1, <2>1, SeqFacts
<1>8. a \in Int /\ e \in Int /\ 1 \in 1 .. e - a + 1 /\ a + 1 - 1 = b + 1
  BY <1>4, <1>5
<1> HIDE DEF a, e
<1>9. x[1] = d[a + 1 - 1]
  BY <1>7, <1>8, SubSeqProperties
<1>10. x[1] = o[1]
  BY <1>6, <1>8, <1>9
<1> HIDE DEF x
<1> DEFINE q == <<o[1]>>
<1>11. q \in Seq(0 .. 127) /\ Len(q) = 1 /\ \A j \in 1 .. Len(q) : x[0 + j] = q[j]
  BY <1>6, <1>10
<1>12. 0 + 1 = 1 /\ 0 + Len(q) = 1 /\ 0 \in Nat
  BY <1>11
<1> HIDE DEF q
<1>13. SubSeq(x, 0 + 1, 0 + Len(q)) = q
  BY <1>11, <1>12, CutOut
<1>14. SubSeq(x, 1, 1) = q
  BY <1>12, <1>13
<1>15. QED
  BY <1>4, <1>6, <1>14 DEF q, x, a, e, d, l
-----------------------------------------------------------------------------
(* NalUnits: the headers on the wire.                                      *)

Header(octets, header, fu, first, last) ==
    [octets |-> octets, header |-> header, fu |-> fu, first |-> first, last |-> last]
RightHeader(w) == Rebuild(w) = w.header /\ (w.fu => FragmentMarked(w))

FuBits(o, first, last, u) ==
    /\ o \in Nat /\ o % 64 = u
    /\ o \div 128 = (IF first THEN 1 ELSE 0) /\ (o \div 64) % 2 = (IF last THEN 1 ELSE 0)

LEMMA FuOctet ==
    ASSUME NEW first \in BOOLEAN, NEW last \in BOOLEAN, NEW u \in 0 .. 63
    PROVE  FuBits(FuHeaderOctet(first, last, u), first, last, u)
<1> DEFINE o == FuHeaderOctet(first, last, u)
<1>1. CASE first /\ last
  <2>1. o = 128 + 64 + u
    BY <1>1, Zenon DEF FuHeaderOctet
  <2> HIDE DEF o
  <2>2. o \in Nat /\ o % 64 = u /\ o \div 128 = 1 /\ (o \div 64) % 2 = 1
    BY <2>1, SMT
  <2>3. QED
    BY <1>1, <2>2, Zenon DEF FuBits, o
<1>2. CASE first /\ ~last
  <2>1. o = 128 + 0 + u
    BY <1>2, Zenon DEF FuHeaderOctet
  <2> HIDE DEF o
  <2>2. o \in Nat /\ o % 64 = u /\ o \div 128 = 1 /\ (o \div 64) % 2 = 0
    BY <2>1, SMT
  <2>3. QED
    BY <1>2, <2>2, Zenon DEF FuBits, o
<1>3. CASE ~first /\ last
  <2>1. o = 0 + 64 + u
    BY <1>3, Zenon DEF FuHeaderOctet
  <2> HIDE DEF o
  <2>2. o \in Nat /\ o % 64 = u /\ o \div 128 = 0 /\ (o \div 64) % 2 = 1
    BY <2>1, SMT
  <2>3. QED
    BY <1>3, <2>2, Zenon DEF FuBits, o
<1>4. CASE ~first /\ ~last
  <2>1. o = 0 + 0 + u
    BY <1>4, Zenon DEF FuHeaderOctet
  <2> HIDE DEF o
  <2>2. o \in Nat /\ o % 64 = u /\ o \div 128 = 0 /\ (o \div 64) % 2 = 0
    BY <2>1, SMT
  <2>3. QED
    BY <1>4, <2>2, Zenon DEF FuBits, o
<1>5. QED
  BY <1>1, <1>2, <1>3, <1>4

LEMMA TwoOctets ==
    ASSUME NEW q, NEW a, NEW b, q = <<a, b>>
    PROVE  Len(q) = 2 /\ Len(q) # 1 /\ q[1] = a /\ q[2] = b /\ Last(q) = b
BY DEF Last

LEMMA ThreeOctets ==
    ASSUME NEW q, NEW a, NEW b, NEW c, Behind(q, <<a, b>>, <<c>>)
    PROVE  Len(q) = 3 /\ q[1] = a /\ q[2] = b /\ q[3] = c /\ Last(q) = c
BY DEF Behind, Last

LEMMA H264Right ==
    ASSUME NEW x \in 0 .. 127, NEW fu \in BOOLEAN, NEW first \in BOOLEAN, NEW last \in BOOLEAN,
           NEW w, w = Header(IF fu THEN WriteFuHeaderH264(ParseH264(x), first, last)
                             ELSE SerializeH264(ParseH264(x)), <<x>>, fu, first, last)
    PROVE  RightHeader(w)
<1> DEFINE r == (x \div 32) % 4
           u == x % 32
           h == ParseH264(x)
<1>1. h.forbidden_zero_bit = 0 /\ h.ref_idc = r /\ h.unit_type = u
  <2>1. x \div 128 = 0
    OBVIOUS
  <2>2. QED
    BY <2>1 DEF ParseH264
<1>2. r \in 0 .. 3 /\ u \in 0 .. 31 /\ x = 32 * r + u
  OBVIOUS
<1>3. /\ w.octets = (IF fu THEN WriteFuHeaderH264(h, first, last) ELSE SerializeH264(h))
      /\ w.header = <<x>> /\ w.fu = fu /\ w.first = first /\ w.last = last
  BY DEF Header
<1> HIDE DEF r, u, h
<1>4. CASE ~fu
  <2>1. w.octets = <<128 * 0 + 32 * r + u>>
    BY <1>1, <1>3, <1>4 DEF SerializeH264
  <2>2. 128 * 0 + 32 * r + u = x
    BY <1>2
  <2>3. QED
    BY <1>3, <1>4, <2>1, <2>2 DEF RightHeader, Rebuild
<1>5. CASE fu
  <2> DEFINE o == FuHeaderOctet(first, last, u)
             p == 124 - (IF r \div 2 = 0 THEN 64 ELSE 0) - (IF r % 2 = 0 THEN 32 ELSE 0)
  <2>1. FuBits(o, first, last, u)
    <3>1. u \in 0 .. 63
      BY <1>2
    <3>2. QED
      BY <3>1, FuOctet
  <2>2. p = 28 + 32 * r
    <3>1. CASE r = 0
      BY <3>1
    <3>2. CASE r = 1
      BY <3>2
    <3>3. CASE r = 2
      BY <3>3
    <3>4. CASE r = 3
      BY <3>4
    <3>5. QED
      BY <1>2, <3>1, <3>2, <3>3, <3>4
  <2>3. w.octets = <<p, o>>
    <3>1. w.octets = WriteFuHeaderH264(h, first, last)
      BY <1>3, <1>5, Zenon
    <3>2. WriteFuHeaderH264(h, first, last) = <<p, o>>
      BY <1>1, Zenon DEF WriteFuHeaderH264
    <3>3. QED
      BY <3>1, <3>2, Zenon
  <2> HIDE DEF o, p
  <2>4. p \div 32 = r /\ p % 32 = 28
    BY <1>2, <2>2
  <2>5. o % 32 = u
    BY <1>2, <2>1, SMT DEF FuBits
  <2>6. Len(w.octets) = 2 /\ w.octets[1] = p /\ w.octets[2] = o /\ Last(w.octets) = o
    BY <2>3, TwoOctets
  <2>7. (p \div 32) * 32 + (o % 32) = x
    BY <1>2, <2>4, <2>5
  <2>8. Rebuild(w) = w.header
    <3>1. Rebuild(w) = <<(w.octets[1] \div 32) * 32 + (w.octets[2] % 32)>>
      BY <1>3, <1>5, <2>6, Zenon DEF Rebuild
    <3>2. QED
      BY <1>3, <2>6, <2>7, <3>1
  <2>9. FragmentMarked(w)
    BY <1>3, <2>1, <2>4, <2>6, Zenon DEF FragmentMarked, FuBits
  <2>10. QED
    BY <2>8, <2>9 DEF RightHeader
<1>6. QED
  BY <1>4, <1>5

LEMMA H265Right ==
    ASSUME NEW a \in NalOctet, NEW b \in NalOctet,
           NEW fu \in BOOLEAN, NEW first \in BOOLEAN, NEW last \in BOOLEAN,
           NEW w, w = Header(IF fu THEN WriteFuHeaderH265(ParseH265(<<a, b>>), first, last)
                             ELSE SerializeH265(ParseH265(<<a, b>>)), <<a, b>>, fu, first, last)
    PROVE  RightHeader(w)
<1> USE DEF NalOctet
<1> DEFINE f == a \div 128
           u == (a \div 2) % 64
           z == a % 2
           y == 32 * z + b \div 8
           t == b % 8
           h == ParseH265(<<a, b>>)
<1>1. h = [forbidden_zero_bit |-> f, unit_type |-> u, nuh_layer_id |-> y, nuh_temporal_id_plus1 |-> t]
  BY DEF ParseH265
<1>2. f \in 0 .. 1 /\ u \in 0 .. 63 /\ z \in 0 .. 1 /\ a = 128 * f + 2 * u + z
  OBVIOUS
<1>3. (y \div 32) % 2 = z /\ 8 * (y % 32) + (t % 8) = b
  <2> DEFINE v == b \div 8
  <2>1. v \in 0 .. 31 /\ t \in 0 .. 7 /\ b = 8 * v + t
    OBVIOUS
  <2>2. y = 32 * z + v
    OBVIOUS
  <2> HIDE DEF y, z, t, v
  <2>3. y \div 32 = z /\ y % 32 = v
    BY <1>2, <2>1, <2>2
  <2>4. QED
    BY <1>2, <2>1, <2>3
<1>4. /\ w.octets = (IF fu THEN WriteFuHeaderH265(h, first, last) ELSE SerializeH265(h))
      /\ w.header = <<a, b>> /\ w.fu = fu /\ w.first = first /\ w.last = last
  BY DEF Header
<1> HIDE DEF f, u, z, y, t, h
<1>5. CASE ~fu
  <2>1. w.octets = <<128 * (f % 2) + 2 * (u % 64) + ((y \div 32) % 2), 8 * (y % 32) + (t % 8)>>
    BY <1>1, <1>4, <1>5 DEF SerializeH265
  <2>2. 128 * (f % 2) + 2 * (u % 64) + ((y \div 32) % 2) = a
    BY <1>2, <1>3
  <2>3. w.octets = <<a, b>>
    BY <1>3, <2>1, <2>2
  <2>4. QED
    BY <1>4, <1>5, <2>3 DEF RightHeader, Rebuild
<1>6. CASE fu
  <2> DEFINE o == FuHeaderOctet(first, last, u)
             p == 128 * (f % 2) + 2 * (49 % 64) + ((y \div 32) % 2)
             g == [h EXCEPT !.unit_type = 49]
  <2>1. FuBits(o, first, last, u)
    BY <1>2, FuOctet
  <2>2. p = 128 * f + 98 + z
    BY <1>2, <1>3
  <2>3. /\ g.forbidden_zero_bit = f /\ g.unit_type = 49
        /\ g.nuh_layer_id = y /\ g.nuh_temporal_id_plus1 = t
    BY <1>1
  <2>4. SerializeH265(g) = <<p, 8 * (y % 32) + (t % 8)>>
    <3> HIDE DEF g
    <3>1. QED
      BY <2>3 DEF SerializeH265
  <2> HIDE DEF o, p
  <2>5. h.unit_type = u
    BY <1>1
  <2>6. w.octets = <<p, b>> \o <<o>>
    BY <1>3, <1>4, <1>6, <2>4, <2>5 DEF WriteFuHeaderH265, o
  <2>7. p \in Nat /\ b \in Nat /\ o \in Nat /\ o % 64 = u
    BY <1>2, <2>1, <2>2 DEF FuBits
  <2>8. Len(w.octets) = 3 /\ w.octets[1] = p /\ w.octets[2] = b /\ w.octets[3] = o /\ Last(w.octets) = o
    <3> DEFINE q == w.octets
    <3>1. q = <<p, b>> \o <<o>>
      BY <2>6
    <3>2. <<p, b>> \in Seq(Nat) /\ <<o>> \in Seq(Nat)
      BY <2>7
    <3> HIDE DEF q
    <3>3. Behind(q, <<p, b>>, <<o>>)
      BY <3>1, <3>2, Joined
    <3>4. Len(q) = 3 /\ q[1] = p /\ q[2] = b /\ q[3] = o /\ Last(q) = o
      BY <3>3, ThreeOctets
    <3>5. QED
      BY <3>4 DEF q
  <2>9. p \div 128 = f /\ p % 2 = z /\ (p \div 2) % 64 = 49
    <3>1. p \div 2 = 64 * f + 49
      BY <1>2, <2>2
    <3>2. QED
      BY <1>2, <2>2, <3>1
  <2>10. (p \div 128) * 128 + 2 * (o % 64) + (p % 2) = a
    BY <1>2, <2>7, <2>9
  <2>11. Rebuild(w) = w.header
    <3>1. Len(w.octets) # 2
      BY <2>8
    <3>2. Rebuild(w) = <<(w.octets[1] \div 128) * 128 + 2 * (w.octets[3] % 64) + (w.octets[1] % 2), w.octets[2]>>
      BY <1>4, <1>6, <3>1, Zenon DEF Rebuild
    <3>3. QED
      BY <1>4, <2>8, <2>10, <3>2
  <2>12. FragmentMarked(w)
    <3>1. Len(w.octets) # 2
      BY <2>8
    <3>2. QED
      BY <1>4, <2>1, <2>8, <2>9, <3>1, Zenon DEF FragmentMarked, FuBits
  <2>13. QED
    BY <2>11, <2>12 DEF RightHeader
<1>7. QED
  BY <1>5, <1>6
-----------------------------------------------------------------------------
(* NalUnits: the invariant.                                                *)

OpenInv ==
    n_units # <<>> =>
        /\ IsFile(n_units) /\ Indexes(n_units, n_scan, n_table)
        /\ AllSeen(n_units) => Upto(n_units, n_table) /\ Between(n_units, n_scan, n_table)
UnitsInv ==
    /\ n_units = <<>> => n_scan = 0 /\ n_table = <<>>
    /\ OpenInv
    /\ n_wire # NoWire => RightHeader(n_wire)

LEMMA UnitsInvInit == NalInit => UnitsInv
BY DEF NalInit, UnitsInv, OpenInv

LEMMA UnitsInvOpen == ASSUME UnitsInv, Open PROVE UnitsInv'
<1>1. PICK f \in Files : n_units' = f /\ DetermineStartCode(File(f)) # 0
  BY DEF Open
<1>2. n_scan' = 0 /\ n_table' = <<>> /\ n_wire' = n_wire
  BY DEF Open, UnitsInv
<1>3. IsFile(f)
  <2>1. f \in Seq([code : {3, 4}, octets : Seq(NalOctet)]) /\ \A i \in DOMAIN f : UnitFits(f[i])
    BY NalUnitsAssumption, Zenon
  <2>2. DOMAIN f = 1 .. Len(f)
    BY <2>1, SeqFacts, Zenon
  <2>3. QED
    BY <2>1, <2>2, Zenon DEF IsFile
<1>4. f # <<>>
  BY <1>1, NoFile
<1>5. Len(File(f)) \in Nat /\ Len(f) \in Nat
  BY <1>3, FileType
<1>6. Indexes(f, 0, <<>>)
  <2>1. <<>> \in Seq(Entries) /\ 0 \in 0 .. Len(File(f)) /\ Len(<<>>) = 0
    BY <1>5
  <2>2. QED
    BY <2>1 DEF Indexes
<1>7. Upto(f, <<>>) /\ Between(f, 0, <<>>)
  <2>1. f[1].code \in {3, 4} /\ Body(f, 1) = f[1].code
    BY <1>3, <1>4, DetermineIs
  <2>2. Len(<<>>) = 0
    OBVIOUS
  <2>3. Upto(f, <<>>)
    BY <1>5, <2>2 DEF Upto
  <2>4. 0 + f[1].code <= Body(f, 0 + 1)
    BY <2>1
  <2>5. Between(f, 0, <<>>)
    BY <2>2, <2>4 DEF Between
  <2>6. QED
    BY <2>3, <2>5
<1>8. OpenInv'
  BY <1>1, <1>2, <1>3, <1>6, <1>7 DEF OpenInv
<1>9. QED
  BY <1>1, <1>2, <1>4, <1>8 DEF UnitsInv

LEMMA UnitsInvScan == ASSUME UnitsInv, Scan PROVE UnitsInv'
<1>1. n_units # <<>>
  <2>1. SUFFICES ASSUME n_units = <<>> PROVE FALSE
    OBVIOUS
  <2>2. n_scan = 0 /\ n_scan < Len(File(<<>>))
    BY <2>1 DEF UnitsInv, Scan
  <2>3. QED
    BY <2>2, NoFile
<1>2. /\ IsFile(n_units) /\ Indexes(n_units, n_scan, n_table)
      /\ AllSeen(n_units) => Upto(n_units, n_table) /\ Between(n_units, n_scan, n_table)
  BY <1>1 DEF UnitsInv, OpenInv
<1>3. n_scan \in Nat
  BY <1>2 DEF Indexes
<1>4. /\ n_units' = n_units /\ n_wire' = n_wire /\ n_scan < Len(File(n_units))
      /\ \/ \E i \in 1 .. Len(n_units) : Finds(n_units, n_scan, n_table, n_scan', n_table', i)
         \/ Passes(n_units, n_scan, n_table, n_scan', n_table')
  BY <1>1, <1>2, <1>3, ScanIs
<1>5. Indexes(n_units, n_scan', n_table')
  BY <1>1, <1>2, <1>4, IndexesFinds, IndexesPasses
<1>6. AllSeen(n_units) => Upto(n_units, n_table') /\ Between(n_units, n_scan', n_table')
  BY <1>1, <1>2, <1>4, AllFinds, AllPasses
<1>7. OpenInv'
  BY <1>2, <1>4, <1>5, <1>6 DEF OpenInv
<1>8. QED
  BY <1>1, <1>4, <1>7 DEF UnitsInv

\* What SendHeader leaves alone, and what it sends.
LEMMA SendHeaderIs ==
    ASSUME NEW header, SendHeader(header),
           (\E x \in 0 .. 127 : header = <<x>>) \/ (\E a, b \in NalOctet : header = <<a, b>>)
    PROVE  UNCHANGED <<n_units, n_scan, n_table>> /\ RightHeader(n_wire')
<1> DEFINE h264 == ParseH264(header[1])
           h265 == ParseH265(header)
<1>1. PICK fu \in BOOLEAN, first \in BOOLEAN, last \in BOOLEAN :
          /\ n_wire' = Header(IF Len(header) = 1
                              THEN IF fu THEN WriteFuHeaderH264(h264, first, last) ELSE SerializeH264(h264)
                              ELSE IF fu THEN WriteFuHeaderH265(h265, first, last) ELSE SerializeH265(h265),
                              header, fu, first, last)
          /\ UNCHANGED <<n_units, n_scan, n_table>>
  BY Zenon DEF SendHeader, Header
<1>2. CASE \E x \in 0 .. 127 : header = <<x>>
  <2>1. PICK x \in 0 .. 127 : header = <<x>>
    BY <1>2
  <2>2. Len(header) = 1 /\ header[1] = x
    BY <2>1
  <2>3. n_wire' = Header(IF fu THEN WriteFuHeaderH264(ParseH264(x), first, last)
                         ELSE SerializeH264(ParseH264(x)), <<x>>, fu, first, last)
    BY <1>1, <2>1, <2>2, Zenon
  <2>4. RightHeader(n_wire')
    BY <2>3, H264Right
  <2>5. QED
    BY <1>1, <2>4
<1>3. CASE \E a, b \in NalOctet : header = <<a, b>>
  <2>1. PICK a \in NalOctet, b \in NalOctet : header = <<a, b>>
    BY <1>3
  <2>2. Len(header) # 1
    BY <2>1, TwoOctets, Zenon
  <2>3. n_wire' = Header(IF fu THEN WriteFuHeaderH265(ParseH265(<<a, b>>), first, last)
                         ELSE SerializeH265(ParseH265(<<a, b>>)), <<a, b>>, fu, first, last)
    BY <1>1, <2>1, <2>2, Zenon
  <2>4. RightHeader(n_wire')
    BY <2>3, H265Right, Zenon
  <2>5. QED
    BY <1>1, <2>4
<1>4. QED
  BY <1>2, <1>3

LEMMA UnitsInvSend ==
    ASSUME UnitsInv, UNCHANGED <<n_units, n_scan, n_table>>, RightHeader(n_wire')
    PROVE  UnitsInv'
BY DEF UnitsInv, OpenInv

LEMMA UnitsInvNext == UnitsInv /\ [NalUnitsNext]_nalVars => UnitsInv'
<1> SUFFICES ASSUME UnitsInv, [NalUnitsNext]_nalVars PROVE UnitsInv'
  OBVIOUS
<1>1. CASE Open
  BY <1>1, UnitsInvOpen
<1>2. CASE Scan
  BY <1>2, UnitsInvScan
<1>3. CASE n_scan = Len(File(n_units)) /\ \E i \in DOMAIN n_table : SendHeader(SubSeq(Indexed[i], 1, 1))
  <2>1. PICK i \in DOMAIN n_table : SendHeader(SubSeq(Indexed[i], 1, 1))
    BY <1>3
  <2>2. n_units # <<>>
    <3>1. SUFFICES ASSUME n_units = <<>> PROVE FALSE
      OBVIOUS
    <3>2. n_table = <<>>
      BY <3>1 DEF UnitsInv
    <3>3. QED
      BY <2>1, <3>2
  <2>3. IsFile(n_units) /\ Indexes(n_units, Len(File(n_units)), n_table)
    BY <1>3, <2>2 DEF UnitsInv, OpenInv
  <2>4. i \in 1 .. Len(n_table)
    BY <2>1, <2>3, SeqFacts DEF Indexes
  <2>5. Indexed[i] = SubSeq(File(n_units), n_table[i].data + 1, n_table[i].data + n_table[i].len)
    BY <2>1, Zenon DEF Indexed
  <2>6. \E x \in 0 .. 127 : SubSeq(Indexed[i], 1, 1) = <<x>>
    <3>1. \E x \in 0 .. 127 :
              SubSeq(SubSeq(File(n_units), n_table[i].data + 1, n_table[i].data + n_table[i].len), 1, 1) = <<x>>
      BY <2>3, <2>4, IndexedHeader
    <3>2. QED
      BY <2>5, <3>1
  <2> DEFINE header == SubSeq(Indexed[i], 1, 1)
  <2> HIDE DEF header
  <2>7. UNCHANGED <<n_units, n_scan, n_table>> /\ RightHeader(n_wire')
    <3>1. SendHeader(header) /\ \E x \in 0 .. 127 : header = <<x>>
      BY <2>1, <2>6 DEF header
    <3>2. QED
      BY <3>1, SendHeaderIs
  <2>8. QED
    BY <2>7, UnitsInvSend
<1>4. CASE n_units = <<>> /\ \E header \in H265Headers : SendHeader(header)
  <2>1. PICK header \in H265Headers : SendHeader(header)
    BY <1>4
  <2>2. \E a, b \in NalOctet : header = <<a, b>>
    BY <2>1, NalUnitsAssumption
  <2>3. UNCHANGED <<n_units, n_scan, n_table>> /\ RightHeader(n_wire')
    BY <2>1, <2>2, SendHeaderIs
  <2>4. QED
    BY <2>3, UnitsInvSend
<1>5. CASE UNCHANGED nalVars
  BY <1>5 DEF nalVars, UnitsInv, OpenInv
<1>6. QED
  BY <1>1, <1>2, <1>3, <1>4, <1>5 DEF NalUnitsNext

\* The units of a file whose start codes are all seen.
LEMMA IndexedIs ==
    ASSUME NEW us, IsFile(us), us # <<>>, AllSeen(us), NEW t,
           Indexes(us, Len(File(us)), t), Upto(us, t), Between(us, Len(File(us)), t)
    PROVE  /\ Len(t) = Len(us)
           /\ \A i \in 1 .. Len(us) :
                  SubSeq(File(us), t[i].data + 1, t[i].data + t[i].len) =
                      us[i].octets \o (IF i < Len(us) /\ us[1].code = 3 /\ us[i + 1].code = 4
                                       THEN <<0>> ELSE <<>>)
<1> DEFINE d == File(us)
           D == Len(d)
           N == Len(us)
           n == Len(t)
           k == us[1].code
<1>1. N \in Nat /\ D \in Nat /\ D = EndOf(us, N) /\ n \in Nat /\ n <= N /\ k \in {3, 4} /\ N >= 1
  BY FileType, DetermineIs, SeqFacts DEF Upto, Indexes, IsFile
<1>2. n = N
  <2>1. SUFFICES ASSUME n < N PROVE FALSE
    BY <1>1
  <2>2. n + 1 \in 1 .. N
    BY <1>1, <2>1
  <2>3. D + k <= Body(us, n + 1)
    BY <2>1 DEF Between
  <2>4. Body(us, n + 1) \in Nat /\ Body(us, n + 1) + Len(us[n + 1].octets) <= D
    BY <2>2, InFile
  <2>5. Len(us[n + 1].octets) \in Nat
    BY <2>2, FileFacts
  <2> HIDE DEF D, k, n, N
  <2>6. QED
    BY <1>1, <2>3, <2>4, <2>5
<1>3. ASSUME NEW i \in 1 .. N
      PROVE  SubSeq(d, t[i].data + 1, t[i].data + t[i].len) =
                 us[i].octets \o (IF i < N /\ k = 3 /\ us[i + 1].code = 4 THEN <<0>> ELSE <<>>)
  <2> DEFINE o == us[i].octets
             z == IF i < N /\ k = 3 /\ us[i + 1].code = 4 THEN <<0>> ELSE <<>>
             b == Body(us, i)
             q == o \o z
  <2>1. t[i].data = b /\ (i < n => t[i].len = Body(us, i + 1) - k - b)
    BY <1>2 DEF Upto
  <2>2. /\ b \in Nat /\ EndOf(us, i) = b + Len(o) /\ EndOf(us, i) \in Nat
        /\ \A j \in 1 .. Len(o) : d[b + j] = o[j]
    BY InFile
  <2>3. o \in Seq(NalOctet) /\ Len(o) \in Nat
    BY FileFacts
  <2>4. z \in Seq(NalOctet)
    <3>1. <<0>> \in Seq(NalOctet) /\ <<>> \in Seq(NalOctet)
      BY SMT DEF NalOctet
    <3>2. QED
      BY <3>1, Zenon
  <2>5. q \in Seq(NalOctet) /\ Behind(q, o, z)
    BY <2>3, <2>4, Joined
  <2>6. i < N => /\ i + 1 \in 1 .. N /\ us[i + 1].code \in {3, 4} /\ us[i + 1].code >= k
                 /\ Body(us, i + 1) = EndOf(us, i) + us[i + 1].code
                 /\ d[EndOf(us, i) + 1] = 0
    <3>1. SUFFICES ASSUME i < N PROVE i + 1 \in 1 .. N /\ us[i + 1].code \in {3, 4} /\ us[i + 1].code >= k
                 /\ Body(us, i + 1) = EndOf(us, i) + us[i + 1].code
                 /\ d[EndOf(us, i) + 1] = 0
      OBVIOUS
    <3> DEFINE j == i + 1
    <3>2. j \in 1 .. N /\ j - 1 = i
      BY <1>1, <3>1
    <3> HIDE DEF j
    <3>3. us[j].code \in {3, 4} /\ us[j].code >= k
      BY <3>2, FileFacts DEF AllSeen
    <3>4. Body(us, j) = EndOf(us, i) + us[j].code
      BY <3>2 DEF Body
    <3>5. \A x \in 1 .. us[j].code - 1 : d[EndOf(us, j - 1) + x] = 0
      BY <3>2, InFile
    <3>6. 1 \in 1 .. us[j].code - 1
      BY <3>3
    <3>7. d[EndOf(us, i) + 1] = 0
      BY <3>2, <3>5, <3>6
    <3>8. QED
      BY <3>2, <3>3, <3>4, <3>7 DEF j
  <2>7. i = N => t[i].len = D - b
    <3>1. n >= 1
      BY <1>1, <1>2
    <3>2. QED
      BY <1>2, <3>1 DEF Between
  <2>8. i = N => D = EndOf(us, i)
    BY <1>1
  <2>9. Len(z) = IF i < N /\ k = 3 /\ us[i + 1].code = 4 THEN 1 ELSE 0
    OBVIOUS
  <2>10. Len(z) = 1 => i < N /\ z[1] = 0
    OBVIOUS
  <2>11. Len(z) \in {0, 1}
    OBVIOUS
  <2> HIDE DEF o, z, b, q, d, D, N, n, k
  <2>12. t[i].len = Len(o) + Len(z)
    <3>1. CASE i = N
      <4>1. Len(z) = 0
        BY <1>1, <2>9, <3>1
      <4>2. QED
        BY <2>2, <2>3, <2>7, <2>8, <3>1, <4>1
    <3>2. CASE i # N
      <4>1. i < N /\ i < n
        BY <1>1, <1>2, <3>2
      <4> DEFINE c == us[i + 1].code
                 e == EndOf(us, i)
                 y == Body(us, i + 1)
      <4>2. t[i].len = y - k - b /\ y = e + c
        BY <2>1, <2>6, <4>1
      <4>3. c - k = Len(z) /\ c \in {3, 4}
        BY <1>1, <2>6, <2>9, <4>1
      <4>4. e = b + Len(o) /\ e \in Nat /\ b \in Nat
        BY <2>2
      <4> HIDE DEF c, e, y
      <4>5. QED
        BY <1>1, <2>3, <4>2, <4>3, <4>4
    <3>3. QED
      BY <3>1, <3>2
  <2>13. Len(q) = Len(o) + Len(z)
    BY <2>5 DEF Behind
  <2>14. ASSUME NEW j \in 1 .. Len(q) PROVE d[b + j] = q[j]
    <3>1. \/ j \in 1 .. Len(o) /\ q[j] = o[j]
          \/ j - Len(o) \in 1 .. Len(z) /\ j = Len(o) + (j - Len(o)) /\ q[j] = z[j - Len(o)]
      BY <2>5, BehindPlaces
    <3>2. CASE j \in 1 .. Len(o) /\ q[j] = o[j]
      BY <2>2, <3>2
    <3>3. CASE j - Len(o) \in 1 .. Len(z) /\ q[j] = z[j - Len(o)]
      <4>1. Len(z) = 1 /\ j - Len(o) = 1
        <5> DEFINE x == j - Len(o)
                   l == Len(z)
        <5>1. x \in 1 .. l /\ l \in {0, 1}
          BY <2>11, <3>3, Zenon
        <5> HIDE DEF x, l
        <5>2. x = 1 /\ l = 1
          BY <5>1
        <5>3. QED
          BY <5>2 DEF x, l
      <4>2. q[j] = 0 /\ i < N
        BY <2>10, <3>3, <4>1
      <4>3. b + j = EndOf(us, i) + 1
        <5> DEFINE e == EndOf(us, i)
                   l == Len(o)
        <5>1. e = b + l /\ b \in Nat /\ l \in Nat
          BY <2>2, <2>3
        <5>2. j - l = 1 /\ j \in Int
          BY <4>1
        <5> HIDE DEF e, l
        <5>3. b + j = e + 1
          BY <5>1, <5>2
        <5>4. QED
          BY <5>3 DEF e
      <4>4. QED
        BY <2>6, <4>2, <4>3
    <3>4. QED
      BY <3>1, <3>2, <3>3
  <2>15. SubSeq(d, b + 1, b + Len(q)) = q
    BY <2>2, <2>5, <2>14, CutOut
  <2>16. QED
    BY <2>1, <2>12, <2>13, <2>15 DEF q, o, z
<1>4. QED
  BY <1>2, <1>3

LEMMA UnitsInvExact == UnitsInv => UnitsExact
<1> SUFFICES ASSUME UnitsInv PROVE UnitsExact
  OBVIOUS
<1>1. n_wire # NoWire => Rebuild(n_wire) = n_wire.header /\ (n_wire.fu => FragmentMarked(n_wire))
  BY DEF UnitsInv, RightHeader
<1> DEFINE codes == {n_units[i].code : i \in DOMAIN n_units}
           zero(i) == IF codes = {3, 4} /\ i < Len(n_units) /\ n_units[i + 1].code = 4
                      THEN <<0>> ELSE <<>>
           units == [i \in DOMAIN n_units |-> n_units[i].octets \o zero(i)]
<1>2. ASSUME n_units # <<>>, n_scan = Len(File(n_units)), ~(n_units[1].code = 4 /\ codes = {3, 4})
      PROVE  Indexed = units
  <2> DEFINE N == Len(n_units)
             k == n_units[1].code
  <2>1. IsFile(n_units) /\ Indexes(n_units, Len(File(n_units)), n_table)
    BY <1>2 DEF UnitsInv, OpenInv
  <2>2. /\ DOMAIN n_units = 1 .. N /\ N \in Nat
        /\ \A i \in 1 .. N : n_units[i].code \in {3, 4}
    BY <2>1, FileFacts, SeqFacts DEF IsFile
  <2>3. 1 \in 1 .. N /\ k \in {3, 4}
    BY <1>2, <2>1, DetermineIs
  <2>4. AllSeen(n_units)
    <3>1. SUFFICES ASSUME NEW i \in 1 .. N, ~(n_units[i].code >= k) PROVE FALSE
      BY DEF AllSeen
    <3>2. k = 4 /\ n_units[i].code = 3
      BY <2>2, <2>3, <3>1
    <3>3. 3 \in codes /\ 4 \in codes /\ codes \subseteq {3, 4}
      BY <2>2, <2>3, <3>2
    <3>4. QED
      BY <1>2, <3>2, <3>3
  <2>5. Upto(n_units, n_table) /\ Between(n_units, Len(File(n_units)), n_table)
    BY <1>2, <2>4 DEF UnitsInv, OpenInv
  <2>6. /\ Len(n_table) = N
        /\ \A i \in 1 .. N :
               SubSeq(File(n_units), n_table[i].data + 1, n_table[i].data + n_table[i].len) =
                   n_units[i].octets \o (IF i < N /\ k = 3 /\ n_units[i + 1].code = 4 THEN <<0>> ELSE <<>>)
    BY <1>2, <2>1, <2>4, <2>5, IndexedIs
  <2>7. DOMAIN n_table = 1 .. N
    BY <2>1, <2>6, SeqFacts DEF Indexes
  <2>8. ASSUME NEW i \in 1 .. N
        PROVE  zero(i) = IF i < N /\ k = 3 /\ n_units[i + 1].code = 4 THEN <<0>> ELSE <<>>
    <3>1. CASE i < N /\ n_units[i + 1].code = 4
      <4>1. i + 1 \in 1 .. N
        BY <2>2, <3>1
      <4>2. 4 \in codes /\ codes \subseteq {3, 4} /\ k \in codes
        BY <2>2, <2>3, <3>1, <4>1
      <4>3. codes = {3, 4} <=> k = 3
        BY <1>2, <2>3, <4>2
      <4> HIDE DEF codes, k
      <4>4. QED
        BY <4>3, <3>1, Zenon
    <3>2. CASE ~(i < N /\ n_units[i + 1].code = 4)
      <4> HIDE DEF codes, k
      <4>1. QED
        BY <3>2, Zenon
    <3>3. QED
      BY <3>1, <3>2
  <2> HIDE DEF codes, k, zero
  <2>9. \A i \in 1 .. N : Indexed[i] = units[i]
    BY <2>2, <2>6, <2>7, <2>8, Zenon DEF Indexed
  <2>10. Indexed = [i \in 1 .. N |-> Indexed[i]] /\ units = [i \in 1 .. N |-> units[i]]
    BY <2>2, <2>7 DEF Indexed
  <2> HIDE DEF units
  <2>11. [i \in 1 .. N |-> Indexed[i]] = [i \in 1 .. N |-> units[i]]
    BY <2>9, Zenon
  <2>12. QED
    BY <2>10, <2>11, Zenon
<1>3. QED
  BY <1>1, <1>2, Zenon DEF UnitsExact

\* For every file of H.264 units and every header: the index of the server has
\* each unit once, in order and whole where the start codes are of one kind or
\* the file begins with the short one, and a receiver gets the header of the
\* unit back from each packet of it.
THEOREM NalUnitsExact == NalUnitsSpec => []UnitsExact
<1>1. NalInit => UnitsInv
  BY UnitsInvInit
<1>2. UnitsInv /\ [NalUnitsNext]_nalVars => UnitsInv'
  BY UnitsInvNext
<1>3. UnitsInv => UnitsExact
  BY UnitsInvExact
<1>4. QED
  BY <1>1, <1>2, <1>3, PTL DEF NalUnitsSpec
=============================================================================
